-------------------------- MODULE ActiveConnection --------------------------
(***************************************************************************)
(* src/main/active_connection.rs: the last state of every connection.      *)
(* What is read and written is left to the environment: a socket call is   *)
(* an outcome.  The outcomes of ActiveConnection::start are                *)
(*   "ok"             both heartbeat timers are set, the read that follows *)
(*                    finds at most complete messages                      *)
(*   "read_error"     as "ok", but the read that start ends with fails     *)
(*   "no_recv_timer"  Heartbeat::new fails on its first set_timeout        *)
(*   "no_send_timer"  Heartbeat::new fails on its second set_timeout: the  *)
(*                    first timer is left running, nobody holds it         *)
(***************************************************************************)
EXTENDS Core

StartOutcome == {"ok", "read_error", "no_recv_timer", "no_send_timer"}

ActiveState(p) == [NoState EXCEPT !.kind = "ActiveConnection", !.their_id = p]

HeartbeatTerminate(c, t) == CancelTimeout(CancelTimeout(c, t, 0), t, 1)

\* A mistaken terminate: LostPeer is not sent.
ActiveTerminateSilently(c, t, p) ==
    LET removed == RemoveState(HeartbeatTerminate(c, t), t)
    IN  [removed EXCEPT !.cm = Deactivate(@, p)]

\* A mistaken terminate: the heartbeat is not terminated.
ActiveTerminateKeepsTimers(c, t, p) ==
    LET removed == RemoveState(c, t)
    IN  LostPeer([removed EXCEPT !.cm = Deactivate(@, p)], p)

\* A mistaken terminate: the ConnectionMap is not told.
ActiveTerminateForgetsMap(c, t, p) ==
    LostPeer(RemoveState(HeartbeatTerminate(c, t), t), p)

\* A mistaken terminate: the newest token is given back.
ActiveTerminateRecycles(c, t, p) ==
    LET removed == RemoveState(HeartbeatTerminate(c, t), t)
        ended   == LostPeer([removed EXCEPT !.cm = Deactivate(@, p)], p)
    IN  [ended EXCEPT !.token_counter = IF @ = t + 1 THEN t ELSE @]

\* terminate: also called on a connection that has been terminated already
\* (p is the object's their_id, the state may be gone).
ActiveTerminate(c, t, p) ==
    LET removed == RemoveState(HeartbeatTerminate(c, t), t)
    IN  LostPeer([removed EXCEPT !.cm = Deactivate(@, p)], p)

SendEvent(c, event, p) ==
    IF event = "BootstrapConnect"
    THEN [PeerUp(c, p) EXCEPT !.user.owed = @ - 1]
    ELSE PeerUp(c, p)

\* Heartbeat::new, the state, the map, the event.
ActiveEnter(c, t, p, event) ==
    LET timed    == SetTimeouts(SetTimeout(c, t, 0), {t}, 1)
        inserted == InsertState(timed, t, ActiveState(p))
    IN  SendEvent([inserted EXCEPT !.cm = Activate(@, p, t)], event, p)

ActiveStart(c, t, p, event, outcome) ==
    CASE outcome = "no_recv_timer" -> LostPeer(c, p)
      [] outcome = "no_send_timer" -> LostPeer(LeakTimeout(c, t, 0), p)
      [] outcome = "read_error"    -> ActiveTerminate(ActiveEnter(c, t, p, event), t, p)
      [] OTHER                     -> ActiveEnter(c, t, p, event)

-----------------------------------------------------------------------------

\* ready: an error or hang-up, a failed write or a failed read end the
\* connection; a write and a read that fail in the same event (or a receive
\* timer that cannot be set again, followed by a failed read) terminate it
\* twice.  An event that fails nothing changes nothing here.
ActiveReady(c, t, twice) ==
    LET p    == c.states[t].their_id
        once == ActiveTerminate(c, t, p)
    IN  IF twice THEN ActiveTerminate(once, t, p) ELSE once

\* State::write: a failed write terminates the connection, and
\* reset_send_heartbeat then sets the send timer of the dead state.
ActiveWrite(c, t, fails) ==
    IF fails
    THEN LeakTimeout(ActiveTerminate(c, t, c.states[t].their_id), t, 1)
    ELSE c

\* timeout: the receive timer ends the connection; the send timer is set
\* again and a heartbeat is written, and either may fail.
ActiveTimeout(c, t, id, fails) ==
    IF id = 0 \/ fails
    THEN ActiveTerminate(c, t, c.states[t].their_id)
    ELSE SetTimeout(c, t, 1)

=============================================================================
