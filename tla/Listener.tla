------------------------------ MODULE Listener ------------------------------
(***************************************************************************)
(* The accepting side of src/main/connection_listener: an ExchangeMsg for  *)
(* every accepted socket (exchange_msg.rs) and its CheckReachability       *)
(* children (check_reachability.rs).  The request that is read, and the    *)
(* outcome of the checks on it that do not concern connections (name hash, *)
(* whitelists, accept_bootstrap, our own id), are inputs.  The outcomes of *)
(* socket.write are                                                        *)
(*   "done"     Ok(true): all of the reply is written                      *)
(*   "partial"  Ok(false): the rest waits for the socket to be writable    *)
(*   "error"    Err                                                        *)
(***************************************************************************)
EXTENDS Connect

WriteOutcome == {"done", "partial", "error"}

ListenerExchangeState == [NoState EXCEPT !.kind = "ListenerExchange"]

CheckReachabilityState(p, parent) ==
    [NoState EXCEPT !.kind = "CheckReachability", !.their_id = p, !.parent = parent,
                    !.interest = "writable"]

-----------------------------------------------------------------------------

\* A mistaken start: no timeout is set.
ListenerExchangeStartUntimed(c, registered) ==
    LET counted == GetNewTokens(c, 1)
    IN  IF registered
        THEN InsertState(counted, c.token_counter, ListenerExchangeState)
        ELSE counted

\* ConnectionListener::accept gives the socket to ExchangeMsg::start.
ListenerExchangeStart(c, registered) ==
    LET t == c.token_counter
        counted == GetNewTokens(c, 1)
    IN  IF registered
        THEN SetTimeout(InsertState(counted, t, ListenerExchangeState), t, 0)
        ELSE counted

CheckReachabilityTerminate(c, ts) == RemoveStates(CancelTimeouts(c, ts, 0), ts)

\* terminate_childern [sic]; s is the ExchangeMsg, whose reachability_children
\* are drained, which matters only if it lives on (Drain)
TerminateReachabilityChildren(c, s) ==
    CheckReachabilityTerminate(c, {u \in s.children : c.states[u].kind # "none"})

Drain(c, t) == [c EXCEPT !.states[t].children = {}]

\* A mistaken terminate: the handshake stays counted.
ListenerTerminateKeepsCount(c, t, s) ==
    CancelTimeout(RemoveState(TerminateReachabilityChildren(c, s), t), t, 0)

ListenerTerminate(c, t, s) ==
    LET ended == CancelTimeout(RemoveState(TerminateReachabilityChildren(c, s), t), t, 0)
    IN  IF s.next_state = "None" THEN ended
        ELSE [ended EXCEPT !.cm = Leave(@, s.their_id)]

ListenerDone(c, t, registered, outcome) ==
    LET s == c.states[t]
        removed == CancelTimeout(RemoveState(c, t), t, 0)
    IN  CASE s.next_state = "ActiveConnection" ->
               ActiveStart(removed, t, s.their_id, "BootstrapAccept", outcome)
          [] s.next_state = "ConnectionCandidate" ->
               CandidateStart(removed, t, s.their_id, NoToken, registered)
          [] OTHER -> ListenerTerminate(removed, t, s)

\* write: a bootstrapper that is connected by now is turned away, even when
\* its grant has been written in part.
ListenerWrite(c, t, io, registered, outcome) ==
    LET s == c.states[t]
        busy == s.next_state = "ActiveConnection" /\ IsActive(c.cm, s.their_id)
    IN  IF busy \/ io = "error" THEN ListenerTerminate(c, t, s)
        ELSE IF io = "done" THEN ListenerDone(c, t, registered, outcome)
        ELSE Reregister(c, t, "writable")

\* enter_handshaking_mode, then next_state
EnterHandshakingMode(c, t, p, next) ==
    [c EXCEPT !.cm = Enter(@, p),
              !.states[t].next_state = next,
              !.states[t].their_id = p]

SendBootstrapGrant(c, t, p, io, outcome) ==
    ListenerWrite(EnterHandshakingMode(c, t, p, "ActiveConnection"), t, io, FALSE, outcome)

HandleConnect(c, t, p, io, registered) ==
    ListenerWrite(EnterHandshakingMode(c, t, p, "ConnectionCandidate"), t, io, registered, "ok")

\* BootstrapDenied is written, and done goes on to next_state: the state ends,
\* unless an earlier request was granted and its reply is still being written.
SendBootstrapDenied(c, t, io, registered, outcome) == ListenerWrite(c, t, io, registered, outcome)

\* EchoAddrResp is written and the state ends.
HandleEchoAddrReq(c, t, io) ==
    ListenerWrite([c EXCEPT !.states[t].next_state = "None"], t, io, FALSE, "ok")

\* handle_bootstrap_req with n CheckReachability states started (a listener
\* whose check cannot be started is as good as not listed); the bootstrapper is
\* denied when the ExchangeMsg has no check at all: SendBootstrapDenied.
HandleBootstrapReqCheck(c, t, p, n) ==
    LET children == c.token_counter .. (c.token_counter + n - 1)
        checked  == [c EXCEPT !.states = [u \in Token |->
                        CASE u \in children -> CheckReachabilityState(p, t)
                          [] u = t          -> [@[t] EXCEPT !.children = @ \cup children]
                          [] OTHER          -> @[u]]]
    IN  GetNewTokens(SetTimeouts(checked, children, 0), n)

\* handle_check_reachability
HandleCheckReachability(c, parent, t, p, reached, io, registered, outcome) ==
    LET removed == RemoveChild(c, parent, t)
        s       == removed.states[parent]
        drained == Drain(TerminateReachabilityChildren(removed, s), parent)
    IN  IF ~Live(c, parent, "ListenerExchange") THEN c
        ELSE IF reached THEN SendBootstrapGrant(drained, parent, p, io, outcome)
        ELSE IF s.children = {} THEN SendBootstrapDenied(removed, parent, io, registered, outcome)
        ELSE removed

\* handle_success and handle_error of a CheckReachability
CheckReachabilityFinish(c, t, reached, io, registered, outcome) ==
    LET s == c.states[t]
    IN  HandleCheckReachability(CheckReachabilityTerminate(c, {t}), s.parent, t,
                                s.their_id, reached, io, registered, outcome)

=============================================================================
