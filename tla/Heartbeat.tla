------------------------------ MODULE Heartbeat ------------------------------
(***************************************************************************)
(* The two heartbeat timers of an ActiveConnection                         *)
(* (src/src/main/active_connection.rs) at both ends of one connection, in  *)
(* discrete time.  Timers and messages carry the time they have left; a    *)
(* step of the clock waits for everything that is due, so that a message   *)
(* takes at most Latency, the delay of the event loops included.           *)
(*                                                                         *)
(* The chooser becomes active when it has written ChooseConnection, the    *)
(* other end only when it reads it.                                        *)
(***************************************************************************)
EXTENDS Naturals

CONSTANTS INACTIVITY_TIMEOUT,   \* INACTIVITY_TIMEOUT_MS
          HEARTBEAT_PERIOD,     \* HEARTBEAT_PERIOD_MS
          Latency,              \* the longest a message takes
          MaxInFlight           \* bound: messages with the same time left

(* The network is fast enough for the two periods: a message to start the  *)
(* other end, its first heartbeat, and time to spare.  (120 s against 20 s *)
(* leaves 49 s for a message.)                                             *)
ASSUME TimesAssumption ==
    /\ INACTIVITY_TIMEOUT \in Nat /\ HEARTBEAT_PERIOD \in Nat \ {0}
    /\ Latency \in Nat /\ MaxInFlight \in Nat \ {0}
    /\ HEARTBEAT_PERIOD + 2 * Latency < INACTIVITY_TIMEOUT

End == {"chooser", "chosen"}
Other(e) == IF e = "chooser" THEN "chosen" ELSE "chooser"
Delay == 0..Latency

VARIABLES state,    \* of the ActiveConnection at each end
          recv,     \* recv_timeout: time left
          send,     \* send_timeout: time left
          choose,   \* time left to the ChooseConnection message
          flight,   \* messages on their way to each end, by time left
          silence   \* history: time since an end died, as far as it matters

vars == <<state, recv, send, choose, flight, silence>>

(* joining: still a ConnectionCandidate; inactive: dropped by the timer;   *)
(* closed: dropped by the user or after the other end closed; dead: the    *)
(* process or its network is gone without a word.                          *)
State == {"joining", "up", "inactive", "closed", "dead"}

Longest == INACTIVITY_TIMEOUT + Latency + 1
NoMessages == [d \in Delay |-> 0]

(* Heartbeat::new at the chooser.                                          *)
Init ==
    /\ state = [e \in End |-> IF e = "chooser" THEN "up" ELSE "joining"]
    /\ recv = [e \in End |-> INACTIVITY_TIMEOUT]
    /\ send = [e \in End |-> HEARTBEAT_PERIOD]
    /\ choose = Latency
    /\ flight = [e \in End |-> NoMessages]
    /\ silence = 0

(* Heartbeat::new at the other end, which has read ChooseConnection.       *)
Join ==
    /\ state["chosen"] = "joining"
    /\ state' = [state EXCEPT !["chosen"] = "up"]
    /\ recv' = [recv EXCEPT !["chosen"] = INACTIVITY_TIMEOUT]
    /\ send' = [send EXCEPT !["chosen"] = HEARTBEAT_PERIOD]
    /\ UNCHANGED <<choose, flight, silence>>

(* A message leaves for the other end, which may no longer be there.       *)
Transmit(e) ==
    flight' = IF state[Other(e)] \in {"up", "joining"}
              THEN [flight EXCEPT ![Other(e)][Latency] = @ + 1]
              ELSE flight

(* timeout of the send timer: it is set again and a Heartbeat is written.  *)
SendHeartbeat(e) ==
    /\ state[e] = "up"
    /\ send[e] = 0
    /\ send' = [send EXCEPT ![e] = HEARTBEAT_PERIOD]
    /\ Transmit(e)
    /\ UNCHANGED <<state, recv, choose, silence>>

(* A mistaken SendData: both timers are reset.                             *)
SendDataResetsBoth(e) ==
    /\ state[e] = "up"
    /\ flight[Other(e)][Latency] < MaxInFlight
    /\ send' = [send EXCEPT ![e] = HEARTBEAT_PERIOD]
    /\ recv' = [recv EXCEPT ![e] = INACTIVITY_TIMEOUT]
    /\ Transmit(e)
    /\ UNCHANGED <<state, choose, silence>>

(* State::write: data is written and reset_send puts the heartbeat off.    *)
SendData(e) ==
    /\ state[e] = "up"
    /\ flight[Other(e)][Latency] < MaxInFlight
    /\ send' = [send EXCEPT ![e] = HEARTBEAT_PERIOD]
    /\ Transmit(e)
    /\ UNCHANGED <<state, recv, choose, silence>>

(* A mistaken Receive: a message does not reset the timer.                 *)
ReceiveForgetsTimer(e, d) ==
    /\ state[e] = "up"
    /\ flight[e][d] > 0
    /\ flight' = [flight EXCEPT ![e][d] = @ - 1]
    /\ UNCHANGED <<state, recv, send, choose, silence>>

(* read: a message of either kind resets the receive timer.                *)
Receive(e, d) ==
    /\ state[e] = "up"
    /\ flight[e][d] > 0
    /\ flight' = [flight EXCEPT ![e][d] = @ - 1]
    /\ recv' = [recv EXCEPT ![e] = INACTIVITY_TIMEOUT]
    /\ UNCHANGED <<state, send, choose, silence>>

Leave(e, how) ==
    /\ state' = [state EXCEPT ![e] = how]
    /\ flight' = [flight EXCEPT ![e] = NoMessages]
    /\ UNCHANGED <<recv, send, choose>>

(* timeout of the receive timer: "Dropping connection due to peer          *)
(* inactivity".                                                            *)
Inactive(e) ==
    /\ state[e] = "up"
    /\ recv[e] = 0
    /\ Leave(e, "inactive")
    /\ UNCHANGED silence

(* disconnect; or ready with hup after the other end has closed.           *)
Close(e) ==
    /\ state[e] \in {"up", "joining"}
    /\ Leave(e, "closed")
    /\ UNCHANGED silence

(* An end dies, or is cut off, without closing the connection.             *)
Die(e) ==
    /\ state[e] \in {"up", "joining"}
    /\ state[Other(e)] # "dead"
    /\ Leave(e, "dead")
    /\ silence' = 0

(* Nothing is due at an end that is there to serve it.                     *)
Idle(e) ==
    /\ state[e] = "up" => recv[e] > 0 /\ send[e] > 0 /\ flight[e][0] = 0
    /\ state[e] = "joining" => choose > 0

Later(n) == IF n = 0 THEN 0 ELSE n - 1

Tick ==
    /\ \A e \in End : Idle(e)
    /\ recv' = [e \in End |-> Later(recv[e])]
    /\ send' = [e \in End |-> Later(send[e])]
    /\ choose' = Later(choose)
    /\ flight' = [e \in End |-> [d \in Delay |->
                     IF d < Latency THEN flight[e][d + 1] ELSE 0]]
    /\ silence' = IF silence < Longest THEN silence + 1 ELSE silence
    /\ UNCHANGED state

Next ==
    \/ Join \/ Tick
    \/ \E e \in End : \/ SendHeartbeat(e) \/ SendData(e) \/ Inactive(e)
                      \/ Close(e) \/ Die(e)
                      \/ \E d \in Delay : Receive(e, d)

Spec == Init /\ [][Next]_vars

-----------------------------------------------------------------------------
(* Properties                                                              *)

(* Type invariant.                                                         *)
TypeOK ==
    /\ state \in [End -> State]
    /\ recv \in [End -> 0..INACTIVITY_TIMEOUT]
    /\ send \in [End -> 0..HEARTBEAT_PERIOD]
    /\ choose \in Delay
    /\ flight \in [End -> [Delay -> Nat]]
    /\ silence \in 0..Longest

(* A connection is dropped for inactivity only when the other end is gone: *)
(* a live end is heard in time however little its user sends, whenever it  *)
(* became active, and however data postpones its heartbeats.               *)
NoFalseInactivity ==
    \A e \in End : state[e] = "inactive" => state[Other(e)] \notin {"up", "joining"}

(* An end that dies in silence is noticed within the inactivity timeout    *)
(* and the time its last message took, however much is sent to it.         *)
DeathIsNoticed ==
    \A e \in End : state[e] = "up" /\ state[Other(e)] = "dead"
                      => recv[e] + silence <= INACTIVITY_TIMEOUT + Latency
=============================================================================
