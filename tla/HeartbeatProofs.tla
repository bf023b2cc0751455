--------------------------- MODULE HeartbeatProofs ---------------------------
(***************************************************************************)
(* Proofs about Heartbeat: for every inactivity timeout, heartbeat period  *)
(* and latency that satisfy TimesAssumption, no live peer is dropped for   *)
(* inactivity and a dead one is noticed in time.                           *)
(***************************************************************************)
EXTENDS Heartbeat, TLAPS

(* Something of the other end will arrive before the receive timer of `e'  *)
(* runs out: a message on its way, or the heartbeat it is still to send,   *)
(* or the first one it will send after it has joined.                      *)
HeardInTime(e) ==
    /\ state[Other(e)] = "up" =>
         \/ \E d \in Delay : flight[e][d] > 0 /\ d < recv[e]
         \/ send[Other(e)] + Latency < recv[e]
    /\ state[Other(e)] = "joining" => choose + HEARTBEAT_PERIOD + Latency < recv[e]

(* What is under way from an end that has died left before it did.         *)
LastWords(e) ==
    /\ \A d \in Delay : flight[e][d] > 0 => d + silence <= Latency
    /\ state[e] = "joining" => choose + silence <= Latency

(* The inductive invariant.                                                *)
IInv ==
    /\ TypeOK
    /\ state["chooser"] # "joining"
    /\ \A e \in End : state[e] = "up" => HeardInTime(e)
    /\ \A e \in End : state[Other(e)] = "dead" => LastWords(e)
    /\ NoFalseInactivity
    /\ DeathIsNoticed

(* The part of the invariant that TypeOK does not say, for one end.        *)
EndOK(e) ==
    /\ state[e] = "up" => HeardInTime(e)
    /\ state[Other(e)] = "dead" => LastWords(e)
    /\ state[e] = "inactive" => state[Other(e)] \notin {"up", "joining"}
    /\ state[e] = "up" /\ state[Other(e)] = "dead"
          => recv[e] + silence <= INACTIVITY_TIMEOUT + Latency

-----------------------------------------------------------------------------

(* The two ends of a connection are each other's other end.                *)
LEMMA OtherEnd ==
    ASSUME NEW e \in End
    PROVE  Other(e) \in End /\ Other(e) # e /\ Other(Other(e)) = e
BY DEF End, Other

(* TypeOK, for one end.                                                    *)
LEMMA TypesOf ==
    ASSUME TypeOK, NEW e \in End
    PROVE  /\ state[e] \in State /\ flight[e] \in [Delay -> Nat]
           /\ recv[e] \in Nat /\ recv[e] <= INACTIVITY_TIMEOUT
           /\ send[e] \in Nat /\ send[e] <= HEARTBEAT_PERIOD
           /\ choose \in Nat /\ choose <= Latency
           /\ silence \in Nat /\ Latency \in Delay
BY TimesAssumption DEF TypeOK, Delay, Longest

(* IInv is its type, the chooser's role and EndOK of both ends.            *)
LEMMA IInvIsPerEnd ==
    IInv <=> TypeOK /\ state["chooser"] # "joining" /\ \A e \in End : EndOK(e)
BY DEF IInv, EndOK, NoFalseInactivity, DeathIsNoticed

(* The same of the state after a step.                                     *)
LEMMA IInvAfter ==
    ASSUME TypeOK', state'["chooser"] # "joining", \A e \in End : EndOK(e)'
    PROVE  IInv'
BY DEF IInv, EndOK, NoFalseInactivity, DeathIsNoticed

(* Heartbeat::new at the chooser: the other end has the latency of the     *)
(* ChooseConnection message and a period to be heard.                      *)
LEMMA InitInv == Init => IInv
<1>. SUFFICES ASSUME Init PROVE IInv
  OBVIOUS
<1>. USE TimesAssumption
<1>1. TypeOK
  BY DEF Init, TypeOK, State, End, Delay, NoMessages, Longest
<1>2. ASSUME NEW e \in End PROVE EndOK(e)
  BY <1>2 DEF Init, EndOK, HeardInTime, LastWords, End, Other, Delay, NoMessages
<1>. QED  BY <1>1, <1>2, IInvIsPerEnd DEF Init, End

(* Heartbeat::new at the other end: both timers start in full, and what    *)
(* the chooser owes it is due within a period and the latency.             *)
LEMMA JoinInv ==
    ASSUME IInv, Join
    PROVE  IInv'
<1>. USE TimesAssumption
<1>1. TypeOK'
  BY DEF IInv, TypeOK, Join, State, End
<1>2. /\ state'["chosen"] = "up" /\ state'["chooser"] = state["chooser"]
      /\ recv'["chosen"] = INACTIVITY_TIMEOUT /\ recv'["chooser"] = recv["chooser"]
      /\ send'["chosen"] = HEARTBEAT_PERIOD /\ send'["chooser"] = send["chooser"]
      /\ state["chosen"] = "joining" /\ UNCHANGED <<choose, flight, silence>>
  BY DEF IInv, TypeOK, Join, End
<1>3. TypeOK /\ "chosen" \in End /\ "chooser" \in End
      /\ Other("chosen") = "chooser" /\ Other("chooser") = "chosen"
  BY DEF IInv, End, Other
<1>4. EndOK("chosen") /\ EndOK("chooser")
  BY <1>3, IInvIsPerEnd
<1>5. HeardInTime("chosen")'
  BY <1>2, <1>3, TypesOf DEF HeardInTime, IInv
<1>6. EndOK("chosen")'
  BY <1>2, <1>3, <1>4, <1>5, TypesOf DEF EndOK, LastWords
<1>7. EndOK("chooser")'
  BY <1>2, <1>3, <1>4, TypesOf DEF EndOK, HeardInTime, LastWords
<1>. QED  BY <1>1, <1>2, <1>6, <1>7, IInvAfter DEF IInv, End

(* A heartbeat or data that leaves an end: the message it puts on the way  *)
(* arrives before the other end's timer runs out, because the heartbeat it *)
(* replaces would have.                                                    *)
LEMMA SendInv ==
    ASSUME IInv, NEW s \in End, state[s] = "up",
           send' = [send EXCEPT ![s] = HEARTBEAT_PERIOD],
           Transmit(s),
           UNCHANGED <<state, recv, choose, silence>>
    PROVE  IInv'
<1>. USE TimesAssumption
<1>. DEFINE o == Other(s)
<1>0. o \in End /\ o # s /\ Other(o) = s
  BY OtherEnd
<1>1. /\ flight' \in [End -> [Delay -> Nat]]
      /\ flight'[s] = flight[s]
      /\ \A d \in Delay : flight'[o][d] >= flight[o][d]
      /\ state[o] \in {"up", "joining"} => flight'[o][Latency] > 0
      /\ state[o] \notin {"up", "joining"} => flight' = flight
  <2>1. TypeOK /\ flight \in [End -> [Delay -> Nat]] /\ Latency \in Delay
    BY <1>0, TypesOf DEF IInv, TypeOK
  <2>2. CASE state[o] \in {"up", "joining"}
    <3>1. flight' = [flight EXCEPT ![o][Latency] = @ + 1]
      BY <2>2 DEF Transmit
    <3>. QED  BY <1>0, <2>1, <2>2, <3>1
  <2>3. CASE state[o] \notin {"up", "joining"}
    BY <1>0, <2>1, <2>3 DEF Transmit
  <2>. QED  BY <2>2, <2>3
<1>2. TypeOK'
  <2>1. TypeOK
    BY DEF IInv
  <2>. QED  BY <1>1, <2>1 DEF TypeOK
<1>3. EndOK(s)'
  BY <1>0, <1>1, IInvIsPerEnd DEF TypeOK, EndOK, HeardInTime, LastWords, Delay
<1>4. EndOK(o)'
  <2>1. EndOK(o) /\ Latency \in Delay
    BY <1>0, IInvIsPerEnd DEF Delay
  <2>2. state[o] = "up" => HeardInTime(o)'
    <3>. SUFFICES ASSUME state[o] = "up" PROVE HeardInTime(o)'
      OBVIOUS
    <3>1. TypeOK /\ HeardInTime(o)
      BY <2>1 DEF IInv, EndOK
    <3>2. CASE \E d \in Delay : flight[o][d] > 0 /\ d < recv[o]
      <4>1. PICK d \in Delay : flight[o][d] > 0 /\ d < recv[o]
        BY <3>2
      <4>2. flight'[o][d] > 0
        BY <1>0, <1>1, <3>1, <4>1, TypesOf
      <4>. QED  BY <1>0, <4>1, <4>2 DEF HeardInTime
    <3>3. CASE send[s] + Latency < recv[o]
      <4>1. Latency < recv[o]
        BY <1>0, <3>1, <3>3, TypesOf
      <4>. QED  BY <1>0, <1>1, <2>1, <4>1 DEF HeardInTime
    <3>. QED  BY <1>0, <3>1, <3>2, <3>3 DEF HeardInTime
  <2>. QED  BY <1>0, <1>1, <2>1, <2>2 DEF IInv, TypeOK, EndOK, LastWords
<1>5. \A e \in End : e = s \/ e = o
  BY DEF End, Other
<1>. QED  BY <1>2, <1>3, <1>4, <1>5, IInvAfter DEF IInv

(* read: the receive timer starts in full, longer than the other end's     *)
(* period and the latency; a last word leaves the timer within the bound.  *)
LEMMA ReceiveInv ==
    ASSUME IInv, NEW r \in End, NEW d \in Delay, Receive(r, d)
    PROVE  IInv'
<1>. USE TimesAssumption
<1>. DEFINE o == Other(r)
<1>0. o \in End /\ o # r /\ Other(o) = r
  BY OtherEnd
<1>1. /\ flight' \in [End -> [Delay -> Nat]]
      /\ flight'[o] = flight[o]
      /\ \A c \in Delay : flight'[r][c] <= flight[r][c]
      /\ flight[r][d] > 0 /\ recv'[r] = INACTIVITY_TIMEOUT /\ recv'[o] = recv[o]
  <2>1. /\ TypeOK /\ flight \in [End -> [Delay -> Nat]]
        /\ recv \in [End -> 0..INACTIVITY_TIMEOUT]
    BY DEF IInv, TypeOK
  <2>2. flight[r][d] \in Nat /\ flight[r][d] > 0
    BY <2>1, TypesOf DEF Receive
  <2>3. flight' = [flight EXCEPT ![r][d] = @ - 1]
    BY DEF Receive
  <2>. QED  BY <1>0, <2>1, <2>2, <2>3 DEF Receive
<1>t. TypeOK
  BY DEF IInv
<1>2. TypeOK'
  BY <1>1, <1>t DEF TypeOK, Receive
<1>3. EndOK(r)'
  <2>1. EndOK(r) /\ send[o] <= HEARTBEAT_PERIOD /\ choose <= Latency
    BY <1>0, IInvIsPerEnd DEF TypeOK, Delay
  <2>2. /\ send'[o] + Latency < recv'[r]
        /\ choose' + HEARTBEAT_PERIOD + Latency < recv'[r]
    BY <1>0, <1>1, <1>t, <2>1, TypesOf DEF Receive
  <2>3. HeardInTime(r)'
    BY <2>2 DEF HeardInTime
  <2>4. state[o] = "dead" => LastWords(r)' /\ silence <= Latency
    <3>. SUFFICES ASSUME state[o] = "dead"
                  PROVE  LastWords(r)' /\ silence <= Latency
      OBVIOUS
    <3>1. LastWords(r) /\ d \in Nat
      BY <2>1 DEF EndOK, Delay
    <3>2. ASSUME NEW c \in Delay, flight'[r][c] > 0 PROVE flight[r][c] > 0
      BY <1>1, <1>t, <3>2, TypesOf
    <3>. QED  BY <1>1, <1>t, <3>1, <3>2, TypesOf DEF LastWords, Receive
  <2>. QED  BY <1>0, <1>1, <1>t, <2>1, <2>3, <2>4, TypesOf DEF EndOK, Receive
<1>4. EndOK(o)'
  BY <1>0, <1>1, IInvIsPerEnd DEF TypeOK, EndOK, HeardInTime, LastWords, Receive, Delay
<1>5. \A e \in End : e = r \/ e = o
  BY DEF End, Other
<1>. QED  BY <1>2, <1>3, <1>4, <1>5, IInvAfter DEF IInv, Receive

(* The connection ends here for one of the three reasons; the receive      *)
(* timer of an end runs out only if nothing is to come from the other.     *)
LEMMA LeaveInv ==
    ASSUME IInv, NEW l \in End, NEW how \in {"inactive", "closed", "dead"},
           state[l] \in {"up", "joining"},
           Leave(l, how),
           how = "inactive" => state[l] = "up" /\ recv[l] = 0,
           IF how = "dead" THEN state[Other(l)] # "dead" /\ silence' = 0
                           ELSE UNCHANGED silence
    PROVE  IInv'
<1>. USE TimesAssumption
<1>. DEFINE o == Other(l)
<1>0. o \in End /\ o # l /\ Other(o) = l
  BY OtherEnd
<1>1. /\ state' \in [End -> State] /\ state'[l] = how /\ state'[o] = state[o]
      /\ flight' \in [End -> [Delay -> Nat]]
      /\ flight'[l] = NoMessages /\ flight'[o] = flight[o]
  BY <1>0 DEF IInv, TypeOK, Leave, State, NoMessages
<1>2. TypeOK'
  BY <1>1 DEF IInv, TypeOK, Leave, Longest
<1>3. how = "inactive" => state[o] \notin {"up", "joining"}
  <2>. SUFFICES ASSUME how = "inactive" PROVE state[o] \notin {"up", "joining"}
    OBVIOUS
  <2>1. HeardInTime(l) /\ TypeOK /\ recv[l] = 0
    BY IInvIsPerEnd DEF EndOK
  <2>2. \A d \in Delay : ~ d < recv[l]
    BY <2>1 DEF Delay
  <2>3. ~ send[o] + Latency < recv[l] /\ ~ choose + HEARTBEAT_PERIOD + Latency < recv[l]
    BY <1>0, <2>1, TypesOf
  <2>. QED  BY <2>1, <2>2, <2>3 DEF HeardInTime
<1>4. EndOK(l)'
  BY <1>0, <1>1, <1>3 DEF EndOK, LastWords, NoMessages
<1>5. EndOK(o)'
  <2>1. EndOK(o) /\ EndOK(l)
    BY <1>0, IInvIsPerEnd
  <2>2. how = "dead" => LastWords(o)'
    BY <1>0, <1>1, <1>2 DEF TypeOK, LastWords, Delay
  <2>3. how = "dead" => recv'[o] + silence' <= INACTIVITY_TIMEOUT + Latency
    BY <1>0, <1>2 DEF TypeOK
  <2>. QED
    BY <1>0, <1>1, <1>3, <2>1, <2>2, <2>3 DEF EndOK, HeardInTime, LastWords, Leave
<1>6. \A e \in End : e = l \/ e = o
  BY DEF End, Other
<1>7. state'["chooser"] # "joining"
  BY <1>1, <1>6 DEF IInv, End
<1>. QED  BY <1>2, <1>4, <1>5, <1>6, <1>7, IInvAfter

(* A step of the clock: every time left that matters is still positive,    *)
(* because nothing is due at an end that is there, so both sides of every  *)
(* inequality go down together.                                            *)
LEMMA TickInv ==
    ASSUME IInv, Tick
    PROVE  IInv'
<1>. USE TimesAssumption
<1>1. TypeOK'
  <2>1. TypeOK /\ choose' \in Delay /\ silence' \in 0..Longest /\ state' = state
    BY DEF IInv, TypeOK, Tick, Later, Delay, Longest
  <2>2. recv' \in [End -> 0..INACTIVITY_TIMEOUT] /\ send' \in [End -> 0..HEARTBEAT_PERIOD]
    <3>1. \A e \in End : /\ Later(recv[e]) \in 0..INACTIVITY_TIMEOUT
                         /\ Later(send[e]) \in 0..HEARTBEAT_PERIOD
      BY <2>1, TypesOf DEF Later
    <3>. QED  BY <3>1 DEF Tick
  <2>3. flight' \in [End -> [Delay -> Nat]]
    BY <2>1, TypesOf DEF Tick, Delay
  <2>. QED  BY <2>1, <2>2, <2>3 DEF TypeOK
<1>2. ASSUME NEW e \in End PROVE EndOK(e)'
  <2>. DEFINE o == Other(e)
  <2>0. o \in End /\ o # e /\ Other(o) = e
    BY OtherEnd
  <2>1. /\ EndOK(e) /\ state' = state
        /\ recv'[e] = Later(recv[e]) /\ send'[o] = Later(send[o])
        /\ choose' = Later(choose) /\ silence' <= silence + 1
        /\ \A d \in Delay : flight'[e][d] = IF d < Latency THEN flight[e][d + 1] ELSE 0
        /\ Idle(e) /\ Idle(o)
    BY <2>0, IInvIsPerEnd DEF TypeOK, Tick, Longest
  <2>2. state[e] = "up" => HeardInTime(e)'
    <3>. SUFFICES ASSUME state[e] = "up" PROVE HeardInTime(e)'
      OBVIOUS
    <3>0. /\ HeardInTime(e) /\ recv[e] \in Nat /\ recv'[e] = recv[e] - 1
          /\ flight[e][0] = 0 /\ send[o] \in Nat /\ choose \in Nat
      BY <2>0, <2>1 DEF IInv, TypeOK, EndOK, Idle, Later, Delay
    <3>1. ASSUME NEW d \in Delay, flight[e][d] > 0, d < recv[e]
          PROVE  d - 1 \in Delay /\ flight'[e][d - 1] > 0 /\ d - 1 < recv'[e]
      BY <2>1, <3>0, <3>1 DEF Delay
    <3>2. ASSUME state[o] = "up", send[o] + Latency < recv[e]
          PROVE  send'[o] + Latency < recv'[e]
      BY <2>1, <3>0, <3>2 DEF Idle, Later
    <3>3. ASSUME state[o] = "joining", choose + HEARTBEAT_PERIOD + Latency < recv[e]
          PROVE  choose' + HEARTBEAT_PERIOD + Latency < recv'[e]
      BY <2>1, <3>0, <3>3 DEF Idle, Later
    <3>. QED  BY <2>1, <3>0, <3>1, <3>2, <3>3 DEF HeardInTime
  <2>3. state[o] = "dead" => LastWords(e)'
    <3>. SUFFICES ASSUME state[o] = "dead" PROVE LastWords(e)'
      OBVIOUS
    <3>1. ASSUME NEW d \in Delay, flight'[e][d] > 0 PROVE d + silence' <= Latency
      <4>1. d + 1 \in Delay /\ flight[e][d + 1] > 0
        BY <2>1, <3>1 DEF Delay
      <4>2. d + 1 + silence <= Latency /\ d \in Nat
        BY <2>1, <4>1 DEF EndOK, LastWords, Delay
      <4>3. silence \in Nat /\ silence' \in Nat
        BY <1>1, TypesOf DEF IInv, TypeOK
      <4>4. silence' <= silence + 1
        BY <2>1
      <4>5. \A i, j, k, n \in Nat : i + 1 + j <= n /\ k <= j + 1 => i + k <= n
        OBVIOUS
      <4>. QED  BY <4>2, <4>3, <4>4, <4>5
    <3>2. state[e] = "joining" => choose' + silence' <= Latency
      <4>. SUFFICES ASSUME state[e] = "joining" PROVE choose' + silence' <= Latency
        OBVIOUS
      <4>1. choose + silence <= Latency /\ choose > 0
        BY <2>1 DEF EndOK, LastWords, Idle
      <4>2. silence \in Nat /\ choose \in Nat /\ silence' \in Nat
        BY <1>1, TypesOf DEF IInv, TypeOK
      <4>. QED  BY <2>1, <4>1, <4>2 DEF Later
    <3>. QED  BY <2>1, <3>1, <3>2 DEF LastWords
  <2>4. state[e] = "up" /\ state[o] = "dead"
          => recv'[e] + silence' <= INACTIVITY_TIMEOUT + Latency
    BY <1>1, <2>1 DEF IInv, TypeOK, EndOK, Idle, Later
  <2>. QED  BY <2>1, <2>2, <2>3, <2>4 DEF EndOK
<1>. QED  BY <1>1, <1>2, IInvAfter DEF IInv, Tick

-----------------------------------------------------------------------------

(* The invariant holds in every reachable state.                           *)
THEOREM HeartbeatInvariance == Spec => []IInv
<1>1. IInv /\ [Next]_vars => IInv'
  <2>. SUFFICES ASSUME IInv, [Next]_vars PROVE IInv'
    OBVIOUS
  <2>1. CASE Join
    BY <2>1, JoinInv
  <2>2. CASE Tick
    BY <2>2, TickInv
  <2>3. ASSUME NEW e \in End, SendHeartbeat(e) \/ SendData(e) PROVE IInv'
    BY <2>3, SendInv DEF SendHeartbeat, SendData
  <2>4. ASSUME NEW e \in End, Inactive(e) PROVE IInv'
    BY <2>4, LeaveInv DEF Inactive
  <2>5. ASSUME NEW e \in End, Close(e) PROVE IInv'
    BY <2>5, LeaveInv DEF Close
  <2>6. ASSUME NEW e \in End, Die(e) PROVE IInv'
    BY <2>6, LeaveInv DEF Die
  <2>7. ASSUME NEW e \in End, NEW d \in Delay, Receive(e, d) PROVE IInv'
    BY <2>7, ReceiveInv
  <2>8. CASE UNCHANGED vars
    BY <2>8 DEF vars, IInv, TypeOK, HeardInTime, LastWords, NoFalseInactivity, DeathIsNoticed
  <2>. QED  BY <2>1, <2>2, <2>3, <2>4, <2>5, <2>6, <2>7, <2>8 DEF Next
<1>. QED  BY <1>1, InitInv, PTL DEF Spec

(* A live peer is never dropped for inactivity, for all timeouts and       *)
(* latencies with a period and two latencies within the timeout: the first *)
(* latency is the ChooseConnection message, the second the heartbeat.      *)
THEOREM LivePeersAreKept == Spec => []NoFalseInactivity
BY HeartbeatInvariance, PTL DEF IInv

(* A peer that dies in silence is noticed within the inactivity timeout    *)
(* and one latency.                                                        *)
THEOREM DeadPeersAreNoticed == Spec => []DeathIsNoticed
BY HeartbeatInvariance, PTL DEF IInv
=============================================================================
