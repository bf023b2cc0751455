----------------------------- MODULE NodeProofs -----------------------------
(***************************************************************************)
(* The theorems about Node: every step of the user's threads and of the    *)
(* event loop preserves the invariant of NodeInvariant, from which the     *)
(* properties of Node follow, for every number of peers, tokens, posted    *)
(* closures and sockets.                                                   *)
(***************************************************************************)
EXTENDS ConnectProofs, ListenerProofs, BootstrapProofs, SequenceTheorems

-----------------------------------------------------------------------------
(* The closures.                                                           *)

\* What the oldest closure is, and what is left when it is taken.
LEMMA TakeClosure ==
    ASSUME NEW calls, NEW c, CallsType(calls), PostedInv(c, calls), calls # <<>>
    PROVE  /\ CallsType(Tail(calls)) /\ PostedInv(c, Tail(calls))
           /\ Head(calls).method = "connect" => Head(calls).their_id \in Peer
           /\ Head(calls).method \in {"disconnect", "send"} =>
                /\ Head(calls).token \in Token \ {BOOTSTRAP_TOKEN}
                /\ \/ c.states[Head(calls).token].kind = "none"
                   \/ c.states[Head(calls).token].kind = "ActiveConnection"
<1>1. calls \in Seq(Closure)
  BY DEF CallsType
<1>2. /\ Tail(calls) \in Seq(Closure) /\ 1 \in DOMAIN calls /\ Head(calls) = calls[1]
      /\ \A i \in DOMAIN Tail(calls) : i + 1 \in DOMAIN calls /\ Tail(calls)[i] = calls[i + 1]
  BY <1>1, HeadTailProperties
<1>3. CallsType(Tail(calls))
  BY <1>2 DEF CallsType
<1>4. PostedInv(c, Tail(calls))
  BY <1>2 DEF PostedInv
<1>5. Head(calls).method = "connect" => Head(calls).their_id \in Peer
  BY <1>2 DEF CallsType
<1>6. ASSUME Head(calls).method \in {"disconnect", "send"}
      PROVE  /\ Head(calls).token \in Token \ {BOOTSTRAP_TOKEN}
             /\ \/ c.states[Head(calls).token].kind = "none"
                \/ c.states[Head(calls).token].kind = "ActiveConnection"
  <2>1. calls[1].token \in Token
    BY <1>2, <1>6 DEF CallsType
  <2>2. calls[1].token # NoToken
    BY <2>1 DEF Token, NoToken
  <2>. QED  BY <1>2, <2>1, <2>2 DEF PostedInv, IsActiveOf
<1>. QED  BY <1>3, <1>4, <1>5, <1>6

\* A closure is appended.
LEMMA AddClosure ==
    ASSUME NEW calls, NEW c, CallsType(calls), PostedInv(c, calls), NEW x \in Closure,
           x.method = "connect" => x.their_id \in Peer,
           x.method \in {"disconnect", "send"} => x.token \in Token,
           x.token # NoToken => /\ x.token < c.token_counter /\ x.token # BOOTSTRAP_TOKEN
                                /\ IsActiveOf(c.states, x.token, x.their_id)
    PROVE  CallsType(Append(calls, x)) /\ PostedInv(c, Append(calls, x))
<1>1. calls \in Seq(Closure)
  BY DEF CallsType
<1>2. /\ Append(calls, x) \in Seq(Closure)
      /\ \A i \in DOMAIN Append(calls, x) :
            \/ i \in DOMAIN calls /\ Append(calls, x)[i] = calls[i]
            \/ Append(calls, x)[i] = x
  BY <1>1, AppendProperties
<1>3. CallsType(Append(calls, x))
  BY <1>2 DEF CallsType
<1>4. PostedInv(c, Append(calls, x))
  BY <1>2 DEF PostedInv
<1>. QED  BY <1>3, <1>4

\* No step makes a posted token name something else.
LEMMA StepPosted ==
    ASSUME NEW c, NEW d, Inv(c, NoPeer), Step(c, d), NEW calls, CallsType(calls),
           PostedInv(c, calls)
    PROVE  PostedInv(d, calls)
<1>. SUFFICES ASSUME NEW i \in DOMAIN calls, calls[i].token # NoToken
              PROVE  /\ calls[i].token < d.token_counter
                     /\ calls[i].token # BOOTSTRAP_TOKEN
                     /\ \/ d.states[calls[i].token].kind = "none"
                        \/ IsActiveOf(d.states, calls[i].token, calls[i].their_id)
  BY DEF PostedInv
<1>. DEFINE u == calls[i].token
<1>1. /\ u < c.token_counter /\ u # BOOTSTRAP_TOKEN
      /\ c.states[u].kind = "none" \/ IsActiveOf(c.states, u, calls[i].their_id)
  BY DEF PostedInv
<1>2. u \in Token \ {BOOTSTRAP_TOKEN}
  <2>1. calls[i] \in Closure
    BY DEF CallsType
  <2>. QED  BY <1>1, <2>1 DEF Closure
<1>. HIDE DEF u
<1>3. Moves(c.states[u], d.states[u])
  BY <1>1, <1>2 DEF Step
<1>4. d.states[u].kind \in StateKind
  BY <1>2 DEF Step, Inv, StructInv, CoreType, StateRecord
<1>5. u < d.token_counter
  <2>1. u \in Int /\ c.token_counter \in Int /\ d.token_counter \in Int
    BY <1>2, BoundAssumption DEF Step, Inv, StructInv, CoreType, Token
  <2>. QED  BY <1>1, <2>1 DEF Step
<1>6. d.states[u].kind = "none" \/ IsActiveOf(d.states, u, calls[i].their_id)
  <2>1. CASE c.states[u].kind = "none"
    BY <1>3, <1>4, <2>1, Stages DEF Moves
  <2>2. CASE IsActiveOf(c.states, u, calls[i].their_id)
    BY <1>3, <1>4, <2>2, Stages DEF Moves, IsActiveOf
  <2>. QED  BY <1>1, <2>1, <2>2
<1>. QED  BY <1>1, <1>5, <1>6 DEF u

-----------------------------------------------------------------------------
(* Every action of the event loop is a step.                               *)

\* "ok" is always among the outcomes of ActiveConnection::start.
LEMMA OkIsOutcome == "ok" \in Outcomes
BY DEF Outcomes, StartOutcome

\* A posted connect runs.
LEMMA RunConnectStep ==
    ASSUME IInv, RunConnect
    PROVE  Step(core, core')
<1>. DEFINE p == Head(posted).their_id
<1>1. Inv(core, NoPeer) /\ core \in CoreType /\ p \in Peer
  BY ZenonT(60), TakeClosure DEF IInv, RunConnect, Run, Inv, StructInv
<1>2. \/ core' = ConnectStartEmpty(core, p)
      \/ \E n \in 0 .. MaxSockets :
            /\ CanTake(n + 1)
            /\ \E reg \in Registrations(n) : core' = ConnectStart(core, p, n, reg)
  BY DEF RunConnect
<1>. HIDE DEF p
<1>3. CASE core' = ConnectStartEmpty(core, p)
  BY <1>1, <1>3, EventsSame, SameStep DEF ConnectStartEmpty
<1>4. CASE core' # ConnectStartEmpty(core, p)
  <2>1. PICK n \in 0 .. MaxSockets : /\ CanTake(n + 1)
                                     /\ \E reg \in Registrations(n) : core' = ConnectStart(core, p, n, reg)
    BY <1>2, <1>4
  <2>2. PICK reg \in Registrations(n) : core' = ConnectStart(core, p, n, reg)
    BY <2>1
  <2>3. n \in Nat /\ core.token_counter + (n + 1) <= MaxToken + 1 /\ reg \in SUBSET (1 .. n)
    BY <2>1, RegistrationsAre, NodeAssumption DEF CanTake
  <2>4. Preserves(core, core', NoToken)
    BY <1>1, <2>2, <2>3, ConnectStartInv
  <2>. QED  BY <1>1, <2>4, QuietStep
<1>. QED  BY <1>3, <1>4

\* A posted disconnect or send runs, on a connection that may have ended.
LEMMA RunTokenStep ==
    ASSUME IInv, RunDisconnect \/ RunSend
    PROVE  Step(core, core')
<1>. DEFINE t == Head(posted).token
<1>1. /\ Inv(core, NoPeer) /\ core \in CoreType /\ t \in Token
      /\ core.states[t].kind = "none" \/ core.states[t].kind = "ActiveConnection"
  BY ZenonT(60), TakeClosure DEF IInv, RunDisconnect, RunSend, Run, Inv, StructInv
<1>2. Step(core, core)
  BY <1>1, SameStep DEF Same
<1>3. CASE RunDisconnect
  <2>1. core' = IF core.states[t].kind = "none" THEN core ELSE ActiveReady(core, t, FALSE)
    BY <1>3 DEF RunDisconnect, ActiveReady
  <2>. QED  BY ZenonT(60), <1>1, <1>2, <2>1, ActiveReadyStep
<1>4. CASE RunSend
  <2>1. PICK fails \in BOOLEAN :
          core' = IF core.states[t].kind = "none" THEN core ELSE ActiveWrite(core, t, fails)
    BY <1>4 DEF RunSend
  <2>. QED  BY <1>1, <1>2, <2>1, ActiveWriteStep
<1>. QED  BY <1>3, <1>4

\* A handshake of a Connect, or a candidate, is handed an event.
LEMMA HandshakeReadyStep ==
    ASSUME IInv, NEW t \in Token, ExchangeMsgReady(t) \/ CandidateReady(t)
    PROVE  Step(core, core')
<1>0. Inv(core, NoPeer) /\ core.states[t].kind \in StateKind
  BY ZenonT(60) DEF IInv, Inv, StructInv, CoreType, StateRecord
<1>1. CASE ExchangeMsgReady(t)
  <2>1. core.states[t].kind = "ConnectExchange"
    BY <1>1 DEF ExchangeMsgReady, Live
  <2>2. Preserves(core, core', t) /\ core'.states[t].kind \in {"none", "ConnectionCandidate"}
    BY <1>0, <1>1, <2>1, ExchangeMsgErrorInv, ExchangeMsgResponseInv DEF ExchangeMsgReady
  <2>3. Moves(core.states[t], core'.states[t])
    BY <1>0, <2>1, <2>2, Stages DEF Moves
  <2>. QED  BY <1>0, <2>2, <2>3, PreservesStep
<1>2. CASE CandidateReady(t)
  <2>1. core.states[t].kind = "ConnectionCandidate"
    BY <1>2 DEF CandidateReady, Live
  <2>2. core.states[t].interest = "readable" => ~(core.states[t].their_id < OurId)
    <3>1. ShapeOf(core.states[t], t, core.token_counter)
      BY <1>0 DEF Inv, StructInv, Shape
    <3>2. core.states[t].their_id \in Nat /\ OurId \in Nat
      BY ZenonT(60), <2>1, <3>1, PeerAssumption, OurIdAssumption DEF ShapeOf, WithPeer
    <3>3. core.states[t].interest = "readable" => core.states[t].their_id > OurId
      BY <2>1, <3>1 DEF ShapeOf
    <3>. QED  BY <3>2, <3>3
  <2>3. /\ Preserves(core, core', t)
        /\ core'.states[t].kind \in {"none", "ConnectionCandidate", "ActiveConnection"}
    <3>1. CASE core' = CandidateError(core, t)
      BY <1>0, <2>1, <3>1, CandidateErrorInv
    <3>2. CASE \E io \in CandidateReadOutcome, outcome \in Outcomes :
                  core' = CandidateWrite(core, t, io, outcome)
      BY <1>0, <2>1, <3>2, CandidateWriteInv
    <3>3. CASE /\ core.states[t].interest = "readable"
               /\ \E io \in CandidateReadOutcome, outcome \in Outcomes :
                     core' = CandidateRead(core, t, io, outcome)
      BY ZenonT(60), <1>0, <2>1, <2>2, <3>3, CandidateReadInv
    <3>. QED  BY <1>2, <3>1, <3>2, <3>3 DEF CandidateReady
  <2>4. Moves(core.states[t], core'.states[t])
    BY <1>0, <2>1, <2>3, Stages DEF Moves
  <2>. QED  BY <1>0, <2>3, <2>4, PreservesStep
<1>. QED  BY <1>1, <1>2

\* An ActiveConnection is handed an event.
LEMMA ActiveConnectionReadyStep ==
    ASSUME IInv, NEW t \in Token, ActiveConnectionReady(t)
    PROVE  Step(core, core')
<1>1. PICK twice \in BOOLEAN : core' = ActiveReady(core, t, twice)
  BY ZenonT(60) DEF ActiveConnectionReady
<1>. QED  BY <1>1, ActiveReadyStep DEF ActiveConnectionReady, Live, IInv

\* The choices made when a reply is written are among those of a write.
LEMMA StartsAre ==
    ASSUME NEW io
    PROVE  Reregistered(io) \subseteq BOOLEAN /\ Starts(io) \subseteq Outcomes
BY OkIsOutcome DEF Reregistered, Starts

\* The listener's side: from the peer's one request to the answer.
LEMMA ListenerReadyStep ==
    ASSUME OneRequest, IInv, NEW t \in Token, ListenerExchangeReady(t)
    PROVE  Step(core, core')
<1>0. Inv(core, NoPeer) /\ core.states[t].kind = "ListenerExchange"
  BY ZenonT(60) DEF IInv, ListenerExchangeReady, Live
<1>n. /\ "ActiveConnection" \in NextState \ {"None"} /\ "ConnectionCandidate" \in NextState \ {"None"}
      /\ FALSE \in BOOLEAN
  BY DEF NextState
<1>. DEFINE Ok(d) == /\ Preserves(core, d, t)
                     /\ d.states[t].kind \in {"none", "ListenerExchange", "ConnectionCandidate",
                                              "ActiveConnection"}
<1>1. Ok(ListenerTerminate(core, t, core.states[t]))
  BY ZenonT(60), <1>0, ListenerTerminateInv
<1>2. ASSUME core.states[t].interest = "writable", NEW io \in WriteOutcome,
             NEW registered \in BOOLEAN, NEW outcome \in Outcomes
      PROVE  Ok(ListenerWrite(core, t, io, registered, outcome))
  <2>1. ShapeOf(core.states[t], t, core.token_counter)
    BY <1>0 DEF Inv, StructInv, Shape
  <2>2. core.states[t].children = {}
    BY ZenonT(60), <1>0, <1>2, <2>1 DEF ShapeOf
  <2>. QED  BY ZenonT(60), <1>0, <1>2, <2>2, ListenerWriteInv
<1>3. ASSUME AwaitsRequest(t)
      PROVE  /\ core.states[t].interest = "readable" /\ core.states[t].children = {}
             /\ core.states[t].next_state = "None"
  BY <1>3 DEF AwaitsRequest
<1>a. ASSUME AwaitsRequest(t), NEW io \in WriteOutcome
      PROVE  Ok(HandleEchoAddrReq(core, t, io))
  <2>1. HandleEchoAddrReq(core, t, io) = ListenerWrite(core, t, io, FALSE, "ok")
    BY <1>0, <1>3, <1>a, EchoAddrIsWrite DEF Inv, StructInv
  <2>2. Ok(ListenerWrite(core, t, io, FALSE, "ok"))
    BY ZenonT(60), <1>0, <1>3, <1>a, <1>n, ListenerWriteInv, OkIsOutcome
  <2>. HIDE DEF Ok
  <2>. QED  BY Zenon, <2>1, <2>2
<1>b. ASSUME AwaitsRequest(t), NEW io \in WriteOutcome, NEW registered \in BOOLEAN, NEW outcome \in Outcomes
      PROVE  Ok(SendBootstrapDenied(core, t, io, registered, outcome))
  BY ZenonT(60), <1>0, <1>3, <1>b, ListenerWriteInv DEF SendBootstrapDenied
<1>c. ASSUME AwaitsRequest(t), NEW io \in WriteOutcome, NEW p \in Peer, NEW registered \in BOOLEAN
      PROVE  Ok(HandleConnect(core, t, p, io, registered))
  BY ZenonT(60), <1>0, <1>3, <1>c, <1>n, EnterAndWrite, OkIsOutcome DEF HandleConnect
<1>d. ASSUME AwaitsRequest(t), NEW io \in WriteOutcome, NEW p \in Peer, NEW outcome \in Outcomes
      PROVE  Ok(SendBootstrapGrant(core, t, p, io, outcome))
  BY ZenonT(60), <1>0, <1>3, <1>d, <1>n, EnterAndWrite DEF SendBootstrapGrant
<1>e. ASSUME AwaitsRequest(t), NEW p \in Peer, NEW n \in 1 .. MaxSockets, CanTake(n)
      PROVE  Ok(HandleBootstrapReqCheck(core, t, p, n))
  <2>1. n \in Nat /\ n > 0 /\ core.token_counter + n <= MaxToken + 1
    BY <1>e, NodeAssumption DEF CanTake
  <2>. QED  BY <1>0, <1>3, <1>e, <2>1, HandleBootstrapReqCheckInv
<1>4. Ok(core')
  <2>. HIDE DEF Ok
  <2>1. "second_request" \notin Admitted
    BY DEF OneRequest
  <2>2. CASE /\ core.states[t].interest = "writable"
             /\ \E io \in WriteOutcome : \E registered \in Reregistered(io), outcome \in Starts(io) :
                   core' = ListenerWrite(core, t, io, registered, outcome)
    BY ZenonT(60), <1>2, <2>2, StartsAre
  <2>3. ASSUME AwaitsRequest(t), NEW io \in WriteOutcome,
               \/ core' = HandleEchoAddrReq(core, t, io)
               \/ \E registered \in Reregistered(io), outcome \in Starts(io) :
                     core' = SendBootstrapDenied(core, t, io, registered, outcome)
               \/ \E p \in Peer, registered \in Reregistered(io) :
                     core' = HandleConnect(core, t, p, io, registered)
               \/ \E p \in Peer, outcome \in Starts(io) :
                     core' = SendBootstrapGrant(core, t, p, io, outcome)
        PROVE  Ok(core')
    BY ZenonT(60), <1>a, <1>b, <1>c, <1>d, <2>3, StartsAre
  <2>4. CASE AwaitsRequest(t) /\ \E p \in Peer, n \in 1 .. MaxSockets :
                CanTake(n) /\ core' = HandleBootstrapReqCheck(core, t, p, n)
    BY ZenonT(60), <1>e, <2>4
  <2>. QED  BY ZenonT(60), <1>1, <2>1, <2>2, <2>3, <2>4 DEF ListenerExchangeReady
<1>5. Moves(core.states[t], core'.states[t])
  <2>1. "ListenerExchange" \in StateKind
    BY DEF StateKind
  <2>. QED  BY ZenonT(60), <1>0, <1>4, <2>1, Stages DEF Moves
<1>. QED  BY ZenonT(60), <1>0, <1>4, <1>5, PreservesStep

\* A reachability check ends, by an event or by its timer.
LEMMA CheckReachabilityStep ==
    ASSUME NEW c, Inv(c, NoPeer), NEW t \in Token, c.states[t].kind = "CheckReachability",
           NEW reached \in BOOLEAN, NEW io \in WriteOutcome, NEW registered \in BOOLEAN,
           NEW outcome \in Outcomes
    PROVE  Step(c, CheckReachabilityFinish(c, t, reached, io, registered, outcome))
<1>. DEFINE d == CheckReachabilityFinish(c, t, reached, io, registered, outcome)
            pr == c.states[t].parent
<1>1. /\ pr \in Token /\ c.states[pr].kind = "ListenerExchange"
      /\ Preserves(c, d, pr) /\ d.states[t].kind = "none"
      /\ d.states[pr].kind \in AfterListening
  <2>1. pr \in Token /\ c.states[pr].kind = "ListenerExchange"
    BY CheckReachabilityFinishInv
  <2>2. Preserves(c, d, pr)
    BY CheckReachabilityFinishInv
  <2>3. d.states[t].kind = "none"
    BY CheckReachabilityFinishInv
  <2>4. d.states[pr].kind \in AfterListening
    BY CheckReachabilityFinishInv
  <2>. HIDE DEF d, pr
  <2>. QED  BY Zenon, <2>1, <2>2, <2>3, <2>4
<1>. HIDE DEF d, pr
<1>2. Moves(c.states[pr], d.states[pr])
  <2>1. "ListenerExchange" \in StateKind
    BY DEF StateKind
  <2>. QED  BY <1>1, <2>1, Stages DEF Moves, AfterListening
<1>. QED  BY ZenonT(60), <1>1, <1>2, PreservesStep DEF d

\* A timer expires.
LEMMA TimeoutStep ==
    ASSUME IInv, NEW timer \in core.timers, Timeout(timer)
    PROVE  Step(core, core')
<1>. DEFINE t == timer[1]
            id == timer[2]
            c == [core EXCEPT !.timers = @ \ {timer}]
<1>0. Inv(core, NoPeer) /\ core \in CoreType
  BY DEF IInv, Inv, StructInv
<1>1. t \in Token /\ id \in {0, 1}
  BY <1>0 DEF CoreType, Timer
<1>2. Same(core, c)
  BY <1>0 DEF CoreType, Same
<1>3. \/ /\ core.states[t].kind \in {"none", "ConnectExchange", "ConnectionCandidate", "TryPeer"}
         /\ core' = c
      \/ /\ core.states[t].kind = "Connect"
         /\ core' = ConnectTerminate(c, t, core.states[t])
      \/ /\ core.states[t].kind = "ActiveConnection"
         /\ \E fails \in BOOLEAN : core' = ActiveTimeout(c, t, id, fails)
      \/ /\ core.states[t].kind = "ListenerExchange"
         /\ core' = ListenerTerminate(c, t, core.states[t])
      \/ /\ core.states[t].kind = "CheckReachability"
         /\ \E io \in WriteOutcome : \E registered \in Reregistered(io), outcome \in Starts(io) :
               core' = CheckReachabilityFinish(c, t, FALSE, io, registered, outcome)
      \/ /\ core.states[t].kind = "Bootstrap"
         /\ id = 0 \/ core.states[t].sd_meta = "Some"
         /\ \E k \in Contacts : core' = BootstrapTimeout(c, id, k.found, k.n, k.reg)
  BY ZenonT(60) DEF Timeout
<1>. HIDE DEF c, t, id
<1>4. Inv(c, NoPeer) /\ c.states = core.states /\ c.token_counter = core.token_counter
  BY <1>0, <1>2, SameInv DEF Same
<1>5. CASE core' = c
  BY <1>0, <1>2, <1>5, SameStep
<1>6. CASE core.states[t].kind = "Connect" /\ core' = ConnectTerminate(c, t, core.states[t])
  <2>1. /\ Inv(core', NoPeer) /\ core'.token_counter = c.token_counter
        /\ \A u \in Token : core'.states[u] = c.states[u] \/ core'.states[u] = NoState
    BY <1>1, <1>4, <1>6, ConnectTerminateInv
  <2>2. Preserves(c, core', NoToken)
    <3>1. c.token_counter \in Int /\ NoState.kind = "none"
      BY <1>4, BoundAssumption DEF Inv, StructInv, CoreType, NoState
    <3>. QED  BY <2>1, <3>1 DEF Preserves, Forward
  <2>. QED  BY <1>2, <1>4, <2>2, QuietStep, SameThenStep
<1>7. CASE /\ core.states[t].kind = "ActiveConnection"
           /\ \E fails \in BOOLEAN : core' = ActiveTimeout(c, t, id, fails)
  BY <1>1, <1>2, <1>4, <1>7, ActiveTimeoutStep, SameThenStep
<1>8. CASE core.states[t].kind = "ListenerExchange" /\ core' = ListenerTerminate(c, t, core.states[t])
  <2>1. Preserves(c, core', t) /\ core'.states[t].kind = "none"
    BY ZenonT(60), <1>1, <1>4, <1>8, ListenerTerminateInv
  <2>2. Moves(c.states[t], core'.states[t])
    <3>1. "ListenerExchange" \in StateKind
      BY DEF StateKind
    <3>. QED  BY ZenonT(60), <1>4, <1>8, <2>1, <3>1, Stages DEF Moves
  <2>. QED  BY ZenonT(60), <1>2, <1>4, <2>1, <2>2, PreservesStep, SameThenStep
<1>9. CASE /\ core.states[t].kind = "CheckReachability"
           /\ \E io \in WriteOutcome : \E registered \in Reregistered(io), outcome \in Starts(io) :
                 core' = CheckReachabilityFinish(c, t, FALSE, io, registered, outcome)
  <2>1. PICK io \in WriteOutcome : \E registered \in Reregistered(io), outcome \in Starts(io) :
           core' = CheckReachabilityFinish(c, t, FALSE, io, registered, outcome)
    BY <1>9
  <2>2. PICK registered \in BOOLEAN, outcome \in Outcomes :
           core' = CheckReachabilityFinish(c, t, FALSE, io, registered, outcome)
    BY ZenonT(60), <2>1, StartsAre
  <2>3. FALSE \in BOOLEAN
    OBVIOUS
  <2>4. Step(c, core')
    BY ZenonT(60), <1>1, <1>4, <1>9, <2>2, <2>3, CheckReachabilityStep
  <2>. QED  BY ZenonT(60), <1>2, <1>4, <2>4, SameThenStep
<1>10. CASE /\ core.states[t].kind = "Bootstrap"
            /\ id = 0 \/ core.states[t].sd_meta = "Some"
            /\ \E k \in Contacts : core' = BootstrapTimeout(c, id, k.found, k.n, k.reg)
  <2>1. t = BOOTSTRAP_TOKEN
    BY ZenonT(60), <1>0, <1>1, <1>10 DEF Inv, StructInv, Shape, ShapeOf
  <2>2. PICK k \in Contacts : core' = BootstrapTimeout(c, id, k.found, k.n, k.reg)
    BY <1>10
  <2>3. /\ k.found \in BOOLEAN /\ k.n \in Nat /\ k.reg \in SUBSET (1 .. k.n)
        /\ core.token_counter + k.n <= MaxToken + 1
    BY <1>0, ContactsAre
  <2>4. Preserves(c, core', BOOTSTRAP_TOKEN)
    BY <1>1, <1>4, <1>10, <2>1, <2>2, <2>3, BootstrapTimeoutInv
  <2>. QED  BY ZenonT(60), <1>2, <1>4, <2>4, PreservesStep, SameThenStep
<1>. QED  BY ZenonT(60), <1>3, <1>5, <1>6, <1>7, <1>8, <1>9, <1>10

\* A connection is accepted.
LEMMA ListenerAcceptStep ==
    ASSUME IInv, ListenerAccept
    PROVE  Step(core, core')
<1>1. PICK registered \in BOOLEAN : core' = ListenerExchangeStart(core, registered)
  BY ZenonT(60) DEF ListenerAccept, Registered
<1>2. Preserves(core, core', NoToken)
  BY <1>1, ListenerExchangeStartInv DEF IInv, ListenerAccept, CanTake
<1>. QED  BY <1>2, QuietStep DEF IInv

-----------------------------------------------------------------------------
(* The invariant.                                                          *)

\* Init of the core and of the channel.
LEMMA InitInv == Init => IInv
<1>. SUFFICES ASSUME Init  PROVE IInv
  OBVIOUS
<1>1. core \in CoreType
  <2>1. [t \in Token |-> NoState] \in [Token -> StateRecord]
    BY NoStateType
  <2>2. [p \in Peer |-> Vacant] \in ConnectionMapType
    BY VacantType DEF ConnectionMapType
  <2>3. 1 \in 1 .. MaxToken + 1
    BY BoundAssumption
  <2>4. [ up |-> [p \in Peer |-> 0], waiting |-> [p \in Peer |-> FALSE], owed |-> 0 ] \in UserView
    BY DEF UserView
  <2>. QED  BY ZenonT(60), <2>1, <2>2, <2>3, <2>4 DEF Init, NewCore, CoreType
<1>2. /\ \A t \in Token : core.states[t] = NoState
      /\ \A p \in Peer : core.cm[p] = Vacant
  BY ZenonT(60) DEF Init, NewCore
<1>n. /\ NoState.kind = "none" /\ NoState.children = {} /\ NoState.parent = NoToken
      /\ NoState.interest = "readable" /\ NoState.sd_meta = "None"
      /\ Vacant.active_connection = NoToken /\ Vacant.occupied = FALSE
      /\ Vacant.currently_handshaking = 0
  BY DEF NoState, Vacant
<1>3. Shape(core.states, core.token_counter)
  BY <1>2, <1>n DEF Shape, ShapeOf, WithPeer
<1>4. Families(core.states)
  BY <1>2, <1>n DEF Families
<1>5. MapOK(core.states, core.cm)
  BY <1>2, <1>n DEF MapOK, EntryOK
<1>6. CountInv(core.states, core.cm, NoPeer)
  <2>1. \A p \in Peer : HS(core.states, p) = {}
    BY <1>2, <1>n DEF HS, Counted
  <2>2. \A p \in Peer : Cardinality(HS(core.states, p)) = 0
    BY <2>1, FS_EmptySet
  <2>3. \A p \in Peer : Owed(p, NoPeer) = 0
    BY NoPeerIsNoPeer DEF Owed
  <2>. QED  BY <1>2, <1>n, <2>2, <2>3 DEF CountInv, EntryUsed, IsActiveOf
<1>7. CallsType(posted) /\ PostedInv(core, posted)
  BY DEF Init, CallsType, PostedInv
<1>. QED  BY <1>1, <1>3, <1>4, <1>5, <1>6, <1>7 DEF IInv, Inv, StructInv

\* A call of Service: a closure is posted, and the tokens it captured are those
\* of the map.
LEMMA UserStepInv ==
    ASSUME IInv, UserStep
    PROVE  Step(core, core') /\ IInv'
<1>0. Inv(core, NoPeer) /\ core \in CoreType /\ CallsType(posted) /\ PostedInv(core, posted)
  BY DEF IInv, Inv, StructInv
<1>1. ASSUME NEW p \in Peer, ServiceConnect(p)
      PROVE  Same(core, core') /\ CallsType(posted') /\ PostedInv(core, posted')
  <2>1. Same(core, core')
    <3>. DEFINE d == [core EXCEPT !.user.waiting[p] = TRUE]
    <3>1. d \in CoreType
      BY ZenonT(60), <1>0 DEF CoreType, UserView
    <3>. QED  BY <1>0, <1>1, <3>1 DEF CoreType, Same, ServiceConnect
  <2>. DEFINE x == [method |-> "connect", their_id |-> p, token |-> NoToken]
  <2>2. x \in Closure /\ posted' = Append(posted, x)
    BY <1>1 DEF ServiceConnect, Post, Closure, ServiceMethod
  <2>. QED  BY ZenonT(60), <1>0, <2>1, <2>2, AddClosure
<1>2. ASSUME NEW p \in Peer, NEW method \in {"disconnect", "send"}, ServiceToken(method, p)
      PROVE  Same(core, core') /\ CallsType(posted') /\ PostedInv(core, posted')
  <2>. DEFINE t == core.cm[p].active_connection
              x == [method |-> method, their_id |-> p, token |-> t]
  <2>1. Same(core, core')
    BY <1>0, <1>2 DEF Same, ServiceToken
  <2>2. t \in Token /\ IsActiveOf(core.states, t, p)
    <3>1. t # NoToken
      BY <1>2 DEF ServiceToken, IsActive
    <3>2. t \in Token \cup {NoToken}
      BY ZenonT(60), <1>0 DEF CoreType, ConnectionMapType, ConnectionId
    <3>. QED  BY ZenonT(60), <1>0, <3>1, <3>2 DEF Inv, StructInv, MapOK
  <2>3. t < core.token_counter /\ t # BOOTSTRAP_TOKEN
    <3>1. ShapeOf(core.states[t], t, core.token_counter)
      BY ZenonT(60), <1>0, <2>2 DEF Inv, StructInv, Shape
    <3>2. t \in Int /\ core.token_counter \in Int
      BY <1>0, <2>2, BoundAssumption DEF CoreType, Token
    <3>3. core.states[t].kind = "ActiveConnection"
      BY Zenon, <2>2 DEF IsActiveOf
    <3>4. ~(t >= core.token_counter) /\ t # BOOTSTRAP_TOKEN
      BY <3>1, <3>3 DEF ShapeOf
    <3>. HIDE DEF t
    <3>. QED  BY <3>2, <3>4
  <2>4. x \in Closure
    BY <2>2 DEF Closure, ServiceMethod
  <2>5. posted' = Append(posted, x)
    BY <1>2 DEF ServiceToken, Post
  <2>6. x.method # "connect" /\ x.token = t /\ x.their_id = p
    OBVIOUS
  <2>. HIDE DEF x, t
  <2>. QED  BY <1>0, <2>1, <2>2, <2>3, <2>4, <2>5, <2>6, AddClosure
<1>3. ASSUME NEW method \in {"start_bootstrap", "stop_bootstrap"}, ServiceBootstrap(method)
      PROVE  Same(core, core') /\ CallsType(posted') /\ PostedInv(core, posted')
  <2>1. Same(core, core')
    BY <1>0, <1>3 DEF Same, ServiceBootstrap
  <2>. DEFINE x == [method |-> method, their_id |-> NoPeer, token |-> NoToken]
  <2>2. x \in Closure /\ posted' = Append(posted, x)
    BY <1>3 DEF ServiceBootstrap, Post, Closure, ServiceMethod
  <2>. QED  BY ZenonT(60), <1>0, <2>1, <2>2, AddClosure
<1>4. Same(core, core') /\ CallsType(posted') /\ PostedInv(core, posted')
  BY <1>1, <1>2, <1>3 DEF UserStep
<1>5. Step(core, core')
  BY <1>0, <1>4, SameStep
<1>6. PostedInv(core', posted')
  BY <1>0, <1>4, <1>5, StepPosted
<1>7. Inv(core', NoPeer)
  BY <1>5 DEF Step
<1>. QED  BY <1>4, <1>5, <1>6, <1>7 DEF IInv

\* Every step of the node preserves the invariant and moves tokens forward.
LEMMA NextInv ==
    ASSUME OneRequest, IInv, Next
    PROVE  Step(core, core') /\ IInv'
<1>0. Inv(core, NoPeer) /\ CallsType(posted) /\ PostedInv(core, posted)
  BY DEF IInv
<1>1. CASE UserStep
  BY <1>1, UserStepInv
<1>2. ASSUME Step(core, core'), CallsType(posted'), PostedInv(core, posted')
      PROVE  Step(core, core') /\ IInv'
  <2>1. PostedInv(core', posted')
    BY <1>0, <1>2, StepPosted
  <2>2. Inv(core', NoPeer)
    BY ZenonT(60), <1>2 DEF Step
  <2>. QED  BY <1>2, <2>1, <2>2 DEF IInv
<1>3. CASE RunPosted
  <2>1. Step(core, core')
    BY <1>3, RunConnectStep, RunTokenStep, RunBootstrapStep DEF RunPosted
  <2>2. posted # <<>> /\ posted' = Tail(posted)
    BY ZenonT(60), <1>3 DEF RunPosted, RunConnect, RunDisconnect, RunSend, RunStartBootstrap, RunStopBootstrap, Run
  <2>3. CallsType(posted') /\ PostedInv(core, posted')
    BY <1>0, <2>2, TakeClosure
  <2>. QED  BY ZenonT(60), <1>2, <2>1, <2>3
<1>4. CASE LoopStep
  <2>1. CASE ListenerAccept
    <3>1. Step(core, core') /\ posted' = posted
      BY <2>1, ListenerAcceptStep DEF ListenerAccept
    <3>. QED  BY <1>0, <1>2, <3>1
  <2>2. ASSUME NEW t \in Token,
               \/ ExchangeMsgReady(t) \/ CandidateReady(t) \/ ActiveConnectionReady(t)
               \/ ListenerExchangeReady(t) \/ CheckReachabilityReady(t) \/ TryPeerReady(t)
        PROVE  Step(core, core') /\ IInv'
    <3>1. posted' = posted
      BY ZenonT(60), <2>2 DEF ExchangeMsgReady, CandidateReady, ActiveConnectionReady, ListenerExchangeReady,
                  CheckReachabilityReady, TryPeerReady
    <3>2. CheckReachabilityReady(t) => Step(core, core')
      <4>1. ASSUME CheckReachabilityReady(t)  PROVE Step(core, core')
        <5>1. core.states[t].kind = "CheckReachability"
          BY Zenon, <4>1 DEF CheckReachabilityReady, Live
        <5>2. PICK reached \in BOOLEAN, io \in WriteOutcome :
                 \E registered \in Reregistered(io), outcome \in Starts(io) :
                    core' = CheckReachabilityFinish(core, t, reached, io, registered, outcome)
          BY Zenon, <4>1 DEF CheckReachabilityReady
        <5>3. PICK registered \in BOOLEAN, outcome \in Outcomes :
                 core' = CheckReachabilityFinish(core, t, reached, io, registered, outcome)
          BY Zenon, <5>2, StartsAre
        <5>. QED  BY <1>0, <5>1, <5>3, CheckReachabilityStep
      <4>. QED  BY <4>1
    <3>3. Step(core, core')
      BY <2>2, <3>2, HandshakeReadyStep, ActiveConnectionReadyStep, ListenerReadyStep,
         TryPeerReadyStep
    <3>. QED  BY <1>0, <1>2, <3>1, <3>3
  <2>3. ASSUME NEW timer \in core.timers, Timeout(timer)
        PROVE  Step(core, core') /\ IInv'
    <3>1. Step(core, core') /\ posted' = posted
      BY ZenonT(60), <2>3, TimeoutStep DEF Timeout
    <3>. QED  BY <1>0, <1>2, <3>1
  <2>. QED  BY <1>4, <2>1, <2>2, <2>3 DEF LoopStep
<1>. QED  BY <1>1, <1>3, <1>4 DEF Next

\* A step that changes nothing.
LEMMA StutterInv ==
    ASSUME IInv, UNCHANGED vars
    PROVE  IInv'
BY DEF IInv, vars

\* The inductive invariant holds in every reachable state, whatever the
\* environment does as long as a peer sends one request on a connection.
THEOREM Invariance ==
    ASSUME OneRequest
    PROVE  Spec => []IInv
<1>1. Init => IInv
  BY InitInv
<1>2. IInv /\ [Next]_vars => IInv'
  BY NextInv, StutterInv
<1>. QED  BY <1>1, <1>2, PTL DEF Spec

-----------------------------------------------------------------------------
(* The properties of Node.                                                 *)

\* The records, maps and channels of the code have their declared types
\* throughout; in particular the token counter stays within its bound and
\* usize arithmetic within usize.
THEOREM TypeCorrect ==
    ASSUME OneRequest
    PROVE  Spec => []TypeOK
<1>1. IInv => TypeOK
  BY ZenonT(60) DEF IInv, Inv, StructInv, CallsType, TypeOK
<1>. QED  BY <1>1, Invariance, PTL

\* The map names only live connections of the right peer.
THEOREM MapNamesLiveConnections ==
    ASSUME OneRequest
    PROVE  Spec => []ActiveTokenIsLive
<1>1. IInv => ActiveTokenIsLive
  <2>. SUFFICES ASSUME IInv, NEW p \in Peer, core.cm[p].active_connection # NoToken
                PROVE  core.cm[p].active_connection \in Actives(core, p)
    BY DEF ActiveTokenIsLive, IsActive
  <2>1. core.cm[p].active_connection \in Token
    BY DEF IInv, Inv, StructInv, CoreType, ConnectionMapType, ConnectionId
  <2>2. IsActiveOf(core.states, core.cm[p].active_connection, p)
    BY DEF IInv, Inv, StructInv, MapOK
  <2>. QED  BY ZenonT(60), <2>1, <2>2 DEF Actives, IsActiveOf
<1>. QED  BY <1>1, Invariance, PTL

\* Parents and children agree: terminate ends the states it should and no child
\* outlives its parent.
THEOREM ParentsAndChildrenAgree ==
    ASSUME OneRequest
    PROVE  Spec => []FamiliesAgree
<1>1. IInv => FamiliesAgree
  <2>. SUFFICES ASSUME IInv  PROVE FamiliesAgree
    OBVIOUS
  <2>0. /\ Families(core.states) /\ core.states \in [Token -> StateRecord]
    BY DEF IInv, Inv, StructInv, CoreType
  <2>1. ASSUME NEW t \in Token, NEW u \in Token, u \in core.states[t].children
        PROVE  /\ core.states[u].parent = t
               /\ core.states[u].kind \in ChildKind[core.states[t].kind]
    <3>1. ChildOf(core.states, u, t)
      BY <2>0, <2>1 DEF Families
    <3>. QED  BY <3>1 DEF ChildOf, ChildKind, StateKind
  <2>2. ASSUME NEW u \in Token, core.states[u].parent # NoToken
        PROVE  u \in core.states[core.states[u].parent].children
    BY <2>0, <2>2 DEF Families
  <2>3. \A t \in Token : t # NoToken
    BY DEF Token, NoToken
  <2>. QED  BY ZenonT(60), <2>1, <2>2, <2>3 DEF FamiliesAgree
<1>. QED  BY <1>1, Invariance, PTL

\* A token posted by disconnect() or send() is applied to the connection it was
\* read for or to nothing.
THEOREM PostedTokensAreOwn ==
    ASSUME OneRequest
    PROVE  Spec => []PostedTokenIsOwn
<1>1. IInv => PostedTokenIsOwn
  <2>. SUFFICES ASSUME IInv, NEW i \in DOMAIN posted, posted[i].token # NoToken
                PROVE  \/ core.states[posted[i].token].kind = "none"
                       \/ posted[i].token \in Actives(core, posted[i].their_id)
    BY DEF PostedTokenIsOwn
  <2>1. posted[i] \in Closure
    BY DEF IInv, CallsType
  <2>2. posted[i].token \in Token
    BY <2>1 DEF Closure
  <2>. QED  BY ZenonT(60), <2>2 DEF IInv, PostedInv, IsActiveOf, Actives
<1>. QED  BY <1>1, Invariance, PTL

\* A token never has a state again once it has lost it, and no connection goes
\* back to an earlier stage of its handshake.
THEOREM TokensOnlyMoveForward ==
    ASSUME OneRequest
    PROVE  Spec => TokensMoveForward
<1>. DEFINE Old == {u \in Token \ {BOOTSTRAP_TOKEN} :
                      u < core.token_counter \/ core.states[u].kind # "none"}
            A == \A t \in Old :
                    LET old == core.states[t].kind
                        new == core'.states[t].kind
                    IN  new # old => Stage(new) > Stage(old)
<1>1. IInv /\ [Next]_vars => [A]_vars
  <2>. SUFFICES ASSUME IInv, Next, NEW t \in Old
                PROVE  core'.states[t].kind # core.states[t].kind =>
                         Stage(core'.states[t].kind) > Stage(core.states[t].kind)
    OBVIOUS
  <2>1. t < core.token_counter
    <3>1. ShapeOf(core.states[t], t, core.token_counter)
      BY DEF IInv, Inv, StructInv, Shape
    <3>2. t \in Int /\ core.token_counter \in Int
      BY BoundAssumption DEF IInv, Inv, StructInv, CoreType, Token
    <3>. QED  BY <3>1, <3>2 DEF ShapeOf
  <2>2. Moves(core.states[t], core'.states[t])
    BY <2>1, NextInv DEF Step
  <2>. QED  BY <2>2 DEF Moves
<1>. QED  BY <1>1, Invariance, PTL DEF Spec, TokensMoveForward

-----------------------------------------------------------------------------
(* The properties that rely on the environment: the heartbeat timers can   *)
(* be set, and no bootstrap is granted by a peer that has an entry.        *)

\* currently_handshaking never underflows and never leaks: it is the number of
\* handshakes there are.
THEOREM CountsAreExact ==
    ASSUME Exact
    PROVE  Spec => []HandshakesCounted
<1>1. IInv => HandshakesCounted
  <2>. SUFFICES ASSUME IInv, NEW p \in Peer
                PROVE  core.cm[p].currently_handshaking = Cardinality(Handshaking(core, p))
    BY DEF HandshakesCounted
  <2>1. Handshaking(core, p) = HS(core.states, p)
    BY ZenonT(60) DEF Handshaking, HS, Counted
  <2>2. Owed(p, NoPeer) = 0
    BY NoPeerIsNoPeer DEF Owed
  <2>3. core.cm[p].currently_handshaking = Cardinality(HS(core.states, p)) + Owed(p, NoPeer)
    BY ZenonT(60) DEF IInv, Inv, CountInv
  <2>. QED  BY <2>1, <2>2, <2>3, HSFinite
<1>2. OneRequest
  BY DEF Exact
<1>. QED  BY <1>1, <1>2, Invariance, PTL

\* connect() is refused only while there is a handshake or a connection, and a
\* handshake that is under way makes it refuse.
THEOREM EntriesHaveOwners ==
    ASSUME Exact
    PROVE  Spec => []EntryHasOwner
<1>1. IInv => EntryHasOwner
  <2>. SUFFICES ASSUME IInv, NEW p \in Peer
                PROVE  /\ core.cm[p].occupied => Handshaking(core, p) \cup Actives(core, p) # {}
                       /\ Handshaking(core, p) # {} => core.cm[p].occupied
    BY DEF EntryHasOwner
  <2>1. Handshaking(core, p) = HS(core.states, p)
    BY DEF Handshaking, HS, Counted
  <2>2. Owed(p, NoPeer) = 0
    BY NoPeerIsNoPeer DEF Owed
  <2>3. /\ core.cm[p].currently_handshaking = Cardinality(HS(core.states, p)) + Owed(p, NoPeer)
        /\ EntryUsed(core.cm[p])
    BY DEF IInv, Inv, CountInv
  <2>4. core.cm[p].currently_handshaking = Cardinality(Handshaking(core, p))
    BY <2>1, <2>2, <2>3, HSFinite
  <2>5. Handshaking(core, p) = {} <=> Cardinality(Handshaking(core, p)) = 0
    BY <2>1, HSFinite, FS_EmptySet
  <2>6. core.cm[p].active_connection # NoToken => Actives(core, p) # {}
    <3>1. core.cm[p].active_connection \in Token \cup {NoToken}
      BY ZenonT(60) DEF IInv, Inv, StructInv, CoreType, ConnectionMapType, ConnectionId
    <3>2. core.cm[p].active_connection # NoToken
            => IsActiveOf(core.states, core.cm[p].active_connection, p)
      BY ZenonT(60) DEF IInv, Inv, StructInv, MapOK
    <3>. QED  BY ZenonT(60), <3>1, <3>2 DEF Actives, IsActiveOf
  <2>7. core.cm[p].occupied => Handshaking(core, p) \cup Actives(core, p) # {}
    <3>1. CASE core.cm[p].currently_handshaking > 0
      BY <2>4, <2>5, <3>1
    <3>2. CASE core.cm[p].active_connection # NoToken
      BY <2>6, <3>2
    <3>. QED  BY ZenonT(60), <2>3, <3>1, <3>2 DEF EntryUsed
  <2>8. Handshaking(core, p) # {} => core.cm[p].occupied
    <3>1. EntryOK(core.cm[p])
      BY DEF IInv, Inv, StructInv, MapOK
    <3>2. Vacant.currently_handshaking = 0
      BY DEF Vacant
    <3>. QED  BY <2>4, <2>5, <3>1, <3>2 DEF EntryOK
  <2>. QED  BY <2>7, <2>8
<1>2. OneRequest
  BY DEF Exact
<1>. QED  BY <1>1, <1>2, Invariance, PTL

\* The node that chooses the connection keeps one per peer.
THEOREM ChooserKeepsOne ==
    ASSUME Exact
    PROVE  Spec => []ChosenConnectionUnique
<1>1. IInv => ChosenConnectionUnique
  <2>. SUFFICES ASSUME IInv, NEW p \in Peer, p < OurId
                PROVE  Actives(core, p) \subseteq {core.cm[p].active_connection}
    BY DEF ChosenConnectionUnique
  <2>1. \A t \in Token : IsActiveOf(core.states, t, p) => t = core.cm[p].active_connection
    BY ZenonT(60) DEF IInv, Inv, CountInv
  <2>. QED  BY <2>1 DEF Actives, IsActiveOf
<1>2. OneRequest
  BY DEF Exact
<1>. QED  BY <1>1, <1>2, Invariance, PTL

=============================================================================
