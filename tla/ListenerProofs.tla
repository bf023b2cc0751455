--------------------------- MODULE ListenerProofs ---------------------------
(***************************************************************************)
(* Every operation of Listener preserves the invariant of NodeInvariant.   *)
(***************************************************************************)
EXTENDS HandlerProofs

\* Tokens that are given out and not used.
LEMMA GrowInv ==
    ASSUME NEW c, NEW d, NEW q, Inv(c, q), d \in CoreType, d.states = c.states, d.cm = c.cm,
           d.token_counter >= c.token_counter
    PROVE  Inv(d, q)
<1>1. Shape(d.states, d.token_counter)
  <2>. SUFFICES ASSUME NEW u \in Token
                PROVE  ShapeOf(d.states[u], u, d.token_counter)
    BY DEF Shape
  <2>1. ShapeOf(d.states[u], u, c.token_counter)
    BY DEF Inv, StructInv, Shape
  <2>2. c.token_counter \in Int /\ d.token_counter \in Int /\ u \in Int
    BY BoundAssumption DEF Inv, StructInv, CoreType, Token
  <2>. QED  BY <2>1, <2>2 DEF ShapeOf
<1>. QED  BY <1>1 DEF Inv, StructInv

\* The states of the accepting side.
LEMMA ListenerStatesAre ==
    ASSUME NEW p \in Peer, NEW par \in Token
    PROVE  /\ ListenerExchangeState \in StateRecord
           /\ ListenerExchangeState.kind = "ListenerExchange"
           /\ ListenerExchangeState.next_state = "None" /\ ListenerExchangeState.interest = "readable"
           /\ ListenerExchangeState.children = {} /\ ListenerExchangeState.parent = NoToken
           /\ CheckReachabilityState(p, par) \in StateRecord
           /\ CheckReachabilityState(p, par).kind = "CheckReachability"
           /\ CheckReachabilityState(p, par).their_id = p
           /\ CheckReachabilityState(p, par).children = {}
           /\ CheckReachabilityState(p, par).parent = par
BY ZenonT(60) DEF ListenerExchangeState, CheckReachabilityState, NoState, StateRecord, StateKind, NextState

\* The state of an accepted socket.
LEMMA ListenerExchangeStateIs ==
    /\ ListenerExchangeState \in StateRecord
    /\ ListenerExchangeState.kind = "ListenerExchange"
    /\ ListenerExchangeState.next_state = "None" /\ ListenerExchangeState.interest = "readable"
    /\ ListenerExchangeState.children = {} /\ ListenerExchangeState.parent = NoToken
BY DEF ListenerExchangeState, NoState, StateRecord, StateKind, NextState

\* ExchangeMsg::start for an accepted socket.
LEMMA ListenerExchangeStartInv ==
    ASSUME NEW c, Inv(c, NoPeer), NEW registered \in BOOLEAN,
           c.token_counter + 1 <= MaxToken + 1, NEW x
    PROVE  Preserves(c, ListenerExchangeStart(c, registered), x)
<1>. DEFINE t == c.token_counter
            s == ListenerExchangeState
            e == GetNewTokens(c, 1)
            i == InsertState(e, t, s)
            d == SetTimeout(i, t, 0)
<1>0. /\ StructInv(c) /\ c \in CoreType /\ t \in 1 .. MaxToken + 1 /\ t \in Token /\ t \in Int
  BY BoundAssumption DEF Inv, StructInv, CoreType, Token
<1>1. /\ e \in CoreType /\ e.token_counter = t + 1 /\ e.states = c.states /\ e.cm = c.cm
  BY <1>0, NewTokensIs
<1>. HIDE DEF e
<1>2. CASE ~registered
  <2>1. ListenerExchangeStart(c, registered) = e
    BY <1>2 DEF ListenerExchangeStart, e
  <2>2. e.token_counter >= c.token_counter
    BY <1>0, <1>1
  <2>3. Inv(e, NoPeer)
    BY <1>1, <2>2, GrowInv
  <2>. QED  BY <1>1, <2>1, <2>2, <2>3 DEF Preserves, Forward
<1>3. CASE registered
  <2>1. ListenerExchangeStart(c, registered) = d
    BY <1>3 DEF ListenerExchangeStart, e
  <2>2. s \in StateRecord /\ s.kind = "ListenerExchange" /\ s.next_state = "None"
        /\ s.interest = "readable" /\ s.children = {} /\ s.parent = NoToken
    BY ListenerExchangeStateIs
  <2>. HIDE DEF s
  <2>3. /\ i \in CoreType /\ i.cm = c.cm /\ i.token_counter = t + 1
        /\ i.states = [u \in Token |-> IF u = t THEN s ELSE c.states[u]]
    BY <1>0, <1>1, <2>2, InsertStateIs
  <2>. HIDE DEF i
  <2>4. Same(i, d)
    BY <1>0, <2>3, TimersSame
  <2>. HIDE DEF d
  <2>5. /\ d \in CoreType /\ d.cm = c.cm /\ d.token_counter = t + 1
        /\ d.states[t] = s /\ \A u \in Token \ {t} : d.states[u] = c.states[u]
    BY <1>0, <2>3, <2>4 DEF Same
  <2>6. c.states[t] = NoState
    BY <1>0 DEF StructInv, Shape, ShapeOf
  <2>7. c.states[t].kind = "none" /\ c.states[t].children = {} /\ c.states[t].parent = NoToken
    BY <2>6 DEF NoState
  <2>8. Spawns(c, d, t, {})
    <3>1. ShapeOf(d.states[t], t, d.token_counter)
      BY <1>0, <2>2, <2>5 DEF ShapeOf, WithPeer, BOOTSTRAP_TOKEN
    <3>2. d.token_counter >= c.token_counter /\ t >= c.token_counter
      BY <1>0, <2>5
    <3>3. \A p \in Peer : EntryOK(d.cm[p]) /\ SameActive(c.cm[p], d.cm[p])
      BY <1>0, <2>5 DEF SameActive, StructInv, MapOK
    <3>. QED  BY <1>0, <2>2, <2>5, <2>7, <3>1, <3>2, <3>3 DEF Spawns
  <2>9. Inv(d, NoPeer)
    BY <2>2, <2>5, <2>7, <2>8, SpawnOther DEF Counted
  <2>10. Forward(c.states, d.states, x, c.token_counter)
    <3>1. t >= c.token_counter
      BY <1>0
    <3>. HIDE DEF t
    <3>. QED  BY ZenonT(60), <1>0, <2>8, <3>1, SpawnForward
  <2>. QED  BY <1>0, <2>1, <2>5, <2>9, <2>10 DEF Preserves
<1>. QED  BY <1>2, <1>3

-----------------------------------------------------------------------------
(* ExchangeMsg::terminate                                                  *)

\* CheckReachability::terminate of the states ts.
LEMMA CheckReachabilityTerminateIs ==
    ASSUME NEW c \in CoreType, NEW ts \in SUBSET Token
    PROVE  LET d == CheckReachabilityTerminate(c, ts) IN
           /\ d \in CoreType
           /\ d.states = [u \in Token |-> IF u \in ts THEN NoState ELSE c.states[u]]
           /\ d.cm = c.cm /\ d.token_counter = c.token_counter
<1>. DEFINE e == CancelTimeouts(c, ts, 0)
<1>0. 0 \in Token
  BY BoundAssumption DEF Token
<1>1. Same(c, e)
  BY <1>0, TimersSame
<1>2. CheckReachabilityTerminate(c, ts) = RemoveStates(e, ts)
  BY DEF CheckReachabilityTerminate
<1>. HIDE DEF e
<1>. QED  BY <1>1, <1>2, RemoveStatesIs DEF Same

\* The part of terminate that concerns the states, of an object s that is, or
\* was, at token t.
LEMMA ListenerEndedIs ==
    ASSUME NEW c \in CoreType, NEW t \in Token, NEW s, s.children \in SUBSET Token
    PROVE  LET alive == {u \in s.children : c.states[u].kind # "none"}
               d == CancelTimeout(RemoveState(TerminateReachabilityChildren(c, s), t), t, 0)
           IN  /\ d \in CoreType
               /\ d.states = [u \in Token |-> IF u = t \/ u \in alive THEN NoState ELSE c.states[u]]
               /\ d.cm = c.cm /\ d.token_counter = c.token_counter
<1>. DEFINE alive == {u \in s.children : c.states[u].kind # "none"}
            e1 == TerminateReachabilityChildren(c, s)
            e2 == RemoveState(e1, t)
            d  == CancelTimeout(e2, t, 0)
<1>1. /\ e1 \in CoreType
      /\ e1.states = [u \in Token |-> IF u \in alive THEN NoState ELSE c.states[u]]
      /\ e1.cm = c.cm /\ e1.token_counter = c.token_counter
  <2>1. alive \in SUBSET Token
    OBVIOUS
  <2>2. e1 = CheckReachabilityTerminate(c, alive)
    BY DEF TerminateReachabilityChildren
  <2>. HIDE DEF alive, e1
  <2>. QED  BY <2>1, <2>2, CheckReachabilityTerminateIs
<1>. HIDE DEF e1, alive
<1>2. /\ e2 \in CoreType /\ e2.cm = c.cm /\ e2.token_counter = c.token_counter
      /\ e2.states = [u \in Token |-> IF u = t THEN NoState ELSE e1.states[u]]
  BY <1>1, RemoveStateIs
<1>. HIDE DEF e2
<1>3. Same(e2, d)
  BY <1>2, TimersSame
<1>4. d.states = [u \in Token |-> IF u = t \/ u \in alive THEN NoState ELSE c.states[u]]
  BY <1>1, <1>2, <1>3 DEF Same
<1>. QED  BY <1>2, <1>3, <1>4 DEF Same, e2, e1, alive

\* A childless listener's ExchangeMsg that is in handshaking mode ends.
LEMMA ListenerRemoved ==
    ASSUME NEW c, Inv(c, NoPeer), NEW t \in Token, c.states[t].kind = "ListenerExchange",
           c.states[t].children = {}, NEW d, d \in CoreType, d.cm = c.cm,
           d.token_counter = c.token_counter,
           d.states = [u \in Token |-> IF u = t THEN NoState ELSE c.states[u]]
    PROVE  /\ c.states[t].next_state = "None" => Inv(d, NoPeer)
           /\ c.states[t].next_state # "None" => c.states[t].their_id \in Peer /\ Inv(d, c.states[t].their_id)
           /\ d.states[t] = NoState
           /\ Forward(c.states, d.states, t, c.token_counter)
<1>0. StructInv(c) /\ c.states \in [Token -> StateRecord] /\ c \in CoreType
  BY DEF Inv, StructInv, CoreType
<1>1. c.states[t].parent = NoToken
  BY <1>0, Parentless
<1>2. d.states = Detach(c.states, t)
  BY <1>0, <1>1, RemoveOrphan, RemoveStateIs
<1>3. d.states[t] = NoState /\ Forward(c.states, d.states, t, c.token_counter)
  BY DEF Forward
<1>4. ASSUME c.states[t].next_state = "None"  PROVE Inv(d, NoPeer)
  <2>1. \A p \in Peer : ~Counted(c.states[t], p)
    BY <1>4 DEF Counted
  <2>. QED  BY <1>2, <2>1, DetachOther
<1>5. ASSUME c.states[t].next_state # "None"
      PROVE  c.states[t].their_id \in Peer /\ Inv(d, c.states[t].their_id)
  <2>1. ShapeOf(c.states[t], t, c.token_counter)
    BY <1>0 DEF StructInv, Shape
  <2>2. PICK p \in Peer : c.states[t].their_id = p
    BY <1>5, <2>1 DEF ShapeOf
  <2>3. Counted(c.states[t], p)
    BY <1>5, <2>2 DEF Counted
  <2>4. Inv(d, p)
    BY <1>2, <2>3, DetachHandshake
  <2>. QED  BY <2>2, <2>4
<1>. QED  BY <1>3, <1>4, <1>5

\* ExchangeMsg::terminate: the count is given back if it was taken.
LEMMA ListenerTerminateInv ==
    ASSUME NEW c, Inv(c, NoPeer), NEW t \in Token, c.states[t].kind = "ListenerExchange"
    PROVE  LET d == ListenerTerminate(c, t, c.states[t]) IN
           Preserves(c, d, t) /\ d.states[t].kind = "none"
<1>. DEFINE s == c.states[t]
            alive == {u \in s.children : c.states[u].kind # "none"}
            e == CancelTimeout(RemoveState(TerminateReachabilityChildren(c, s), t), t, 0)
            d == ListenerTerminate(c, t, s)
<1>0. /\ StructInv(c) /\ c \in CoreType /\ c.states \in [Token -> StateRecord]
      /\ c.cm \in ConnectionMapType /\ s.children \in SUBSET Token /\ c.token_counter \in Int
  BY BoundAssumption DEF Inv, StructInv, CoreType, StateRecord
<1>1. /\ e \in CoreType
      /\ e.states = [u \in Token |-> IF u = t \/ u \in alive THEN NoState ELSE c.states[u]]
      /\ e.cm = c.cm /\ e.token_counter = c.token_counter
  <2>. HIDE DEF s
  <2>. QED  BY <1>0, ListenerEndedIs
<1>2. alive = s.children
  BY <1>0 DEF StructInv, Families, ChildOf
<1>3. e.states[t] = NoState /\ Forward(c.states, e.states, t, c.token_counter)
  <2>. HIDE DEF e, alive
  <2>. QED  BY <1>1 DEF Forward, NoState
<1>4. CASE s.next_state = "None"
  <2>1. d = e
    BY <1>4 DEF ListenerTerminate
  <2>2. e.states = DropFamily(c.states, t)
    BY <1>1, <1>2 DEF DropFamily
  <2>. HIDE DEF e
  <2>3. Inv(e, NoPeer)
    BY <1>1, <1>4, <2>2, DropFamilyOther
  <2>. QED  BY <1>0, <1>1, <1>3, <2>1, <2>3 DEF Preserves, NoState
<1>5. CASE s.next_state # "None"
  <2>. DEFINE p == s.their_id
              m == Leave(c.cm, p)
  <2>1. s.children = {}
    BY <1>0, <1>5 DEF StructInv, Shape, ShapeOf
  <2>2. e.states = [u \in Token |-> IF u = t THEN NoState ELSE c.states[u]]
    BY <1>1, <1>2, <2>1
  <2>3. d = [e EXCEPT !.cm = Leave(@, p)]
    BY <1>5 DEF ListenerTerminate
  <2>. HIDE DEF e, d
  <2>4. p \in Peer /\ Inv(e, p)
    BY <1>1, <1>5, <2>1, <2>2, ListenerRemoved
  <2>5. m \in ConnectionMapType
    BY <1>0, <2>4, LeaveIsLeaveMany, LeaveManyEffect DEF StructInv, MapOK
  <2>. HIDE DEF m
  <2>6. d \in CoreType /\ d.cm = m /\ d.states = e.states /\ d.token_counter = e.token_counter
    BY <1>1, <2>3, <2>5, MapIs DEF m
  <2>7. Inv(d, NoPeer)
    <3>. HIDE DEF p
    <3>. QED  BY <1>1, <2>4, <2>6, LeaveSettles DEF m
  <2>8. d.token_counter >= c.token_counter /\ NoState.kind = "none"
    BY <1>0, <1>1, <2>6 DEF NoState
  <2>9. Preserves(c, d, t) /\ d.states[t].kind = "none"
    BY ZenonT(60), <1>3, <2>6, <2>7, <2>8 DEF Preserves
  <2>. QED  BY Zenon, <2>9 DEF d
<1>. QED  BY <1>4, <1>5

-----------------------------------------------------------------------------
(* ExchangeMsg::write and done                                             *)

\* ConnectionCandidate::start on the accepting side, where there is no Connect.
LEMMA OrphanCandidate ==
    ASSUME NEW c, NEW e, NEW p \in Peer, Inv(e, p), NEW t \in Token, e.states[t] = NoState,
           t # BOOTSTRAP_TOKEN, t < e.token_counter, e.token_counter = c.token_counter,
           NEW registered \in BOOLEAN,
           Forward(c.states, e.states, t, c.token_counter)
    PROVE  LET d == CandidateStart(e, t, p, NoToken, registered) IN
           Preserves(c, d, t) /\ d.states[t].kind \in {"none", "ConnectionCandidate"}
<1>. DEFINE a == CandidateState(p, NoToken)
            d == CandidateStart(e, t, p, NoToken, registered)
<1>0. e \in CoreType /\ e.token_counter \in Int /\ NoToken \notin Token
  BY BoundAssumption DEF Inv, StructInv, CoreType, NoToken, Token
<1>1. CASE registered
  <2>1. d = InsertState(e, t, a)
    BY <1>1 DEF CandidateStart
  <2>2. a \in StateRecord /\ a.kind = "ConnectionCandidate"
    BY CandidateStateIs
  <2>. HIDE DEF a, d
  <2>3. /\ d \in CoreType /\ d.cm = e.cm /\ d.token_counter = e.token_counter
        /\ d.states = [u \in Token |-> IF u = t THEN a ELSE e.states[u]]
    BY <1>0, <2>1, <2>2, InsertStateIs
  <2>4. d.states = Joined(e.states, t, p, NoToken)
    BY <1>0, <2>3 DEF Joined, a
  <2>5. Inv(d, NoPeer)
    BY <2>3, <2>4, AttachCandidate
  <2>6. Forward(c.states, d.states, t, c.token_counter) /\ d.states[t].kind = "ConnectionCandidate"
    BY <2>2, <2>3 DEF Forward
  <2>. QED  BY <1>0, <2>3, <2>5, <2>6 DEF Preserves, d
<1>2. CASE ~registered
  <2>1. d = CandidateTerminate(e, t, a)
    BY <1>2 DEF CandidateStart
  <2>2. Inv(d, NoPeer) /\ d.token_counter = e.token_counter /\ d.states = e.states
    BY <2>1, CandidateNotStarted
  <2>. QED  BY <1>0, <2>2 DEF Preserves, NoState
<1>. QED  BY <1>1, <1>2

\* ExchangeMsg::done
LEMMA ListenerDoneInv ==
    ASSUME NEW c, Inv(c, NoPeer), NEW t \in Token, c.states[t].kind = "ListenerExchange",
           c.states[t].children = {}, NEW registered \in BOOLEAN, NEW outcome \in Outcomes,
           c.states[t].next_state = "ActiveConnection" => ~IsActive(c.cm, c.states[t].their_id)
    PROVE  LET d == ListenerDone(c, t, registered, outcome) IN
           /\ Preserves(c, d, t)
           /\ d.states[t].kind \in {"none", "ConnectionCandidate", "ActiveConnection"}
<1>. DEFINE s == c.states[t]
            p == s.their_id
            r == RemoveState(c, t)
            e == CancelTimeout(r, t, 0)
            d == ListenerDone(c, t, registered, outcome)
<1>0. /\ StructInv(c) /\ c \in CoreType /\ c.token_counter \in Int /\ s \in StateRecord
      /\ t \in Int
  BY BoundAssumption DEF Inv, StructInv, CoreType, Token
<1>1. /\ r \in CoreType /\ r.cm = c.cm /\ r.token_counter = c.token_counter
      /\ r.states = [u \in Token |-> IF u = t THEN NoState ELSE c.states[u]]
  BY <1>0, RemoveStateIs
<1>. HIDE DEF r
<1>2. Same(r, e)
  BY <1>1, TimersSame
<1>. HIDE DEF e
<1>3. /\ e \in CoreType /\ e.cm = c.cm /\ e.token_counter = c.token_counter
      /\ e.states = [u \in Token |-> IF u = t THEN NoState ELSE c.states[u]]
  BY <1>1, <1>2 DEF Same
<1>4. /\ s.next_state = "None" => Inv(e, NoPeer)
      /\ s.next_state # "None" => p \in Peer /\ Inv(e, p)
      /\ e.states[t] = NoState
      /\ Forward(c.states, e.states, t, c.token_counter)
  BY <1>3, ListenerRemoved
<1>5. t # BOOTSTRAP_TOKEN /\ t < e.token_counter
  <2>1. ShapeOf(s, t, c.token_counter)
    BY <1>0 DEF StructInv, Shape
  <2>. QED  BY <1>0, <1>3, <2>1 DEF ShapeOf
<1>6. CASE s.next_state = "ActiveConnection"
  <2>1. d = ActiveStart(e, t, p, "BootstrapAccept", outcome)
    BY <1>6 DEF ListenerDone, e, r
  <2>. HIDE DEF d, s
  <2>2. Exact /\ p < OurId => ~IsActive(e.cm, p)
    BY <1>3, <1>6 DEF s
  <2>. HIDE DEF p
  <2>. QED  BY <1>3, <1>4, <1>5, <1>6, <2>1, <2>2, ActiveStartPreserves DEF d
<1>7. CASE s.next_state = "ConnectionCandidate"
  <2>1. d = CandidateStart(e, t, p, NoToken, registered)
    BY <1>7 DEF ListenerDone, e, r
  <2>. HIDE DEF d, s, p
  <2>. QED  BY <1>3, <1>4, <1>5, <1>7, <2>1, OrphanCandidate DEF d
<1>8. CASE s.next_state = "None"
  <2>. DEFINE g == CancelTimeout(RemoveState(TerminateReachabilityChildren(e, s), t), t, 0)
  <2>1. d = g
    BY <1>8 DEF ListenerDone, ListenerTerminate, e, r
  <2>. HIDE DEF d
  <2>2. s.children = {} /\ {u \in s.children : e.states[u].kind # "none"} = {}
    OBVIOUS
  <2>. HIDE DEF s
  <2>3. /\ g \in CoreType
        /\ g.states = [u \in Token |-> IF u = t \/ u \in {v \in s.children : e.states[v].kind # "none"}
                                       THEN NoState ELSE e.states[u]]
        /\ g.cm = e.cm /\ g.token_counter = e.token_counter
    BY <1>3, <2>2, ListenerEndedIs
  <2>. HIDE DEF g
  <2>4. g.states = e.states
    BY <1>3, <2>2, <2>3
  <2>5. Same(e, g)
    BY <2>3, <2>4 DEF Same
  <2>6. Inv(g, NoPeer)
    BY <1>4, <1>8, <2>5, SameInv
  <2>. QED  BY <1>0, <1>3, <1>4, <2>1, <2>3, <2>4, <2>6 DEF Preserves, NoState, d
<1>. QED  BY ZenonT(60), <1>0, <1>6, <1>7, <1>8 DEF StateRecord, NextState

\* ExchangeMsg::write
LEMMA ListenerWriteInv ==
    ASSUME NEW c, Inv(c, NoPeer), NEW t \in Token, c.states[t].kind = "ListenerExchange",
           c.states[t].children = {}, NEW io \in WriteOutcome,
           NEW registered \in BOOLEAN, NEW outcome \in Outcomes
    PROVE  LET d == ListenerWrite(c, t, io, registered, outcome) IN
           /\ Preserves(c, d, t)
           /\ d.states[t].kind \in {"none", "ListenerExchange", "ConnectionCandidate",
                                    "ActiveConnection"}
<1>. DEFINE s == c.states[t]
            d == ListenerWrite(c, t, io, registered, outcome)
            busy == s.next_state = "ActiveConnection" /\ IsActive(c.cm, s.their_id)
            w == Reregister(c, t, "writable")
<1>1. CASE busy \/ (~busy /\ io = "error")
  <2>1. d = ListenerTerminate(c, t, s)
    BY <1>1 DEF ListenerWrite
  <2>2. LET e == ListenerTerminate(c, t, c.states[t]) IN
        Preserves(c, e, t) /\ e.states[t].kind = "none"
    BY ListenerTerminateInv
  <2>. QED  BY <2>1, <2>2
<1>2. CASE ~busy /\ io = "done"
  <2>1. d = ListenerDone(c, t, registered, outcome)
    BY <1>2 DEF ListenerWrite
  <2>2. LET e == ListenerDone(c, t, registered, outcome) IN
        /\ Preserves(c, e, t)
        /\ e.states[t].kind \in {"none", "ConnectionCandidate", "ActiveConnection"}
    BY <1>2, ListenerDoneInv
  <2>. QED  BY <2>1, <2>2
<1>3. CASE ~busy /\ io = "partial"
  <2>1. d = w
    BY <1>3 DEF ListenerWrite
  <2>2. /\ Inv(w, NoPeer) /\ w.token_counter = c.token_counter
        /\ \A u \in Token : SameButInterest(w.states[u], c.states[u])
    BY InterestInv
  <2>3. c.token_counter \in Int
    BY BoundAssumption DEF Inv, StructInv, CoreType
  <2>. HIDE DEF w
  <2>. QED  BY <2>1, <2>2, <2>3 DEF Preserves, Forward, SameButInterest
<1>. QED  BY ZenonT(60), <1>1, <1>2, <1>3 DEF WriteOutcome

\* handle_echo_addr_req of an ExchangeMsg that is not in handshaking mode.
LEMMA EchoAddrIsWrite ==
    ASSUME NEW c \in CoreType, NEW t \in Token, c.states[t].next_state = "None", NEW io
    PROVE  HandleEchoAddrReq(c, t, io) = ListenerWrite(c, t, io, FALSE, "ok")
<1>1. c = [c EXCEPT !.states[t].next_state = "None"]
  BY DEF CoreType, StateRecord
<1>. QED  BY <1>1 DEF HandleEchoAddrReq

-----------------------------------------------------------------------------
(* enter_handshaking_mode                                                  *)

WithNext(s, p, next) == [s EXCEPT !.next_state = next, !.their_id = p]

\* The state of an ExchangeMsg in handshaking mode.
LEMMA WithNextIs ==
    ASSUME NEW s \in StateRecord, NEW p \in Peer, NEW next \in NextState
    PROVE  LET n == WithNext(s, p, next) IN
           /\ n \in StateRecord
           /\ n.kind = s.kind /\ n.their_id = p /\ n.parent = s.parent /\ n.children = s.children
           /\ n.next_state = next /\ n.interest = s.interest
BY ZenonT(60) DEF WithNext, StateRecord

\* What enter_handshaking_mode does to the core.
LEMMA EnterHandshakingModeIs ==
    ASSUME NEW c, StructInv(c), NEW t \in Token, NEW p \in Peer, NEW next \in NextState
    PROVE  LET d == EnterHandshakingMode(c, t, p, next) IN
           /\ d \in CoreType
           /\ d.states = [u \in Token |-> IF u = t THEN WithNext(c.states[t], p, next) ELSE c.states[u]]
           /\ d.cm = Enter(c.cm, p)
           /\ d.token_counter = c.token_counter
<1>. DEFINE s == WithNext(c.states[t], p, next)
            m == Enter(c.cm, p)
            st2 == [u \in Token |-> IF u = t THEN s ELSE c.states[u]]
            d == EnterHandshakingMode(c, t, p, next)
            e == [c EXCEPT !.cm = m, !.states = st2]
<1>0. /\ c \in CoreType /\ c.cm \in ConnectionMapType /\ c.states \in [Token -> StateRecord]
      /\ EntryOK(c.cm[p])
  BY DEF StructInv, CoreType, MapOK
<1>1. m \in ConnectionMapType
  BY <1>0, EnterManyEffect DEF Enter
<1>2. s \in StateRecord
  BY <1>0, WithNextIs
<1>3. [c.states EXCEPT ![t].next_state = next, ![t].their_id = p] = st2
  BY ZenonT(60), <1>0 DEF WithNext
<1>4. d = e
  <2>. HIDE DEF m, st2
  <2>. QED  BY ZenonT(60), <1>0, <1>3 DEF EnterHandshakingMode, m, CoreType
<1>5. st2 \in [Token -> StateRecord]
  <2>. HIDE DEF s
  <2>. QED  BY <1>0, <1>2
<1>. HIDE DEF st2, m, d
<1>6. e \in CoreType /\ e.states = st2 /\ e.cm = m /\ e.token_counter = c.token_counter
  BY ZenonT(60), <1>0, <1>1, <1>5 DEF CoreType
<1>. QED  BY <1>4, <1>6 DEF d, m, st2

\* The count after enter_handshaking_mode, before the state is marked: one unit
\* more than there are handshakes.
LEMMA EnterOwes ==
    ASSUME NEW st, NEW cm \in ConnectionMapType, NEW p \in Peer, EntryOK(cm[p]),
           NEW t \in Token, ~Counted(st[t], p), CountInv(st, cm, NoPeer)
    PROVE  CountInv(st, Enter(cm, p), p)
<1>. DEFINE m == Enter(cm, p)
            h == cm[p].currently_handshaking
<1>1. /\ \A r \in Peer \ {p} : m[r] = cm[r]
      /\ SameActive(cm[p], m[p])
      /\ h + 1 <= UsizeMax => /\ m[p].currently_handshaking = h + 1
                              /\ EntryUsed(cm[p]) => EntryUsed(m[p])
  BY EnterManyEffect DEF Enter
<1>. HIDE DEF m
<1>. SUFFICES ASSUME NEW r \in Peer
              PROVE  /\ m[r].currently_handshaking = Cardinality(HS(st, r)) + Owed(r, p)
                     /\ EntryUsed(m[r])
                     /\ r < OurId => \A u \in Token : IsActiveOf(st, u, r)
                                                        => u = m[r].active_connection
  BY DEF CountInv, m
<1>2. /\ cm[r].currently_handshaking = Cardinality(HS(st, r)) + Owed(r, NoPeer)
      /\ EntryUsed(cm[r])
      /\ r < OurId => \A u \in Token : IsActiveOf(st, u, r) => u = cm[r].active_connection
  BY DEF CountInv
<1>3. Owed(r, NoPeer) = 0
  BY NoPeerIsNoPeer DEF Owed
<1>4. CASE r # p
  BY <1>1, <1>2, <1>3, <1>4 DEF Owed
<1>5. CASE r = p
  <2>1. HS(st, p) \cup {t} \subseteq Token /\ t \notin HS(st, p)
    BY DEF HS
  <2>2. Cardinality(HS(st, p) \cup {t}) = Cardinality(HS(st, p)) + 1
    BY ZenonT(60), <2>1, HSFinite, FS_AddElement
  <2>3. Cardinality(HS(st, p) \cup {t}) <= MaxToken + 1
    <3>1. IsFiniteSet(Token) /\ Cardinality(Token) = MaxToken + 1
      BY FS_Interval, BoundAssumption DEF Token
    <3>. QED  BY <2>1, <3>1, FS_Subset
  <2>4. Cardinality(HS(st, p)) \in Nat
    BY HSFinite, BoundAssumption
  <2>5. h + 1 <= UsizeMax
    BY <1>2, <1>3, <1>5, <2>2, <2>3, <2>4, BoundAssumption
  <2>6. m[p].currently_handshaking = h + 1 /\ EntryUsed(m[p])
    BY <1>1, <1>2, <1>5, <2>5
  <2>7. m[p].active_connection = cm[p].active_connection
    BY <1>1 DEF SameActive
  <2>8. Owed(r, p) = 1
    BY <1>5 DEF Owed
  <2>9. m[p].currently_handshaking = Cardinality(HS(st, p)) + 1
    BY <1>2, <1>3, <1>5, <2>4, <2>6
  <2>. QED  BY <1>2, <1>5, <2>6, <2>7, <2>8, <2>9
<1>. QED  BY <1>4, <1>5

\* enter_handshaking_mode: the state holds the unit that was added.
LEMMA EnterHandshakingModeInv ==
    ASSUME NEW c, Inv(c, NoPeer), NEW t \in Token, c.states[t].kind = "ListenerExchange",
           c.states[t].next_state = "None", c.states[t].children = {},
           NEW p \in Peer, NEW next \in NextState \ {"None"}
    PROVE  LET d == EnterHandshakingMode(c, t, p, next) IN
           /\ Inv(d, NoPeer)
           /\ d.token_counter = c.token_counter
           /\ d.states[t].kind = "ListenerExchange" /\ d.states[t].children = {}
           /\ Forward(c.states, d.states, t, c.token_counter)
<1>. DEFINE d == EnterHandshakingMode(c, t, p, next)
            s == WithNext(c.states[t], p, next)
            st == c.states
            st2 == d.states
<1>0. /\ StructInv(c) /\ c \in CoreType /\ c.cm \in ConnectionMapType /\ st \in [Token -> StateRecord]
      /\ \A r \in Peer : EntryOK(c.cm[r])
  BY DEF Inv, StructInv, CoreType, MapOK
<1>1. /\ d \in CoreType /\ d.cm = Enter(c.cm, p) /\ d.token_counter = c.token_counter
      /\ st2 = [u \in Token |-> IF u = t THEN s ELSE st[u]]
  BY <1>0, EnterHandshakingModeIs
<1>2. /\ s.kind = "ListenerExchange" /\ s.their_id = p /\ s.parent = st[t].parent
      /\ s.children = {} /\ s.next_state = next
  BY <1>0, WithNextIs
<1>. HIDE DEF d, s
<1>3. st2[t] = s /\ \A u \in Token \ {t} : st2[u] = st[u]
  BY <1>1
<1>. HIDE DEF st2
<1>4. \A u \in Token : /\ st2[u].kind = st[u].kind /\ st2[u].children = st[u].children
                       /\ st2[u].parent = st[u].parent
                       /\ st[u].kind # "ListenerExchange" => st2[u].their_id = st[u].their_id
  BY ZenonT(60), <1>2, <1>3
<1>5. Shape(st2, d.token_counter)
  <2>. SUFFICES ASSUME NEW u \in Token
                PROVE  ShapeOf(st2[u], u, d.token_counter)
    BY DEF Shape
  <2>0. ShapeOf(st[u], u, d.token_counter)
    BY <1>0, <1>1 DEF StructInv, Shape
  <2>1. CASE u # t
    BY <1>3, <2>0, <2>1
  <2>2. CASE u = t
    BY ZenonT(60), <1>2, <1>3, <2>0, <2>2 DEF ShapeOf, WithPeer
  <2>. QED  BY <2>1, <2>2
<1>6. Families(st2)
  <2>1. Families(st) /\ \A v \in Token : st[v].children \in SUBSET Token
    BY <1>0 DEF StructInv, StateRecord
  <2>2. \A v \in Token : st[v].parent \in Token \cup {NoToken}
    BY <1>0 DEF StateRecord
  <2>3. ASSUME NEW u \in Token, NEW v \in Token, ChildOf(st, u, v)  PROVE ChildOf(st2, u, v)
    BY <1>4, <2>3 DEF ChildOf
  <2>. QED  BY <1>4, <2>1, <2>2, <2>3 DEF Families
<1>7. MapOK(st2, d.cm)
  <2>1. \A u \in Token, r \in Peer : IsActiveOf(st, u, r) => IsActiveOf(st2, u, r)
    BY <1>4 DEF IsActiveOf
  <2>2. \A r \in Peer : c.cm[r].active_connection \in Token \cup {NoToken}
    BY <1>0 DEF ConnectionMapType, ConnectionId
  <2>3. MapOK(st, c.cm)
    BY <1>0 DEF StructInv
  <2>4. \A r \in Peer : EntryOK(d.cm[r]) /\ SameActive(c.cm[r], d.cm[r])
    BY <1>0, <1>1, EnterManyEffect DEF Enter, SameActive
  <2>. QED  BY <2>1, <2>2, <2>3, <2>4 DEF MapOK, SameActive
<1>8. ASSUME Exact  PROVE CountInv(st2, d.cm, NoPeer)
  <2>1. \A r \in Peer : ~Counted(st[t], r)
    BY DEF Counted
  <2>2. CountInv(st, d.cm, p)
    BY <1>0, <1>1, <1>8, <2>1, EnterOwes DEF Inv
  <2>3. \A r \in Peer : Counted(st2[t], r) <=> r = p
    BY <1>2, <1>3 DEF Counted
  <2>4. \A u \in Token \ {t}, r \in Peer : Counted(st2[u], r) <=> Counted(st[u], r)
    BY <1>3
  <2>5. \A u \in Token, r \in Peer : IsActiveOf(st2, u, r) => IsActiveOf(st, u, r)
    BY <1>4 DEF IsActiveOf
  <2>. HIDE DEF st
  <2>. QED  BY ZenonT(60), <2>1, <2>2, <2>3, <2>4, <2>5, AttachCounted
<1>9. Forward(c.states, st2, t, c.token_counter)
  BY <1>3 DEF Forward
<1>. QED  BY ZenonT(60), <1>1, <1>2, <1>3, <1>5, <1>6, <1>7, <1>8, <1>9 DEF Inv, StructInv, d, st2

\* A reply is written in handshaking mode: send_bootstrap_grant and handle_connect.
LEMMA EnterAndWrite ==
    ASSUME NEW c, Inv(c, NoPeer), NEW t \in Token, c.states[t].kind = "ListenerExchange",
           c.states[t].next_state = "None", c.states[t].children = {},
           NEW p \in Peer, NEW next \in NextState \ {"None"}, NEW io \in WriteOutcome,
           NEW registered \in BOOLEAN, NEW outcome \in Outcomes
    PROVE  LET d == ListenerWrite(EnterHandshakingMode(c, t, p, next), t, io, registered, outcome) IN
           /\ Preserves(c, d, t)
           /\ d.states[t].kind \in {"none", "ListenerExchange", "ConnectionCandidate",
                                    "ActiveConnection"}
<1>. DEFINE e == EnterHandshakingMode(c, t, p, next)
            d == ListenerWrite(e, t, io, registered, outcome)
<1>1. /\ Inv(e, NoPeer) /\ e.token_counter = c.token_counter
      /\ e.states[t].kind = "ListenerExchange" /\ e.states[t].children = {}
      /\ Forward(c.states, e.states, t, c.token_counter)
  BY EnterHandshakingModeInv
<1>. HIDE DEF e
<1>2. Preserves(e, d, t) /\ d.states[t].kind \in {"none", "ListenerExchange", "ConnectionCandidate",
                                                  "ActiveConnection"}
  BY <1>1, ListenerWriteInv
<1>. HIDE DEF d
<1>3. Forward(c.states, d.states, t, c.token_counter)
  BY <1>1, <1>2, ForwardTransitive DEF Preserves
<1>. QED  BY ZenonT(60), <1>1, <1>2, <1>3 DEF Preserves, d, e

-----------------------------------------------------------------------------
(* handle_bootstrap_req and handle_check_reachability                      *)

Checking(st, t, p, ch) ==
    [u \in Token |-> CASE u \in ch -> CheckReachabilityState(p, t)
                       [] u = t    -> WithChildren(st[t], ch)
                       [] OTHER    -> st[u]]

\* handle_bootstrap_req with listeners to reach.
LEMMA HandleBootstrapReqCheckInv ==
    ASSUME NEW c, Inv(c, NoPeer), NEW t \in Token, c.states[t].kind = "ListenerExchange",
           c.states[t].next_state = "None", c.states[t].children = {},
           c.states[t].interest = "readable",
           NEW p \in Peer, NEW n \in Nat, n > 0, c.token_counter + n <= MaxToken + 1
    PROVE  LET d == HandleBootstrapReqCheck(c, t, p, n) IN
           Preserves(c, d, t) /\ d.states[t].kind = "ListenerExchange"
<1>. DEFINE k == c.token_counter
            ch == k .. (k + n - 1)
            st == c.states
            st2 == Checking(st, t, p, ch)
            e1 == [c EXCEPT !.states = st2]
            e2 == SetTimeouts(e1, ch, 0)
            d == GetNewTokens(e2, n)
<1>0. /\ StructInv(c) /\ c \in CoreType /\ st \in [Token -> StateRecord]
      /\ k \in 1 .. MaxToken + 1 /\ Token \subseteq Int /\ k \in Int
  BY BoundAssumption DEF Inv, StructInv, CoreType, Token
<1>1. ch \in SUBSET Token /\ \A u \in ch : u >= k /\ u < k + n /\ u # BOOTSTRAP_TOKEN
  <2>1. k \in Nat /\ k >= 1 /\ k + n <= MaxToken + 1
    BY <1>0
  <2>. HIDE DEF k
  <2>. QED  BY <2>1, BoundAssumption DEF Token, BOOTSTRAP_TOKEN
<1>2. t < k /\ t \notin ch /\ t # BOOTSTRAP_TOKEN /\ st[t].parent = NoToken
  <2>1. ShapeOf(st[t], t, k)
    BY <1>0 DEF StructInv, Shape
  <2>2. st[t].parent = NoToken
    BY <1>0, Parentless
  <2>. QED  BY <1>0, <1>1, <2>1, <2>2 DEF ShapeOf
<1>3. HandleBootstrapReqCheck(c, t, p, n) = d
  BY <1>0 DEF HandleBootstrapReqCheck, Checking, WithChildren
<1>. HIDE DEF ch
<1>4. /\ st2[t] = WithChildren(st[t], ch)
      /\ \A u \in ch : st2[u] = CheckReachabilityState(p, t)
      /\ \A u \in Token \ (ch \cup {t}) : st2[u] = st[u]
  BY <1>1, <1>2 DEF Checking
<1>5. SameButChildren(st2[t], st[t]) /\ st2[t].children = ch
  BY <1>0, <1>1, <1>4, WithChildrenIs
<1>6. \A u \in ch : /\ st2[u].kind = "CheckReachability" /\ st2[u].their_id = p
                    /\ st2[u].children = {} /\ st2[u].parent = t
  BY <1>4, ListenerStatesAre
<1>7. st2 \in [Token -> StateRecord]
  BY <1>0, <1>1, WithChildrenIs, ListenerStatesAre DEF Checking
<1>. HIDE DEF st2
<1>8. /\ e1 \in CoreType /\ e1.states = st2 /\ e1.cm = c.cm /\ e1.token_counter = k
  BY <1>0, <1>7 DEF CoreType
<1>. HIDE DEF e1
<1>9. Same(e1, e2)
  BY <1>1, <1>8, TimersSame
<1>. HIDE DEF e2
<1>10. /\ d \in CoreType /\ d.states = st2 /\ d.cm = c.cm /\ d.token_counter = k + n
  BY <1>8, <1>9, NewTokensIs DEF Same
<1>. HIDE DEF d
<1>11. Spawns(c, d, t, ch)
  <2>1. ShapeOf(d.states[t], t, d.token_counter)
    <3>1. ShapeOf(st[t], t, k)
      BY <1>0 DEF StructInv, Shape
    <3>2. ~(t >= k + n) /\ ~(t >= k)
      BY <1>0, <1>2
    <3>. QED  BY <1>2, <1>5, <1>10, <3>1, <3>2 DEF ShapeOf, SameButChildren, WithPeer
  <2>2. ASSUME NEW u \in ch
        PROVE  ShapeOf(d.states[u], u, d.token_counter) /\ ChildOf(d.states, u, t)
    <3>1. u \in Int /\ u < k + n /\ u # BOOTSTRAP_TOKEN /\ t # NoToken
      BY <1>0, <1>1 DEF NoToken, Token
    <3>a. ~(u >= d.token_counter)
      BY <1>0, <1>10, <3>1
    <3>2. ShapeOf(d.states[u], u, d.token_counter)
      BY <1>6, <1>10, <3>1, <3>a DEF ShapeOf, WithPeer
    <3>3. ChildOf(d.states, u, t)
      BY ZenonT(60), <1>5, <1>6, <1>10 DEF ChildOf, SameButChildren
    <3>. QED  BY ZenonT(60), <3>2, <3>3
  <2>3. \A r \in Peer : EntryOK(d.cm[r]) /\ SameActive(c.cm[r], d.cm[r])
    BY ZenonT(60), <1>0, <1>10 DEF SameActive, StructInv, MapOK
  <2>4. d.token_counter >= c.token_counter
    BY <1>0, <1>10
  <2>5. /\ st2[t].kind = st[t].kind /\ st2[t].their_id = st[t].their_id
        /\ st2[t].parent = NoToken /\ st2[t].children = ch
    BY <1>2, <1>5 DEF SameButChildren
  <2>. QED  BY ZenonT(60), <1>1, <1>2, <1>4, <1>6, <1>10, <2>1, <2>2, <2>3, <2>4, <2>5 DEF Spawns
<1>12. Inv(d, NoPeer)
  <2>1. \A u \in ch \cup {t} : /\ d.states[u].kind # "ActiveConnection"
                               /\ \A r \in Peer : ~Counted(d.states[u], r)
    BY <1>5, <1>6, <1>10 DEF Counted, SameButChildren
  <2>2. \A r \in Peer : ~Counted(c.states[t], r)
    BY DEF Counted
  <2>. QED  BY <1>10, <1>11, <2>1, <2>2, SpawnOther
<1>13. Forward(c.states, d.states, t, c.token_counter)
  BY <1>0, <1>11, SpawnForward
<1>14. d.states[t].kind = "ListenerExchange" /\ d.token_counter >= c.token_counter
  BY <1>0, <1>5, <1>10 DEF SameButChildren
<1>. QED  BY <1>3, <1>12, <1>13, <1>14 DEF Preserves

DropChildren(st, t) ==
    [u \in Token |-> IF u = t THEN WithChildren(st[t], {})
                     ELSE IF u \in st[t].children THEN NoState ELSE st[u]]

\* terminate_childern, and the children are forgotten.
LEMMA DropChildrenInv ==
    ASSUME NEW c, NEW d, NEW q, Inv(c, q), NEW t \in Token,
           c.states[t].kind \in {"ListenerExchange", "Bootstrap"},
           d \in CoreType, d.cm = c.cm, d.token_counter = c.token_counter,
           d.states = DropChildren(c.states, t)
    PROVE  /\ Inv(d, q)
           /\ SameButChildren(d.states[t], c.states[t]) /\ d.states[t].children = {}
           /\ \A u \in Token \ {t} : d.states[u] = c.states[u] \/ d.states[u] = NoState
<1>. DEFINE st == c.states
            st2 == d.states
            ch == st[t].children
<1>0. /\ StructInv(c) /\ st \in [Token -> StateRecord] /\ c.cm \in ConnectionMapType
      /\ ch \in SUBSET Token
  BY Zenon DEF Inv, StructInv, CoreType, StateRecord
<1>1. SameButChildren(st2[t], st[t]) /\ st2[t].children = {}
  BY <1>0, WithChildrenIs DEF DropChildren
<1>2. /\ \A u \in ch : ChildOf(st, u, t)
      /\ t \notin ch
  BY ZenonT(60), <1>0 DEF StructInv, Families, ChildOf
<1>3. /\ \A u \in ch : st2[u] = NoState
      /\ \A u \in Token \ (ch \cup {t}) : st2[u] = st[u]
  BY ZenonT(60), <1>0, <1>2 DEF DropChildren
<1>. HIDE DEF st2
<1>4. Shape(st2, d.token_counter)
  <2>. SUFFICES ASSUME NEW u \in Token
                PROVE  ShapeOf(st2[u], u, d.token_counter)
    BY DEF Shape
  <2>0. ShapeOf(st[u], u, d.token_counter)
    BY <1>0 DEF StructInv, Shape
  <2>1. CASE u = t
    BY ZenonT(60), <1>1, <2>0, <2>1 DEF ShapeOf, SameButChildren
  <2>2. CASE u \in ch
    BY <1>3, <2>2 DEF ShapeOf, NoState, WithPeer
  <2>3. CASE u \notin ch \cup {t}
    BY <1>3, <2>0, <2>3
  <2>. QED  BY <2>1, <2>2, <2>3
<1>n. NoState.children = {} /\ NoState.parent = NoToken /\ NoState.kind = "none"
  BY DEF NoState
<1>5. Families(st2)
  <2>f. Families(st)
    BY <1>0 DEF StructInv
  <2>s. \A v \in Token : st[v].children \in SUBSET Token /\ st[v].parent \in Token \cup {NoToken}
    BY <1>0 DEF StateRecord
  <2>1. ASSUME NEW v \in Token, NEW u \in st2[v].children
        PROVE  ChildOf(st2, u, v)
    <3>1. v # t /\ v \notin ch
      BY <1>1, <1>3, <1>n, <2>1
    <3>2. st2[v] = st[v] /\ u \in Token
      BY <1>3, <2>s, <2>1, <3>1
    <3>3. ChildOf(st, u, v)
      BY <2>f, <2>1, <3>2 DEF Families
    <3>4. u \notin ch
      BY ZenonT(60), <1>2, <3>1, <3>3 DEF ChildOf
    <3>5. u # t
      <4>1. st[t].parent = NoToken /\ v # NoToken
        BY <1>0, Parentless DEF Token, NoToken
      <4>. QED  BY <3>3, <4>1 DEF ChildOf
    <3>6. st2[u] = st[u]
      BY <1>3, <3>2, <3>4, <3>5
    <3>. QED  BY ZenonT(60), <3>2, <3>3, <3>6 DEF ChildOf
  <2>2. ASSUME NEW u \in Token, st2[u].parent # NoToken
        PROVE  u \in st2[st2[u].parent].children
    <3>1. u # t /\ u \notin ch
      <4>1. st[t].parent = NoToken
        BY ZenonT(60), <1>0, Parentless
      <4>. QED  BY ZenonT(60), <1>1, <1>3, <1>n, <2>2, <4>1 DEF SameButChildren
    <3>2. st2[u] = st[u]
      BY <1>3, <3>1
    <3>3. st[u].parent \in Token /\ u \in st[st[u].parent].children
      BY ZenonT(60), <2>f, <2>s, <2>2, <3>2 DEF Families
    <3>4. st[u].parent # t
      BY <3>1, <3>3
    <3>5. st[u].parent \notin ch
      <4>1. \A v \in ch : st[v].children = {}
        <5>1. \A v \in ch : v \in Token /\ st[v].kind \in {"CheckReachability", "TryPeer"}
          BY ZenonT(60), <1>0, <1>2 DEF ChildOf
        <5>. QED  BY <1>0, <5>1, Childless
      <4>. QED  BY <3>3, <4>1
    <3>6. st2[st[u].parent] = st[st[u].parent]
      BY ZenonT(60), <1>3, <3>3, <3>4, <3>5
    <3>. QED  BY <3>2, <3>3, <3>6
  <2>. QED  BY <2>1, <2>2 DEF Families
<1>6. \A u \in Token, r \in Peer : IsActiveOf(st2, u, r) <=> IsActiveOf(st, u, r)
  <2>1. \A u \in ch : st[u].kind # "ActiveConnection"
    BY <1>2 DEF ChildOf
  <2>. QED  BY ZenonT(60), <1>1, <1>3, <1>n, <2>1 DEF IsActiveOf, SameButChildren
<1>7. MapOK(st2, d.cm)
  <2>2. \A r \in Peer : c.cm[r].active_connection \in Token \cup {NoToken}
    BY <1>0 DEF ConnectionMapType, ConnectionId
  <2>3. MapOK(st, c.cm)
    BY <1>0 DEF StructInv
  <2>. QED  BY <1>6, <2>2, <2>3 DEF MapOK
<1>8. ASSUME Exact  PROVE CountInv(st2, d.cm, q)
  <2>1. \A u \in Token, r \in Peer : Counted(st2[u], r) <=> Counted(st[u], r)
    <3>1. \A u \in ch, r \in Peer : ~Counted(st[u], r) /\ ~Counted(st2[u], r)
      BY ZenonT(60), <1>2, <1>3, <1>n DEF ChildOf, Counted
    <3>2. \A r \in Peer : Counted(st2[t], r) <=> Counted(st[t], r)
      BY <1>1 DEF Counted, SameButChildren
    <3>. QED  BY <1>3, <3>1, <3>2
  <2>3. CountInv(st, d.cm, q)
    BY <1>8 DEF Inv
  <2>. HIDE DEF st
  <2>. QED  BY <1>6, <2>1, <2>3, CountSame
<1>9. Inv(d, q)
  BY <1>4, <1>5, <1>7, <1>8 DEF Inv, StructInv, st2
<1>10. \A u \in Token \ {t} : d.states[u] = c.states[u] \/ d.states[u] = NoState
  BY <1>3 DEF st2
<1>. QED  BY ZenonT(60), <1>1, <1>9, <1>10 DEF st2

\* The core in which the grant is sent: the other checks are terminated.
LEMMA ClearedInv ==
    ASSUME NEW c, Inv(c, NoPeer), NEW t \in Token, c.states[t].kind = "ListenerExchange"
    PROVE  LET d == Drain(TerminateReachabilityChildren(c, c.states[t]), t) IN
           /\ Inv(d, NoPeer)
           /\ d.token_counter = c.token_counter
           /\ SameButChildren(d.states[t], c.states[t]) /\ d.states[t].children = {}
           /\ \A u \in Token \ {t} : d.states[u] = c.states[u] \/ d.states[u] = NoState
<1>. DEFINE s == c.states[t]
            alive == {u \in s.children : c.states[u].kind # "none"}
            e == TerminateReachabilityChildren(c, s)
            d == Drain(e, t)
            a == WithChildren(e.states[t], {})
            i == InsertState(e, t, a)
<1>0. /\ StructInv(c) /\ c \in CoreType /\ s.children \in SUBSET Token
      /\ c.states \in [Token -> StateRecord]
  BY Zenon DEF Inv, StructInv, CoreType, StateRecord
<1>1. alive = s.children /\ t \notin s.children
  BY ZenonT(60), <1>0 DEF StructInv, Families, ChildOf
<1>2. /\ e \in CoreType /\ e.cm = c.cm /\ e.token_counter = c.token_counter
      /\ e.states = [u \in Token |-> IF u \in s.children THEN NoState ELSE c.states[u]]
  <2>1. e = CheckReachabilityTerminate(c, s.children)
    BY ZenonT(60), <1>1 DEF TerminateReachabilityChildren
  <2>. HIDE DEF s, e
  <2>. QED  BY <1>0, <2>1, CheckReachabilityTerminateIs
<1>. HIDE DEF e
<1>3. d = i
  BY <1>2 DEF InsertState, WithChildren, CoreType, Drain
<1>4. e.states[t] = s
  BY <1>1, <1>2
<1>5. a \in StateRecord
  BY <1>0, <1>4, WithChildrenIs
<1>. HIDE DEF a
<1>6. /\ i \in CoreType /\ i.cm = c.cm /\ i.token_counter = c.token_counter
      /\ i.states = [u \in Token |-> IF u = t THEN a ELSE e.states[u]]
  BY ZenonT(60), <1>2, <1>5, InsertStateIs
<1>. HIDE DEF i
<1>7. i.states = DropChildren(c.states, t)
  BY ZenonT(60), <1>2, <1>4, <1>6 DEF DropChildren, a
<1>8. /\ Inv(i, NoPeer)
      /\ SameButChildren(i.states[t], c.states[t]) /\ i.states[t].children = {}
      /\ \A u \in Token \ {t} : i.states[u] = c.states[u] \/ i.states[u] = NoState
  BY <1>6, <1>7, DropChildrenInv
<1>. QED  BY ZenonT(60), <1>3, <1>6, <1>8 DEF e

\* What may be at the token of a ListenerExchange after one of its events.
AfterListening == {"none", "ListenerExchange", "ConnectionCandidate", "ActiveConnection"}

\* handle_success and handle_error of a CheckReachability, which ends in
\* handle_check_reachability of its parent.
LEMMA CheckReachabilityFinishInv ==
    ASSUME NEW c, Inv(c, NoPeer), NEW t \in Token, c.states[t].kind = "CheckReachability",
           NEW reached \in BOOLEAN, NEW io \in WriteOutcome, NEW registered \in BOOLEAN,
           NEW outcome \in Outcomes
    PROVE  LET d  == CheckReachabilityFinish(c, t, reached, io, registered, outcome)
               pr == c.states[t].parent
           IN  /\ pr \in Token /\ c.states[pr].kind = "ListenerExchange"
               /\ Preserves(c, d, pr) /\ d.states[t].kind = "none"
               /\ d.states[pr].kind \in AfterListening
<1>0. /\ StructInv(c) /\ c \in CoreType /\ c.states \in [Token -> StateRecord]
      /\ c.token_counter \in Int /\ t \in Int
  BY BoundAssumption DEF Inv, StructInv, CoreType, Token
<1>1. PICK pr \in Token, p \in Peer :
        /\ c.states[t].parent = pr /\ c.states[t].their_id = p /\ pr # t
        /\ c.states[pr].kind = "ListenerExchange" /\ c.states[pr].next_state = "None"
  <2>1. ShapeOf(c.states[t], t, c.token_counter)
    BY ZenonT(60), <1>0 DEF StructInv, Shape
  <2>2. c.states[t].their_id \in Peer /\ c.states[t].parent # NoToken
    BY ZenonT(60), <2>1 DEF ShapeOf, WithPeer
  <2>3. c.states[t].parent \in Token
    BY <1>0, <2>2 DEF StateRecord
  <2>4. t \in c.states[c.states[t].parent].children /\ ChildOf(c.states, t, c.states[t].parent)
    BY ZenonT(60), <1>0, <2>2, <2>3 DEF StructInv, Families
  <2>5. c.states[c.states[t].parent].kind = "ListenerExchange"
    BY <2>4 DEF ChildOf
  <2>6. ShapeOf(c.states[c.states[t].parent], c.states[t].parent, c.token_counter)
    BY ZenonT(60), <1>0, <2>3 DEF StructInv, Shape
  <2>7. c.states[c.states[t].parent].next_state = "None"
    BY ZenonT(60), <2>4, <2>5, <2>6 DEF ShapeOf
  <2>. QED  BY ZenonT(60), <2>2, <2>3, <2>5, <2>7
<1>. DEFINE r == CheckReachabilityTerminate(c, {t})
            e == RemoveChild(r, pr, t)
            s == e.states[pr]
            g == Drain(TerminateReachabilityChildren(e, s), pr)
            d == CheckReachabilityFinish(c, t, reached, io, registered, outcome)
<1>2. /\ r \in CoreType /\ r.cm = c.cm /\ r.token_counter = c.token_counter
      /\ r.states = [u \in Token |-> IF u = t THEN NoState ELSE c.states[u]]
  BY <1>0, CheckReachabilityTerminateIs
<1>3. r.states[pr] = c.states[pr]
  <2>. HIDE DEF r
  <2>. QED  BY <1>1, <1>2
<1>4. /\ e \in CoreType /\ e.cm = c.cm /\ e.token_counter = c.token_counter
      /\ e.states = Detach(c.states, t)
  <2>. DEFINE r0 == RemoveState(c, t)
              e0 == RemoveChild(r0, pr, t)
  <2>1. /\ r0 \in CoreType
        /\ r0.states = [u \in Token |-> IF u = t THEN NoState ELSE c.states[u]]
    BY <1>0, RemoveStateIs
  <2>2. e0.states = Detach(c.states, t)
    BY ZenonT(60), <1>0, <1>1, RemoveAndForget
  <2>. HIDE DEF r0, r
  <2>3. /\ e0 \in CoreType /\ e0.cm = r0.cm /\ e0.token_counter = r0.token_counter
        /\ e0.states = [v \in Token |->
                          IF v = pr THEN WithChildren(r0.states[pr], r0.states[pr].children \ {t})
                          ELSE r0.states[v]]
    BY ZenonT(60), <1>1, <2>1, RemoveChildIs
  <2>4. /\ e \in CoreType /\ e.cm = r.cm /\ e.token_counter = r.token_counter
        /\ e.states = [v \in Token |->
                         IF v = pr THEN WithChildren(r.states[pr], r.states[pr].children \ {t})
                         ELSE r.states[v]]
    BY ZenonT(60), <1>1, <1>2, RemoveChildIs
  <2>5. r.states = r0.states
    BY <1>2, <2>1
  <2>. HIDE DEF e, e0
  <2>. QED  BY ZenonT(60), <1>2, <2>2, <2>3, <2>4, <2>5
<1>5. d = IF reached THEN SendBootstrapGrant(g, pr, p, io, outcome)
          ELSE IF s.children = {} THEN SendBootstrapDenied(e, pr, io, registered, outcome)
          ELSE e
  <2>1. d = HandleCheckReachability(r, pr, t, p, reached, io, registered, outcome)
    BY <1>1 DEF CheckReachabilityFinish
  <2>. HIDE DEF r
  <2>2. Live(r, pr, "ListenerExchange")
    BY <1>1, <1>3 DEF Live
  <2>. QED  BY ZenonT(60), <2>1, <2>2 DEF HandleCheckReachability
<1>. HIDE DEF e, d
<1>6. /\ e.states[t] = NoState /\ SameButChildren(s, c.states[pr])
      /\ Forward(c.states, e.states, pr, c.token_counter)
  BY <1>0, <1>1, <1>4, DetachIs, DetachForward
<1>7. Inv(e, NoPeer)
  <2>1. c.states[t].children = {} /\ \A q \in Peer : ~Counted(c.states[t], q)
    BY <1>0, Childless DEF Counted
  <2>. QED  BY ZenonT(60), <1>4, <2>1, DetachOther
<1>8. s.kind = "ListenerExchange" /\ s.next_state = "None"
  BY ZenonT(60), <1>1, <1>6 DEF SameButChildren
<1>n. NoState.kind = "none"
  BY DEF NoState
<1>9. CASE reached
  <2>1. /\ Inv(g, NoPeer) /\ g.token_counter = e.token_counter
        /\ SameButChildren(g.states[pr], s) /\ g.states[pr].children = {}
        /\ \A u \in Token \ {pr} : g.states[u] = e.states[u] \/ g.states[u] = NoState
    <3>. HIDE DEF s
    <3>1. s = e.states[pr] /\ e.states[pr].kind = "ListenerExchange"
      BY <1>8 DEF s
    <3>2. Inv(Drain(TerminateReachabilityChildren(e, e.states[pr]), pr), NoPeer)
      BY ZenonT(60), <1>7, <3>1, ClearedInv
    <3>3. /\ Drain(TerminateReachabilityChildren(e, e.states[pr]), pr).token_counter
               = e.token_counter
          /\ SameButChildren(Drain(TerminateReachabilityChildren(e, e.states[pr]), pr).states[pr],
                             e.states[pr])
          /\ Drain(TerminateReachabilityChildren(e, e.states[pr]), pr).states[pr].children = {}
      BY ZenonT(60), <1>7, <3>1, ClearedInv
    <3>4. \A u \in Token \ {pr} :
            \/ Drain(TerminateReachabilityChildren(e, e.states[pr]), pr).states[u] = e.states[u]
            \/ Drain(TerminateReachabilityChildren(e, e.states[pr]), pr).states[u] = NoState
      BY <1>7, <3>1, ClearedInv
    <3>. QED  BY ZenonT(60), <3>1, <3>2, <3>3, <3>4
  <2>2. d = ListenerWrite(EnterHandshakingMode(g, pr, p, "ActiveConnection"), pr, io, FALSE, outcome)
    BY ZenonT(60), <1>5, <1>9 DEF SendBootstrapGrant
  <2>. HIDE DEF g, s
  <2>3. g.states[pr].kind = "ListenerExchange" /\ g.states[pr].next_state = "None"
    BY <1>8, <2>1 DEF SameButChildren
  <2>4. /\ Preserves(g, d, pr)
        /\ d.states[pr].kind \in {"none", "ListenerExchange", "ConnectionCandidate",
                                  "ActiveConnection"}
    <3>1. "ActiveConnection" \in NextState \ {"None"}
      BY DEF NextState
    <3>. QED  BY ZenonT(60), <1>1, <2>1, <2>2, <2>3, <3>1, EnterAndWrite
  <2>5. Forward(c.states, g.states, pr, c.token_counter) /\ g.states[t].kind = "none"
    BY ZenonT(60), <1>1, <1>6, <1>n, <2>1 DEF Forward
  <2>6. g.token_counter = c.token_counter
    BY ZenonT(60), <1>4, <2>1
  <2>7. Forward(c.states, d.states, pr, c.token_counter) /\ d.states[t].kind = "none"
    <3>1. t < g.token_counter
      <4>1. ShapeOf(c.states[t], t, c.token_counter)
        BY <1>0 DEF StructInv, Shape
      <4>. QED  BY <1>0, <2>6, <4>1 DEF ShapeOf
    <3>2. Forward(g.states, d.states, pr, c.token_counter)
      BY <2>4, <2>6 DEF Preserves
    <3>3. Forward(c.states, d.states, pr, c.token_counter)
      BY <2>5, <3>2, ForwardTransitive
    <3>. QED  BY ZenonT(60), <1>1, <2>5, <2>6, <3>1, <3>2, <3>3 DEF Forward
  <2>. QED  BY ZenonT(60), <1>1, <2>4, <2>6, <2>7 DEF Preserves, AfterListening, d
<1>10. CASE ~reached /\ s.children = {}
  <2>1. d = ListenerWrite(e, pr, io, registered, outcome)
    BY ZenonT(60), <1>5, <1>10 DEF SendBootstrapDenied
  <2>2. /\ Preserves(e, d, pr)
        /\ d.states[pr].kind \in {"none", "ListenerExchange", "ConnectionCandidate",
                                  "ActiveConnection"}
    BY ZenonT(60), <1>1, <1>7, <1>8, <1>10, <2>1, ListenerWriteInv
  <2>3. Forward(c.states, d.states, pr, c.token_counter) /\ d.states[t].kind = "none"
    <3>1. t < c.token_counter
      <4>1. ShapeOf(c.states[t], t, c.token_counter)
        BY <1>0 DEF StructInv, Shape
      <4>. QED  BY <1>0, <4>1 DEF ShapeOf
    <3>2. Forward(e.states, d.states, pr, c.token_counter)
      BY <1>4, <2>2 DEF Preserves
    <3>3. Forward(c.states, d.states, pr, c.token_counter)
      BY <1>6, <3>2, ForwardTransitive
    <3>. QED  BY ZenonT(60), <1>1, <1>6, <1>n, <3>1, <3>2, <3>3 DEF Forward
  <2>. QED  BY ZenonT(60), <1>1, <1>4, <2>2, <2>3 DEF Preserves, AfterListening, d
<1>11. CASE ~reached /\ s.children # {}
  <2>1. d = e
    BY ZenonT(60), <1>5, <1>11
  <2>2. Preserves(c, d, pr) /\ d.states[t].kind = "none" /\ d.states[pr].kind = "ListenerExchange"
    <3>1. e.token_counter >= c.token_counter
      BY <1>0, <1>4
    <3>. QED  BY <1>6, <1>7, <1>8, <1>n, <2>1, <3>1 DEF Preserves
  <2>. QED  BY ZenonT(60), <1>1, <2>2 DEF AfterListening, d
<1>. QED  BY ZenonT(60), <1>9, <1>10, <1>11

=============================================================================
