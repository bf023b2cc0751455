--------------------------- MODULE ConnectProofs ---------------------------
(***************************************************************************)
(* Every operation of Connect preserves the invariant of NodeInvariant,    *)
(* for every number of peers, tokens and sockets.                          *)
(***************************************************************************)
EXTENDS HandlerProofs

-----------------------------------------------------------------------------
(* Connect::terminate                                                      *)

\* terminate_children finds every child alive; the whole family ends.
LEMMA ConnectTerminateIs ==
    ASSUME NEW c, StructInv(c), NEW t \in Token, c.states[t].kind = "Connect"
    PROVE  LET d == ConnectTerminate(c, t, c.states[t]) IN
           /\ d \in CoreType
           /\ d.states = DropFamily(c.states, t)
           /\ d.cm = LeaveMany(c.cm, c.states[t].their_id, Cardinality(c.states[t].children))
           /\ d.token_counter = c.token_counter
<1>. DEFINE s  == c.states[t]
            ch == s.children
            m  == LeaveMany(c.cm, s.their_id, Cardinality(ch))
            e1 == RemoveStates(c, ch)
            e2 == [e1 EXCEPT !.cm = m]
            e3 == CancelTimeout(e2, t, 0)
            e4 == RemoveState(e3, t)
<1>0. /\ c \in CoreType /\ c.states \in [Token -> StateRecord] /\ c.cm \in ConnectionMapType
      /\ ch \in SUBSET Token /\ s.their_id \in Peer /\ EntryOK(c.cm[s.their_id])
  BY DEF StructInv, CoreType, StateRecord, Shape, ShapeOf, WithPeer, MapOK
<1>1. {u \in ch : c.states[u].kind # "none"} = ch
  BY DEF StructInv, Families, ChildOf
<1>2. Cardinality(ch) \in Nat
  BY <1>0, TokensFinite
<1>3. m \in ConnectionMapType
  BY <1>0, <1>2, LeaveManyEffect
<1>4. /\ e1 \in CoreType /\ e1.cm = c.cm /\ e1.token_counter = c.token_counter
      /\ e1.states = [u \in Token |-> IF u \in ch THEN NoState ELSE c.states[u]]
  BY <1>0, RemoveStatesIs
<1>. HIDE DEF e1, m
<1>5. /\ e2 \in CoreType /\ e2.cm = m /\ e2.token_counter = c.token_counter
      /\ e2.states = e1.states
  BY <1>3, <1>4, MapIs
<1>6. TerminateChildren(c, s) = e2
  BY ZenonT(60), <1>1, <1>4 DEF TerminateChildren, e1, m
<1>. HIDE DEF e2
<1>7. Same(e2, e3)
  BY <1>5, TimersSame
<1>. HIDE DEF e3
<1>8. /\ e4 \in CoreType /\ e4.cm = m /\ e4.token_counter = c.token_counter
      /\ e4.states = [u \in Token |-> IF u = t THEN NoState ELSE e1.states[u]]
  BY <1>5, <1>7, RemoveStateIs DEF Same
<1>9. e4.states = DropFamily(c.states, t)
  BY <1>4, <1>8 DEF DropFamily
<1>10. ConnectTerminate(c, t, s) \in {e4, ConnectFailure(e4, s.their_id)}
  BY <1>6 DEF ConnectTerminate, e3
<1>. HIDE DEF e4
<1>11. Same(e4, ConnectFailure(e4, s.their_id))
  BY <1>8, EventsSame
<1>. QED  BY <1>8, <1>9, <1>10, <1>11 DEF Same, m

\* Connect::terminate gives back what its children hold and nothing else.
LEMMA ConnectTerminateInv ==
    ASSUME NEW c, NEW q, Inv(c, q), NEW t \in Token, c.states[t].kind = "Connect"
    PROVE  LET d == ConnectTerminate(c, t, c.states[t]) IN
           /\ Inv(d, q)
           /\ d.token_counter = c.token_counter
           /\ \A u \in Token : d.states[u] = c.states[u] \/ d.states[u] = NoState
           /\ \A p \in Peer : IsActive(d.cm, p) <=> IsActive(c.cm, p)
<1>. DEFINE d == ConnectTerminate(c, t, c.states[t])
            ch == c.states[t].children
            p0 == c.states[t].their_id
<1>1. /\ d \in CoreType
      /\ d.states = DropFamily(c.states, t)
      /\ d.cm = LeaveMany(c.cm, p0, Cardinality(ch))
      /\ d.token_counter = c.token_counter
  BY ConnectTerminateIs DEF Inv
<1>. HIDE DEF d
<1>2. Inv(d, q)
  BY <1>1, DropConnect
<1>3. \A p \in Peer : d.cm[p].active_connection = c.cm[p].active_connection
  <2>1. /\ c.cm \in ConnectionMapType /\ ch \in SUBSET Token /\ p0 \in Peer /\ EntryOK(c.cm[p0])
    <3>1. c.states[t] \in StateRecord /\ c.cm \in ConnectionMapType
      BY DEF Inv, StructInv, CoreType
    <3>2. p0 \in Peer
      BY DEF Inv, StructInv, Shape, ShapeOf, WithPeer
    <3>. QED  BY <3>1, <3>2 DEF Inv, StructInv, StateRecord, MapOK
  <2>3. Cardinality(ch) \in Nat
    BY <2>1, TokensFinite
  <2>. QED  BY SMTT(30), <1>1, <2>1, <2>3, LeaveManyEffect DEF SameActive
<1>. QED  BY <1>1, <1>2, <1>3 DEF DropFamily, IsActive, d

\* maybe_terminate
LEMMA MaybeTerminateInv ==
    ASSUME NEW c, NEW q, Inv(c, q), NEW t \in Token, c.states[t].kind = "Connect"
    PROVE  LET d == MaybeTerminate(c, t) IN
           /\ Inv(d, q)
           /\ d.token_counter = c.token_counter
           /\ \A u \in Token : d.states[u] = c.states[u] \/ d.states[u] = NoState
BY ConnectTerminateInv DEF MaybeTerminate

-----------------------------------------------------------------------------
(* connect/exchange_msg.rs and connection_candidate.rs                     *)

\* What is known of the state of a handshake and of its Connect.
LEMMA HandshakeState ==
    ASSUME NEW c, StructInv(c), NEW t \in Token,
           c.states[t].kind \in {"ConnectExchange", "ConnectionCandidate"}
    PROVE  LET p  == c.states[t].their_id
               pr == c.states[t].parent
           IN  /\ p \in Peer /\ Counted(c.states[t], p)
               /\ t # BOOTSTRAP_TOKEN /\ t < c.token_counter
               /\ pr \in Token \cup {NoToken}
               /\ c.states[t].kind = "ConnectExchange" => pr # NoToken
               /\ pr # NoToken => /\ pr \in Token /\ pr # t
                                  /\ c.states[pr].kind = "Connect"
                                  /\ c.states[pr].their_id = p
<1>. DEFINE pr == c.states[t].parent
<1>1. ShapeOf(c.states[t], t, c.token_counter)
  BY DEF StructInv, Shape
<1>2. c.states[t] \in StateRecord /\ c.token_counter \in Int /\ t \in Int
  BY BoundAssumption DEF StructInv, CoreType, Token
<1>3. pr \in Token \cup {NoToken}
  BY <1>2 DEF StateRecord
<1>4. pr # NoToken => ChildOf(c.states, t, pr)
  BY <1>3 DEF StructInv, Families
<1>5. pr # NoToken => /\ pr \in Token /\ pr # t
                      /\ c.states[pr].kind = "Connect"
                      /\ c.states[pr].their_id = c.states[t].their_id
  BY ZenonT(60), <1>3, <1>4 DEF ChildOf
<1>. QED  BY <1>1, <1>2, <1>3, <1>5 DEF ShapeOf, WithPeer, Counted

\* A child of a Connect ends and the Connect forgets it.
LEMMA ChildReleased ==
    ASSUME NEW c, Inv(c, NoPeer), NEW t \in Token,
           c.states[t].kind \in {"ConnectExchange", "ConnectionCandidate"},
           c.states[t].parent # NoToken
    PROVE  LET p  == c.states[t].their_id
               pr == c.states[t].parent
               d  == RemoveChild(RemoveState(c, t), pr, t)
           IN  /\ Inv(d, p)
               /\ d \in CoreType /\ d.cm = c.cm /\ d.token_counter = c.token_counter
               /\ d.states = Detach(c.states, t)
               /\ d.states[t] = NoState
               /\ d.states[pr].kind = "Connect" /\ d.states[pr].their_id = p
               /\ Forward(c.states, d.states, t, c.token_counter)
<1>. DEFINE p  == c.states[t].their_id
            pr == c.states[t].parent
            d  == RemoveChild(RemoveState(c, t), pr, t)
<1>0. StructInv(c) /\ c.states \in [Token -> StateRecord]
  BY DEF Inv, StructInv, CoreType
<1>1. /\ p \in Peer /\ Counted(c.states[t], p)
      /\ pr \in Token /\ pr # t /\ c.states[pr].kind = "Connect" /\ c.states[pr].their_id = p
  BY <1>0, HandshakeState
<1>2. /\ d \in CoreType /\ d.states = Detach(c.states, t)
      /\ d.cm = c.cm /\ d.token_counter = c.token_counter
  BY <1>0, <1>1, RemoveAndForget
<1>. HIDE DEF d
<1>3. Inv(d, p)
  BY <1>1, <1>2, DetachHandshake
<1>4. d.states[t] = NoState /\ SameButChildren(d.states[pr], c.states[pr])
  BY <1>0, <1>1, <1>2, DetachIs
<1>5. Forward(c.states, d.states, t, c.token_counter)
  BY <1>0, <1>2, DetachForward
<1>. QED  BY ZenonT(60), <1>1, <1>2, <1>3, <1>4, <1>5 DEF d, SameButChildren

\* The same, with the count given back by the child's terminate.
LEMMA ChildTerminated ==
    ASSUME NEW c, Inv(c, NoPeer), NEW t \in Token,
           c.states[t].kind \in {"ConnectExchange", "ConnectionCandidate"},
           c.states[t].parent # NoToken
    PROVE  LET p  == c.states[t].their_id
               pr == c.states[t].parent
               e  == [RemoveState(c, t) EXCEPT !.cm = Leave(@, p)]
               d  == RemoveChild(e, pr, t)
           IN  /\ Live(e, pr, "Connect")
               /\ Inv(d, NoPeer)
               /\ d.token_counter = c.token_counter
               /\ d.states[t] = NoState /\ d.states[pr].kind = "Connect"
               /\ Forward(c.states, d.states, t, c.token_counter)
<1>. DEFINE p  == c.states[t].their_id
            pr == c.states[t].parent
            m  == Leave(c.cm, p)
            r  == RemoveState(c, t)
            e  == [r EXCEPT !.cm = Leave(@, p)]
            d1 == RemoveChild(r, pr, t)
            d  == RemoveChild(e, pr, t)
<1>0. StructInv(c) /\ c \in CoreType /\ c.cm \in ConnectionMapType
  BY DEF Inv, StructInv, CoreType
<1>1. /\ p \in Peer /\ pr \in Token /\ pr # t /\ c.states[pr].kind = "Connect"
  BY <1>0, HandshakeState
<1>2. /\ Inv(d1, p) /\ d1.cm = c.cm /\ d1.token_counter = c.token_counter
      /\ d1.states[t] = NoState /\ d1.states[pr].kind = "Connect"
      /\ Forward(c.states, d1.states, t, c.token_counter)
  BY ZenonT(60), ChildReleased
<1>3. m \in ConnectionMapType
  BY <1>0, <1>1, LeaveIsLeaveMany, LeaveManyEffect DEF StructInv, MapOK
<1>4. /\ r \in CoreType /\ r.cm = c.cm /\ r.token_counter = c.token_counter
      /\ r.states = [u \in Token |-> IF u = t THEN NoState ELSE c.states[u]]
  BY <1>0, RemoveStateIs
<1>. HIDE DEF r, m
<1>5. /\ e \in CoreType /\ e.cm = m /\ e.token_counter = c.token_counter /\ e.states = r.states
  BY <1>3, <1>4, MapIs DEF m
<1>. HIDE DEF e
<1>6. /\ d \in CoreType /\ d.cm = m /\ d.token_counter = c.token_counter /\ d.states = d1.states
  <2>1. LET g == RemoveChild(e, pr, t) IN
        /\ g \in CoreType
        /\ g.states = [v \in Token |->
                          IF v = pr THEN WithChildren(e.states[pr], e.states[pr].children \ {t})
                          ELSE e.states[v]]
        /\ g.cm = e.cm
        /\ g.token_counter = e.token_counter
    BY ZenonT(60), <1>1, <1>5, RemoveChildIs
  <2>2. RemoveChild(r, pr, t).states =
          [v \in Token |->
              IF v = pr THEN WithChildren(r.states[pr], r.states[pr].children \ {t})
              ELSE r.states[v]]
    BY ZenonT(60), <1>1, <1>4, RemoveChildIs
  <2>. QED  BY ZenonT(60), <1>5, <2>1, <2>2
<1>7. Live(e, pr, "Connect")
  BY <1>1, <1>4, <1>5 DEF Live
<1>. HIDE DEF d, d1
<1>8. Inv(d, NoPeer)
  BY <1>1, <1>2, <1>6, LeaveSettles DEF m
<1>. QED  BY ZenonT(60), <1>2, <1>6, <1>7, <1>8 DEF d, e, r

\* MaybeTerminate after a step about t that left it without a state.
LEMMA MaybeTerminatePreserves ==
    ASSUME NEW c, NEW e, NEW t \in Token, NEW pr \in Token,
           Inv(e, NoPeer), e.token_counter = c.token_counter, c.token_counter \in Int,
           e.states[pr].kind = "Connect",
           Forward(c.states, e.states, t, c.token_counter)
    PROVE  LET d == MaybeTerminate(e, pr) IN
           /\ Preserves(c, d, t)
           /\ d.states[t].kind \in {"none", e.states[t].kind}
<1>. DEFINE d == MaybeTerminate(e, pr)
<1>1. /\ Inv(d, NoPeer)
      /\ d.token_counter = e.token_counter
      /\ \A u \in Token : d.states[u] = e.states[u] \/ d.states[u] = NoState
  BY MaybeTerminateInv
<1>. HIDE DEF d
<1>2. Forward(c.states, d.states, t, c.token_counter)
  BY <1>1 DEF Forward, NoState
<1>. QED  BY <1>1, <1>2 DEF Preserves, NoState, d

\* ExchangeMsg::handle_error
LEMMA ExchangeMsgErrorInv ==
    ASSUME NEW c, Inv(c, NoPeer), NEW t \in Token, c.states[t].kind = "ConnectExchange"
    PROVE  LET d == ExchangeMsgError(c, t) IN
           Preserves(c, d, t) /\ d.states[t].kind = "none"
<1>. DEFINE p  == c.states[t].their_id
            pr == c.states[t].parent
            e  == [RemoveState(c, t) EXCEPT !.cm = Leave(@, p)]
            f  == RemoveChild(e, pr, t)
<1>0. c.token_counter \in Int /\ StructInv(c)
  BY BoundAssumption DEF Inv, StructInv, CoreType
<1>1. pr # NoToken /\ pr \in Token
  BY <1>0, HandshakeState
<1>2. /\ Live(e, pr, "Connect") /\ Inv(f, NoPeer) /\ f.token_counter = c.token_counter
      /\ f.states[t] = NoState /\ f.states[pr].kind = "Connect"
      /\ Forward(c.states, f.states, t, c.token_counter)
  BY ZenonT(60), <1>1, ChildTerminated
<1>3. ExchangeMsgError(c, t) = MaybeTerminate(f, pr)
  <2>1. ExchangeMsgError(c, t) = HandleExchangeMsg(e, pr, t, FALSE, FALSE)
    BY DEF ExchangeMsgError, ExchangeMsgTerminate
  <2>. HIDE DEF e, pr
  <2>. QED  BY <1>2, <2>1 DEF HandleExchangeMsg
<1>. HIDE DEF f, pr
<1>4. LET d == MaybeTerminate(f, pr) IN
      Preserves(c, d, t) /\ d.states[t].kind \in {"none", f.states[t].kind}
  BY ZenonT(60), <1>0, <1>1, <1>2, MaybeTerminatePreserves
<1>. QED  BY <1>2, <1>3, <1>4 DEF NoState

\* A registered candidate of a Connect: the state, and the Connect's child.
LEMMA CandidateJoins ==
    ASSUME NEW e, NEW p \in Peer, Inv(e, p), NEW t \in Token, NEW pr \in Token,
           t # BOOTSTRAP_TOKEN, t < e.token_counter, e.states[t] = NoState,
           e.states[pr].kind = "Connect", e.states[pr].their_id = p
    PROVE  LET g == AddChild(InsertState(e, t, CandidateState(p, pr)), pr, t) IN
           /\ Inv(g, NoPeer) /\ g.token_counter = e.token_counter
           /\ g.states[t].kind = "ConnectionCandidate" /\ g.states[pr].kind = "Connect"
           /\ \A u \in Token \ {t} : SameButChildren(g.states[u], e.states[u])
<1>. DEFINE a == CandidateState(p, pr)
            i == InsertState(e, t, a)
            g == AddChild(i, pr, t)
<1>0. e \in CoreType /\ e.states \in [Token -> StateRecord] /\ pr # t /\ pr # NoToken
  BY DEF Inv, StructInv, CoreType, NoState, Token, NoToken
<1>1. a \in StateRecord /\ a.kind = "ConnectionCandidate"
  BY CandidateStateIs
<1>. HIDE DEF a
<1>2. /\ i \in CoreType /\ i.cm = e.cm /\ i.token_counter = e.token_counter
      /\ i.states = [u \in Token |-> IF u = t THEN a ELSE e.states[u]]
  BY <1>0, <1>1, InsertStateIs
<1>. HIDE DEF i
<1>3. /\ g \in CoreType /\ g.cm = i.cm /\ g.token_counter = i.token_counter
      /\ g.states = [v \in Token |->
                        IF v = pr THEN WithChildren(i.states[pr], i.states[pr].children \cup {t})
                        ELSE i.states[v]]
  BY SMTT(30), <1>2, AddChildIs
<1>. HIDE DEF g
<1>4. i.states[pr] = e.states[pr]
  BY <1>0, <1>2
<1>5. g.states = [u \in Token |->
                    IF u = t THEN a
                    ELSE IF u = pr THEN WithChildren(e.states[u], e.states[u].children \cup {t})
                    ELSE e.states[u]]
  BY ZenonT(60), <1>0, <1>2, <1>3, <1>4
<1>6. Inv(g, NoPeer)
  <2>1. g.states = Joined(e.states, t, p, pr)
    BY <1>5 DEF a, Joined
  <2>2. g \in CoreType /\ g.cm = e.cm /\ g.token_counter = e.token_counter
    BY <1>2, <1>3
  <2>3. pr \in Token \cup {NoToken}
    OBVIOUS
  <2>. QED  BY <2>1, <2>2, <2>3, AttachCandidate
<1>7. ASSUME NEW u \in Token \ {t}
      PROVE  SameButChildren(g.states[u], e.states[u])
  <2>1. e.states[u] \in StateRecord /\ e.states[u].children \cup {t} \in SUBSET Token
    BY <1>0 DEF StateRecord
  <2>2. SameButChildren(WithChildren(e.states[u], e.states[u].children \cup {t}), e.states[u])
    BY <2>1, WithChildrenIs
  <2>. QED  BY <1>5, <2>2 DEF SameButChildren
<1>8. g.states[t].kind = "ConnectionCandidate" /\ g.states[pr].kind = "Connect"
  BY <1>0, <1>1, <1>5, <1>7 DEF SameButChildren
<1>. QED  BY ZenonT(60), <1>2, <1>3, <1>6, <1>7, <1>8 DEF g, i, a

\* ExchangeMsg::receive_response: the exchange becomes a candidate.
LEMMA ExchangeMsgResponseInv ==
    ASSUME NEW c, Inv(c, NoPeer), NEW t \in Token, c.states[t].kind = "ConnectExchange",
           NEW registered \in BOOLEAN
    PROVE  LET d == ExchangeMsgResponse(c, t, registered) IN
           Preserves(c, d, t) /\ d.states[t].kind \in {"none", "ConnectionCandidate"}
<1>0. c.token_counter \in Int /\ StructInv(c) /\ c \in CoreType
  BY BoundAssumption DEF Inv, StructInv, CoreType
<1>1. PICK p \in Peer, pr \in Token :
        /\ c.states[t].their_id = p /\ c.states[t].parent = pr
        /\ t # BOOTSTRAP_TOKEN /\ t < c.token_counter
        /\ pr # NoToken /\ pr # t
        /\ c.states[pr].kind = "Connect" /\ c.states[pr].their_id = p
  BY <1>0, HandshakeState
<1>. DEFINE r  == RemoveState(c, t)
            e  == RemoveChild(r, pr, t)
            a  == CandidateState(p, pr)
<1>2. /\ Inv(e, p) /\ e.token_counter = c.token_counter
      /\ e.states[t] = NoState /\ e.states[pr].kind = "Connect" /\ e.states[pr].their_id = p
      /\ Forward(c.states, e.states, t, c.token_counter)
  BY ZenonT(60), <1>1, ChildReleased
<1>3. r.states = [u \in Token |-> IF u = t THEN NoState ELSE c.states[u]]
  BY <1>0, RemoveStateIs
<1>4. Live(r, pr, "Connect") /\ r.states[pr].their_id = p
  <2>. HIDE DEF r
  <2>. QED  BY <1>1, <1>3 DEF Live
<1>5. ExchangeMsgResponse(c, t, registered)
        = MaybeTerminate(IF registered THEN AddChild(CandidateStart(e, t, p, pr, registered), pr, t)
                         ELSE CandidateStart(e, t, p, pr, registered), pr)
  <2>1. ExchangeMsgResponse(c, t, registered) = HandleExchangeMsg(r, pr, t, TRUE, registered)
    BY <1>1 DEF ExchangeMsgResponse
  <2>. HIDE DEF r
  <2>. QED  BY <1>4, <2>1 DEF HandleExchangeMsg
<1>. HIDE DEF e
<1>6. CASE registered
  <2>. DEFINE g == AddChild(InsertState(e, t, a), pr, t)
  <2>1. /\ Inv(g, NoPeer) /\ g.token_counter = e.token_counter
        /\ g.states[t].kind = "ConnectionCandidate" /\ g.states[pr].kind = "Connect"
        /\ \A u \in Token \ {t} : SameButChildren(g.states[u], e.states[u])
    BY <1>1, <1>2, CandidateJoins
  <2>2. ExchangeMsgResponse(c, t, registered) = MaybeTerminate(g, pr)
    BY <1>5, <1>6 DEF CandidateStart
  <2>. HIDE DEF g
  <2>3. Forward(c.states, g.states, t, c.token_counter)
    BY <1>2, <2>1 DEF Forward, SameButChildren
  <2>4. LET d == MaybeTerminate(g, pr) IN
        Preserves(c, d, t) /\ d.states[t].kind \in {"none", g.states[t].kind}
    BY ZenonT(60), <1>0, <1>1, <1>2, <2>1, <2>3, MaybeTerminatePreserves
  <2>. QED  BY <2>1, <2>2, <2>4
<1>7. CASE ~registered
  <2>. DEFINE g == CandidateTerminate(e, t, a)
  <2>1. Inv(g, NoPeer) /\ g.token_counter = e.token_counter /\ g.states = e.states
    BY <1>1, <1>2, CandidateNotStarted
  <2>2. ExchangeMsgResponse(c, t, registered) = MaybeTerminate(g, pr)
    BY <1>5, <1>7 DEF CandidateStart
  <2>. HIDE DEF g
  <2>3. LET d == MaybeTerminate(g, pr) IN
        Preserves(c, d, t) /\ d.states[t].kind \in {"none", g.states[t].kind}
    BY ZenonT(60), <1>0, <1>1, <1>2, <2>1, MaybeTerminatePreserves
  <2>. QED  BY <1>2, <2>1, <2>2, <2>3 DEF NoState
<1>. QED  BY <1>6, <1>7

\* ConnectionCandidate::handle_error
LEMMA CandidateErrorInv ==
    ASSUME NEW c, Inv(c, NoPeer), NEW t \in Token, c.states[t].kind = "ConnectionCandidate"
    PROVE  LET d == CandidateError(c, t) IN
           Preserves(c, d, t) /\ d.states[t].kind = "none"
<1>0. c.token_counter \in Int /\ StructInv(c) /\ c \in CoreType /\ c.cm \in ConnectionMapType
      /\ c.states \in [Token -> StateRecord]
  BY BoundAssumption DEF Inv, StructInv, CoreType
<1>1. PICK p \in Peer, pr \in Token \cup {NoToken} :
        /\ c.states[t].their_id = p /\ c.states[t].parent = pr
        /\ Counted(c.states[t], p)
        /\ pr # NoToken => pr \in Token
  BY <1>0, HandshakeState
<1>. DEFINE r == RemoveState(c, t)
            m == Leave(c.cm, p)
            e == [r EXCEPT !.cm = Leave(@, p)]
<1>2. CandidateTerminate(c, t, c.states[t]) = e
  BY <1>1 DEF CandidateTerminate
<1>3. CASE pr = NoToken
  <2>1. /\ r \in CoreType /\ r.states = Detach(c.states, t) /\ r.cm = c.cm
        /\ r.token_counter = c.token_counter
    BY <1>0, <1>1, <1>3, RemoveOrphan
  <2>2. Inv(r, p)
    BY <1>1, <2>1, DetachHandshake
  <2>. HIDE DEF r
  <2>3. m \in ConnectionMapType
    BY <1>0, <1>1, LeaveIsLeaveMany, LeaveManyEffect DEF StructInv, MapOK
  <2>. HIDE DEF m
  <2>4. /\ e \in CoreType /\ e.cm = m /\ e.token_counter = c.token_counter /\ e.states = r.states
    BY <2>1, <2>3, MapIs DEF m
  <2>. HIDE DEF e
  <2>5. Inv(e, NoPeer)
    BY <2>1, <2>2, <2>4, LeaveSettles DEF m
  <2>6. Forward(c.states, e.states, t, c.token_counter)
    BY <1>0, <2>1, <2>4, DetachForward
  <2>7. e.states[t] = NoState
    BY <1>0, <2>1, <2>4, DetachIs
  <2>8. CandidateError(c, t) = e
    BY <1>1, <1>2, <1>3 DEF CandidateError
  <2>. QED  BY <1>0, <2>4, <2>5, <2>6, <2>7, <2>8 DEF Preserves, NoState
<1>4. CASE pr # NoToken
  <2>. DEFINE f == RemoveChild(e, pr, t)
  <2>1. /\ Live(e, pr, "Connect") /\ Inv(f, NoPeer) /\ f.token_counter = c.token_counter
        /\ f.states[t] = NoState /\ f.states[pr].kind = "Connect"
        /\ Forward(c.states, f.states, t, c.token_counter)
    BY ZenonT(60), <1>1, <1>4, ChildTerminated
  <2>2. CandidateError(c, t) = MaybeTerminate(f, pr)
    <3>1. CandidateError(c, t) = HandleConnectionCandidate(e, pr, t, FALSE, "ok")
      BY <1>1, <1>2, <1>4 DEF CandidateError
    <3>. HIDE DEF e
    <3>. QED  BY <2>1, <3>1 DEF HandleConnectionCandidate
  <2>. HIDE DEF f
  <2>3. LET d == MaybeTerminate(f, pr) IN
        Preserves(c, d, t) /\ d.states[t].kind \in {"none", f.states[t].kind}
    BY ZenonT(60), <1>0, <1>1, <1>4, <2>1, MaybeTerminatePreserves
  <2>. QED  BY <2>1, <2>2, <2>3 DEF NoState
<1>. QED  BY <1>3, <1>4

\* ConnectionCandidate::done: the candidate becomes an ActiveConnection, and
\* its Connect, if it has one, ends with all its other children.
LEMMA CandidateDoneInv ==
    ASSUME NEW c, Inv(c, NoPeer), NEW t \in Token, c.states[t].kind = "ConnectionCandidate",
           NEW outcome \in Outcomes,
           Exact /\ c.states[t].their_id < OurId => ~IsActive(c.cm, c.states[t].their_id)
    PROVE  LET d == CandidateDone(c, t, outcome) IN
           Preserves(c, d, t) /\ d.states[t].kind \in {"none", "ActiveConnection"}
<1>0. c.token_counter \in Int /\ StructInv(c) /\ c \in CoreType
      /\ c.states \in [Token -> StateRecord]
  BY BoundAssumption DEF Inv, StructInv, CoreType
<1>1. PICK p \in Peer, pr \in Token \cup {NoToken} :
        /\ c.states[t].their_id = p /\ c.states[t].parent = pr
        /\ Counted(c.states[t], p)
        /\ t # BOOTSTRAP_TOKEN /\ t < c.token_counter
        /\ pr # NoToken => pr \in Token /\ pr # t /\ c.states[pr].kind = "Connect"
  BY <1>0, HandshakeState
<1>. DEFINE r == RemoveState(c, t)
<1>3. CASE pr = NoToken
  <2>. DEFINE d == ActiveStart(r, t, p, "ConnectSuccess", outcome)
  <2>1. /\ r \in CoreType /\ r.states = Detach(c.states, t) /\ r.cm = c.cm
        /\ r.token_counter = c.token_counter
    BY <1>0, <1>1, <1>3, RemoveOrphan
  <2>2. Inv(r, p)
    BY <1>1, <2>1, DetachHandshake
  <2>3. CandidateDone(c, t, outcome) = d
    BY <1>1, <1>3 DEF CandidateDone
  <2>. HIDE DEF r
  <2>4. Forward(c.states, r.states, t, c.token_counter)
    BY <1>0, <2>1, DetachForward
  <2>5. r.states[t] = NoState
    BY <1>0, <2>1, DetachIs
  <2>6. Preserves(c, d, t) /\ d.states[t].kind \in {"none", "ActiveConnection"}
    BY ZenonT(60), <1>1, <2>1, <2>2, <2>4, <2>5, ActiveStartPreserves
  <2>. QED  BY <2>3, <2>6
<1>4. CASE pr # NoToken
  <2>. DEFINE e == RemoveChild(r, pr, t)
              f == ConnectTerminate(e, pr, e.states[pr])
              d == ActiveStart(f, t, p, "ConnectSuccess", outcome)
  <2>1. /\ Inv(e, p) /\ e.token_counter = c.token_counter /\ e.cm = c.cm
        /\ e.states[t] = NoState /\ e.states[pr].kind = "Connect" /\ e.states[pr].their_id = p
        /\ Forward(c.states, e.states, t, c.token_counter)
    <3>1. LET g == RemoveChild(RemoveState(c, t), c.states[t].parent, t)
          IN  /\ Inv(g, c.states[t].their_id)
              /\ g.cm = c.cm /\ g.token_counter = c.token_counter
              /\ g.states[t] = NoState
              /\ g.states[c.states[t].parent].kind = "Connect"
              /\ g.states[c.states[t].parent].their_id = c.states[t].their_id
              /\ Forward(c.states, g.states, t, c.token_counter)
      BY ZenonT(60), <1>1, <1>4, ChildReleased
    <3>. QED  BY ZenonT(60), <1>1, <3>1
  <2>2. r.states = [u \in Token |-> IF u = t THEN NoState ELSE c.states[u]]
    BY <1>0, RemoveStateIs
  <2>3. CandidateDone(c, t, outcome) = d
    <3>1. CandidateDone(c, t, outcome) = HandleConnectionCandidate(r, pr, t, TRUE, outcome)
      BY <1>1, <1>4 DEF CandidateDone
    <3>2. Live(r, pr, "Connect")
      <4>. HIDE DEF r
      <4>. QED  BY <1>1, <1>4, <2>2 DEF Live
    <3>. HIDE DEF r
    <3>. QED  BY ZenonT(60), <2>1, <3>1, <3>2 DEF HandleConnectionCandidate
  <2>. HIDE DEF e
  <2>4. /\ Inv(f, p) /\ f.token_counter = e.token_counter
        /\ \A u \in Token : f.states[u] = e.states[u] \/ f.states[u] = NoState
        /\ IsActive(f.cm, p) <=> IsActive(e.cm, p)
    <3>1. LET g == ConnectTerminate(e, pr, e.states[pr]) IN
          /\ Inv(g, p)
          /\ g.token_counter = e.token_counter
          /\ \A u \in Token : g.states[u] = e.states[u] \/ g.states[u] = NoState
          /\ \A r1 \in Peer : IsActive(g.cm, r1) <=> IsActive(e.cm, r1)
      BY <1>1, <1>4, <2>1, ConnectTerminateInv
    <3>. QED  BY ZenonT(60), <3>1
  <2>. HIDE DEF f
  <2>5. Forward(c.states, f.states, t, c.token_counter) /\ f.states[t] = NoState
    <3>1. NoState.kind = "none"
      BY DEF NoState
    <3>. QED  BY <2>1, <2>4, <3>1 DEF Forward
  <2>6. f.token_counter = c.token_counter /\ t # BOOTSTRAP_TOKEN /\ t < f.token_counter
        /\ (Exact /\ p < OurId => ~IsActive(f.cm, p))
    <3>1. IsActive(f.cm, p) <=> IsActive(c.cm, p)
      BY <2>1, <2>4
    <3>2. Exact /\ p < OurId => ~IsActive(c.cm, p)
      BY <1>1
    <3>. QED  BY ZenonT(60), <1>1, <2>1, <2>4, <3>1, <3>2
  <2>7. Preserves(c, d, t) /\ d.states[t].kind \in {"none", "ActiveConnection"}
    BY ZenonT(60), <2>4, <2>5, <2>6, ActiveStartPreserves
  <2>. QED  BY <2>3, <2>7
<1>. QED  BY <1>3, <1>4

-----------------------------------------------------------------------------
(* ConnectionCandidate::read and write                                     *)

\* ConnectionCandidate::read
LEMMA CandidateReadInv ==
    ASSUME NEW c, Inv(c, NoPeer), NEW t \in Token, c.states[t].kind = "ConnectionCandidate",
           NEW read \in CandidateReadOutcome, NEW outcome \in Outcomes,
           Exact /\ c.states[t].their_id < OurId => ~IsActive(c.cm, c.states[t].their_id)
    PROVE  LET d == CandidateRead(c, t, read, outcome) IN
           /\ Preserves(c, d, t)
           /\ d.states[t].kind \in {"none", "ConnectionCandidate", "ActiveConnection"}
<1>1. CASE read = "choose"
  BY <1>1, CandidateDoneInv DEF CandidateRead
<1>2. CASE read = "error"
  BY <1>2, CandidateErrorInv DEF CandidateRead
<1>3. CASE read = "none"
  <2>1. CandidateRead(c, t, read, outcome) = c
    BY <1>3 DEF CandidateRead
  <2>2. c.token_counter \in Int
    BY BoundAssumption DEF Inv, StructInv, CoreType
  <2>. QED  BY <2>1, <2>2 DEF Preserves, Forward
<1>. QED  BY <1>1, <1>2, <1>3 DEF CandidateReadOutcome

\* ConnectionCandidate::write
LEMMA CandidateWriteInv ==
    ASSUME NEW c, Inv(c, NoPeer), NEW t \in Token, c.states[t].kind = "ConnectionCandidate",
           NEW io \in CandidateReadOutcome, NEW outcome \in Outcomes
    PROVE  LET d == CandidateWrite(c, t, io, outcome) IN
           /\ Preserves(c, d, t)
           /\ d.states[t].kind \in {"none", "ConnectionCandidate", "ActiveConnection"}
<1>. DEFINE w == Reregister(c, t, "readable")
            p == c.states[t].their_id
            d == CandidateWrite(c, t, io, outcome)
<1>0. p \in Nat /\ OurId \in Nat /\ p # OurId
  <2>1. StructInv(c)
    BY DEF Inv
  <2>2. p \in Peer
    BY <2>1, HandshakeState
  <2>. QED  BY ZenonT(60), <2>2, PeerAssumption, OurIdAssumption
<1>1. CASE IsActive(c.cm, p)
  BY <1>1, CandidateErrorInv DEF CandidateWrite
<1>2. CASE ~IsActive(c.cm, p) /\ OurId > p
  <2>1. d = CandidateRead(c, t, io, outcome)
    BY <1>2 DEF CandidateWrite
  <2>. QED  BY <1>2, <2>1, CandidateReadInv
<1>3. CASE ~IsActive(c.cm, p) /\ ~(OurId > p)
  <2>1. d = CandidateRead(w, t, io, outcome)
    BY ZenonT(60), <1>3 DEF CandidateWrite
  <2>2. /\ Inv(w, NoPeer) /\ w.cm = c.cm /\ w.token_counter = c.token_counter
        /\ \A u \in Token : SameButInterest(w.states[u], c.states[u])
    BY <1>0, <1>3, InterestInv
  <2>. HIDE DEF w
  <2>3. w.states[t].kind = "ConnectionCandidate" /\ w.states[t].their_id = p
    BY <2>2 DEF SameButInterest
  <2>4. ~(p < OurId)
    BY <1>0, <1>3
  <2>5. LET x == CandidateRead(w, t, io, outcome) IN
        /\ Preserves(w, x, t)
        /\ x.states[t].kind \in {"none", "ConnectionCandidate", "ActiveConnection"}
    BY ZenonT(60), <2>2, <2>3, <2>4, CandidateReadInv
  <2>. QED  BY ZenonT(60), <2>1, <2>2, <2>5 DEF Preserves, Forward, SameButInterest
<1>. QED  BY ZenonT(60), <1>1, <1>2, <1>3

-----------------------------------------------------------------------------
(* Connect::start                                                          *)

\* The states of Connect::start.
LEMMA ConnectStatesAre ==
    ASSUME NEW p \in Peer, NEW par \in Token, NEW ch \in SUBSET Token
    PROVE  /\ ConnectState(p, ch) \in StateRecord
           /\ ConnectState(p, ch).kind = "Connect" /\ ConnectState(p, ch).their_id = p
           /\ ConnectState(p, ch).children = ch /\ ConnectState(p, ch).parent = NoToken
           /\ ConnectExchangeState(p, par) \in StateRecord
           /\ ConnectExchangeState(p, par).kind = "ConnectExchange"
           /\ ConnectExchangeState(p, par).their_id = p
           /\ ConnectExchangeState(p, par).children = {} /\ ConnectExchangeState(p, par).parent = par
BY ZenonT(60) DEF ConnectState, ConnectExchangeState, NoState, StateRecord, StateKind, NextState

Connecting(st, token, p, ch) ==
    [t \in Token |-> CASE t = token -> ConnectState(p, ch)
                       [] t \in ch  -> ConnectExchangeState(p, token)
                       [] OTHER     -> st[t]]

\* What Connect::start does to the core.
LEMMA ConnectStartIs ==
    ASSUME NEW c, StructInv(c), NEW p \in Peer, NEW n \in Nat, NEW reg \in SUBSET (1 .. n),
           c.token_counter + (n + 1) <= MaxToken + 1
    PROVE  LET d  == ConnectStart(c, p, n, reg)
               ch == {c.token_counter + i : i \in reg}
           IN  /\ d \in CoreType
               /\ d.token_counter = c.token_counter + (n + 1)
               /\ d.cm = EnterMany(c.cm, p, Cardinality(ch))
               /\ d.states = Connecting(c.states, c.token_counter, p, ch)
               /\ ch \subseteq Token /\ c.token_counter \in Token \ ch
               /\ \A u \in ch : u > c.token_counter /\ u < d.token_counter
<1>. DEFINE token == c.token_counter
            ch == {token + i : i \in reg}
            m == EnterMany(c.cm, p, Cardinality(ch))
            st2 == Connecting(c.states, token, p, ch)
            died == n > 0 /\ 1 \notin reg
            e1 == IF died THEN c ELSE SetTimeout(c, token, 0)
            e2 == IF died /\ ~c.cm[p].occupied THEN ConnectFailure(e1, p) ELSE e1
            e3 == [e2 EXCEPT !.cm = m, !.states = st2]
<1>0. /\ c \in CoreType /\ c.cm \in ConnectionMapType /\ c.states \in [Token -> StateRecord]
      /\ token \in 1 .. MaxToken + 1 /\ EntryOK(c.cm[p])
  BY DEF StructInv, CoreType, MapOK
<1>1. /\ ch \subseteq Token /\ token \in Token \ ch
      /\ \A u \in ch : u > token /\ u < token + (n + 1)
  <2>1. token \in Nat /\ token >= 1 /\ token + (n + 1) <= MaxToken + 1
    BY <1>0
  <2>2. \A u \in ch : u \in Nat /\ u > token /\ u < token + (n + 1)
    BY Zenon, <2>1, NewTokensBetween
  <2>. HIDE DEF ch, token
  <2>3. ch \subseteq Token
    BY <2>1, <2>2, BoundAssumption DEF Token
  <2>4. token \in Token /\ token \notin ch
    BY <2>1, <2>2, BoundAssumption DEF Token
  <2>. QED  BY <2>2, <2>3, <2>4
<1>2. m \in ConnectionMapType
  BY ZenonT(60), <1>0, <1>1, TokensFinite, EnterManyEffect
<1>3. st2 \in [Token -> StateRecord]
  <2>. HIDE DEF ch, token
  <2>1. /\ ConnectState(p, ch) \in StateRecord
        /\ ConnectExchangeState(p, token) \in StateRecord
    BY Zenon, <1>1, ConnectStatesAre
  <2>. QED  BY <1>0, <2>1 DEF Connecting
<1>4. Same(c, e1)
  BY ZenonT(60), <1>0, <1>1, TimersSame DEF Same
<1>. HIDE DEF e1
<1>5. Same(c, e2)
  <2>1. Same(e1, ConnectFailure(e1, p))
    BY Zenon, <1>4, EventsSame DEF Same
  <2>. QED  BY ZenonT(60), <1>4, <2>1 DEF Same
<1>. HIDE DEF e2, m, died
<1>6. e2.cm = c.cm /\ e2.states = c.states /\ e2 \in CoreType
  BY <1>5 DEF Same
<1>7. ConnectStart(c, p, n, reg) = GetNewTokens(e3, n + 1)
  <2>1. [t \in Token |-> CASE t = token -> ConnectState(p, ch)
                           [] t \in ch  -> ConnectExchangeState(p, token)
                           [] OTHER     -> e2.states[t]] = st2
    BY <1>6 DEF Connecting
  <2>2. EnterMany(e2.cm, p, Cardinality(ch)) = m
    BY <1>6 DEF m
  <2>. HIDE DEF st2
  <2>. QED  BY ZenonT(60), <2>1, <2>2 DEF ConnectStart, e1, e2, died
<1>. HIDE DEF st2
<1>8. e3 \in CoreType /\ e3.states = st2 /\ e3.cm = m /\ e3.token_counter = token
  BY ZenonT(60), <1>2, <1>3, <1>5 DEF Same, CoreType
<1>. HIDE DEF e3
<1>9. LET d == GetNewTokens(e3, n + 1) IN
      /\ d \in CoreType
      /\ d.token_counter = e3.token_counter + (n + 1)
      /\ d.states = e3.states /\ d.cm = e3.cm
  <2>1. n + 1 \in Nat /\ e3.token_counter + (n + 1) <= MaxToken + 1
    BY <1>8
  <2>. QED  BY <1>8, <2>1, NewTokensIs
<1>. QED  BY ZenonT(60), <1>1, <1>7, <1>8, <1>9 DEF m, st2

\* Connect::start: one unit of the count for every child.
LEMMA ConnectStartInv ==
    ASSUME NEW c, Inv(c, NoPeer), NEW p \in Peer, NEW n \in Nat, NEW reg \in SUBSET (1 .. n),
           c.token_counter + (n + 1) <= MaxToken + 1, NEW x
    PROVE  Preserves(c, ConnectStart(c, p, n, reg), x)
<1>. DEFINE d == ConnectStart(c, p, n, reg)
            par == c.token_counter
            ch == {c.token_counter + i : i \in reg}
            k == Cardinality(ch)
            st == c.states
            st2 == d.states
<1>0. /\ StructInv(c) /\ c \in CoreType /\ c.cm \in ConnectionMapType /\ st \in [Token -> StateRecord]
      /\ par \in 1 .. MaxToken + 1 /\ EntryOK(c.cm[p])
  BY DEF Inv, StructInv, CoreType, MapOK
<1>1. /\ d \in CoreType
      /\ d.token_counter = par + (n + 1)
      /\ d.cm = EnterMany(c.cm, p, k)
      /\ st2 = Connecting(st, par, p, ch)
      /\ ch \subseteq Token /\ par \in Token \ ch
      /\ \A u \in ch : u > par /\ u < d.token_counter
  BY ZenonT(60), <1>0, ConnectStartIs
<1>. HIDE DEF d, ch, par
<1>2. /\ st2[par] = ConnectState(p, ch)
      /\ \A u \in ch : st2[u] = ConnectExchangeState(p, par)
      /\ \A u \in Token \ (ch \cup {par}) : st2[u] = st[u]
  BY <1>1 DEF Connecting
<1>. HIDE DEF st2
<1>3. IsFiniteSet(ch) /\ k \in Nat
  BY <1>1, TokensFinite
<1>4. /\ \A r \in Peer \ {p} : d.cm[r] = c.cm[r]
      /\ SameActive(c.cm[p], d.cm[p])
      /\ EntryOK(d.cm[p])
      /\ c.cm[p].currently_handshaking + k <= UsizeMax =>
            /\ d.cm[p].currently_handshaking = c.cm[p].currently_handshaking + k
            /\ EntryUsed(c.cm[p]) => EntryUsed(d.cm[p])
  <2>. HIDE DEF k
  <2>1. LET e == EnterMany(c.cm, p, k) IN
        /\ e \in ConnectionMapType
        /\ \A r \in Peer \ {p} : e[r] = c.cm[r]
        /\ SameActive(c.cm[p], e[p])
        /\ EntryOK(e[p])
        /\ c.cm[p].currently_handshaking + k <= UsizeMax =>
              /\ e[p].currently_handshaking = c.cm[p].currently_handshaking + k
              /\ EntryUsed(c.cm[p]) => EntryUsed(e[p])
    BY ZenonT(60), <1>0, <1>3, EnterManyEffect
  <2>2. d.cm = EnterMany(c.cm, p, k)
    BY Zenon, <1>1
  <2>. QED  BY ZenonT(60), <2>1, <2>2
<1>5. /\ st2[par].kind = "Connect" /\ st2[par].their_id = p
      /\ st2[par].children = ch /\ st2[par].parent = NoToken
  BY <1>1, <1>2, ConnectStatesAre
<1>6. \A u \in ch : /\ st2[u].kind = "ConnectExchange" /\ st2[u].their_id = p
                    /\ st2[u].children = {} /\ st2[u].parent = par
  BY <1>1, <1>2, ConnectStatesAre
<1>7. par \in Int /\ d.token_counter \in Int /\ Token \subseteq Int /\ st[par] = NoState
  <2>1. ShapeOf(st[par], par, par)
    BY <1>0, <1>1 DEF StructInv, Shape, par
  <2>. QED  BY <1>0, <1>1, <2>1, BoundAssumption DEF ShapeOf, Token
<1>8. Spawns(c, d, par, ch)
  <2>1. ShapeOf(st2[par], par, d.token_counter)
    <3>1. ~(par >= d.token_counter) /\ par # BOOTSTRAP_TOKEN
      <4>1. par \in Nat /\ par >= 1 /\ d.token_counter = par + (n + 1)
        BY <1>0, <1>1
      <4>. QED  BY <4>1 DEF BOOTSTRAP_TOKEN
    <3>. QED  BY <1>5, <3>1 DEF ShapeOf, WithPeer
  <2>2. ASSUME NEW u \in ch
        PROVE  /\ ShapeOf(st2[u], u, d.token_counter) /\ ChildOf(st2, u, par) /\ u >= c.token_counter
    <3>1. u \in Int /\ u > par /\ u < d.token_counter /\ u # BOOTSTRAP_TOKEN
      <4>1. par \in Nat /\ u \in Int /\ u > par /\ u < d.token_counter
        BY <1>0, <1>1, <1>7
      <4>. QED  BY <4>1 DEF BOOTSTRAP_TOKEN
    <3>2. par # NoToken
      BY <1>0, <1>7 DEF NoToken
    <3>3. ShapeOf(st2[u], u, d.token_counter)
      BY <1>6, <1>7, <3>1, <3>2 DEF ShapeOf, WithPeer
    <3>4. ChildOf(st2, u, par)
      BY <1>5, <1>6 DEF ChildOf
    <3>. QED  BY <1>7, <3>1, <3>3, <3>4 DEF par
  <2>3. \A r \in Peer : EntryOK(d.cm[r]) /\ SameActive(c.cm[r], d.cm[r])
    BY ZenonT(60), <1>0, <1>4 DEF SameActive, StructInv, MapOK
  <2>4. st[par].children = {} /\ st[par].parent = NoToken /\ st[par].kind = "none"
    BY <1>7 DEF NoState
  <2>5. d.token_counter >= c.token_counter /\ par >= c.token_counter
    BY <1>1, <1>7 DEF par
  <2>. QED  BY ZenonT(60), <1>1, <1>2, <1>5, <1>6, <2>1, <2>2, <2>3, <2>4, <2>5 DEF Spawns, st2
<1>9. StructInv(d) /\ Forward(c.states, d.states, x, c.token_counter)
  <2>1. par >= c.token_counter
    BY <1>7 DEF par
  <2>2. StructInv(d)
    BY ZenonT(60), <1>0, <1>8, SpawnStruct
  <2>. QED  BY ZenonT(60), <1>0, <1>8, <2>1, <2>2, SpawnForward
<1>10. ASSUME Exact  PROVE CountInv(st2, d.cm, NoPeer)
  <2>. SUFFICES ASSUME NEW r \in Peer
                PROVE  /\ d.cm[r].currently_handshaking = Cardinality(HS(st2, r)) + Owed(r, NoPeer)
                       /\ EntryUsed(d.cm[r])
                       /\ r < OurId => \A u \in Token : IsActiveOf(st2, u, r)
                                                          => u = d.cm[r].active_connection
    BY DEF CountInv
  <2>1. /\ c.cm[r].currently_handshaking = Cardinality(HS(st, r)) + Owed(r, NoPeer)
        /\ EntryUsed(c.cm[r])
        /\ r < OurId => \A u \in Token : IsActiveOf(st, u, r) => u = c.cm[r].active_connection
    BY <1>10 DEF Inv, CountInv
  <2>0. Owed(r, NoPeer) = 0
    BY NoPeerIsNoPeer DEF Owed
  <2>2. \A u \in Token : IsActiveOf(st2, u, r) => IsActiveOf(st, u, r)
    BY <1>2, <1>5, <1>6 DEF IsActiveOf
  <2>s. \A u \in ch \cup {par} : ~Counted(st[u], r)
    <3>1. \A u \in ch : st[u].kind = "none"
      <4>1. ASSUME NEW u \in ch  PROVE u \in Token /\ u >= c.token_counter
        <5>1. u \in Token /\ u \in Int /\ par \in Int /\ u > par
          BY Zenon, <1>1, <1>7, <4>1
        <5>2. u >= par
          BY <5>1
        <5>. QED  BY Zenon, <5>1, <5>2 DEF par
      <4>2. ASSUME NEW u \in ch  PROVE ShapeOf(st[u], u, c.token_counter)
        BY Zenon, <1>0, <4>1, <4>2 DEF StructInv, Shape
      <4>. QED  BY Zenon, <4>1, <4>2 DEF ShapeOf
    <3>. QED  BY <1>7, <3>1 DEF Counted, NoState
  <2>3. CASE r # p
    <3>1. HS(st2, r) = HS(st, r)
      BY <1>2, <1>5, <1>6, <2>s, <2>3 DEF HS, Counted
    <3>. QED  BY ZenonT(60), <1>4, <2>1, <2>2, <2>3, <3>1
  <2>4. CASE r = p
    <3>1. HS(st2, r) = HS(st, r) \cup ch /\ HS(st, r) \cap ch = {}
      BY <1>1, <1>2, <1>5, <1>6, <2>s, <2>4 DEF HS, Counted
    <3>2. Cardinality(HS(st, r) \cup ch) = Cardinality(HS(st, r)) + k - Cardinality(HS(st, r) \cap ch)
      BY <1>3, HSFinite, FS_Union
    <3>3. Cardinality(HS(st2, r)) = Cardinality(HS(st, r)) + k
      <4>1. Cardinality({}) = 0
        BY FS_EmptySet
      <4>2. Cardinality(HS(st, r)) \in Int
        BY HSFinite, BoundAssumption
      <4>. HIDE DEF k, st
      <4>3. Cardinality(HS(st, r) \cap ch) = 0
        BY ZenonT(60), <3>1, <4>1
      <4>. QED  BY <1>3, <3>1, <3>2, <4>2, <4>3
    <3>4. Cardinality(HS(st2, r)) <= UsizeMax
      BY HSFinite, BoundAssumption
    <3>. HIDE DEF k, st
    <3>a. Cardinality(HS(st, p)) \in Nat /\ c.cm[p].currently_handshaking = Cardinality(HS(st, p))
      <4>1. Cardinality(HS(st, p)) \in Nat
        BY HSFinite, BoundAssumption
      <4>2. c.cm[p].currently_handshaking = Cardinality(HS(st, p)) + 0
        BY ZenonT(60), <2>0, <2>1, <2>4
      <4>. QED  BY <4>1, <4>2
    <3>b. Cardinality(HS(st2, p)) = Cardinality(HS(st, p)) + k /\ Cardinality(HS(st2, p)) <= UsizeMax
      BY Zenon, <2>4, <3>3, <3>4
    <3>5. d.cm[p].currently_handshaking = c.cm[p].currently_handshaking + k /\ EntryUsed(d.cm[p])
      <4>1. c.cm[p].currently_handshaking + k <= UsizeMax
        BY Zenon, <3>a, <3>b
      <4>. QED  BY ZenonT(60), <1>4, <2>1, <2>4, <4>1
    <3>6. d.cm[p].active_connection = c.cm[p].active_connection
      BY ZenonT(60), <1>4 DEF SameActive
    <3>7. d.cm[r].currently_handshaking = Cardinality(HS(st2, r)) + Owed(r, NoPeer)
      <4>1. d.cm[p].currently_handshaking = Cardinality(HS(st2, p))
        BY ZenonT(60), <3>a, <3>b, <3>5
      <4>2. Cardinality(HS(st2, p)) = Cardinality(HS(st2, p)) + 0
        BY <1>3, <3>a, <3>b
      <4>. QED  BY ZenonT(60), <2>0, <2>4, <4>1, <4>2
    <3>. QED  BY ZenonT(60), <2>1, <2>2, <2>4, <3>5, <3>6, <3>7
  <2>. QED  BY <2>3, <2>4
<1>11. d.token_counter >= c.token_counter
  BY ZenonT(60), <1>8 DEF Spawns
<1>. QED  BY <1>9, <1>10, <1>11 DEF Preserves, Inv, d, st2

=============================================================================
