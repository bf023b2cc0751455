--------------------------- MODULE HandlerProofs ----------------------------
(***************************************************************************)
(* What the handlers of Connect, Listener and Bootstrap have in common:    *)
(* how a step moves the states, a candidate that joins them, a socket that *)
(* waits, a state that gets children; and that a handler which preserves   *)
(* the invariant, like those of ActiveConnection, is a step of the node.   *)
(***************************************************************************)
EXTENDS NodeInvariant

\* From a to b no token below k but x changes its kind or its peer, unless it
\* loses its state.
Forward(a, b, x, k) ==
    \A u \in Token \ {x} :
        u < k => \/ b[u].kind = "none"
                 \/ b[u].kind = a[u].kind /\ b[u].their_id = a[u].their_id

\* A step from c to d that is about the token x.
Preserves(c, d, x) ==
    /\ Inv(d, NoPeer)
    /\ d.token_counter >= c.token_counter
    /\ Forward(c.states, d.states, x, c.token_counter)

\* Two steps about the same token make one.
LEMMA ForwardTransitive ==
    ASSUME NEW a, NEW b, NEW e, NEW x, NEW k, Forward(a, b, x, k), Forward(b, e, x, k)
    PROVE  Forward(a, e, x, k)
BY DEF Forward

\* A set of tokens is finite.
LEMMA TokensFinite ==
    ASSUME NEW ts \in SUBSET Token
    PROVE  IsFiniteSet(ts) /\ Cardinality(ts) \in Nat
<1>1. IsFiniteSet(Token)
  BY FS_Interval, BoundAssumption DEF Token
<1>. QED  BY <1>1, FS_Subset, FS_CardinalityType

\* Timers and events do not matter to the invariant.
LEMMA SameInv ==
    ASSUME NEW c, NEW d, NEW q, Inv(c, q), Same(c, d)
    PROVE  Inv(d, q)
BY DEF Inv, StructInv, Same

\* Detaching a state moves nothing else.
LEMMA DetachForward ==
    ASSUME NEW st \in [Token -> StateRecord], NEW t \in Token, NEW x, NEW k
    PROVE  Forward(st, Detach(st, t), x, k)
BY SMTT(30), DetachIs DEF Forward, SameButChildren, NoState

\* ActiveConnection::start after a step about t that took its state away.
LEMMA ActiveStartPreserves ==
    ASSUME NEW c, NEW e, NEW q, Inv(e, q), e.token_counter = c.token_counter,
           NEW t \in Token, NEW p \in Peer, NEW event, NEW outcome \in Outcomes,
           e.states[t] = NoState, t # BOOTSTRAP_TOKEN, t < e.token_counter,
           Exact => q = p \/ (q = NoPeer /\ ~e.cm[p].occupied),
           Exact /\ p < OurId => ~IsActive(e.cm, p),
           Forward(c.states, e.states, t, c.token_counter)
    PROVE  LET d == ActiveStart(e, t, p, event, outcome) IN
           /\ Preserves(c, d, t)
           /\ d.states[t].kind \in {"none", "ActiveConnection"}
<1>. DEFINE d == ActiveStart(e, t, p, event, outcome)
<1>1. /\ Inv(d, NoPeer)
      /\ d.states[t] = NoState \/ IsActiveOf(d.states, t, p)
      /\ d.token_counter = e.token_counter
      /\ \A u \in Token \ {t} : d.states[u] = e.states[u]
  BY ActiveStartInv
<1>. HIDE DEF d
<1>2. Forward(c.states, d.states, t, c.token_counter)
  BY <1>1 DEF Forward
<1>3. d.token_counter \in Int
  BY <1>1, BoundAssumption DEF Inv, StructInv, CoreType
<1>4. d.states[t].kind \in {"none", "ActiveConnection"}
  BY <1>1 DEF NoState, IsActiveOf
<1>. QED  BY <1>1, <1>2, <1>3, <1>4 DEF Preserves, d

-----------------------------------------------------------------------------
(* A ConnectionCandidate takes the place of an exchange.                   *)

\* A ConnectionCandidate and its parent, if it has one.
LEMMA CandidateStateIs ==
    ASSUME NEW p \in Peer, NEW pr \in Token \cup {NoToken}
    PROVE  LET s == CandidateState(p, pr) IN
           /\ s \in StateRecord
           /\ s.kind = "ConnectionCandidate" /\ s.their_id = p /\ s.parent = pr
           /\ s.children = {} /\ s.interest = "writable"
BY ZenonT(60) DEF CandidateState, NoState, StateRecord, StateKind, NextState

\* The candidate takes over the handshake that is owed to the count.
LEMMA AttachCounted ==
    ASSUME NEW st, NEW st2, NEW cm, NEW p \in Peer, CountInv(st, cm, p), NEW t \in Token,
           \A r \in Peer : Counted(st2[t], r) <=> r = p,
           \A r \in Peer : ~Counted(st[t], r),
           \A u \in Token \ {t}, r \in Peer : Counted(st2[u], r) <=> Counted(st[u], r),
           \A u \in Token, r \in Peer : IsActiveOf(st2, u, r) => IsActiveOf(st, u, r)
    PROVE  CountInv(st2, cm, NoPeer)
<1>. SUFFICES ASSUME NEW r \in Peer
              PROVE  Cardinality(HS(st2, r)) + Owed(r, NoPeer) = Cardinality(HS(st, r)) + Owed(r, p)
  BY DEF CountInv
<1>1. Owed(r, NoPeer) = 0
  BY NoPeerIsNoPeer DEF Owed
<1>2. CASE r = p
  <2>1. HS(st2, r) = HS(st, r) \cup {t} /\ t \notin HS(st, r)
    BY <1>2 DEF HS
  <2>2. Cardinality(HS(st, r) \cup {t}) = Cardinality(HS(st, r)) + 1
    BY ZenonT(60), <2>1, HSFinite, FS_AddElement
  <2>. QED  BY <1>1, <1>2, <2>1, <2>2, HSFinite DEF Owed
<1>3. CASE r # p
  <2>1. HS(st2, r) = HS(st, r)
    BY <1>3 DEF HS
  <2>. QED  BY <1>1, <1>3, <2>1 DEF Owed
<1>. QED  BY <1>2, <1>3

Joined(st, t, p, pr) ==
    [u \in Token |-> IF u = t THEN CandidateState(p, pr)
                     ELSE IF u = pr THEN WithChildren(st[u], st[u].children \cup {t})
                     ELSE st[u]]

\* The new candidate and its Connect know each other.
LEMMA AttachCandidate ==
    ASSUME NEW c, NEW d, NEW p \in Peer, Inv(c, p), NEW t \in Token,
           c.states[t] = NoState, t # BOOTSTRAP_TOKEN, t < c.token_counter,
           NEW pr \in Token \cup {NoToken},
           pr # NoToken => c.states[pr].kind = "Connect" /\ c.states[pr].their_id = p,
           d \in CoreType, d.cm = c.cm, d.token_counter = c.token_counter,
           d.states = Joined(c.states, t, p, pr)
    PROVE  Inv(d, NoPeer)
<1>. DEFINE st == c.states
            st2 == d.states
            a == CandidateState(p, pr)
<1>0. /\ c \in CoreType /\ c.cm \in ConnectionMapType
      /\ st \in [Token -> StateRecord] /\ c.token_counter \in Int /\ t \in Int
  BY BoundAssumption DEF Inv, StructInv, CoreType, Token
<1>a. /\ a.kind = "ConnectionCandidate" /\ a.their_id = p /\ a.parent = pr
      /\ a.children = {} /\ a.interest = "writable"
  BY CandidateStateIs
<1>. HIDE DEF a
<1>p. pr # t
  BY DEF NoState, Token, NoToken
<1>3. /\ st2[t] = a
      /\ \A u \in Token \ {t, pr} : st2[u] = st[u]
      /\ pr # NoToken => /\ SameButChildren(st2[pr], st[pr])
                         /\ st2[pr].children = st[pr].children \cup {t}
  <2>1. ASSUME pr # NoToken
        PROVE  /\ SameButChildren(st2[pr], st[pr])
               /\ st2[pr].children = st[pr].children \cup {t}
    <3>1. st[pr] \in StateRecord /\ st[pr].children \cup {t} \in SUBSET Token /\ pr \in Token
      BY <1>0, <2>1 DEF StateRecord
    <3>2. st2[pr] = WithChildren(st[pr], st[pr].children \cup {t})
      BY <1>p, <3>1 DEF Joined
    <3>. QED  BY <3>1, <3>2, WithChildrenIs
  <2>. QED  BY ZenonT(60), <2>1 DEF a, Joined
<1>6. /\ \A u \in Token \ {t} : SameButChildren(st2[u], st[u])
      /\ \A u \in Token \ {t} : u # pr => st2[u].children = st[u].children
      /\ pr \in Token => st2[pr].children = st[pr].children \cup {t}
  <2>1. ASSUME NEW u \in Token \ {t}  PROVE SameButChildren(st2[u], st[u])
    <3>1. CASE u = pr
      BY <1>3, <3>1 DEF Token, NoToken
    <3>2. CASE u # pr
      <4>1. st2[u] = st[u]
        BY <1>3, <3>2
      <4>. QED  BY <4>1 DEF SameButChildren
    <3>. QED  BY <3>1, <3>2
  <2>2. pr \in Token => pr # NoToken
    BY DEF Token, NoToken
  <2>. QED  BY <1>3, <2>1, <2>2
<1>t. st[t].children = {} /\ st[t].parent = NoToken /\ \A u \in Token : t \notin st[u].children
  BY Childless, Parentless DEF Inv, NoState
<1>4. Shape(st2, d.token_counter)
  <2>. SUFFICES ASSUME NEW u \in Token
                PROVE  ShapeOf(st2[u], u, d.token_counter)
    BY DEF Shape
  <2>0. ShapeOf(st[u], u, d.token_counter)
    BY DEF Inv, StructInv, Shape
  <2>1. CASE u = t
    BY <1>0, <1>3, <1>a, <2>1 DEF ShapeOf, WithPeer
  <2>2. CASE u # t /\ u # pr
    BY <1>3, <2>0, <2>2
  <2>3. CASE u = pr
    <3>1. pr # NoToken
      BY <2>3 DEF Token, NoToken
    <3>. QED  BY ZenonT(60), <1>3, <2>0, <2>3, <3>1 DEF ShapeOf, SameButChildren
  <2>. QED  BY <2>1, <2>2, <2>3
<1>5. Families(st2)
  <2>f. Families(st)
    BY DEF Inv, StructInv
  <2>s. \A v \in Token : st[v].children \in SUBSET Token /\ st[v].parent \in Token \cup {NoToken}
    BY <1>0 DEF StateRecord
  <2>2. ASSUME NEW v \in Token, NEW u \in st2[v].children
        PROVE  ChildOf(st2, u, v)
    <3>1. v # t
      BY <1>3, <1>a, <2>2
    <3>2. CASE u = t
      <4>1. v = pr
        BY <1>6, <1>t, <2>2, <3>1, <3>2
      <4>2. pr # NoToken
        BY <4>1 DEF Token, NoToken
      <4>. QED  BY <1>3, <1>a, <3>2, <4>1, <4>2 DEF ChildOf, SameButChildren
    <3>3. CASE u # t
      <4>1. u \in st[v].children
        BY <1>6, <2>2, <3>1, <3>3
      <4>2. u \in Token /\ ChildOf(st, u, v)
        BY <2>f, <2>s, <4>1 DEF Families
      <4>3. SameButChildren(st2[u], st[u]) /\ SameButChildren(st2[v], st[v])
        BY <1>6, <3>1, <3>3, <4>2
      <4>. QED  BY <4>2, <4>3 DEF ChildOf, SameButChildren
    <3>. QED  BY <3>2, <3>3
  <2>3. ASSUME NEW u \in Token, st2[u].parent # NoToken
        PROVE  u \in st2[st2[u].parent].children
    <3>1. CASE u = t
      <4>1. pr \in Token /\ st2[u].parent = pr
        BY <1>3, <1>a, <2>3, <3>1
      <4>. QED  BY <1>6, <3>1, <4>1
    <3>2. CASE u # t
      <4>1. st2[u].parent = st[u].parent
        BY <1>6, <3>2 DEF SameButChildren
      <4>2. st[u].parent \in Token /\ u \in st[st[u].parent].children
        BY <2>f, <2>s, <2>3, <4>1 DEF Families
      <4>3. st[u].parent # t
        BY <1>t, <4>2
      <4>. QED  BY <1>6, <4>1, <4>2, <4>3
    <3>. QED  BY <3>1, <3>2
  <2>. QED  BY <2>2, <2>3 DEF Families
<1>7. MapOK(st2, d.cm)
  <2>1. \A u \in Token, r \in Peer : IsActiveOf(st, u, r) => IsActiveOf(st2, u, r)
    BY <1>6 DEF IsActiveOf, SameButChildren, NoState
  <2>2. \A r \in Peer : c.cm[r].active_connection \in Token \cup {NoToken}
    BY <1>0 DEF ConnectionMapType, ConnectionId
  <2>3. MapOK(st, c.cm)
    BY DEF Inv, StructInv
  <2>. QED  BY <2>1, <2>2, <2>3 DEF MapOK
<1>8. ASSUME Exact  PROVE CountInv(st2, d.cm, NoPeer)
  <2>1. \A r \in Peer : Counted(st2[t], r) <=> r = p
    BY <1>3, <1>a DEF Counted
  <2>2. \A r \in Peer : ~Counted(st[t], r)
    BY DEF Counted, NoState
  <2>3. \A u \in Token \ {t}, r \in Peer : Counted(st2[u], r) <=> Counted(st[u], r)
    BY <1>6 DEF Counted, SameButChildren
  <2>4. \A u \in Token, r \in Peer : IsActiveOf(st2, u, r) => IsActiveOf(st, u, r)
    BY ZenonT(60), <1>3, <1>6, <1>a DEF IsActiveOf, SameButChildren
  <2>5. CountInv(st, d.cm, p)
    BY <1>8 DEF Inv
  <2>. HIDE DEF st, st2
  <2>. QED  BY <2>1, <2>2, <2>3, <2>4, <2>5, AttachCounted
<1>. QED  BY <1>4, <1>5, <1>7, <1>8 DEF Inv, StructInv

\* ConnectionCandidate::start that cannot register its socket: the handshake
\* that is owed is given back.
LEMMA CandidateNotStarted ==
    ASSUME NEW c, NEW p \in Peer, Inv(c, p), NEW t \in Token, c.states[t] = NoState, NEW pr
    PROVE  LET d == CandidateTerminate(c, t, CandidateState(p, pr)) IN
           Inv(d, NoPeer) /\ d.token_counter = c.token_counter /\ d.states = c.states
<1>. DEFINE r == RemoveState(c, t)
            m == Leave(c.cm, p)
            d == [r EXCEPT !.cm = m]
<1>0. c \in CoreType /\ c.cm \in ConnectionMapType /\ c.states \in [Token -> StateRecord]
  BY DEF Inv, StructInv, CoreType
<1>1. m \in ConnectionMapType
  BY <1>0, LeaveIsLeaveMany, LeaveManyEffect DEF Inv, StructInv, MapOK
<1>2. /\ r \in CoreType /\ r.cm = c.cm /\ r.token_counter = c.token_counter
      /\ r.states = c.states
  BY <1>0, RemoveStateIs
<1>3. CandidateState(p, pr).their_id = p
  BY DEF CandidateState, NoState
<1>. HIDE DEF r
<1>4. CandidateTerminate(c, t, CandidateState(p, pr)) = d
  BY <1>2, <1>3 DEF CandidateTerminate, r
<1>. HIDE DEF m
<1>5. /\ d \in CoreType /\ d.cm = m /\ d.token_counter = c.token_counter /\ d.states = c.states
  BY <1>1, <1>2, MapIs
<1>. HIDE DEF d
<1>. QED  BY <1>4, <1>5, LeaveSettles DEF m

-----------------------------------------------------------------------------
(* Waiting for the socket to be readable or writable.                      *)

WithInterest(s, interest) == [s EXCEPT !.interest = interest]

\* a and b differ in their interest only.
SameButInterest(a, b) ==
    /\ a.kind = b.kind /\ a.their_id = b.their_id /\ a.parent = b.parent
    /\ a.next_state = b.next_state /\ a.children = b.children /\ a.sd_meta = b.sd_meta

\* poll.reregister changes what a state waits for and nothing else.
LEMMA WithInterestIs ==
    ASSUME NEW s \in StateRecord, NEW i \in {"readable", "writable"}
    PROVE  /\ WithInterest(s, i) \in StateRecord
           /\ SameButInterest(WithInterest(s, i), s)
           /\ WithInterest(s, i).interest = i
BY DEF WithInterest, StateRecord, SameButInterest

\* The core after poll.reregister.
LEMMA InterestIs ==
    ASSUME NEW c \in CoreType, NEW t \in Token, NEW i \in {"readable", "writable"}
    PROVE  LET d == Reregister(c, t, i) IN
           /\ d \in CoreType
           /\ d.states = [u \in Token |-> IF u = t THEN WithInterest(c.states[t], i) ELSE c.states[u]]
           /\ d.cm = c.cm
           /\ d.token_counter = c.token_counter
<1>. DEFINE s == WithInterest(c.states[t], i)
            e == Reregister(c, t, i)
            d == InsertState(c, t, s)
<1>1. e = d
  BY DEF InsertState, WithInterest, CoreType, Reregister
<1>2. s \in StateRecord
  BY WithInterestIs DEF CoreType
<1>. HIDE DEF s
<1>3. /\ d \in CoreType
      /\ d.states = [u \in Token |-> IF u = t THEN s ELSE c.states[u]]
      /\ d.cm = c.cm
      /\ d.token_counter = c.token_counter
  BY <1>2, InsertStateIs
<1>. QED  BY <1>1, <1>3 DEF s

\* poll.reregister keeps the invariant.
LEMMA InterestInv ==
    ASSUME NEW c, NEW q, Inv(c, q), NEW t \in Token, NEW i \in {"readable", "writable"},
           c.states[t].kind = "ConnectionCandidate" => (i = "readable" => c.states[t].their_id > OurId),
           c.states[t].kind = "ListenerExchange" => c.states[t].children = {},
           c.states[t].kind # "none"
    PROVE  LET d == Reregister(c, t, i) IN
           /\ Inv(d, q)
           /\ d.cm = c.cm
           /\ d.token_counter = c.token_counter
           /\ \A u \in Token : SameButInterest(d.states[u], c.states[u])
<1>. DEFINE d == Reregister(c, t, i)
            st == c.states
            st2 == d.states
<1>0. c \in CoreType /\ st \in [Token -> StateRecord] /\ c.cm \in ConnectionMapType
  BY DEF Inv, StructInv, CoreType
<1>1. /\ d \in CoreType /\ d.cm = c.cm /\ d.token_counter = c.token_counter
      /\ st2 = [u \in Token |-> IF u = t THEN WithInterest(st[t], i) ELSE st[u]]
  BY ZenonT(60), <1>0, InterestIs
<1>. HIDE DEF d
<1>2. SameButInterest(st2[t], st[t]) /\ st2[t].interest = i
  BY <1>0, <1>1, WithInterestIs
<1>3. \A u \in Token \ {t} : st2[u] = st[u]
  BY <1>1
<1>. HIDE DEF st2
<1>4. \A u \in Token : SameButInterest(st2[u], st[u])
  BY <1>2, <1>3 DEF SameButInterest
<1>5. Shape(st2, d.token_counter)
  <2>. SUFFICES ASSUME NEW u \in Token
                PROVE  ShapeOf(st2[u], u, d.token_counter)
    BY DEF Shape
  <2>0. ShapeOf(st[u], u, d.token_counter)
    BY <1>1 DEF Inv, StructInv, Shape
  <2>1. CASE u # t
    BY <1>3, <2>0, <2>1
  <2>2. CASE u = t
    <3>1. st[t].kind # "none" /\ SameButInterest(st2[t], st[t]) /\ st2[t].interest = i
      BY <1>2
    <3>. QED  BY ZenonT(60), <2>0, <2>2, <3>1 DEF ShapeOf, SameButInterest, NoState
  <2>. QED  BY <2>1, <2>2
<1>6. Families(st2)
  <2>1. Families(st) /\ \A v \in Token : st[v].children \in SUBSET Token
    BY <1>0 DEF Inv, StructInv, StateRecord
  <2>2. \A v \in Token : st2[v].children = st[v].children /\ st2[v].parent = st[v].parent
    BY <1>4 DEF SameButInterest
  <2>3. \A v \in Token : st[v].parent \in Token \cup {NoToken}
    BY <1>0 DEF StateRecord
  <2>4. \A u, v \in Token : ChildOf(st, u, v) => ChildOf(st2, u, v)
    BY <1>4 DEF ChildOf, SameButInterest
  <2>. QED  BY <2>1, <2>2, <2>3, <2>4 DEF Families
<1>7. MapOK(st2, d.cm)
  <2>1. \A u \in Token, r \in Peer : IsActiveOf(st, u, r) => IsActiveOf(st2, u, r)
    BY <1>4 DEF IsActiveOf, SameButInterest
  <2>2. \A r \in Peer : c.cm[r].active_connection \in Token \cup {NoToken}
    BY <1>0 DEF ConnectionMapType, ConnectionId
  <2>3. MapOK(st, c.cm)
    BY DEF Inv, StructInv
  <2>. QED  BY <1>1, <2>1, <2>2, <2>3 DEF MapOK
<1>8. ASSUME Exact  PROVE CountInv(st2, d.cm, q)
  <2>1. \A u \in Token, r \in Peer : Counted(st2[u], r) <=> Counted(st[u], r)
    BY <1>4 DEF Counted, SameButInterest
  <2>2. \A u \in Token, r \in Peer : IsActiveOf(st2, u, r) => IsActiveOf(st, u, r)
    BY <1>4 DEF IsActiveOf, SameButInterest
  <2>3. CountInv(st, d.cm, q)
    BY <1>1, <1>8 DEF Inv
  <2>. HIDE DEF st
  <2>. QED  BY <2>1, <2>2, <2>3, CountSame
<1>9. Inv(d, q)
  BY <1>1, <1>5, <1>6, <1>7, <1>8 DEF Inv, StructInv, st2
<1>. QED  BY <1>1, <1>4, <1>9 DEF d, st2

-----------------------------------------------------------------------------
(* A state takes new tokens and gives them to its children.                *)

\* From c to d the childless state par, which may be new itself, gets the
\* children ch, all on tokens that are new.
Spawns(c, d, par, ch) ==
    /\ d \in CoreType
    /\ d.token_counter >= c.token_counter
    /\ ch \subseteq Token /\ par \in Token \ ch
    /\ c.states[par].children = {} /\ c.states[par].parent = NoToken
    /\ c.states[par].kind # "ActiveConnection"
    /\ c.states[par].kind # "none" => /\ d.states[par].kind = c.states[par].kind
                                      /\ d.states[par].their_id = c.states[par].their_id
    /\ c.states[par].kind = "none" => par >= c.token_counter \/ par = BOOTSTRAP_TOKEN
    /\ d.states[par].children = ch /\ d.states[par].parent = NoToken
    /\ ShapeOf(d.states[par], par, d.token_counter)
    /\ \A u \in ch : /\ u >= c.token_counter
                     /\ ShapeOf(d.states[u], u, d.token_counter)
                     /\ ChildOf(d.states, u, par)
                     /\ d.states[u].children = {}
    /\ \A u \in Token \ (ch \cup {par}) : d.states[u] = c.states[u]
    /\ \A p \in Peer : EntryOK(d.cm[p]) /\ SameActive(c.cm[p], d.cm[p])

\* New children fit into the structure.
LEMMA SpawnStruct ==
    ASSUME NEW c, NEW d, NEW par, NEW ch, StructInv(c), Spawns(c, d, par, ch)
    PROVE  StructInv(d)
<1>. DEFINE st == c.states
            st2 == d.states
<1>0. /\ c \in CoreType /\ c.cm \in ConnectionMapType /\ st \in [Token -> StateRecord]
      /\ c.token_counter \in Int /\ Token \subseteq Int
  BY BoundAssumption DEF StructInv, CoreType, Token
<1>1. /\ ch \subseteq Token /\ par \in Token \ ch
      /\ \A u \in Token \ (ch \cup {par}) : st2[u] = st[u]
  BY DEF Spawns
<1>2. \A u \in ch : st[u] = NoState
  BY ZenonT(60), <1>0, <1>1 DEF StructInv, Shape, ShapeOf, Spawns
<1>3. Shape(st2, d.token_counter)
  <2>. SUFFICES ASSUME NEW u \in Token
                PROVE  ShapeOf(st2[u], u, d.token_counter)
    BY DEF Shape
  <2>0. ShapeOf(st[u], u, c.token_counter) /\ d.token_counter >= c.token_counter
    BY DEF StructInv, Shape, Spawns
  <2>1. d.token_counter \in Int
    BY BoundAssumption DEF Spawns, CoreType
  <2>2. CASE u \in ch \cup {par}
    BY <2>2 DEF Spawns
  <2>3. CASE u \notin ch \cup {par}
    <3>1. st2[u] = st[u]
      BY <1>1, <2>3
    <3>. QED  BY SMTT(30), <1>0, <2>0, <2>1, <3>1 DEF ShapeOf
  <2>. QED  BY <2>2, <2>3
<1>4. Families(st2)
  <2>f. Families(st)
    BY DEF StructInv
  <2>s. \A v \in Token : st[v].children \in SUBSET Token /\ st[v].parent \in Token \cup {NoToken}
    BY <1>0 DEF StateRecord
  <2>2. ASSUME NEW v \in Token, NEW u \in st2[v].children
        PROVE  ChildOf(st2, u, v)
    <3>1. CASE v = par
      BY ZenonT(60), <2>2, <3>1 DEF Spawns
    <3>2. CASE v \in ch
      BY ZenonT(60), <2>2, <3>2 DEF Spawns
    <3>3. CASE v \notin ch \cup {par}
      <4>1. st2[v] = st[v] /\ u \in Token
        BY <1>1, <2>s, <2>2, <3>3
      <4>2. ChildOf(st, u, v)
        BY <2>f, <2>2, <4>1 DEF Families
      <4>3. u # par /\ u \notin ch
        <5>1. NoState.kind = "none"
          BY DEF NoState
        <5>2. st[par].parent = NoToken /\ v # NoToken
          BY DEF Spawns, Token, NoToken
        <5>. QED  BY <1>2, <4>2, <5>1, <5>2 DEF ChildOf
      <4>4. st2[u] = st[u]
        BY <1>1, <4>1, <4>3
      <4>. QED  BY ZenonT(60), <4>1, <4>2, <4>4 DEF ChildOf
    <3>. QED  BY <3>1, <3>2, <3>3
  <2>3. ASSUME NEW u \in Token, st2[u].parent # NoToken
        PROVE  u \in st2[st2[u].parent].children
    <3>1. u # par
      BY ZenonT(60), <2>3 DEF Spawns
    <3>2. CASE u \in ch
      BY ZenonT(60), <3>2 DEF Spawns, ChildOf
    <3>3. CASE u \notin ch
      <4>1. st2[u] = st[u]
        BY <1>1, <3>1, <3>3
      <4>2. st[u].parent \in Token /\ u \in st[st[u].parent].children
        BY <2>f, <2>s, <2>3, <4>1 DEF Families
      <4>3. st[u].parent # par /\ st[u].parent \notin ch
        <5>1. NoState.children = {}
          BY DEF NoState
        <5>. QED  BY ZenonT(60), <1>2, <4>2, <5>1 DEF Spawns
      <4>4. st2[st[u].parent] = st[st[u].parent]
        BY <1>1, <4>2, <4>3
      <4>. QED  BY <4>1, <4>2, <4>4
    <3>. QED  BY <3>2, <3>3
  <2>. QED  BY <2>2, <2>3 DEF Families
<1>5. MapOK(st2, d.cm)
  <2>1. ASSUME NEW u \in Token, NEW r \in Peer, IsActiveOf(st, u, r)  PROVE IsActiveOf(st2, u, r)
    <3>1. u # par /\ u \notin ch
      BY <1>2, <2>1 DEF IsActiveOf, NoState, Spawns
    <3>2. st2[u] = st[u]
      BY <1>1, <3>1
    <3>. QED  BY <2>1, <3>2 DEF IsActiveOf
  <2>2. \A r \in Peer : c.cm[r].active_connection \in Token \cup {NoToken}
    BY <1>0 DEF ConnectionMapType, ConnectionId
  <2>3. MapOK(st, c.cm)
    BY DEF StructInv
  <2>4. \A p \in Peer : EntryOK(d.cm[p]) /\ SameActive(c.cm[p], d.cm[p])
    BY DEF Spawns
  <2>. QED  BY <2>1, <2>2, <2>3, <2>4 DEF MapOK, SameActive
<1>. QED  BY ZenonT(60), <1>3, <1>4, <1>5 DEF StructInv, Spawns

\* The order of tokens (the counter of core.rs), for provers without arithmetic.
LEMMA BelowIsNotAbove ==
    ASSUME NEW a \in Int, NEW b \in Int, a < b
    PROVE  ~(a >= b)
OBVIOUS

\* get_new_token hands the k-th token to the first child and so on; the tokens
\* of the registered children lie between the counter before and after.
LEMMA NewTokensBetween ==
    ASSUME NEW k \in Nat, NEW n \in Nat, NEW reg \in SUBSET (1 .. n)
    PROVE  /\ \A u \in {k + i : i \in reg} : u \in Nat /\ u > k /\ u < k + (n + 1)
           /\ \A u \in {k + i - 1 : i \in reg} : u \in Nat /\ u >= k /\ u < k + n
<1>1. \A i \in reg : i \in Nat /\ i >= 1 /\ i <= n
  OBVIOUS
<1>2. \A i \in reg : k + i \in Nat /\ k + i > k /\ k + i < k + (n + 1)
  BY <1>1
<1>3. \A i \in reg : k + i - 1 \in Nat /\ k + i - 1 >= k /\ k + i - 1 < k + n
  BY <1>1
<1>. QED  BY Zenon, <1>2, <1>3

\* New children leave the tokens that were given out alone.
LEMMA SpawnForward ==
    ASSUME NEW c, NEW d, NEW par, NEW ch, StructInv(c), Spawns(c, d, par, ch),
           NEW x, c.states[par].kind = "none" => par = x \/ par >= c.token_counter
    PROVE  Forward(c.states, d.states, x, c.token_counter)
<1>. SUFFICES ASSUME NEW u \in Token \ {x}, u < c.token_counter
              PROVE  d.states[u].kind = c.states[u].kind /\ d.states[u].their_id = c.states[u].their_id
  BY DEF Forward
<1>0. c.token_counter \in Int /\ Token \subseteq Int
  BY BoundAssumption DEF StructInv, CoreType, Token
<1>1. u \notin ch
  BY SMTT(30), <1>0 DEF Spawns
<1>2. CASE u = par
  <2>0. u \in Int /\ c.token_counter \in Int
    BY Zenon, <1>0
  <2>1. ~(u >= c.token_counter)
    BY Zenon, <2>0, BelowIsNotAbove
  <2>2. c.states[u].kind # "none"
    BY Zenon, <1>2, <2>1
  <2>. QED  BY ZenonT(60), <1>2, <2>2 DEF Spawns
<1>3. CASE u # par
  BY ZenonT(60), <1>1, <1>3 DEF Spawns
<1>. QED  BY <1>2, <1>3

\* get_new_token, k times
LEMMA NewTokensIs ==
    ASSUME NEW c \in CoreType, NEW k \in Nat, c.token_counter + k <= MaxToken + 1
    PROVE  LET d == GetNewTokens(c, k) IN
           /\ d \in CoreType
           /\ d.token_counter = c.token_counter + k
           /\ d.states = c.states /\ d.cm = c.cm
BY BoundAssumption DEF GetNewTokens, CoreType

\* New children that hold no handshake.
LEMMA SpawnOther ==
    ASSUME NEW c, NEW d, NEW q, NEW par, NEW ch, Inv(c, q), Spawns(c, d, par, ch), d.cm = c.cm,
           \A u \in ch \cup {par}, p \in Peer : ~Counted(d.states[u], p),
           \A u \in ch \cup {par} : d.states[u].kind # "ActiveConnection",
           \A p \in Peer : ~Counted(c.states[par], p)
    PROVE  Inv(d, q)
<1>0. StructInv(c)
  BY DEF Inv
<1>1. StructInv(d)
  BY <1>0, SpawnStruct
<1>2. \A u \in ch : c.states[u].kind = "none"
  <2>1. \A u \in ch : u \in Token /\ u >= c.token_counter
    BY Zenon DEF Spawns
  <2>. QED  BY ZenonT(60), <1>0, <2>1 DEF StructInv, Shape, ShapeOf
<1>3. ASSUME Exact  PROVE CountInv(d.states, d.cm, q)
  <2>0. \A u \in Token \ (ch \cup {par}) : d.states[u] = c.states[u]
    BY Zenon DEF Spawns
  <2>1. \A u \in Token, p \in Peer : Counted(d.states[u], p) <=> Counted(c.states[u], p)
    <3>1. \A u \in ch \cup {par}, p \in Peer : ~Counted(c.states[u], p)
      BY <1>2 DEF Counted
    <3>. QED  BY <2>0, <3>1
  <2>2. \A u \in Token, p \in Peer : IsActiveOf(d.states, u, p) => IsActiveOf(c.states, u, p)
    BY <2>0 DEF IsActiveOf
  <2>3. CountInv(c.states, d.cm, q)
    BY <1>3 DEF Inv
  <2>. QED  BY <2>1, <2>2, <2>3, CountSame
<1>. QED  BY <1>1, <1>3 DEF Inv

-----------------------------------------------------------------------------
(* What a step does to the tokens that were given out.                     *)

\* The state of a token stays, up to its fields, or moves forward; the peer
\* of an ActiveConnection does not change.
Moves(a, b) ==
    \/ b.kind = a.kind /\ (a.kind = "ActiveConnection" => b.their_id = a.their_id)
    \/ Stage(b.kind) > Stage(a.kind)

\* A step of the event loop.
Step(c, d) ==
    /\ Inv(d, NoPeer)
    /\ d.token_counter >= c.token_counter
    /\ \A u \in Token \ {BOOTSTRAP_TOKEN} :
          u < c.token_counter => Moves(c.states[u], d.states[u])

\* The stages of a connection in order.
LEMMA Stages ==
    /\ Stage("none") = 4 /\ Stage("ActiveConnection") = 3 /\ Stage("ConnectionCandidate") = 2
    /\ \A k \in StateKind : Stage(k) \in 1 .. 4
    /\ \A k \in StateKind : k # "none" => Stage(k) < 4
    /\ \A k \in StateKind : k \notin {"none", "ActiveConnection"} => Stage(k) < 3
    /\ \A k \in StateKind : k \notin {"none", "ActiveConnection", "ConnectionCandidate"} => Stage(k) < 2
BY DEF Stage, StateKind

\* A handler of the token x is a step if x itself moves forward.
LEMMA PreservesStep ==
    ASSUME NEW c, NEW d, NEW x, Inv(c, NoPeer), Preserves(c, d, x),
           x \in Token \ {BOOTSTRAP_TOKEN} => Moves(c.states[x], d.states[x])
    PROVE  Step(c, d)
<1>. SUFFICES ASSUME NEW u \in Token \ {BOOTSTRAP_TOKEN}, u < c.token_counter
              PROVE  Moves(c.states[u], d.states[u])
  BY DEF Step, Preserves
<1>1. CASE u = x
  BY <1>1
<1>2. CASE u # x
  <2>1. c.states[u].kind \in StateKind
    BY DEF Inv, StructInv, CoreType, StateRecord
  <2>2. \/ d.states[u].kind = "none"
        \/ d.states[u].kind = c.states[u].kind /\ d.states[u].their_id = c.states[u].their_id
    BY <1>2 DEF Preserves, Forward
  <2>. QED  BY <2>1, <2>2, Stages DEF Moves
<1>. QED  BY <1>1, <1>2

\* A step that is about no token.
LEMMA QuietStep ==
    ASSUME NEW c, NEW d, Inv(c, NoPeer), Preserves(c, d, NoToken)
    PROVE  Step(c, d)
<1>1. NoToken \notin Token
  BY DEF NoToken, Token
<1>. QED  BY <1>1, PreservesStep

\* Timers and events are no step of a connection.
LEMMA SameStep ==
    ASSUME NEW c, NEW d, Inv(c, NoPeer), Same(c, d)
    PROVE  Step(c, d)
<1>1. Inv(d, NoPeer)
  BY SameInv
<1>2. c.token_counter \in Int
  BY BoundAssumption DEF Inv, StructInv, CoreType
<1>. QED  BY <1>1, <1>2 DEF Step, Same, Moves

\* Timers and events before a step make no difference.
LEMMA SameThenStep ==
    ASSUME NEW c, NEW e, NEW d, Same(c, e), Step(e, d)
    PROVE  Step(c, d)
BY DEF Same, Step

-----------------------------------------------------------------------------
(* The handlers of an ActiveConnection.                                    *)

\* terminate, of a connection that is alive or was terminated by this event
LEMMA ActiveReadyStep ==
    ASSUME NEW c, Inv(c, NoPeer), NEW t \in Token, c.states[t].kind = "ActiveConnection",
           NEW twice \in BOOLEAN
    PROVE  Step(c, ActiveReady(c, t, twice))
<1>. DEFINE e == ActiveTerminate(c, t, c.states[t].their_id)
            f == ActiveTerminate(e, t, c.states[t].their_id)
<1>1. PICK p \in Peer : c.states[t].their_id = p
  BY DEF Inv, StructInv, Shape, ShapeOf, WithPeer
<1>2. IsActiveOf(c.states, t, p)
  BY <1>1 DEF IsActiveOf
<1>3. /\ Inv(e, NoPeer) /\ e.states[t] = NoState /\ NoneChosen(e, p)
      /\ e.token_counter = c.token_counter
      /\ \A u \in Token \ {t} : e.states[u] = c.states[u]
  BY <1>1, <1>2, ActiveTerminateInv
<1>. HIDE DEF e
<1>4. /\ Inv(f, NoPeer) /\ f.states[t] = NoState
      /\ f.token_counter = c.token_counter
      /\ \A u \in Token \ {t} : f.states[u] = c.states[u]
  BY <1>1, <1>3, ActiveTerminateInv
<1>5. ActiveReady(c, t, twice) = IF twice THEN f ELSE e
  BY DEF ActiveReady, e
<1>. HIDE DEF f
<1>n. NoState.kind = "none" /\ c.token_counter \in Int /\ c.states[t].kind \in StateKind
  BY BoundAssumption DEF NoState, Inv, StructInv, CoreType, StateRecord
<1>6. ASSUME NEW d, Inv(d, NoPeer), d.states[t] = NoState, d.token_counter = c.token_counter,
             \A u \in Token \ {t} : d.states[u] = c.states[u]
      PROVE  Step(c, d)
  BY <1>6, <1>n, Stages DEF Step, Moves
<1>. QED  BY <1>3, <1>4, <1>5, <1>6

\* State::write
LEMMA ActiveWriteStep ==
    ASSUME NEW c, Inv(c, NoPeer), NEW t \in Token, c.states[t].kind = "ActiveConnection",
           NEW fails \in BOOLEAN
    PROVE  Step(c, ActiveWrite(c, t, fails))
<1>. DEFINE e == ActiveReady(c, t, FALSE)
<1>1. Step(c, e)
  BY ZenonT(60), ActiveReadyStep
<1>2. ActiveWrite(c, t, fails) = IF fails THEN LeakTimeout(e, t, 1) ELSE c
  BY DEF ActiveWrite, ActiveReady
<1>. HIDE DEF e
<1>3. Same(e, LeakTimeout(e, t, 1)) /\ Inv(e, NoPeer)
  BY <1>1, TimersSame DEF Step, Inv, StructInv
<1>4. Step(c, LeakTimeout(e, t, 1))
  BY <1>1, <1>3, SameInv DEF Same, Step
<1>5. Same(c, c)
  BY DEF Same, Inv, StructInv
<1>. QED  BY <1>2, <1>4, <1>5, SameStep

\* timeout of either heartbeat timer
LEMMA ActiveTimeoutStep ==
    ASSUME NEW c, Inv(c, NoPeer), NEW t \in Token, c.states[t].kind = "ActiveConnection",
           NEW id, NEW fails \in BOOLEAN
    PROVE  Step(c, ActiveTimeout(c, t, id, fails))
<1>1. Step(c, ActiveReady(c, t, FALSE))
  BY ZenonT(60), ActiveReadyStep
<1>2. Same(c, SetTimeout(c, t, 1))
  BY TimersSame DEF Inv, StructInv
<1>3. ActiveTimeout(c, t, id, fails) \in {ActiveReady(c, t, FALSE), SetTimeout(c, t, 1)}
  BY DEF ActiveTimeout, ActiveReady
<1>. QED  BY ZenonT(60), <1>1, <1>2, <1>3, SameStep

=============================================================================
