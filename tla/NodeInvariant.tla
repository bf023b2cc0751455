--------------------------- MODULE NodeInvariant ---------------------------
(***************************************************************************)
(* The inductive invariant of Node and what the operators of Core,         *)
(* ActiveConnection, Connect, Listener and Bootstrap do to it.             *)
(***************************************************************************)
EXTENDS Node, ConnectionMapProofs, FiniteSetTheorems

-----------------------------------------------------------------------------
(* The invariant, of a core c.  It is stated of the core and not of the    *)
(* variable because a handler composes operators, and it has to hold       *)
(* between them: q is then the peer whose handshake has been taken out of  *)
(* the states and is still in the count (NoPeer when there is none).       *)

WithPeer == {"Connect", "ConnectExchange", "ConnectionCandidate", "ActiveConnection",
             "CheckReachability"}

\* What the state s of token t looks like, by itself.
ShapeOf(s, t, k) ==
    /\ t >= k => s.kind = "none"
    /\ s.kind = "none" => s = NoState
    /\ s.kind = "Bootstrap" <=> t = BOOTSTRAP_TOKEN /\ s.kind # "none"
    /\ s.kind \in WithPeer => s.their_id \in Peer
    /\ s.kind \in {"ConnectExchange", "CheckReachability", "TryPeer"} => s.parent # NoToken
    /\ s.kind = "ConnectionCandidate" /\ s.interest = "readable" => s.their_id > OurId
    /\ s.kind = "ListenerExchange" =>
         /\ s.next_state # "None" => s.their_id \in Peer
         /\ s.next_state # "None" \/ s.interest = "writable" => s.children = {}
    /\ s.kind = "Bootstrap" /\ s.sd_meta = "Some" => s.children = {}

Shape(st, k) == \A t \in Token : ShapeOf(st[t], t, k)

\* u is a child of t.
ChildOf(st, u, t) ==
    /\ st[u].parent = t
    /\ \/ /\ st[t].kind = "Connect"
          /\ st[u].kind \in {"ConnectExchange", "ConnectionCandidate"}
          /\ st[u].their_id = st[t].their_id
       \/ st[t].kind = "ListenerExchange" /\ st[u].kind = "CheckReachability"
       \/ st[t].kind = "Bootstrap" /\ st[u].kind = "TryPeer"

\* FamiliesAgree, and the children of a Connect have its peer.
Families(st) ==
    /\ \A t \in Token : \A u \in st[t].children : ChildOf(st, u, t)
    /\ \A u \in Token : st[u].parent # NoToken => u \in st[st[u].parent].children

IsActiveOf(st, t, p) == st[t].kind = "ActiveConnection" /\ st[t].their_id = p

MapOK(st, cm) ==
    \A p \in Peer :
        /\ EntryOK(cm[p])
        /\ cm[p].active_connection # NoToken => IsActiveOf(st, cm[p].active_connection, p)

StructInv(c) ==
    /\ c \in CoreType
    /\ Shape(c.states, c.token_counter)
    /\ Families(c.states)
    /\ MapOK(c.states, c.cm)

\* A state that holds one unit of p's currently_handshaking.
Counted(s, p) ==
    /\ s.their_id = p
    /\ \/ s.kind \in {"ConnectExchange", "ConnectionCandidate"}
       \/ s.kind = "ListenerExchange" /\ s.next_state # "None"

HS(st, p) == {t \in Token : Counted(st[t], p)}

Owed(p, q) == IF p = q THEN 1 ELSE 0

CountInv(st, cm, q) ==
    \A p \in Peer :
        /\ cm[p].currently_handshaking = Cardinality(HS(st, p)) + Owed(p, q)
        /\ EntryUsed(cm[p])
        /\ p < OurId => \A t \in Token : IsActiveOf(st, t, p) => t = cm[p].active_connection

\* A peer sends one request and waits for the answer.
OneRequest == "second_request" \notin Admitted

\* The environment keeps to what the counts rely on: moreover a heartbeat's
\* timers can be set and no bootstrap is granted by a peer that is in the map.
Exact == OneRequest /\ "set_timeout" \notin Admitted /\ "known_bootstrap" \notin Admitted

Inv(c, q) ==
    /\ StructInv(c)
    /\ Exact => CountInv(c.states, c.cm, q)

\* A token that is posted is one that was given out, and its state, if there
\* still is one, is the ActiveConnection of the peer it was read for.
PostedInv(c, calls) ==
    \A i \in DOMAIN calls :
        calls[i].token # NoToken =>
            /\ calls[i].token < c.token_counter
            /\ calls[i].token # BOOTSTRAP_TOKEN
            /\ \/ c.states[calls[i].token].kind = "none"
               \/ IsActiveOf(c.states, calls[i].token, calls[i].their_id)

CallsType(calls) ==
    /\ calls \in Seq(Closure)
    /\ \A i \in DOMAIN calls :
          /\ calls[i].method = "connect" => calls[i].their_id \in Peer
          /\ calls[i].method \in {"disconnect", "send"} => calls[i].token \in Token

IInv ==
    /\ Inv(core, NoPeer)
    /\ CallsType(posted)
    /\ PostedInv(core, posted)

-----------------------------------------------------------------------------
(* What the operators on the core leave alone.                             *)

\* d differs from c in the timers and in the events sent to the user only.
Same(c, d) ==
    /\ d \in CoreType
    /\ d.states = c.states
    /\ d.cm = c.cm
    /\ d.token_counter = c.token_counter

\* The default record of core.rs's table: a token without a state.
LEMMA NoStateType == NoState \in StateRecord
BY DEF NoState, StateRecord, StateKind, NextState

\* Setting, cancelling and leaking timers changes timers only.
LEMMA TimersSame ==
    ASSUME NEW c \in CoreType, NEW ts \in SUBSET Token, NEW t \in Token, NEW id \in {0, 1}
    PROVE  /\ Same(c, SetTimeouts(c, ts, id))
           /\ Same(c, SetTimeout(c, t, id))
           /\ Same(c, CancelTimeouts(c, ts, id))
           /\ Same(c, CancelTimeout(c, t, id))
           /\ Same(c, LeakTimeout(c, t, id))
BY SMTT(30) DEF Same, CoreType, Timer, SetTimeouts, SetTimeout, CancelTimeouts, CancelTimeout, LeakTimeout

\* Sending an event changes the user's view only.
LEMMA EventsSame ==
    ASSUME NEW c \in CoreType, NEW p, NEW event
    PROVE  /\ Same(c, PeerUp(c, p))
           /\ Same(c, LostPeer(c, p))
           /\ Same(c, ConnectFailure(c, p))
           /\ Same(c, BootstrapFailed(c))
           /\ Same(c, SendEvent(c, event, p))
<1>1. Same(c, PeerUp(c, p))
  <2>. DEFINE counted == [c EXCEPT !.user.up[p] = @ + 1]
  <2>2. counted \in CoreType  BY SMTT(30) DEF CoreType, UserView
  <2>3. ConnectFailure(counted, p) \in CoreType
    <3>. HIDE DEF counted
    <3>. QED  BY ZenonT(60), <2>2 DEF CoreType, UserView, ConnectFailure
  <2>1. PeerUp(c, p) \in CoreType
    BY Zenon, <2>3 DEF CoreType, UserView, PeerUp, ConnectFailure
  <2>. QED  BY <2>1 DEF Same, CoreType, PeerUp
<1>2. Same(c, LostPeer(c, p))
  <2>1. LostPeer(c, p) \in CoreType  BY DEF CoreType, UserView, LostPeer
  <2>. QED  BY <2>1 DEF Same, CoreType, LostPeer
<1>3. Same(c, ConnectFailure(c, p))
  <2>1. ConnectFailure(c, p) \in CoreType  BY ZenonT(60) DEF CoreType, UserView, ConnectFailure
  <2>. QED  BY ZenonT(60), <2>1 DEF Same, CoreType, ConnectFailure
<1>4. \A d \in CoreType : Same(d, BootstrapFailed(d))
  <2>. TAKE d \in CoreType
  <2>1. BootstrapFailed(d) \in CoreType  BY DEF CoreType, UserView, BootstrapFailed
  <2>. QED  BY <2>1 DEF Same, CoreType, BootstrapFailed
<1>5. Same(c, SendEvent(c, event, p))
  <2>1. SendEvent(c, event, p) \in {PeerUp(c, p), BootstrapFailed(PeerUp(c, p))}
    BY DEF SendEvent, BootstrapFailed
  <2>. QED  BY <1>1, <1>4, <2>1 DEF Same
<1>. QED  BY <1>1, <1>2, <1>3, <1>4, <1>5

-----------------------------------------------------------------------------
(* A state without children ends.                                          *)

\* a and b differ in their children only.
SameButChildren(a, b) ==
    /\ a.kind = b.kind /\ a.their_id = b.their_id /\ a.parent = b.parent
    /\ a.next_state = b.next_state /\ a.interest = b.interest /\ a.sd_meta = b.sd_meta

WithChildren(s, children) == [s EXCEPT !.children = children]

\* t has no state any more and is nobody's child.
Detach(st, t) ==
    [u \in Token |-> IF u = t THEN NoState ELSE WithChildren(st[u], st[u].children \ {t})]

\* Assigning to a state's children leaves the rest of it alone.
LEMMA WithChildrenIs ==
    ASSUME NEW s \in StateRecord, NEW children \in SUBSET Token
    PROVE  /\ WithChildren(s, children) \in StateRecord
           /\ SameButChildren(WithChildren(s, children), s)
           /\ WithChildren(s, children).children = children
           /\ children = s.children => WithChildren(s, children) = s
BY DEF WithChildren, SameButChildren, StateRecord

\* Removing a state from the table leaves every other state but for its children.
LEMMA DetachIs ==
    ASSUME NEW st \in [Token -> StateRecord], NEW t \in Token
    PROVE  /\ Detach(st, t) \in [Token -> StateRecord]
           /\ Detach(st, t)[t] = NoState
           /\ \A u \in Token \ {t} :
                 /\ SameButChildren(Detach(st, t)[u], st[u])
                 /\ Detach(st, t)[u].children = st[u].children \ {t}
                 /\ st[u] = NoState => Detach(st, t)[u] = NoState
<1>1. ASSUME NEW u \in Token
      PROVE  /\ st[u] \in StateRecord
             /\ WithChildren(st[u], st[u].children \ {t}) \in StateRecord
             /\ SameButChildren(WithChildren(st[u], st[u].children \ {t}), st[u])
             /\ WithChildren(st[u], st[u].children \ {t}).children = st[u].children \ {t}
             /\ st[u] = NoState => WithChildren(st[u], st[u].children \ {t}) = NoState
  <2>1. st[u] \in StateRecord /\ st[u].children \ {t} \in SUBSET Token
    BY DEF StateRecord
  <2>2. NoState.children \ {t} = NoState.children
    BY DEF NoState
  <2>. QED  BY SMTT(30), ZenonT(120), <2>1, <2>2, WithChildrenIs
<1>. QED  BY <1>1, NoStateType DEF Detach

\* The end of a childless state that is not an ActiveConnection.
LEMMA DetachStruct ==
    ASSUME NEW c, NEW d, StructInv(c), NEW t \in Token,
           c.states[t].kind # "ActiveConnection", c.states[t].children = {},
           d \in CoreType, d.states = Detach(c.states, t), d.cm = c.cm,
           d.token_counter = c.token_counter
    PROVE  StructInv(d)
<1>. DEFINE st == c.states
            st2 == d.states
<1>0. /\ st \in [Token -> StateRecord] /\ st2 \in [Token -> StateRecord]
      /\ st2[t] = NoState
      /\ \A u \in Token \ {t} :
            /\ st2[u].kind = st[u].kind /\ st2[u].their_id = st[u].their_id
            /\ st2[u].parent = st[u].parent /\ st2[u].next_state = st[u].next_state
            /\ st2[u].interest = st[u].interest /\ st2[u].sd_meta = st[u].sd_meta
            /\ st2[u].children = st[u].children \ {t}
            /\ st[u].kind = "none" => st2[u] = NoState
  <2>1. st \in [Token -> StateRecord]
    BY DEF StructInv, CoreType
  <2>2. \A u \in Token : st[u].kind = "none" => st[u] = NoState
    BY DEF StructInv, Shape, ShapeOf
  <2>. QED  BY <2>1, <2>2, DetachIs DEF SameButChildren
<1>1. Shape(st2, d.token_counter)
  <2>1. ShapeOf(NoState, t, d.token_counter)
    BY DEF ShapeOf, NoState, WithPeer
  <2>2. ASSUME NEW u \in Token \ {t}
        PROVE  ShapeOf(st2[u], u, d.token_counter)
    <3>1. ShapeOf(st[u], u, d.token_counter)
      BY DEF StructInv, Shape
    <3>. QED  BY <1>0, <3>1 DEF ShapeOf
  <2>. QED  BY <1>0, <2>1, <2>2 DEF Shape
<1>2. Families(st2)
  <2>1. ASSUME NEW v \in Token, NEW u \in st2[v].children
        PROVE  ChildOf(st2, u, v)
    BY <1>0, <2>1 DEF StructInv, Families, ChildOf, NoState, StateRecord
  <2>2. ASSUME NEW u \in Token, st2[u].parent # NoToken
        PROVE  u \in st2[st2[u].parent].children
    BY <1>0, <2>2 DEF StructInv, Families, NoState, StateRecord
  <2>. QED  BY <2>1, <2>2 DEF Families
<1>3. MapOK(st2, d.cm)
  BY <1>0 DEF StructInv, MapOK, IsActiveOf, CoreType, ConnectionMapType, ConnectionId
<1>. QED  BY <1>1, <1>2, <1>3 DEF StructInv

-----------------------------------------------------------------------------
(* The counts.                                                             *)

\* The states that hold a unit of a count are finitely many.
LEMMA HSFinite ==
    ASSUME NEW st, NEW p
    PROVE  /\ IsFiniteSet(HS(st, p))
           /\ Cardinality(HS(st, p)) \in 0 .. MaxToken + 1
<1>1. IsFiniteSet(Token) /\ Cardinality(Token) = MaxToken + 1
  BY FS_Interval, BoundAssumption DEF Token
<1>2. HS(st, p) \subseteq Token
  BY DEF HS
<1>3. IsFiniteSet(HS(st, p)) /\ Cardinality(HS(st, p)) <= Cardinality(Token)
  BY <1>1, <1>2, FS_Subset
<1>. QED  BY <1>1, <1>3, FS_CardinalityType, BoundAssumption

\* No peer is NoPeer.
LEMMA NoPeerIsNoPeer == NoPeer \notin Peer
BY PeerAssumption DEF NoPeer

\* A handshake that is taken out of the states is owed to the count.
LEMMA DetachCounted ==
    ASSUME NEW st \in [Token -> StateRecord], NEW cm \in ConnectionMapType, NEW t \in Token,
           NEW q \in Peer, Counted(st[t], q), CountInv(st, cm, NoPeer)
    PROVE  CountInv(Detach(st, t), cm, q)
<1>. DEFINE st2 == Detach(st, t)
<1>1. /\ st2[t] = NoState
      /\ \A u \in Token \ {t} : SameButChildren(st2[u], st[u])
  BY DetachIs
<1>. SUFFICES ASSUME NEW p \in Peer
              PROVE  /\ cm[p].currently_handshaking = Cardinality(HS(st2, p)) + Owed(p, q)
                     /\ EntryUsed(cm[p])
                     /\ p < OurId => \A u \in Token : IsActiveOf(st2, u, p)
                                                        => u = cm[p].active_connection
  BY DEF CountInv
<1>. HIDE DEF st2
<1>2. /\ cm[p].currently_handshaking = Cardinality(HS(st, p))
      /\ EntryUsed(cm[p])
      /\ p < OurId => \A u \in Token : IsActiveOf(st, u, p) => u = cm[p].active_connection
  <2>1. Owed(p, NoPeer) = 0  BY NoPeerIsNoPeer DEF Owed
  <2>. QED  BY <2>1, HSFinite DEF CountInv
<1>3. HS(st2, p) = HS(st, p) \ {t}
  BY <1>1 DEF HS, Counted, SameButChildren, NoState
<1>4. t \in HS(st, p) <=> p = q
  BY DEF HS, Counted
<1>5. Cardinality(HS(st, p)) = Cardinality(HS(st2, p)) + Owed(p, q)
  <2>1. CASE p = q
    <3>1. Cardinality(HS(st, p) \ {t}) = Cardinality(HS(st, p)) - 1
      BY ZenonT(60), <1>4, <2>1, HSFinite, FS_RemoveElement
    <3>. QED  BY <1>3, <2>1, <3>1, HSFinite DEF Owed
  <2>2. CASE p # q
    <3>1. HS(st2, p) = HS(st, p)  BY <1>3, <1>4, <2>2
    <3>. QED  BY <2>2, <3>1, HSFinite DEF Owed
  <2>. QED  BY <2>1, <2>2
<1>6. \A u \in Token : IsActiveOf(st2, u, p) => IsActiveOf(st, u, p)
  BY <1>1 DEF IsActiveOf, SameButChildren, NoState
<1>. QED  BY <1>2, <1>5, <1>6

\* The counts depend on the states that hold a unit and on the active ones.
LEMMA CountSame ==
    ASSUME NEW st, NEW st2, NEW cm, NEW q, CountInv(st, cm, q),
           \A u \in Token, p \in Peer : Counted(st2[u], p) <=> Counted(st[u], p),
           \A u \in Token, p \in Peer : IsActiveOf(st2, u, p) => IsActiveOf(st, u, p)
    PROVE  CountInv(st2, cm, q)
<1>1. \A p \in Peer : HS(st2, p) = HS(st, p)
  BY DEF HS
<1>. QED  BY <1>1 DEF CountInv

\* The owed handshake is settled by leaving the map.
LEMMA LeaveSettles ==
    ASSUME NEW c, NEW d, NEW q \in Peer, Inv(c, q),
           d \in CoreType, d.states = c.states, d.token_counter = c.token_counter,
           d.cm = Leave(c.cm, q)
    PROVE  Inv(d, NoPeer)
<1>1. c.cm \in ConnectionMapType /\ \A p \in Peer : EntryOK(c.cm[p])
  BY DEF Inv, StructInv, CoreType, MapOK
<1>2. /\ \A r \in Peer \ {q} : d.cm[r] = c.cm[r]
      /\ SameActive(c.cm[q], d.cm[q])
      /\ EntryOK(d.cm[q])
      /\ 1 <= c.cm[q].currently_handshaking =>
            /\ d.cm[q].currently_handshaking = c.cm[q].currently_handshaking - 1
            /\ EntryUsed(c.cm[q]) => EntryUsed(d.cm[q])
  BY <1>1, LeaveIsLeaveMany, LeaveManyEffect
<1>3. StructInv(d)
  BY <1>1, <1>2 DEF Inv, StructInv, MapOK, SameActive
<1>4. ASSUME Exact  PROVE CountInv(d.states, d.cm, NoPeer)
  <2>. SUFFICES ASSUME NEW p \in Peer
                PROVE  /\ d.cm[p].currently_handshaking = Cardinality(HS(d.states, p)) + Owed(p, NoPeer)
                       /\ EntryUsed(d.cm[p])
                       /\ d.cm[p].active_connection = c.cm[p].active_connection
    BY <1>4 DEF Inv, CountInv
  <2>1. /\ c.cm[p].currently_handshaking = Cardinality(HS(c.states, p)) + Owed(p, q)
        /\ EntryUsed(c.cm[p])
    BY <1>4 DEF Inv, CountInv
  <2>2. Owed(p, NoPeer) = 0  BY NoPeerIsNoPeer DEF Owed
  <2>. QED  BY <1>2, <2>1, <2>2, HSFinite DEF Owed, SameActive
<1>. QED  BY <1>3, <1>4 DEF Inv

-----------------------------------------------------------------------------
(* The operators of Core and Connect on the table of states.               *)

\* remove_state
LEMMA RemoveStatesIs ==
    ASSUME NEW c \in CoreType, NEW ts \in SUBSET Token
    PROVE  /\ RemoveStates(c, ts) \in CoreType
           /\ RemoveStates(c, ts).states = [u \in Token |-> IF u \in ts THEN NoState ELSE c.states[u]]
           /\ RemoveStates(c, ts).cm = c.cm
           /\ RemoveStates(c, ts).token_counter = c.token_counter
<1>1. [u \in Token |-> IF u \in ts THEN NoState ELSE c.states[u]] \in [Token -> StateRecord]
  BY NoStateType DEF CoreType
<1>. QED  BY <1>1 DEF RemoveStates, CoreType

\* remove_state of one token
LEMMA RemoveStateIs ==
    ASSUME NEW c \in CoreType, NEW t \in Token
    PROVE  /\ RemoveState(c, t) \in CoreType
           /\ RemoveState(c, t).states = [u \in Token |-> IF u = t THEN NoState ELSE c.states[u]]
           /\ RemoveState(c, t).cm = c.cm
           /\ RemoveState(c, t).token_counter = c.token_counter
<1>1. [u \in Token |-> IF u \in {t} THEN NoState ELSE c.states[u]]
        = [u \in Token |-> IF u = t THEN NoState ELSE c.states[u]]
  OBVIOUS
<1>. QED  BY <1>1, RemoveStatesIs DEF RemoveState

\* insert_state
LEMMA InsertStateIs ==
    ASSUME NEW c \in CoreType, NEW t \in Token, NEW s \in StateRecord
    PROVE  /\ InsertState(c, t, s) \in CoreType
           /\ InsertState(c, t, s).states = [u \in Token |-> IF u = t THEN s ELSE c.states[u]]
           /\ InsertState(c, t, s).cm = c.cm
           /\ InsertState(c, t, s).token_counter = c.token_counter
BY DEF InsertState, CoreType

\* The lock is taken and the map becomes m.
LEMMA MapIs ==
    ASSUME NEW c \in CoreType, NEW m \in ConnectionMapType
    PROVE  /\ [c EXCEPT !.cm = m] \in CoreType
           /\ [c EXCEPT !.cm = m].states = c.states
           /\ [c EXCEPT !.cm = m].cm = m
           /\ [c EXCEPT !.cm = m].token_counter = c.token_counter
BY DEF CoreType

\* children.remove
LEMMA RemoveChildIs ==
    ASSUME NEW c \in CoreType, NEW t \in Token, NEW u \in Token
    PROVE  LET d == RemoveChild(c, t, u) IN
           /\ d \in CoreType
           /\ d.states = [v \in Token |->
                             IF v = t THEN WithChildren(c.states[t], c.states[t].children \ {u})
                             ELSE c.states[v]]
           /\ d.cm = c.cm
           /\ d.token_counter = c.token_counter
<1>1. c.states[t] \in StateRecord /\ c.states[t].children \ {u} \in SUBSET Token
  BY DEF CoreType, StateRecord
<1>. DEFINE s == WithChildren(c.states[t], c.states[t].children \ {u})
<1>2. s \in StateRecord
  BY <1>1, WithChildrenIs
<1>3. RemoveChild(c, t, u) = [c EXCEPT !.states = [@ EXCEPT ![t] = s]]
  BY DEF RemoveChild, WithChildren
<1>. HIDE DEF s
<1>4. [c.states EXCEPT ![t] = s] \in [Token -> StateRecord]
  BY <1>2 DEF CoreType
<1>. QED  BY SMTT(30), <1>3, <1>4 DEF CoreType, s

\* children.insert
LEMMA AddChildIs ==
    ASSUME NEW c \in CoreType, NEW t \in Token, NEW u \in Token
    PROVE  LET d == AddChild(c, t, u) IN
           /\ d \in CoreType
           /\ d.states = [v \in Token |->
                             IF v = t THEN WithChildren(c.states[t], c.states[t].children \cup {u})
                             ELSE c.states[v]]
           /\ d.cm = c.cm
           /\ d.token_counter = c.token_counter
<1>1. c.states[t] \in StateRecord /\ c.states[t].children \cup {u} \in SUBSET Token
  BY DEF CoreType, StateRecord
<1>. DEFINE s == WithChildren(c.states[t], c.states[t].children \cup {u})
<1>2. s \in StateRecord
  BY <1>1, WithChildrenIs
<1>3. AddChild(c, t, u) = [c EXCEPT !.states = [@ EXCEPT ![t] = s]]
  BY DEF AddChild, WithChildren
<1>. HIDE DEF s
<1>4. [c.states EXCEPT ![t] = s] \in [Token -> StateRecord]
  BY <1>2 DEF CoreType
<1>. QED  BY ZenonT(60), <1>3, <1>4 DEF CoreType, s

\* A state that ends on its own and that its parent then forgets is detached.
LEMMA RemoveAndForget ==
    ASSUME NEW c, StructInv(c), NEW t \in Token, NEW pr \in Token, pr # t,
           c.states[t].parent = pr
    PROVE  LET d == RemoveChild(RemoveState(c, t), pr, t) IN
           /\ d \in CoreType
           /\ d.states = Detach(c.states, t)
           /\ d.cm = c.cm
           /\ d.token_counter = c.token_counter
<1>. DEFINE e == RemoveState(c, t)
<1>0. c \in CoreType /\ c.states \in [Token -> StateRecord]
  BY DEF StructInv, CoreType
<1>1. /\ e \in CoreType /\ e.cm = c.cm /\ e.token_counter = c.token_counter
      /\ e.states = [u \in Token |-> IF u = t THEN NoState ELSE c.states[u]]
  BY <1>0, RemoveStateIs
<1>. HIDE DEF e
<1>2. LET d == RemoveChild(e, pr, t) IN
      /\ d \in CoreType /\ d.cm = c.cm /\ d.token_counter = c.token_counter
      /\ d.states = [v \in Token |->
                        IF v = pr THEN WithChildren(e.states[pr], e.states[pr].children \ {t})
                        ELSE e.states[v]]
  <2>1. LET d == RemoveChild(e, pr, t) IN
        /\ d \in CoreType /\ d.cm = e.cm /\ d.token_counter = e.token_counter
        /\ d.states = [v \in Token |->
                          IF v = pr THEN WithChildren(e.states[pr], e.states[pr].children \ {t})
                          ELSE e.states[v]]
    BY SMTT(30), ZenonT(120), <1>1, RemoveChildIs
  <2>. QED  BY <1>1, <2>1
<1>3. ASSUME NEW u \in Token, u # pr, u # t
      PROVE  c.states[u] = WithChildren(c.states[u], c.states[u].children \ {t})
  <2>1. t \notin c.states[u].children
    BY <1>3 DEF StructInv, Families, ChildOf
  <2>2. c.states[u].children \ {t} = c.states[u].children /\ c.states[u].children \in SUBSET Token
    BY <1>0, <2>1 DEF StateRecord
  <2>. QED  BY ZenonT(60), <1>0, <2>2, WithChildrenIs
<1>4. [v \in Token |-> IF v = pr THEN WithChildren(e.states[pr], e.states[pr].children \ {t})
                      ELSE e.states[v]]
        = Detach(c.states, t)
  BY <1>1, <1>3 DEF Detach
<1>. QED  BY <1>2, <1>4 DEF e

\* A state that has no parent is detached by its own end.
LEMMA RemoveOrphan ==
    ASSUME NEW c, StructInv(c), NEW t \in Token, c.states[t].parent = NoToken
    PROVE  LET d == RemoveState(c, t) IN
           /\ d \in CoreType
           /\ d.states = Detach(c.states, t)
           /\ d.cm = c.cm
           /\ d.token_counter = c.token_counter
<1>0. c \in CoreType /\ c.states \in [Token -> StateRecord]
  BY DEF StructInv, CoreType
<1>1. ASSUME NEW u \in Token, u # t
      PROVE  c.states[u] = WithChildren(c.states[u], c.states[u].children \ {t})
  <2>1. t \notin c.states[u].children
    BY <1>1 DEF StructInv, Families, ChildOf, NoToken, Token
  <2>2. c.states[u].children \ {t} = c.states[u].children /\ c.states[u].children \in SUBSET Token
    BY <1>0, <2>1 DEF StateRecord
  <2>. QED  BY ZenonT(60), <1>0, <2>2, WithChildrenIs
<1>2. [u \in Token |-> IF u = t THEN NoState ELSE c.states[u]] = Detach(c.states, t)
  BY <1>1 DEF Detach
<1>. QED  BY <1>0, <1>2, RemoveStateIs

-----------------------------------------------------------------------------
(* Handshakes and other childless states end.                              *)

\* Only a Connect, a listener's ExchangeMsg and a Bootstrap have children.
LEMMA Childless ==
    ASSUME NEW c, StructInv(c), NEW t \in Token,
           c.states[t].kind \notin {"Connect", "ListenerExchange", "Bootstrap"}
    PROVE  c.states[t].children = {}
BY DEF StructInv, Families, ChildOf

\* They themselves have no parent, and a token without a state is no child.
LEMMA Parentless ==
    ASSUME NEW c, StructInv(c), NEW t \in Token,
           c.states[t].kind \in {"none", "Connect", "ListenerExchange", "Bootstrap", "ActiveConnection"}
    PROVE  c.states[t].parent = NoToken /\ \A u \in Token : t \notin c.states[u].children
<1>1. \A u \in Token : t \notin c.states[u].children
  BY DEF StructInv, Families, ChildOf
<1>2. c.states[t].parent \in Token \cup {NoToken}
  BY DEF StructInv, CoreType, StateRecord
<1>. QED  BY <1>1, <1>2 DEF StructInv, Families

\* A handshake ends and its unit of the count is not yet given back.
LEMMA DetachHandshake ==
    ASSUME NEW c, NEW d, Inv(c, NoPeer), NEW t \in Token, NEW p \in Peer, Counted(c.states[t], p),
           d \in CoreType, d.states = Detach(c.states, t), d.cm = c.cm,
           d.token_counter = c.token_counter
    PROVE  Inv(d, p)
<1>1. c.states[t].children = {} /\ c.states[t].kind # "ActiveConnection"
  BY Childless DEF Inv, StructInv, Shape, ShapeOf, Counted
<1>2. StructInv(d)
  BY <1>1, DetachStruct DEF Inv
<1>3. Exact => CountInv(d.states, d.cm, p)
  BY DetachCounted DEF Inv, StructInv, CoreType
<1>. QED  BY <1>2, <1>3 DEF Inv

\* A state that is no handshake ends.
LEMMA DetachOther ==
    ASSUME NEW c, NEW d, NEW q, Inv(c, q), NEW t \in Token,
           c.states[t].kind # "ActiveConnection", c.states[t].children = {},
           \A p \in Peer : ~Counted(c.states[t], p),
           d \in CoreType, d.states = Detach(c.states, t), d.cm = c.cm,
           d.token_counter = c.token_counter
    PROVE  Inv(d, q)
<1>1. StructInv(d)
  BY DetachStruct DEF Inv
<1>2. /\ d.states[t] = NoState
      /\ \A u \in Token \ {t} : SameButChildren(d.states[u], c.states[u])
  BY DetachIs DEF Inv, StructInv, CoreType
<1>3. \A u \in Token, p \in Peer : Counted(d.states[u], p) <=> Counted(c.states[u], p)
  BY <1>2 DEF Counted, SameButChildren, NoState
<1>4. \A u \in Token, p \in Peer : IsActiveOf(d.states, u, p) => IsActiveOf(c.states, u, p)
  BY <1>2 DEF IsActiveOf, SameButChildren, NoState
<1>5. Exact => CountInv(d.states, d.cm, q)
  BY <1>3, <1>4, CountSame DEF Inv
<1>. QED  BY <1>1, <1>5 DEF Inv

-----------------------------------------------------------------------------
(* A state ends together with its children.                                *)

DropFamily(st, t) ==
    [u \in Token |-> IF u = t \/ u \in st[t].children THEN NoState ELSE st[u]]

\* The end of a Connect, a listener's ExchangeMsg or a Bootstrap.
LEMMA DropFamilyStruct ==
    ASSUME NEW c, NEW d, StructInv(c), NEW t \in Token,
           c.states[t].kind \in {"Connect", "ListenerExchange", "Bootstrap"},
           d \in CoreType, d.states = DropFamily(c.states, t),
           d.token_counter = c.token_counter,
           \A p \in Peer : EntryOK(d.cm[p]) /\ SameActive(c.cm[p], d.cm[p])
    PROVE  StructInv(d)
<1>. DEFINE st == c.states
            st2 == d.states
            gone(u) == u = t \/ u \in st[t].children
<1>0. /\ st \in [Token -> StateRecord]
      /\ \A u \in Token : st2[u] = IF gone(u) THEN NoState ELSE st[u]
      /\ Families(st)
  BY DEF StructInv, CoreType, DropFamily
<1>1. Shape(st2, d.token_counter)
  <2>. SUFFICES ASSUME NEW u \in Token
                PROVE  ShapeOf(st2[u], u, d.token_counter)
    BY DEF Shape
  <2>1. ShapeOf(NoState, u, d.token_counter)
    BY Zenon DEF ShapeOf, NoState, WithPeer
  <2>2. ShapeOf(st[u], u, d.token_counter)
    BY DEF StructInv, Shape
  <2>. QED  BY <1>0, <2>1, <2>2
<1>2. Families(st2)
  <2>1. ASSUME NEW v \in Token, NEW u \in st2[v].children
        PROVE  ChildOf(st2, u, v)
    <3>1. st2[v] = st[v] /\ ~gone(v)
      BY <1>0, <2>1 DEF NoState
    <3>2. u \in Token /\ ChildOf(st, u, v)
      BY ZenonT(60), <1>0, <2>1, <3>1 DEF Families, StateRecord
    <3>3. ~gone(u)
      <4>1. u # t
        BY <3>2 DEF ChildOf
      <4>2. u \notin st[t].children
        BY <1>0, <3>1, <3>2 DEF Families, ChildOf
      <4>. QED  BY <4>1, <4>2
    <3>. QED  BY <1>0, <3>1, <3>2, <3>3 DEF ChildOf
  <2>2. ASSUME NEW u \in Token, st2[u].parent # NoToken
        PROVE  u \in st2[st2[u].parent].children
    <3>1. st2[u] = st[u] /\ ~gone(u)
      BY <1>0, <2>2 DEF NoState
    <3>. DEFINE v == st[u].parent
    <3>2. v \in Token /\ u \in st[v].children
      BY <1>0, <2>2, <3>1 DEF Families, StateRecord
    <3>3. ~gone(v)
      BY <1>0, <3>1, <3>2 DEF Families, ChildOf
    <3>. QED  BY <1>0, <3>1, <3>2, <3>3
  <2>. QED  BY <2>1, <2>2 DEF Families
<1>3. MapOK(st2, d.cm)
  <2>. SUFFICES ASSUME NEW p \in Peer, d.cm[p].active_connection # NoToken
                PROVE  IsActiveOf(st2, d.cm[p].active_connection, p)
    BY DEF MapOK
  <2>. DEFINE u == c.cm[p].active_connection
  <2>1. u \in Token /\ IsActiveOf(st, u, p) /\ d.cm[p].active_connection = u
    BY DEF StructInv, MapOK, SameActive, CoreType, ConnectionMapType, ConnectionId
  <2>2. ~gone(u)
    <3>1. u # t
      BY <2>1 DEF IsActiveOf
    <3>2. u \notin st[t].children
      BY <1>0, <2>1 DEF Families, ChildOf, IsActiveOf
    <3>. QED  BY <3>1, <3>2
  <2>. QED  BY ZenonT(60), <1>0, <2>1, <2>2 DEF IsActiveOf
<1>. QED  BY <1>1, <1>2, <1>3 DEF StructInv

\* The end of a listener's ExchangeMsg that has promised nothing, or of a
\* Bootstrap: no handshake ends.
LEMMA DropFamilyOther ==
    ASSUME NEW c, NEW d, NEW q, Inv(c, q), NEW t \in Token,
           \/ c.states[t].kind = "ListenerExchange" /\ c.states[t].next_state = "None"
           \/ c.states[t].kind = "Bootstrap",
           d \in CoreType, d.states = DropFamily(c.states, t), d.cm = c.cm,
           d.token_counter = c.token_counter
    PROVE  Inv(d, q)
<1>1. StructInv(d)
  BY DropFamilyStruct DEF Inv, StructInv, MapOK, SameActive
<1>2. \A u \in Token : d.states[u] = IF u = t \/ u \in c.states[t].children THEN NoState ELSE c.states[u]
  BY DEF DropFamily
<1>3. \A u \in c.states[t].children : c.states[u].kind \in {"CheckReachability", "TryPeer"}
  BY DEF Inv, StructInv, Families, ChildOf
<1>4. \A u \in Token, p \in Peer : Counted(d.states[u], p) <=> Counted(c.states[u], p)
  BY <1>2, <1>3 DEF Counted, NoState
<1>5. \A u \in Token, p \in Peer : IsActiveOf(d.states, u, p) => IsActiveOf(c.states, u, p)
  BY <1>2 DEF IsActiveOf, NoState
<1>6. Exact => CountInv(d.states, d.cm, q)
  BY <1>4, <1>5, CountSame DEF Inv
<1>. QED  BY <1>1, <1>6 DEF Inv

\* The end of a Connect gives back one unit of the count for each child.
LEMMA DropConnect ==
    ASSUME NEW c, NEW d, NEW q, Inv(c, q), NEW t \in Token, c.states[t].kind = "Connect",
           d \in CoreType, d.states = DropFamily(c.states, t),
           d.cm = LeaveMany(c.cm, c.states[t].their_id, Cardinality(c.states[t].children)),
           d.token_counter = c.token_counter
    PROVE  Inv(d, q)
<1>. DEFINE st == c.states
            p0 == st[t].their_id
            ch == st[t].children
            n  == Cardinality(ch)
<1>0. /\ st \in [Token -> StateRecord] /\ c.cm \in ConnectionMapType /\ p0 \in Peer
      /\ ch \in SUBSET Token /\ \A p \in Peer : EntryOK(c.cm[p])
  BY Zenon DEF Inv, StructInv, CoreType, StateRecord, Shape, ShapeOf, WithPeer, MapOK
<1>1. ch \subseteq HS(st, p0)
  BY Zenon, <1>0 DEF Inv, StructInv, Families, ChildOf, HS, Counted
<1>2. IsFiniteSet(ch) /\ n \in Nat /\ n <= Cardinality(HS(st, p0))
  BY <1>1, HSFinite, FS_Subset, FS_CardinalityType
<1>3. /\ \A r \in Peer \ {p0} : d.cm[r] = c.cm[r]
      /\ SameActive(c.cm[p0], d.cm[p0])
      /\ EntryOK(d.cm[p0])
      /\ n <= c.cm[p0].currently_handshaking =>
            /\ d.cm[p0].currently_handshaking = c.cm[p0].currently_handshaking - n
            /\ EntryUsed(c.cm[p0]) => EntryUsed(d.cm[p0])
  <2>1. LET e == LeaveMany(c.cm, p0, n) IN
        /\ e \in ConnectionMapType
        /\ \A r \in Peer \ {p0} : e[r] = c.cm[r]
        /\ SameActive(c.cm[p0], e[p0])
        /\ EntryOK(e[p0])
        /\ n <= c.cm[p0].currently_handshaking =>
              /\ e[p0].currently_handshaking = c.cm[p0].currently_handshaking - n
              /\ EntryUsed(c.cm[p0]) => EntryUsed(e[p0])
    BY ZenonT(60), <1>0, <1>2, LeaveManyEffect
  <2>2. d.cm = LeaveMany(c.cm, p0, n)
    BY Zenon
  <2>. HIDE DEF n, p0
  <2>. QED  BY ZenonT(60), <2>1, <2>2
<1>4. StructInv(d)
  <2>1. \A p \in Peer : EntryOK(d.cm[p]) /\ SameActive(c.cm[p], d.cm[p])
    BY ZenonT(60), <1>0, <1>3 DEF SameActive
  <2>. QED  BY <2>1, DropFamilyStruct DEF Inv
<1>5. ASSUME Exact  PROVE CountInv(d.states, d.cm, q)
  <2>0. \A u \in Token : d.states[u] = IF u = t \/ u \in ch THEN NoState ELSE st[u]
    BY DEF DropFamily
  <2>. SUFFICES ASSUME NEW p \in Peer
                PROVE  /\ d.cm[p].currently_handshaking = Cardinality(HS(d.states, p)) + Owed(p, q)
                       /\ EntryUsed(d.cm[p])
                       /\ p < OurId => \A u \in Token : IsActiveOf(d.states, u, p)
                                                          => u = d.cm[p].active_connection
    BY Zenon DEF CountInv
  <2>1. /\ c.cm[p].currently_handshaking = Cardinality(HS(st, p)) + Owed(p, q)
        /\ EntryUsed(c.cm[p])
        /\ p < OurId => \A u \in Token : IsActiveOf(st, u, p) => u = c.cm[p].active_connection
    BY <1>5 DEF Inv, CountInv
  <2>2. \A u \in Token : IsActiveOf(d.states, u, p) => IsActiveOf(st, u, p)
    BY <2>0 DEF IsActiveOf, NoState
  <2>3. CASE p # p0
    <3>1. HS(d.states, p) = HS(st, p)
      BY <1>1, <2>0, <2>3 DEF HS, Counted, NoState
    <3>. QED  BY ZenonT(60), <1>3, <2>1, <2>2, <2>3, <3>1
  <2>4. CASE p = p0
    <3>1. HS(d.states, p) = HS(st, p) \ ch
      BY <2>0 DEF HS, Counted, NoState
    <3>2. HS(st, p) \cap ch = ch
      BY <1>1, <2>4
    <3>3. Cardinality(HS(d.states, p)) = Cardinality(HS(st, p)) - n
      <4>1. Cardinality(HS(st, p) \ ch) = Cardinality(HS(st, p)) - Cardinality(HS(st, p) \cap ch)
        BY ZenonT(60), HSFinite, FS_Difference
      <4>. QED  BY ZenonT(60), <3>1, <3>2, <4>1
    <3>4. Owed(p, q) \in {0, 1}
      BY DEF Owed
    <3>5. n <= c.cm[p].currently_handshaking
      <4>1. Cardinality(HS(st, p)) \in Nat
        BY HSFinite, BoundAssumption
      <4>2. /\ n \in Nat /\ n <= Cardinality(HS(st, p))
            /\ c.cm[p].currently_handshaking = Cardinality(HS(st, p)) + Owed(p, q)
        BY ZenonT(60), <1>2, <2>1, <2>4
      <4>. HIDE DEF n, st
      <4>. QED  BY <3>4, <4>1, <4>2
    <3>6. d.cm[p].currently_handshaking = c.cm[p].currently_handshaking - n /\ EntryUsed(d.cm[p])
      BY ZenonT(60), <1>3, <2>1, <2>4, <3>5
    <3>7. d.cm[p].currently_handshaking = Cardinality(HS(d.states, p)) + Owed(p, q)
      <4>. HIDE DEF n, st
      <4>. QED  BY <1>2, <2>1, <3>3, <3>4, <3>6, HSFinite
    <3>8. d.cm[p].active_connection = c.cm[p].active_connection
      BY ZenonT(60), <1>3, <2>4 DEF SameActive
    <3>. QED  BY ZenonT(60), <2>1, <2>2, <3>6, <3>7, <3>8
  <2>. QED  BY ZenonT(60), <2>3, <2>4
<1>. QED  BY <1>4, <1>5 DEF Inv

-----------------------------------------------------------------------------
(* ActiveConnection                                                        *)

\* There is no active connection to p, if we are the one to choose it.
NoneChosen(c, p) == Exact /\ p < OurId => \A u \in Token : ~IsActiveOf(c.states, u, p)

\* ActiveConnection::terminate removes the state and clears the map's entry.
LEMMA ActiveTerminateIs ==
    ASSUME NEW c \in CoreType, NEW t \in Token, NEW p \in Peer, EntryOK(c.cm[p])
    PROVE  LET d == ActiveTerminate(c, t, p) IN
           /\ d \in CoreType
           /\ d.states = [u \in Token |-> IF u = t THEN NoState ELSE c.states[u]]
           /\ d.cm = Deactivate(c.cm, p)
           /\ d.token_counter = c.token_counter
<1>. DEFINE e == HeartbeatTerminate(c, t)
            f == RemoveState(e, t)
            g == [f EXCEPT !.cm = Deactivate(@, p)]
<1>1. Same(c, e)
  <2>. DEFINE h == CancelTimeout(c, t, 0)
  <2>1. Same(c, h)
    BY TimersSame
  <2>. HIDE DEF h
  <2>2. Same(h, CancelTimeout(h, t, 1))
    BY <2>1, TimersSame DEF Same
  <2>3. Same(c, CancelTimeout(h, t, 1))
    BY ZenonT(60), <2>1, <2>2 DEF Same
  <2>. QED  BY Zenon, <2>3 DEF HeartbeatTerminate, h
<1>2. /\ f \in CoreType /\ f.cm = c.cm /\ f.token_counter = c.token_counter
      /\ f.states = [u \in Token |-> IF u = t THEN NoState ELSE c.states[u]]
  <2>. HIDE DEF e
  <2>. QED  BY <1>1, RemoveStateIs DEF Same
<1>3. /\ g \in CoreType /\ g.states = f.states /\ g.token_counter = f.token_counter
      /\ g.cm = Deactivate(c.cm, p)
  <2>1. Deactivate(c.cm, p) \in ConnectionMapType
    BY DeactivateEffect DEF CoreType
  <2>. HIDE DEF f
  <2>. QED  BY <1>2, <2>1, MapIs
<1>4. ActiveTerminate(c, t, p) = LostPeer(g, p)
  BY DEF ActiveTerminate
<1>. HIDE DEF g
<1>5. Same(g, LostPeer(g, p))
  BY ZenonT(60), <1>3, EventsSame
<1>. QED  BY ZenonT(60), <1>2, <1>3, <1>4, <1>5 DEF Same

\* terminate of a connection, and of one that has been terminated already.
LEMMA ActiveTerminateInv ==
    ASSUME NEW c, NEW q, Inv(c, q), NEW t \in Token, NEW p \in Peer,
           IsActiveOf(c.states, t, p) \/ (c.states[t] = NoState /\ NoneChosen(c, p))
    PROVE  LET d == ActiveTerminate(c, t, p) IN
           /\ Inv(d, q)
           /\ d.states[t] = NoState
           /\ NoneChosen(d, p)
           /\ d.token_counter = c.token_counter
           /\ \A u \in Token \ {t} : d.states[u] = c.states[u]
<1>. DEFINE d == ActiveTerminate(c, t, p)
            st == c.states
<1>0. /\ c \in CoreType /\ EntryOK(c.cm[p]) /\ c.cm \in ConnectionMapType
      /\ st \in [Token -> StateRecord]
  BY Zenon DEF Inv, StructInv, MapOK, CoreType
<1>1. /\ d \in CoreType /\ d.token_counter = c.token_counter
      /\ d.states = [u \in Token |-> IF u = t THEN NoState ELSE c.states[u]]
      /\ d.cm = Deactivate(c.cm, p)
  BY <1>0, ActiveTerminateIs
<1>2. /\ \A r \in Peer \ {p} : d.cm[r] = c.cm[r]
      /\ d.cm[p].active_connection = NoToken
      /\ EntryOK(d.cm[p])
      /\ EntryUsed(d.cm[p])
      /\ d.cm[p].currently_handshaking = c.cm[p].currently_handshaking
  <2>1. LET e == Deactivate(c.cm, p) IN
        /\ \A r \in Peer \ {p} : e[r] = c.cm[r]
        /\ e[p].active_connection = NoToken
        /\ EntryOK(e[p])
        /\ EntryUsed(e[p])
        /\ e[p].currently_handshaking = c.cm[p].currently_handshaking
    BY ZenonT(60), <1>0, DeactivateEffect
  <2>. HIDE DEF d
  <2>. QED  BY ZenonT(60), <1>1, <2>1
<1>. HIDE DEF d
<1>3. d.states[t] = NoState /\ \A u \in Token \ {t} : d.states[u] = st[u]
  BY <1>1
<1>4. Shape(d.states, d.token_counter)
  <2>1. ShapeOf(NoState, t, d.token_counter)
    BY Zenon DEF ShapeOf, NoState, WithPeer
  <2>. QED  BY <1>1, <1>3, <2>1 DEF Inv, StructInv, Shape
<1>5. Families(d.states)
  <2>1. st[t].children = {} /\ st[t].parent = NoToken /\ \A u \in Token : t \notin st[u].children
    <3>1. st[t].kind \in {"none", "ActiveConnection"}
      BY DEF IsActiveOf, NoState
    <3>. QED  BY ZenonT(60), <3>1, Childless, Parentless DEF Inv
  <2>2. ASSUME NEW v \in Token, NEW u \in d.states[v].children
        PROVE  ChildOf(d.states, u, v)
    <3>1. v # t
      BY <1>3, <2>2 DEF NoState
    <3>2. u \in Token /\ u # t /\ ChildOf(st, u, v)
      BY ZenonT(60), <1>0, <1>3, <2>1, <2>2, <3>1 DEF Inv, StructInv, Families, StateRecord
    <3>. QED  BY ZenonT(60), <1>3, <3>1, <3>2 DEF ChildOf
  <2>3. ASSUME NEW u \in Token, d.states[u].parent # NoToken
        PROVE  u \in d.states[d.states[u].parent].children
    <3>1. u # t
      BY <1>3, <2>3 DEF NoState
    <3>2. st[u].parent \in Token /\ u \in st[st[u].parent].children /\ d.states[u] = st[u]
      BY SMTT(30), ZenonT(120), <1>0, <1>3, <2>3, <3>1 DEF Inv, StructInv, Families, StateRecord
    <3>3. st[u].parent # t
      BY ZenonT(60), <2>1, <3>2
    <3>. QED  BY ZenonT(60), <1>3, <3>2, <3>3
  <2>. QED  BY ZenonT(60), <2>2, <2>3 DEF Families
<1>6. MapOK(d.states, d.cm)
  <2>. SUFFICES ASSUME NEW r \in Peer
                PROVE  /\ EntryOK(d.cm[r])
                       /\ d.cm[r].active_connection # NoToken
                            => IsActiveOf(d.states, d.cm[r].active_connection, r)
    BY DEF MapOK
  <2>1. CASE r = p
    BY <1>2, <2>1
  <2>2. CASE r # p
    <3>1. EntryOK(c.cm[r]) /\ (c.cm[r].active_connection # NoToken
                                 => IsActiveOf(st, c.cm[r].active_connection, r))
      BY DEF Inv, StructInv, MapOK
    <3>2. c.cm[r].active_connection \in Token \cup {NoToken}
      BY <1>0 DEF ConnectionMapType, ConnectionId
    <3>3. d.cm[r] = c.cm[r]
      BY Zenon, <1>2, <2>2
    <3>4. ASSUME c.cm[r].active_connection # NoToken
          PROVE  IsActiveOf(d.states, c.cm[r].active_connection, r)
      <4>1. c.cm[r].active_connection \in Token /\ IsActiveOf(st, c.cm[r].active_connection, r)
        BY Zenon, <3>1, <3>2, <3>4
      <4>2. c.cm[r].active_connection # t
        <5>1. st[t].kind = "none" \/ st[t].their_id = p
          BY SMTT(30) DEF IsActiveOf, NoState
        <5>. QED  BY SMTT(30), <2>2, <4>1, <5>1 DEF IsActiveOf
      <4>. QED  BY ZenonT(60), <1>3, <4>1, <4>2 DEF IsActiveOf
    <3>. QED  BY ZenonT(60), <3>1, <3>3, <3>4
  <2>. QED  BY <2>1, <2>2
<1>7. NoneChosen(d, p)
  BY <1>3 DEF NoneChosen, Inv, CountInv, IsActiveOf, NoState
<1>8. ASSUME Exact  PROVE CountInv(d.states, d.cm, q)
  <2>1. \A r \in Peer : HS(d.states, r) = HS(st, r)
    BY <1>3 DEF HS, Counted, IsActiveOf, NoState
  <2>2. \A r \in Peer, u \in Token : IsActiveOf(d.states, u, r) => IsActiveOf(st, u, r)
    BY <1>3 DEF IsActiveOf, NoState
  <2>3. CountInv(st, c.cm, q)
    BY <1>8 DEF Inv
  <2>. SUFFICES ASSUME NEW r \in Peer
                PROVE  /\ d.cm[r].currently_handshaking = Cardinality(HS(d.states, r)) + Owed(r, q)
                       /\ EntryUsed(d.cm[r])
                       /\ r < OurId => \A u \in Token : IsActiveOf(d.states, u, r)
                                                          => u = d.cm[r].active_connection
    BY DEF CountInv
  <2>4. CASE r = p
    BY <1>2, <1>7, <1>8, <2>1, <2>3, <2>4 DEF CountInv, NoneChosen
  <2>5. CASE r # p
    BY ZenonT(60), <1>2, <2>1, <2>2, <2>3, <2>5 DEF CountInv
  <2>. QED  BY <2>4, <2>5
<1>. QED  BY ZenonT(60), <1>1, <1>3, <1>4, <1>5, <1>6, <1>7, <1>8 DEF Inv, StructInv, d

\* The state of an active connection to a peer.
LEMMA ActiveStateIs ==
    ASSUME NEW p \in Peer
    PROVE  /\ ActiveState(p) \in StateRecord
           /\ ActiveState(p).kind = "ActiveConnection" /\ ActiveState(p).their_id = p
           /\ ActiveState(p).parent = NoToken /\ ActiveState(p).children = {}
BY ZenonT(60) DEF ActiveState, NoState, StateRecord, StateKind, NextState

\* The good part of ActiveConnection::start: timers, state, map, event.
LEMMA ActiveEnterIs ==
    ASSUME NEW c \in CoreType, NEW t \in Token, NEW p \in Peer, NEW event, EntryOK(c.cm[p])
    PROVE  LET d == ActiveEnter(c, t, p, event) IN
           /\ d \in CoreType
           /\ d.states = [u \in Token |-> IF u = t THEN ActiveState(p) ELSE c.states[u]]
           /\ d.cm = Activate(c.cm, p, t)
           /\ d.token_counter = c.token_counter
<1>. DEFINE e0 == SetTimeout(c, t, 0)
            e == SetTimeouts(e0, {t}, 1)
            f == InsertState(e, t, ActiveState(p))
            g == [f EXCEPT !.cm = Activate(@, p, t)]
<1>1. Same(c, e0)
  BY TimersSame
<1>2. Same(e0, e)
  <2>. HIDE DEF e0
  <2>1. {t} \in SUBSET Token  OBVIOUS
  <2>. QED  BY <1>1, <2>1, TimersSame DEF Same
<1>3. /\ f \in CoreType /\ f.cm = c.cm /\ f.token_counter = c.token_counter
      /\ f.states = [u \in Token |-> IF u = t THEN ActiveState(p) ELSE c.states[u]]
  <2>. HIDE DEF e, e0
  <2>. QED  BY <1>1, <1>2, InsertStateIs, ActiveStateIs DEF Same
<1>4. /\ g \in CoreType /\ g.states = f.states /\ g.token_counter = f.token_counter
      /\ g.cm = Activate(c.cm, p, t)
  <2>1. Activate(c.cm, p, t) \in ConnectionMapType
    BY ActivateEffect DEF CoreType
  <2>. HIDE DEF f
  <2>. QED  BY <1>3, <2>1, MapIs
<1>5. ActiveEnter(c, t, p, event) = SendEvent(g, event, p)
  BY DEF ActiveEnter
<1>. HIDE DEF g
<1>6. Same(g, SendEvent(g, event, p))
  BY ZenonT(60), <1>4, EventsSame
<1>. QED  BY ZenonT(60), <1>3, <1>4, <1>5, <1>6 DEF Same

\* A connection becomes active: it takes over the owed handshake of its peer,
\* or (a bootstrap) the peer had no entry.
LEMMA ActiveEnterInv ==
    ASSUME NEW c, NEW q, Inv(c, q), NEW t \in Token, NEW p \in Peer, NEW event,
           c.states[t] = NoState, t # BOOTSTRAP_TOKEN, t < c.token_counter,
           Exact => q = p \/ (q = NoPeer /\ ~c.cm[p].occupied),
           Exact /\ p < OurId => ~IsActive(c.cm, p)
    PROVE  LET d == ActiveEnter(c, t, p, event) IN
           /\ Inv(d, NoPeer)
           /\ IsActiveOf(d.states, t, p)
           /\ d.token_counter = c.token_counter
           /\ \A u \in Token \ {t} : d.states[u] = c.states[u]
<1>. DEFINE d == ActiveEnter(c, t, p, event)
            st == c.states
            a  == ActiveState(p)
<1>0. /\ c \in CoreType /\ EntryOK(c.cm[p]) /\ c.cm \in ConnectionMapType
      /\ st \in [Token -> StateRecord] /\ c.token_counter \in Int /\ t \in Int
  BY BoundAssumption DEF Inv, StructInv, MapOK, CoreType, Token
<1>1. /\ d \in CoreType /\ d.token_counter = c.token_counter
      /\ d.states = [u \in Token |-> IF u = t THEN a ELSE c.states[u]]
      /\ d.cm = Activate(c.cm, p, t)
  BY <1>0, ActiveEnterIs
<1>2. /\ \A r \in Peer \ {p} : d.cm[r] = c.cm[r]
      /\ d.cm[p].active_connection = t
      /\ EntryOK(d.cm[p])
      /\ EntryUsed(d.cm[p])
      /\ c.cm[p].currently_handshaking > 0 =>
            d.cm[p].currently_handshaking = c.cm[p].currently_handshaking - 1
      /\ ~c.cm[p].occupied => d.cm[p].currently_handshaking = 0
  <2>1. LET e == Activate(c.cm, p, t) IN
        /\ \A r \in Peer \ {p} : e[r] = c.cm[r]
        /\ e[p].active_connection = t
        /\ EntryOK(e[p])
        /\ EntryUsed(e[p])
        /\ c.cm[p].currently_handshaking > 0 =>
              e[p].currently_handshaking = c.cm[p].currently_handshaking - 1
        /\ ~c.cm[p].occupied => e[p].currently_handshaking = 0
    BY SMTT(30), ZenonT(120), <1>0, ActivateEffect
  <2>. HIDE DEF d
  <2>. QED  BY ZenonT(60), <1>1, <2>1
<1>. HIDE DEF d, a
<1>3. d.states[t] = a /\ \A u \in Token \ {t} : d.states[u] = st[u]
  BY <1>1
<1>a. /\ a.kind = "ActiveConnection" /\ a.their_id = p
      /\ a.parent = NoToken /\ a.children = {}
  BY ActiveStateIs DEF a
<1>4. Shape(d.states, d.token_counter)
  <2>1. ShapeOf(a, t, d.token_counter)
    BY <1>0, <1>1, <1>a DEF ShapeOf, WithPeer
  <2>. QED  BY <1>1, <1>3, <2>1 DEF Inv, StructInv, Shape
<1>5. Families(d.states)
  <2>1. st[t].children = {} /\ st[t].parent = NoToken /\ \A u \in Token : t \notin st[u].children
    BY Childless, Parentless DEF Inv, NoState
  <2>2. ASSUME NEW v \in Token, NEW u \in d.states[v].children
        PROVE  ChildOf(d.states, u, v)
    <3>1. v # t /\ u # t
      BY <1>3, <1>a, <2>1, <2>2
    <3>2. u \in Token /\ ChildOf(st, u, v)
      BY ZenonT(60), <1>0, <1>3, <2>2, <3>1 DEF Inv, StructInv, Families, StateRecord
    <3>. QED  BY ZenonT(60), <1>3, <3>1, <3>2 DEF ChildOf
  <2>3. ASSUME NEW u \in Token, d.states[u].parent # NoToken
        PROVE  u \in d.states[d.states[u].parent].children
    <3>1. u # t /\ st[u].parent # t
      BY ZenonT(60), <1>3, <1>a, <2>1, <2>3 DEF Inv, StructInv, Families
    <3>2. st[u].parent \in Token /\ u \in st[st[u].parent].children /\ d.states[u] = st[u]
      BY SMTT(30), ZenonT(120), <1>0, <1>3, <2>3, <3>1 DEF Inv, StructInv, Families, StateRecord
    <3>. QED  BY <1>3, <3>1, <3>2
  <2>. QED  BY <2>2, <2>3 DEF Families
<1>6. MapOK(d.states, d.cm)
  <2>. SUFFICES ASSUME NEW r \in Peer
                PROVE  /\ EntryOK(d.cm[r])
                       /\ d.cm[r].active_connection # NoToken
                            => IsActiveOf(d.states, d.cm[r].active_connection, r)
    BY DEF MapOK
  <2>1. CASE r = p
    BY ZenonT(60), <1>2, <1>3, <1>a, <2>1 DEF IsActiveOf
  <2>2. CASE r # p
    <3>1. EntryOK(c.cm[r]) /\ (c.cm[r].active_connection # NoToken
                                 => IsActiveOf(st, c.cm[r].active_connection, r))
      BY Zenon DEF Inv, StructInv, MapOK
    <3>2. c.cm[r].active_connection \in Token \cup {NoToken}
      BY <1>0 DEF ConnectionMapType, ConnectionId
    <3>3. d.cm[r] = c.cm[r]
      BY Zenon, <1>2, <2>2
    <3>4. ASSUME c.cm[r].active_connection # NoToken
          PROVE  IsActiveOf(d.states, c.cm[r].active_connection, r)
      <4>1. c.cm[r].active_connection \in Token /\ IsActiveOf(st, c.cm[r].active_connection, r)
        BY Zenon, <3>1, <3>2, <3>4
      <4>2. c.cm[r].active_connection # t
        <5>1. st[t].kind = "none"
          BY SMTT(30) DEF NoState
        <5>. QED  BY SMTT(30), <4>1, <5>1 DEF IsActiveOf
      <4>. QED  BY ZenonT(60), <1>3, <4>1, <4>2 DEF IsActiveOf
    <3>. QED  BY ZenonT(60), <3>1, <3>3, <3>4
  <2>. QED  BY ZenonT(60), <2>1, <2>2
<1>8. ASSUME Exact  PROVE CountInv(d.states, d.cm, NoPeer)
  <2>1. \A r \in Peer : HS(d.states, r) = HS(st, r)
    <3>1. \A r \in Peer, u \in Token : Counted(d.states[u], r) <=> Counted(st[u], r)
      BY <1>3, <1>a DEF Counted, NoState
    <3>. QED  BY Zenon, <3>1 DEF HS
  <2>3. CountInv(st, c.cm, q)
    BY <1>8 DEF Inv
  <2>. SUFFICES ASSUME NEW r \in Peer
                PROVE  /\ d.cm[r].currently_handshaking = Cardinality(HS(d.states, r)) + Owed(r, NoPeer)
                       /\ EntryUsed(d.cm[r])
                       /\ r < OurId => \A u \in Token : IsActiveOf(d.states, u, r)
                                                          => u = d.cm[r].active_connection
    BY Zenon DEF CountInv
  <2>2. Owed(r, NoPeer) = 0
    BY NoPeerIsNoPeer DEF Owed
  <2>a. /\ c.cm[r].currently_handshaking = Cardinality(HS(st, r)) + Owed(r, q)
        /\ EntryUsed(c.cm[r])
        /\ r < OurId => \A u \in Token : IsActiveOf(st, u, r) => u = c.cm[r].active_connection
    BY ZenonT(60), <2>3 DEF CountInv
  <2>4. CASE r = p
    <3>1. d.cm[p].currently_handshaking = Cardinality(HS(st, p))
      <4>0. Cardinality(HS(st, p)) \in Nat
        BY HSFinite, BoundAssumption
      <4>1. CASE q = p
        <5>1. c.cm[p].currently_handshaking = Cardinality(HS(st, p)) + 1
          BY ZenonT(60), <2>4, <2>a, <4>1 DEF Owed
        <5>2. c.cm[p].currently_handshaking > 0
          BY <4>0, <5>1
        <5>3. d.cm[p].currently_handshaking = c.cm[p].currently_handshaking - 1
          BY Zenon, <1>2, <5>2
        <5>. QED  BY <4>0, <5>1, <5>3
      <4>2. CASE q = NoPeer /\ ~c.cm[p].occupied
        <5>1. c.cm[p].currently_handshaking = 0
          BY <1>0, <4>2 DEF EntryOK, Vacant
        <5>2. c.cm[p].currently_handshaking = Cardinality(HS(st, p)) + 0
          BY ZenonT(60), <2>2, <2>4, <2>a, <4>2
        <5>3. d.cm[p].currently_handshaking = 0
          BY Zenon, <1>2, <4>2
        <5>. QED  BY <4>0, <5>1, <5>2, <5>3
      <4>. QED  BY ZenonT(60), <1>8, <4>1, <4>2
    <3>2. p < OurId => \A u \in Token : IsActiveOf(d.states, u, p) => u = t
      <4>. SUFFICES ASSUME p < OurId, NEW u \in Token, IsActiveOf(d.states, u, p), u # t
                    PROVE  FALSE
        OBVIOUS
      <4>1. IsActiveOf(st, u, p)
        BY <1>3 DEF IsActiveOf
      <4>2. u = c.cm[p].active_connection
        BY ZenonT(60), <2>4, <2>a, <4>1
      <4>. QED  BY <1>8, <4>2 DEF IsActive, Token, NoToken
    <3>3. Cardinality(HS(st, p)) = Cardinality(HS(st, p)) + 0
      BY HSFinite, BoundAssumption
    <3>. QED  BY ZenonT(60), <1>2, <2>1, <2>2, <2>4, <3>1, <3>2, <3>3
  <2>5. CASE r # p
    <3>1. Owed(r, q) = 0
      BY <1>8, <2>5, NoPeerIsNoPeer DEF Owed
    <3>2. \A u \in Token : IsActiveOf(d.states, u, r) => IsActiveOf(st, u, r)
      BY <1>3, <1>a, <2>5 DEF IsActiveOf
    <3>. QED  BY ZenonT(60), <1>2, <2>1, <2>2, <2>a, <2>5, <3>1, <3>2
  <2>. QED  BY ZenonT(60), <2>4, <2>5
<1>9. IsActiveOf(d.states, t, p)
  BY <1>3, <1>a DEF IsActiveOf
<1>. QED  BY ZenonT(60), <1>1, <1>3, <1>4, <1>5, <1>6, <1>8, <1>9 DEF Inv, StructInv, d

\* ActiveConnection::start, whatever becomes of it.
LEMMA ActiveStartInv ==
    ASSUME NEW c, NEW q, Inv(c, q), NEW t \in Token, NEW p \in Peer, NEW event,
           NEW outcome \in Outcomes,
           c.states[t] = NoState, t # BOOTSTRAP_TOKEN, t < c.token_counter,
           Exact => q = p \/ (q = NoPeer /\ ~c.cm[p].occupied),
           Exact /\ p < OurId => ~IsActive(c.cm, p)
    PROVE  LET d == ActiveStart(c, t, p, event, outcome) IN
           /\ Inv(d, NoPeer)
           /\ d.states[t] = NoState \/ IsActiveOf(d.states, t, p)
           /\ d.token_counter = c.token_counter
           /\ \A u \in Token \ {t} : d.states[u] = c.states[u]
<1>. DEFINE d == ActiveStart(c, t, p, event, outcome)
            e == ActiveEnter(c, t, p, event)
<1>0. c \in CoreType
  BY DEF Inv, StructInv
<1>1. /\ Inv(e, NoPeer)
      /\ IsActiveOf(e.states, t, p)
      /\ e.token_counter = c.token_counter
      /\ \A u \in Token \ {t} : e.states[u] = c.states[u]
  <2>1. LET f == ActiveEnter(c, t, p, event) IN
        /\ Inv(f, NoPeer)
        /\ IsActiveOf(f.states, t, p)
        /\ f.token_counter = c.token_counter
        /\ \A u \in Token \ {t} : f.states[u] = c.states[u]
    BY ActiveEnterInv
  <2>. QED  BY ZenonT(60), <2>1
<1>2. CASE outcome \in {"no_recv_timer", "no_send_timer"}
  <2>1. ~Exact
    BY <1>2 DEF Outcomes, Exact
  <2>2. Same(c, d)
    <3>1. Same(c, LostPeer(c, p))
      BY <1>0, EventsSame
    <3>2. Same(c, LostPeer(LeakTimeout(c, t, 0), p))
      <4>. DEFINE f == LeakTimeout(c, t, 0)
      <4>1. Same(c, f)
        BY <1>0, TimersSame
      <4>. HIDE DEF f
      <4>2. Same(f, LostPeer(f, p))
        BY SMTT(30), ZenonT(120), <4>1, EventsSame DEF Same
      <4>3. Same(c, LostPeer(f, p))
        BY ZenonT(60), <4>1, <4>2 DEF Same
      <4>. QED  BY Zenon, <4>3 DEF f
    <3>3. d \in {LostPeer(c, p), LostPeer(LeakTimeout(c, t, 0), p)}
      BY <1>2 DEF ActiveStart
    <3>. QED  BY <3>1, <3>2, <3>3
  <2>. QED  BY ZenonT(60), <2>1, <2>2 DEF Same, Inv, StructInv
<1>3. CASE outcome = "read_error"
  <2>1. d = ActiveTerminate(e, t, p)
    BY <1>3 DEF ActiveStart
  <2>. HIDE DEF e
  <2>2. LET f == ActiveTerminate(e, t, p) IN
        /\ Inv(f, NoPeer)
        /\ f.states[t] = NoState
        /\ NoneChosen(f, p)
        /\ f.token_counter = e.token_counter
        /\ \A u \in Token \ {t} : f.states[u] = e.states[u]
    BY SMTT(30), ZenonT(120), <1>1, ActiveTerminateInv
  <2>. QED  BY ZenonT(60), <1>1, <2>1, <2>2
<1>4. CASE outcome = "ok"
  <2>1. d = e
    BY <1>4 DEF ActiveStart
  <2>. QED  BY ZenonT(60), <1>1, <2>1
<1>5. outcome \in StartOutcome
  BY DEF Outcomes, StartOutcome
<1>. QED  BY ZenonT(60), <1>2, <1>3, <1>4, <1>5 DEF StartOutcome

=============================================================================
