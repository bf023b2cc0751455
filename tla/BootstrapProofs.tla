--------------------------- MODULE BootstrapProofs ---------------------------
(***************************************************************************)
(* Every operation of Bootstrap preserves the invariant of NodeInvariant.  *)
(***************************************************************************)
EXTENDS HandlerProofs

\* The states of Bootstrap::start and TryPeer::start.
LEMMA BootstrapStatesAre ==
    ASSUME NEW m \in {"None", "Some"}
    PROVE  /\ BootstrapState(m) \in StateRecord
           /\ BootstrapState(m).kind = "Bootstrap" /\ BootstrapState(m).sd_meta = m
           /\ BootstrapState(m).children = {} /\ BootstrapState(m).parent = NoToken
           /\ BootstrapState(m).their_id = NoPeer
           /\ TryPeerState \in StateRecord /\ TryPeerState.kind = "TryPeer"
           /\ TryPeerState.children = {} /\ TryPeerState.parent = BOOTSTRAP_TOKEN
           /\ TryPeerState.their_id = NoPeer
<1>1. BOOTSTRAP_TOKEN \in Token
  BY BoundAssumption DEF BOOTSTRAP_TOKEN, Token
<1>. QED  BY ZenonT(60), <1>1 DEF BootstrapState, TryPeerState, NoState, StateRecord, StateKind, NextState

\* From c to d states end and nothing else happens to the connections.
Ends(c, d) ==
    /\ d.cm = c.cm
    /\ d.token_counter = c.token_counter
    /\ \A u \in Token : d.states[u] = c.states[u] \/ d.states[u] = NoState

\* Such a step is about no token in particular.
LEMMA EndsForward ==
    ASSUME NEW c, NEW d, Ends(c, d), Inv(d, NoPeer), NEW x
    PROVE  Preserves(c, d, x)
<1>1. d.token_counter \in Int
  BY BoundAssumption DEF Inv, StructInv, CoreType
<1>2. NoState.kind = "none"
  BY DEF NoState
<1>. QED  BY <1>1, <1>2 DEF Ends, Preserves, Forward

-----------------------------------------------------------------------------
(* Bootstrap::terminate                                                    *)

\* The Bootstrap and every TryPeer end, no handshake does.
LEMMA BootstrapTerminateInv ==
    ASSUME NEW c, NEW q, Inv(c, q), c.states[BOOTSTRAP_TOKEN].kind = "Bootstrap"
    PROVE  LET d == BootstrapTerminate(c) IN
           Inv(d, q) /\ Ends(c, d) /\ d.states[BOOTSTRAP_TOKEN] = NoState
<1>. DEFINE t  == BOOTSTRAP_TOKEN
            s  == c.states[t]
            ch == s.children
            e1 == RemoveStates(c, ch)
            e2 == IF s.sd_meta = "Some" THEN CancelTimeout(e1, t, 1) ELSE e1
            e3 == RemoveState(e2, t)
            d  == CancelTimeout(e3, t, 0)
<1>0. /\ StructInv(c) /\ c \in CoreType /\ c.states \in [Token -> StateRecord] /\ t \in Token
      /\ ch \in SUBSET Token
  BY BoundAssumption DEF Inv, StructInv, CoreType, StateRecord, BOOTSTRAP_TOKEN, Token
<1>1. {u \in ch : c.states[u].kind # "none"} = ch
  BY <1>0 DEF StructInv, Families, ChildOf
<1>2. BootstrapTerminate(c) = d
  BY ZenonT(60), <1>1 DEF BootstrapTerminate
<1>. HIDE DEF t
<1>3. /\ e1 \in CoreType /\ e1.cm = c.cm /\ e1.token_counter = c.token_counter
      /\ e1.states = [u \in Token |-> IF u \in ch THEN NoState ELSE c.states[u]]
  BY <1>0, RemoveStatesIs
<1>. HIDE DEF e1
<1>4. Same(e1, e2)
  BY ZenonT(60), <1>0, <1>3, TimersSame DEF Same
<1>. HIDE DEF e2
<1>5. /\ e3 \in CoreType /\ e3.cm = c.cm /\ e3.token_counter = c.token_counter
      /\ e3.states = [u \in Token |-> IF u = t THEN NoState ELSE e1.states[u]]
  BY <1>0, <1>3, <1>4, RemoveStateIs DEF Same
<1>. HIDE DEF e3
<1>6. Same(e3, d)
  BY ZenonT(60), <1>0, <1>5, TimersSame
<1>. HIDE DEF d
<1>7. d \in CoreType /\ d.cm = c.cm /\ d.token_counter = c.token_counter
      /\ d.states = DropFamily(c.states, t)
  BY <1>3, <1>5, <1>6 DEF Same, DropFamily
<1>8. Inv(d, q)
  BY <1>0, <1>7, DropFamilyOther DEF t
<1>9. Ends(c, d) /\ d.states[t] = NoState
  BY <1>0, <1>7 DEF Ends, DropFamily
<1>. QED  BY <1>2, <1>8, <1>9 DEF t

\* The end of a Bootstrap, with its BootstrapFailed sent before or after.
LEMMA BootstrapFailsInv ==
    ASSUME NEW c, NEW q, Inv(c, q), c.states[BOOTSTRAP_TOKEN].kind = "Bootstrap"
    PROVE  /\ Inv(BootstrapFailed(BootstrapTerminate(c)), q)
           /\ Ends(c, BootstrapFailed(BootstrapTerminate(c)))
           /\ Inv(BootstrapTerminate(BootstrapFailed(c)), q)
           /\ Ends(c, BootstrapTerminate(BootstrapFailed(c)))
<1>. DEFINE e == BootstrapTerminate(c)
            f == BootstrapFailed(c)
<1>1. Inv(e, q) /\ Ends(c, e)
  BY BootstrapTerminateInv
<1>2. Same(c, f)
  BY EventsSame DEF Inv, StructInv
<1>. HIDE DEF e, f
<1>3. Same(e, BootstrapFailed(e))
  BY <1>1, EventsSame DEF Inv, StructInv
<1>4. Inv(f, q) /\ f.states = c.states
  BY <1>2, SameInv DEF Same
<1>5. Inv(BootstrapTerminate(f), q) /\ Ends(f, BootstrapTerminate(f))
  BY <1>4, BootstrapTerminateInv
<1>6. Ends(c, BootstrapTerminate(f))
  BY <1>2, <1>5 DEF Same, Ends
<1>7. Inv(BootstrapFailed(e), q) /\ Ends(c, BootstrapFailed(e))
  BY <1>1, <1>3, SameInv DEF Same, Ends
<1>. QED  BY <1>5, <1>6, <1>7 DEF e, f

\* maybe_terminate
LEMMA BootstrapMaybeTerminateInv ==
    ASSUME NEW c, NEW q, Inv(c, q), c.states[BOOTSTRAP_TOKEN].kind = "Bootstrap"
    PROVE  LET d == BootstrapMaybeTerminate(c) IN Inv(d, q) /\ Ends(c, d)
<1>1. Ends(c, c)
  BY DEF Ends
<1>. QED  BY <1>1, BootstrapFailsInv DEF BootstrapMaybeTerminate

-----------------------------------------------------------------------------
(* begin_bootstrap and start                                               *)

\* The Bootstrap s when it has taken sd_meta and started the TryPeers ch.
WithTries(s, ch) == [s EXCEPT !.children = ch, !.sd_meta = "None"]

\* The rest of it stays.
LEMMA WithTriesIs ==
    ASSUME NEW s \in StateRecord, NEW ch \in SUBSET Token
    PROVE  /\ WithTries(s, ch) \in StateRecord
           /\ WithTries(s, ch).kind = s.kind /\ WithTries(s, ch).their_id = s.their_id
           /\ WithTries(s, ch).parent = s.parent /\ WithTries(s, ch).children = ch
           /\ WithTries(s, ch).sd_meta = "None"
BY ZenonT(60) DEF WithTries, StateRecord

Trying(st, ch) ==
    [u \in Token |-> CASE u = BOOTSTRAP_TOKEN -> WithTries(st[u], ch)
                       [] u \in ch            -> TryPeerState
                       [] OTHER               -> st[u]]

\* The core before maybe_terminate: every registered socket has its TryPeer.
LEMMA TryingInv ==
    ASSUME NEW c, Inv(c, NoPeer), c.states[BOOTSTRAP_TOKEN].kind = "Bootstrap",
           c.states[BOOTSTRAP_TOKEN].children = {},
           NEW n \in Nat, NEW reg \in SUBSET (1 .. n), c.token_counter + n <= MaxToken + 1
    PROVE  LET ch == {c.token_counter + i - 1 : i \in reg}
               d  == GetNewTokens([c EXCEPT !.states = Trying(c.states, ch)], n)
           IN  Preserves(c, d, BOOTSTRAP_TOKEN) /\ d.states[BOOTSTRAP_TOKEN].kind = "Bootstrap"
<1>. DEFINE k  == c.token_counter
            ch == {k + i - 1 : i \in reg}
            st == c.states
            st2 == Trying(st, ch)
            e1 == [c EXCEPT !.states = st2]
            d  == GetNewTokens(e1, n)
            t  == BOOTSTRAP_TOKEN
<1>0. /\ StructInv(c) /\ c \in CoreType /\ st \in [Token -> StateRecord]
      /\ k \in 1 .. MaxToken + 1 /\ Token \subseteq Int /\ k \in Int /\ t \in Token
  BY BoundAssumption DEF Inv, StructInv, CoreType, Token, BOOTSTRAP_TOKEN
<1>1. ch \in SUBSET Token /\ \A u \in ch : u >= k /\ u < k + n /\ u # BOOTSTRAP_TOKEN
  <2>1. k \in Nat /\ k >= 1 /\ k + n <= MaxToken + 1
    BY <1>0
  <2>2. \A u \in ch : u \in Nat /\ u >= k /\ u < k + n
    BY Zenon, <2>1, NewTokensBetween
  <2>. HIDE DEF ch, k
  <2>. QED  BY <2>1, <2>2, BoundAssumption DEF Token, BOOTSTRAP_TOKEN
<1>2. t \notin ch /\ st[t].parent = NoToken
  BY <1>0, <1>1, Parentless
<1>. HIDE DEF ch
<1>3. "None" \in {"None", "Some"}
  OBVIOUS
<1>4. /\ st2[t] = WithTries(st[t], ch)
      /\ \A u \in ch : st2[u] = TryPeerState
      /\ \A u \in Token \ (ch \cup {t}) : st2[u] = st[u]
  BY <1>0, <1>1, <1>2 DEF Trying
<1>5. st2[t].children = ch /\ st2[t].their_id = st[t].their_id
  <2>1. st[t] \in StateRecord
    BY Zenon, <1>0
  <2>2. WithTries(st[t], ch).children = ch /\ WithTries(st[t], ch).their_id = st[t].their_id
    BY Zenon, <1>1, <2>1, WithTriesIs
  <2>. HIDE DEF st2
  <2>. QED  BY Zenon, <1>4, <2>2
<1>6. st2[t].kind = "Bootstrap" /\ st2[t].parent = NoToken /\ st2[t].sd_meta = "None"
  <2>1. st[t] \in StateRecord
    BY Zenon, <1>0
  <2>2. /\ WithTries(st[t], ch).kind = st[t].kind /\ WithTries(st[t], ch).parent = st[t].parent
        /\ WithTries(st[t], ch).sd_meta = "None"
    BY Zenon, <1>1, <2>1, WithTriesIs
  <2>. HIDE DEF st2
  <2>. QED  BY Zenon, <1>2, <1>4, <2>2
<1>7. \A u \in ch : /\ st2[u].kind = "TryPeer" /\ st2[u].children = {} /\ st2[u].parent = t
  BY <1>3, <1>4, BootstrapStatesAre
<1>8. st2 \in [Token -> StateRecord]
  BY <1>0, <1>1, <1>3, WithTriesIs, BootstrapStatesAre DEF Trying
<1>. HIDE DEF st2
<1>9. e1 \in CoreType /\ e1.states = st2 /\ e1.cm = c.cm /\ e1.token_counter = k
  BY <1>0, <1>8 DEF CoreType
<1>. HIDE DEF e1
<1>10. d \in CoreType /\ d.states = st2 /\ d.cm = c.cm /\ d.token_counter = k + n
  BY <1>9, NewTokensIs
<1>. HIDE DEF d
<1>11. Spawns(c, d, t, ch)
  <2>1. ShapeOf(d.states[t], t, d.token_counter)
    <3>1. t = 0 /\ d.token_counter >= 1
      BY <1>0, <1>10 DEF BOOTSTRAP_TOKEN
    <3>. QED  BY <1>0, <1>6, <1>10, <3>1 DEF ShapeOf, WithPeer
  <2>2. ASSUME NEW u \in ch
        PROVE  ShapeOf(d.states[u], u, d.token_counter) /\ ChildOf(d.states, u, t)
    <3>1. u \in Int /\ u < k + n /\ u # BOOTSTRAP_TOKEN /\ t # NoToken
      BY <1>0, <1>1 DEF NoToken, Token
    <3>2. ShapeOf(d.states[u], u, d.token_counter)
      BY <1>0, <1>7, <1>10, <3>1 DEF ShapeOf, WithPeer
    <3>3. ChildOf(d.states, u, t)
      BY <1>6, <1>7, <1>10 DEF ChildOf
    <3>. QED  BY <3>2, <3>3
  <2>3. \A r \in Peer : EntryOK(d.cm[r]) /\ SameActive(c.cm[r], d.cm[r])
    BY <1>0, <1>10 DEF SameActive, StructInv, MapOK
  <2>4. d.token_counter >= c.token_counter
    BY <1>0, <1>10
  <2>. QED  BY <1>0, <1>1, <1>2, <1>4, <1>5, <1>6, <1>7, <1>10, <2>1, <2>2, <2>3, <2>4 DEF Spawns
<1>12. Inv(d, NoPeer)
  <2>1. \A u \in ch \cup {t} : /\ d.states[u].kind # "ActiveConnection"
                               /\ \A r \in Peer : ~Counted(d.states[u], r)
    BY <1>6, <1>7, <1>10 DEF Counted
  <2>2. \A r \in Peer : ~Counted(c.states[t], r)
    BY DEF Counted
  <2>. QED  BY <1>10, <1>11, <2>1, <2>2, SpawnOther
<1>13. Forward(c.states, d.states, t, c.token_counter)
  BY <1>0, <1>11, SpawnForward
<1>. QED  BY <1>0, <1>6, <1>10, <1>12, <1>13 DEF Preserves, d, e1, st2, ch, t

\* begin_bootstrap
LEMMA BeginBootstrapInv ==
    ASSUME NEW c, Inv(c, NoPeer), c.states[BOOTSTRAP_TOKEN].kind = "Bootstrap",
           c.states[BOOTSTRAP_TOKEN].children = {}, NEW contacts \in BOOLEAN,
           NEW n \in Nat, NEW reg \in SUBSET (1 .. n), c.token_counter + n <= MaxToken + 1
    PROVE  Preserves(c, BeginBootstrap(c, contacts, n, reg), BOOTSTRAP_TOKEN)
<1>. DEFINE ch == {c.token_counter + i - 1 : i \in reg}
            e  == GetNewTokens([c EXCEPT !.states = Trying(c.states, ch)], n)
<1>1. CASE ~contacts
  BY ZenonT(60), <1>1, BootstrapFailsInv, EndsForward DEF BeginBootstrap
<1>2. CASE contacts
  <2>1. Preserves(c, e, BOOTSTRAP_TOKEN) /\ e.states[BOOTSTRAP_TOKEN].kind = "Bootstrap"
    BY ZenonT(60), TryingInv
  <2>2. BeginBootstrap(c, contacts, n, reg) = BootstrapMaybeTerminate(e)
    <3>1. c.states \in [Token -> StateRecord]
      BY DEF Inv, StructInv, CoreType
    <3>. QED  BY <1>2, <3>1 DEF BeginBootstrap, Trying, WithTries
  <2>. HIDE DEF e
  <2>3. LET d == BootstrapMaybeTerminate(e) IN Inv(d, NoPeer) /\ Ends(e, d)
    BY <2>1, BootstrapMaybeTerminateInv DEF Preserves
  <2>4. Forward(e.states, BootstrapMaybeTerminate(e).states, BOOTSTRAP_TOKEN, c.token_counter)
    BY <2>3 DEF Ends, Forward, NoState
  <2>5. Forward(c.states, BootstrapMaybeTerminate(e).states, BOOTSTRAP_TOKEN, c.token_counter)
    BY <2>1, <2>4, ForwardTransitive DEF Preserves
  <2>. QED  BY <2>1, <2>2, <2>3, <2>5 DEF Preserves, Ends
<1>. QED  BY <1>1, <1>2

\* Bootstrap::start
LEMMA BootstrapStartInv ==
    ASSUME NEW c, Inv(c, NoPeer), c.states[BOOTSTRAP_TOKEN].kind = "none",
           NEW seek \in SeekOutcome, NEW contacts \in BOOLEAN,
           NEW n \in Nat, NEW reg \in SUBSET (1 .. n), c.token_counter + n <= MaxToken + 1
    PROVE  Preserves(c, BootstrapStart(c, seek, contacts, n, reg), BOOTSTRAP_TOKEN)
<1>. DEFINE t == BOOTSTRAP_TOKEN
            m == IF seek = "seeking" THEN "Some" ELSE "None"
            s == BootstrapState(m)
            e == [c EXCEPT !.user.owed = @ + 1]
            f == SetTimeout(e, t, 0)
            g == InsertState(f, t, s)
            d == BootstrapStart(c, seek, contacts, n, reg)
<1>0. /\ StructInv(c) /\ c \in CoreType /\ c.states \in [Token -> StateRecord]
      /\ c.token_counter \in 1 .. MaxToken + 1 /\ t \in Token /\ c.states[t] = NoState
  <2>1. /\ StructInv(c) /\ c \in CoreType /\ c.states \in [Token -> StateRecord]
        /\ c.token_counter \in 1 .. MaxToken + 1
    BY Zenon DEF Inv, StructInv, CoreType
  <2>2. t \in Token
    BY BoundAssumption DEF Token, BOOTSTRAP_TOKEN
  <2>. QED  BY Zenon, <2>1, <2>2 DEF StructInv, Shape, ShapeOf
<1>1. Same(c, e)
  <2>1. e \in CoreType
    BY SMTT(30), <1>0 DEF CoreType, UserView
  <2>. QED  BY <1>0, <2>1 DEF Same, CoreType
<1>2. d = CASE seek = "no_cache" -> BootstrapFailed(e)
            [] seek = "error"    -> BootstrapFailed(LeakTimeout(e, t, 0))
            [] seek = "seeking"  -> SetTimeout(g, t, 1)
            [] OTHER             -> BeginBootstrap(g, contacts, n, reg)
  BY DEF BootstrapStart
<1>. HIDE DEF d, e, t
<1>3. Same(c, f) /\ Same(c, LeakTimeout(e, t, 0))
  BY ZenonT(60), <1>0, <1>1, TimersSame DEF Same
<1>4. Same(c, BootstrapFailed(e)) /\ Same(c, BootstrapFailed(LeakTimeout(e, t, 0)))
  BY ZenonT(60), <1>1, <1>3, EventsSame DEF Same
<1>. HIDE DEF f
<1>5. /\ s \in StateRecord /\ s.kind = "Bootstrap" /\ s.children = {} /\ s.parent = NoToken
  BY BootstrapStatesAre
<1>. HIDE DEF s
<1>6. /\ g \in CoreType /\ g.cm = c.cm /\ g.token_counter = c.token_counter
      /\ g.states = [u \in Token |-> IF u = t THEN s ELSE c.states[u]]
  BY <1>0, <1>3, <1>5, InsertStateIs DEF Same
<1>. HIDE DEF g
<1>7. g.states[t] = s /\ \A u \in Token \ {t} : g.states[u] = c.states[u]
  BY <1>0, <1>6
<1>n. /\ NoState.kind = "none" /\ NoState.children = {} /\ NoState.parent = NoToken
  BY DEF NoState
<1>8. Spawns(c, g, t, {})
  <2>1. ShapeOf(g.states[t], t, g.token_counter)
    <3>1. t = BOOTSTRAP_TOKEN /\ t \in Int /\ g.token_counter \in Int /\ ~(t >= g.token_counter)
      BY <1>0, <1>6 DEF BOOTSTRAP_TOKEN, t
    <3>. QED  BY <1>5, <1>7, <3>1 DEF ShapeOf, WithPeer
  <2>2. \A r \in Peer : EntryOK(g.cm[r]) /\ SameActive(c.cm[r], g.cm[r])
    BY <1>0, <1>6 DEF SameActive, StructInv, MapOK
  <2>3. g.token_counter >= c.token_counter
    BY <1>0, <1>6
  <2>. QED  BY <1>0, <1>5, <1>6, <1>7, <1>n, <2>1, <2>2, <2>3 DEF Spawns, t
<1>9. Preserves(c, g, t)
  <2>1. Inv(g, NoPeer)
    BY <1>0, <1>5, <1>6, <1>7, <1>8, <1>n, SpawnOther DEF Counted
  <2>2. Forward(c.states, g.states, t, c.token_counter)
    BY ZenonT(60), <1>0, <1>8, SpawnForward
  <2>. QED  BY <1>0, <1>6, <2>1, <2>2 DEF Preserves
<1>10. ASSUME NEW x, Same(c, x)  PROVE Preserves(c, x, t)
  <2>1. Inv(x, NoPeer)
    BY <1>10, SameInv
  <2>. QED  BY <1>0, <1>10, <2>1 DEF Preserves, Same, Forward
<1>11. CASE seek = "no_cache"
  <2>1. d = BootstrapFailed(e)
    BY <1>2, <1>11
  <2>. QED  BY <1>4, <1>10, <2>1 DEF d, t
<1>12. CASE seek = "error"
  <2>1. d = BootstrapFailed(LeakTimeout(e, t, 0))
    BY <1>2, <1>12
  <2>. QED  BY <1>4, <1>10, <2>1 DEF d, t
<1>13. CASE seek = "seeking"
  <2>1. d = SetTimeout(g, t, 1)
    BY <1>2, <1>13
  <2>2. Same(g, d)
    BY ZenonT(60), <1>0, <1>6, <2>1, TimersSame
  <2>3. Inv(d, NoPeer)
    BY <1>9, <2>2, SameInv DEF Preserves
  <2>. QED  BY <1>9, <2>2, <2>3 DEF Preserves, Same, d, t
<1>14. CASE seek = "disabled"
  <2>1. d = BeginBootstrap(g, contacts, n, reg)
    BY <1>2, <1>14
  <2>2. Preserves(g, d, t)
    <3>1. Inv(g, NoPeer) /\ g.states[t].kind = "Bootstrap" /\ g.states[t].children = {}
      BY <1>5, <1>7, <1>9 DEF Preserves
    <3>. QED  BY ZenonT(60), <1>6, <2>1, <3>1, BeginBootstrapInv DEF t
  <2>3. Forward(c.states, d.states, t, c.token_counter)
    BY <1>6, <1>9, <2>2, ForwardTransitive DEF Preserves
  <2>. QED  BY <1>6, <2>2, <2>3 DEF Preserves, d, t
<1>. QED  BY <1>11, <1>12, <1>13, <1>14 DEF SeekOutcome

\* timeout of either timer
LEMMA BootstrapTimeoutInv ==
    ASSUME NEW c, Inv(c, NoPeer), c.states[BOOTSTRAP_TOKEN].kind = "Bootstrap",
           NEW id \in {0, 1}, id = 0 \/ c.states[BOOTSTRAP_TOKEN].sd_meta = "Some",
           NEW contacts \in BOOLEAN,
           NEW n \in Nat, NEW reg \in SUBSET (1 .. n), c.token_counter + n <= MaxToken + 1
    PROVE  Preserves(c, BootstrapTimeout(c, id, contacts, n, reg), BOOTSTRAP_TOKEN)
<1>1. CASE id = 0
  BY <1>1, BootstrapFailsInv, EndsForward DEF BootstrapTimeout
<1>2. CASE id # 0
  <2>1. BOOTSTRAP_TOKEN \in Token
    BY BoundAssumption DEF BOOTSTRAP_TOKEN, Token
  <2>2. ShapeOf(c.states[BOOTSTRAP_TOKEN], BOOTSTRAP_TOKEN, c.token_counter)
    BY <2>1 DEF Inv, StructInv, Shape
  <2>3. c.states[BOOTSTRAP_TOKEN].children = {}
    BY <1>2, <2>2 DEF ShapeOf
  <2>. QED  BY <1>2, <2>3, BeginBootstrapInv DEF BootstrapTimeout
<1>. QED  BY <1>1, <1>2

-----------------------------------------------------------------------------
(* handle_result                                                           *)

\* A TryPeer is done and its Bootstrap forgets it.
LEMMA TryPeerReleased ==
    ASSUME NEW c, Inv(c, NoPeer), NEW t \in Token, c.states[t].kind = "TryPeer"
    PROVE  LET r == RemoveState(c, t)
               e == RemoveChild(r, BOOTSTRAP_TOKEN, t)
           IN  /\ Live(c, BOOTSTRAP_TOKEN, "Bootstrap")
               /\ Inv(e, NoPeer) /\ e.cm = c.cm /\ e.token_counter = c.token_counter
               /\ e.states[t] = NoState /\ e.states[BOOTSTRAP_TOKEN].kind = "Bootstrap"
               /\ Forward(c.states, e.states, t, c.token_counter)
               /\ t # BOOTSTRAP_TOKEN /\ t < c.token_counter
<1>. DEFINE pr == BOOTSTRAP_TOKEN
            e  == RemoveChild(RemoveState(c, t), pr, t)
<1>0. /\ StructInv(c) /\ c \in CoreType /\ c.states \in [Token -> StateRecord]
      /\ c.token_counter \in Int /\ t \in Int /\ pr \in Token
  BY BoundAssumption DEF Inv, StructInv, CoreType, Token, BOOTSTRAP_TOKEN
<1>1. c.states[t].parent = pr /\ c.states[pr].kind = "Bootstrap" /\ pr # t /\ t < c.token_counter
  <2>1. \A u \in Token : ShapeOf(c.states[u], u, c.token_counter)
    BY <1>0 DEF StructInv, Shape
  <2>2. c.states[t].parent # NoToken /\ c.states[t].parent \in Token \cup {NoToken}
    BY <1>0, <2>1 DEF ShapeOf, StateRecord
  <2>3. ChildOf(c.states, t, c.states[t].parent)
    BY ZenonT(60), <1>0, <2>2 DEF StructInv, Families
  <2>4. c.states[c.states[t].parent].kind = "Bootstrap"
    BY <2>3 DEF ChildOf
  <2>5. c.states[t].parent = pr
    BY <2>1, <2>2, <2>4 DEF ShapeOf
  <2>6. ShapeOf(c.states[t], t, c.token_counter)
    BY <2>1
  <2>7. ~(t >= c.token_counter)
    BY <2>6 DEF ShapeOf
  <2>. QED  BY <1>0, <2>4, <2>5, <2>7
<1>2. /\ e \in CoreType /\ e.states = Detach(c.states, t) /\ e.cm = c.cm
      /\ e.token_counter = c.token_counter
  BY <1>0, <1>1, RemoveAndForget
<1>. HIDE DEF e, pr
<1>3. Inv(e, NoPeer)
  <2>1. c.states[t].children = {} /\ \A q \in Peer : ~Counted(c.states[t], q)
    BY <1>0, Childless DEF Counted
  <2>. QED  BY <1>2, <2>1, DetachOther
<1>4. e.states[t] = NoState /\ e.states[pr].kind = "Bootstrap"
  BY <1>0, <1>1, <1>2, DetachIs DEF SameButChildren
<1>5. Forward(c.states, e.states, t, c.token_counter)
  BY <1>0, <1>2, DetachForward
<1>. QED  BY <1>0, <1>1, <1>2, <1>3, <1>4, <1>5 DEF Live, e, pr

\* TryPeer::handle_error, and handle_result of an error
LEMMA TryPeerErrorInv ==
    ASSUME NEW c, Inv(c, NoPeer), NEW t \in Token, c.states[t].kind = "TryPeer",
           NEW deny \in {"none", "fatal", "whitelist"}
    PROVE  LET d == TryPeerError(c, t, deny) IN
           Preserves(c, d, t) /\ d.states[t].kind = "none"
<1>. DEFINE e == RemoveChild(RemoveState(c, t), BOOTSTRAP_TOKEN, t)
            d == TryPeerError(c, t, deny)
<1>1. /\ Live(c, BOOTSTRAP_TOKEN, "Bootstrap")
      /\ Inv(e, NoPeer) /\ e.cm = c.cm /\ e.token_counter = c.token_counter
      /\ e.states[t] = NoState /\ e.states[BOOTSTRAP_TOKEN].kind = "Bootstrap"
      /\ Forward(c.states, e.states, t, c.token_counter)
      /\ t # BOOTSTRAP_TOKEN /\ t < c.token_counter
  BY TryPeerReleased
<1>2. d \in {BootstrapFailed(BootstrapTerminate(e)), BootstrapMaybeTerminate(e)}
  BY <1>1 DEF TryPeerError, HandleResultError
<1>. HIDE DEF e, d
<1>3. Inv(d, NoPeer) /\ Ends(e, d)
  BY <1>1, <1>2, BootstrapFailsInv, BootstrapMaybeTerminateInv
<1>n. NoState.kind = "none"
  BY DEF NoState
<1>4. Preserves(e, d, t) /\ d.states[t].kind = "none"
  BY <1>1, <1>3, <1>n, EndsForward DEF Ends
<1>5. Forward(c.states, d.states, t, c.token_counter)
  BY <1>1, <1>4, ForwardTransitive DEF Preserves
<1>. QED  BY <1>1, <1>4, <1>5 DEF Preserves, d

\* handle_result of a grant: the Bootstrap ends and the socket of the TryPeer
\* becomes an ActiveConnection.
LEMMA TryPeerGrantedInv ==
    ASSUME NEW c, Inv(c, NoPeer), NEW t \in Token, c.states[t].kind = "TryPeer",
           NEW p \in Peer, NEW outcome \in Outcomes,
           "known_bootstrap" \in Admitted \/ ~c.cm[p].occupied
    PROVE  LET d == TryPeerGranted(c, t, p, outcome) IN
           Preserves(c, d, t) /\ d.states[t].kind \in {"none", "ActiveConnection"}
<1>. DEFINE e == RemoveChild(RemoveState(c, t), BOOTSTRAP_TOKEN, t)
            f == BootstrapTerminate(e)
<1>1. /\ Live(c, BOOTSTRAP_TOKEN, "Bootstrap")
      /\ Inv(e, NoPeer) /\ e.cm = c.cm /\ e.token_counter = c.token_counter
      /\ e.states[t] = NoState /\ e.states[BOOTSTRAP_TOKEN].kind = "Bootstrap"
      /\ Forward(c.states, e.states, t, c.token_counter)
      /\ t # BOOTSTRAP_TOKEN /\ t < c.token_counter
  BY TryPeerReleased
<1>2. TryPeerGranted(c, t, p, outcome) = ActiveStart(f, t, p, "BootstrapConnect", outcome)
  BY <1>1 DEF TryPeerGranted, HandleResultOk
<1>. HIDE DEF e
<1>3. Inv(f, NoPeer) /\ Ends(e, f)
  BY <1>1, BootstrapTerminateInv
<1>. HIDE DEF f
<1>4. f.states[t] = NoState /\ f.cm = c.cm /\ f.token_counter = c.token_counter
  BY <1>1, <1>3 DEF Ends
<1>5. Forward(c.states, f.states, t, c.token_counter)
  <2>1. Forward(e.states, f.states, t, c.token_counter)
    BY <1>3 DEF Ends, Forward, NoState
  <2>. QED  BY <1>1, <2>1, ForwardTransitive
<1>6. Exact => ~f.cm[p].occupied
  BY <1>4 DEF Exact
<1>7. Exact => ~IsActive(f.cm, p)
  <2>1. EntryOK(f.cm[p])
    BY <1>3 DEF Inv, StructInv, MapOK
  <2>2. Vacant.active_connection = NoToken
    BY DEF Vacant
  <2>. QED  BY <1>6, <2>1, <2>2 DEF EntryOK, IsActive
<1>. QED  BY <1>1, <1>2, <1>3, <1>4, <1>5, <1>6, <1>7, ActiveStartPreserves

-----------------------------------------------------------------------------
(* The actions of Bootstrap and TryPeer are steps.                         *)

\* The sockets that can be registered are among those that are opened.
LEMMA RegistrationsAre ==
    ASSUME NEW n \in Nat, NEW reg \in Registrations(n)
    PROVE  reg \in SUBSET (1 .. n)
BY DEF Registrations

\* What begin_bootstrap finds respects the bounds.
LEMMA ContactsAre ==
    ASSUME Inv(core, NoPeer), NEW k \in Contacts
    PROVE  /\ k.found \in BOOLEAN /\ k.n \in Nat /\ k.reg \in SUBSET (1 .. k.n)
           /\ core.token_counter + k.n <= MaxToken + 1
<1>0. core.token_counter \in 1 .. MaxToken + 1
  BY DEF Inv, StructInv, CoreType
<1>1. CASE k = [found |-> FALSE, n |-> 0, reg |-> {}]
  BY <1>0, <1>1, BoundAssumption
<1>2. CASE k # [found |-> FALSE, n |-> 0, reg |-> {}]
  <2>1. PICK n \in {j \in 0 .. MaxSockets : CanTake(j)} :
          k \in {[found |-> TRUE, n |-> n, reg |-> reg] : reg \in Registrations(n)}
    BY <1>2 DEF Contacts
  <2>2. PICK reg \in Registrations(n) : k = [found |-> TRUE, n |-> n, reg |-> reg]
    BY <2>1
  <2>3. n \in Nat /\ core.token_counter + n <= MaxToken + 1
    BY <2>1, NodeAssumption DEF CanTake
  <2>4. reg \in SUBSET (1 .. n)
    BY <2>3, RegistrationsAre
  <2>. QED  BY <2>2, <2>3, <2>4
<1>. QED  BY <1>1, <1>2

\* A posted start_bootstrap or stop_bootstrap runs.
LEMMA RunBootstrapStep ==
    ASSUME IInv, RunStartBootstrap \/ RunStopBootstrap
    PROVE  Step(core, core')
<1>1. Inv(core, NoPeer) /\ core \in CoreType /\ BOOTSTRAP_TOKEN \in Token
  BY BoundAssumption DEF IInv, Inv, StructInv, BOOTSTRAP_TOKEN, Token
<1>2. Step(core, core)
  BY <1>1, SameStep DEF Same
<1>3. core.states[BOOTSTRAP_TOKEN].kind \in {"none", "Bootstrap"}
  BY ZenonT(60), <1>1 DEF Inv, StructInv, Shape, ShapeOf
<1>4. CASE RunStartBootstrap /\ core.states[BOOTSTRAP_TOKEN].kind = "none"
  <2>1. PICK seek \in SeekOutcomes, k \in Contacts :
          core' = BootstrapStart(core, seek, k.found, k.n, k.reg)
    BY <1>4 DEF RunStartBootstrap
  <2>2. seek \in SeekOutcome
    BY DEF SeekOutcomes
  <2>3. /\ k.found \in BOOLEAN /\ k.n \in Nat /\ k.reg \in SUBSET (1 .. k.n)
        /\ core.token_counter + k.n <= MaxToken + 1
    BY <1>1, ContactsAre
  <2>4. Preserves(core, core', BOOTSTRAP_TOKEN)
    BY <1>1, <1>4, <2>1, <2>2, <2>3, BootstrapStartInv
  <2>. QED  BY <1>1, <2>4, PreservesStep
<1>5. CASE RunStartBootstrap /\ core.states[BOOTSTRAP_TOKEN].kind # "none"
  BY <1>2, <1>5 DEF RunStartBootstrap
<1>6. CASE RunStopBootstrap
  <2>1. core' = IF core.states[BOOTSTRAP_TOKEN].kind = "none" THEN core
                ELSE BootstrapFailed(BootstrapTerminate(core))
    BY <1>6 DEF RunStopBootstrap, BootstrapFailed
  <2>2. CASE core.states[BOOTSTRAP_TOKEN].kind = "Bootstrap"
    <3>1. Preserves(core, core', BOOTSTRAP_TOKEN)
      BY <1>1, <2>1, <2>2, BootstrapFailsInv, EndsForward
    <3>. QED  BY <1>1, <3>1, PreservesStep
  <2>. QED  BY <1>2, <1>3, <2>1, <2>2
<1>. QED  BY <1>4, <1>5, <1>6

\* A TryPeer is handed an event.
LEMMA TryPeerReadyStep ==
    ASSUME IInv, NEW t \in Token, TryPeerReady(t)
    PROVE  Step(core, core')
<1>0. Inv(core, NoPeer) /\ core.states[t].kind = "TryPeer"
  BY DEF IInv, TryPeerReady, Live
<1>1. Preserves(core, core', t) /\ core'.states[t].kind \in {"none", "ActiveConnection"}
  BY <1>0, TryPeerErrorInv, TryPeerGrantedInv DEF TryPeerReady
<1>2. Moves(core.states[t], core'.states[t])
  <2>1. "TryPeer" \in StateKind
    BY DEF StateKind
  <2>. QED  BY <1>0, <1>1, <2>1, Stages DEF Moves
<1>. QED  BY <1>0, <1>1, <1>2, PreservesStep

=============================================================================
