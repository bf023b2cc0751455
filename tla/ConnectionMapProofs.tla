------------------------ MODULE ConnectionMapProofs ------------------------
(***************************************************************************)
(* What each critical section on the ConnectionMap does to the entry of    *)
(* its peer, for every number of tokens and every width of usize.          *)
(***************************************************************************)
EXTENDS ConnectionMap, TLAPS

\* A peer without an entry has no count and no active connection.
EntryOK(e) == ~e.occupied => e = Vacant

\* An entry is there for a reason.
EntryUsed(e) == e.occupied => e.currently_handshaking > 0 \/ e.active_connection # NoToken

\* e2 differs from e in the count and in being occupied only.
SameActive(e, e2) == e2.active_connection = e.active_connection

-----------------------------------------------------------------------------

\* usize arithmetic stays within usize, and is exact within its range.
LEMMA WrapRange ==
    /\ \A n \in Int : Wrap(n) \in 0 .. UsizeMax
    /\ \A n \in 0 .. UsizeMax : Wrap(n) = n
    /\ \A n \in -UsizeMax .. -1 : Wrap(n) = n + UsizeMax + 1
BY BoundAssumption DEF Wrap

\* The empty entry is a ConnectionId.
LEMMA VacantType == Vacant \in ConnectionId
BY BoundAssumption DEF Vacant, ConnectionId, NoToken, Token

\* enter_handshaking_mode and ExchangeMsg::start: k handshakes with p begin.
LEMMA EnterManyEffect ==
    ASSUME NEW cm \in ConnectionMapType, NEW p \in Peer, NEW k \in Nat, EntryOK(cm[p])
    PROVE  LET cm2 == EnterMany(cm, p, k) IN
           /\ cm2 \in ConnectionMapType
           /\ \A r \in Peer \ {p} : cm2[r] = cm[r]
           /\ SameActive(cm[p], cm2[p])
           /\ EntryOK(cm2[p])
           /\ cm[p].currently_handshaking + k <= UsizeMax =>
                 /\ cm2[p].currently_handshaking = cm[p].currently_handshaking + k
                 /\ EntryUsed(cm[p]) => EntryUsed(cm2[p])
<1>. DEFINE n == Wrap(cm[p].currently_handshaking + k)
<1>1. n \in 0 .. UsizeMax
  BY WrapRange, BoundAssumption DEF ConnectionMapType, ConnectionId
<1>2. cm[p].currently_handshaking + k <= UsizeMax => n = cm[p].currently_handshaking + k
  BY WrapRange, BoundAssumption DEF ConnectionMapType, ConnectionId
<1>3. CASE k = 0
  BY <1>3 DEF EnterMany, SameActive, ConnectionMapType, ConnectionId
<1>4. CASE k # 0
  <2>. DEFINE e == [ occupied |-> TRUE,
                     active_connection |-> cm[p].active_connection,
                     currently_handshaking |-> n ]
  <2>1. e \in ConnectionId
    BY <1>1 DEF ConnectionMapType, ConnectionId
  <2>2. EnterMany(cm, p, k) = [cm EXCEPT ![p] = e]
    BY <1>4 DEF EnterMany
  <2>. HIDE DEF n
  <2>. QED  BY <1>2, <1>4, <2>1, <2>2 DEF SameActive, EntryOK, EntryUsed, ConnectionMapType, ConnectionId
<1>. QED  BY <1>3, <1>4

\* A single Leave is LeaveMany of one.
LEMMA LeaveIsLeaveMany ==
    ASSUME NEW cm \in ConnectionMapType, NEW p \in Peer
    PROVE  Leave(cm, p) = LeaveMany(cm, p, 1)
<1>1. CASE cm[p].currently_handshaking = 0
  <2>1. Wrap(-1) = UsizeMax  BY BoundAssumption DEF Wrap
  <2>. QED  BY <1>1, <2>1, BoundAssumption DEF Leave, LeaveMany
<1>2. CASE cm[p].currently_handshaking # 0
  <2>1. Wrap(cm[p].currently_handshaking - 1) = cm[p].currently_handshaking - 1
    BY <1>2, WrapRange, BoundAssumption DEF ConnectionMapType, ConnectionId
  <2>. QED  BY <1>2, <2>1 DEF Leave, LeaveMany, ConnectionMapType, ConnectionId
<1>. QED  BY <1>1, <1>2

\* terminate of k handshakes with p.
LEMMA LeaveManyEffect ==
    ASSUME NEW cm \in ConnectionMapType, NEW p \in Peer, NEW k \in Nat, EntryOK(cm[p])
    PROVE  LET cm2 == LeaveMany(cm, p, k) IN
           /\ cm2 \in ConnectionMapType
           /\ \A r \in Peer \ {p} : cm2[r] = cm[r]
           /\ SameActive(cm[p], cm2[p])
           /\ EntryOK(cm2[p])
           /\ k <= cm[p].currently_handshaking =>
                 /\ cm2[p].currently_handshaking = cm[p].currently_handshaking - k
                 /\ EntryUsed(cm[p]) => EntryUsed(cm2[p])
<1>. DEFINE n == Wrap(cm[p].currently_handshaking - k)
<1>1. n \in 0 .. UsizeMax
  BY WrapRange, BoundAssumption DEF ConnectionMapType, ConnectionId
<1>2. k <= cm[p].currently_handshaking => n = cm[p].currently_handshaking - k
  BY WrapRange, BoundAssumption DEF ConnectionMapType, ConnectionId
<1>3. CASE k = 0 \/ ~cm[p].occupied
  <2>1. LeaveMany(cm, p, k) = cm
    BY <1>3 DEF LeaveMany
  <2>2. ~cm[p].occupied => cm[p].currently_handshaking = 0
    BY DEF EntryOK, Vacant
  <2>. QED  BY <1>3, <2>1, <2>2 DEF SameActive, ConnectionMapType, ConnectionId
<1>4. CASE k # 0 /\ cm[p].occupied /\ ~IsActive(cm, p) /\ cm[p].currently_handshaking \in 1 .. k
  <2>1. LeaveMany(cm, p, k) = [cm EXCEPT ![p] = Vacant]
    BY <1>4 DEF LeaveMany
  <2>. QED  BY <1>4, <2>1, VacantType
            DEF SameActive, EntryOK, EntryUsed, Vacant, IsActive, ConnectionMapType, ConnectionId
<1>5. CASE k # 0 /\ cm[p].occupied /\ ~(~IsActive(cm, p) /\ cm[p].currently_handshaking \in 1 .. k)
  <2>1. LeaveMany(cm, p, k) = [cm EXCEPT ![p].currently_handshaking = n]
    BY <1>5 DEF LeaveMany
  <2>. HIDE DEF n
  <2>. QED  BY <1>1, <1>2, <1>5, <2>1
            DEF SameActive, EntryOK, EntryUsed, IsActive, ConnectionMapType, ConnectionId
<1>. QED  BY <1>3, <1>4, <1>5

\* ActiveConnection::start: the connection t to p becomes the active one.
LEMMA ActivateEffect ==
    ASSUME NEW cm \in ConnectionMapType, NEW p \in Peer, NEW t \in Token, EntryOK(cm[p])
    PROVE  LET cm2 == Activate(cm, p, t) IN
           /\ cm2 \in ConnectionMapType
           /\ \A r \in Peer \ {p} : cm2[r] = cm[r]
           /\ cm2[p].active_connection = t
           /\ EntryOK(cm2[p])
           /\ EntryUsed(cm2[p])
           /\ cm[p].currently_handshaking > 0 =>
                 cm2[p].currently_handshaking = cm[p].currently_handshaking - 1
           /\ ~cm[p].occupied => cm2[p].currently_handshaking = 0
<1>. DEFINE n == Wrap((IF cm[p].occupied THEN cm[p].currently_handshaking ELSE 1) - 1)
            e == [ occupied |-> TRUE, active_connection |-> t, currently_handshaking |-> n ]
<1>1. n \in 0 .. UsizeMax
  BY WrapRange, BoundAssumption DEF ConnectionMapType, ConnectionId
<1>2. cm[p].currently_handshaking > 0 => n = cm[p].currently_handshaking - 1
  BY WrapRange, BoundAssumption DEF ConnectionMapType, ConnectionId, EntryOK, Vacant
<1>3. ~cm[p].occupied => n = 0
  BY WrapRange, BoundAssumption
<1>4. e \in ConnectionId
  BY <1>1 DEF ConnectionId
<1>5. Activate(cm, p, t) = [cm EXCEPT ![p] = e]
  BY DEF Activate
<1>6. t # NoToken
  BY DEF Token, NoToken
<1>. HIDE DEF n
<1>. QED  BY <1>1, <1>2, <1>3, <1>4, <1>5, <1>6 DEF EntryOK, EntryUsed, ConnectionMapType, ConnectionId

\* ActiveConnection::terminate
LEMMA DeactivateEffect ==
    ASSUME NEW cm \in ConnectionMapType, NEW p \in Peer, EntryOK(cm[p])
    PROVE  LET cm2 == Deactivate(cm, p) IN
           /\ cm2 \in ConnectionMapType
           /\ \A r \in Peer \ {p} : cm2[r] = cm[r]
           /\ cm2[p].active_connection = NoToken
           /\ EntryOK(cm2[p])
           /\ EntryUsed(cm2[p])
           /\ cm2[p].currently_handshaking = cm[p].currently_handshaking
<1>1. CASE ~cm[p].occupied
  BY <1>1 DEF Deactivate, EntryOK, EntryUsed, Vacant, ConnectionMapType
<1>2. CASE cm[p].occupied /\ cm[p].currently_handshaking = 0
  <2>1. Deactivate(cm, p) = [cm EXCEPT ![p] = Vacant]
    BY <1>2 DEF Deactivate
  <2>. QED  BY <1>2, <2>1, VacantType DEF EntryOK, EntryUsed, Vacant, ConnectionMapType
<1>3. CASE cm[p].occupied /\ cm[p].currently_handshaking # 0
  <2>1. Deactivate(cm, p) = [cm EXCEPT ![p].active_connection = NoToken]
    BY <1>3 DEF Deactivate
  <2>. QED  BY <1>3, <2>1 DEF EntryOK, EntryUsed, ConnectionMapType, ConnectionId
<1>. QED  BY <1>1, <1>2, <1>3

-----------------------------------------------------------------------------

\* LeaveMany, which stands for the loop of Connect::terminate_children, is
\* Leave once for every child: it is the identity for no child, and one more
\* child is one more Leave.
THEOREM LeaveManyIterates ==
    ASSUME NEW cm \in ConnectionMapType, NEW p \in Peer, EntryOK(cm[p]),
           NEW k \in 0 .. UsizeMax - 1
    PROVE  /\ LeaveMany(cm, p, 0) = cm
           /\ LeaveMany(cm, p, k + 1) = Leave(LeaveMany(cm, p, k), p)
<1>. DEFINE h == cm[p].currently_handshaking
            cm2 == LeaveMany(cm, p, k)
<1>1. h \in 0 .. UsizeMax /\ UsizeMax \in Nat /\ k \in Nat
  BY BoundAssumption DEF ConnectionMapType, ConnectionId
<1>2. LeaveMany(cm, p, 0) = cm
  BY DEF LeaveMany
<1>3. cm2 \in ConnectionMapType /\ Leave(cm2, p) = LeaveMany(cm2, p, 1)
  BY <1>1, LeaveManyEffect, LeaveIsLeaveMany
<1>4. CASE k = 0 \/ ~cm[p].occupied
  <2>1. cm2 = cm
    BY <1>4 DEF LeaveMany
  <2>2. CASE k = 0
    BY <1>2, <1>3, <2>1, <2>2
  <2>3. CASE ~cm[p].occupied
    BY <1>2, <1>3, <2>1, <2>3 DEF LeaveMany
  <2>. QED  BY <1>4, <2>2, <2>3
<1>5. CASE k # 0 /\ cm[p].occupied /\ ~IsActive(cm, p) /\ h \in 1 .. k
  BY <1>1, <1>3, <1>5 DEF LeaveMany, Vacant, ConnectionMapType
<1>6. CASE k # 0 /\ cm[p].occupied /\ ~(~IsActive(cm, p) /\ h \in 1 .. k)
  <2>1. cm2 = [cm EXCEPT ![p].currently_handshaking = Wrap(h - k)]
    BY <1>6 DEF LeaveMany
  <2>2. /\ cm2[p].occupied /\ (IsActive(cm2, p) <=> IsActive(cm, p))
        /\ cm2[p].currently_handshaking = Wrap(h - k)
    BY <1>6, <2>1 DEF IsActive, ConnectionMapType, ConnectionId
  <2>. HIDE DEF h, cm2
  <2>3. Wrap(h - k) = IF h >= k THEN h - k ELSE h - k + UsizeMax + 1
    BY <1>1, WrapRange
  <2>4. Wrap(h - (k + 1)) = IF h >= k + 1 THEN h - k - 1 ELSE h - k + UsizeMax
    BY <1>1, WrapRange
  <2>5. Wrap(Wrap(h - k) - 1) = Wrap(h - (k + 1))
    BY <1>1, <2>3, <2>4, WrapRange
  <2>6. Wrap(h - k) \in 1 .. 1 <=> h = k + 1
    BY <1>1, <2>3
  <2>7. h \in 1 .. k + 1 <=> (h \in 1 .. k \/ h = k + 1)
    BY <1>1
  <2>8. LeaveMany(cm2, p, 1) = IF ~IsActive(cm, p) /\ h = k + 1
                              THEN [cm2 EXCEPT ![p] = Vacant]
                              ELSE [cm2 EXCEPT ![p].currently_handshaking = Wrap(h - (k + 1))]
    <3>. DEFINE n == Wrap(h - (k + 1))
    <3>1. Wrap(cm2[p].currently_handshaking - 1) = n
      BY <2>2, <2>5
    <3>2. cm2[p].currently_handshaking \in 1 .. 1 <=> h = k + 1
      BY <2>2, <2>6
    <3>. HIDE DEF n
    <3>3. LeaveMany(cm2, p, 1) = IF ~IsActive(cm2, p) /\ cm2[p].currently_handshaking \in 1 .. 1
                                THEN [cm2 EXCEPT ![p] = Vacant]
                                ELSE [cm2 EXCEPT ![p].currently_handshaking = n]
      <4>1. LeaveMany(cm2, p, 1) =
              IF ~IsActive(cm2, p) /\ cm2[p].currently_handshaking \in 1 .. 1
              THEN [cm2 EXCEPT ![p] = Vacant]
              ELSE [cm2 EXCEPT ![p].currently_handshaking = Wrap(@ - 1)]
        <5>1. ~(1 = 0 \/ ~cm2[p].occupied)
          BY <2>2
        <5>. QED  BY <5>1, Zenon DEF LeaveMany
      <4>2. [cm2 EXCEPT ![p].currently_handshaking = Wrap(@ - 1)]
              = [cm2 EXCEPT ![p].currently_handshaking = n]
        BY <3>1, <1>3 DEF ConnectionMapType, ConnectionId
      <4>. QED  BY <4>1, <4>2
    <3>. QED  BY <2>2, <3>2, <3>3 DEF n
  <2>9. LeaveMany(cm, p, k + 1) = IF ~IsActive(cm, p) /\ h = k + 1
                                 THEN [cm EXCEPT ![p] = Vacant]
                                 ELSE [cm EXCEPT ![p].currently_handshaking = Wrap(h - (k + 1))]
    BY <1>1, <1>6, <2>7 DEF LeaveMany, h
  <2>. QED  BY <1>2, <1>3, <2>1, <2>8, <2>9 DEF cm2, ConnectionMapType, ConnectionId
<1>. QED  BY <1>2, <1>4, <1>5, <1>6

=============================================================================
