--------------------------- MODULE ConnectionMap ---------------------------
(***************************************************************************)
(* The ConnectionMap of src/main: a table, shared by the user's threads    *)
(* and the event loop behind one mutex, from the id of a peer to           *)
(*    ConnectionId { active_connection: Option<Token>,                     *)
(*                   currently_handshaking: usize }.                       *)
(* Every operator below is one critical section of the code: what one      *)
(* holder of the lock does to the table.  The table is total here; a peer  *)
(* without an entry has the value Vacant.                                  *)
(***************************************************************************)
EXTENDS Integers, FiniteSets

CONSTANTS
    Peer,      \* the ids of the other nodes; Uid: Ord, so they are numbers
    MaxToken,  \* bound: the largest token the event loop gives out
    UsizeMax   \* the largest usize: `0 - 1` is UsizeMax in a release build

ASSUME PeerAssumption == Peer \subseteq Nat

ASSUME BoundAssumption ==
    /\ MaxToken \in Nat
    /\ UsizeMax \in Nat
    /\ MaxToken < UsizeMax

\* Token 0 is service.rs's BOOTSTRAP_TOKEN; 1..MaxToken are the tokens that
\* Core::get_new_token hands out (the other reserved tokens hold no
\* connection and do not appear).
BOOTSTRAP_TOKEN == 0
Token == 0 .. MaxToken
NoToken == -1

ConnectionId ==
    [ occupied              : BOOLEAN,
      active_connection     : Token \cup {NoToken},
      currently_handshaking : 0 .. UsizeMax ]

ConnectionMapType == [Peer -> ConnectionId]

Vacant ==
    [ occupied |-> FALSE, active_connection |-> NoToken, currently_handshaking |-> 0 ]

\* A mistaken Wrap: the count is taken not to wrap.
WrapNever(n) == n

Wrap(n) == n % (UsizeMax + 1)

-----------------------------------------------------------------------------

IsActive(cm, p) == cm[p].active_connection # NoToken

\* A handshake with p begins: entry(p).or_insert({None, 0}).currently_handshaking += 1,
\* once for each of the k sockets that are registered.
EnterMany(cm, p, k) ==
    IF k = 0 THEN cm
    ELSE [cm EXCEPT ![p] =
            [ occupied |-> TRUE,
              active_connection |-> @.active_connection,
              currently_handshaking |-> Wrap(@.currently_handshaking + k) ]]

Enter(cm, p) == EnterMany(cm, p, 1)

\* A mistaken Leave: an entry with nothing left in it stays.
LeaveForgetsEmpty(cm, p) ==
    IF ~cm[p].occupied THEN cm
    ELSE [cm EXCEPT ![p].currently_handshaking = Wrap(@ - 1)]

\* A handshake with p fails: the count goes down and an entry with nothing
\* left in it is removed.
Leave(cm, p) ==
    IF ~cm[p].occupied THEN cm
    ELSE LET n == Wrap(cm[p].currently_handshaking - 1) IN
         IF n = 0 /\ ~IsActive(cm, p)
         THEN [cm EXCEPT ![p] = Vacant]
         ELSE [cm EXCEPT ![p].currently_handshaking = n]

\* k handshakes with p fail one after the other (the children of a Connect):
\* Leave, k times.  Without an active connection the entry disappears when
\* the count reaches 0, and the calls that are left find no entry.
LeaveMany(cm, p, k) ==
    IF k = 0 \/ ~cm[p].occupied THEN cm
    ELSE IF ~IsActive(cm, p) /\ cm[p].currently_handshaking \in 1 .. k
         THEN [cm EXCEPT ![p] = Vacant]
         ELSE [cm EXCEPT ![p].currently_handshaking = Wrap(@ - k)]

\* A connection to p becomes active:
\* entry(p).or_insert({None, 1}).currently_handshaking -= 1, active = Some(t).
Activate(cm, p, t) ==
    [cm EXCEPT ![p] =
        [ occupied |-> TRUE,
          active_connection |-> t,
          currently_handshaking |->
             Wrap((IF @.occupied THEN @.currently_handshaking ELSE 1) - 1) ]]

\* An active connection to p ends: whatever token the entry holds is dropped.
Deactivate(cm, p) ==
    IF ~cm[p].occupied THEN cm
    ELSE IF cm[p].currently_handshaking = 0
         THEN [cm EXCEPT ![p] = Vacant]
         ELSE [cm EXCEPT ![p].active_connection = NoToken]

=============================================================================
