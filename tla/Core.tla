-------------------------------- MODULE Core --------------------------------
(***************************************************************************)
(* src/common/core.rs: what the event-loop thread owns.  The whole of it   *)
(* is one record, and every method of a state is an operator that maps     *)
(* the record before the call to the record after it, so that a handler    *)
(* that calls its parent, which terminates its children, is a composition  *)
(* of operators and takes effect in one step, as it does in the code       *)
(* (everything below runs on the event-loop thread).                       *)
(*                                                                         *)
(*   states         core.states, by token; NoState where there is none     *)
(*   timers         the pending timeouts <<token, timer id, owner>>:       *)
(*                  "held" when the state keeps the Timeout to cancel it,  *)
(*                  "stale" when the handle was dropped and the timer is   *)
(*                  left running                                           *)
(*   token_counter  core.token_counter (user tokens only)                  *)
(*   cm             the ConnectionMap                                      *)
(*   user           what the events sent to the user amount to: per peer,  *)
(*                  up = connections announced minus LostPeer events,      *)
(*                  waiting = a connect was posted and no event answered   *)
(*                  it; owed = bootstraps started minus outcomes sent      *)
(***************************************************************************)
EXTENDS ConnectionMap

NoPeer == -1

StateKind ==
    { "none", "Connect", "ConnectExchange", "ConnectionCandidate",
      "ActiveConnection", "ListenerExchange", "CheckReachability",
      "Bootstrap", "TryPeer" }

NextState == { "None", "ActiveConnection", "ConnectionCandidate" }

\* One record type for all states; a field a kind has no use for keeps its
\* value in NoState.  parent is the state the `finish` closure reaches
\* through its Weak pointer; interest is the readiness being waited for;
\* sd_meta is that of a Bootstrap.
StateRecord ==
    [ kind       : StateKind,
      their_id   : Peer \cup {NoPeer},
      parent     : Token \cup {NoToken},
      children   : SUBSET Token,
      next_state : NextState,
      interest   : {"readable", "writable"},
      sd_meta    : {"None", "Some"} ]

NoState ==
    [ kind |-> "none", their_id |-> NoPeer, parent |-> NoToken,
      children |-> {}, next_state |-> "None", interest |-> "readable",
      sd_meta |-> "None" ]

Timer == Token \X {0, 1} \X {"held", "stale"}

UserView ==
    [ up : [Peer -> Int], waiting : [Peer -> BOOLEAN], owed : Int ]

CoreType ==
    [ states        : [Token -> StateRecord],
      timers        : SUBSET Timer,
      token_counter : 1 .. MaxToken + 1,
      cm            : ConnectionMapType,
      user          : UserView ]

NewCore ==
    [ states        |-> [t \in Token |-> NoState],
      timers        |-> {},
      token_counter |-> 1,
      cm            |-> [p \in Peer |-> Vacant],
      user          |-> [ up      |-> [p \in Peer |-> 0],
                          waiting |-> [p \in Peer |-> FALSE],
                          owed    |-> 0 ] ]

-----------------------------------------------------------------------------

Live(c, t, kind) == t \in Token /\ c.states[t].kind = kind

\* A mistaken get_new_token: the counter does not move.
GetNewTokensReuses(c, k) == IF k = 1 THEN c ELSE [c EXCEPT !.token_counter = @ + k]

\* k calls of get_new_token
GetNewTokens(c, k) == [c EXCEPT !.token_counter = @ + k]

InsertState(c, t, s) == [c EXCEPT !.states[t] = s]

\* poll.reregister of the socket of the state at t
Reregister(c, t, interest) == [c EXCEPT !.states[t].interest = interest]

RemoveStates(c, ts) ==
    [c EXCEPT !.states = [t \in Token |-> IF t \in ts THEN NoState ELSE @[t]]]

RemoveState(c, t) == RemoveStates(c, {t})

SetTimeouts(c, ts, id) == [c EXCEPT !.timers = @ \cup (ts \X {id} \X {"held"})]

SetTimeout(c, t, id) == SetTimeouts(c, {t}, id)

CancelTimeouts(c, ts, id) == [c EXCEPT !.timers = @ \ (ts \X {id} \X {"held"})]

CancelTimeout(c, t, id) == CancelTimeouts(c, {t}, id)

\* set_timeout whose Timeout handle is lost
LeakTimeout(c, t, id) == [c EXCEPT !.timers = @ \cup {<<t, id, "stale">>}]

-----------------------------------------------------------------------------
(* Events, as the user counts them.                                        *)

\* ConnectSuccess, BootstrapAccept and BootstrapConnect
PeerUp(c, p) == [c EXCEPT !.user.up[p] = @ + 1, !.user.waiting[p] = FALSE]

LostPeer(c, p) == [c EXCEPT !.user.up[p] = @ - 1]

ConnectFailure(c, p) == [c EXCEPT !.user.waiting[p] = FALSE]

BootstrapFailed(c) == [c EXCEPT !.user.owed = @ - 1]

=============================================================================
