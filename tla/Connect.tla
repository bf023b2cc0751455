------------------------------- MODULE Connect -------------------------------
(***************************************************************************)
(* The connecting side of src/main: a Connect and its children, which are  *)
(* an ExchangeMsg (connect/exchange_msg.rs) for every socket and then, on  *)
(* the same token, a ConnectionCandidate (connection_candidate.rs).  The   *)
(* listener's handshakes end in a ConnectionCandidate too: that one has no *)
(* parent (NoToken) and its `finish` closure starts the ActiveConnection.  *)
(* The hole-punching listener of a Connect is absent: service.rs never     *)
(* gives one (DISABLE_NAT).                                                *)
(***************************************************************************)
EXTENDS ActiveConnection

CONSTANT OurId  \* our_id, compared with their_id by a ConnectionCandidate

ASSUME OurIdAssumption == OurId \in Nat \ Peer

ConnectState(p, children) ==
    [NoState EXCEPT !.kind = "Connect", !.their_id = p, !.children = children]

ConnectExchangeState(p, parent) ==
    [NoState EXCEPT !.kind = "ConnectExchange", !.their_id = p, !.parent = parent,
                    !.interest = "writable"]

CandidateState(p, parent) ==
    [NoState EXCEPT !.kind = "ConnectionCandidate", !.their_id = p, !.parent = parent,
                    !.interest = "writable"]

RemoveChild(c, parent, child) == [c EXCEPT !.states[parent].children = @ \ {child}]

AddChild(c, parent, child) == [c EXCEPT !.states[parent].children = @ \cup {child}]

-----------------------------------------------------------------------------

\* ExchangeMsg::terminate and ConnectionCandidate::terminate of the state s
\* that is, or was, at token t.
ExchangeMsgTerminate(c, t, s) ==
    [RemoveState(c, t) EXCEPT !.cm = Leave(@, s.their_id)]

CandidateTerminate(c, t, s) ==
    [RemoveState(c, t) EXCEPT !.cm = Leave(@, s.their_id)]

\* terminate_children: every child that still has a state is an exchange or
\* a candidate with the Connect's peer, and terminates as above.
TerminateChildren(c, s) ==
    LET alive == {u \in s.children : c.states[u].kind # "none"}
    IN  [RemoveStates(c, alive) EXCEPT !.cm = LeaveMany(@, s.their_id, Cardinality(alive))]

\* A mistaken terminate: the children are left alone.
ConnectTerminateKeepsChildren(c, t, s) ==
    LET ended == RemoveState(CancelTimeout(c, t, 0), t)
    IN  IF ended.cm[s.their_id].occupied THEN ended ELSE ConnectFailure(ended, s.their_id)

\* Connect::terminate of the object s with token t (in start, not yet inserted).
ConnectTerminate(c, t, s) ==
    LET ended == RemoveState(CancelTimeout(TerminateChildren(c, s), t, 0), t)
    IN  IF ended.cm[s.their_id].occupied THEN ended ELSE ConnectFailure(ended, s.their_id)

\* A mistaken MaybeTerminate: the first attempt that ends ends them all.
MaybeTerminateAtOnce(c, t) == ConnectTerminate(c, t, c.states[t])

MaybeTerminate(c, t) ==
    IF c.states[t].children = {} THEN ConnectTerminate(c, t, c.states[t]) ELSE c

\* Connect::start with n sockets, those in reg registered by
\* ExchangeMsg::start.  Each socket takes a token.  exchange_msg calls
\* maybe_terminate after each socket: while none has been registered, that
\* terminates the Connect (its timer is cancelled and ConnectFailure sent),
\* and start goes on and inserts it all the same.
ConnectStart(c, p, n, reg) ==
    LET token    == c.token_counter
        children == {token + i : i \in reg}
        died     == n > 0 /\ 1 \notin reg
        timed    == IF died THEN c ELSE SetTimeout(c, token, 0)
        reported == IF died /\ ~c.cm[p].occupied THEN ConnectFailure(timed, p) ELSE timed
    IN  GetNewTokens(
          [reported EXCEPT
             !.cm     = EnterMany(@, p, Cardinality(children)),
             !.states = [t \in Token |->
                           CASE t = token      -> ConnectState(p, children)
                             [] t \in children -> ConnectExchangeState(p, token)
                             [] OTHER          -> @[t]]],
          n + 1)

\* Connect::start with no address to try: ConnectFailure, no state.
ConnectStartEmpty(c, p) == ConnectFailure(c, p)

-----------------------------------------------------------------------------
(* ConnectionCandidate::start; registered = FALSE: poll.reregister fails.  *)

CandidateStart(c, t, p, parent, registered) ==
    IF registered
    THEN InsertState(c, t, CandidateState(p, parent))
    ELSE CandidateTerminate(c, t, CandidateState(p, parent))

(* The closures given to ExchangeMsg and ConnectionCandidate.  They act    *)
(* only if the Weak pointer to the Connect can be upgraded.                *)

HandleExchangeMsg(c, parent, t, success, registered) ==
    LET p       == c.states[parent].their_id
        removed == RemoveChild(c, parent, t)
        started == CandidateStart(removed, t, p, parent, registered)
    IN  IF ~Live(c, parent, "Connect") THEN c
        ELSE IF success
             THEN MaybeTerminate(IF registered THEN AddChild(started, parent, t) ELSE started,
                                 parent)
             ELSE MaybeTerminate(removed, parent)

HandleConnectionCandidate(c, parent, t, success, outcome) ==
    LET removed == RemoveChild(c, parent, t)
        s       == removed.states[parent]
    IN  IF ~Live(c, parent, "Connect") THEN c
        ELSE IF success
             THEN ActiveStart(ConnectTerminate(removed, parent, s), t, s.their_id,
                              "ConnectSuccess", outcome)
             ELSE MaybeTerminate(removed, parent)

-----------------------------------------------------------------------------
(* connect/exchange_msg.rs                                                 *)

ExchangeMsgError(c, t) ==
    LET s == c.states[t]
    IN  HandleExchangeMsg(ExchangeMsgTerminate(c, t, s), s.parent, t, FALSE, FALSE)

\* receive_response with the expected id and name hash
ExchangeMsgResponse(c, t, registered) ==
    HandleExchangeMsg(RemoveState(c, t), c.states[t].parent, t, TRUE, registered)

-----------------------------------------------------------------------------
(* connection_candidate.rs                                                 *)

CandidateDone(c, t, outcome) ==
    LET s       == c.states[t]
        removed == RemoveState(c, t)
    IN  IF s.parent = NoToken
        THEN ActiveStart(removed, t, s.their_id, "ConnectSuccess", outcome)
        ELSE HandleConnectionCandidate(removed, s.parent, t, TRUE, outcome)

CandidateError(c, t) ==
    LET s          == c.states[t]
        terminated == CandidateTerminate(c, t, s)
    IN  IF s.parent = NoToken
        THEN terminated
        ELSE HandleConnectionCandidate(terminated, s.parent, t, FALSE, "ok")

\* read: "choose" is ChooseConnection, "none" no complete message, "error"
\* anything else.
CandidateReadOutcome == {"choose", "none", "error"}

CandidateRead(c, t, read, outcome) ==
    CASE read = "choose" -> CandidateDone(c, t, outcome)
      [] read = "error"  -> CandidateError(c, t)
      [] OTHER           -> c

\* A mistaken write: an active connection is not looked for.
CandidateWriteUnchecked(c, t, io, outcome) ==
    LET waiting == Reregister(c, t, "readable")
    IN  CandidateRead(IF OurId > c.states[t].their_id THEN c ELSE waiting, t, io, outcome)

\* A mistaken CandidateWrite: nobody waits to be chosen.
CandidateWriteEager(c, t, io, outcome) ==
    IF IsActive(c.cm, c.states[t].their_id) THEN CandidateError(c, t)
    ELSE CandidateDone(c, t, outcome)

\* write: with the larger id we write ChooseConnection ("choose": it is
\* written, "none": in part); with the smaller one we turn to reading
\* ("error": poll.reregister fails or the read does).
CandidateWrite(c, t, io, outcome) ==
    LET waiting == Reregister(c, t, "readable")
    IN  IF IsActive(c.cm, c.states[t].their_id)
        THEN CandidateError(c, t)
        ELSE CandidateRead(IF OurId > c.states[t].their_id THEN c ELSE waiting,
                           t, io, outcome)

=============================================================================
