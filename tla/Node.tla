-------------------------------- MODULE Node --------------------------------
(***************************************************************************)
(* One Crust node: the user's threads, which call Service (service.rs) and *)
(* read the ConnectionMap, and the event-loop thread, which runs what they *)
(* post and the handlers of the states.  A step is one critical section    *)
(* plus post of a user thread, or one handler of the event loop.           *)
(*                                                                         *)
(* The other nodes are the environment.  Unless Admitted says otherwise    *)
(* they keep to the protocol: on a connection that is still handshaking a  *)
(* peer sends one message and waits for the answer.  In every other        *)
(* respect (who connects, what is granted, which connection is chosen,     *)
(* what fails and when) they are free.                                     *)
(*                                                                         *)
(* Admitted names the rare events of the environment a model includes:     *)
(*   "register"         mio cannot register the socket of an ExchangeMsg   *)
(*   "set_timeout"      mio's timer is full when a heartbeat is created    *)
(*   "both_fail"        a write and the read after it fail in one event    *)
(*   "seek_error"       the service discovery request cannot be sent       *)
(*   "known_bootstrap"  a bootstrap is granted by a peer that has an entry *)
(*                      in the ConnectionMap already                       *)
(*   "second_request"   a peer sends the listener another request before   *)
(*                      the first is answered                              *)
(***************************************************************************)
EXTENDS Bootstrap, Sequences

CONSTANTS
    MaxPosted,   \* bound: closures waiting in the event loop's channel
    MaxSockets,  \* bound: addresses tried by one Connect, Bootstrap or
                 \* reachability check
    UserOps,     \* the methods of Service the user calls
    Admitted

ServiceMethod == {"connect", "disconnect", "send", "start_bootstrap", "stop_bootstrap"}

RareEvent == {"register", "set_timeout", "both_fail", "seek_error", "known_bootstrap",
              "second_request"}

ASSUME NodeAssumption ==
    /\ MaxPosted \in Nat
    /\ MaxSockets \in Nat
    /\ UserOps \subseteq ServiceMethod
    /\ Admitted \subseteq RareEvent

VARIABLES
    core,   \* see Core
    posted  \* the channel to the event loop: closures not yet run, in order

vars == <<core, posted>>

\* A posted closure; disconnect and send capture the token they read from the
\* map (their_id is then the peer it was read for, which the code forgets).
Closure ==
    [ method : ServiceMethod, their_id : Peer \cup {NoPeer}, token : Token \cup {NoToken} ]

Init == core = NewCore /\ posted = <<>>

-----------------------------------------------------------------------------
(* The user's threads.                                                     *)

Post(method, p, token) ==
    /\ method \in UserOps
    /\ Len(posted) < MaxPosted
    /\ posted' = Append(posted, [method |-> method, their_id |-> p, token |-> token])

\* Service::connect returns Ok(()) at once if the peer is in the map.
ServiceConnect(p) ==
    /\ ~core.cm[p].occupied
    /\ Post("connect", p, NoToken)
    /\ core' = [core EXCEPT !.user.waiting[p] = TRUE]

\* Service::disconnect and Service::send
ServiceToken(method, p) ==
    /\ IsActive(core.cm, p)
    /\ Post(method, p, core.cm[p].active_connection)
    /\ UNCHANGED core

ServiceBootstrap(method) ==
    /\ Post(method, NoPeer, NoToken)
    /\ UNCHANGED core

UserStep ==
    \/ \E p \in Peer : ServiceConnect(p)
    \/ \E p \in Peer, method \in {"disconnect", "send"} : ServiceToken(method, p)
    \/ \E method \in {"start_bootstrap", "stop_bootstrap"} : ServiceBootstrap(method)

-----------------------------------------------------------------------------
(* The environment's choices.                                              *)

CanTake(n) == core.token_counter + n <= MaxToken + 1

Registrations(n) == IF "register" \in Admitted THEN SUBSET (1 .. n) ELSE {1 .. n}

Registered == IF "register" \in Admitted THEN BOOLEAN ELSE {TRUE}

Outcomes ==
    IF "set_timeout" \in Admitted THEN StartOutcome ELSE {"ok", "read_error"}

\* What is chosen when a reply has been written and the next state starts.
Starts(io) == IF io = "done" THEN Outcomes ELSE {"ok"}

Reregistered(io) == IF io = "done" THEN BOOLEAN ELSE {TRUE}

SeekOutcomes == IF "seek_error" \in Admitted THEN SeekOutcome
                ELSE SeekOutcome \ {"error"}

-----------------------------------------------------------------------------
(* The event loop runs a closure (event_loop_impl's inner loop).           *)

Run(method) ==
    /\ posted # <<>>
    /\ Head(posted).method = method
    /\ posted' = Tail(posted)

RunConnect ==
    /\ Run("connect")
    /\ LET p == Head(posted).their_id IN
       \/ core' = ConnectStartEmpty(core, p)
       \/ \E n \in 0 .. MaxSockets :
             /\ CanTake(n + 1)
             /\ \E reg \in Registrations(n) : core' = ConnectStart(core, p, n, reg)

\* The closure looks its token up; RunDisconnect and RunSend call the methods
\* of ActiveConnection because that is what the token can still refer to
\* (PostedTokenIsOwn below).
RunDisconnect ==
    /\ Run("disconnect")
    /\ LET t == Head(posted).token IN
       core' = IF core.states[t].kind = "none" THEN core
               ELSE ActiveTerminate(core, t, core.states[t].their_id)

RunSend ==
    /\ Run("send")
    /\ LET t == Head(posted).token IN
       \E fails \in BOOLEAN :
          core' = IF core.states[t].kind = "none" THEN core ELSE ActiveWrite(core, t, fails)

\* What begin_bootstrap finds: no contact at all, or some, of which n have
\* their socket opened.
Contacts ==
    {[found |-> FALSE, n |-> 0, reg |-> {}]}
    \cup UNION {{[found |-> TRUE, n |-> n, reg |-> reg] : reg \in Registrations(n)} :
                n \in {k \in 0 .. MaxSockets : CanTake(k)}}

RunStartBootstrap ==
    /\ Run("start_bootstrap")
    /\ IF core.states[BOOTSTRAP_TOKEN].kind # "none" THEN UNCHANGED core
       ELSE \E seek \in SeekOutcomes, k \in Contacts :
               core' = BootstrapStart(core, seek, k.found, k.n, k.reg)

\* stop_bootstrap ends the attempt without an event: it owes the user none.
RunStopBootstrap ==
    /\ Run("stop_bootstrap")
    /\ core' = IF core.states[BOOTSTRAP_TOKEN].kind = "none" THEN core
               ELSE [BootstrapTerminate(core) EXCEPT !.user.owed = @ - 1]

RunPosted == RunConnect \/ RunDisconnect \/ RunSend \/ RunStartBootstrap \/ RunStopBootstrap

-----------------------------------------------------------------------------
(* The event loop hands an event to the state of its token.                *)

ExchangeMsgReady(t) ==
    /\ Live(core, t, "ConnectExchange")
    /\ UNCHANGED posted
    /\ \/ core' = ExchangeMsgError(core, t)
       \/ \E registered \in BOOLEAN : core' = ExchangeMsgResponse(core, t, registered)

CandidateReady(t) ==
    /\ Live(core, t, "ConnectionCandidate")
    /\ UNCHANGED posted
    /\ \/ core' = CandidateError(core, t)
       \/ /\ core.states[t].interest = "writable"
          /\ \E io \in CandidateReadOutcome, outcome \in Outcomes :
                core' = CandidateWrite(core, t, io, outcome)
       \/ /\ core.states[t].interest = "readable"
          /\ \E io \in CandidateReadOutcome, outcome \in Outcomes :
                core' = CandidateRead(core, t, io, outcome)

ActiveConnectionReady(t) ==
    /\ Live(core, t, "ActiveConnection")
    /\ UNCHANGED posted
    /\ \E twice \in (IF "both_fail" \in Admitted THEN BOOLEAN ELSE {FALSE}) :
          core' = ActiveReady(core, t, twice)

ListenerAccept ==
    /\ CanTake(1)
    /\ UNCHANGED posted
    /\ \E registered \in Registered : core' = ListenerExchangeStart(core, registered)

\* The request of the ExchangeMsg at t is still to be read.
AwaitsRequest(t) ==
    /\ core.states[t].interest = "readable"
    /\ core.states[t].children = {}
    /\ core.states[t].next_state = "None"

\* read takes whatever the peer has sent: its one request, or another one while
\* the first is being answered.  What the request is, and whether the name
\* hash, the peer's id and the whitelist let it through, decides which of the
\* four answers it gets.
ListenerExchangeReady(t) ==
    /\ Live(core, t, "ListenerExchange")
    /\ UNCHANGED posted
    /\ \/ core' = ListenerTerminate(core, t, core.states[t])
       \/ /\ core.states[t].interest = "writable"
          /\ \E io \in WriteOutcome : \E registered \in Reregistered(io), outcome \in Starts(io) :
                core' = ListenerWrite(core, t, io, registered, outcome)
       \/ /\ "second_request" \notin Admitted => AwaitsRequest(t)
          /\ \/ \E io \in WriteOutcome :
                \/ core' = HandleEchoAddrReq(core, t, io)
                \/ \E registered \in Reregistered(io), outcome \in Starts(io) :
                      core' = SendBootstrapDenied(core, t, io, registered, outcome)
                \/ \E p \in Peer, registered \in Reregistered(io) :
                      core' = HandleConnect(core, t, p, io, registered)
                \/ \E p \in Peer, outcome \in Starts(io) :
                      core' = SendBootstrapGrant(core, t, p, io, outcome)
             \/ \E p \in Peer, n \in 1 .. MaxSockets :
                   CanTake(n) /\ core' = HandleBootstrapReqCheck(core, t, p, n)

CheckReachabilityReady(t) ==
    /\ Live(core, t, "CheckReachability")
    /\ UNCHANGED posted
    /\ \E reached \in BOOLEAN, io \in WriteOutcome :
       \E registered \in Reregistered(io), outcome \in Starts(io) :
          core' = CheckReachabilityFinish(core, t, reached, io, registered, outcome)

TryPeerReady(t) ==
    /\ Live(core, t, "TryPeer")
    /\ UNCHANGED posted
    /\ \/ \E deny \in {"none", "fatal", "whitelist"} : core' = TryPeerError(core, t, deny)
       \/ \E p \in Peer, outcome \in Outcomes :
             /\ "known_bootstrap" \in Admitted \/ ~core.cm[p].occupied
             /\ core' = TryPeerGranted(core, t, p, outcome)

-----------------------------------------------------------------------------
(* The event loop hands an expired timer to the state of its token         *)
(* (handle_timer); State::timeout does nothing by default.                 *)

Timeout(timer) ==
    /\ timer \in core.timers
    /\ UNCHANGED posted
    /\ LET t     == timer[1]
           id    == timer[2]
           s     == core.states[t]
           fired == [core EXCEPT !.timers = @ \ {timer}]
       IN
       \/ /\ s.kind \in {"none", "ConnectExchange", "ConnectionCandidate", "TryPeer"}
          /\ core' = fired
       \/ /\ s.kind = "Connect"
          /\ core' = ConnectTerminate(fired, t, s)
       \/ /\ s.kind = "ActiveConnection"
          /\ \E fails \in BOOLEAN : core' = ActiveTimeout(fired, t, id, fails)
       \/ /\ s.kind = "ListenerExchange"
          /\ core' = ListenerTerminate(fired, t, s)
       \/ /\ s.kind = "CheckReachability"
          /\ \E io \in WriteOutcome : \E registered \in Reregistered(io), outcome \in Starts(io) :
                core' = CheckReachabilityFinish(fired, t, FALSE, io, registered, outcome)
       \/ /\ s.kind = "Bootstrap"
          /\ id = 0 \/ s.sd_meta = "Some"
          /\ \E k \in Contacts : core' = BootstrapTimeout(fired, id, k.found, k.n, k.reg)

LoopStep ==
    \/ ListenerAccept
    \/ \E t \in Token :
          \/ ExchangeMsgReady(t)
          \/ CandidateReady(t)
          \/ ActiveConnectionReady(t)
          \/ ListenerExchangeReady(t)
          \/ CheckReachabilityReady(t)
          \/ TryPeerReady(t)
    \/ \E timer \in core.timers : Timeout(timer)

Next ==
    \/ UserStep
    \/ RunPosted
    \/ LoopStep

Spec == Init /\ [][Next]_vars

-----------------------------------------------------------------------------
(* Fairness: the loop runs what is posted, and mio delivers the timeouts   *)
(* that are set.  Nothing is assumed of the peers or of the user.          *)

Fairness ==
    /\ WF_vars(RunPosted)
    /\ \A t \in Token : WF_vars(Timeout(<<t, 0, "held">>))

FairSpec == Spec /\ Fairness

-----------------------------------------------------------------------------
(* Properties.                                                             *)

\* The states that hold one unit of p's currently_handshaking.
Handshaking(c, p) ==
    {t \in Token :
        /\ c.states[t].their_id = p
        /\ \/ c.states[t].kind \in {"ConnectExchange", "ConnectionCandidate"}
           \/ c.states[t].kind = "ListenerExchange" /\ c.states[t].next_state # "None"}

Actives(c, p) ==
    {t \in Token : c.states[t].kind = "ActiveConnection" /\ c.states[t].their_id = p}

\* The variables have the types of the Rust fields they stand for.
TypeOK ==
    /\ core \in CoreType
    /\ posted \in Seq(Closure)

\* What the map calls an active connection is one: is_connected never answers
\* true, and send and disconnect never address a token, for a connection that
\* has ended or that belongs to another peer.  Holds whatever the environment
\* does.
ActiveTokenIsLive ==
    \A p \in Peer : IsActive(core.cm, p) => core.cm[p].active_connection \in Actives(core, p)

\* currently_handshaking is exact: the increments of the two ExchangeMsg
\* states and the decrements of their terminate, of ConnectionCandidate's and
\* of ActiveConnection::start balance along every path of every handshake, so
\* that the subtraction never underflows and the count never leaks.
HandshakesCounted ==
    \A p \in Peer : core.cm[p].currently_handshaking = Cardinality(Handshaking(core, p))

\* The map's entries are the truth about handshakes: connect() answers "already
\* connected or connecting" only while a handshake or a connection with the peer
\* is alive, and a handshake that is alive is visible to connect().
EntryHasOwner ==
    \A p \in Peer :
        /\ core.cm[p].occupied => Handshaking(core, p) \cup Actives(core, p) # {}
        /\ Handshaking(core, p) # {} => core.cm[p].occupied

\* With a peer whose id is smaller than ours (we choose the connection) there
\* is at most one active connection, and the map knows it.
ChosenConnectionUnique ==
    \A p \in Peer : p < OurId => Actives(core, p) \subseteq {core.cm[p].active_connection}

\* The kinds of the states a state of kind k starts and later terminates.
ChildKind == [k \in StateKind |->
    CASE k = "Connect"          -> {"ConnectExchange", "ConnectionCandidate"}
      [] k = "ListenerExchange" -> {"CheckReachability"}
      [] k = "Bootstrap"        -> {"TryPeer"}
      [] OTHER                  -> {}]

\* Parents and children agree: the children a Connect, a Bootstrap or a
\* listener's ExchangeMsg would terminate are exactly the live states whose
\* `finish` closure points to it, and no such state outlives its parent, so
\* that a callback never finds its parent gone or borrowed.  It relies on the
\* peers' sending one request: done does not terminate the checks that an
\* earlier request started.
FamiliesAgree ==
    /\ \A t, u \in Token :
          u \in core.states[t].children
            <=> /\ core.states[u].parent = t
                /\ core.states[u].kind \in ChildKind[core.states[t].kind]
    /\ \A u \in Token :
          LET t == core.states[u].parent
          IN  t # NoToken => u \in core.states[t].children

\* A token read from the map by disconnect() or send() can be out of date when
\* the closure runs; it then names no state, never one of another peer or of
\* another kind.
PostedTokenIsOwn ==
    \A i \in DOMAIN posted :
        posted[i].token # NoToken =>
            \/ core.states[posted[i].token].kind = "none"
            \/ posted[i].token \in Actives(core, posted[i].their_id)

\* The events add up: connections announced to the user minus LostPeer events
\* are the connections there are.
EventsMatchConnections ==
    \A p \in Peer : core.user.up[p] = Cardinality(Actives(core, p))

\* A bootstrap has one outcome: as long as the Bootstrap lives the user is
\* owed BootstrapConnect or BootstrapFailed, and afterwards nothing more.
BootstrapHasOneOutcome ==
    core.user.owed = IF Live(core, BOOTSTRAP_TOKEN, "Bootstrap") THEN 1 ELSE 0

\* The ids of the timers that a state s holds.
TimerIds(s) ==
    CASE s.kind = "ActiveConnection" \/ s.sd_meta = "Some" -> {0, 1}
      [] s.kind \in {"Connect", "ListenerExchange", "CheckReachability", "Bootstrap"}
           /\ s.sd_meta = "None" -> {0}
      [] OTHER -> {}

\* Every state that waits for a peer on a timer has that timer pending, no
\* state's timer is left behind, a Bootstrap whose service discovery timer
\* expires has the sd_meta that timeout unwraps, and a timer that nobody can
\* cancel names a token that will never have a state again.
TimersMatchStates ==
    /\ \A t \in Token : \A id \in TimerIds(core.states[t]) : <<t, id, "held">> \in core.timers
    /\ \A timer \in core.timers :
          IF timer[3] = "held"
          THEN timer[2] \in TimerIds(core.states[timer[1]])
          ELSE timer[1] # BOOTSTRAP_TOKEN /\ core.states[timer[1]].kind = "none"

\* How far the states that one token passes through have come.
Stage(kind) ==
    CASE kind = "none"                -> 4
      [] kind = "ActiveConnection"    -> 3
      [] kind = "ConnectionCandidate" -> 2
      [] OTHER                        -> 1

\* A connection moves forward only: a token given out by get_new_token that has
\* lost its state never has one again, the token of a live state is given to
\* no other, and an ActiveConnection or a ConnectionCandidate never falls back
\* to an earlier state of the handshake.
TokensMoveForward ==
    [][\A t \in {u \in Token \ {BOOTSTRAP_TOKEN} :
                u < core.token_counter \/ core.states[u].kind # "none"} :
          LET old == core.states[t].kind
              new == core'.states[t].kind
          IN  new # old => Stage(new) > Stage(old)]_vars

\* Every Connect, every listener's ExchangeMsg and every Bootstrap comes to an
\* end, whatever the peers do: their timers see to it.
AttemptsEnd ==
    \A t \in Token :
        []<>(core.states[t].kind \notin {"Connect", "ListenerExchange", "Bootstrap"})

=============================================================================
