------------------------------ MODULE PeerPair ------------------------------
(***************************************************************************)
(* Two nodes of src/main that connect to each other: two event loops, each *)
(* with the states of Connect and Listener, and the TCP connections        *)
(* between them.  Node leaves the other end of a connection free; here it  *)
(* is a node that runs the same code, so that what one sends is what the   *)
(* other reads, and a state that ends closes its socket under the other.   *)
(*                                                                         *)
(*   core[n]    what the event loop of node n owns (Core)                  *)
(*   posted[n]  a closure of Service::connect waits for the event loop     *)
(*   links      the TCP connections, in the order they were opened: from   *)
(*              is the connecting node, token[n] the token of n's socket   *)
(*              (NoToken: not accepted yet), inbox[n] the messages under   *)
(*              way to n                                                   *)
(*   calls[n]   how often the user of n called connect                     *)
(*                                                                         *)
(* Node 2 has the larger id: its ConnectionCandidates choose.              *)
(***************************************************************************)
EXTENDS Integers, Sequences, FiniteSets

CONSTANTS
    MaxToken,     \* bound: the largest token of an event loop
    UsizeMax,     \* the largest usize
    MaxCalls,     \* bound: calls of connect by one user
    Sockets,      \* the numbers of addresses a ConnectionInfo may have
    MaxLinks,     \* bound: TCP connections
    Disconnects,  \* whether the users call disconnect
    Timeouts      \* whether the timers of handshakes run out

Node == {1, 2}

Other(n) == 3 - n

VARIABLES core, posted, links, calls

vars == <<core, posted, links, calls>>

\* The code as node n runs it.
At(n) == INSTANCE Listener WITH Peer <- {Other(n)}, OurId <- n

NoToken == -1

Link(n, t) ==
    [ from |-> n, token |-> [m \in Node |-> IF m = n THEN t ELSE NoToken],
      inbox |-> [m \in Node |-> <<>>] ]

Init ==
    /\ core = [n \in Node |-> At(n)!NewCore]
    /\ posted = [n \in Node |-> FALSE]
    /\ links = <<>>
    /\ calls = [n \in Node |-> 0]

-----------------------------------------------------------------------------
(* Both ends of a connection.                                              *)

Kind(n, i) ==
    IF links[i].token[n] = NoToken THEN "none" ELSE core[n].states[links[i].token[n]].kind

\* The socket of n is gone: its state ended and dropped it.
Closed(n, i) == links[i].token[n] # NoToken /\ Kind(n, i) = "none"

Sent(i, n, msg) == [links EXCEPT ![i].inbox[Other(n)] = Append(@, msg)]

Taken(i, n) == [links EXCEPT ![i].inbox[n] = Tail(@)]

Receives(n, i, msg) == links[i].inbox[n] # <<>> /\ Head(links[i].inbox[n]) = msg

\* Node n runs a handler: its core becomes c and the connections ls.
Handle(n, c, ls) ==
    /\ core' = [core EXCEPT ![n] = c]
    /\ links' = ls
    /\ UNCHANGED <<posted, calls>>

-----------------------------------------------------------------------------
(* The user.                                                               *)

ServiceConnect(n) ==
    /\ calls[n] < MaxCalls
    /\ ~posted[n]
    /\ calls' = [calls EXCEPT ![n] = @ + 1]
    /\ posted' = [posted EXCEPT ![n] = ~core[n].cm[Other(n)].occupied]
    /\ UNCHANGED <<core, links>>

RunConnect(n) ==
    /\ posted[n]
    /\ posted' = [posted EXCEPT ![n] = FALSE]
    /\ \E k \in {j \in Sockets : Len(links) + j <= MaxLinks} :
         LET first == core[n].token_counter + 1
         IN  /\ core' = [core EXCEPT ![n] = At(n)!ConnectStart(@, Other(n), k, 1 .. k)]
             /\ links' = links \o [i \in 1 .. k |-> Link(n, first + i - 1)]
    /\ UNCHANGED calls

Disconnect(n) ==
    /\ Disconnects
    /\ At(n)!IsActive(core[n].cm, Other(n))
    /\ Handle(n, At(n)!ActiveTerminate(core[n], core[n].cm[Other(n)].active_connection, Other(n)),
              links)

-----------------------------------------------------------------------------
(* The event loop of node n, on connection i.                              *)

Accept(n, i) ==
    /\ links[i].from = Other(n)
    /\ links[i].token[n] = NoToken
    /\ Handle(n, At(n)!ListenerExchangeStart(core[n], TRUE),
              [links EXCEPT ![i].token[n] = core[n].token_counter])

ExchangeWritable(n, i) ==
    /\ Kind(n, i) = "ConnectExchange"
    /\ core[n].states[links[i].token[n]].interest = "writable"
    /\ Handle(n, At(n)!Reregister(core[n], links[i].token[n], "readable"), Sent(i, n, "Connect"))

ListenerReadable(n, i) ==
    /\ Kind(n, i) = "ListenerExchange"
    /\ Receives(n, i, "Connect")
    /\ Handle(n, At(n)!HandleConnect(core[n], links[i].token[n], Other(n), "done", TRUE),
              [Taken(i, n) EXCEPT ![i].inbox[Other(n)] = Append(@, "Connect")])

ExchangeReadable(n, i) ==
    /\ Kind(n, i) = "ConnectExchange"
    /\ Receives(n, i, "Connect")
    /\ Handle(n, At(n)!ExchangeMsgResponse(core[n], links[i].token[n], TRUE), Taken(i, n))

\* The larger id writes ChooseConnection and goes on; the smaller one reads.
CandidateWritable(n, i) ==
    LET t      == links[i].token[n]
        read   == Receives(n, i, "ChooseConnection")
        active == At(n)!IsActive(core[n].cm, Other(n))
    IN  /\ Kind(n, i) = "ConnectionCandidate"
        /\ core[n].states[t].interest = "writable"
        /\ IF n > Other(n)
           THEN Handle(n, At(n)!CandidateWrite(core[n], t, "choose", "ok"),
                       IF active THEN links ELSE Sent(i, n, "ChooseConnection"))
           ELSE Handle(n, At(n)!CandidateWrite(core[n], t, IF read THEN "choose" ELSE "none", "ok"),
                       IF read THEN Taken(i, n) ELSE links)

\* Only a candidate that has had its writable event is registered for this one.
CandidateReadable(n, i) ==
    /\ Kind(n, i) = "ConnectionCandidate"
    /\ core[n].states[links[i].token[n]].interest = "readable"
    /\ Receives(n, i, "ChooseConnection")
    /\ Handle(n, At(n)!CandidateRead(core[n], links[i].token[n], "choose", "ok"), Taken(i, n))

\* A mistaken Hangup: only an ActiveConnection notices.
HangupUnseen(n, i) ==
    /\ Closed(Other(n), i)
    /\ Kind(n, i) = "ActiveConnection"
    /\ Handle(n, At(n)!ActiveTerminate(core[n], links[i].token[n], Other(n)), links)

\* The other end is gone: ready() with hup or error, whatever is still unread.
Hangup(n, i) ==
    LET t == links[i].token[n]
    IN  /\ Closed(Other(n), i)
        /\ \/ /\ Kind(n, i) = "ConnectExchange"
              /\ Handle(n, At(n)!ExchangeMsgError(core[n], t), links)
           \/ /\ Kind(n, i) = "ConnectionCandidate"
              /\ Handle(n, At(n)!CandidateError(core[n], t), links)
           \/ /\ Kind(n, i) = "ListenerExchange"
              /\ Handle(n, At(n)!ListenerTerminate(core[n], t, core[n].states[t]), links)
           \/ /\ Kind(n, i) = "ActiveConnection"
              /\ Handle(n, At(n)!ActiveTerminate(core[n], t, Other(n)), links)

\* The timer of a Connect or of an incoming handshake runs out.
Timeout(n) ==
    /\ Timeouts
    /\ \E t \in {u[1] : u \in core[n].timers} :
         \/ /\ core[n].states[t].kind = "Connect"
            /\ Handle(n, At(n)!ConnectTerminate(core[n], t, core[n].states[t]), links)
         \/ /\ core[n].states[t].kind = "ListenerExchange"
            /\ Handle(n, At(n)!ListenerTerminate(core[n], t, core[n].states[t]), links)

Event(n, i) ==
    \/ Accept(n, i)
    \/ ExchangeWritable(n, i)
    \/ ListenerReadable(n, i)
    \/ ExchangeReadable(n, i)
    \/ CandidateWritable(n, i)
    \/ CandidateReadable(n, i)
    \/ Hangup(n, i)

Loop(n) == RunConnect(n) \/ \E i \in DOMAIN links : Event(n, i)

Next == \E n \in Node : ServiceConnect(n) \/ Disconnect(n) \/ Timeout(n) \/ Loop(n)

Spec == Init /\ [][Next]_vars

\* An event loop does not stop while a closure or a socket is ready; which one
\* comes first is open.
FairSpec == Spec /\ \A n \in Node : WF_vars(Loop(n))

-----------------------------------------------------------------------------

\* Type invariant; no two sockets of a node have the same token.
TypeOK ==
    /\ \A n \in Node : core[n] \in At(n)!CoreType
    /\ posted \in [Node -> BOOLEAN]
    /\ calls \in [Node -> 0 .. MaxCalls]
    /\ \A i \in DOMAIN links :
         /\ links[i].from \in Node
         /\ \A n \in Node : /\ links[i].token[n] \in At(n)!Token \cup {NoToken}
                            /\ links[i].inbox[n] \in Seq({"Connect", "ChooseConnection"})
    /\ \A n \in Node : \A i, j \in DOMAIN links :
         links[i].token[n] = links[j].token[n] => i = j \/ links[i].token[n] = NoToken

ActiveAt(n) == {i \in DOMAIN links : Kind(n, i) = "ActiveConnection"}

\* A node has at most one ActiveConnection to the other, and the one its
\* ConnectionMap names: the larger id chooses one connection of all that are
\* made at once, and the smaller id follows (connection_candidate.rs).
OneConnection ==
    \A n \in Node :
      /\ Cardinality(ActiveAt(n)) <= 1
      /\ \A i \in ActiveAt(n) : core[n].cm[Other(n)].active_connection = links[i].token[n]

\* A smaller id never has an ActiveConnection on a socket that the larger id
\* did not choose, or has not closed since.
SmallerFollows ==
    \A i \in ActiveAt(1) : Kind(2, i) = "ActiveConnection" \/ Closed(2, i)

\* A node whose ActiveConnection is alive at both ends is told so by
\* is_connected: "Check if we are connected to the given peer"
\* (service.rs).
ConnectedIsTold ==
    \A n \in Node :
        ActiveAt(1) \cap ActiveAt(2) # {} => At(n)!IsActive(core[n].cm, Other(n))

Connected == ActiveAt(1) = ActiveAt(2) /\ Cardinality(ActiveAt(1)) = 1

\* Once one of the two calls connect, and nothing times out or is closed by a
\* user, both end up with the same single connection and keep it, however many
\* sockets they open to each other at once.
PeersConnect == (posted[1] \/ posted[2]) ~> []Connected

\* Whatever was closed or timed out, both nodes end up with the same
\* connections, and with no handshake left over.
PeersAgree ==
    <>[](/\ ActiveAt(1) = ActiveAt(2)
         /\ \A n \in Node, i \in DOMAIN links :
              Kind(n, i) \in {"none", "ActiveConnection"})
=============================================================================
