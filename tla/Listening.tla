------------------------------ MODULE Listening ------------------------------
(***************************************************************************)
(* The life of the TCP listener: Service::start_listening_tcp,             *)
(* stop_tcp_listener and set_accept_bootstrap (src/src/main/service.rs),   *)
(* the mapping of its socket by MappedTcpSocket with IGD threads and STUN  *)
(* queries (src/src/nat/mapped_tcp_socket), and ConnectionListener         *)
(* (src/src/main/connection_listener/mod.rs).                              *)
(*                                                                         *)
(* A start that gets past its guard is numbered; the number stands for the *)
(* mapping state's token, its bound socket and the addresses it finds.     *)
(* Event-loop handlers are atomic; IGD threads run beside them and answer  *)
(* through the same queue of closures as the Service's calls.              *)
(***************************************************************************)
EXTENDS Integers, Sequences, FiniteSets, Functions

CONSTANTS MaxStarts,      \* bound: starts that get past their guard
          MaxPosted,      \* bound: closures of the user waiting to run
          MaxGateways,    \* interfaces with an IGD gateway
          MaxStuns,       \* known STUN servers
          MaxBacklog      \* bound: connections waiting to be accepted

Mapping == 1..MaxStarts
None == 0

VARIABLES posted,         \* closures on their way to the event loop
          begun,          \* how many starts got past their guard
          mapping,        \* MappedTcpSocket states: children still awaited
          threads,        \* IGD threads still running, per mapping
          listener,       \* the mapping whose socket listens, or None
          accept_bootstrap,
          backlog,        \* connections the kernel holds for accept()
          edge,           \* a readable event not yet delivered
          outcomes,       \* history: events sent for each start
          erred           \* history: the last accept() of the listener failed

socket == <<listener, accept_bootstrap, backlog, edge, erred>>
vars == <<posted, begun, mapping, threads, socket, outcomes>>

Init ==
    /\ posted = <<>>
    /\ begun = 0
    /\ mapping = <<>>
    /\ threads = [m \in Mapping |-> 0]
    /\ listener = None
    /\ accept_bootstrap = FALSE
    /\ backlog = 0
    /\ edge = FALSE
    /\ outcomes = [m \in Mapping |-> 0]
    /\ erred = FALSE

Posted(op) == Len(SelectSeq(posted, LAMBDA c : c.op = op))

-----------------------------------------------------------------------------
(* The user's calls: each posts a closure.  set_accept_bootstrap waits for *)
(* its closure, which answers or, at its end, drops the sender: either way *)
(* the wait is over when the closure has run.                              *)

Post(c) ==
    /\ Posted("accept") = 0
    /\ Len(posted) - Posted("igd") < MaxPosted
    /\ posted' = Append(posted, c)

CallStart ==
    /\ begun + Posted("start") < MaxStarts
    /\ Post([op |-> "start"])
    /\ UNCHANGED <<begun, mapping, threads, socket, outcomes>>

CallStop ==
    /\ Post([op |-> "stop"])
    /\ UNCHANGED <<begun, mapping, threads, socket, outcomes>>

CallSetAccept(accept) ==
    /\ Post([op |-> "accept", on |-> accept])
    /\ UNCHANGED <<begun, mapping, threads, socket, outcomes>>

-----------------------------------------------------------------------------
(* MappedTcpSocket and ConnectionListener::start                           *)

Tell(m) == [outcomes EXCEPT ![m] = @ + 1]

(* handle_mapped_socket, called by the finish closure: the socket listens  *)
(* under LISTENER_TOKEN in place of whatever was there and ListenerStarted *)
(* is sent (the addresses it publishes are left out); or, on an error      *)
(* before that, ListenerFailed.                                            *)
HandleMappedSocket(m) ==
    /\ outcomes' = Tell(m)
    /\ \/ /\ listener' = m
          /\ accept_bootstrap' = FALSE
          /\ backlog' = 0
          /\ edge' = FALSE
          /\ erred' = FALSE
       \/ UNCHANGED socket

(* A mistaken MappedTerminate: the state stays.                            *)
MappedTerminateStays(m) == UNCHANGED mapping /\ HandleMappedSocket(m)

(* MappedTcpSocket::terminate: the STUN children go, then finish runs.     *)
MappedTerminate(m) ==
    /\ mapping' = Restrict(mapping, DOMAIN mapping \ {m})
    /\ HandleMappedSocket(m)

(* The start closure when LISTENER_TOKEN is free.  The socket may fail to  *)
(* bind; the timer may fail to be set, with the IGD threads already        *)
(* running; with nobody to ask the mapping ends at once.                   *)
RunStart ==
    LET m == begun + 1
    IN  /\ begun' = m
        /\ \E igd \in 0..MaxGateways, stuns \in 0..MaxStuns :
             /\ threads' = [threads EXCEPT ![m] = igd]
             /\ IF igd = 0 /\ stuns = 0
                THEN HandleMappedSocket(m) /\ UNCHANGED mapping
                ELSE /\ \/ /\ mapping' = [i \in DOMAIN mapping \cup {m} |->
                                   IF i = m THEN [igd_children |-> igd, stun_children |-> stuns]
                                   ELSE mapping[i]]
                           /\ UNCHANGED outcomes
                        \/ outcomes' = Tell(m) /\ UNCHANGED mapping
                     /\ UNCHANGED socket

(* ConnectionListener::terminate                                           *)
ListenerTerminate ==
    /\ listener' = None
    /\ accept_bootstrap' = FALSE
    /\ backlog' = 0
    /\ edge' = FALSE
    /\ erred' = FALSE

(* handle_igd_resp: the closure an IGD thread has posted.                  *)
HandleIgdResp(m) ==
    IF m \notin DOMAIN mapping
    THEN UNCHANGED <<mapping, outcomes, socket>>
    ELSE IF mapping[m].igd_children = 1 /\ mapping[m].stun_children = 0
    THEN MappedTerminate(m)
    ELSE /\ mapping' = [mapping EXCEPT ![m].igd_children = @ - 1]
         /\ UNCHANGED <<outcomes, socket>>

(* The closure of set_accept_bootstrap; with no listener it answers with   *)
(* an error.                                                               *)
RunAccept(on) ==
    /\ accept_bootstrap' = (listener # None /\ on)
    /\ UNCHANGED <<begun, mapping, threads, listener, backlog, edge, erred,
                   outcomes>>

(* The event loop runs the closure at the head of the queue.               *)
RunPosted ==
    /\ posted # <<>>
    /\ posted' = Tail(posted)
    /\ LET c == Head(posted)
       IN  \/ c.op = "start" /\ listener = None /\ RunStart
           \/ /\ c.op = "start" /\ listener # None
              /\ UNCHANGED <<begun, mapping, threads, socket, outcomes>>
           \/ /\ c.op = "stop"
              /\ ListenerTerminate
              /\ UNCHANGED <<begun, mapping, threads, outcomes>>
           \/ c.op = "accept" /\ RunAccept(c.on)
           \/ /\ c.op = "igd"
              /\ HandleIgdResp(c.of)
              /\ UNCHANGED <<begun, threads>>

(* An IGD thread gets its answer and posts it, or fails and says nothing.  *)
IgdThread(m) ==
    /\ threads[m] > 0
    /\ threads' = [threads EXCEPT ![m] = @ - 1]
    /\ \/ posted' = Append(posted, [op |-> "igd", of |-> m])
       \/ UNCHANGED posted
    /\ UNCHANGED <<begun, mapping, socket, outcomes>>

(* A mistaken HandleStunResp: the other count goes down.                   *)
HandleStunRespMixed(m) ==
    /\ m \in DOMAIN mapping
    /\ mapping[m].stun_children > 0
    /\ mapping[m].igd_children > 0
    /\ mapping' = [mapping EXCEPT ![m].igd_children = @ - 1]
    /\ UNCHANGED <<outcomes, socket, posted, begun, threads>>

(* handle_stun_resp: a GetExtAddr child has its address or has failed.     *)
HandleStunResp(m) ==
    /\ m \in DOMAIN mapping
    /\ mapping[m].stun_children > 0
    /\ IF mapping[m].stun_children = 1 /\ mapping[m].igd_children = 0
       THEN MappedTerminate(m)
       ELSE /\ mapping' = [mapping EXCEPT ![m].stun_children = @ - 1]
            /\ UNCHANGED <<outcomes, socket>>
    /\ UNCHANGED <<posted, begun, threads>>

(* A mistaken MappedTimeout: it waits for the IGD threads.                 *)
MappedTimeoutWaits(m) ==
    /\ m \in DOMAIN mapping
    /\ mapping[m].igd_children = 0
    /\ MappedTerminate(m)
    /\ UNCHANGED <<posted, begun, threads>>

(* MappedTcpSocket::timeout, three seconds after the start.                *)
MappedTimeout(m) ==
    /\ m \in DOMAIN mapping
    /\ MappedTerminate(m)
    /\ UNCHANGED <<posted, begun, threads>>

-----------------------------------------------------------------------------
(* ConnectionListener::ready                                               *)

(* A peer connects: the kernel queues it and raises an edge.               *)
PeerArrives ==
    /\ listener # None
    /\ backlog < MaxBacklog
    /\ backlog' = backlog + 1
    /\ edge' = TRUE
    /\ UNCHANGED <<posted, begun, mapping, threads, listener, accept_bootstrap, erred,
                   outcomes>>

(* A mistaken Accept: one connection for every event.                      *)
AcceptOne ==
    /\ listener # None
    /\ edge
    /\ edge' = FALSE
    /\ backlog' = IF backlog = 0 THEN 0 ELSE backlog - 1
    /\ UNCHANGED <<posted, begun, mapping, threads, listener, accept_bootstrap, erred,
                   outcomes>>

(* accept: loops until WouldBlock, or until accept() fails (too many open  *)
(* files, an aborted connection) with connections perhaps left.            *)
Accept ==
    /\ listener # None
    /\ edge
    /\ edge' = FALSE
    /\ \/ backlog' = 0 /\ erred' = FALSE
       \/ backlog' \in 0..backlog /\ erred' = TRUE
    /\ UNCHANGED <<posted, begun, mapping, threads, listener, accept_bootstrap,
                   outcomes>>

(* The socket reports an error: terminate and ListenerFailed.              *)
ListenerError ==
    /\ listener # None
    /\ ListenerTerminate
    /\ UNCHANGED <<posted, begun, mapping, threads, outcomes>>

Next ==
    \/ CallStart \/ CallStop \/ \E b \in BOOLEAN : CallSetAccept(b)
    \/ RunPosted
    \/ \E m \in Mapping : IgdThread(m) \/ HandleStunResp(m) \/ MappedTimeout(m)
    \/ PeerArrives \/ Accept \/ ListenerError

(* The event loop polls: closures run, armed timers fire and ready sockets *)
(* are served.  No thread, peer or user has to do anything.                *)
Fairness ==
    /\ WF_vars(RunPosted)
    /\ WF_vars(Accept)
    /\ \A m \in Mapping : WF_vars(MappedTimeout(m))

Spec == Init /\ [][Next]_vars
FairSpec == Spec /\ Fairness

-----------------------------------------------------------------------------
(* Properties                                                              *)

(* Type invariant; igd_children is a usize and never goes below zero.      *)
TypeOK ==
    /\ \A i \in 1..Len(posted) : posted[i] \in
         [op : {"start", "stop"}] \cup [op : {"accept"}, on : BOOLEAN]
           \cup [op : {"igd"}, of : Mapping]
    /\ begun \in 0..MaxStarts
    /\ DOMAIN mapping \subseteq 1..begun
    /\ \A m \in DOMAIN mapping : /\ mapping[m].igd_children \in 0..MaxGateways
                                 /\ mapping[m].stun_children \in 0..MaxStuns
    /\ threads \in [Mapping -> 0..MaxGateways]
    /\ listener \in 0..begun
    /\ {accept_bootstrap, edge, erred} \subseteq BOOLEAN
    /\ backlog \in 0..MaxBacklog
    /\ outcomes \in [Mapping -> 0..2]

IgdAnswers(m) == Len(SelectSeq(posted, LAMBDA c : c.op = "igd" /\ c.of = m))

(* Every answer an IGD thread may still give to a live mapping is counted  *)
(* in igd_children, so that neither a late answer nor one that overlaps    *)
(* another start makes the count underflow or ends the mapping early.      *)
IgdCounted ==
    \A m \in DOMAIN mapping :
        threads[m] + IgdAnswers(m) <= mapping[m].igd_children

(* A start that got past its guard is answered by exactly one event        *)
(* (ListenerStarted or ListenerFailed), at the moment its mapping ends:    *)
(* socket and finish are taken once.                                       *)
OneOutcomePerStart ==
    \A m \in Mapping :
        outcomes[m] = IF m > begun \/ m \in DOMAIN mapping THEN 0 ELSE 1

(* Every start is answered, whatever the IGD threads and STUN servers do.  *)
StartAnswered == \A m \in Mapping : (begun >= m) ~> (outcomes[m] > 0)

(* Although a readable event comes once per arrival only, the connections  *)
(* the kernel has queued are all accepted, unless accept() fails: then the *)
(* rest waits for the next arrival.                                        *)
BacklogServed == (backlog > 0) ~> (backlog = 0 \/ erred)
=============================================================================
