------------------------------ MODULE CrustPeer ------------------------------
(***************************************************************************)
(* The example program (src/examples/crust_peer.rs): the thread that       *)
(* handles the Service's events and the main thread, which reads commands  *)
(* or, with --speed, sends to the first peer.  They share two mutexes,     *)
(* `service' and `network'.                                                *)
(*                                                                         *)
(* A step of a thread reaches from one acquisition of a mutex to the next  *)
(* wait.  Of the Service this module keeps what the program sees of its    *)
(* ActiveConnections: they start and terminate, which shows in             *)
(* is_connected at once and as an event later.  One peer may have several  *)
(* (a ConnectionCandidate that reads ChooseConnection does not look at the *)
(* map), and the map forgets the peer when any of them terminates.         *)
(***************************************************************************)
EXTENDS Naturals, Sequences, FiniteSets, Functions

CONSTANTS Peer,
          MaxUps,      \* bound: connections made
          MaxInfos,    \* bound: connection infos prepared
          MaxEvents    \* bound: events waiting

VARIABLES service, network,       \* who holds the mutex
          nodes,                  \* Network::nodes: index to peer
          peer_index,
          our_connection_infos,   \* the keys of the map
          connection_info_index,
          events,                 \* the event channel
          bs,                     \* the bootstrap channel: indices
          epc, ev, found,         \* the event thread: where, its event, `index'
          mpc, cmd, target,       \* the main thread: where, command, peer or token
          live,                   \* peer to its number of ActiveConnections
          connected,              \* the peers with an active_connection in the map
          doubled,                \* history: peers lost twice with one connection
          panicked                \* what ended the program at once, or "no"

locks == <<service, network>>
table == <<nodes, peer_index, our_connection_infos, connection_info_index>>
eventThread == <<epc, ev, found>>
mainThread == <<mpc, cmd, target>>
connections == <<live, connected, doubled>>
vars == <<locks, table, events, bs, eventThread, mainThread, connections, panicked>>

Command == {"prepare", "connect", "send", "send_all", "list", "stop"}
NoEvent == [kind |-> "none"]
Ups == {"bootstrap", "success"}   \* BootstrapConnect and -Accept; ConnectSuccess

Init ==
    /\ service = "free" /\ network = "free"
    /\ nodes = <<>>
    /\ peer_index = 0
    /\ our_connection_infos = {}
    /\ connection_info_index = 0
    /\ events = <<>>
    /\ bs = <<>>
    /\ epc = "recv" /\ ev = NoEvent /\ found = {}
    /\ mpc \in {"prompt", "bs_recv"}   \* running_speed_test: the latter
    /\ cmd = "none" /\ target = {}
    /\ live = [p \in Peer |-> 0]
    /\ connected = {}
    /\ doubled = {}
    /\ panicked = "no"

Running == panicked = "no"

(* The event in hand, until it has taken effect on nodes.                  *)
InHand == IF epc \in {"handle", "new_peer", "lost_found"} THEN <<ev>> ELSE <<>>

-----------------------------------------------------------------------------
(* The Service, as far as the program sees it                              *)

(* ActiveConnection::start: the map names the new connection, whether or   *)
(* not it named another, and the connection is announced.                  *)
PeerUp(p, kind) ==
    /\ Running
    /\ Len(events) < MaxEvents
    /\ peer_index + Len(SelectSeq(InHand \o events, LAMBDA e : e.kind \in Ups)) < MaxUps
    /\ live' = [live EXCEPT ![p] = @ + 1]
    /\ connected' = connected \cup {p}
    /\ events' = Append(events, [kind |-> kind, peer |-> p])
    /\ UNCHANGED <<locks, table, bs, eventThread, mainThread, doubled, panicked>>

(* terminate: the map forgets the peer, whichever connection it named, and *)
(* LostPeer is sent.  A write and the read after it that both fail in one  *)
(* ready() terminate the connection, and report it, twice.                 *)
PeerLost(p, twice) ==
    /\ Running
    /\ live[p] > 0
    /\ Len(events) + (IF twice THEN 2 ELSE 1) <= MaxEvents
    /\ live' = [live EXCEPT ![p] = @ - 1]
    /\ connected' = connected \ {p}
    /\ doubled' = IF twice THEN doubled \cup {p} ELSE doubled
    /\ LET lost == [kind |-> "lost", peer |-> p]
       IN  events' = events \o (IF twice THEN <<lost, lost>> ELSE <<lost>>)
    /\ UNCHANGED <<locks, table, bs, eventThread, mainThread, panicked>>

MessageArrives(p) ==
    /\ Running
    /\ live[p] > 0
    /\ Len(events) < MaxEvents
    /\ events' = Append(events, [kind |-> "message", peer |-> p])
    /\ UNCHANGED <<locks, table, bs, eventThread, mainThread, connections, panicked>>

-----------------------------------------------------------------------------
(* The event thread                                                        *)

ReceiveEvent ==
    /\ Running
    /\ epc = "recv"
    /\ events # <<>>
    /\ ev' = Head(events)
    /\ events' = Tail(events)
    /\ epc' = "handle"
    /\ UNCHANGED <<locks, table, bs, found, mainThread, connections, panicked>>

(* Nothing has come for a while and the main thread has said exit.         *)
EventThreadExits ==
    /\ Running
    /\ epc = "recv"
    /\ events = <<>>
    /\ mpc = "join"
    /\ epc' = "done"
    /\ UNCHANGED <<locks, table, events, bs, ev, found, mainThread, connections, panicked>>

EventHandled == epc' = "recv" /\ ev' = NoEvent /\ found' = {}

(* NewMessage: it is counted under the network lock and printed.           *)
HandleMessage ==
    /\ Running
    /\ epc = "handle" /\ ev.kind = "message"
    /\ network = "free"
    /\ EventHandled
    /\ UNCHANGED <<locks, table, events, bs, mainThread, connections, panicked>>

(* ConnectionInfoPrepared: the info is stored under its token.             *)
HandleInfo ==
    /\ Running
    /\ epc = "handle" /\ ev.kind = "info"
    /\ network = "free"
    /\ our_connection_infos' = our_connection_infos \cup {ev.token}
    /\ panicked' = IF ev.token \in our_connection_infos THEN "same result_token twice"
                   ELSE "no"
    /\ EventHandled
    /\ UNCHANGED <<locks, nodes, peer_index, connection_info_index, events, bs,
                   mainThread, connections>>

(* A new peer: service.lock(), then handle_new_peer with the guard alive.  *)
NewPeerLocks ==
    /\ Running
    /\ epc = "handle" /\ ev.kind \in Ups
    /\ service = "free"
    /\ service' = "event"
    /\ epc' = "new_peer"
    /\ UNCHANGED <<network, table, events, bs, ev, found, mainThread, connections, panicked>>

NextPeerIndex == peer_index

(* The bootstrap channel is read once, by the speed test: an index sent    *)
(* when nobody will read it any more is not kept.                          *)
HandleNewPeer ==
    /\ Running
    /\ epc = "new_peer"
    /\ network = "free"
    /\ nodes' = [i \in DOMAIN nodes \cup {NextPeerIndex} |->
                    IF i = NextPeerIndex THEN ev.peer ELSE nodes[i]]
    /\ peer_index' = peer_index + 1
    /\ bs' = IF ev.kind = "bootstrap" /\ mpc = "bs_recv"
             THEN Append(bs, NextPeerIndex) ELSE bs
    /\ service' = "free"
    /\ EventHandled
    /\ UNCHANGED <<network, our_connection_infos, connection_info_index, events,
                   mainThread, connections, panicked>>

(* A mistaken LostPeerFinds: not if the peer is connected again.           *)
LostPeerFindsStale ==
    /\ Running
    /\ epc = "handle" /\ ev.kind = "lost"
    /\ network = "free"
    /\ LET at == {i \in DOMAIN nodes : nodes[i] = ev.peer}
       IN  IF at = {} \/ ev.peer \in connected THEN found' = {}
           ELSE \E i \in at : found' = {i}
    /\ epc' = "lost_found"
    /\ UNCHANGED <<locks, table, events, bs, ev, mainThread, connections, panicked>>

(* LostPeer: the index is looked up under the lock, which is let go ...    *)
LostPeerFinds ==
    /\ Running
    /\ epc = "handle" /\ ev.kind = "lost"
    /\ network = "free"
    /\ LET at == {i \in DOMAIN nodes : nodes[i] = ev.peer}
       IN  IF at = {} THEN found' = {} ELSE \E i \in at : found' = {i}
    /\ epc' = "lost_found"
    /\ UNCHANGED <<locks, table, events, bs, ev, mainThread, connections, panicked>>

(* ... and taken again to remove it; print_connected_nodes then waits for  *)
(* the service with the network locked.                                    *)
LostPeerRemoves ==
    /\ Running
    /\ epc = "lost_found"
    /\ network = "free"
    /\ network' = "event"
    /\ nodes' = Restrict(nodes, DOMAIN nodes \ found)
    /\ panicked' = IF found \subseteq DOMAIN nodes THEN "no" ELSE "index is no key"
    /\ epc' = "lost_print"
    /\ UNCHANGED <<service, peer_index, our_connection_infos, connection_info_index,
                   events, bs, ev, found, mainThread, connections>>

LostPeerPrints ==
    /\ Running
    /\ epc = "lost_print"
    /\ service = "free"
    /\ network' = "free"
    /\ EventHandled
    /\ UNCHANGED <<service, table, events, bs, mainThread, connections, panicked>>

-----------------------------------------------------------------------------
(* The main thread: commands                                               *)

ReadCommand(c) ==
    /\ Running
    /\ mpc = "prompt"
    /\ c = "prepare" => connection_info_index < MaxInfos
    /\ cmd' = c
    /\ mpc' = IF c = "stop" THEN "join" ELSE "lock_network"
    /\ UNCHANGED <<locks, table, events, bs, eventThread, target, connections, panicked>>

(* A mistaken NextConnectionInfoIndex: it stays.                           *)
NextConnectionInfoIndexStays == connection_info_index

NextConnectionInfoIndex == connection_info_index + 1

(* The command takes the network lock and finds out what it is about; an   *)
(* index that is not there ends it, and so does a peer's connection info   *)
(* that cannot be decoded, but only once our own has been removed.         *)
CommandLocks ==
    /\ Running
    /\ mpc = "lock_network"
    /\ network = "free"
    /\ \/ /\ cmd = "prepare"
          /\ connection_info_index' = NextConnectionInfoIndex
          /\ target' = {connection_info_index}
          /\ UNCHANGED our_connection_infos
       \/ /\ cmd = "connect"
          /\ \E i \in 0..MaxInfos, decoded \in BOOLEAN :
               /\ our_connection_infos' = our_connection_infos \ {i}
               /\ target' = IF decoded THEN our_connection_infos \cap {i} ELSE {}
          /\ UNCHANGED connection_info_index
       \/ /\ cmd = "send"
          /\ \E i \in 0..MaxUps : target' = {nodes[j] : j \in DOMAIN nodes \cap {i}}
          /\ UNCHANGED <<our_connection_infos, connection_info_index>>
       \/ /\ cmd \in {"send_all", "list"}
          /\ target' = IF cmd = "list" THEN {} ELSE Range(nodes)
          /\ UNCHANGED <<our_connection_infos, connection_info_index>>
    /\ IF target' = {} /\ cmd # "list"
       THEN mpc' = "prompt" /\ cmd' = "none" /\ UNCHANGED network
       ELSE mpc' = "lock_service" /\ network' = "main" /\ UNCHANGED cmd
    /\ UNCHANGED <<service, nodes, peer_index, events, bs, eventThread, connections, panicked>>

(* With the network still locked the service is called: for send-all once  *)
(* for every peer.  With DISABLE_NAT the info is sent as an event at once; *)
(* send fails if the peer is not connected, connect if the peer is us.     *)
CommandCalls ==
    /\ Running
    /\ mpc = "lock_service"
    /\ service = "free"
    /\ \/ /\ cmd \in {"send", "send_all"}
          /\ \E p \in target :
               /\ target' = target \ {p}
               /\ panicked' = IF p \in connected THEN "no" ELSE "send"
          /\ UNCHANGED events
       \/ /\ cmd = "prepare"
          /\ \E t \in target : events' = Append(events, [kind |-> "info", token |-> t])
          /\ target' = {}
          /\ UNCHANGED panicked
       \/ /\ cmd = "connect"
          /\ target' = {}
          /\ panicked' \in {"no", "connect"}
          /\ UNCHANGED events
       \/ /\ cmd = "list"
          /\ target' = {}
          /\ UNCHANGED <<events, panicked>>
    /\ IF target' = {}
       THEN mpc' = "prompt" /\ cmd' = "none" /\ network' = "free"
       ELSE UNCHANGED <<mpc, cmd, network>>
    /\ UNCHANGED <<service, table, bs, eventThread, connections>>

-----------------------------------------------------------------------------
(* The main thread: the speed test                                         *)

(* The first bootstrap connection; the network lock is taken for good.     *)
SpeedStarts ==
    /\ Running
    /\ mpc = "bs_recv"
    /\ bs # <<>>
    /\ network = "free"
    /\ network' = "main"
    /\ bs' = <<>>
    /\ panicked' = IF Head(bs) \in DOMAIN nodes THEN "no" ELSE "no such peer index"
    /\ target' = {nodes[i] : i \in DOMAIN nodes \cap {Head(bs)}}
    /\ mpc' = "speed_lock"
    /\ UNCHANGED <<service, table, events, eventThread, cmd, connections>>

(* on_time_out: no bootstrap connection has come in five seconds.          *)
SpeedTimesOut ==
    /\ Running
    /\ mpc = "bs_recv"
    /\ panicked' = "exit(3)"
    /\ UNCHANGED <<locks, table, events, bs, eventThread, mainThread, connections>>

SpeedSends ==
    /\ Running
    /\ mpc = "speed_lock"
    /\ service = "free"
    /\ panicked' = IF target \subseteq connected THEN "no" ELSE "send"
    /\ mpc' = "speed_sleep"
    /\ UNCHANGED <<locks, table, events, bs, eventThread, cmd, target, connections>>

SpeedSleeps ==
    /\ Running
    /\ mpc = "speed_sleep"
    /\ mpc' = "speed_lock"
    /\ UNCHANGED <<locks, table, events, bs, eventThread, cmd, target, connections, panicked>>

EventStep == \/ ReceiveEvent \/ EventThreadExits \/ HandleMessage \/ HandleInfo \/ NewPeerLocks
             \/ HandleNewPeer \/ LostPeerFinds \/ LostPeerRemoves \/ LostPeerPrints
MainStep == CommandLocks \/ CommandCalls \/ SpeedStarts \/ SpeedSends \/ SpeedSleeps

Next ==
    \/ \E p \in Peer : \/ \E kind \in Ups : PeerUp(p, kind)
                       \/ \E twice \in BOOLEAN : PeerLost(p, twice)
                       \/ MessageArrives(p)
    \/ \E c \in Command : ReadCommand(c)
    \/ EventStep \/ MainStep \/ SpeedTimesOut

Spec == Init /\ [][Next]_vars

-----------------------------------------------------------------------------
(* Properties                                                              *)

Event == [kind : Ups \cup {"lost", "message"}, peer : Peer] \cup [kind : {"info"}, token : 0..MaxInfos]

(* Type invariant.                                                         *)
TypeOK ==
    /\ {service, network} \subseteq {"free", "event", "main"}
    /\ DOMAIN nodes \subseteq 0..(peer_index - 1) /\ Range(nodes) \subseteq Peer
    /\ our_connection_infos \subseteq 0..connection_info_index
    /\ peer_index \in 0..MaxUps /\ connection_info_index \in 0..MaxInfos
    /\ events \in Seq(Event) /\ bs \in Seq(0..(peer_index - 1))
    /\ ev \in Event \cup {NoEvent} /\ found \subseteq DOMAIN nodes \cup 0..peer_index
    /\ epc \in {"recv", "handle", "new_peer", "lost_found", "lost_print", "done"}
    /\ mpc \in {"prompt", "lock_network", "lock_service", "join", "bs_recv",
                "speed_lock", "speed_sleep"}
    /\ live \in [Peer -> 0..MaxUps]
    /\ connected \subseteq {p \in Peer : live[p] > 0} /\ doubled \subseteq Peer

(* "Got the same result_token twice!" and "index should definitely be a    *)
(* key in this map" do not happen, although the latter's lock is released  *)
(* between the lookup and the removal.                                     *)
TablePanicsNever == panicked \notin {"same result_token twice", "index is no key"}

Coming(kinds, p) ==
    Len(SelectSeq(InHand \o events, LAMBDA e : e.kind \in kinds /\ e.peer = p))

(* The table of nodes is what the Service is connected to, once the events *)
(* on their way are counted, although LostPeer names a peer and not one of *)
(* its entries, and the peer may be back, or connected twice, by the time  *)
(* the event is handled: no entry outlives its connection, and none goes   *)
(* too early unless the peer's loss has been reported twice.               *)
NodesFollowEvents ==
    \A p \in Peer :
        LET listed == Cardinality({i \in DOMAIN nodes : nodes[i] = p}) + Coming(Ups, p)
            owed   == Coming({"lost"}, p) + live[p]
        IN  listed <= owed /\ (p \notin doubled => listed = owed)
=============================================================================
