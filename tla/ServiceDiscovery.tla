-------------------------- MODULE ServiceDiscovery --------------------------
(***************************************************************************)
(* Service discovery on the local network                                  *)
(* (src/src/service_discovery/mod.rs): a UDP socket, broadcasts that look  *)
(* for peers, replies to the peers that look for us, and observers that    *)
(* are told of every response.                                             *)
(*                                                                         *)
(* The state lives in the event loop, so its methods and the closures that *)
(* Service posts to it (start_service_discovery,                           *)
(* set_service_discovery_listen, has_peers_on_lan) are atomic steps.  The  *)
(* socket is registered edge-triggered: an event is raised when something  *)
(* arrives, and when reregister finds the socket ready, and at no other    *)
(* time.                                                                   *)
(***************************************************************************)
EXTENDS Naturals, Sequences, FiniteSets

CONSTANTS Peer,           \* the peers that look for us
          Observer,       \* the senders given to register_observer
          BroadcastPort,  \* the configured port, which broadcasts go to
          MaxPort,        \* u16::MAX
          BusyPorts,      \* ports other programs on this host may hold
          MaxInbox,       \* datagrams the kernel keeps for us
          MaxRequests,    \* bound: requests by peers
          MaxOther        \* bound: other datagrams that reach us

Ourselves == "ourselves"
ASSUME SelfAssumption == Ourselves \notin Peer

VARIABLES sd,             \* the ServiceDiscovery state and its socket
          busy,           \* the ports in use when the socket is bound
          dropped,        \* observers whose receiving end is gone
          requests,       \* how many requests peers have sent
          others          \* how many other datagrams have reached us

vars == <<sd, busy, dropped, requests, others>>

NoPort == 0
Down == [port |-> NoPort, listen |-> FALSE, reply_to |-> <<>>, observers |-> {},
         inbox |-> <<>>, readable |-> FALSE, writable |-> FALSE,
         asked |-> <<>>, answered |-> <<>>, registered |-> {}]
Up(s) == s.port # NoPort

Init ==
    /\ sd = Down
    /\ busy \in SUBSET BusyPorts
    /\ dropped = {}
    /\ requests = 0
    /\ others = 0

(* get_socket: the first port that can be bound, from the configured one   *)
(* up to u16::MAX.                                                         *)
GetSocket ==
    LET free == (BroadcastPort..MaxPort) \ busy
    IN  IF free = {} THEN NoPort
        ELSE CHOOSE p \in free : \A q \in free : p <= q

-----------------------------------------------------------------------------
(* What the methods do to the state s; outcome is what send_to returns.    *)

Outcome == {"sent", "blocked", "error"}

(* A mistaken Reregister: for readable only.                               *)
ReregisterReads(s) ==
    IF ~Up(s) THEN s
    ELSE [s EXCEPT !.readable = (s.inbox # <<>>), !.writable = FALSE]

(* poll.reregister: fails on a socket that terminate has deregistered;     *)
(* otherwise raises the events that are due.                               *)
Reregister(s) ==
    IF ~Up(s) THEN s
    ELSE [s EXCEPT !.readable = (s.inbox # <<>>), !.writable = (s.reply_to # <<>>)]

Terminate(s) == [s EXCEPT !.port = NoPort]

(* A mistaken Write: a reply that would block returns to the back.         *)
WriteToTheBack(s, outcome) ==
    IF s.reply_to = <<>> THEN Reregister(s)
    ELSE IF outcome = "error" THEN Terminate(s)
    ELSE IF outcome = "blocked"
    THEN Reregister([s EXCEPT !.reply_to = Append(Tail(@), Head(@))])
    ELSE Reregister([s EXCEPT !.reply_to = Tail(@),
                              !.answered = Append(@, Head(s.reply_to))])

(* write: one reply goes out; one that would block returns to the front.   *)
Write(s, outcome) ==
    IF s.reply_to = <<>> \/ outcome = "blocked" THEN Reregister(s)
    ELSE IF outcome = "error" THEN Terminate(s)
    ELSE Reregister([s EXCEPT !.reply_to = Tail(@),
                              !.answered = Append(@, Head(s.reply_to))])

ShouldRespond(s, d) == s.listen /\ d.from # Ourselves

Notify(observers) == observers \ dropped

(* read: one datagram.  A request is answered if we listen and it is not   *)
(* our own broadcast; a response goes to the observers, and those whose    *)
(* receiver is gone are forgotten; anything else is ignored.               *)
Read(s, outcome) ==
    LET d == Head(s.inbox)
        t == [s EXCEPT !.inbox = Tail(@)]
    IN  IF s.inbox = <<>> THEN s
        ELSE IF d.kind = "request" /\ ShouldRespond(s, d)
        THEN Write([t EXCEPT !.reply_to = Append(@, d.from),
                             !.asked = Append(@, d.from)], outcome)
        ELSE IF d.kind = "response"
        THEN [t EXCEPT !.observers = Notify(@)]
        ELSE t

(* A datagram reaches the socket's buffer, or is lost if that is full.     *)
Receive(s, d) ==
    IF Len(s.inbox) = MaxInbox THEN s
    ELSE [s EXCEPT !.inbox = Append(@, d), !.readable = TRUE]

-----------------------------------------------------------------------------
(* Service's closures                                                      *)

Start ==
    /\ ~Up(sd)
    /\ sd' = [Down EXCEPT !.port = GetSocket]
    /\ UNCHANGED <<busy, dropped, requests, others>>

SetListen(listen) ==
    /\ Up(sd)
    /\ sd' = [sd EXCEPT !.listen = listen]
    /\ UNCHANGED <<busy, dropped, requests, others>>

(* has_peers_on_lan and Bootstrap: register_observer and seek_peers.  The  *)
(* broadcast comes back to every socket bound to the port it goes to.      *)
Seek(o) ==
    /\ Up(sd)
    /\ o \notin sd.registered \cup dropped
    /\ LET s == [sd EXCEPT !.observers = @ \cup {o}, !.registered = @ \cup {o}]
       IN  sd' = IF s.port = BroadcastPort
                 THEN Receive(s, [kind |-> "request", from |-> Ourselves])
                 ELSE s
    /\ UNCHANGED <<busy, dropped, requests, others>>

(* has_peers_on_lan returns after a second, Bootstrap ends: the receiving  *)
(* end of the observer is dropped.                                         *)
DropReceiver(o) ==
    /\ o \in sd.registered \ dropped
    /\ dropped' = dropped \cup {o}
    /\ UNCHANGED <<sd, busy, requests, others>>

-----------------------------------------------------------------------------
(* The network and the event loop                                          *)

PeerSeeks(p) ==
    /\ Up(sd)
    /\ requests < MaxRequests
    /\ requests' = requests + 1
    /\ sd' = IF sd.port = BroadcastPort
             THEN Receive(sd, [kind |-> "request", from |-> p]) ELSE sd
    /\ UNCHANGED <<busy, dropped, others>>

(* A response to our broadcast, or something that does not deserialise.    *)
OtherArrives(kind) ==
    /\ Up(sd)
    /\ others < MaxOther
    /\ others' = others + 1
    /\ sd' = Receive(sd, [kind |-> kind])
    /\ UNCHANGED <<busy, dropped, requests>>

(* ServiceDiscovery::ready with the events that are due: read, then write. *)
Ready(o1, o2) ==
    /\ Up(sd)
    /\ sd.readable \/ sd.writable
    /\ LET s == [sd EXCEPT !.readable = FALSE, !.writable = FALSE]
           r == IF sd.readable THEN Read(s, o1) ELSE s
           w == IF sd.writable THEN Write(r, o2) ELSE r
       IN  sd' = IF Up(w) THEN w ELSE Down
    /\ UNCHANGED <<busy, dropped, requests, others>>

(* ready with an error event.                                              *)
ReadyError ==
    /\ Up(sd)
    /\ sd' = Down
    /\ UNCHANGED <<busy, dropped, requests, others>>

Next ==
    \/ Start
    \/ \E b \in BOOLEAN : SetListen(b)
    \/ \E o \in Observer : Seek(o) \/ DropReceiver(o)
    \/ \E p \in Peer : PeerSeeks(p)
    \/ \E kind \in {"response", "bogus"} : OtherArrives(kind)
    \/ \E o1, o2 \in Outcome : Ready(o1, o2)
    \/ ReadyError

(* The event loop serves every event, and the network takes a datagram     *)
(* sooner or later when it is offered again and again.                     *)
Fairness ==
    /\ WF_vars(\E o1, o2 \in Outcome : Ready(o1, o2))
    /\ SF_vars(Ready("sent", "sent"))

Spec == Init /\ [][Next]_vars
FairSpec == Spec /\ Fairness

-----------------------------------------------------------------------------
(* Properties                                                              *)

Datagram == [kind : {"request"}, from : Peer \cup {Ourselves}]
              \cup [kind : {"response", "bogus"}]

(* Type invariant.                                                         *)
TypeOK ==
    /\ sd.port \in {NoPort} \cup BroadcastPort..MaxPort
    /\ sd.listen \in BOOLEAN /\ sd.readable \in BOOLEAN /\ sd.writable \in BOOLEAN
    /\ sd.reply_to \in Seq(Peer) /\ sd.asked \in Seq(Peer) /\ sd.answered \in Seq(Peer)
    /\ sd.inbox \in Seq(Datagram) /\ Len(sd.inbox) <= MaxInbox
    /\ sd.observers \subseteq sd.registered /\ sd.registered \subseteq Observer
    /\ busy \subseteq BusyPorts /\ dropped \subseteq Observer
    /\ requests \in 0..MaxRequests /\ others \in 0..MaxOther

(* Every request taken is answered once and in order, however often        *)
(* send_to would block and whichever of read and write serves the queue.   *)
RepliesInOrder == sd.asked = sd.answered \o sd.reply_to

(* A reply that waits has an event coming that will send it.               *)
ReplyIsScheduled == sd.reply_to # <<>> => sd.writable

(* Every request taken is answered in the end, unless discovery stops.     *)
RequestAnswered ==
    \A n \in 1..MaxRequests :
        (Len(sd.asked) >= n) ~> (Len(sd.answered) >= n \/ ~Up(sd))
=============================================================================
