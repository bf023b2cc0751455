# A TLA+ model of Crust

Crust connects peers over TCP. This directory models how a node makes, accepts,
counts and drops its connections, what a connection promises to its users, and
the services around it (listening, whitelists, discovery, the event loop, the
example program). TLC checks the models, and TLAPS proves the central
properties of the node and of its heartbeats. Paths below are relative to
`src/src/` of the repository.

## The system and its parts

A node has any number of user threads and one event-loop thread.

| Part | Source | Modules |
|---|---|---|
| Connection map, shared behind a mutex | `main/types.rs`, `main/mod.rs` | `ConnectionMap` |
| Event loop: states by token, timers, tokens, posted closures | `common/core.rs`, `common/state.rs` | `Core`, `Node`; threads, mutex and shutdown in `EventLoop` |
| Active connection | `main/active_connection.rs` | `ActiveConnection`; its two timers in `Heartbeat` |
| Connect, its ExchangeMsg children, connection candidate | `main/connect/`, `main/connection_candidate.rs` | `Connect`; both ends in `PeerPair` |
| Incoming handshakes, reachability checks | `main/connection_listener/exchange_msg.rs`, `check_reachability.rs` | `Listener` |
| Bootstrap, its TryPeer children | `main/bootstrap/mod.rs`, `try_peer.rs` | `Bootstrap` |
| Service (the user's interface) | `main/service.rs` | an action of the module it acts on |
| Events | `main/event.rs` | what they add up to: `Core` (`user`), `Listening`, `CrustPeer` |
| Socket: framing, priorities, readiness | `common/socket.rs` | `Socket`; its promise in `MessageChannel` |
| Config refresher, shared configuration, whitelist | `main/config_refresher.rs`, `main/types.rs` | `Whitelist` |
| Connection listener, mapped TCP socket | `main/connection_listener/mod.rs`, `nat/mapped_tcp_socket/` | `Listening` |
| Service discovery | `service_discovery/mod.rs` | `ServiceDiscovery` |
| Example program | `../examples/crust_peer.rs` | `CrustPeer` |

How they interact: `Service::connect` looks the peer up in the map and posts a
closure. On the event loop it becomes a `Connect` with one `ExchangeMsg` per
address, each of which becomes a `ConnectionCandidate` on the same token once
the ids have been exchanged. An accepted socket becomes a listener's
`ExchangeMsg`, and then an `ActiveConnection` (the peer bootstraps off us) or a
`ConnectionCandidate` (the peer connects). Of the candidates between two peers
the side with the larger id chooses one, which becomes the `ActiveConnection`.
A `Bootstrap` tries its contacts with `TryPeer` children, and the first to be
granted becomes an `ActiveConnection`. All of them keep, in one entry per peer
of the map, how many handshakes are alive and which connection is active.

The modules build on each other as follows.

* `ConnectionMap`, `Core`, `ActiveConnection`, `Connect`, `Listener` and
  `Bootstrap` are operators. `Node` composes them into one node with a free
  environment, and `PeerPair` composes two copies of the connect path (two
  instances of `Connect` and `Listener`) with the TCP connections between them.
* `Socket` is the detailed specification of one direction of a connection and
  implements `MessageChannel`. `Node` and `PeerPair` use a connection at the
  level of `MessageChannel`: whole messages, in order.
* `Heartbeat`, `Whitelist`, `Listening`, `ServiceDiscovery`, `EventLoop` and
  `CrustPeer` are specifications of their own. What they share with `Node` is an
  input there: a timer that may fire, a whitelist that may refuse, an outcome of
  service discovery.
* Each specification `M` is checked through `MCM`.

## How the code is modelled

### The node (`Node` and its operators)

* **One record for what the loop owns.** `core` has the states by token, the
  pending timers, the token counter, the map, and what the events sent so far
  amount to. Each method of a state is an operator from one `core` to the next.
  A handler that calls its parent, which terminates the other children, is a
  composition of operators and one step, as it is on the event-loop thread.
  `posted` is the channel of closures.
* **A step** is one critical section and post of a user thread, one closure, or
  one event or timeout handed to one state.
* **Tokens.** 0 is `BOOTSTRAP_TOKEN`; `get_new_token` counts from 1. The other
  reserved tokens do not appear.
* **Timers** are `<<token, id, "held">>`, or `"stale"` when the code has lost the
  handle that could cancel them. Time is not modelled: a timer that is set may
  fire at any moment.
* **Integers.** `currently_handshaking` is a `usize`: arithmetic wraps at
  `UsizeMax`, as in a release build.
* **Sockets.** A socket call is one of its outcomes (done, in part, error). What
  a message says is the case of the handler it leads to. Name hashes,
  whitelists, `accept_bootstrap` and our own id decide which case, and are
  inputs.
* **Peers** send one message during a handshake and wait for the answer, as this
  code does; with the rare event `second_request` they may send another request
  while the first is being answered. In all other respects they are free. The
  model leaves out that one event makes a handshake's socket both readable and
  writable, and that the socket fails twice in one event. (A request written only
  in part, followed by a write and a read that fail in one event, would run
  `ExchangeMsg::terminate` twice. The request is one short message on a fresh
  socket.)
* **Failures to start.** `Connect::start` and `ExchangeMsg::start` get the
  timers they ask for. A reachability check that cannot be started counts as not
  listed, and the token it used up is not skipped.
* **Rare events.** `Admitted` names the failures that a model includes:
  `register` (mio refuses a socket), `set_timeout` (its timer is full when a
  heartbeat is made), `both_fail` (a write and the read after it fail in one
  event), `seek_error` (service discovery cannot send), `known_bootstrap` (a
  bootstrap is granted by a peer that already has an entry in the map) and
  `second_request` (a peer sends a further request to our listener while the
  first is being answered).

### Two nodes (`PeerPair`)

`core[n]` is the record above for each node, `posted[n]` a closure of `connect`
that waits, and `links` the TCP connections between the two: who opened it, the
token of its socket at either end, the messages under way. What one node writes
is what the other reads, and a state that ends closes its socket under the other
end, which finds out by a later hang-up event. Only the connect path is
composed: both users may call `connect` (and, in some runs, `disconnect`), and
the handshake timers may run out.

### One connection (`Socket`, `MessageChannel`, `Heartbeat`)

* `Socket`: a byte is a pair of a message and a position in it, so that a mixed
  up stream is visible. The two kernel buffers hold `Window` bytes; `write` and
  `read` take as much as is there. `write_queue`, `current_write`, the length the
  reader has read and the bytes it holds are the fields of `SockInner`. Readiness
  is edge-triggered: `readable_event` and `writable_armed` say what mio still has
  to tell.
* `MessageChannel`: queues by priority, a message under way, messages delivered.
  `ImplementsChannel` maps a message to the abstract `sending` as soon as its
  first byte may leave, and to `delivered` when the reader has decoded it.
* `Heartbeat`: discrete time. A timer and a message carry the time they have
  left, and the clock waits for whatever is due.

### Around the connections

* `Whitelist`: the file, the `ConfigWrapper` with its flag
  `is_modified_for_next_refresh`, and per peer whether it is connected or in a
  handshake that has passed its check. Each check, update, refresh and purge is a
  step.
* `Listening`: starts are numbered, and the number stands for the mapping's
  token, socket and addresses. IGD threads answer through the same queue of
  closures as the Service's calls; STUN children and the timeout are events.
* `ServiceDiscovery`: the socket with its inbox and edge, the reply queue, the
  observers. The choice of the port is in `Init`, over which ports are taken.
* `EventLoop`: who holds the mutex of the map, where the loop is, the queue of
  closures, and per thread where it is in its call. A step reaches from one wait
  to the next.
* `CrustPeer`: the two threads of the example between its two mutexes, the
  tables of peers and connection infos, and the channels. Of the Service it keeps
  what `ActiveConnection::start` and `terminate` do to the map and to the events:
  how many connections a peer has (`live`), whether the map names one
  (`connected`), and `LostPeer`, which can be sent twice for one connection.

`PROJECT.json` maps every definition to its lines.

## Properties

| Property | Says | Code |
|---|---|---|
| `TypeOK` | types, the count included | all |
| `ActiveTokenIsLive` | the map names only live connections of the right peer | `active_connection.rs:99`, `:219` |
| `HandshakesCounted` | `currently_handshaking` is the number of handshakes alive | every `start` and `terminate` |
| `EntryHasOwner` | an entry exists only with something alive behind it, and every handshake has one | same |
| `ChosenConnectionUnique` | one connection per peer with a smaller id, known to the map | `connection_candidate.rs:84` |
| `FamiliesAgree` | children sets and parent pointers agree; no child outlives its parent | `terminate_children` |
| `PostedTokenIsOwn` | a stale token names nothing, never another connection | `service.rs:435-464` |
| `TokensMoveForward` | tokens are never reused, connections never go back | `core.rs:184` |
| `EventsMatchConnections` | announcements minus `LostPeer` is the number of connections | `active_connection.rs:116`, `:234` |
| `BootstrapHasOneOutcome` | a bootstrap reports one outcome, once | `bootstrap/mod.rs` |
| `TimersMatchStates` | each state has its timers, none is left behind, `unwrap!(sd_meta)` is safe | all `terminate` |
| `AttemptsEnd` | every Connect, incoming handshake and Bootstrap ends | the timers |

The other modules, each with a type invariant besides:

| Property | Says | Code |
|---|---|---|
| `PeerPair`: `OneConnection` | whatever is opened at once, a node has one active connection, the one in its map | `connection_candidate.rs` |
| `SmallerFollows` | the smaller id is active only where the larger id chose | same |
| `PeersConnect`, `PeersAgree` | both end up with the same connection; after closes and timeouts, with the same connections and no handshake left | the whole connect path |
| `Socket`: `StreamIntact` | what is still to be read is exactly the rest of what was begun | `socket.rs:180-330` |
| `ReaderFailsForCause` | the reader gives up only for a close or an oversized message | same |
| `ImplementsChannel` | the refinement of `MessageChannel` | same |
| `UrgentDelivered` | no readiness event that an urgent message depends on is lost | same |
| `Heartbeat`: `NoFalseInactivity`, `DeathIsNoticed` | a live peer is never dropped for inactivity; a dead one is noticed in time | `active_connection.rs`, `Heartbeat` |
| `Whitelist`: `UnlistedWillBePurged`, `EditsTakeEffect` | what a configuration in force disallows is dropped at the next refresh; an edit takes effect | `config_refresher.rs`, `main/types.rs` |
| `Listening`: `IgdCounted`, `OneOutcomePerStart` | IGD answers are counted, a start has one answer | `mapped_tcp_socket/mod.rs` |
| `StartAnswered`, `BacklogServed` | starts are answered, waiting connections are accepted unless `accept` fails | same, `connection_listener/mod.rs` |
| `ServiceDiscovery`: `RepliesInOrder`, `ReplyIsScheduled`, `RequestAnswered` | every request taken is answered, once, in order | `service_discovery/mod.rs` |
| `EventLoop`: `PostedAreRun` | a loop ended by its owner has run all it accepted | `core.rs` |
| `CallsReturn`, `DropReturns` | no call and no drop waits for ever, even if the loop dies | `core.rs`, `service.rs` |
| `CrustPeer`: `TablePanicsNever` | no token is stored twice, no index has gone between lookup and removal | `crust_peer.rs` |
| `NodesFollowEvents` | a peer's entries are its connections, once the events on their way are counted; only a loss reported twice removes an entry too early | same |

## Runs

`OurId` is 2, so that a peer can have a smaller or a larger id. `UsizeMax` is 7 in
`all` and 4 in `rare`, above every count that is reached without wrapping.

| Run | Bounds | Shows |
|---|---|---|
| `all` | a smaller and a larger peer, 3 tokens, 2 sockets, all methods | handshakes, bootstraps and disconnects in every order: counts, entries, events, bootstrap outcomes and timers are exact, parents and children agree, one connection to a smaller id; under fairness attempts end |
| `rare` | a larger peer, 3 tokens, 1 socket, `connect`, `disconnect` and `start_bootstrap`, all rare events but `seek_error` | what holds whatever fails |

The bounds are on tokens ever given out (`MaxToken`), closures waiting
(`MaxPosted`) and sockets per attempt (`MaxSockets`). Three tokens are enough for
a Connect with two children, for a Connect and an incoming handshake with the
same peer, for a Bootstrap with two attempts and an incoming handshake, or for
three incoming handshakes. TLC's deadlock check stays on: even when the tokens
are used up, the user can post or the loop run what is posted.

Which rare event breaks what, as TLC finds: `register` and `seek_error` break
`TimersMatchStates`; `set_timeout` breaks `HandshakesCounted`,
`EventsMatchConnections` and `BootstrapHasOneOutcome`; `both_fail` breaks
`EventsMatchConnections`; `known_bootstrap` breaks `HandshakesCounted`,
`EntryHasOwner` and `ChosenConnectionUnique`; `second_request` breaks
`HandshakesCounted`, `EntryHasOwner` and `FamiliesAgree` (a second handshake is
counted for one state, and reachability checks outlive their parent). This is why
those properties are checked with `Admitted = {}`, and the others with the rare
events. `seek_error` would double the states of `rare`; the theorems cover it.

The runs of the other modules:

| Run | Bounds | Shows |
|---|---|---|
| `pair_connect` | one `connect` each, up to 2 addresses, 3 TCP connections | simultaneous open: one connection, the same at both ends, and it stays |
| `pair_faults` | two `connect`s each, 1 address, 2 TCP connections, disconnects and timeouts | whatever is closed, the two agree in the end |
| `pair_told` | one each, disconnects | *violated*: a connection alive at both ends and `is_connected` false |
| `socket` | 3 messages, 3 priorities, bodies of 2 and 3 bytes, limit 2, header 2, window 2 | framing under partial reads and writes, drops and closes; the refinement; urgent messages arrive |
| `heartbeat_time` | timeout 7, period 2, latency 2 | no false inactivity, deaths noticed |
| `whitelist_purge` | 2 peers, 3 node and 2 client lists, 2 edits | purges and edits |
| `listening` | 2 starts, 2 closures, 2 gateways, 1 STUN server, 2 waiting, failing `accept` | counts, outcomes, answers, waiting connections |
| `discovery` | 2 peers, 2 observers, inbox 2, 2 requests, 1 other datagram, ports up to `u16::MAX` | replies and answers |
| `event_loop` | 2 threads, 2 calls each, 2 connections | no deadlock, nothing accepted is lost |
| `example` | 2 peers, 3 connections made, 2 infos, 2 events, with and without `--speed` | the tables |

Why these bounds are enough. A socket needs a window smaller than a frame, a
body over the limit, and three messages: one under way, one that expires and one
that overtakes. The heartbeat times keep the proportion that matters
(`TimesAssumption`: a period and two latencies within the timeout; 20 s and 120 s
leave 49 s for a message). Two starts, threads, peers or edits are what a race
between two of them takes, and the third connection of `CrustPeer` lets a peer
come back before its loss was handled, or have two connections, beside another
peer. Its `--speed` channel keeps only what the speed test will still read. Deadlock is not checked where the system
may stop: when the users of a pair have made their calls, when a connection is
closed, when the loop has ended, when the listener has nothing to do, or when
the example's threads wait for each other (below).

**Fairness.** Nothing is assumed of users or of what a peer says.

* `Node` (`all`): weak fairness of running posted closures, which the inner
  loop of `event_loop_impl` does whenever there is one, and of each state's own
  timer, which mio delivers. `AttemptsEnd` does not cover the
  `ConnectionCandidate` of an incoming handshake: `ExchangeMsg::done` cancels the
  timer and the candidate sets none.
* `PeerPair`: weak fairness of each node's event loop.
* `Socket`: weak fairness of the loop's handling of readiness and of the arrival
  of bytes that were sent (TCP delivers, or the connection ends).
* `Whitelist`: the refresh timer fires, and the file is readable again and again.
* `Listening`: the loop runs its queue and its readable events, and mio delivers
  the mapping's timeout. IGD threads and STUN servers need not answer.
* `ServiceDiscovery`: the loop serves its socket, and `send_to` succeeds again
  and again.
* `EventLoop`: threads go on, and a thread that waits for the mutex gets it if it
  is free again and again (strong fairness of the lock).

## Where code and documentation disagree

`pair_told` is kept as a run. Each user has called `connect` once, and two
handshakes overlap. The first becomes active at the larger id, whose user
disconnects it, and the second then becomes active there. The smaller id, slower,
reads both ChooseConnections and has two active connections, of which its map
names one. When the first ends, by its hang-up or by `disconnect`,
`ActiveConnection::terminate` clears the entry without comparing tokens
(`active_connection.rs:221`). `is_connected`, which is to "Check if we are
connected to the given peer" (`service.rs:533`), is then false although the second
connection is alive at both ends.

The following were met while modelling. The models have the behaviour, and the
properties are stated so that they hold in spite of it; no run is kept for them.

1. `ActiveConnection::start` decrements a count that a bootstrap never
   incremented (`active_connection.rs:107`, rare event `known_bootstrap`). With an
   existing entry the count is one too low, or wraps, and the entry outlives its
   connections. `connect()` then answers as for a peer that is "Already connected
   OR already in process of connecting to" (`service.rs:400`).
2. If `Heartbeat::new` fails the handshake stays counted
   (`active_connection.rs:82`, `set_timeout`), with the same result. The code has
   a TODO there.
3. `ConnectionCandidate::read` does not look for an active connection: with a
   peer of a larger id there can be two, of which the map knows one.
4. A write and a read that fail in one event terminate the connection twice and
   send `LostPeer` twice (`active_connection.rs:200`, `both_fail`).
5. `Connect::terminate` withholds `ConnectFailure` while another handshake with
   the peer goes on (`connect/mod.rs:266`), and nobody sends it later: a user who
   called `connect` may never hear of it again.
6. `Socket::write` checks no size and nothing sends `WriteMsgSizeProhibitive`,
   "Invoked when trying to sending a too large data" (`event.rs:48`). The receiver
   terminates the connection (`socket.rs:215`).
7. The whitelist is checked when a request is read (`exchange_msg.rs:325`), the
   purge looks only at active connections. A handshake in between stays, although
   only those listed "are allowed to bootstrap off us or to connect to us"
   (`config_handler.rs:48`). `UnlistedWillBePurged` excepts it (history `late`).
8. A stop while the socket is being mapped finds nothing to stop
   (`service.rs:371`), against "Stops Listener explicitly" (`service.rs:369`).
9. A second start made meanwhile replaces the first listener (`service.rs:348`),
   which was to be "persistant until it errors out or is stopped"
   (`service.rs:330`).
10. `accept` returns on the first error (`connection_listener/mod.rs:182`); with
    an edge-triggered socket the others wait until a new connection comes.
    `BacklogServed` excepts it (history `erred`).
11. `read` of service discovery takes one datagram per event
    (`service_discovery/mod.rs:114`), also edge-triggered.
12. With the configured port taken, the next is bound
    (`service_discovery/mod.rs:213`), where no seeker asks.
13. In the example a peer that is lost stays in the table until the event is
    handled; `unwrap!` of `send` panics (`crust_peer.rs:488`).
14. The example's event thread locks `service`, then `network`
    (`crust_peer.rs:331`), its commands the other way round: each can wait for the
    other for ever.
15. The speed test never lets go of `network` (`crust_peer.rs:400`), so a second
    peer ends in a deadlock.

## Proofs

### The node

For every set of peers, every bound, every choice of `UserOps` and, except as the
last column says, every choice of `Admitted`:

| Theorem | Establishes | Assumes |
|---|---|---|
| `Invariance` | `IInv` | `OneRequest` |
| `TypeCorrect` | `TypeOK` | `OneRequest` |
| `MapNamesLiveConnections` | `ActiveTokenIsLive` | `OneRequest` |
| `ParentsAndChildrenAgree` | `FamiliesAgree` | `OneRequest` |
| `PostedTokensAreOwn` | `PostedTokenIsOwn` | `OneRequest` |
| `TokensOnlyMoveForward` | `TokensMoveForward` | `OneRequest` |
| `CountsAreExact` | `HandshakesCounted` | `Exact` |
| `EntriesHaveOwners` | `EntryHasOwner` | `Exact` |
| `ChooserKeepsOne` | `ChosenConnectionUnique` | `Exact` |
| `LeaveManyIterates` | `LeaveMany` is `Leave`, repeated | an entry as `IInv` has it |

`OneRequest` excludes `second_request`: the one invariant below carries all the
theorems, and it contains `FamiliesAgree`, which `second_request` breaks. `Exact`
excludes `set_timeout` and `known_bootstrap` besides, the other rare events under
which TLC shows the counts to be wrong. With `second_request`, `TypeOK`,
`ActiveTokenIsLive`, `PostedTokenIsOwn` and `TokensMoveForward` are model-checked
(`rare`). The named assumptions on constants are
`PeerAssumption`, `BoundAssumption` (tokens are fewer than `UsizeMax`),
`OurIdAssumption` and `NodeAssumption`; TLC evaluates them on every run.

The inductive invariant `IInv` (`NodeInvariant`) has these parts:

* `Shape`: what a state of each kind looks like. Tokens not given out have no
  state, only token 0 holds a Bootstrap, a listener's exchange that has begun
  its handshake has no reachability children, a Bootstrap that waits for service
  discovery has no TryPeer, a candidate that reads has a peer with a larger id.
* `Families`: `FamiliesAgree`, and that the children of a Connect share its peer.
  Without it `terminate_children` could leave a handshake of another peer.
* `MapOK`: `ActiveTokenIsLive`, and that a missing entry is `Vacant`.
* `CountInv`, under `Exact`: the count, that entries are in use, and that the map
  holds the one connection to each smaller peer.
* `PostedInv`: a posted token was given out, and its state is gone or its own.

A handler is a composition of operators, and between two of them the count is
off by one: a candidate has left the states and is not yet active in the map. So
the invariant of a core has a parameter `q`, the peer whose handshake is in the
count and not in the states, and each operator has a lemma that says how it
changes `q`. `ConnectProofs`, `ListenerProofs` and `BootstrapProofs` hold the
lemmas of the handlers, `NodeProofs` one lemma per action and the theorems.

The modules: `ConnectionMapProofs` on the map, `NodeInvariant` with `IInv` and
the lemmas of `ActiveConnection`, `HandlerProofs` with the lemmas that all
handlers share and what a step may do to tokens, then the three modules of
handlers, and `NodeProofs`.

### The heartbeats

`HeartbeatProofs`, for every `INACTIVITY_TIMEOUT`, `HEARTBEAT_PERIOD` and
`Latency` that satisfy `TimesAssumption`:

| Theorem | Establishes |
|---|---|
| `HeartbeatInvariance` | the inductive invariant below |
| `LivePeersAreKept` | `NoFalseInactivity` |
| `DeadPeersAreNoticed` | `DeathIsNoticed` |

`NoFalseInactivity` says nothing of the time that is left, so it is strengthened
by `HeardInTime`: when the other end is up, either a message that arrives before
the receive timer runs out is under way, or the heartbeat it is still to send
will arrive in time; when it has yet to join, the ChooseConnection message, a
period and a latency fit into the time left. This is where two latencies come
into `TimesAssumption`. A step of the clock lowers both sides of each inequality,
because it waits for what is due. `DeathIsNoticed` needs `LastWords`: what is
under way from a dead end left before it died.

### Only model-checked

* `EventsMatchConnections`, `BootstrapHasOneOutcome` and `TimersMatchStates` of
  `Node`: their invariant would have to follow events and timers through every
  handler.
* All properties of the modules other than `Node` and `Heartbeat`. The refinement
  of `MessageChannel` speaks of concatenated frames, whose facts need induction
  on sequences, which the prover cannot instantiate.
* Every liveness property: outside the prover's reach.

## Not modelled

* `prepare_connection_info` collects addresses and keeps no state of its own.
* Hole punching (`nat/punch_hole`, `Connect::accept`) is unreachable while
  `service.rs` sets `DISABLE_NAT`; `MappingContext` is a list of servers and
  gateways that is filled once.
* The bootstrap cache is a file of addresses; that it cannot be opened is an
  outcome of `BootstrapStart`.
* Interface addresses (`get_if_addrs`) are calls of the operating system.
* Message and error types appear as the cases of the handlers. What a serialised
  message looks like beyond its length, command-line parsing and printing are
  left out.
* `Node` admits no socket that fails twice in one event during a handshake (see
  above), and no timer failures other than `set_timeout`.
