# Pipistrelle: a verification project in TLA+

Pipistrelle is an MQTT 5 broker in Rust. This directory models the part of it that is hard to
test: its concurrent session handling over a subscription trie and a database that is written
in the background; the way a connection puts packets together from bytes and gets its answers
out; the bridge to a remote broker; the certificate files. TLC checks the models on small
instances; TLAPS proves for all instances that the trie implements a table of subscriptions,
that deliveries are permitted and numbered soundly, that what is subscribed is saved and in
what one way a message in transit is not, that a decoding undoes encoding for every packet,
that a connection handles its packets and sends its answers in order however its bytes are
cut, that the bridge keeps the order of messages, and that certificates are not overwritten.

## 1. Inventory

| Component | State | Operations | Talks to |
|---|---|---|---|
| Topic router (`router.rs`) | a trie under one `RwLock`: children, `+` and `#` child, ordinary subscriptions and shared groups per node | `subscribe`, `unsubscribe`, `match_topic` | called by the broker state |
| Access control (`config.rs`) | users and rules, read once at start | `load`, `authenticate`, `authorize`, a matcher of its own | called by the connection handlers |
| Broker state (`session.rs`) | session table, group counters, metrics, bridge queue; per session the packet id counter and the messages in flight | `register_session`, `remove_session`, `subscribe`, `route_publish`, `graceful_shutdown`, `restore_sessions_from_db` | router, channels of all sessions, spawned database writes |
| Connection handling (`main.rs`) | per connection a read buffer, a session, a channel and a writer task | CONNECT, PUBLISH, SUBSCRIBE, PUBACK, PINGREQ, DISCONNECT, end of the connection | broker state, its client's socket |
| Persistence (`persistence.rs`) | three SQLite tables behind one mutex | three saves, three deletes, three loads | written by tasks nobody awaits, read at start |
| Codec (`codec.rs`) | none | encode and decode packets | handlers, bridge |
| Bridge (`bridge.rs`) | a connection to a remote broker and a queue | connect, forward, receive, ping, retry | `route_publish`, bridge queue |
| WebSocket adapter (`websocket.rs`) | read cursor, write buffer | the four polls of a byte stream | under a connection handler |
| TLS certificates (`tls.rs`) | two files | create them when missing | start-up |
| Metrics (`metrics.rs`) | none of its own | report the counters | reads the session table |

**What is hard.** Every connection has its own task on a multi-threaded runtime,
so a PUBLISH is routed while others connect, subscribe, are replaced and leave.
The end of a connection cleans up by client identifier, not by session. Database
writes are fire-and-forget tasks: they run in any order, after their caller has
answered its client, or never when the process ends. A restart rebuilds the
sessions and the trie from whatever was written. Below that, a packet may arrive in
any number of pieces, lengths inside a packet may contradict it, and a writer may be
held up or fail while its reader goes on. The bridge takes messages from a queue
before it knows that they can be sent. `PROJECT.json` lists these hazards line by
line.

**What makes each part correct.** The router holds each subscription once and delivers each
match once (`ImplementsTable`), frees what it empties (`NoDeadBranches`) and decides as the
access rules do (`RouterAgreesWithAcl`). The session table names only sessions somebody serves
(`RegisteredIsLive`). Deliveries are permitted at both ends (`AuthorizedDelivery`), complete
before the publisher is answered (`AckMeansDelivered`) and numbered soundly (`PacketIdCycle`).
The database can be read back at any moment (`SavedWell`), holds what is subscribed
(`SubscriptionsDurable`) and keeps a message in transit until a later write takes its row
(`InTransitKept`). A connection handles each packet once, in order and as it was sent
(`StreamHandledInOrder`), leaves none waiting but those that came with the CONNECT
(`OnlyPipelinedWaits`, `EverythingHandled`), and its client gets the answers in order
(`AnswersInOrder`, `TcpRepliesArrive`); what was encoded decodes as itself (`ScriptDecodes`),
and only a damaged will makes the task panic (`OnlyWillPanics`). The bridge loses messages
only from its hand and its connection, keeps their order in both directions
(`ForwardedInOrder`, `RoutedInOrder`, `QueuedIsForwarded`) and comes back after every error
(`Reconnects`). A certificate that has its key is not overwritten (`PairIsKept`).

## 2. Modules

```
Topics      levels, parse_shared_subscription, the access-rule matcher, reference matching
Maps        HashMap::insert and remove, INSERT OR REPLACE and DELETE
Router      the trie as a value, and its three operations
  SubscriptionTable   abstract: a flat table of subscriptions
  RouterSystem        a router in use; implements SubscriptionTable
  RouterTests         the repository's unit tests as assumptions
  RouterLemmas        induction, and what the operators of Router return
  RouterProofs        theorems and proofs
  MCRouter            instance
Auth        AuthConfig
Persistence the tables and the pending writes
Broker      main.rs and session.rs over Router, Auth and Persistence
  BrokerProperties    everything stated about Broker
  MCBroker            instances
  BrokerProofs        theorems and proofs: types, session table, rows
  DeliveryProofs      theorems and proofs: permission, packet ids, durability,
                      answers, removals of sessions
Varint      variable byte integers
Codec       readers, writers and property tables, over Varint
Packets     decode_packet and encode_packet, over Codec
  PacketTypes         what the packet structs can hold, and what of it can be written
  CodecProofs         theorems and proofs
Connection  one connection byte by byte: read loop, writer task, WebSocket adapter
  PacketStream        abstract: packets handled in order, once, as they were sent
  ConnectionProperties  everything stated about Connection; implements PacketStream
  MCConnection        scripts of packets
  ConnectionProofs    theorems and proofs
Bridge      the loop of the bridge, its queue, both directions and the back-off
  LossyChannel        abstract: messages arrive in order and at most once
  BridgeProperties    everything stated about Bridge; implements LossyChannel twice
  MCBridge            instance
  BridgeProofs        theorems and proofs
Certificates  the certificate and its key, generated, loaded, and crashes in between
  CertificatesProofs  theorem and proof
```

`Broker` and `Connection` describe the same handlers at two levels. `Broker` takes a
complete packet as its input and models what it does to the broker, with several
clients at once; `Connection` models how one client's bytes become packets and what
becomes of the answers, with the rest of the broker reduced to deliveries that may come
at any time. They meet in the packets handled (`log` there, the actions of `Receive`
here), in the channel (`sent` there, `out` here), and in the ways a handler ends: end of
the read loop, failing writer, panic. `Broker` and `Bridge` meet in `route_publish`,
whose hand-over is an action of both.

### Router

A trie is a record: `nodes`, the set of paths at which a `TrieNode` exists; `subs`,
the entries of all `subscriptions` maps; `shared`, for a node and a group the list of
members. A topic is a sequence of levels, as the code only ever looks at it through
`split('/')`. `Visited` follows `match_recursive` node by node, in its order, with a
recursive function instead of a recursive operator. The lock makes every call atomic,
so `RouterSystem` has one action per call. `reply` keeps the call and what it returned, so
that the refinement compares answers too.

### Broker

| Variable | Code |
|---|---|
| `sessions` | `BrokerState.sessions`: client to session |
| `meta`, `next_packet_id`, `in_flight` | the fields of a `ClientSession`; a session is named by its connection, a restored one by its client |
| `phase`, `work` | where a connection's task is: before CONNECT, registered without CONNACK, in the read loop, in `route_publish` or in the loop of SUBSCRIBE |
| `writer`, `out` | whether the writer task holds the receiver, and all that was sent to the channel |
| `trie`, `shared_group_counters`, `metrics`, `bridge_queue` | the rest of `BrokerState` |
| `running`, `loading` | the process, and the rows the restore has still to replay |
| `db`, `tasks` | the tables, and the bag of spawned writes |
| `reads`, `restarts` | counters for bounds |

Each action is a stretch of the code between two points at which another thread can
get in:

* `Connect` is `register_session` with what surrounds it; `SendConnAck` comes later,
  and other handlers may deliver in between.
* `Publish` counts, hands the message to the bridge's queue and takes the route as a
  snapshot. `DeliverNormal` and `DeliverShared` each do one round of the loops, and
  `FinishPublish` queues the PUBACK. The counter, the queue and the match are one step:
  the first two are read by nobody who also reads the trie.
* One delivery is one step. The code holds the read lock of `sessions` throughout, so
  the session cannot be registered anew or removed meanwhile. Two publishers may hold
  that lock together and queue two packets in the other order than they took ids: `out`
  lists the packets of a session in the order of their ids.
* SUBSCRIBE is served filter by filter (`SubscribeFilter`), each with its write.
* `Panic` is the end of a task that slices past the end of a will: nothing is cleaned
  up, the session stays registered and its writer task runs on.
* `Exit` is the end of the read loop for whatever reason, with `remove_session` and the
  abort of the writer; between these two nothing but a failing send can happen.
* `WriterFails` ends the writer task and leaves the rest alone, as the code does.
* `Shutdown` is Ctrl-C, `Stop` the end of the process at any moment, `Restore...` the
  three phases of `restore_sessions_from_db` before the listeners start.
* `RunTask` runs any pending write; `TaskFails` drops one, of `delete_session` any part;
  a `Stop` may fall between the statements of a `delete_session`.

Data the properties cannot tell apart are small: a payload is the identity of its
message (connection and number), QoS and subscription identifier of a subscription are
one value `info`, a password is itself the hash that accepts it. `BrokerState::unsubscribe`
is never called (UNSUBSCRIBE does not decode) and is therefore no action of `Broker`.

### Codec and Packets

Decoding is a pure function: a reader takes a sequence of bytes and returns an error or
a value with the bytes that are left, and `Then` is the `?` operator. The seven pairs of
property decoders and encoders of the source are one pair of operators over seven tables
of identifiers and types; the tables list the identifiers in the order in which the
source encodes them. A complete frame can raise `Incomplete` (a field runs past its
end), `MalformedPacket`, `InvalidVarint`, `UnsupportedProtocolVersion`, or panic (the
slices of the will). A `u32` that is only copied is its four bytes, strings are ASCII
or contain the byte 255, which is never valid UTF-8. `PacketTypes` says which values the
structs can have (`IsPacket`) and that the remaining length fits into its four bytes
(`Encodable`).

### Connection

| Variable | Code |
|---|---|
| `script`, `input` | what the client sends, as items and as the bytes not yet taken from the network |
| `read_buffer` | the adapter's frame from `read_cursor` on |
| `read_buf`, `pc` | the buffer and the place of `handle_connection` |
| `log` | the packets handled, CONNECT first |
| `queue`, `hand`, `writer` | the channel, the message in the writer task's hands, and where that task is |
| `write_buffer`, `sink` | the adapter's buffer, and what the WebSocket library holds unflushed |
| `wire`, `sent` | what reached the client, and all that was ever given to the channel |
| `transport`, `fresh` | TCP or WebSocket; nothing was read after the CONNECT's read |

`FirstRead` is the one read that must bring the whole CONNECT. `Read` and `Decode`
alternate as the two nested loops do; each `Decode` is one turn of the inner one, with
every outcome of `decode_packet`. The read sizes are free: `Chunks` is what a segment or a
frame brings, `Rooms` what fits into the buffer that the adapter is given. The writer
task runs beside the reader (`TakeMessage`, `SocketWrite` or `Flush`), and may fail.
`AnswerPing` is the one event that flushes the sink from outside. Incoming bytes are
bytes; outgoing packets are kept whole, as a write is only interrupted by the end.

### Bridge

Messages of each direction are numbered as they are published. `queue` is the unbounded
channel, `hand` the message that is being written, `uplink` what was written and has not
arrived, `downlink` what was sent and not read. `phase` follows `connect_and_run_bridge`
and the loop around it. `Fail` stands for every error at any point; the connection with
what is under way is lost up to some point (`StreamLost`), the queue is not.

Three things that go wrong are no errors to the code, and `stuck` and the phase "ended" are
for them. `Hang`: only the wait for the CONNACK has a timeout, so a TCP connection, a TLS
handshake or a write whose peer is silent keeps the task waiting; `Resume` is a late answer.
`Stall`: a complete frame with a field that is too short is `Incomplete`, and the read loop
waits behind it while local messages go on. `Panic`: the decoder is the one of the
connections and panics at a damaged will; the bridge has one task, which nothing starts
again, and its queue is closed. `MaxFailures` bounds the times that something goes wrong, so
that the properties about what happens in the end have an end.

### Certificates

Each file is absent, empty, torn, or the certificate or key of the n-th generation. The
steps are those of `ensure_certificates` (two creations and two writes), of `main`
(which logs an error and goes on), and of the loading. `Crash` may come at any of them;
the service file has `Restart=always`, hence `Start`.

## 3. Runs

Passing runs. (Every run of the broker also evaluates `RouterTests`.) Each asks one
question on the smallest instance in which its cases happen; together they take every
action.

| Run | Instance | Shows |
|---|---|---|
| `router` | 2 clients, 4 filters (`a/#`, `a/#/b`, two filters of one group), 2 infos, 4 topics, any sequence of calls | the trie implements the table and agrees with the access-rule matcher |
| `delivery` | publisher and subscriber, 3 connections, also with a wrong password; overlapping ordinary and shared filters, denied topics and filters, acknowledgements, ids 1 and 2 (`PidMod` 3), 3 packets, bridge on | permission at both ends; the answer means delivered, with takeovers in the middle, and one copy per group; ids at the wrap |
| `recovery` | lasting client, 2 connections, 3 packets (a SUBSCRIBE and two messages), 2 restarts, fairness | of the subscriptions what was written, and only that, comes back; what is in transit, contents included, leaves database and pending writes only when another write takes its row; writes happen, the broker boots |
| `faults` | anonymous client, 2 connections, QoS 0 and 2, 1 restart, every failure and the panic allowed | the table and the promise survive failures |
| `connection` | 11 scripts, TCP and WebSocket, pieces of 1, 16 and 60 bytes, adapter reads of 40, one delivery, fairness | decoding undoes encoding, packets once and in order, answers in order, nothing left waiting |
| `bridge` | 3 local and 2 remote messages, forwarded and not, from the bridge's name and another, 4 times that something goes wrong, fairness | order, no duplicates, the queue survives, the bridge comes back unless its peer is silent for ever or its task has panicked |

**Bounds.** `MaxPackets` bounds the packets of all connections together, `MaxRestarts` the
ends of the process, `Conns` how many connections there ever are. A takeover needs two
connections and its after-effect a third; a delivery needs a SUBSCRIBE and a PUBLISH, and one
SUBSCRIBE with overlapping filters gives three copies of one message, which is past the wrap
of the two ids that `PidMod` 3 leaves. A subscription is lost, replayed and lost again with
two restarts. A packet id is used twice when a client gets a message in each of two sessions,
which is a SUBSCRIBE, two PUBLISHes and two connections (`recovery`, which leaves
acknowledgements to `delivery` and to the theorem `MessagesKept`). Connections are
interchangeable, which `ConnSymmetry` uses; under liveness, where symmetry is not sound,
`InTurn` has the second connection open after the first, and so leaves out behaviours that are
others' with the two names swapped. Where there is no restart the database is only written:
`WithoutDb` leaves `db` and `tasks` out of the view by which states are told apart, which is
sound because no guard, no other variable and no property of those runs depends on them.
Deadlock is not checked for `Broker`, since with bounded packets and connections it may come
to rest; `router` checks it.

The scripts of `connection` have every packet type a broker decodes but CONNACK and PINGRESP,
with and without properties, a length of two bytes, a will, a login, refusals, a second
CONNECT, and four frames that are no packet. Pieces of one byte cut every field everywhere, 16
bytes are the whole CONNECT and no more, 60 bring several packets at once, and more than a
read of the adapter takes, so that its cursor matters. Four failures bring the back-off of
`bridge` to its limit; three messages leave one in the queue while one is in hand and one
under way. The same four are the hangs, stalls and panics. A connection that has ended and a
bridge with nothing left to do take no step, hence no deadlock check there.

**Fairness.** *Broker* (`recovery`): weak fairness of running a pending write and of the
restore: the runtime polls every task that is ready. Nothing is assumed of clients and of the
handlers of their packets, and neither a connection's end nor a crash is fair. *Connection*:
weak fairness of reading bytes that are there, of decoding and of the writer task's steps;
none of failures, deliveries or pings. *Bridge*: weak fairness of the steps of an attempt and
of the timers, which run out; strong fairness of `ReadRemote` and `TakeLocal`, because
`select!` picks at random among the branches that are ready, so that one that is ready again
and again is not passed over for ever. These steps are disabled while the task hangs or is
stalled, and neither `Resume` nor any failure is fair, as no timeout ends a hang. Since what
goes wrong is bounded, `Reconnects` says: once the remote broker stays well, the bridge is
connected and reads, or else one of three things has happened that nothing in the code undoes:
an await hangs for ever, a half frame blocks the last connection, or the task has panicked.

Violation runs. Each checks one sentence of the repository that the code does not keep.

| Run | Sentence | What happens |
|---|---|---|
| `find_takeover` | "replacing any existing active session" (`session.rs:186`) | the end of the replaced connection removes its successor's session |
| `find_reconnect` | "(replaced when client reconnects)" (`session.rs:135`), "recupera automáticamente ... mensajes QoS 1 en tránsito" (`README.md:14`) | the restored messages go with the restored session |
| `find_shared` | "balance load per group using round-robin" (`session.rs:274`) | a departed member is chosen |
| `find_short_field` | "Parse and process all complete packets currently in the read buffer" (`main.rs:398`) | a complete frame with a field that is too long counts as incomplete; it and all that follows wait for ever |
| `find_ws_flush` | "de forma transparente mediante un adaptador que implementa `AsyncRead` + `AsyncWrite`" (`README.md:13`) | a flush that was pending is reported as done with the CONNACK still in the sink |
| `find_certificates` | "Ensures that TLS certificates exist ... If they do not, it generates a new self-signed certificate" (`tls.rs:7`) | after a crash both files exist, are taken for a pair and never generated again |

Other things the models show when they are run, and for which no run is kept: a PUBLISH may be
queued to a new connection before its CONNACK (`Connect` and `SendConnAck` are two steps);
packets after a DISCONNECT are handled, against the comment at `main.rs:526`; the gauge at
`metrics.rs:29` counts restored sessions that have no connection; two writes of one
subscription may swap and leave older options in the database; the deletion of an acknowledged
message may overtake its write, so that the row stays; a message is lost when the process ends
before its spawned write ran, though its publisher has been answered; a subscription row
written after the deletion of its session stays and is replayed; the bridge's back-off is
never reset, since an attempt returns only with an error (`bridge.rs:58`). And a message in
transit may have neither a row nor a write, against "recupera automáticamente ... mensajes QoS
1 en tránsito" (`README.md:14`): ids restart at 1 in every session (`session.rs:60`), two
messages to two sessions of one client are under id 1, and the older write runs last.
`TransitRecoverable`, as an invariant of `recovery`, has that trace.

## 4. Proofs

A theorem holds for every value of the constants that satisfies the named assumptions,
which TLC evaluates in the runs:

* `BrokerAssumption`, `AuthAssumption`: connections and clients are different names,
  CONNECT packets carry a client, a QoS is at most 2, `PidMod` exceeds 1;
* `PacketAssumption`, `RouterAssumption`: filters and topics are sequences of levels;
* `ConnectionAssumption`: a script is a sequence of items whose bytes are bytes, and a read
  brings at least one byte; `BridgeAssumption`: the bounds are natural numbers.

| Theorem | States |
|---|---|
| `RouterTypeCorrect`, `NoDeadBranchesEver`, `MatchersAgree` | `Spec => []TypeOK`, `[]NoDeadBranches`, `[]RouterAgreesWithAcl` |
| `RouterRefinesTable` | `Spec => ImplementsTable` |
| `TypeCorrect`, `RegisteredSessionsLive`, `DatabaseWellFormed` | `Spec => []TypeOK`, `[]RegisteredIsLive`, `[]SavedWell` |
| `OnlyAuthorizedDelivery`, `PacketIdsCycle` | `Spec => []AuthorizedDelivery`, `[]PacketIdCycle` |
| `AnswerMeansDelivered` | `Spec => AckMeansDelivered` |
| `RemovedOnlyByNamesakes` | `Spec => OnlyNamesakesRemove` |
| `SoleSessionsLast` | `Spec /\ []Sole => SessionOutlivesPredecessor` |
| `SubscriptionsKept` | `Lasting => (Spec => []SubscriptionsDurable)` |
| `MessagesKept` | `Lasting => (Spec => InTransitKept)` |
| `SoleWritesRecoverable` | `Lasting /\ PubAcks = {} => (Spec /\ []OneWritePerId => []TransitRecoverable)` |
| `ConnectionTypeCorrect`, `AnswersKeepOrder` | `Spec => []TypeOK`, `[]AnswersInOrder` |
| `PacketsKeepOrder` | `ScriptDecodes /\ Spec => StreamHandledInOrder` |
| `NoPacketWaits`, `OnlyConnectPanics` | `ScriptDecodes /\ Spec => []OnlyPipelinedWaits`, `[]OnlyWillPanics` |
| `EncodedScriptsDecode` | `EncodedScript /\ Spec => []ScriptDecodes` |
| `PacketsArriveAsSent`, `EncodedNeverPanics` | `EncodedScript /\ Spec => StreamHandledInOrder /\ []OnlyPipelinedWaits`, `[](pc # "panicked")` |
| `PacketRoundTrip` | `Encodable(p) => decode_packet(encode_packet(p) \o more) = Value(p, Len(encode_packet(p)))` |
| `VarintRoundTrip`, `VarintPrefix`, `VarintTooLarge`, `VarintInBounds` | the variable byte integers |
| `BridgeTypeCorrect`, `BridgeForwardsInOrder`, `BridgeRoutesInOrder` | `Spec => []TypeOK`, `ForwardedInOrder`, `RoutedInOrder` |
| `CompletePairIsKept` | `Spec => PairIsKept` |

**Hypotheses.** `Lasting` says that all sessions are meant to last (no clean start, an
expiry), that database statements succeed and that a filter has `#` only at its end. It is the
instance of run `recovery`, where the two properties are checked, and they are false without
it: the end of a session that does not last deletes its rows, a failed statement leaves none,
and of a filter with levels behind its `#` the trie keeps less than the row. `InTransitKept`
compares messages, not only their keys, and names the one step that loses one: another write
under its client and packet id. `TransitRecoverable`, that none is lost, does not hold of the
code (section 3); `SoleWritesRecoverable` says that two writes that wait under one id
(`OneWritePerId`) are needed for it, or a deletion: an acknowledgement of an earlier session's
message may remove the row of a later one, hence `PubAcks = {}`. `Sole` says that no two
connections of one client are held at a time. `SessionOutlivesPredecessor` is what run
`find_takeover` refutes; the theorem says that nothing but a takeover can break it.
`ScriptDecodes` says of the client's script that each item by itself, with nothing before and
behind it, decodes to what it means (or to an error, if it means no packet); the theorems
carry that over to all the ways in which the bytes can be cut, put together and followed by
others. `EncodedScript` is the case of a client all of whose items are packets in the bytes of
`encode_packet`; for it nothing is assumed of the codec. The scripts of run `connection` are
such but for four damaged frames and a CONNECT with a will, which the codec of the broker
never writes (`ItemsEncoded`, an assumption that TLC evaluates); for those, `ScriptDecodes` is
checked by TLC.

**Induction.** Matching, removal and decoding are recursive functions. The induction
theorems of the library take a predicate as a parameter, which the provers cannot
instantiate; `RouterLemmas` therefore states induction over the natural numbers with a set
(`SetInduction`, from the well-foundedness of `<`), and derives that a function exists whose
every value is computed from values of smaller rank (`RecursionExists`). With both, what a
recursive function of the model returns is proved for all its arguments.

**Router.** The inductive invariant is `RouterInv`: the nodes are closed under prefixes, every
entry is at a node, a client has one entry at a node and one in a group (`GoodTrie`), and
below every node somebody is subscribed (`NoDead`). What `match_topic` finds is described by
`Matches`, a relation between paths and topics without recursion, by induction over the
levels of the topic: the search meets exactly the nodes that match, each once. The
access-rule loop is shown equal to the same relation, which gives `MatchersAgree`.
`RouterRefinesTable` maps the trie to the table of its entries: `subscribe` replaces
exactly the client's entry, `unsubscribe` removes it and says whether it was there, pruning
touches no entry, and the answer of `match_topic` is the table's.

**Broker.** `Inv == TypeOK /\ RegisteredIsLive /\ SavedWell`. `RegisteredIsLive` is not
inductive by itself: after a restart the table is what the rows say, so each row must name
its own client; and a row is what some pending write says, so `SavedWell` speaks about the
writes that wait as well. In the same way the ids in flight after a restart are the saved
ones, which is why `SavedWell` excludes id 0. The proof has a lemma per action. Its core is
`ExitInv`: whatever `remove_session` takes out of the table, the ended connection's own
session is no longer there, because a registered session is registered under its own
client. `ConnectInv` needs `FreeIsUnregistered`, and that the names are disjoint.

**Deliveries.** `AuthorizedDelivery` looks at what a client got; the permission was checked
long before, in another handler, perhaps before a restart. `DeliveryInv` follows it: who is
connected has logged in; entries of the trie, rows, pending writes and rows still to be
replayed were all granted to their client; and a route being worked off holds only
subscriptions that match its topic, of clients entitled to it, whatever has become of them
since. That what `match_topic` returns is granted rests on the lemmas of `RouterLemmas`.
For `PacketIdsCycle` the invariant says of the next id what the property says of the
others: every id between that of a delivery and the next one to be used has been taken
since that delivery (`PidsInTurn`).

**Answers.** `AckMeansDelivered` compares the channels, when a handler leaves the loops of
`route_publish`, with the route it had matched, though any number of steps of others lie
between. The inductive invariant is `CountInv`: for each client whose session was registered
at the match and still is, the copies in its channel and the sets of the list that still hold
one of its subscriptions are together as many as its subscriptions in the route and the
groups that chose it (`Balanced`). The groups' choices are a history that the state does not
keep, so the invariant says that there is one. It needs more than the loops show: copies of
different messages must not be confused (`MessagesRead`: each message in a channel has been
read by its publisher's connection, so that the next one is new), the sets of the list hold
a client once (`OneEach`, from the trie), and a client that left does not become present
again under the same session (`RegisteredBefore`), so the account of those who are present
only loses entries. `LeftStep` is one round of the loop, `SumOfChosen` adds the choices up
to the number of groups.

**Removals.** By cases over the actions, a session leaves the table only through
`remove_session` at the end of a connection of that client, or with the process
(`RemovedByNamesake`); the table of a process that is down is empty (`NoneWhenDown`).

**Durability.** `KeptSubscriptions` extends `SubscriptionsDurable` to the restore: the entries of
the trie and the rows yet to be replayed are together the rows in the database and the
pending writes. `KeptSessions` says that nothing deletes a session's rows, and
`KeptMessages` that the keys of rows are pairs and that nothing is in transit while the process
is down. What is in transit after a step was so before, or comes with its write or its
row (`NewTransit`), and a write that is pending or done stays so unless another runs over it
(`WriteStays`): that is `MessagesKept`. For `SoleWritesRecoverable` the invariant says in
addition that no other write waits under the key of a message in transit (`SafeInTransit`),
since a new write is always that of a message in transit (`NewWrite`).

**Connection, outwards.** `wire \o Path = sent` while the writer lives, where `Path` is sink,
adapter buffer, message in hand and channel in a row (`Flow`); a writer that has ended leaves a
prefix. `AnsInv` says that the answers given to the channel are those to the packets of `log`.

**Connection, inwards.** `InInv` says that the packets handled, the read buffer, the adapter's
frame and the network's bytes are in a row the client's script (`Aligned`), and that a loop that
reads has a buffer that decodes as incomplete, unless it comes from the CONNECT. The work is
in the decoder: a frame that is complete is decoded from its own bytes alone, whatever follows
(`PacketLocal`, from `VarintLocal`), and with fewer bytes than that there is neither a packet nor
a panic (`PacketNeedsFrame`). So the buffer's front is always the front of the next
item, and what is decoded is the item. For `OnlyConnectPanics` every reader below
`decode_packet` but those of a CONNECT is shown to return, on any bytes, an error that is no
panic or the bytes that are left, at least as many fewer as it must read (`Takes`); the loops
over properties, subscriptions and reason codes by induction over what is left. A CONNECT has
the first byte 16, and one that means a packet decodes as that packet.

**Codec.** `PacketRoundTrip` goes field by field: a reader, on what the writer of its field
wrote and anything after it, returns the field and what comes after (`U16Got`, `StrGot`,
`TypedGot`, ...), so that a decoder meets its fields one behind the other. The properties
are the hard part. They are written in the order of the table and read by identifier in a
loop, and a later value of an identifier replaces an earlier one, but user properties are
collected. So the list that is read must be shown to be the concatenation of what was
written for each row of the table (`LoopGot`, `AllListed`), the values found under one
identifier to be those of its row alone (`ListedFacts`), and the map made of them to be the
map that was encoded (`PropertiesGot`). The flag bytes are put together and taken apart for
all their values (`PublishFlags`, `ConnectFlags`). The bounds in `Encodable` are needed:
longer strings are written with the low 16 bits of their length, and a remaining length
above the limit is refused (`VarintTooLarge`).

**Varint.** For all numbers and all sequences of bytes: decoding undoes encoding and reads no
byte more, whatever follows; a proper prefix is incomplete, never an error or another
number; numbers above the limit are refused; what is decoded is in range and within
the bytes that are there. The loops are written out by the number of bytes, at most five.

**Bridge.** The invariant is about the whole way of a message: `remote \o (uplink \o hand)` is
increasing, so is `queue`, and everything on the way is lower than everything in the queue.
Order at the remote end alone is not inductive, as what arrives next depends on what was
written and taken. A failure keeps it because what arrives of `uplink \o hand` is a prefix,
and the queue is left as it is, or emptied by a panic. In the other direction `routed` and
`downlink` are increasing, all of the one is lower than all of the other, and no number is
above `alerts`, the last one published. A reading moves a first part of `downlink` behind
`routed`; a failure only takes from `downlink`.

**Certificates.** The invariant ties the step of the generation to what the files can be: it
starts when one of them is missing, and until its last write there is no key of this
generation, so that the files never match while one of them is being written.

**Only model-checked.** Liveness (`SubscriptionGetsSaved`, `BootCompletes`,
`EverythingHandled`, `TcpRepliesArrive`, `QueuedIsForwarded`, `QueueDrains`,
`Reconnects`): fairness is out of the prover's reach. Every invariant and every action property
of the passing runs is a theorem; of `ScriptDecodes`, which the run's script satisfies, the
damaged frames and the CONNECT with a will are the part that only TLC evaluates.

## 5. Not modelled

The Prometheus text and HTTP of the metrics; ports, arguments and accept loops; the TLS
handshake and cryptography; the close frame of `poll_shutdown`; the bridge's pings, except as
writes that may fail. Power failure as opposed to the end of the process.
`last_activity` and `topic_aliases`, which nothing reads. The session expiry interval as
a time: nothing in the code lets it elapse. Keep-alive as a time: a timeout may come
whenever the read loop waits. `BrokerState::unsubscribe` and `delete_subscription`, which
nothing calls, appear only as the router's `unsubscribe`.

## 6. Plan

Done: Router, Auth, Persistence, Broker, Varint, Codec, Packets, Connection, Bridge,
Certificates, their runs, and the proofs above.

Left, in this order:

1. A `Connection` for each connection of `Broker`, in place of its complete packets.
2. Balancing of shared groups over a history of choices; power failure as a rollback of the
   last writes.
