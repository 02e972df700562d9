------------------------------- MODULE Broker -------------------------------
(***************************************************************************)
(* The broker process: session.rs (BrokerState, ClientSession) and the     *)
(* connection handling of main.rs, over the router, the access rules and   *)
(* the database.                                                           *)
(*                                                                         *)
(* Every connection is a task of its own and the runtime has several       *)
(* threads, so handlers interleave wherever they do not hold a lock.  A    *)
(* PUBLISH is therefore matched in one step and delivered subscriber by    *)
(* subscriber, and a SUBSCRIBE is served filter by filter.  The writes to  *)
(* the database are spawned (module Persistence).                          *)
(*                                                                         *)
(* A session is named by the connection that created it, or by the client  *)
(* itself when it was restored from the database and has no connection.    *)
(***************************************************************************)
EXTENDS Router, Auth, Persistence, FiniteSets

CONSTANTS
  Clients,        \* client identifiers
  Conns,          \* connections, each used once
  Hellos,         \* CONNECT packets: [client, username, password, clean_start, expiry]
  Publishes,      \* PUBLISH packets: [topic, qos]
  Subscribes,     \* SUBSCRIBE packets: sequences of [filter, info]
  PubAcks,        \* PUBACK packets: the packet identifiers clients acknowledge
  Controls,       \* which of "PINGREQ", "DISCONNECT" and "BAD_WILL" (a second CONNECT
                  \* whose will runs past the packet) clients send
  BridgeEnabled,  \* PIPISTRELLE_BRIDGE_HOST is set
  PidMod,         \* packet identifiers are u16: 65536 in the program
  MaxPackets,     \* bound: packets handled on all connections together
  MaxRestarts,    \* bound: how often the process ends and is started again
  DbMayFail,      \* SQLite statements may fail
  WriterMayFail   \* writing to a client's socket may fail

ASSUME BrokerAssumption ==
  /\ Conns \cap Clients = {}
  /\ PidMod \in Nat /\ PidMod > 1
  /\ MaxPackets \in Nat /\ MaxRestarts \in Nat
  /\ BridgeEnabled \in BOOLEAN /\ DbMayFail \in BOOLEAN /\ WriterMayFail \in BOOLEAN
  /\ \A h \in Hellos : /\ DOMAIN h = {"client", "username", "password", "clean_start", "expiry"}
                       /\ h.client \in Clients
                       /\ h.clean_start \in BOOLEAN
                       /\ h.expiry \in Nat
  /\ \A p \in Publishes : p.qos \in 0 .. 2
  /\ PubAcks \subseteq 0 .. PidMod - 1

\* The [filter, info] pairs clients ask for, and the levels of their filters
\* and of the topics.
Requests == UNION {ToSet(r) : r \in Subscribes}
Levels   == {"+", "#"} \cup UNION {ToSet(q.filter) : q \in Requests}
                       \cup UNION {ToSet(p.topic) : p \in Publishes}

ASSUME PacketAssumption ==
  /\ Subscribes \subseteq Seq(Requests)
  /\ \A q \in Requests : q.filter \in Seq(Levels)
  /\ \A p \in Publishes : p.topic \in Seq(Levels)

VARIABLES
  running,        \* "down", "restoring", "up" or "stopping"
  loading,        \* keys of the subscription rows restore has yet to replay
  restarts,       \* how often the process has ended
  phase,          \* of a connection: "free", "registered" (no CONNACK yet), "open"
                  \* (in the read loop), "routing", "subscribing", "panicked" or "closed"
  work,           \* what a handler that is "routing" or "subscribing" has left
  reads,          \* packets handled on a connection
  writer,         \* the writer task holds the receiver of the channel
  out,            \* everything sent to the channel of a connection, in order
  sessions,       \* BrokerState.sessions: client -> session
  meta,           \* the immutable fields of a ClientSession
  next_packet_id, \* ClientSession.next_packet_id
  in_flight,      \* ClientSession.in_flight: packet id -> message
  trie,           \* BrokerState.router
  shared_group_counters,
  metrics,        \* messages_published and subscriptions
  bridge_queue    \* what was sent to bridge_sender

connVars   == <<phase, work, reads, writer>>
sessVars   == <<sessions, meta>>
pidVars    == <<next_packet_id, in_flight>>
routeVars  == <<trie, shared_group_counters, metrics, bridge_queue>>
bootVars   == <<running, loading, restarts>>
dbVars     == <<db, tasks>>
vars == <<connVars, out, sessVars, pidVars, routeVars, bootVars, dbVars>>

Sids == Conns \cup Clients
Pids == 0 .. PidMod - 1

\* The handler of a connection runs; its socket is open, the writer task of
\* a handler that panicked being left behind.
Alive      == {"registered", "open", "routing", "subscribing"}
Held       == Alive \cup {"panicked"}

Listening  == running \in {"up", "stopping"}
NoWork     == [kind |-> "none"]
NoMeta     == [client |-> "none"]
Counter(g) == IF g \in DOMAIN shared_group_counters THEN shared_group_counters[g] ELSE 0

Session(h) == [client |-> h.client, username |-> h.username,
               clean_start |-> h.clean_start, expiry |-> h.expiry]

Init ==
  /\ running = "up" /\ loading = {} /\ restarts = 0
  /\ phase = [c \in Conns |-> "free"]
  /\ work = [c \in Conns |-> NoWork]
  /\ reads = [c \in Conns |-> 0]
  /\ writer = [c \in Conns |-> FALSE]
  /\ out = [c \in Conns |-> << >>]
  /\ sessions = << >>
  /\ meta = [s \in Sids |-> NoMeta]
  /\ next_packet_id = [s \in Sids |-> 1]
  /\ in_flight = [s \in Sids |-> << >>]
  /\ trie = EmptyTrie
  /\ shared_group_counters = << >>
  /\ metrics = [published |-> 0, subscriptions |-> 0]
  /\ bridge_queue = << >>
  /\ db = EmptyDb
  /\ tasks = EmptyBag

-----------------------------------------------------------------------------
(* handle_connection, up to the read loop.                                 *)

\* session.sender.send: fails silently once the writer task has gone.
Sent(c, packet) == [out EXCEPT ![c] = IF writer[c] THEN Append(@, packet) ELSE @]

\* The first read times out, ends, or is not a CONNECT: the task returns.
NoConnect(c) ==
  /\ Listening /\ phase[c] = "free"
  /\ phase' = [phase EXCEPT ![c] = "closed"]
  /\ UNCHANGED <<work, reads, writer, out, sessVars, pidVars, routeVars, bootVars, dbVars>>

\* Authentication fails: CONNACK 0x86 straight to the socket, and the end.
Refuse(c, h) ==
  /\ Listening /\ phase[c] = "free"
  /\ ~ Authenticated(h.username, h.password)
  /\ phase' = [phase EXCEPT ![c] = "closed"]
  /\ out' = [out EXCEPT ![c] = <<[type |-> "CONNACK", code |-> "bad_user_name_or_password"]>>]
  /\ UNCHANGED <<work, reads, writer, sessVars, pidVars, routeVars, bootVars, dbVars>>

\* register_session: the new session replaces whatever is registered, and
\* is saved when its expiry interval is positive.
register_session(c, s) ==
  /\ sessions' = Insert(sessions, s.client, c)
  /\ IF s.expiry > 0 THEN Spawn(SaveSession(s.client, s)) ELSE UNCHANGED tasks
  /\ UNCHANGED db

\* Authentication succeeds: a fresh session is registered and its writer
\* task spawned.
Connect(c, h) ==
  /\ Listening /\ phase[c] = "free"
  /\ Authenticated(h.username, h.password)
  /\ register_session(c, Session(h))
  /\ meta' = [meta EXCEPT ![c] = Session(h)]
  /\ next_packet_id' = [next_packet_id EXCEPT ![c] = 1]
  /\ in_flight' = [in_flight EXCEPT ![c] = << >>]
  /\ writer' = [writer EXCEPT ![c] = TRUE]
  /\ phase' = [phase EXCEPT ![c] = "registered"]
  /\ UNCHANGED <<work, reads, out, routeVars, bootVars>>

SendConnAck(c) ==
  /\ Listening /\ phase[c] = "registered"
  /\ out' = Sent(c, [type |-> "CONNACK", code |-> "success"])
  /\ phase' = [phase EXCEPT ![c] = "open"]
  /\ UNCHANGED <<work, reads, writer, sessVars, pidVars, routeVars, bootVars, dbVars>>

-----------------------------------------------------------------------------
(* PUBLISH: process_client_packet, route_publish, send_publish_to_client.  *)

\* The read loop has decoded the next complete packet.
Read(c) ==
  /\ Listening /\ phase[c] = "open" /\ SumFunction(reads) < MaxPackets
  /\ reads' = [reads EXCEPT ![c] = @ + 1]

User(c) == UserName(meta[c].username)
MayWrite(c, topic) == authorize(User(c), topic, "write")

\* The publisher lacks write access: PUBACK 0x87 for QoS 1, else nothing.
PublishDenied(c, p) ==
  /\ Read(c)
  /\ ~ MayWrite(c, p.topic)
  /\ out' = IF p.qos = 1
            THEN Sent(c, [type |-> "PUBACK", of |-> reads[c] + 1, code |-> "not_authorized"])
            ELSE out
  /\ UNCHANGED <<phase, work, writer, sessVars, pidVars, routeVars, bootVars, dbVars>>

\* The first half of route_publish: count, hand to the bridge, match.  The
\* route is a snapshot; at records who was registered then (history).
Publish(c, p) ==
  LET msg   == [from |-> c, n |-> reads[c] + 1, topic |-> p.topic, qos |-> p.qos]
      route == match_topic(trie, p.topic)
  IN
  /\ Read(c)
  /\ MayWrite(c, p.topic)
  /\ metrics' = [metrics EXCEPT !.published = @ + 1]
  /\ bridge_queue' = IF BridgeEnabled /\ meta[c].client # "bridge_client"
                     THEN Append(bridge_queue, msg) ELSE bridge_queue
  /\ work' = [work EXCEPT ![c] = [kind |-> "route", msg |-> msg, normal |-> route.normal,
                                  shared |-> route.shared, route |-> route, at |-> sessions]]
  /\ phase' = [phase EXCEPT ![c] = "routing"]
  /\ UNCHANGED <<writer, out, sessVars, pidVars, trie, shared_group_counters,
                 bootVars, dbVars>>

\* Faulty versions: 0 is used; the counter is taken one too low; the counter
\* wraps too early.
PidToUse_Zero(s)    == next_packet_id[s]
PidToUse_OneLess(s) == IF next_packet_id[s] = 0 THEN 0 ELSE next_packet_id[s] - 1
PidAfter_Early(pid) == (pid + 1) % (PidMod - 1)

\* ClientSession::get_next_packet_id on a u16 that wraps: the id to use and
\* the value left behind.  The fetched 0 is skipped.
PidToUse(s)   == IF next_packet_id[s] = 0 THEN 1 ELSE next_packet_id[s]
PidAfter(pid) == (pid + 1) % PidMod

\* send_publish_to_client, under the read lock of sessions, which keeps the
\* session registered throughout.  (Two publishers may hold that lock at
\* once: out has the packets of a session in the order of their ids.)  A
\* client that is not registered gets nothing.  QoS is the publisher's.
send_publish_to_client(client, msg, info) ==
  IF client \notin DOMAIN sessions
  THEN UNCHANGED <<out, pidVars, dbVars>>
  ELSE LET s   == sessions[client]
           pid == IF msg.qos > 0 THEN <<PidToUse(s)>> ELSE << >>
       IN  /\ IF msg.qos > 0
              THEN /\ next_packet_id' = [next_packet_id EXCEPT ![s] = PidAfter(pid[1])]
                   /\ in_flight' = [in_flight EXCEPT ![s] = Insert(@, pid[1], msg)]
                   /\ Spawn(SaveInFlight(client, pid[1], msg))
                   /\ UNCHANGED db
              ELSE UNCHANGED <<pidVars, dbVars>>
           /\ out' = IF s \in Conns
                     THEN Sent(s, [type |-> "PUBLISH", msg |-> msg, pid |-> pid, info |-> info])
                     ELSE out

Routing(c) == Listening /\ phase[c] = "routing"

\* Faulty versions: the handler does not wait for the routing; it forgets
\* the groups.
RoutingDone_AtOnce(c) == TRUE
RoutingDone_NormalOnly(c) == work[c].normal = << >>

\* Both loops of route_publish have ended.
RoutingDone(c) == work[c].normal = << >> /\ DOMAIN work[c].shared = {}

\* One round of the loop over route.normal.
DeliverNormal(c) ==
  /\ Routing(c) /\ work[c].normal # << >>
  /\ \E sub \in Head(work[c].normal) :
       LET left == Head(work[c].normal) \ {sub} IN
       /\ send_publish_to_client(sub.client, work[c].msg, sub.info)
       /\ work' = [work EXCEPT ![c].normal =
                     IF left = {} THEN Tail(@) ELSE <<left>> \o Tail(@)]
  /\ UNCHANGED <<phase, reads, writer, sessVars, routeVars, bootVars>>

\* One round of the loop over route.shared, in any order of the groups: the
\* group's counter picks the member.
DeliverShared(c) ==
  /\ Routing(c) /\ work[c].normal = << >>
  /\ \E g \in DOMAIN work[c].shared :
       LET subs == work[c].shared[g]
           sub  == subs[(Counter(g) % Len(subs)) + 1]
       IN  /\ send_publish_to_client(sub.client, work[c].msg, sub.info)
           /\ shared_group_counters' = Insert(shared_group_counters, g, Counter(g) + 1)
           /\ work' = [work EXCEPT ![c].shared = Without(@, {g})]
  /\ UNCHANGED <<phase, reads, writer, sessVars, trie, metrics, bridge_queue, bootVars>>

\* route_publish returns; a QoS 1 publisher gets its PUBACK.
FinishPublish(c) ==
  /\ Routing(c) /\ RoutingDone(c)
  /\ out' = IF work[c].msg.qos = 1
            THEN Sent(c, [type |-> "PUBACK", of |-> work[c].msg.n, code |-> "success"])
            ELSE out
  /\ work' = [work EXCEPT ![c] = NoWork]
  /\ phase' = [phase EXCEPT ![c] = "open"]
  /\ UNCHANGED <<reads, writer, sessVars, pidVars, routeVars, bootVars, dbVars>>

-----------------------------------------------------------------------------
(* The other packets a client sends.                                       *)

\* Faulty version: the wrong kind of access is asked for.
MayRead_AsWriter(c, filter) == authorize(User(c), filter, "write")

MayRead(c, filter) == authorize(User(c), filter, "read")

Subscribe(c, request) ==
  /\ Read(c)
  /\ work' = [work EXCEPT ![c] = [kind |-> "subscribe", of |-> reads[c] + 1,
                                  todo |-> request, codes |-> << >>]]
  /\ phase' = [phase EXCEPT ![c] = "subscribing"]
  /\ UNCHANGED <<writer, out, sessVars, pidVars, routeVars, bootVars, dbVars>>

\* One round of the loop over the filters: BrokerState::subscribe counts,
\* changes the router and spawns the write; a filter that is not allowed is
\* only answered.
SubscribeFilter(c) ==
  /\ Listening /\ phase[c] = "subscribing" /\ work[c].todo # << >>
  /\ LET sub == Head(work[c].todo)
         ok  == MayRead(c, sub.filter)
     IN  /\ IF ok
            THEN /\ metrics' = [metrics EXCEPT !.subscriptions = @ + 1]
                 /\ trie' = subscribe(trie, meta[c].client, sub.filter, sub.info)
                 /\ Spawn(SaveSubscription(meta[c].client, sub.filter, sub.info))
            ELSE UNCHANGED <<metrics, trie, tasks>>
         /\ work' = [work EXCEPT
                       ![c].todo  = Tail(@),
                       ![c].codes = Append(@, IF ok THEN "granted" ELSE "not_authorized")]
  /\ UNCHANGED <<phase, reads, writer, out, sessVars, pidVars, shared_group_counters,
                 bridge_queue, bootVars, db>>

FinishSubscribe(c) ==
  /\ Listening /\ phase[c] = "subscribing" /\ work[c].todo = << >>
  /\ out' = Sent(c, [type |-> "SUBACK", of |-> work[c].of, codes |-> work[c].codes])
  /\ work' = [work EXCEPT ![c] = NoWork]
  /\ phase' = [phase EXCEPT ![c] = "open"]
  /\ UNCHANGED <<reads, writer, sessVars, pidVars, routeVars, bootVars, dbVars>>

\* PUBACK: whatever id the client names leaves its session's in_flight, and
\* the row of that client and id is to be deleted.
PubAck(c, pid) ==
  /\ Read(c)
  /\ in_flight' = [in_flight EXCEPT ![c] = Without(@, {pid})]
  /\ Spawn(DeleteInFlight(meta[c].client, pid))
  /\ UNCHANGED <<phase, work, writer, out, sessVars, next_packet_id, routeVars,
                 bootVars, db>>

PingReq(c) ==
  /\ "PINGREQ" \in Controls /\ Read(c)
  /\ out' = Sent(c, [type |-> "PINGRESP"])
  /\ UNCHANGED <<phase, work, writer, sessVars, pidVars, routeVars, bootVars, dbVars>>

\* DISCONNECT is only logged: the read loop goes on.
Disconnect(c) ==
  /\ "DISCONNECT" \in Controls /\ Read(c)
  /\ UNCHANGED <<phase, work, writer, out, sessVars, pidVars, routeVars, bootVars, dbVars>>

\* decode_packet slices past the end of a will: the task of the connection
\* unwinds without the cleanup.  Its session stays registered and its writer
\* task, which is a task of its own, goes on.
Panic(c) ==
  /\ "BAD_WILL" \in Controls /\ Read(c)
  /\ phase' = [phase EXCEPT ![c] = "panicked"]
  /\ UNCHANGED <<work, writer, out, sessVars, pidVars, routeVars, bootVars, dbVars>>

-----------------------------------------------------------------------------
(* The end of a connection and of the process.                             *)

\* remove_session removes the session registered under the client's name,
\* whoever's it is, and deletes its rows when that session was not to last.
remove_session(client) ==
  IF client \notin DOMAIN sessions
  THEN UNCHANGED <<sessions, tasks>>
  ELSE LET old == meta[sessions[client]] IN
       /\ sessions' = Without(sessions, {client})
       /\ IF old.clean_start \/ old.expiry = 0
          THEN Spawn(DeleteSession(client))
          ELSE UNCHANGED tasks

\* The read loop ends (end of file, keep-alive timeout, read or codec error,
\* a second CONNECT): clean up, and abort the writer task.
Exit(c) ==
  /\ Listening /\ phase[c] = "open"
  /\ remove_session(meta[c].client)
  /\ phase' = [phase EXCEPT ![c] = "closed"]
  /\ writer' = [writer EXCEPT ![c] = FALSE]
  /\ UNCHANGED <<work, reads, out, meta, pidVars, routeVars, bootVars, db>>

\* Faulty version: the connection is closed without the cleanup.
WriterFails_Closes(c) ==
  /\ WriterMayFail /\ Listening /\ phase[c] \in Held /\ writer[c]
  /\ writer' = [writer EXCEPT ![c] = FALSE]
  /\ phase' = [phase EXCEPT ![c] = "closed"]
  /\ UNCHANGED <<work, reads, out, sessVars, pidVars, routeVars, bootVars, dbVars>>

\* Writing to the socket fails: the writer task ends, the reader goes on.
WriterFails(c) ==
  /\ WriterMayFail /\ Listening /\ phase[c] \in Held /\ writer[c]
  /\ writer' = [writer EXCEPT ![c] = FALSE]
  /\ UNCHANGED <<phase, work, reads, out, sessVars, pidVars, routeVars, bootVars, dbVars>>

\* Ctrl-C: graceful_shutdown sends DISCONNECT to every registered session;
\* the connections go on until the process ends.
Shutdown ==
  /\ running = "up" /\ restarts < MaxRestarts
  /\ running' = "stopping"
  /\ out' = [c \in Conns |->
               IF writer[c] /\ \E cl \in DOMAIN sessions : sessions[cl] = c
               THEN Append(out[c], [type |-> "DISCONNECT"]) ELSE out[c]]
  /\ UNCHANGED <<connVars, sessVars, pidVars, routeVars, loading, restarts, dbVars>>

\* The process ends, half a second after Shutdown or at any moment: all that
\* is in memory is gone.  (out and reads are history.)
Stop ==
  /\ running # "down" /\ restarts < MaxRestarts
  /\ running' = "down" /\ restarts' = restarts + 1 /\ loading' = {}
  /\ LoseTasks
  /\ phase' = [c \in Conns |-> IF phase[c] = "free" THEN "free" ELSE "closed"]
  /\ work' = [c \in Conns |-> NoWork]
  /\ writer' = [c \in Conns |-> FALSE]
  /\ sessions' = << >>
  /\ next_packet_id' = [s \in Sids |-> 1]
  /\ in_flight' = [s \in Sids |-> << >>]
  /\ trie' = EmptyTrie
  /\ shared_group_counters' = << >>
  /\ metrics' = [published |-> 0, subscriptions |-> 0]
  /\ bridge_queue' = << >>
  /\ UNCHANGED <<reads, out, meta>>

-----------------------------------------------------------------------------
(* restore_sessions_from_db, before the listeners start.                   *)

\* load_all_sessions: an offline session per row, without a connection.
RestoreSessions ==
  /\ running = "down"
  /\ \E failed \in IF DbMayFail THEN BOOLEAN ELSE {FALSE} :
       LET rows == IF failed THEN << >> ELSE db.sessions IN
       /\ sessions' = [cl \in DOMAIN rows |-> cl]
       /\ meta' = [s \in Sids |-> IF s \in DOMAIN rows THEN rows[s] ELSE meta[s]]
  /\ \E failed \in IF DbMayFail THEN BOOLEAN ELSE {FALSE} :
       loading' = IF failed THEN {} ELSE DOMAIN db.subscriptions
  /\ running' = "restoring"
  /\ UNCHANGED <<connVars, out, pidVars, routeVars, restarts, dbVars>>

\* Faulty version: the qos and the identifier of a subscription are lost.
RestoreSubscription_NoInfo ==
  /\ running = "restoring"
  /\ \E k \in loading :
       /\ trie' = subscribe(trie, k[1], k[2], "none")
       /\ loading' = loading \ {k}
  /\ UNCHANGED <<connVars, out, sessVars, pidVars, shared_group_counters, metrics,
                 bridge_queue, running, restarts, dbVars>>

\* load_all_subscriptions: the rows are replayed in any order.
RestoreSubscription ==
  /\ running = "restoring"
  /\ \E k \in loading :
       /\ trie' = subscribe(trie, k[1], k[2], db.subscriptions[k])
       /\ loading' = loading \ {k}
  /\ UNCHANGED <<connVars, out, sessVars, pidVars, shared_group_counters, metrics,
                 bridge_queue, running, restarts, dbVars>>

\* Faulty versions: the listeners start before the rows are replayed; a
\* broker without saved sessions is not started.
Replayed_NotAwaited == TRUE
Replayed_NeedsSession == loading = {} /\ DOMAIN sessions # {}

\* The loop over the rows has ended.
Replayed == loading = {}

\* load_all_in_flight: only for clients whose session was restored.
RestoreInFlight ==
  /\ running = "restoring" /\ Replayed
  /\ \E failed \in IF DbMayFail THEN BOOLEAN ELSE {FALSE} :
       LET pids(cl) == {k[2] : k \in OfClient(db.in_flight, cl)} IN
       in_flight' = [s \in Sids |->
                       IF s \in DOMAIN sessions /\ ~ failed
                       THEN [pid \in pids(s) |-> db.in_flight[<<s, pid>>]]
                       ELSE in_flight[s]]
  /\ running' = "up"
  /\ UNCHANGED <<connVars, out, sessVars, next_packet_id, routeVars, loading, restarts, dbVars>>

-----------------------------------------------------------------------------
DbStep(step) ==
  /\ Listening
  /\ step
  /\ UNCHANGED <<connVars, out, sessVars, pidVars, routeVars, bootVars>>

\* What the connection's task does without waiting for its client.
Handle(c) ==
  \/ SendConnAck(c)
  \/ DeliverNormal(c) \/ DeliverShared(c) \/ FinishPublish(c)
  \/ SubscribeFilter(c) \/ FinishSubscribe(c)

\* What clients and the network cause.
Receive(c) ==
  \/ NoConnect(c)
  \/ \E h \in Hellos : Refuse(c, h) \/ Connect(c, h)
  \/ \E p \in Publishes : PublishDenied(c, p) \/ Publish(c, p)
  \/ \E r \in Subscribes : Subscribe(c, r)
  \/ \E pid \in PubAcks : PubAck(c, pid)
  \/ PingReq(c) \/ Disconnect(c) \/ Panic(c)
  \/ Exit(c) \/ WriterFails(c)

Restore == RestoreSessions \/ RestoreSubscription \/ RestoreInFlight

Next ==
  \/ \E c \in Conns : Handle(c) \/ Receive(c)
  \/ DbStep(RunTask)
  \/ DbMayFail /\ DbStep(TaskFails)
  \/ Shutdown \/ Stop \/ Restore

Spec == Init /\ [][Next]_vars
=============================================================================
