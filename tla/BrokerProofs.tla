---------------------------- MODULE BrokerProofs ----------------------------
(***************************************************************************)
(* The session table is right for any number of clients, connections and   *)
(* packets, with restarts and with failures of the database and of the     *)
(* sockets: TypeOK, RegisteredIsLive and SavedWell are invariant.          *)
(***************************************************************************)
EXTENDS BrokerProperties, TLAPS

-----------------------------------------------------------------------------
(* Facts about the operators the model is built from.                      *)

\* Spawning a write adds it to the pending ones; running one adds none.
LEMMA BagFacts ==
  ASSUME NEW B, NEW t
  PROVE  /\ DOMAIN BagOps!BagAdd(B, t) = DOMAIN B \cup {t}
         /\ DOMAIN BagOps!BagRemove(B, t) \subseteq DOMAIN B
BY DEF BagOps!BagAdd, BagOps!BagRemove

\* The packet id a session uses next is a u16 other than 0, and so is what
\* the counter is left at, but for 0.
LEMMA PidFacts ==
  ASSUME TypeOK, NEW s \in Sids
  PROVE  /\ PidToUse(s) \in Pids \ {0}
         /\ PidAfter(PidToUse(s)) \in Pids
<1>1. PidMod \in Nat /\ PidMod > 1
  BY BrokerAssumption
<1>2. next_packet_id[s] \in 0 .. PidMod - 1
  BY DEF TypeOK, SessionTypes, Pids
<1>3. PidToUse(s) \in 1 .. PidMod - 1
  BY <1>1, <1>2 DEF PidToUse
<1>4. (PidToUse(s) + 1) % PidMod \in 0 .. PidMod - 1
  BY <1>1, <1>3
<1> QED
  BY <1>1, <1>3, <1>4 DEF PidAfter, Pids

-----------------------------------------------------------------------------
(* Steps that leave the session table alone.                               *)

\* A handler that only moves on within its connection keeps every
\* registered session usable.
LEMMA QuietStep ==
  ASSUME RegisteredIsLive, TypeOK,
         UNCHANGED sessVars,
         \A c \in Conns : phase[c] \in Held => phase'[c] \in Held
  PROVE  RegisteredIsLive'
BY DEF RegisteredIsLive, TypeOK, SessionTypes, ConnTypes, sessVars

\* A write that is spawned keeps the saved state well formed if it is well
\* formed itself.
LEMMA SpawnStep ==
  ASSUME SavedWell, UNCHANGED db, NEW t, Spawn(t),
         t.op \in {"save_session", "delete_session", "save_subscription",
                   "save_in_flight", "delete_in_flight"},
         t.op = "save_session" => t.client \in Clients /\ t.row.client = t.client,
         t.op = "save_in_flight" => t.pid \in Pids \ {0}
  PROVE  SavedWell'
<1>1. DOMAIN tasks' = DOMAIN tasks \cup {t}
  BY BagFacts DEF Spawn
<1> QED
  BY <1>1 DEF SavedWell, Pids

\* A step that touches neither the tables nor the pending writes.
LEMMA SameSaved == ASSUME SavedWell, UNCHANGED dbVars PROVE SavedWell'
BY DEF SavedWell, dbVars, Pids

-----------------------------------------------------------------------------
(* The database.                                                           *)

\* Any of the statements of delete_session, done or not.
LEMMA DeleteSaved ==
  ASSUME SavedWell, NEW client, NEW which,
         db' = DeleteStatements(db, client, which), DOMAIN tasks' \subseteq DOMAIN tasks
  PROVE  SavedWell'
<1>1. /\ DOMAIN db' = {"sessions", "subscriptions", "in_flight"}
      /\ db'.sessions = db.sessions \/ db'.sessions = Without(db.sessions, {client})
      /\ \/ db'.in_flight = db.in_flight
         \/ db'.in_flight = Without(db.in_flight, OfClient(db.in_flight, client))
  BY DEF DeleteStatements
<1>2. \A cl \in DOMAIN db'.sessions : cl \in DOMAIN db.sessions /\ db'.sessions[cl] = db.sessions[cl]
  BY <1>1 DEF Without
<1>3. DOMAIN db'.in_flight \subseteq DOMAIN db.in_flight
  BY <1>1 DEF Without
<1> QED
  BY <1>1, <1>2, <1>3 DEF SavedWell, Pids

\* Whichever pending write runs, the tables stay well formed.
LEMMA RunTaskSaved ==
  ASSUME SavedWell, RunTask
  PROVE  SavedWell'
<1>1. PICK t \in DOMAIN tasks : db' = Apply(db, t) /\ tasks' = BagOps!BagRemove(tasks, t)
  BY DEF RunTask
<1>2. DOMAIN tasks' \subseteq DOMAIN tasks
  BY <1>1, BagFacts
<1>3. CASE t.op = "delete_session"
  BY <1>1, <1>2, <1>3, DeleteSaved DEF Apply
<1>4. CASE t.op = "save_session"
  <2>1. db' = [db EXCEPT !.sessions = Insert(@, t.client, t.row)]
    BY <1>1, <1>4 DEF Apply
  <2>2. t.client \in Clients /\ t.row.client = t.client
    BY <1>4 DEF SavedWell
  <2>3. \A cl \in DOMAIN Insert(db.sessions, t.client, t.row) :
          /\ cl \in Clients
          /\ Insert(db.sessions, t.client, t.row)[cl].client = cl
    BY <2>2 DEF SavedWell, Insert
  <2> QED
    BY <1>2, <2>1, <2>3 DEF SavedWell, Pids
<1>5. CASE t.op = "save_subscription"
  BY <1>1, <1>2, <1>5 DEF Apply, SavedWell, Pids
<1>6. CASE t.op = "save_in_flight"
  <2>1. db' = [db EXCEPT !.in_flight = Insert(@, <<t.client, t.pid>>, t.msg)]
    BY <1>1, <1>6 DEF Apply
  <2>2. t.pid \in Pids \ {0}
    BY <1>6 DEF SavedWell
  <2>3. \A k \in DOMAIN Insert(db.in_flight, <<t.client, t.pid>>, t.msg) : k[2] \in Pids \ {0}
    BY <2>2 DEF SavedWell, Insert
  <2> QED
    BY <1>2, <2>1, <2>3 DEF SavedWell, Pids
<1>7. CASE t.op = "delete_in_flight"
  <2>1. db' = [db EXCEPT !.in_flight = Without(@, {<<t.client, t.pid>>})]
    BY <1>1, <1>7 DEF Apply
  <2>2. DOMAIN Without(db.in_flight, {<<t.client, t.pid>>}) \subseteq DOMAIN db.in_flight
    BY DEF Without
  <2> QED
    BY <1>2, <2>1, <2>2 DEF SavedWell, Pids
<1> QED
  BY <1>3, <1>4, <1>5, <1>6, <1>7 DEF SavedWell

\* A write that fails changes no table, or some by a part of delete_session.
LEMMA TaskFailsSaved ==
  ASSUME SavedWell, TaskFails
  PROVE  SavedWell'
<1>1. PICK t \in DOMAIN tasks :
        /\ db' = db \/ \E done : db' = DeleteStatements(db, t.client, done)
        /\ tasks' = BagOps!BagRemove(tasks, t)
  BY DEF TaskFails
<1>2. DOMAIN tasks' \subseteq DOMAIN tasks
  BY <1>1, BagFacts
<1>3. CASE db' = db
  BY <1>2, <1>3 DEF SavedWell, Pids
<1> QED
  BY <1>1, <1>2, <1>3, DeleteSaved

\* The end of the process, in the middle of a delete_session too.
LEMMA LoseTasksSaved ==
  ASSUME SavedWell, LoseTasks
  PROVE  SavedWell'
<1>1. DOMAIN tasks' = {}
  BY DEF LoseTasks, EmptyBag, SetToBag
<1>2. CASE db' = db
  BY <1>1, <1>2 DEF SavedWell, Pids
<1>3. CASE \E client, which : db' = DeleteStatements(db, client, which)
  BY <1>1, <1>3, DeleteSaved
<1> QED
  BY <1>2, <1>3 DEF LoseTasks

-----------------------------------------------------------------------------
(* The steps of a connection.                                              *)

\* Steps that change nothing but how far a connection is, its writer and
\* its channel.
LEMMA LocalStep ==
  ASSUME Inv, NEW c \in Conns,
         UNCHANGED <<sessVars, pidVars, bootVars, dbVars>>,
         \E v \in Held : phase' = [phase EXCEPT ![c] = v],
         reads' \in [Conns -> Nat], writer' \in [Conns -> BOOLEAN],
         DOMAIN work' = Conns, DOMAIN out' = Conns,
         metrics' \in [published : Nat, subscriptions : Nat]
  PROVE  Inv'
<1>1. ConnTypes'
  BY ZenonT(60) DEF Inv, TypeOK, ConnTypes
<1>2. SessionTypes'
  BY DEF Inv, TypeOK, SessionTypes, sessVars, pidVars
<1>3. ProcessTypes'
  BY DEF Inv, TypeOK, ProcessTypes, bootVars
<1>4. \A d \in Conns : phase[d] \in Held => phase'[d] \in Held
  BY DEF Inv, TypeOK, ConnTypes
<1>5. RegisteredIsLive'
  BY <1>4, QuietStep DEF Inv
<1>6. SavedWell'
  BY SameSaved DEF Inv
<1> QED
  BY <1>1, <1>2, <1>3, <1>5, <1>6 DEF Inv, TypeOK

\* What a step that reads the next packet says about the connection.
LEMMA ReadFacts ==
  ASSUME Inv, NEW c \in Conns, Read(c)
  PROVE  /\ phase[c] = "open"
         /\ reads' \in [Conns -> Nat]
BY DEF Read, Inv, TypeOK, ConnTypes

\* Queueing a packet, or not, keeps one channel for each connection.
LEMMA SentFacts ==
  ASSUME Inv, NEW c \in Conns, NEW packet
  PROVE  DOMAIN Sent(c, packet) = Conns
BY DEF Sent, Inv, TypeOK, ConnTypes

\* Queueing the CONNACK is a local step of the connection.
LEMMA SendConnAckInv ==
  ASSUME Inv, NEW c \in Conns, SendConnAck(c)
  PROVE  Inv'
<1>1. phase' = [phase EXCEPT ![c] = "open"] /\ DOMAIN out' = Conns
  BY SentFacts DEF SendConnAck
<1> QED
  BY <1>1, LocalStep DEF SendConnAck, Inv, TypeOK, ConnTypes, ProcessTypes, Held, Alive, routeVars

\* A PUBLISH that is refused is answered, at most.
LEMMA PublishDeniedInv ==
  ASSUME Inv, NEW c \in Conns, NEW p \in Publishes, PublishDenied(c, p)
  PROVE  Inv'
<1>1. phase[c] = "open" /\ reads' \in [Conns -> Nat]
  BY ReadFacts DEF PublishDenied
<1>2. phase' = [phase EXCEPT ![c] = "open"]
  BY <1>1 DEF PublishDenied, Inv, TypeOK, ConnTypes
<1>3. DOMAIN out' = Conns
  BY SentFacts DEF PublishDenied, Inv, TypeOK, ConnTypes
<1> QED
  BY <1>1, <1>2, <1>3, LocalStep
     DEF PublishDenied, Inv, TypeOK, ConnTypes, ProcessTypes, Held, Alive, routeVars

\* Matching a PUBLISH counts it and leaves the session table alone.
LEMMA PublishInv ==
  ASSUME Inv, NEW c \in Conns, NEW p \in Publishes, Publish(c, p)
  PROVE  Inv'
<1>1. reads' \in [Conns -> Nat]
  BY ReadFacts DEF Publish
<1>2. /\ phase' = [phase EXCEPT ![c] = "routing"]
      /\ metrics' = [metrics EXCEPT !.published = @ + 1]
      /\ DOMAIN work' = DOMAIN work
      /\ UNCHANGED <<writer, out>>
      /\ UNCHANGED <<sessVars, pidVars, bootVars, dbVars>>
  BY DEF Publish
<1>3. metrics' \in [published : Nat, subscriptions : Nat]
  BY <1>2 DEF Inv, TypeOK, ProcessTypes
<1> QED
  BY <1>1, <1>2, <1>3, LocalStep DEF Inv, TypeOK, ConnTypes, Held, Alive

\* The end of route_publish, with its PUBACK.
LEMMA FinishPublishInv ==
  ASSUME Inv, NEW c \in Conns, FinishPublish(c)
  PROVE  Inv'
<1>1. phase' = [phase EXCEPT ![c] = "open"] /\ DOMAIN work' = DOMAIN work
  BY DEF FinishPublish
<1>2. DOMAIN out' = Conns
  BY SentFacts DEF FinishPublish, Inv, TypeOK, ConnTypes
<1> QED
  BY <1>1, <1>2, LocalStep
     DEF FinishPublish, Inv, TypeOK, ConnTypes, ProcessTypes, Held, Alive, routeVars

\* A SUBSCRIBE that starts is a local step of the connection.
LEMMA SubscribeInv ==
  ASSUME Inv, NEW c \in Conns, NEW r \in Subscribes, Subscribe(c, r)
  PROVE  Inv'
<1>1. reads' \in [Conns -> Nat]
  BY ReadFacts DEF Subscribe
<1>2. phase' = [phase EXCEPT ![c] = "subscribing"] /\ DOMAIN work' = DOMAIN work
  BY DEF Subscribe
<1> QED
  BY <1>1, <1>2, LocalStep
     DEF Subscribe, Inv, TypeOK, ConnTypes, ProcessTypes, Held, Alive, routeVars

\* The SUBACK is a local step of the connection.
LEMMA FinishSubscribeInv ==
  ASSUME Inv, NEW c \in Conns, FinishSubscribe(c)
  PROVE  Inv'
<1>1. phase' = [phase EXCEPT ![c] = "open"] /\ DOMAIN work' = DOMAIN work
  BY DEF FinishSubscribe
<1>2. DOMAIN out' = Conns
  BY SentFacts DEF FinishSubscribe
<1> QED
  BY <1>1, <1>2, LocalStep
     DEF FinishSubscribe, Inv, TypeOK, ConnTypes, ProcessTypes, Held, Alive, routeVars

\* PINGREQ, DISCONNECT, a panic and the failure of the writer.
LEMMA ControlInv ==
  ASSUME Inv, NEW c \in Conns, PingReq(c) \/ Disconnect(c) \/ Panic(c) \/ WriterFails(c)
  PROVE  Inv'
<1>1. CASE PingReq(c)
  <2>1. phase[c] = "open" /\ reads' \in [Conns -> Nat]
    BY <1>1, ReadFacts DEF PingReq
  <2>2. phase' = [phase EXCEPT ![c] = "open"]
    BY <1>1, <2>1 DEF PingReq, Inv, TypeOK, ConnTypes
  <2>3. DOMAIN out' = Conns
    BY <1>1, SentFacts DEF PingReq
  <2> QED
    BY <1>1, <2>1, <2>2, <2>3, LocalStep
       DEF PingReq, Inv, TypeOK, ConnTypes, ProcessTypes, Held, Alive, routeVars
<1>2. CASE Disconnect(c)
  <2>1. phase[c] = "open" /\ reads' \in [Conns -> Nat]
    BY <1>2, ReadFacts DEF Disconnect
  <2>2. phase' = [phase EXCEPT ![c] = "open"]
    BY <1>2, <2>1 DEF Disconnect, Inv, TypeOK, ConnTypes
  <2> QED
    BY <1>2, <2>1, <2>2, LocalStep
       DEF Disconnect, Inv, TypeOK, ConnTypes, ProcessTypes, Held, Alive, routeVars
<1>3. CASE WriterFails(c)
  <2>1. phase[c] \in Held /\ phase' = [phase EXCEPT ![c] = phase[c]]
    BY <1>3 DEF WriterFails, Inv, TypeOK, ConnTypes
  <2>2. writer' \in [Conns -> BOOLEAN]
    BY <1>3 DEF WriterFails, Inv, TypeOK, ConnTypes
  <2> QED
    BY <1>3, <2>1, <2>2, LocalStep
       DEF WriterFails, Inv, TypeOK, ConnTypes, ProcessTypes, routeVars
<1>4. CASE Panic(c)
  <2>1. phase[c] = "open" /\ reads' \in [Conns -> Nat]
    BY <1>4, ReadFacts DEF Panic
  <2>2. phase' = [phase EXCEPT ![c] = "panicked"]
    BY <1>4 DEF Panic
  <2> QED
    BY <1>4, <2>1, <2>2, LocalStep
       DEF Panic, Inv, TypeOK, ConnTypes, ProcessTypes, Held, routeVars
<1> QED
  BY <1>1, <1>2, <1>3, <1>4

-----------------------------------------------------------------------------
(* Deliveries, and the other steps that spawn a write.                     *)

\* A delivery takes a packet id of the receiving session, whoever's it is.
LEMMA SendPublishInv ==
  ASSUME Inv, NEW client, NEW msg, NEW info,
         send_publish_to_client(client, msg, info)
  PROVE  /\ DOMAIN out' = Conns
         /\ next_packet_id' \in [Sids -> Pids]
         /\ DOMAIN in_flight' = Sids
         /\ \A s \in Sids : DOMAIN in_flight'[s] \subseteq Pids \ {0}
         /\ SavedWell'
<1> DEFINE s == sessions[client]
<1>1. CASE client \notin DOMAIN sessions
  <2>1. UNCHANGED <<out, pidVars, dbVars>>
    BY <1>1 DEF send_publish_to_client
  <2> QED
    BY <2>1, SameSaved DEF Inv, TypeOK, ConnTypes, SessionTypes, pidVars
<1>2. CASE client \in DOMAIN sessions
  <2>1. s \in Sids
    BY <1>2 DEF Inv, TypeOK, SessionTypes
  <2>2. DOMAIN out' = Conns
    <3>1. \E packet : out' = IF s \in Conns THEN Sent(s, packet) ELSE out
      BY <1>2 DEF send_publish_to_client
    <3> QED
      BY <3>1, SentFacts DEF Inv, TypeOK, ConnTypes
  <2>3. CASE msg.qos > 0
    <3> DEFINE pid == PidToUse(s)
    <3>1. /\ next_packet_id' = [next_packet_id EXCEPT ![s] = PidAfter(pid)]
          /\ in_flight' = [in_flight EXCEPT ![s] = Insert(@, pid, msg)]
          /\ Spawn(SaveInFlight(client, pid, msg))
          /\ UNCHANGED db
      BY <1>2, <2>3 DEF send_publish_to_client
    <3>2. pid \in Pids \ {0} /\ PidAfter(pid) \in Pids
      BY <2>1, PidFacts DEF Inv
    <3> HIDE DEF pid
    <3>3. DOMAIN Insert(in_flight[s], pid, msg) \subseteq Pids \ {0}
      BY <2>1, <3>2 DEF Insert, Inv, TypeOK, SessionTypes
    <3>4. /\ next_packet_id' \in [Sids -> Pids]
          /\ DOMAIN in_flight' = Sids
          /\ \A q \in Sids : DOMAIN in_flight'[q] \subseteq Pids \ {0}
      BY <2>1, <3>1, <3>2, <3>3 DEF Inv, TypeOK, SessionTypes
    <3>5. SavedWell'
      BY <3>1, <3>2, SpawnStep DEF SaveInFlight, Inv
    <3> QED
      BY <2>2, <3>4, <3>5
  <2>4. CASE ~ (msg.qos > 0)
    <3>1. UNCHANGED <<pidVars, dbVars>>
      BY <1>2, <2>4 DEF send_publish_to_client
    <3> QED
      BY <2>2, <3>1, SameSaved DEF Inv, TypeOK, SessionTypes, pidVars
  <2> QED
    BY <2>3, <2>4
<1> QED
  BY <1>1, <1>2

\* Both loops of route_publish.
LEMMA DeliverInv ==
  ASSUME Inv, NEW c \in Conns, DeliverNormal(c) \/ DeliverShared(c)
  PROVE  Inv'
<1>1. \E client, msg, info : send_publish_to_client(client, msg, info)
  BY DEF DeliverNormal, DeliverShared
<1>2. /\ UNCHANGED <<phase, reads, writer, sessVars, bootVars, metrics>>
      /\ DOMAIN work' = DOMAIN work
  BY DEF DeliverNormal, DeliverShared, routeVars
<1>3. ConnTypes'
  BY <1>1, <1>2, SendPublishInv DEF Inv, TypeOK, ConnTypes
<1>4. SessionTypes'
  BY <1>1, <1>2, SendPublishInv DEF Inv, TypeOK, SessionTypes, sessVars
<1>5. ProcessTypes'
  BY <1>2 DEF Inv, TypeOK, ProcessTypes, bootVars
<1>6. RegisteredIsLive'
  BY <1>2, QuietStep DEF Inv
<1>7. SavedWell'
  BY <1>1, SendPublishInv
<1> QED
  BY <1>3, <1>4, <1>5, <1>6, <1>7 DEF Inv, TypeOK

\* One filter of a SUBSCRIBE: the write that is spawned is no session row and
\* no message.
LEMMA SubscribeFilterInv ==
  ASSUME Inv, NEW c \in Conns, SubscribeFilter(c)
  PROVE  Inv'
<1>1. /\ UNCHANGED <<phase, reads, writer, out, sessVars, pidVars, bootVars, db>>
      /\ DOMAIN work' = DOMAIN work
  BY DEF SubscribeFilter
<1>2. \/ UNCHANGED <<metrics, tasks>>
      \/ /\ metrics' = [metrics EXCEPT !.subscriptions = @ + 1]
         /\ \E client, filter, info : Spawn(SaveSubscription(client, filter, info))
  BY DEF SubscribeFilter
<1>3. ConnTypes'
  BY <1>1 DEF Inv, TypeOK, ConnTypes
<1>4. SessionTypes'
  BY <1>1 DEF Inv, TypeOK, SessionTypes, sessVars, pidVars
<1>5. ProcessTypes'
  BY <1>1, <1>2 DEF Inv, TypeOK, ProcessTypes, bootVars
<1>6. RegisteredIsLive'
  BY <1>1, QuietStep DEF Inv
<1>7. SavedWell'
  BY <1>1, <1>2, SameSaved, SpawnStep DEF Inv, dbVars, SaveSubscription
<1> QED
  BY <1>3, <1>4, <1>5, <1>6, <1>7 DEF Inv, TypeOK

\* A PUBACK takes an id out of the session's messages, and never adds one.
LEMMA PubAckInv ==
  ASSUME Inv, NEW c \in Conns, NEW pid \in PubAcks, PubAck(c, pid)
  PROVE  Inv'
<1>1. /\ reads' \in [Conns -> Nat]
      /\ in_flight' = [in_flight EXCEPT ![c] = Without(@, {pid})]
      /\ UNCHANGED <<phase, work, writer, out, sessVars, next_packet_id, bootVars, metrics, db>>
      /\ Spawn(DeleteInFlight(meta[c].client, pid))
  BY ReadFacts DEF PubAck, routeVars
<1>2. ConnTypes'
  BY <1>1 DEF Inv, TypeOK, ConnTypes
<1>3. SessionTypes'
  <2>1. DOMAIN Without(in_flight[c], {pid}) \subseteq DOMAIN in_flight[c] /\ c \in Sids
    BY DEF Without, Sids
  <2> QED
    BY <1>1, <2>1 DEF Inv, TypeOK, SessionTypes, sessVars
<1>4. ProcessTypes'
  BY <1>1 DEF Inv, TypeOK, ProcessTypes, bootVars
<1>5. RegisteredIsLive'
  BY <1>1, QuietStep DEF Inv
<1>6. SavedWell'
  BY <1>1, SpawnStep DEF Inv, DeleteInFlight
<1> QED
  BY <1>2, <1>3, <1>4, <1>5, <1>6 DEF Inv, TypeOK

-----------------------------------------------------------------------------
(* Connections that come and go.                                           *)

\* A connection that has not sent its CONNECT is nobody's session.
LEMMA FreeIsUnregistered ==
  ASSUME Inv, NEW c \in Conns, phase[c] = "free"
  PROVE  \A cl \in DOMAIN sessions : sessions[cl] # c
<1> SUFFICES ASSUME NEW cl \in DOMAIN sessions, sessions[cl] = c
             PROVE  FALSE
  OBVIOUS
<1>1. c # cl
  BY BrokerAssumption DEF Inv, TypeOK, SessionTypes
<1>2. phase[c] \in Held
  BY <1>1 DEF Inv, RegisteredIsLive
<1> QED
  BY <1>2 DEF Held, Alive

\* A connection that never gets as far as a session: the first packet does
\* not come or is not a CONNECT, or authentication fails.
LEMMA RefuseInv ==
  ASSUME Inv, NEW c \in Conns, NoConnect(c) \/ \E h \in Hellos : Refuse(c, h)
  PROVE  Inv'
<1>1. /\ phase[c] = "free" /\ phase' = [phase EXCEPT ![c] = "closed"]
      /\ UNCHANGED <<work, reads, writer, sessVars, pidVars, routeVars, bootVars, dbVars>>
      /\ DOMAIN out' = DOMAIN out
  BY DEF NoConnect, Refuse
<1>2. ConnTypes'
  BY <1>1 DEF Inv, TypeOK, ConnTypes
<1>3. SessionTypes'
  BY <1>1 DEF Inv, TypeOK, SessionTypes, sessVars, pidVars
<1>4. ProcessTypes'
  BY <1>1 DEF Inv, TypeOK, ProcessTypes, bootVars, routeVars
<1>5. RegisteredIsLive'
  <2>1. \A cl \in DOMAIN sessions : sessions[cl] # c
    BY <1>1, FreeIsUnregistered
  <2> QED
    BY <1>1, <2>1 DEF Inv, RegisteredIsLive, TypeOK, ConnTypes, sessVars
<1>6. SavedWell'
  BY <1>1, SameSaved DEF Inv
<1> QED
  BY <1>2, <1>3, <1>4, <1>5, <1>6 DEF Inv, TypeOK

\* register_session: the other clients' sessions stay usable, since none of
\* them belongs to the connection whose fields are set.
LEMMA ConnectInv ==
  ASSUME Inv, NEW c \in Conns, NEW h \in Hellos, Connect(c, h)
  PROVE  Inv'
<1> DEFINE s == Session(h)
<1>1. /\ s.client \in Clients /\ s.client = h.client
      /\ c \in Sids
      /\ 1 \in Pids
  BY BrokerAssumption DEF Session, Sids, Pids
<1>2. /\ phase[c] = "free"
      /\ phase' = [phase EXCEPT ![c] = "registered"]
      /\ writer' = [writer EXCEPT ![c] = TRUE]
      /\ sessions' = Insert(sessions, s.client, c)
      /\ meta' = [meta EXCEPT ![c] = s]
      /\ next_packet_id' = [next_packet_id EXCEPT ![c] = 1]
      /\ in_flight' = [in_flight EXCEPT ![c] = << >>]
      /\ UNCHANGED <<work, reads, out, routeVars, bootVars, db>>
      /\ Spawn(SaveSession(s.client, s)) \/ UNCHANGED tasks
  BY DEF Connect, register_session
<1> HIDE DEF s
<1>3. ConnTypes'
  BY <1>2 DEF Inv, TypeOK, ConnTypes, Held, Alive
<1>4. /\ DOMAIN sessions' = DOMAIN sessions \cup {s.client}
      /\ sessions'[s.client] = c
      /\ \A cl \in DOMAIN sessions : cl # s.client => sessions'[cl] = sessions[cl]
  BY <1>2 DEF Insert
<1>5. SessionTypes'
  <2>1. DOMAIN in_flight'[c] = {}
    BY <1>1, <1>2 DEF Inv, TypeOK, SessionTypes
  <2> QED
    BY <1>1, <1>2, <1>4, <2>1 DEF Inv, TypeOK, SessionTypes
<1>6. ProcessTypes'
  BY <1>2 DEF Inv, TypeOK, ProcessTypes, bootVars, routeVars
<1>7. RegisteredIsLive'
  <2> SUFFICES ASSUME NEW cl \in DOMAIN sessions'
               PROVE  /\ meta'[sessions'[cl]].client = cl
                      /\ sessions'[cl] # cl =>
                           sessions'[cl] \in Conns /\ phase'[sessions'[cl]] \in Held
    BY DEF RegisteredIsLive
  <2>1. CASE cl = s.client
    BY <1>1, <1>2, <1>4, <2>1 DEF Inv, TypeOK, ConnTypes, SessionTypes, Held, Alive
  <2>2. CASE cl # s.client
    <3>1. cl \in DOMAIN sessions /\ sessions'[cl] = sessions[cl]
      BY <1>4, <2>2
    <3>2. sessions[cl] # c /\ sessions[cl] \in Sids
      BY <1>2, <3>1, FreeIsUnregistered DEF Inv, TypeOK, SessionTypes
    <3>3. meta'[sessions[cl]] = meta[sessions[cl]]
      BY <1>2, <3>2 DEF Inv, TypeOK, SessionTypes
    <3>4. sessions[cl] \in Conns => phase'[sessions[cl]] = phase[sessions[cl]]
      BY <1>2, <3>2 DEF Inv, TypeOK, ConnTypes
    <3> QED
      BY <3>1, <3>3, <3>4 DEF Inv, RegisteredIsLive
  <2> QED
    BY <2>1, <2>2
<1>8. SavedWell'
  <2>1. CASE UNCHANGED tasks
    BY <1>2, <2>1, SameSaved DEF Inv, dbVars
  <2>2. CASE Spawn(SaveSession(s.client, s))
    BY <1>1, <1>2, <2>2, SpawnStep DEF Inv, SaveSession
  <2> QED
    BY <1>2, <2>1, <2>2
<1> QED
  BY <1>3, <1>5, <1>6, <1>7, <1>8 DEF Inv, TypeOK

\* The end of a connection.  If its session is still registered, it is so
\* under the client's name, and that entry goes.
LEMMA ExitInv ==
  ASSUME Inv, NEW c \in Conns, Exit(c)
  PROVE  Inv'
<1> DEFINE client == meta[c].client
<1>1. /\ phase' = [phase EXCEPT ![c] = "closed"]
      /\ writer' = [writer EXCEPT ![c] = FALSE]
      /\ UNCHANGED <<work, reads, out, meta, pidVars, routeVars, bootVars, db>>
      /\ remove_session(client)
  BY DEF Exit
<1> HIDE DEF client
<1>2. /\ DOMAIN sessions' = DOMAIN sessions \ {client}
      /\ \A cl \in DOMAIN sessions' : sessions'[cl] = sessions[cl]
      /\ Spawn(DeleteSession(client)) \/ UNCHANGED tasks
  BY <1>1 DEF remove_session, Without
<1>3. ConnTypes'
  BY <1>1 DEF Inv, TypeOK, ConnTypes
<1>4. SessionTypes'
  BY <1>1, <1>2 DEF Inv, TypeOK, SessionTypes, pidVars
<1>5. ProcessTypes'
  BY <1>1 DEF Inv, TypeOK, ProcessTypes, bootVars, routeVars
<1>6. RegisteredIsLive'
  <2> SUFFICES ASSUME NEW cl \in DOMAIN sessions'
               PROVE  /\ meta'[sessions'[cl]].client = cl
                      /\ sessions'[cl] # cl =>
                           sessions'[cl] \in Conns /\ phase'[sessions'[cl]] \in Held
    BY DEF RegisteredIsLive
  <2>1. cl \in DOMAIN sessions /\ cl # client /\ sessions'[cl] = sessions[cl]
    BY <1>2
  <2>2. meta[sessions[cl]].client = cl
    BY <2>1 DEF Inv, RegisteredIsLive
  <2>3. sessions[cl] # c
    BY <2>1, <2>2 DEF client
  <2>4. sessions[cl] \in Conns => phase'[sessions[cl]] = phase[sessions[cl]]
    BY <1>1, <2>3 DEF Inv, TypeOK, ConnTypes
  <2> QED
    BY <1>1, <2>1, <2>2, <2>4 DEF Inv, RegisteredIsLive
<1>7. SavedWell'
  <2>1. CASE UNCHANGED tasks
    BY <1>1, <2>1, SameSaved DEF Inv, dbVars
  <2>2. CASE Spawn(DeleteSession(client))
    BY <1>1, <2>2, SpawnStep DEF Inv, DeleteSession
  <2> QED
    BY <1>2, <2>1, <2>2
<1> QED
  BY <1>3, <1>4, <1>5, <1>6, <1>7 DEF Inv, TypeOK

-----------------------------------------------------------------------------
(* The process ends and starts again.                                      *)

\* Ctrl-C only queues packets.
LEMMA ShutdownInv ==
  ASSUME Inv, Shutdown
  PROVE  Inv'
<1>1. /\ running' = "stopping" /\ DOMAIN out' = Conns
      /\ UNCHANGED <<connVars, sessVars, pidVars, routeVars, restarts, dbVars>>
  BY DEF Shutdown
<1>2. ConnTypes'
  BY <1>1 DEF Inv, TypeOK, ConnTypes, connVars
<1>3. SessionTypes'
  BY <1>1 DEF Inv, TypeOK, SessionTypes, sessVars, pidVars
<1>4. ProcessTypes'
  BY <1>1 DEF Inv, TypeOK, ProcessTypes, routeVars
<1>5. RegisteredIsLive'
  BY <1>1, QuietStep DEF Inv, connVars
<1>6. SavedWell'
  BY <1>1, SameSaved DEF Inv
<1> QED
  BY <1>2, <1>3, <1>4, <1>5, <1>6 DEF Inv, TypeOK

\* The end of the process empties the session table.
LEMMA StopInv ==
  ASSUME Inv, Stop
  PROVE  Inv'
<1>1. DOMAIN sessions' = {} /\ \A s \in Sids : DOMAIN in_flight'[s] = {}
  BY DEF Stop
<1>2. ConnTypes'
  BY DEF Stop, Inv, TypeOK, ConnTypes
<1>3. SessionTypes'
  <2>1. 1 \in Pids
    BY BrokerAssumption DEF Pids
  <2> QED
    BY <1>1, <2>1 DEF Stop, Inv, TypeOK, SessionTypes
<1>4. ProcessTypes'
  <2>1. restarts' \in 0 .. MaxRestarts
    BY BrokerAssumption DEF Stop, Inv, TypeOK, ProcessTypes
  <2> QED
    BY <2>1 DEF Stop, ProcessTypes
<1>5. RegisteredIsLive'
  BY <1>1 DEF RegisteredIsLive
<1>6. SavedWell'
  BY LoseTasksSaved DEF Stop, Inv
<1> QED
  BY <1>2, <1>3, <1>4, <1>5, <1>6 DEF Inv, TypeOK

\* restore_sessions_from_db: each row becomes the offline session of the
\* client under which it was saved, with the message ids that were saved.
LEMMA RestoreInv ==
  ASSUME Inv, Restore
  PROVE  Inv'
<1>1. CASE RestoreSessions
  <2>1. PICK rows : /\ rows = << >> \/ rows = db.sessions
                    /\ sessions' = [cl \in DOMAIN rows |-> cl]
                    /\ meta' = [s \in Sids |-> IF s \in DOMAIN rows THEN rows[s] ELSE meta[s]]
    BY <1>1 DEF RestoreSessions
  <2>2. \A cl \in DOMAIN rows : cl \in Clients /\ rows[cl].client = cl
    BY <2>1 DEF Inv, SavedWell
  <2>3. /\ running' = "restoring"
        /\ UNCHANGED <<connVars, out, pidVars, routeVars, restarts, dbVars>>
    BY <1>1 DEF RestoreSessions
  <2>4. ConnTypes'
    BY <2>3 DEF Inv, TypeOK, ConnTypes, connVars
  <2>5. SessionTypes'
    BY <2>1, <2>2, <2>3 DEF Inv, TypeOK, SessionTypes, pidVars, Sids
  <2>6. ProcessTypes'
    BY <2>3 DEF Inv, TypeOK, ProcessTypes, routeVars
  <2>7. RegisteredIsLive'
    BY <2>1, <2>2 DEF RegisteredIsLive, Sids
  <2>8. SavedWell'
    BY <2>3, SameSaved DEF Inv
  <2> QED
    BY <2>4, <2>5, <2>6, <2>7, <2>8 DEF Inv, TypeOK
<1>2. CASE RestoreSubscription
  <2>1. UNCHANGED <<connVars, out, sessVars, pidVars, metrics, running, restarts, dbVars>>
    BY <1>2 DEF RestoreSubscription
  <2>2. ConnTypes' /\ SessionTypes' /\ ProcessTypes'
    BY <2>1 DEF Inv, TypeOK, ConnTypes, SessionTypes, ProcessTypes, connVars, sessVars, pidVars
  <2>3. RegisteredIsLive'
    BY <2>1, QuietStep DEF Inv, connVars
  <2>4. SavedWell'
    BY <2>1, SameSaved DEF Inv
  <2> QED
    BY <2>2, <2>3, <2>4 DEF Inv, TypeOK
<1>3. CASE RestoreInFlight
  <2>1. /\ running' = "up"
        /\ UNCHANGED <<connVars, out, sessVars, next_packet_id, routeVars, restarts, dbVars>>
    BY <1>3 DEF RestoreInFlight
  <2>2. PICK failed \in BOOLEAN :
          in_flight' = [s \in Sids |->
                          IF s \in DOMAIN sessions /\ ~ failed
                          THEN [pid \in {k[2] : k \in OfClient(db.in_flight, s)} |->
                                  db.in_flight[<<s, pid>>]]
                          ELSE in_flight[s]]
    BY <1>3 DEF RestoreInFlight
  <2>3. \A s \in Sids : \A pid \in {k[2] : k \in OfClient(db.in_flight, s)} : pid \in Pids \ {0}
    BY DEF Inv, SavedWell, OfClient
  <2>4. ConnTypes'
    BY <2>1 DEF Inv, TypeOK, ConnTypes, connVars
  <2>5. SessionTypes'
    <3>1. DOMAIN in_flight' = Sids /\ \A s \in Sids : DOMAIN in_flight'[s] \subseteq Pids \ {0}
      BY <2>2, <2>3 DEF Inv, TypeOK, SessionTypes
    <3> QED
      BY <2>1, <3>1 DEF Inv, TypeOK, SessionTypes, sessVars
  <2>6. ProcessTypes'
    BY <2>1 DEF Inv, TypeOK, ProcessTypes, routeVars
  <2>7. RegisteredIsLive'
    BY <2>1, QuietStep DEF Inv, connVars
  <2>8. SavedWell'
    BY <2>1, SameSaved DEF Inv
  <2> QED
    BY <2>4, <2>5, <2>6, <2>7, <2>8 DEF Inv, TypeOK
<1> QED
  BY <1>1, <1>2, <1>3 DEF Restore

\* The database's own steps touch nothing that is in memory.
LEMMA DbStepInv ==
  ASSUME Inv, DbStep(RunTask) \/ DbStep(TaskFails)
  PROVE  Inv'
<1>1. UNCHANGED <<connVars, out, sessVars, pidVars, routeVars, bootVars>>
  BY DEF DbStep
<1>2. ConnTypes' /\ SessionTypes' /\ ProcessTypes'
  BY <1>1 DEF Inv, TypeOK, ConnTypes, SessionTypes, ProcessTypes,
              connVars, sessVars, pidVars, routeVars, bootVars
<1>3. RegisteredIsLive'
  BY <1>1, QuietStep DEF Inv, connVars
<1>4. SavedWell'
  BY RunTaskSaved, TaskFailsSaved DEF DbStep, Inv
<1> QED
  BY <1>2, <1>3, <1>4 DEF Inv, TypeOK

-----------------------------------------------------------------------------
(* The theorems.                                                           *)

\* A broker that starts for the first time.
LEMMA InitInv == ASSUME Init PROVE Inv
<1>1. DOMAIN sessions = {} /\ \A s \in Sids : DOMAIN in_flight[s] = {}
  BY DEF Init
<1>2. ConnTypes
  BY DEF Init, ConnTypes
<1>3. SessionTypes
  <2>1. 1 \in Pids
    BY BrokerAssumption DEF Pids
  <2> QED
    BY <1>1, <2>1 DEF Init, SessionTypes
<1>4. ProcessTypes
  BY BrokerAssumption DEF Init, ProcessTypes
<1>5. RegisteredIsLive
  BY <1>1 DEF RegisteredIsLive
<1>6. SavedWell
  <2>1. DOMAIN tasks = {}
    BY DEF Init, EmptyBag, SetToBag
  <2>2. /\ DOMAIN db = {"sessions", "subscriptions", "in_flight"}
        /\ DOMAIN db.sessions = {} /\ DOMAIN db.in_flight = {}
    BY DEF Init, EmptyDb
  <2> QED
    BY <2>1, <2>2 DEF SavedWell
<1> QED
  BY <1>2, <1>3, <1>4, <1>5, <1>6 DEF Inv, TypeOK

\* Every step of the broker keeps the inductive invariant.
LEMMA NextInv == ASSUME Inv, [Next]_vars PROVE Inv'
<1>1. ASSUME NEW c \in Conns, Handle(c)
      PROVE  Inv'
  BY <1>1, SendConnAckInv, DeliverInv, FinishPublishInv, SubscribeFilterInv, FinishSubscribeInv
     DEF Handle
<1>2. ASSUME NEW c \in Conns, Receive(c)
      PROVE  Inv'
  BY <1>2, RefuseInv, ConnectInv, PublishDeniedInv, PublishInv, SubscribeInv, PubAckInv,
     ControlInv, ExitInv
     DEF Receive
<1>3. CASE UNCHANGED vars
  <2>1. UNCHANGED <<connVars, out, sessVars, pidVars, routeVars, bootVars, dbVars>>
    BY <1>3 DEF vars
  <2>2. ConnTypes' /\ SessionTypes' /\ ProcessTypes'
    BY <2>1 DEF Inv, TypeOK, ConnTypes, SessionTypes, ProcessTypes,
                connVars, sessVars, pidVars, routeVars, bootVars
  <2>3. RegisteredIsLive' /\ SavedWell'
    BY <2>1, QuietStep, SameSaved DEF Inv, connVars
  <2> QED
    BY <2>2, <2>3 DEF Inv, TypeOK
<1> QED
  BY <1>1, <1>2, <1>3, DbStepInv, ShutdownInv, StopInv, RestoreInv DEF Next

\* The inductive invariant holds at all times.
THEOREM Invariance == Spec => []Inv
<1>1. Init => Inv
  BY InitInv
<1>2. Inv /\ [Next]_vars => Inv'
  BY NextInv
<1> QED
  BY <1>1, <1>2, PTL DEF Spec

\* The state has its types for any number of clients, connections and
\* packets; in particular the packet ids that are in flight are u16 values
\* other than 0, across wrap-around and restarts (get_next_packet_id,
\* restore_sessions_from_db).
THEOREM TypeCorrect == Spec => []TypeOK
<1>1. Inv => TypeOK
  BY DEF Inv
<1> QED
  BY <1>1, Invariance, PTL

\* No session is registered whose connection has ended, whatever takeovers,
\* failures and restarts happen (register_session, remove_session).
THEOREM RegisteredSessionsLive == Spec => []RegisteredIsLive
<1>1. Inv => RegisteredIsLive
  BY DEF Inv
<1> QED
  BY <1>1, Invariance, PTL

\* What a restart reads is well formed, in whatever order the pending
\* writes run and whichever of them fail (persistence.rs).
THEOREM DatabaseWellFormed == Spec => []SavedWell
<1>1. Inv => SavedWell
  BY DEF Inv
<1> QED
  BY <1>1, Invariance, PTL
=============================================================================
