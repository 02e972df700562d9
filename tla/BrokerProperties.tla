-------------------------- MODULE BrokerProperties --------------------------
(***************************************************************************)
(* What is checked of module Broker.                                       *)
(***************************************************************************)
EXTENDS Broker

Packets(c, type) == {i \in DOMAIN out[c] : out[c][i].type = type}

ConnTypes ==
  /\ phase \in [Conns -> Held \cup {"free", "closed"}]
  /\ reads \in [Conns -> Nat]
  /\ writer \in [Conns -> BOOLEAN]
  /\ DOMAIN work = Conns
  /\ DOMAIN out = Conns

SessionTypes ==
  /\ DOMAIN sessions \subseteq Clients
  /\ \A cl \in DOMAIN sessions : sessions[cl] \in Sids
  /\ DOMAIN meta = Sids
  /\ next_packet_id \in [Sids -> Pids]
  /\ DOMAIN in_flight = Sids
  /\ \A s \in Sids : DOMAIN in_flight[s] \subseteq Pids \ {0}

ProcessTypes ==
  /\ running \in {"down", "restoring", "up", "stopping"}
  /\ restarts \in 0 .. MaxRestarts
  /\ metrics \in [published : Nat, subscriptions : Nat]

\* The types of the state.  Packet id 0 is reserved (get_next_packet_id).
TypeOK == ConnTypes /\ SessionTypes /\ ProcessTypes

-----------------------------------------------------------------------------
(* The session table.                                                      *)

\* A registered session is usable: it was restored for that very client, or
\* it belongs to a connection of that client whose handler has not ended, or
\* has panicked (register_session in handle_connection, remove_session at
\* its end).
RegisteredIsLive ==
  \A cl \in DOMAIN sessions :
    LET s == sessions[cl] IN
    /\ meta[s].client = cl
    /\ s # cl => s \in Conns /\ phase[s] \in Held

\* What a restart will read is well formed, whatever writes are pending: a
\* session row is saved under its own client, and no message under packet id
\* 0 (register_session, send_publish_to_client).  Without it the restored
\* sessions would not satisfy RegisteredIsLive.
SavedWell ==
  /\ DOMAIN db = {"sessions", "subscriptions", "in_flight"}
  /\ \A cl \in DOMAIN db.sessions : cl \in Clients /\ db.sessions[cl].client = cl
  /\ \A k \in DOMAIN db.in_flight : k[2] \in Pids \ {0}
  /\ \A t \in DOMAIN tasks :
       /\ t.op \in {"save_session", "delete_session", "save_subscription",
                    "save_in_flight", "delete_in_flight"}
       /\ t.op = "save_session" => t.client \in Clients /\ t.row.client = t.client
       /\ t.op = "save_in_flight" => t.pid \in Pids \ {0}

\* The inductive invariant of module BrokerProofs.
Inv == TypeOK /\ RegisteredIsLive /\ SavedWell

\* Only the end of its own connection, a newer connection of the client or
\* the end of the process takes a session out of the table ("Registers a new
\* client session, replacing any existing active session", session.rs).
SessionOutlivesPredecessor ==
  [][\A cl \in DOMAIN sessions :
       /\ sessions[cl] \in Conns /\ running' # "down"
       => \/ phase'[sessions[cl]] = "closed"
          \/ cl \in DOMAIN sessions']_vars

-----------------------------------------------------------------------------
(* Delivery.                                                               *)

\* A user who can log in under that client identifier may read the filter.
Granted(client, request) ==
  \E h \in Hellos :
    /\ h.client = client /\ Authenticated(h.username, h.password)
    /\ authorize(UserName(h.username), request.filter, "read")

\* Nobody receives a message without permission on both ends, not even
\* across a takeover or a restart: the publisher may write the topic, and a
\* user who can log in with the receiver's client identifier may read a
\* filter that matches it (authorize in process_client_packet).
AuthorizedDelivery ==
  \A c \in Conns : \A i \in Packets(c, "PUBLISH") :
    LET m == out[c][i].msg IN
    /\ authorize(User(m.from), m.topic, "write")
    /\ \E q \in Requests :
         /\ Granted(meta[c].client, q)
         /\ Matches(Walked(parse_shared_subscription(q.filter).filter), m.topic)
         /\ q.info = out[c][i].info

Copies(c, msg) == Cardinality({i \in Packets(c, "PUBLISH") : out[c][i].msg = msg})

\* The nodes at which the route found an ordinary subscription of the client.
NormalEntries(route, client) ==
  {i \in DOMAIN route.normal : \E s \in route.normal[i] : s.client = client}

\* What must have happened when a message has been routed: each session
\* that was registered at the match and still is has the message in its
\* channel once for each of its matching subscriptions (its writer being
\* there to take it), and besides one copy per group was sent to a member: at
\* most, and exactly when all the members were there.
FullyDelivered(c) ==
  LET w        == work[c]
      same(cl) == cl \in DOMAIN w.at /\ cl \in DOMAIN sessions /\ sessions[cl] = w.at[cl]
      extra(cl) == Copies(sessions[cl], w.msg) - Cardinality(NormalEntries(w.route, cl))
      here     == {cl \in Clients : same(cl) /\ sessions[cl] \in Conns}
      members  == UNION {{w.route.shared[g][k].client : k \in DOMAIN w.route.shared[g]}
                           : g \in DOMAIN w.route.shared}
      groups   == Cardinality(DOMAIN w.route.shared)
      shares   == SumFunction([cl \in here |-> extra(cl)])
  IN  /\ \A cl \in here : writer[sessions[cl]] => extra(cl) >= 0
      /\ (\A cl \in here : writer[sessions[cl]]) =>
           shares <= groups /\ (members \subseteq here => shares = groups)

\* The handler of a PUBLISH goes on (and queues the PUBACK of a QoS 1
\* message) only when the message is fully delivered, whatever other
\* connections came, went or were taken over meanwhile (route_publish).
AckMeansDelivered ==
  [][\A c \in Conns : (phase[c] = "routing" /\ phase'[c] = "open") => FullyDelivered(c)]_vars

\* A message for a shared group is sent to a member that is connected if
\* there is one, when nobody comes or goes meanwhile ("Deliver to shared
\* subscribers (balance load per group using round-robin)", session.rs).
SharedGroupServed ==
  [][\A c \in Conns :
       (phase[c] = "routing" /\ phase'[c] = "open" /\ sessions = work[c].at) =>
         \A g \in DOMAIN work[c].route.shared :
           LET subs   == work[c].route.shared[g]
               online == {subs[k].client : k \in DOMAIN subs} \cap DOMAIN sessions
           IN  (\E cl \in online : sessions[cl] \in Conns /\ writer[sessions[cl]]) =>
                 \E cl \in online :
                   sessions[cl] \in Conns /\ Copies(sessions[cl], work[c].msg) > 0]_vars

\* The deliveries with a packet id (QoS 1 and 2), and that id.
Numbered(c) == {i \in Packets(c, "PUBLISH") : out[c][i].pid # << >>}
Pid(c, i)   == out[c][i].pid[1]

\* QoS > 0 packets of a session never carry packet id 0, and an id is taken
\* again only after all the others were (get_next_packet_id, at the
\* wrap-around too).
PacketIdCycle ==
  \A c \in Conns : \A i \in Numbered(c) :
    /\ Pid(c, i) # 0
    /\ \A j \in Numbered(c) :
         (j < i /\ Pid(c, j) = Pid(c, i)) =>
           \A pid \in Pids \ {0, Pid(c, i)} :
             \E k \in Numbered(c) : j < k /\ k < i /\ Pid(c, k) = pid

-----------------------------------------------------------------------------
(* The database.                                                           *)

\* The key under which an entry of the trie was saved.
EntryKeys ==
  {<<s.client, s.node>> : s \in trie.subs}
  \cup UNION {{<<e.client, <<"$share", k[2]>> \o k[1]>> : e \in ToSet(trie.shared[k])}
                : k \in DOMAIN trie.shared}

PendingKeys ==
  {<<t.client, t.filter>> : t \in {u \in DOMAIN tasks : u.op = "save_subscription"}}

\* With sessions that are meant to last and a database that works, the
\* router holds exactly the subscriptions that are saved or about to be, at
\* every moment and after every restart: a restart forgets only what was
\* not written yet (subscribe, restore_sessions_from_db).
SubscriptionsDurable == Listening => EntryKeys = DOMAIN db.subscriptions \cup PendingKeys

\* The writes of the messages in transit to the registered sessions.
InTransit ==
  UNION {{SaveInFlight(cl, pid, in_flight[sessions[cl]][pid]) : pid \in DOMAIN in_flight[sessions[cl]]}
           : cl \in DOMAIN sessions}

\* The row of that client and packet id holds the message of the write.
InRow(w) == /\ <<w.client, w.pid>> \in DOMAIN db.in_flight
              /\ db.in_flight[<<w.client, w.pid>>] = w.msg

\* The messages in transit that are neither in the database nor about to be.
Lost == {w \in InTransit : w \notin DOMAIN tasks /\ ~ InRow(w)}

\* A write that has just run, and put something else where w is kept.
Overwrites(t, w) ==
  /\ t # w /\ t.op \in {"save_in_flight", "delete_in_flight"}
  /\ t.client = w.client /\ t.pid = w.pid
  /\ db' = Apply(db, t) /\ tasks' = BagOps!BagRemove(tasks, t)

\* Only one thing takes a message in transit out of what is saved or about to
\* be: another write under the same client and packet id runs after its own,
\* as ids start at 1 in every session and writes run in any order.  No
\* delivery, takeover, acknowledgement or restart does, and the restored
\* messages are those of the rows (send_publish_to_client, get_next_packet_id,
\* restore_sessions_from_db), with sessions that last and a database that works.
InTransitKept ==
  [][\A w \in Lost' : w \in Lost \/ \E t \in DOMAIN tasks : Overwrites(t, w)]_vars

\* No two writes of different messages wait under one client and packet id.
OneWritePerId ==
  \A t, w \in {u \in DOMAIN tasks : u.op = "save_in_flight"} :
    t.client = w.client /\ t.pid = w.pid => t = w

\* Every message in transit is saved or about to be, so that a restart can
\* restore it ("recupera automáticamente sesiones, suscripciones y mensajes
\* QoS 1 en tránsito", README.md of the repository; save_in_flight).
TransitRecoverable == Lost = {}

\* A client that reconnects to its restored session, without clean start,
\* finds the messages that are in transit ("Create offline session with
\* dummy sender channel (replaced when client reconnects)", session.rs).
ReconnectKeepsInTransit ==
  [][\A cl \in DOMAIN sessions \cap DOMAIN sessions' :
       (sessions[cl] = cl /\ sessions'[cl] # cl /\ ~ meta'[sessions'[cl]].clean_start) =>
         Range(in_flight[cl]) \subseteq Range(in_flight'[sessions'[cl]])]_vars

-----------------------------------------------------------------------------
(* Liveness.  The runtime runs every task that is ready: the spawned       *)
(* writes and the restore.  Nothing is assumed of clients and their        *)
(* handlers, and a crash may come at any time.                             *)

Fairness ==
  /\ WF_vars(DbStep(RunTask))
  /\ WF_vars(Restore)

FairSpec == Spec /\ Fairness

\* A subscription that was granted gets into the database, unless the
\* process ends first (the write spawned by subscribe).
SubscriptionGetsSaved ==
  \A cl \in Clients : \A r \in Subscribes : \A j \in DOMAIN r :
    (<<cl, r[j].filter>> \in EntryKeys) ~>
      (<<cl, r[j].filter>> \in DOMAIN db.subscriptions \/ running = "down")

\* A process that has ended comes up again, whatever the database holds
\* (restore_sessions_from_db is awaited before the listeners start).
BootCompletes == running = "down" ~> running = "up"
=============================================================================
