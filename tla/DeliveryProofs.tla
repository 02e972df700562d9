--------------------------- MODULE DeliveryProofs ---------------------------
(***************************************************************************)
(* What the broker delivers is right for any number of clients,            *)
(* connections and packets, with takeovers, restarts and failures:         *)
(* packet ids are taken in turn, and nobody receives a message without     *)
(* permission on both ends.  Of lasting sessions, what is subscribed is in *)
(* the database or about to be, and what is in transit is so until another *)
(* write takes its row.  A publisher is                                    *)
(* answered when everybody has got the message, and a session is lost only *)
(* to another connection of its client.                                    *)
(***************************************************************************)
EXTENDS BrokerProofs, RouterLemmas

-----------------------------------------------------------------------------
(* Which actions change what.                                              *)

\* What the actions leave alone.
LEMMA TrieSteps ==
  ASSUME [Next]_vars
  PROVE  UNCHANGED trie \/ Stop \/ RestoreSubscription \/ \E c \in Conns : SubscribeFilter(c)
BY ZenonT(60) DEF Next, Handle, Receive, Restore, DbStep, vars, routeVars, 
   SendConnAck, DeliverNormal, DeliverShared, FinishPublish, FinishSubscribe, 
   NoConnect, Refuse, Connect, PublishDenied, Publish, Subscribe, PubAck, PingReq, Disconnect, Panic, Exit, WriterFails,
   Shutdown, RestoreSessions, RestoreInFlight

-----------------------------------------------------------------------------
(* The invariant.                                                          *)

Infos == {q.info : q \in Requests}

\* The client may have that filter saved; it may have an entry at that node
\* of the trie; it may receive what is published on that topic.
MayHave(client, filter, info) ==
  \E q \in Requests : Granted(client, q) /\ q.filter = filter /\ q.info = info
MayHold(client, node, info) ==
  \E q \in Requests : Granted(client, q) /\ SubscribeNode(q.filter) = node /\ q.info = info
Entitled(client, topic, info) ==
  \E q \in Requests : /\ Granted(client, q) /\ q.info = info
                      /\ Matches(SubscribeNode(q.filter), topic)

\* Who is connected has logged in.
LoggedIn ==
  \A c \in Conns : phase[c] \in Held =>
    \E h \in Hellos : Authenticated(h.username, h.password) /\ meta[c] = Session(h)

\* The channel of a connection is a sequence, and empty before its CONNECT.
IsSequence(s) == \E S : s \in Seq(S)
Recorded ==
  \A c \in Conns : IsSequence(out[c]) /\ (phase[c] = "free" => out[c] = << >> /\ ~ writer[c])

\* A message whose publisher was allowed to write it.
Written(m) == m.from \in Conns /\ phase[m.from] # "free" /\ authorize(User(m.from), m.topic, "write")

Delivered ==
  \A c \in Conns : \A i \in Packets(c, "PUBLISH") :
    /\ Written(out[c][i].msg)
    /\ Entitled(meta[c].client, out[c][i].msg.topic, out[c][i].info)

\* The trie holds only what was granted.
TrieGranted ==
  /\ GoodTrie(Levels, Clients, Infos, trie)
  /\ \A s \in trie.subs : MayHold(s.client, s.node, s.info)
  /\ \A k \in DOMAIN trie.shared : \A e \in ToSet(trie.shared[k]) : MayHold(e.client, k[1], e.info)

\* So do the database and the writes that are pending.
RowsGranted ==
  /\ \A k \in DOMAIN db.subscriptions : MayHave(k[1], k[2], db.subscriptions[k])
  /\ \A t \in DOMAIN tasks : t.op = "save_subscription" => MayHave(t.client, t.filter, t.info)
  /\ loading \subseteq DOMAIN db.subscriptions
  /\ running # "restoring" => loading = {}

CountersNat == \A g \in DOMAIN shared_group_counters : shared_group_counters[g] \in Nat

\* What a handler has left to do is granted.
GoodSubs(topic) ==
  {s \in [node : Seq(Levels), client : Clients, info : Infos] : Entitled(s.client, topic, s.info)}
GoodMembers(topic) == {e \in Entry(Clients, Infos) : Entitled(e.client, topic, e.info)}

RouteGranted(w) ==
  /\ {"msg", "normal", "shared"} \subseteq DOMAIN w
  /\ Written(w.msg)
  /\ w.normal \in Seq(SUBSET GoodSubs(w.msg.topic))
  /\ \A g \in DOMAIN w.shared :
       w.shared[g] \in Seq(GoodMembers(w.msg.topic)) /\ w.shared[g] # << >>

WorkGranted ==
  \A c \in Conns :
    /\ phase[c] = "routing" => RouteGranted(work[c])
    /\ phase[c] = "subscribing" =>
         {"todo", "codes"} \subseteq DOMAIN work[c] /\ work[c].todo \in Seq(Requests)

DeliveryInv ==
  LoggedIn /\ Recorded /\ Delivered /\ TrieGranted /\ RowsGranted /\ CountersNat /\ WorkGranted

-----------------------------------------------------------------------------
(* A connection that has started keeps who it is.                          *)

\* How far a connection can get in a step, and what becomes of its session's
\* fields.
Frame(c) ==
  /\ phase[c] # "free" => phase'[c] # "free" /\ meta'[c] = meta[c]
  /\ phase'[c] \in Held => phase[c] \in Held \/ \E h \in Hellos : Connect(c, h)
  /\ writer'[c] => writer[c] \/ phase'[c] \in Held

LEMMA FrameStep ==
  ASSUME Inv, [Next]_vars, NEW c \in Conns
  PROVE  Frame(c)
<1> USE DEF Frame
<1>0. /\ phase[c] \in Held \cup {"free", "closed"} /\ c \in DOMAIN phase /\ c \in DOMAIN writer
      /\ c \in Sids /\ DOMAIN meta = Sids
  BY DEF Inv, TypeOK, ConnTypes, SessionTypes, Sids
<1>1. ASSUME UNCHANGED <<phase, meta, writer>> PROVE Frame(c)
  BY <1>1
<1>2. ASSUME NEW d \in Conns, NEW v \in Held \cup {"closed"}, phase[d] \in Held,
             phase' = [phase EXCEPT ![d] = v], UNCHANGED meta,
             writer' = writer \/ writer' = [writer EXCEPT ![d] = FALSE]
      PROVE  Frame(c)
  BY <1>0, <1>2 DEF Held, Alive
<1>3. ASSUME NEW d \in Conns, Handle(d) PROVE Frame(c)
  <2>1. CASE SendConnAck(d)
    BY <1>2, <2>1 DEF SendConnAck, sessVars, Held, Alive
  <2>2. CASE DeliverNormal(d) \/ DeliverShared(d) \/ SubscribeFilter(d)
    BY <1>1, <2>2 DEF DeliverNormal, DeliverShared, SubscribeFilter, sessVars
  <2>3. CASE FinishPublish(d) \/ FinishSubscribe(d)
    BY <1>2, <2>3 DEF FinishPublish, FinishSubscribe, Routing, sessVars, Held, Alive
  <2> QED BY <1>3, <2>1, <2>2, <2>3 DEF Handle
<1>4. ASSUME NEW d \in Conns, Receive(d) PROVE Frame(c)
  <2>1. CASE NoConnect(d) \/ \E h \in Hellos : Refuse(d, h)
    <3>1. /\ phase[d] = "free" /\ phase' = [phase EXCEPT ![d] = "closed"]
          /\ UNCHANGED <<writer, meta>>
      BY <2>1 DEF NoConnect, Refuse, sessVars
    <3> QED BY <1>0, <3>1 DEF Held, Alive
  <2>2. ASSUME NEW h \in Hellos, Connect(d, h) PROVE Frame(c)
    <3>1. /\ phase[d] = "free" /\ phase' = [phase EXCEPT ![d] = "registered"]
          /\ writer' = [writer EXCEPT ![d] = TRUE] /\ meta' = [meta EXCEPT ![d] = Session(h)]
      BY <2>2 DEF Connect
    <3>2. CASE d = c
      BY <1>0, <2>2, <3>1, <3>2 DEF Held, Alive
    <3>3. CASE d # c
      BY <1>0, <3>1, <3>3
    <3> QED BY <3>2, <3>3
  <2>3. CASE \/ \E p \in Publishes : PublishDenied(d, p)
             \/ \E pid \in PubAcks : PubAck(d, pid)
             \/ PingReq(d) \/ Disconnect(d)
    BY <1>1, <2>3 DEF PublishDenied, PubAck, PingReq, Disconnect, sessVars
  <2>4. CASE \/ \E p \in Publishes : Publish(d, p)
             \/ \E r \in Subscribes : Subscribe(d, r)
             \/ Panic(d)
    BY <1>2, <2>4 DEF Publish, Subscribe, Panic, Read, sessVars, Held, Alive
  <2>5. CASE Exit(d)
    BY <1>2, <2>5 DEF Exit, Held, Alive
  <2>6. CASE WriterFails(d)
    <3>1. phase[d] \in Held /\ UNCHANGED <<phase, meta>> /\ writer' = [writer EXCEPT ![d] = FALSE]
      BY <2>6 DEF WriterFails, sessVars
    <3> QED BY <1>0, <3>1 DEF Held, Alive
  <2> QED BY <1>4, <2>1, <2>2, <2>3, <2>4, <2>5, <2>6 DEF Receive
<1>5. CASE DbStep(RunTask) \/ DbStep(TaskFails) \/ Shutdown \/ UNCHANGED vars
           \/ RestoreSubscription \/ RestoreInFlight
  BY <1>1, <1>5 DEF DbStep, Shutdown, vars, RestoreSubscription, RestoreInFlight, connVars, sessVars
<1>6. CASE Stop
  <2>1. /\ phase'[c] = IF phase[c] = "free" THEN "free" ELSE "closed"
        /\ writer' = [d \in Conns |-> FALSE] /\ meta' = meta
    BY <1>6 DEF Stop
  <2> QED BY <2>1 DEF Held, Alive
<1>7. CASE RestoreSessions
  <2>1. PICK rows : /\ rows = << >> \/ rows = db.sessions
                    /\ meta' = [s \in Sids |-> IF s \in DOMAIN rows THEN rows[s] ELSE meta[s]]
    BY <1>7 DEF RestoreSessions
  <2>2. c \notin DOMAIN rows
    BY <2>1, BrokerAssumption DEF Inv, SavedWell
  <2>3. meta'[c] = meta[c] /\ UNCHANGED <<phase, writer>>
    BY <1>0, <1>7, <2>1, <2>2 DEF RestoreSessions, connVars
  <2> QED BY <2>3
<1> QED BY <1>3, <1>4, <1>5, <1>6, <1>7 DEF Next, Restore

LEMMA LoggedInStep ==
  ASSUME Inv, LoggedIn, [Next]_vars
  PROVE  LoggedIn'
<1> SUFFICES ASSUME NEW c \in Conns, phase'[c] \in Held
             PROVE  \E h \in Hellos : Authenticated(h.username, h.password) /\ meta'[c] = Session(h)
  BY DEF LoggedIn
<1>1. Frame(c)
  BY FrameStep
<1>2. CASE phase[c] \in Held
  <2>1. meta'[c] = meta[c]
    BY <1>1, <1>2 DEF Frame, Held, Alive
  <2> QED BY <1>2, <2>1 DEF LoggedIn
<1>3. ASSUME NEW h \in Hellos, Connect(c, h)
      PROVE  Authenticated(h.username, h.password) /\ meta'[c] = Session(h)
  <2>1. c \in DOMAIN meta
    BY DEF Inv, TypeOK, SessionTypes, Sids
  <2> QED BY <1>3, <2>1 DEF Connect
<1> QED BY <1>1, <1>2, <1>3 DEF Frame

LEMMA WrittenStep ==
  ASSUME Inv, [Next]_vars, NEW m, Written(m)
  PROVE  Written(m)'
<1>1. m.from \in Conns /\ phase[m.from] # "free"
  BY DEF Written
<1>2. Frame(m.from)
  BY <1>1, FrameStep
<1>3. phase'[m.from] # "free" /\ meta'[m.from] = meta[m.from]
  BY <1>1, <1>2 DEF Frame
<1>4. UserName(meta'[m.from].username) = UserName(meta[m.from].username)
  BY <1>3
<1> QED BY <1>1, <1>3, <1>4 DEF Written, User

-----------------------------------------------------------------------------
(* The trie and the database.                                              *)

LEMMA MayHaveFacts ==
  ASSUME NEW client, NEW filter, NEW info, MayHave(client, filter, info)
  PROVE  /\ client \in Clients /\ filter \in Seq(Levels) /\ info \in Infos
         /\ MayHold(client, SubscribeNode(filter), info)
BY BrokerAssumption, PacketAssumption DEF MayHave, MayHold, Granted, Infos

LEMMA SubscribeGranted ==
  ASSUME TrieGranted, NEW client, NEW filter, NEW info, MayHave(client, filter, info),
         trie' = subscribe(trie, client, filter, info)
  PROVE  TrieGranted'
<1> DEFINE u == subscribe(trie, client, filter, info)
           n == SubscribeNode(filter)
           g == SubscribeGroup(filter)
           key == <<n, g[1]>>
<1>1. /\ client \in Clients /\ filter \in Seq(Levels) /\ info \in Infos
      /\ MayHold(client, n, info)
  BY MayHaveFacts
<1>2. GoodTrie(Levels, Clients, Infos, u) /\ Subscribed(trie, u, client, filter, info)
  BY <1>1, SubscribeFacts, Zenon DEF TrieGranted
<1> HIDE DEF u
<1>3. /\ \A s \in u.subs : MayHold(s.client, s.node, s.info)
      /\ \A k \in DOMAIN u.shared : \A e \in ToSet(u.shared[k]) : MayHold(e.client, k[1], e.info)
  <2>1. CASE g = << >>
    <3>1. /\ u.shared = trie.shared
          /\ u.subs = {s \in trie.subs : ~ (s.node = n /\ s.client = client)}
                        \cup {[node |-> n, client |-> client, info |-> info]}
      BY <1>2, <2>1 DEF Subscribed
    <3>0. PICK new : new = [node |-> n, client |-> client, info |-> info]
      OBVIOUS
    <3>2. /\ new = [node |-> n, client |-> client, info |-> info]
          /\ new.node = n /\ new.client = client /\ new.info = info
      BY <3>0
    <3> HIDE DEF n, g
    <3>3. \A s \in u.subs : s \in trie.subs \/ s = new
      BY <3>1, <3>2
    <3> QED BY <1>1, <3>1, <3>2, <3>3, Zenon DEF TrieGranted
  <2>2. CASE g # << >>
    <3>0. PICK e0 : e0 = [client |-> client, info |-> info]
      OBVIOUS
    <3>1. /\ e0 = [client |-> client, info |-> info]
          /\ e0.client = client /\ e0.info = info
      BY <3>0
    <3>2. /\ u.subs = trie.subs
          /\ DOMAIN u.shared = DOMAIN trie.shared \cup {key}
          /\ \A k \in DOMAIN trie.shared : k # key => u.shared[k] = trie.shared[k]
          /\ ToSet(u.shared[key]) = {e0} \cup
               IF key \in DOMAIN trie.shared
               THEN {d \in ToSet(trie.shared[key]) : d.client # client} ELSE {}
      BY <1>2, <2>2, <3>1 DEF Subscribed
    <3>3. key[1] = n
      OBVIOUS
    <3> HIDE DEF key, n, g
    <3>4. ASSUME NEW k \in DOMAIN u.shared, NEW e \in ToSet(u.shared[k])
          PROVE  MayHold(e.client, k[1], e.info)
      <4>1. CASE k # key
        BY <3>2, <4>1 DEF TrieGranted
      <4>2. CASE k = key
        <5>1. e = e0 \/ (key \in DOMAIN trie.shared /\ e \in ToSet(trie.shared[key]))
          BY <3>2, <4>2
        <5>2. CASE e = e0
          BY <1>1, <3>1, <3>3, <4>2, <5>2
        <5>3. CASE key \in DOMAIN trie.shared /\ e \in ToSet(trie.shared[key])
          BY <4>2, <5>3 DEF TrieGranted
        <5> QED BY <5>1, <5>2, <5>3
      <4> QED BY <4>1, <4>2
    <3> QED BY <3>2, <3>4 DEF TrieGranted
  <2> QED BY <2>1, <2>2
<1>4. trie' = u
  BY DEF u
<1> QED BY <1>2, <1>3, <1>4 DEF TrieGranted

\* What the handler of a SUBSCRIBE asks for is in the packet, and asked for
\* by a user who has logged in.
LEMMA FilterGranted ==
  ASSUME LoggedIn, WorkGranted, NEW c \in Conns, phase[c] = "subscribing", work[c].todo # << >>,
         MayRead(c, Head(work[c].todo).filter)
  PROVE  LET q == Head(work[c].todo) IN MayHave(meta[c].client, q.filter, q.info)
<1>1. work[c].todo \in Seq(Requests)
  BY DEF WorkGranted
<1>2. PICK q \in Requests : q = Head(work[c].todo)
  BY <1>1
<1>3. PICK h \in Hellos : Authenticated(h.username, h.password) /\ meta[c] = Session(h)
  BY DEF LoggedIn, Held, Alive
<1>4. meta[c].client = h.client /\ meta[c].username = h.username
  BY <1>3 DEF Session
<1>5. authorize(UserName(h.username), q.filter, "read")
  BY <1>2, <1>4 DEF MayRead, User
<1>6. Granted(meta[c].client, q)
  BY <1>3, <1>4, <1>5 DEF Granted
<1> QED BY <1>2, <1>6 DEF MayHave

LEMMA TrieStep ==
  ASSUME LoggedIn, TrieGranted, RowsGranted, WorkGranted, [Next]_vars
  PROVE  TrieGranted'
<1>1. CASE UNCHANGED trie
  BY <1>1 DEF TrieGranted
<1>2. CASE Stop
  <2>1. trie' = EmptyTrie
    BY <1>2 DEF Stop
  <2>2. GoodTrie(Levels, Clients, Infos, EmptyTrie)
    <3>1. {"+", "#"} \subseteq Levels
      BY DEF Levels
    <3> QED BY <3>1, EmptyTrieGood
  <2>3. EmptyTrie.subs = {} /\ DOMAIN EmptyTrie.shared = {}
    BY DEF EmptyTrie
  <2> QED BY <2>1, <2>2, <2>3 DEF TrieGranted
<1>3. CASE RestoreSubscription
  <2>1. PICK k \in loading : trie' = subscribe(trie, k[1], k[2], db.subscriptions[k])
    BY <1>3 DEF RestoreSubscription
  <2>2. MayHave(k[1], k[2], db.subscriptions[k])
    BY DEF RowsGranted
  <2> QED BY <2>1, <2>2, SubscribeGranted
<1>4. ASSUME NEW c \in Conns, SubscribeFilter(c) PROVE TrieGranted'
  <2> DEFINE q == Head(work[c].todo)
  <2>1. phase[c] = "subscribing" /\ work[c].todo # << >>
    BY <1>4 DEF SubscribeFilter
  <2>2. CASE MayRead(c, q.filter)
    <3>1. trie' = subscribe(trie, meta[c].client, q.filter, q.info)
      BY <1>4, <2>2 DEF SubscribeFilter
    <3>2. MayHave(meta[c].client, q.filter, q.info)
      BY <2>1, <2>2, FilterGranted
    <3> QED BY <3>1, <3>2, SubscribeGranted
  <2>3. CASE ~ MayRead(c, q.filter)
    BY <1>1, <1>4, <2>3 DEF SubscribeFilter
  <2> QED BY <2>2, <2>3
<1> QED BY <1>1, <1>2, <1>3, <1>4, TrieSteps

\* Only SubscribeFilter spawns the write of a subscription.
LEMMA TaskSteps ==
  ASSUME [Next]_vars
  PROVE  \/ Stop \/ DbStep(RunTask) \/ DbStep(TaskFails)
         \/ UNCHANGED dbVars
         \/ UNCHANGED db /\ \E t : Spawn(t) /\ t.op # "save_subscription"
         \/ \E c \in Conns : SubscribeFilter(c)
<1>1. ASSUME NEW client, NEW x, NEW y
      PROVE  /\ SaveSession(client, x).op # "save_subscription"
             /\ DeleteSession(client).op # "save_subscription"
             /\ SaveInFlight(client, x, y).op # "save_subscription"
             /\ DeleteInFlight(client, x).op # "save_subscription"
  BY DEF SaveSession, DeleteSession, SaveInFlight, DeleteInFlight
<1> DEFINE Goal == \/ UNCHANGED dbVars
                   \/ UNCHANGED db /\ \E t : Spawn(t) /\ t.op # "save_subscription"
<1>2. ASSUME NEW c \in Conns, DeliverNormal(c) \/ DeliverShared(c) PROVE Goal
  <2>1. PICK client, msg, info : send_publish_to_client(client, msg, info)
    BY <1>2 DEF DeliverNormal, DeliverShared
  <2>2. UNCHANGED dbVars \/ \E pid : UNCHANGED db /\ Spawn(SaveInFlight(client, pid, msg))
    BY <2>1 DEF send_publish_to_client
  <2> QED BY <1>1, <2>2
<1>3. ASSUME NEW c \in Conns, NEW h \in Hellos, Connect(c, h) PROVE Goal
  BY <1>1, <1>3 DEF Connect, register_session, dbVars
<1>4. ASSUME NEW c \in Conns, Exit(c) PROVE Goal
  BY <1>1, <1>4 DEF Exit, remove_session, dbVars
<1>5. ASSUME NEW c \in Conns, NEW pid \in PubAcks, PubAck(c, pid) PROVE Goal
  BY <1>1, <1>5 DEF PubAck
<1>6. ASSUME NEW c \in Conns, Receive(c) PROVE Goal
  BY <1>3, <1>4, <1>5, <1>6
     DEF Receive, NoConnect, Refuse, PublishDenied, Publish, Subscribe, PingReq, Disconnect,
         Panic, WriterFails
<1>7. ASSUME NEW c \in Conns, Handle(c) PROVE Goal \/ SubscribeFilter(c)
  BY <1>2, <1>7 DEF Handle, SendConnAck, FinishPublish, FinishSubscribe
<1>8. CASE Shutdown \/ Restore \/ UNCHANGED vars
  BY <1>8 DEF Shutdown, Restore, RestoreSessions, RestoreSubscription, RestoreInFlight, vars
<1> QED BY <1>6, <1>7, <1>8 DEF Next

LEMMA BootSteps ==
  ASSUME [Next]_vars
  PROVE  \/ Stop \/ RestoreSessions \/ RestoreSubscription
         \/ RestoreInFlight /\ UNCHANGED dbVars
         \/ Shutdown /\ UNCHANGED dbVars
         \/ UNCHANGED bootVars
BY ZenonT(60) DEF Next, Handle, Receive, Restore, DbStep, vars,
   SendConnAck, DeliverNormal, DeliverShared, FinishPublish, SubscribeFilter, FinishSubscribe,
   NoConnect, Refuse, Connect, PublishDenied, Publish, Subscribe, PubAck, PingReq, Disconnect,
   Panic, Exit, WriterFails, Shutdown, RestoreInFlight

\* While the saved state is read nothing else happens.
LEMMA RestoringSteps ==
  ASSUME [Next]_vars, running = "restoring"
  PROVE  Stop \/ UNCHANGED dbVars
<1>1. ASSUME NEW c \in Conns, Handle(c) PROVE Listening
  BY <1>1 DEF Handle, Routing, SendConnAck, DeliverNormal, DeliverShared, FinishPublish,
              SubscribeFilter, FinishSubscribe
<1>2. ASSUME NEW c \in Conns, Receive(c) PROVE Listening
  BY <1>2 DEF Receive, Read, NoConnect, Refuse, Connect, PublishDenied, Publish, Subscribe,
              PubAck, PingReq, Disconnect, Panic, Exit, WriterFails
<1>3. ~ Listening
  BY DEF Listening
<1>4. CASE Shutdown \/ Restore \/ UNCHANGED vars
  BY <1>4 DEF Shutdown, Restore, RestoreSessions, RestoreSubscription, RestoreInFlight, vars
<1> QED BY <1>1, <1>2, <1>3, <1>4 DEF Next, DbStep

\* What the statements of the database do to the saved subscriptions.
LEMMA DeleteRows ==
  ASSUME NEW d, NEW client, NEW which
  PROVE  LET e == DeleteStatements(d, client, which) IN
         /\ DOMAIN e.subscriptions \subseteq DOMAIN d.subscriptions
         /\ \A k \in DOMAIN e.subscriptions : e.subscriptions[k] = d.subscriptions[k]
<1> DEFINE e == DeleteStatements(d, client, which)
<1>1. \/ e.subscriptions = d.subscriptions
      \/ e.subscriptions = Without(d.subscriptions, OfClient(d.subscriptions, client))
  BY DEF DeleteStatements
<1> HIDE DEF e
<1>2. /\ DOMAIN e.subscriptions \subseteq DOMAIN d.subscriptions
      /\ \A k \in DOMAIN e.subscriptions : e.subscriptions[k] = d.subscriptions[k]
  BY <1>1 DEF Without
<1> QED BY <1>2 DEF e

LEMMA RowsStep ==
  ASSUME Inv, LoggedIn, RowsGranted, WorkGranted, [Next]_vars
  PROVE  RowsGranted'
<1> DEFINE Rows(d) == \A k \in DOMAIN d.subscriptions : MayHave(k[1], k[2], d.subscriptions[k])
           Pending(b) == \A t \in DOMAIN b : t.op = "save_subscription" =>
                                               MayHave(t.client, t.filter, t.info)
           Boot == loading \subseteq DOMAIN db.subscriptions /\ (running # "restoring" => loading = {})
<1>0. Rows(db) /\ Pending(tasks) /\ Boot
  BY DEF RowsGranted
<1>1. Rows(db') /\ Pending(tasks')
  <2>1. ASSUME NEW client, NEW which, db' = DeleteStatements(db, client, which) PROVE Rows(db')
    <3>1. /\ DOMAIN db'.subscriptions \subseteq DOMAIN db.subscriptions
          /\ \A k \in DOMAIN db'.subscriptions : db'.subscriptions[k] = db.subscriptions[k]
      BY <2>1, DeleteRows
    <3> QED BY <1>0, <3>1
  <2>2. ASSUME DOMAIN tasks' \subseteq DOMAIN tasks PROVE Pending(tasks')
    BY <1>0, <2>2
  <2>3. CASE Stop
    <3>1. DOMAIN tasks' = {}
      BY <2>3 DEF Stop, LoseTasks, EmptyBag, SetToBag
    <3>2. db' = db \/ \E client, which : db' = DeleteStatements(db, client, which)
      BY <2>3 DEF Stop, LoseTasks
    <3>3. Rows(db')
      <4>1. CASE db' = db
        BY <1>0, <4>1
      <4> QED BY <2>1, <3>2, <4>1
    <3> QED BY <3>1, <3>3
  <2>4. CASE TaskFails
    <3>1. PICK t \in DOMAIN tasks :
            /\ db' = db \/ \E done : db' = DeleteStatements(db, t.client, done)
            /\ tasks' = BagOps!BagRemove(tasks, t)
      BY <2>4 DEF TaskFails
    <3>2. DOMAIN tasks' \subseteq DOMAIN tasks
      BY <3>1, BagFacts
    <3>3. CASE db' = db
      BY <1>0, <2>2, <3>2, <3>3
    <3> QED BY <2>1, <2>2, <3>1, <3>2, <3>3
  <2>5. CASE RunTask
    <3>1. PICK t \in DOMAIN tasks : db' = Apply(db, t) /\ tasks' = BagOps!BagRemove(tasks, t)
      BY <2>5 DEF RunTask
    <3>2. DOMAIN tasks' \subseteq DOMAIN tasks
      BY <3>1, BagFacts
    <3>3. Rows(db')
      <4>1. t.op \in {"save_session", "delete_session", "save_subscription",
                      "save_in_flight", "delete_in_flight"}
            /\ DOMAIN db = {"sessions", "subscriptions", "in_flight"}
        BY DEF Inv, SavedWell
      <4>2. CASE t.op = "delete_session"
        BY <2>1, <3>1, <4>2 DEF Apply
      <4>3. CASE t.op \in {"save_session", "save_in_flight", "delete_in_flight"}
        <5>1. db'.subscriptions = db.subscriptions
          BY <3>1, <4>1, <4>3 DEF Apply
        <5> QED BY <1>0, <5>1
      <4>4. CASE t.op = "save_subscription"
        <5>1. db' = [db EXCEPT !.subscriptions = Insert(@, <<t.client, t.filter>>, t.info)]
          BY <3>1, <4>4 DEF Apply
        <5>2. db'.subscriptions = Insert(db.subscriptions, <<t.client, t.filter>>, t.info)
          BY <4>1, <5>1
        <5>3. MayHave(t.client, t.filter, t.info)
          BY <1>0, <4>4
        <5>4. PICK key : key = <<t.client, t.filter>>
          OBVIOUS
        <5>5. key[1] = t.client /\ key[2] = t.filter
          BY <5>4
        <5>6. /\ DOMAIN db'.subscriptions = DOMAIN db.subscriptions \cup {key}
              /\ db'.subscriptions[key] = t.info
              /\ \A k \in DOMAIN db.subscriptions : k # key => db'.subscriptions[k] = db.subscriptions[k]
          BY <5>2, <5>4 DEF Insert
        <5> QED BY <1>0, <5>3, <5>5, <5>6
      <4> QED BY <4>1, <4>2, <4>3, <4>4
    <3> QED BY <2>2, <3>2, <3>3
  <2>6. ASSUME UNCHANGED db, NEW t, Spawn(t),
               t.op = "save_subscription" => MayHave(t.client, t.filter, t.info)
        PROVE  Rows(db') /\ Pending(tasks')
    <3>1. DOMAIN tasks' = DOMAIN tasks \cup {t}
      BY <2>6, BagFacts DEF Spawn
    <3> QED BY <1>0, <2>6, <3>1
  <2>7. ASSUME NEW c \in Conns, SubscribeFilter(c) PROVE Rows(db') /\ Pending(tasks')
    <3> DEFINE q == Head(work[c].todo)
               t == SaveSubscription(meta[c].client, q.filter, q.info)
    <3>1. phase[c] = "subscribing" /\ work[c].todo # << >> /\ UNCHANGED db
      BY <2>7 DEF SubscribeFilter
    <3>2. CASE MayRead(c, q.filter)
      <4>1. Spawn(t)
        BY <2>7, <3>2 DEF SubscribeFilter
      <4>2. MayHave(meta[c].client, q.filter, q.info)
        BY <3>1, <3>2, FilterGranted
      <4>3. t.client = meta[c].client /\ t.filter = q.filter /\ t.info = q.info
        BY DEF SaveSubscription
      <4> HIDE DEF t, q
      <4> QED BY <2>6, <3>1, <4>1, <4>2, <4>3
    <3>3. CASE ~ MayRead(c, q.filter)
      <4>1. UNCHANGED tasks
        BY <2>7, <3>3 DEF SubscribeFilter
      <4> QED BY <1>0, <3>1, <4>1
    <3> QED BY <3>2, <3>3
  <2>8. CASE UNCHANGED dbVars
    BY <1>0, <2>8 DEF dbVars
  <2> HIDE DEF Rows, Pending
  <2> QED BY <2>3, <2>4, <2>5, <2>6, <2>7, <2>8, TaskSteps DEF DbStep
<1>2. Boot'
  <2>1. CASE Stop
    BY <2>1 DEF Stop
  <2>2. CASE RestoreSessions
    BY <2>2 DEF RestoreSessions, dbVars
  <2>3. CASE RestoreSubscription
    BY <1>0, <2>3 DEF RestoreSubscription, dbVars
  <2>4. CASE RestoreInFlight /\ UNCHANGED dbVars
    BY <1>0, <2>4 DEF RestoreInFlight, Replayed, dbVars
  <2>5. CASE Shutdown
    BY <1>0, <2>5 DEF Shutdown, dbVars
  <2>6. CASE UNCHANGED bootVars
    <3>1. running' = running /\ loading' = loading
      BY <2>6 DEF bootVars
    <3>2. CASE running # "restoring"
      BY <1>0, <3>1, <3>2
    <3>3. CASE running = "restoring"
      <4>1. UNCHANGED dbVars \/ Stop
        BY <3>3, RestoringSteps
      <4> QED BY <1>0, <2>1, <3>1, <4>1 DEF dbVars
    <3> QED BY <3>2, <3>3
  <2> QED BY <2>1, <2>2, <2>3, <2>4, <2>5, <2>6, BootSteps
<1> QED BY <1>1, <1>2 DEF RowsGranted

-----------------------------------------------------------------------------
(* What the handlers have left to do.                                      *)

LEMMA CountersStep ==
  ASSUME CountersNat, [Next]_vars
  PROVE  CountersNat'
<1>1. \/ UNCHANGED shared_group_counters \/ Stop
      \/ \E g : shared_group_counters' = Insert(shared_group_counters, g, Counter(g) + 1)
  <2>1. ASSUME NEW c \in Conns, DeliverShared(c)
        PROVE  \E g : shared_group_counters' = Insert(shared_group_counters, g, Counter(g) + 1)
    BY <2>1 DEF DeliverShared
  <2> QED
    BY <2>1, ZenonT(60)
       DEF Next, Handle, Receive, Restore, DbStep, vars, routeVars,
           SendConnAck, DeliverNormal, FinishPublish, SubscribeFilter, FinishSubscribe,
           NoConnect, Refuse, Connect, PublishDenied, Publish, Subscribe, PubAck, PingReq,
           Disconnect, Panic, Exit, WriterFails, Shutdown, RestoreSessions, RestoreSubscription,
           RestoreInFlight
<1>2. CASE UNCHANGED shared_group_counters
  BY <1>2 DEF CountersNat
<1>3. CASE Stop
  BY <1>3 DEF Stop, CountersNat
<1>4. ASSUME NEW g, shared_group_counters' = Insert(shared_group_counters, g, Counter(g) + 1)
      PROVE  CountersNat'
  <2>1. Counter(g) + 1 \in Nat
    BY DEF CountersNat, Counter
  <2> QED BY <1>4, <2>1 DEF CountersNat, Insert
<1> QED BY <1>1, <1>2, <1>3, <1>4

LEMMA SequenceOver ==
  ASSUME NEW S, NEW T, NEW s \in Seq(S), \A i \in 1 .. Len(s) : s[i] \in T
  PROVE  s \in Seq(T)
OBVIOUS

LEMMA HoldEntitled ==
  ASSUME NEW client, NEW node, NEW info, NEW topic,
         MayHold(client, node, info), Matches(node, topic)
  PROVE  Entitled(client, topic, info)
BY DEF MayHold, Entitled

\* match_topic finds only entries of clients that may receive the message.
LEMMA MatchGranted ==
  ASSUME TrieGranted, NEW topic \in Seq(Levels), NEW m, m = match_topic(trie, topic)
  PROVE  /\ m.normal \in Seq(SUBSET GoodSubs(topic))
         /\ \A g \in DOMAIN m.shared :
              m.shared[g] \in Seq(GoodMembers(topic)) /\ m.shared[g] # << >>
<1>1. GoodTrie(Levels, Clients, Infos, trie)
  BY DEF TrieGranted
<1>2. Matched(Entry(Clients, Infos), trie, topic, m)
  BY <1>1, MatchFacts, Zenon
<1>3. m.normal \in Seq(SUBSET GoodSubs(topic))
  <2>1. /\ m.normal \in Seq(SUBSET trie.subs)
        /\ UNION ToSet(m.normal) = {s \in trie.subs : Matches(s.node, topic)}
    BY <1>2 DEF Matched
  <2>2. ToSet(m.normal) = {m.normal[i] : i \in 1 .. Len(m.normal)}
    BY <2>1, ToSetIs
  <2>3. ASSUME NEW s \in trie.subs, Matches(s.node, topic) PROVE s \in GoodSubs(topic)
    <3>1. s \in [node : trie.nodes, client : Clients, info : Infos] /\ trie.nodes \subseteq Seq(Levels)
      BY <1>1 DEF GoodTrie, TrieShape
    <3>2. s \in [node : Seq(Levels), client : Clients, info : Infos]
      BY <3>1
    <3>3. Entitled(s.client, topic, s.info)
      BY <2>3, HoldEntitled DEF TrieGranted
    <3> QED BY <3>2, <3>3 DEF GoodSubs
  <2>4. \A i \in 1 .. Len(m.normal) : m.normal[i] \in SUBSET GoodSubs(topic)
    BY <2>1, <2>2, <2>3
  <2> QED BY <2>1, <2>4, SequenceOver
<1>4. ASSUME NEW g \in DOMAIN m.shared
      PROVE  m.shared[g] \in Seq(GoodMembers(topic)) /\ m.shared[g] # << >>
  <2>1. /\ DOMAIN m.shared = {k[2] : k \in {h \in DOMAIN trie.shared : Matches(h[1], topic)}}
        /\ m.shared[g] \in Seq(Entry(Clients, Infos))
        /\ \A e : e \in ToSet(m.shared[g]) <=> Holders(trie, topic, g, e) # {}
    BY <1>2 DEF Matched
  <2>2. PICK l : l = m.shared[g] /\ l \in Seq(Entry(Clients, Infos))
    BY <2>1
  <2>3. ToSet(l) = {l[i] : i \in 1 .. Len(l)}
    BY <2>2, ToSetIs
  <2>4. ASSUME NEW i \in 1 .. Len(l) PROVE l[i] \in GoodMembers(topic)
    <3>1. PICK e : e = l[i] /\ e \in Entry(Clients, Infos) /\ e \in ToSet(l)
      BY <2>2, <2>3
    <3>2. PICK p : p \in Holders(trie, topic, g, e)
      BY <2>1, <2>2, <3>1
    <3>3. Matches(p, topic) /\ e \in ListAt(trie, <<p, g>>)
      BY <3>2 DEF Holders
    <3>4. PICK k \in DOMAIN trie.shared : k = <<p, g>> /\ e \in ToSet(trie.shared[k])
      BY <3>3 DEF ListAt
    <3>5. k[1] = p
      BY <3>4
    <3>6. MayHold(e.client, p, e.info)
      BY <3>4, <3>5 DEF TrieGranted
    <3>7. Entitled(e.client, topic, e.info)
      BY <3>3, <3>6, HoldEntitled
    <3> QED BY <3>1, <3>7 DEF GoodMembers
  <2>5. l \in Seq(GoodMembers(topic))
    BY <2>2, <2>4, SequenceOver
  <2>6. l # << >>
    <3>1. PICK k \in DOMAIN trie.shared : Matches(k[1], topic) /\ k[2] = g
      BY <2>1
    <3>2. k \in trie.nodes \X Levels
      BY <1>1 DEF GoodTrie
    <3>3. k = <<k[1], g>> /\ k[1] \in trie.nodes
      BY <3>1, <3>2
    <3>4. PICK t : t = trie.shared[k] /\ t \in Seq(Entry(Clients, Infos)) /\ t # << >>
      BY <1>1 DEF GoodTrie, Members
    <3>5. ToSet(t) = {t[i] : i \in 1 .. Len(t)} /\ 1 \in 1 .. Len(t)
      BY <3>4, ToSetIs
    <3>6. PICK e : e \in ToSet(t)
      BY <3>5
    <3>7. e \in ListAt(trie, <<k[1], g>>)
      BY <3>3, <3>4, <3>6, Zenon DEF ListAt
    <3>8. k[1] \in Holders(trie, topic, g, e)
      BY <3>1, <3>3, <3>7 DEF Holders
    <3>9. e \in ToSet(l)
      BY <2>1, <2>2, <3>8
    <3> QED BY <2>3, <3>9
  <2> QED BY <2>2, <2>5, <2>6
<1> QED BY <1>3, <1>4

\* The handler of a connection does its own work only.
LEMMA WorkSteps ==
  ASSUME Inv, [Next]_vars, NEW c \in Conns
  PROVE  \/ phase'[c] = phase[c] /\ work'[c] = work[c]
         \/ phase'[c] \notin {"routing", "subscribing"}
         \/ \E p \in Publishes : Publish(c, p)
         \/ \E r \in Subscribes : Subscribe(c, r)
         \/ DeliverNormal(c) \/ DeliverShared(c) \/ SubscribeFilter(c)
<1> DEFINE Same == phase'[c] = phase[c] /\ work'[c] = work[c]
           Goal == \/ Same \/ phase'[c] \notin {"routing", "subscribing"}
                   \/ \E p \in Publishes : Publish(c, p)
                   \/ \E r \in Subscribes : Subscribe(c, r)
                   \/ DeliverNormal(c) \/ DeliverShared(c) \/ SubscribeFilter(c)
<1>0. DOMAIN phase = Conns /\ DOMAIN work = Conns
  BY DEF Inv, TypeOK, ConnTypes
<1>1. ASSUME UNCHANGED <<phase, work>> PROVE Same
  BY <1>1
<1>2. ASSUME NEW d \in Conns, Handle(d) PROVE Goal
  <2>1. CASE d = c
    BY <1>0, <1>2, <2>1 DEF Handle, SendConnAck, FinishPublish, FinishSubscribe
  <2>2. CASE d # c
    <3>1. Same
      BY <1>0, <1>2, <2>2 DEF Handle, SendConnAck, DeliverNormal, DeliverShared, FinishPublish,
                              SubscribeFilter, FinishSubscribe
    <3> QED BY <3>1
  <2> QED BY <2>1, <2>2
<1>3. ASSUME NEW d \in Conns, Receive(d) PROVE Goal
  <2>1. CASE \/ \E p \in Publishes : PublishDenied(d, p)
             \/ \E pid \in PubAcks : PubAck(d, pid)
             \/ PingReq(d) \/ Disconnect(d) \/ WriterFails(d)
    BY <1>1, <2>1 DEF PublishDenied, PubAck, PingReq, Disconnect, WriterFails
  <2>2. ASSUME NEW v \in {"closed", "registered", "panicked"},
               phase' = [phase EXCEPT ![d] = v], UNCHANGED work
        PROVE  Goal
    BY <1>0, <2>2
  <2>3. CASE NoConnect(d) \/ (\E h \in Hellos : Refuse(d, h) \/ Connect(d, h)) \/ Panic(d) \/ Exit(d)
    BY <2>2, <2>3 DEF NoConnect, Refuse, Connect, Panic, Exit
  <2>4. CASE (\E p \in Publishes : Publish(d, p)) \/ (\E r \in Subscribes : Subscribe(d, r))
    <3>1. CASE d = c
      BY <2>4, <3>1
    <3>2. CASE d # c
      BY <1>0, <2>4, <3>2 DEF Publish, Subscribe
    <3> QED BY <3>1, <3>2
  <2> QED BY <1>3, <2>1, <2>3, <2>4 DEF Receive
<1>4. CASE DbStep(RunTask) \/ DbStep(TaskFails) \/ Shutdown \/ Restore \/ UNCHANGED vars
  <2>1. UNCHANGED connVars
    BY <1>4 DEF DbStep, Shutdown, Restore, RestoreSessions, RestoreSubscription, RestoreInFlight, vars
  <2> QED BY <1>1, <2>1 DEF connVars
<1>5. CASE Stop
  BY <1>5 DEF Stop
<1> HIDE DEF Goal
<1>6. Goal
  BY <1>2, <1>3, <1>4, <1>5 DEF Next, Goal
<1> QED BY <1>6 DEF Goal

\* What is left of a list of subscribers after one round of the loop.
LEMMA NormalLeft ==
  ASSUME NEW S, NEW list \in Seq(SUBSET S), list # << >>, NEW sub
  PROVE  Rest(list, sub) \in Seq(SUBSET S)
<1>1. Head(list) \in SUBSET S /\ Tail(list) \in Seq(SUBSET S)
  BY HeadTailProperties
<1>2. PICK left : left = Head(list) \ {sub}
  OBVIOUS
<1>3. <<left>> \in Seq(SUBSET S)
  BY <1>1, <1>2
<1>4. <<left>> \o Tail(list) \in Seq(SUBSET S)
  BY <1>1, <1>3, ConcatProperties
<1> QED BY <1>1, <1>2, <1>4 DEF Rest

\* The work of a handler that is routing, as long as its message is the same.
LEMMA SameMessage ==
  ASSUME Inv, [Next]_vars, NEW w, RouteGranted(w), NEW v,
         {"msg", "normal", "shared"} \subseteq DOMAIN v, v.msg = w.msg,
         v.normal \in Seq(SUBSET GoodSubs(w.msg.topic)),
         \A g \in DOMAIN v.shared :
           v.shared[g] \in Seq(GoodMembers(w.msg.topic)) /\ v.shared[g] # << >>
  PROVE  RouteGranted(v)'
<1>1. PICK m : m = w.msg /\ Written(m)
  BY DEF RouteGranted
<1>2. Written(m)'
  BY <1>1, WrittenStep
<1> QED BY <1>1, <1>2 DEF RouteGranted

LEMMA WorkStep ==
  ASSUME Inv, LoggedIn, TrieGranted, WorkGranted, [Next]_vars
  PROVE  WorkGranted'
<1> DEFINE Route(c) == phase'[c] = "routing" => RouteGranted(work[c])'
           Todo(c) == phase'[c] = "subscribing" =>
                        {"todo", "codes"} \subseteq DOMAIN work'[c] /\ work'[c].todo \in Seq(Requests)
<1> SUFFICES ASSUME NEW c \in Conns PROVE Route(c) /\ Todo(c)
  BY DEF WorkGranted
<1>0. c \in DOMAIN phase /\ c \in DOMAIN work
  BY DEF Inv, TypeOK, ConnTypes
<1>1. CASE phase'[c] = phase[c] /\ work'[c] = work[c]
  <2>1. ASSUME phase[c] = "routing" PROVE RouteGranted(work[c])'
    <3>1. PICK w : w = work[c] /\ RouteGranted(w)
      BY <2>1 DEF WorkGranted
    <3>2. RouteGranted(w)'
      BY <3>1, SameMessage DEF RouteGranted
    <3> QED BY <1>1, <3>1, <3>2
  <2> QED BY <1>1, <2>1 DEF WorkGranted
<1>2. CASE phase'[c] \notin {"routing", "subscribing"}
  BY <1>2
<1>3. ASSUME NEW p \in Publishes, Publish(c, p) PROVE Route(c) /\ Todo(c)
  <2>1. PICK msg, route :
          /\ msg = [from |-> c, n |-> reads[c] + 1, topic |-> p.topic, qos |-> p.qos]
          /\ route = match_topic(trie, p.topic)
          /\ work' = [work EXCEPT ![c] = [kind |-> "route", msg |-> msg, normal |-> route.normal,
                                          shared |-> route.shared, route |-> route, at |-> sessions]]
    BY <1>3 DEF Publish
  <2>2. /\ phase[c] = "open" /\ phase' = [phase EXCEPT ![c] = "routing"]
        /\ MayWrite(c, p.topic) /\ meta' = meta
    BY <1>3 DEF Publish, Read, sessVars
  <2>3. p.topic \in Seq(Levels)
    BY PacketAssumption
  <2>4. /\ route.normal \in Seq(SUBSET GoodSubs(p.topic))
        /\ \A g \in DOMAIN route.shared :
             route.shared[g] \in Seq(GoodMembers(p.topic)) /\ route.shared[g] # << >>
    BY <2>1, <2>3, MatchGranted
  <2>5. msg.from = c /\ msg.topic = p.topic
    BY <2>1
  <2>6. Written(msg)'
    BY <1>0, <2>2, <2>5 DEF Written, MayWrite, User
  <2>7. PICK w : w = work'[c]
    OBVIOUS
  <2>8. /\ w = [kind |-> "route", msg |-> msg, normal |-> route.normal,
                shared |-> route.shared, route |-> route, at |-> sessions]
    BY <1>0, <2>1, <2>7
  <2>9. /\ {"msg", "normal", "shared"} \subseteq DOMAIN w
        /\ w.msg = msg /\ w.normal = route.normal /\ w.shared = route.shared
    BY <2>8
  <2>10. RouteGranted(w)'
    BY <2>4, <2>5, <2>6, <2>9 DEF RouteGranted
  <2> QED BY <1>0, <2>2, <2>7, <2>10
<1>4. ASSUME NEW r \in Subscribes, Subscribe(c, r) PROVE Route(c) /\ Todo(c)
  <2>1. /\ phase' = [phase EXCEPT ![c] = "subscribing"]
        /\ work' = [work EXCEPT ![c] = [kind |-> "subscribe", of |-> reads[c] + 1,
                                        todo |-> r, codes |-> << >>]]
    BY <1>4 DEF Subscribe
  <2>2. r \in Seq(Requests)
    BY PacketAssumption
  <2> QED BY <1>0, <2>1, <2>2
<1>5. ASSUME DeliverNormal(c) \/ DeliverShared(c) PROVE Route(c) /\ Todo(c)
  <2>1. phase[c] = "routing" /\ phase' = phase
    BY <1>5 DEF DeliverNormal, DeliverShared, Routing
  <2>2. PICK w : w = work[c] /\ RouteGranted(w)
    BY <2>1 DEF WorkGranted
  <2>3. CASE DeliverNormal(c)
    <3>1. PICK sub : LET left == Head(work[c].normal) \ {sub} IN
                     work' = [work EXCEPT ![c].normal =
                                IF left = {} THEN Tail(@) ELSE <<left>> \o Tail(@)]
      BY <2>3 DEF DeliverNormal
    <3>2. PICK rest : /\ rest = Rest(w.normal, sub)
                      /\ rest = LET left == Head(w.normal) \ {sub} IN
                                IF left = {} THEN Tail(w.normal) ELSE <<left>> \o Tail(w.normal)
      BY DEF Rest
    <3>3. work'[c] = [w EXCEPT !.normal = rest]
      BY <1>0, <2>2, <3>1, <3>2
    <3>4. w.normal # << >> /\ w.normal \in Seq(SUBSET GoodSubs(w.msg.topic))
      BY <2>2, <2>3 DEF DeliverNormal, RouteGranted
    <3>5. rest \in Seq(SUBSET GoodSubs(w.msg.topic))
      BY <3>2, <3>4, NormalLeft
    <3>6. PICK v : v = work'[c]
      OBVIOUS
    <3>7. /\ DOMAIN v = DOMAIN w /\ v.msg = w.msg /\ v.shared = w.shared /\ v.normal = rest
      BY <2>2, <3>3, <3>6 DEF RouteGranted
    <3>8. RouteGranted(v)'
      BY <2>2, <3>5, <3>7, SameMessage DEF RouteGranted
    <3> QED BY <2>1, <3>6, <3>8
  <2>4. CASE DeliverShared(c)
    <3>1. PICK g : work' = [work EXCEPT ![c].shared = Without(@, {g})]
      BY <2>4 DEF DeliverShared
    <3>3. work'[c] = [w EXCEPT !.shared = Without(w.shared, {g})]
      BY <1>0, <2>2, <3>1
    <3>4. PICK rest : rest = Without(w.shared, {g})
      OBVIOUS
    <3>5. DOMAIN rest \subseteq DOMAIN w.shared /\ \A k \in DOMAIN rest : rest[k] = w.shared[k]
      BY <3>4 DEF Without
    <3>6. PICK v : v = work'[c]
      OBVIOUS
    <3>7. /\ DOMAIN v = DOMAIN w /\ v.msg = w.msg /\ v.shared = rest /\ v.normal = w.normal
      BY <2>2, <3>3, <3>4, <3>6 DEF RouteGranted
    <3>8. \A k \in DOMAIN v.shared :
            v.shared[k] \in Seq(GoodMembers(w.msg.topic)) /\ v.shared[k] # << >>
      BY <2>2, <3>5, <3>7 DEF RouteGranted
    <3>9. {"msg", "normal", "shared"} \subseteq DOMAIN v
      BY <2>2, <3>7 DEF RouteGranted
    <3>10. v.normal \in Seq(SUBSET GoodSubs(w.msg.topic))
      BY <2>2, <3>7 DEF RouteGranted
    <3>11. RouteGranted(v)'
      BY <2>2, <3>7, <3>8, <3>9, <3>10, SameMessage, Zenon
    <3> QED BY <2>1, <3>6, <3>11
  <2> QED BY <1>5, <2>3, <2>4
<1>6. ASSUME SubscribeFilter(c) PROVE Route(c) /\ Todo(c)
  <2>1. phase[c] = "subscribing" /\ phase' = phase /\ work[c].todo # << >>
    BY <1>6 DEF SubscribeFilter
  <2>2. {"todo", "codes"} \subseteq DOMAIN work[c] /\ work[c].todo \in Seq(Requests)
    BY <2>1 DEF WorkGranted
  <2>3. PICK codes : work' = [work EXCEPT ![c].todo = Tail(@), ![c].codes = codes]
    BY <1>6 DEF SubscribeFilter
  <2>4. DOMAIN work'[c] = DOMAIN work[c] /\ work'[c].todo = Tail(work[c].todo)
    BY <1>0, <2>2, <2>3
  <2>5. Tail(work[c].todo) \in Seq(Requests)
    BY <2>1, <2>2, HeadTailProperties
  <2> QED BY <2>1, <2>2, <2>4, <2>5
<1> HIDE DEF Route, Todo
<1> QED BY <1>1, <1>2, <1>3, <1>4, <1>5, <1>6, WorkSteps

-----------------------------------------------------------------------------
(* What is sent.                                                           *)

\* The channel takes at most one packet, not a PUBLISH.
Told(c) ==
  \/ out'[c] = out[c]
  \/ /\ \E p : p.type # "PUBLISH" /\ out'[c] = Append(out[c], p)
     /\ writer[c] \/ phase'[c] = "closed"

LEMMA SentTold ==
  ASSUME Inv, NEW c \in Conns, NEW d \in Conns, NEW p, p.type # "PUBLISH", out' = Sent(d, p)
  PROVE  Told(c)
<1>1. c \in DOMAIN out
  BY DEF Inv, TypeOK, ConnTypes
<1> QED BY <1>1 DEF Told, Sent

\* Only the two loops of route_publish send a PUBLISH.
LEMMA OutSteps ==
  ASSUME Inv, Recorded, [Next]_vars, NEW c \in Conns
  PROVE  Told(c) \/ \E d \in Conns : DeliverNormal(d) \/ DeliverShared(d)
<1>0. DOMAIN out = Conns /\ DOMAIN phase = Conns
  BY DEF Inv, TypeOK, ConnTypes
<1>1. ASSUME out' = out PROVE Told(c)
  BY <1>1 DEF Told
<1>2. ASSUME NEW d \in Conns, Handle(d) PROVE Told(c) \/ DeliverNormal(d) \/ DeliverShared(d)
  <2>1. CASE SendConnAck(d)
    <3>1. PICK p : p = [type |-> "CONNACK", code |-> "success"]
      OBVIOUS
    <3>2. p.type # "PUBLISH" /\ out' = Sent(d, p)
      BY <2>1, <3>1 DEF SendConnAck
    <3> QED BY <3>2, SentTold
  <2>2. CASE FinishPublish(d)
    <3>1. PICK p : p = [type |-> "PUBACK", of |-> work[d].msg.n, code |-> "success"]
      OBVIOUS
    <3>2. p.type # "PUBLISH" /\ (out' = out \/ out' = Sent(d, p))
      BY <2>2, <3>1 DEF FinishPublish
    <3> QED BY <1>1, <3>2, SentTold
  <2>3. CASE FinishSubscribe(d)
    <3>1. PICK p : p = [type |-> "SUBACK", of |-> work[d].of, codes |-> work[d].codes]
      OBVIOUS
    <3>2. p.type # "PUBLISH" /\ out' = Sent(d, p)
      BY <2>3, <3>1 DEF FinishSubscribe
    <3> QED BY <3>2, SentTold
  <2>4. CASE SubscribeFilter(d)
    BY <1>1, <2>4 DEF SubscribeFilter
  <2> QED BY <1>2, <2>1, <2>2, <2>3, <2>4 DEF Handle
<1>3. ASSUME NEW d \in Conns, Receive(d) PROVE Told(c)
  <2>1. ASSUME NEW h \in Hellos, Refuse(d, h) PROVE Told(c)
    <3>1. PICK p : p = [type |-> "CONNACK", code |-> "bad_user_name_or_password"]
      OBVIOUS
    <3>2. /\ p.type # "PUBLISH" /\ out' = [out EXCEPT ![d] = <<p>>]
          /\ phase' = [phase EXCEPT ![d] = "closed"] /\ phase[d] = "free"
      BY <2>1, <3>1 DEF Refuse
    <3>3. out[d] = << >>
      BY <3>2 DEF Recorded
    <3>4. Append(<< >>, p) = <<p>>
      OBVIOUS
    <3> QED BY <1>0, <3>2, <3>3, <3>4 DEF Told
  <2>2. ASSUME NEW q \in Publishes, PublishDenied(d, q) PROVE Told(c)
    <3>1. PICK p : p = [type |-> "PUBACK", of |-> reads[d] + 1, code |-> "not_authorized"]
      OBVIOUS
    <3>2. p.type # "PUBLISH" /\ (out' = out \/ out' = Sent(d, p))
      BY <2>2, <3>1 DEF PublishDenied
    <3> QED BY <1>1, <3>2, SentTold
  <2>3. CASE PingReq(d)
    <3>1. PICK p : p = [type |-> "PINGRESP"]
      OBVIOUS
    <3>2. p.type # "PUBLISH" /\ out' = Sent(d, p)
      BY <2>3, <3>1 DEF PingReq
    <3> QED BY <3>2, SentTold
  <2>4. CASE ~ PingReq(d) /\ (~ \E h \in Hellos : Refuse(d, h)) /\ ~ \E q \in Publishes : PublishDenied(d, q)
    BY <1>1, <1>3, <2>4
       DEF Receive, NoConnect, Connect, Publish, Subscribe, PubAck, Disconnect, Panic, Exit, WriterFails
  <2> QED BY <2>1, <2>2, <2>3, <2>4
<1>4. CASE DbStep(RunTask) \/ DbStep(TaskFails) \/ Stop \/ Restore \/ UNCHANGED vars
  BY <1>1, <1>4 DEF DbStep, Stop, Restore, RestoreSessions, RestoreSubscription, RestoreInFlight, vars
<1>5. CASE Shutdown
  <2>1. PICK p : p = [type |-> "DISCONNECT"]
    OBVIOUS
  <2>2. p.type # "PUBLISH"
    BY <2>1
  <2>3. out'[c] = out[c] \/ (writer[c] /\ out'[c] = Append(out[c], p))
    BY <1>5, <2>1 DEF Shutdown
  <2> QED BY <2>2, <2>3 DEF Told
<1> QED BY <1>2, <1>3, <1>4, <1>5 DEF Next

\* send_publish_to_client: the one packet that is sent, if any.
Sending(c, client, msg, info) ==
  /\ writer[c] /\ meta[c].client = client
  /\ \E pid, p : /\ p = [type |-> "PUBLISH", msg |-> msg, pid |-> pid, info |-> info]
                 /\ out'[c] = Append(out[c], p)
                 /\ IF msg.qos > 0
                    THEN pid = <<PidToUse(c)>> /\ next_packet_id'[c] = PidAfter(PidToUse(c))
                    ELSE pid = << >> /\ next_packet_id'[c] = next_packet_id[c]

LEMMA SendFacts ==
  ASSUME Inv, NEW c \in Conns, NEW client, NEW msg, NEW info,
         send_publish_to_client(client, msg, info)
  PROVE  \/ out'[c] = out[c] /\ (writer[c] => next_packet_id'[c] = next_packet_id[c])
         \/ Sending(c, client, msg, info)
<1>0. /\ c \in DOMAIN out /\ c \in DOMAIN next_packet_id /\ c \in Sids
  BY DEF Inv, TypeOK, ConnTypes, SessionTypes, Sids
<1>1. CASE client \notin DOMAIN sessions
  BY <1>1 DEF send_publish_to_client, pidVars
<1>2. CASE client \in DOMAIN sessions
  <2>1. PICK s : s = sessions[client] /\ meta[s].client = client
    BY <1>2 DEF Inv, RegisteredIsLive
  <2>2. PICK pid, p : /\ pid = (IF msg.qos > 0 THEN <<PidToUse(s)>> ELSE << >>)
                      /\ p = [type |-> "PUBLISH", msg |-> msg, pid |-> pid, info |-> info]
    OBVIOUS
  <2>3. out' = IF s \in Conns THEN Sent(s, p) ELSE out
    BY <1>2, <2>1, <2>2 DEF send_publish_to_client
  <2>4. IF msg.qos > 0
        THEN next_packet_id' = [next_packet_id EXCEPT ![s] = PidAfter(pid[1])]
        ELSE next_packet_id' = next_packet_id
    BY <1>2, <2>1, <2>2 DEF send_publish_to_client, pidVars
  <2>5. CASE s # c
    <3>1. out'[c] = out[c]
      BY <1>0, <2>3, <2>5 DEF Sent
    <3>2. next_packet_id'[c] = next_packet_id[c]
      BY <1>0, <2>4, <2>5
    <3> QED BY <3>1, <3>2
  <2>6. CASE s = c /\ ~ writer[c]
    <3>1. out'[c] = out[c]
      BY <1>0, <2>3, <2>6 DEF Sent
    <3> QED BY <2>6, <3>1
  <2>7. CASE s = c /\ writer[c]
    <3>1. out'[c] = Append(out[c], p)
      BY <1>0, <2>3, <2>7 DEF Sent
    <3>2. IF msg.qos > 0
          THEN pid = <<PidToUse(c)>> /\ next_packet_id'[c] = PidAfter(PidToUse(c))
          ELSE pid = << >> /\ next_packet_id'[c] = next_packet_id[c]
      BY <1>0, <2>2, <2>4, <2>7
    <3> QED BY <2>1, <2>2, <2>7, <3>1, <3>2 DEF Sending
  <2> QED BY <2>5, <2>6, <2>7
<1> QED BY <1>1, <1>2

\* What the two loops send is what was matched for a message that was
\* written with permission.
LEMMA DeliverFacts ==
  ASSUME Inv, WorkGranted, CountersNat, NEW d \in Conns, DeliverNormal(d) \/ DeliverShared(d)
  PROVE  \E client, msg, info :
           /\ send_publish_to_client(client, msg, info)
           /\ Written(msg) /\ Entitled(client, msg.topic, info)
<1>1. phase[d] = "routing"
  BY DEF DeliverNormal, DeliverShared, Routing
<1>2. PICK w : w = work[d] /\ RouteGranted(w)
  BY <1>1 DEF WorkGranted
<1>3. CASE DeliverNormal(d)
  <2>1. PICK sub \in Head(w.normal) : send_publish_to_client(sub.client, w.msg, sub.info)
    BY <1>2, <1>3 DEF DeliverNormal
  <2>2. w.normal # << >> /\ w.normal \in Seq(SUBSET GoodSubs(w.msg.topic))
    BY <1>2, <1>3 DEF DeliverNormal, RouteGranted
  <2>3. Head(w.normal) \in SUBSET GoodSubs(w.msg.topic)
    BY <2>2, HeadTailProperties
  <2>4. Entitled(sub.client, w.msg.topic, sub.info)
    BY <2>1, <2>3 DEF GoodSubs
  <2> QED BY <1>2, <2>1, <2>4 DEF RouteGranted
<1>4. CASE DeliverShared(d)
  <2>1. PICK g \in DOMAIN w.shared :
          LET sub == w.shared[g][(Counter(g) % Len(w.shared[g])) + 1] IN
          send_publish_to_client(sub.client, w.msg, sub.info)
    BY <1>2, <1>4 DEF DeliverShared
  <2>2. PICK subs : /\ subs = w.shared[g] /\ subs # << >>
                    /\ subs \in Seq(GoodMembers(w.msg.topic))
    BY <1>2 DEF RouteGranted
  <2>3. Len(subs) \in Nat \ {0}
    BY <2>2, EmptySeq
  <2>4. Counter(g) \in Nat
    BY DEF CountersNat, Counter
  <2>5. (Counter(g) % Len(subs)) + 1 \in 1 .. Len(subs)
    BY <2>3, <2>4
  <2>6. PICK sub : sub = subs[(Counter(g) % Len(subs)) + 1]
    OBVIOUS
  <2>7. sub \in GoodMembers(w.msg.topic)
    BY <2>2, <2>5, <2>6, ElementOfSeq
  <2>8. Entitled(sub.client, w.msg.topic, sub.info)
    BY <2>7 DEF GoodMembers
  <2>9. send_publish_to_client(sub.client, w.msg, sub.info)
    BY <2>1, <2>2, <2>6
  <2> QED BY <1>2, <2>8, <2>9 DEF RouteGranted
<1> QED BY <1>3, <1>4

\* Everything in a channel stays where it is.
Extended(s, p, t) ==
  /\ IsSequence(t) /\ DOMAIN s = 1 .. Len(s) /\ Len(s) \in Nat
  /\ DOMAIN t = 1 .. Len(s) + 1 /\ t[Len(s) + 1] = p
  /\ \A i \in 1 .. Len(s) : t[i] = s[i]

LEMMA Appended ==
  ASSUME NEW s, IsSequence(s), NEW p, NEW t, t = Append(s, p)
  PROVE  Extended(s, p, t)
<1>1. PICK S : s \in Seq(S)
  BY DEF IsSequence
<1>2. s \in Seq(S \cup {p})
  BY <1>1, SeqMonotonic
<1>3. t \in Seq(S \cup {p})
  BY <1>2
<1> QED BY <1>2, <1>3 DEF IsSequence, Extended

LEMMA OutStep ==
  ASSUME Inv, Recorded, Delivered, WorkGranted, CountersNat, [Next]_vars
  PROVE  Recorded' /\ Delivered'
<1> DEFINE Good(c, p) == p.type = "PUBLISH" =>
                           Written(p.msg) /\ Entitled(meta[c].client, p.msg.topic, p.info)
<1>1. ASSUME NEW c \in Conns
      PROVE  \/ out'[c] = out[c]
             \/ \E p : /\ Good(c, p) /\ out'[c] = Append(out[c], p)
                       /\ writer[c] \/ (p.type # "PUBLISH" /\ phase'[c] = "closed")
  <2>1. CASE Told(c)
    BY <2>1 DEF Told
  <2>2. ASSUME NEW d \in Conns, DeliverNormal(d) \/ DeliverShared(d)
        PROVE  \/ out'[c] = out[c]
               \/ \E p : Good(c, p) /\ out'[c] = Append(out[c], p) /\ writer[c]
    <3>1. PICK client, msg, info : /\ send_publish_to_client(client, msg, info)
                                   /\ Written(msg) /\ Entitled(client, msg.topic, info)
      BY <2>2, DeliverFacts
    <3>2. CASE Sending(c, client, msg, info)
      <4>1. PICK pid, p : /\ p = [type |-> "PUBLISH", msg |-> msg, pid |-> pid, info |-> info]
                          /\ out'[c] = Append(out[c], p)
        BY <3>2 DEF Sending
      <4>2. p.msg = msg /\ p.info = info
        BY <4>1
      <4>3. Good(c, p) /\ writer[c]
        BY <3>1, <3>2, <4>2 DEF Sending
      <4> QED BY <4>1, <4>3
    <3> QED BY <3>1, <3>2, SendFacts
  <2> HIDE DEF Good
  <2> QED BY <2>1, <2>2, OutSteps
<1>2. ASSUME NEW c \in Conns PROVE Frame(c)
  BY FrameStep
<1>3. ASSUME NEW c \in Conns
      PROVE  IsSequence(out'[c]) /\ (phase'[c] = "free" => out'[c] = << >> /\ ~ writer'[c])
  <2>1. IsSequence(out[c]) /\ (phase[c] = "free" => out[c] = << >> /\ ~ writer[c])
    BY DEF Recorded
  <2>2. IsSequence(out'[c])
    <3>1. CASE out'[c] = out[c]
      BY <2>1, <3>1
    <3>2. ASSUME NEW p, out'[c] = Append(out[c], p) PROVE IsSequence(out'[c])
      <4>1. PICK s, t : s = out[c] /\ t = out'[c]
        OBVIOUS
      <4>2. IsSequence(s) /\ t = Append(s, p)
        BY <2>1, <3>2, <4>1
      <4>3. IsSequence(t)
        BY <4>2, Appended DEF Extended
      <4> QED BY <4>1, <4>3
    <3> QED BY <1>1, <3>1, <3>2
  <2>3. ASSUME phase'[c] = "free" PROVE out'[c] = << >> /\ ~ writer'[c]
    <3>1. phase[c] = "free"
      BY <1>2, <2>3 DEF Frame
    <3>2. out'[c] = out[c]
      BY <1>1, <2>1, <2>3, <3>1
    <3>3. ~ writer'[c]
      BY <1>2, <2>1, <2>3, <3>1 DEF Frame, Held, Alive
    <3> QED BY <2>1, <3>1, <3>2, <3>3
  <2> QED BY <2>2, <2>3
<1>4. ASSUME NEW c \in Conns, NEW i \in Packets(c, "PUBLISH")'
      PROVE  /\ Written(out[c][i].msg)'
             /\ Entitled(meta'[c].client, out'[c][i].msg.topic, out'[c][i].info)
  <2>1. PICK p : p = out'[c][i]
    OBVIOUS
  <2>2. i \in DOMAIN out'[c] /\ p.type = "PUBLISH"
    BY <1>4, <2>1 DEF Packets
  <2>3. IsSequence(out[c])
    BY DEF Recorded
  <2>4. Good(c, p) /\ phase[c] # "free"
    <3>1. ASSUME i \in DOMAIN out[c], p = out[c][i] PROVE Good(c, p) /\ phase[c] # "free"
      <4>1. i \in Packets(c, "PUBLISH")
        BY <2>2, <3>1 DEF Packets
      <4>2. out[c] # << >>
        BY <3>1
      <4> QED BY <3>1, <4>1, <4>2 DEF Delivered, Recorded
    <3>2. CASE out'[c] = out[c]
      BY <2>1, <2>2, <3>1, <3>2
    <3>3. ASSUME NEW q, Good(c, q), out'[c] = Append(out[c], q), writer[c] \/ q.type # "PUBLISH"
          PROVE  Good(c, p) /\ phase[c] # "free"
      <4>1. /\ DOMAIN out[c] = 1 .. Len(out[c]) /\ Len(out[c]) \in Nat
            /\ DOMAIN out'[c] = 1 .. Len(out[c]) + 1 /\ out'[c][Len(out[c]) + 1] = q
            /\ \A j \in 1 .. Len(out[c]) : out'[c][j] = out[c][j]
        BY <2>3, <3>3, Appended DEF Extended
      <4>2. CASE i \in 1 .. Len(out[c])
        BY <2>1, <3>1, <4>1, <4>2
      <4>3. CASE i = Len(out[c]) + 1
        <5>1. p = q
          BY <2>1, <4>1, <4>3
        <5>2. writer[c]
          BY <2>2, <3>3, <5>1
        <5> QED BY <3>3, <5>1, <5>2 DEF Recorded
      <4> QED BY <2>2, <4>1, <4>2, <4>3
    <3> HIDE DEF Good
    <3> QED BY <1>1, <3>2, <3>3
  <2>5. PICK m : m = p.msg /\ Written(m)
    BY <2>2, <2>4
  <2>6. Written(m)'
    BY <2>5, WrittenStep
  <2>7. meta'[c] = meta[c]
    BY <1>2, <2>4 DEF Frame
  <2> QED BY <2>1, <2>2, <2>4, <2>5, <2>6, <2>7
<1>5. Recorded'
  BY <1>3 DEF Recorded
<1>6. Delivered'
  BY <1>4 DEF Delivered
<1> QED BY <1>5, <1>6

-----------------------------------------------------------------------------
(* The theorem.                                                            *)

LEMMA InitDelivery == ASSUME Init PROVE DeliveryInv
<1>1. LoggedIn /\ WorkGranted
  BY DEF Init, LoggedIn, WorkGranted, Held, Alive
<1>2. Recorded /\ Delivered
  <2>1. DOMAIN << >> = {} /\ IsSequence(<< >>)
    <3>1. << >> \in Seq({})
      OBVIOUS
    <3> QED BY <3>1 DEF IsSequence
  <2>2. ASSUME NEW c \in Conns PROVE out[c] = << >> /\ ~ writer[c]
    BY DEF Init
  <2>3. ASSUME NEW c \in Conns PROVE DOMAIN out[c] = {} /\ IsSequence(out[c])
    BY <2>1, <2>2
  <2> QED BY <2>2, <2>3 DEF Recorded, Delivered, Packets
<1>3. TrieGranted
  <2>1. {"+", "#"} \subseteq Levels
    BY DEF Levels
  <2>2. GoodTrie(Levels, Clients, Infos, EmptyTrie)
    BY <2>1, EmptyTrieGood
  <2>3. EmptyTrie.subs = {} /\ DOMAIN EmptyTrie.shared = {}
    BY DEF EmptyTrie
  <2> QED BY <2>2, <2>3 DEF Init, TrieGranted
<1>4. RowsGranted
  <2>1. DOMAIN EmptyDb.subscriptions = {} /\ DOMAIN tasks = {}
    BY DEF Init, EmptyDb, EmptyBag, SetToBag
  <2> QED BY <2>1 DEF Init, RowsGranted
<1>5. CountersNat
  BY DEF Init, CountersNat
<1> QED BY <1>1, <1>2, <1>3, <1>4, <1>5 DEF DeliveryInv

LEMMA NextDelivery == ASSUME Inv, DeliveryInv, [Next]_vars PROVE DeliveryInv'
BY LoggedInStep, OutStep, TrieStep, RowsStep, CountersStep, WorkStep DEF DeliveryInv

\* A filter is subscribed at the node its levels lead to.
LEMMA DeliveredIsAuthorized == ASSUME Delivered PROVE AuthorizedDelivery
BY DEF Delivered, Written, Entitled, SubscribeNode, AuthorizedDelivery

\* Whatever is delivered was published by a user who may write its topic,
\* and to a client identifier under which a user can log in who may read a
\* filter that matches it: for every set of clients, rules and packets, and
\* across takeovers, restarts and failing writes (authorize in
\* process_client_packet, route_publish, restore_sessions_from_db).
THEOREM OnlyAuthorizedDelivery == Spec => []AuthorizedDelivery
<1>1. Init => DeliveryInv
  BY InitDelivery
<1>2. Inv /\ DeliveryInv /\ [Next]_vars => DeliveryInv'
  BY NextDelivery
<1>3. DeliveryInv => AuthorizedDelivery
  BY DeliveredIsAuthorized DEF DeliveryInv
<1> QED BY <1>1, <1>2, <1>3, Invariance, PTL DEF Spec

-----------------------------------------------------------------------------
(* Packet ids are taken in turn.                                           *)

\* The ids that are taken after q and before n is.
Between(q, n) ==
  IF q < n THEN (q + 1) .. (n - 1) ELSE ((q + 1) .. (PidMod - 1)) \cup (1 .. (n - 1))

\* The ids of a connection are in range, and each id since a given delivery
\* has been taken: so an id that comes again, the next one included, comes
\* after all the others.
PidsInTurn(c) ==
  /\ \A i \in Numbered(c) : Pid(c, i) \in 1 .. PidMod - 1
  /\ \A i \in Numbered(c) : \A j \in Numbered(c) :
       (j < i /\ Pid(c, j) = Pid(c, i)) =>
         \A pid \in Pids \ {0, Pid(c, i)} :
           \E k \in Numbered(c) : j < k /\ k < i /\ Pid(c, k) = pid
  /\ writer[c] => \A j \in Numbered(c) : \A pid \in Between(Pid(c, j), PidToUse(c)) :
                    \E k \in Numbered(c) : j < k /\ Pid(c, k) = pid

PidInv == \A c \in Conns : PidsInTurn(c)

\* The id after n.
Following(n) == IF n = PidMod - 1 THEN 1 ELSE n + 1

LEMMA PidTurn ==
  ASSUME NEW n \in 1 .. PidMod - 1, NEW m, m = PidAfter(n)
  PROVE  (IF m = 0 THEN 1 ELSE m) = Following(n)
<1> USE DEF Following
<1>1. PidMod \in Nat /\ PidMod > 1
  BY BrokerAssumption
<1>2. CASE n = PidMod - 1
  <2>1. PidMod % PidMod = 0
    BY <1>1
  <2> QED BY <1>1, <1>2, <2>1 DEF PidAfter
<1>3. CASE n # PidMod - 1
  <2>1. n + 1 \in 0 .. PidMod - 1
    BY <1>1, <1>3
  <2>2. (n + 1) % PidMod = n + 1
    BY <1>1, <2>1
  <2> QED BY <1>3, <2>2 DEF PidAfter
<1> QED BY <1>2, <1>3

LEMMA BetweenTurn ==
  ASSUME NEW q \in 1 .. PidMod - 1, NEW n \in 1 .. PidMod - 1
  PROVE  /\ Between(q, Following(n)) \subseteq Between(q, n) \cup {n}
         /\ Between(n, Following(n)) = {}
         /\ Pids \ {0, n} \subseteq Between(n, n)
<1>1. PidMod \in Nat /\ PidMod > 1
  BY BrokerAssumption
<1> QED BY <1>1 DEF Between, Following, Pids

\* Besides the deliveries, the next id of a connection with a writer changes
\* only when it begins.
LEMMA PidSteps ==
  ASSUME Inv, Recorded, [Next]_vars, NEW c \in Conns
  PROVE  \/ writer'[c] => writer[c] /\ next_packet_id'[c] = next_packet_id[c]
         \/ out'[c] = << >>
         \/ \E d \in Conns : DeliverNormal(d) \/ DeliverShared(d)
<1> DEFINE Same == writer'[c] => writer[c] /\ next_packet_id'[c] = next_packet_id[c]
<1>0. DOMAIN writer = Conns
  BY DEF Inv, TypeOK, ConnTypes
<1>1. ASSUME NEW d \in Conns, writer' = writer \/ writer' = [writer EXCEPT ![d] = FALSE],
             next_packet_id' = next_packet_id
      PROVE  Same
  BY <1>0, <1>1
<1>2. ASSUME NEW d \in Conns, Handle(d) PROVE Same \/ DeliverNormal(d) \/ DeliverShared(d)
  BY <1>1, <1>2 DEF Handle, SendConnAck, FinishPublish, SubscribeFilter, FinishSubscribe, pidVars
<1>3. ASSUME NEW d \in Conns, Receive(d) PROVE Same \/ out'[c] = << >>
  <2>1. ASSUME NEW h \in Hellos, Connect(d, h) PROVE Same \/ out'[c] = << >>
    <3>1. /\ phase[d] = "free" /\ out' = out
          /\ next_packet_id' = [next_packet_id EXCEPT ![d] = 1]
          /\ writer' = [writer EXCEPT ![d] = TRUE]
      BY <2>1 DEF Connect
    <3>2. CASE d = c
      BY <3>1, <3>2 DEF Recorded
    <3>3. CASE d # c
      <4>1. c \in DOMAIN next_packet_id
        BY DEF Inv, TypeOK, SessionTypes, Sids
      <4> QED BY <1>0, <3>1, <3>3, <4>1
    <3> QED BY <3>2, <3>3
  <2>2. ASSUME ~ \E h \in Hellos : Connect(d, h) PROVE Same
    <3>1. /\ writer' = writer \/ writer' = [writer EXCEPT ![d] = FALSE]
          /\ next_packet_id' = next_packet_id
      BY <1>3, <2>2
         DEF Receive, NoConnect, Refuse, PublishDenied, Publish, Subscribe, PubAck, PingReq, Disconnect,
             Panic, Exit, WriterFails, pidVars
    <3> QED BY <1>1, <3>1
  <2> QED BY <2>1, <2>2
<1>4. CASE DbStep(RunTask) \/ DbStep(TaskFails) \/ Shutdown \/ Restore \/ UNCHANGED vars
  BY <1>4 DEF DbStep, Shutdown, Restore, RestoreSessions, RestoreSubscription, RestoreInFlight, vars,
              connVars, pidVars
<1>5. CASE Stop
  BY <1>5 DEF Stop
<1> HIDE DEF Same
<1>6. \/ Same \/ out'[c] = << >> \/ \E d \in Conns : DeliverNormal(d) \/ DeliverShared(d)
  BY <1>2, <1>3, <1>4, <1>5 DEF Next, Same
<1> QED BY <1>6 DEF Same

\* Nothing without a packet id changes the numbering.
LEMMA Unnumbered ==
  ASSUME Recorded, NEW c \in Conns, PidsInTurn(c),
         \/ out'[c] = out[c]
         \/ \E p : /\ out'[c] = Append(out[c], p)
                   /\ p.type = "PUBLISH" => p.pid = << >>,
         writer'[c] => writer[c] /\ next_packet_id'[c] = next_packet_id[c]
  PROVE  PidsInTurn(c)'
<1>1. Numbered(c)' = Numbered(c) /\ \A i \in Numbered(c) : out'[c][i] = out[c][i]
  <2>1. CASE out'[c] = out[c]
    BY <2>1 DEF Numbered, Packets
  <2>2. ASSUME NEW p, out'[c] = Append(out[c], p), p.type = "PUBLISH" => p.pid = << >>
        PROVE  Numbered(c)' = Numbered(c) /\ \A i \in Numbered(c) : out'[c][i] = out[c][i]
    <3>1. PICK s, t : s = out[c] /\ t = out'[c]
      OBVIOUS
    <3>2. IsSequence(s) /\ t = Append(s, p)
      BY <2>2, <3>1 DEF Recorded
    <3>3. /\ DOMAIN s = 1 .. Len(s) /\ Len(s) \in Nat
          /\ DOMAIN t = 1 .. Len(s) + 1 /\ t[Len(s) + 1] = p
          /\ \A i \in 1 .. Len(s) : t[i] = s[i]
      <4>1. Extended(s, p, t)
        BY <3>2, Appended, Zenon
      <4> QED BY <4>1 DEF Extended
    <3>4. /\ Numbered(c) = {i \in DOMAIN s : s[i].type = "PUBLISH" /\ s[i].pid # << >>}
          /\ Numbered(c)' = {i \in DOMAIN t : t[i].type = "PUBLISH" /\ t[i].pid # << >>}
      BY <3>1 DEF Numbered, Packets
    <3>5. DOMAIN t = DOMAIN s \cup {Len(s) + 1} /\ Len(s) + 1 \notin DOMAIN s
      BY <3>3
    <3> QED BY <2>2, <3>1, <3>3, <3>4, <3>5
  <2> QED BY <2>1, <2>2
<1>2. \A i \in Numbered(c) : Pid(c, i)' = Pid(c, i)
  BY <1>1 DEF Pid
<1>3. writer'[c] => writer[c] /\ PidToUse(c)' = PidToUse(c)
  BY DEF PidToUse
<1>4. PICK N : N = Numbered(c) /\ N = Numbered(c)'
  BY <1>1
<1> QED BY <1>2, <1>3, <1>4 DEF PidsInTurn

\* A delivery with a packet id: the id is the one whose turn it is.
LEMMA NumberedStep ==
  ASSUME Inv, Recorded, NEW c \in Conns, PidsInTurn(c), writer[c],
         NEW p, out'[c] = Append(out[c], p), p.type = "PUBLISH", p.pid = <<PidToUse(c)>>,
         next_packet_id'[c] = PidAfter(PidToUse(c))
  PROVE  PidsInTurn(c)'
<1>1. PICK s, t : s = out[c] /\ t = out'[c]
  OBVIOUS
<1>2. Extended(s, p, t)
  <2>1. IsSequence(s) /\ t = Append(s, p)
    BY <1>1 DEF Recorded
  <2> QED BY <2>1, Appended, Zenon
<1>3. PICK last \in Nat : last = Len(s) + 1
  BY <1>2 DEF Extended
<1>4. PICK n : n = PidToUse(c) /\ n \in 1 .. PidMod - 1
  <2>1. c \in Sids /\ TypeOK
    BY DEF Inv, Sids
  <2>2. PidToUse(c) \in Pids \ {0}
    BY <2>1, PidFacts
  <2> QED BY <2>2, BrokerAssumption DEF Pids
<1>5. PICK m : m = PidToUse(c)' /\ m = Following(n)
  <2>1. PICK a : a = PidAfter(n) /\ a = next_packet_id'[c]
    BY <1>4
  <2>2. PidToUse(c)' = IF a = 0 THEN 1 ELSE a
    BY <2>1 DEF PidToUse
  <2> QED BY <1>4, <2>1, <2>2, PidTurn
<1>6. PICK N, M : N = Numbered(c) /\ M = Numbered(c)'
  OBVIOUS
<1>7. /\ M = N \cup {last} /\ Pid(c, last)' = n
      /\ \A i \in N : i < last /\ i \in Nat /\ Pid(c, i)' = Pid(c, i)
  <2>1. /\ N = {i \in DOMAIN s : s[i].type = "PUBLISH" /\ s[i].pid # << >>}
        /\ M = {i \in DOMAIN t : t[i].type = "PUBLISH" /\ t[i].pid # << >>}
    BY <1>1, <1>6 DEF Numbered, Packets
  <2>2. /\ DOMAIN t = DOMAIN s \cup {last} /\ t[last] = p
        /\ \A i \in DOMAIN s : i < last /\ i \in Nat /\ t[i] = s[i]
    BY <1>2, <1>3 DEF Extended
  <2>3. p.pid # << >> /\ p.pid[1] = n
    BY <1>4
  <2>4. M = N \cup {last} /\ \A i \in N : i < last /\ i \in Nat
    BY <2>1, <2>2, <2>3
  <2>5. Pid(c, last)' = n /\ \A i \in N : Pid(c, i)' = Pid(c, i)
    BY <1>1, <2>1, <2>2, <2>3 DEF Pid
  <2> QED BY <2>4, <2>5
<1>8. PICK old, new : /\ old = [i \in N |-> Pid(c, i)]
                      /\ new = [i \in M |-> Pid(c, i)']
  OBVIOUS
<1>9. /\ \A i \in N : i < last /\ i \in Nat /\ new[i] = old[i] /\ new[i] = Pid(c, i)' /\ old[i] = Pid(c, i)
      /\ new[last] = n /\ \A i \in M : new[i] = Pid(c, i)'
      /\ ~ last < last
  BY <1>3, <1>7, <1>8
<1>10. /\ \A i \in N : old[i] \in 1 .. PidMod - 1
       /\ \A i \in N : \A j \in N :
            (j < i /\ old[j] = old[i]) =>
              \A pid \in Pids \ {0, old[i]} : \E k \in N : j < k /\ k < i /\ old[k] = pid
       /\ \A j \in N : \A pid \in Between(old[j], n) : \E k \in N : j < k /\ old[k] = pid
  BY <1>4, <1>6, <1>9, SMTT(30) DEF PidsInTurn
<1>11. \A i \in M : new[i] \in 1 .. PidMod - 1
  BY <1>4, <1>7, <1>9, <1>10
<1>12. ASSUME NEW i \in M, NEW j \in M, j < i, new[j] = new[i], NEW pid \in Pids \ {0, new[i]}
       PROVE  \E k \in M : j < k /\ k < i /\ new[k] = pid
  <2>1. CASE i \in N /\ j \in N
    BY <1>7, <1>9, <1>10, <1>12, <2>1
  <2>2. CASE i = last /\ j \in N
    <3>1. old[j] = n /\ pid \in Between(n, n)
      BY <1>4, <1>9, <1>12, <2>2, BetweenTurn
    <3>2. PICK k \in N : j < k /\ old[k] = pid
      BY <1>10, <2>2, <3>1
    <3> QED BY <1>7, <1>9, <2>2, <3>2
  <2>3. CASE j = last
    <3>1. ~ last < i
      BY <1>3, <1>7, <1>9
    <3> QED BY <1>12, <2>3, <3>1
  <2> QED BY <1>7, <2>1, <2>2, <2>3
<1>13. ASSUME NEW j \in M, NEW pid \in Between(new[j], m)
       PROVE  \E k \in M : j < k /\ new[k] = pid
  <2>1. CASE j = last
    <3>1. pid \in Between(n, m)
      BY <1>9, <1>13, <2>1
    <3>2. Between(n, m) = {}
      BY <1>4, <1>5, BetweenTurn
    <3> QED BY <3>1, <3>2
  <2>2. CASE j \in N
    <3>1. pid \in Between(old[j], n) \/ pid = n
      <4>1. old[j] \in 1 .. PidMod - 1 /\ pid \in Between(old[j], m)
        BY <1>9, <1>10, <1>13, <2>2
      <4>2. Between(old[j], m) \subseteq Between(old[j], n) \cup {n}
        BY <1>4, <1>5, <4>1, BetweenTurn
      <4> QED BY <4>1, <4>2
    <3>2. CASE pid = n
      BY <1>7, <1>9, <2>2, <3>2
    <3>3. CASE pid \in Between(old[j], n)
      <4>1. PICK k \in N : j < k /\ old[k] = pid
        BY <1>10, <2>2, <3>3
      <4> QED BY <1>7, <1>9, <4>1
    <3> QED BY <3>1, <3>2, <3>3
  <2> QED BY <1>7, <2>1, <2>2
<1>14. /\ \A i \in M : Pid(c, i)' \in 1 .. PidMod - 1
       /\ \A i \in M : \A j \in M :
            (j < i /\ Pid(c, j)' = Pid(c, i)') =>
              \A pid \in Pids \ {0, Pid(c, i)'} : \E k \in M : j < k /\ k < i /\ Pid(c, k)' = pid
  BY <1>9, <1>11, <1>12
<1>15. \A j \in M : \A pid \in Between(Pid(c, j)', m) : \E k \in M : j < k /\ Pid(c, k)' = pid
  BY <1>9, <1>13
<1> QED BY <1>5, <1>6, <1>14, <1>15 DEF PidsInTurn

LEMMA PidStep == ASSUME Inv, DeliveryInv, PidInv, [Next]_vars PROVE PidInv'
<1> SUFFICES ASSUME NEW c \in Conns PROVE PidsInTurn(c)'
  BY DEF PidInv
<1>0. Recorded /\ WorkGranted /\ CountersNat /\ PidsInTurn(c)
  BY DEF DeliveryInv, PidInv
<1>1. ASSUME NEW d \in Conns, DeliverNormal(d) \/ DeliverShared(d) PROVE PidsInTurn(c)'
  <2>1. PICK client, msg, info : send_publish_to_client(client, msg, info)
    BY <1>1 DEF DeliverNormal, DeliverShared
  <2>2. writer' = writer
    BY <1>1 DEF DeliverNormal, DeliverShared
  <2>3. CASE out'[c] = out[c] /\ (writer[c] => next_packet_id'[c] = next_packet_id[c])
    BY <1>0, <2>2, <2>3, Unnumbered
  <2>4. CASE Sending(c, client, msg, info)
    <3>1. PICK pid, p : /\ p = [type |-> "PUBLISH", msg |-> msg, pid |-> pid, info |-> info]
                        /\ out'[c] = Append(out[c], p)
                        /\ IF msg.qos > 0
                           THEN pid = <<PidToUse(c)>> /\ next_packet_id'[c] = PidAfter(PidToUse(c))
                           ELSE pid = << >> /\ next_packet_id'[c] = next_packet_id[c]
      BY <2>4 DEF Sending
    <3>2. p.type = "PUBLISH" /\ p.pid = pid /\ writer[c]
      BY <2>4, <3>1 DEF Sending
    <3>3. CASE msg.qos > 0
      BY <1>0, <3>1, <3>2, <3>3, NumberedStep
    <3>4. CASE ~ (msg.qos > 0)
      <4>1. p.pid = << >> /\ next_packet_id'[c] = next_packet_id[c]
        BY <3>1, <3>2, <3>4
      <4> QED BY <1>0, <2>2, <3>1, <4>1, Unnumbered
    <3> QED BY <3>3, <3>4
  <2> QED BY <2>1, <2>3, <2>4, SendFacts
<1>2. ASSUME Told(c), writer'[c] => writer[c] /\ next_packet_id'[c] = next_packet_id[c]
      PROVE  PidsInTurn(c)'
  BY <1>0, <1>2, Unnumbered DEF Told
<1>3. ASSUME out'[c] = << >> PROVE PidsInTurn(c)'
  <2>1. Numbered(c)' = {}
    BY <1>3 DEF Numbered, Packets
  <2> QED BY <2>1 DEF PidsInTurn
<1> QED BY <1>0, <1>1, <1>2, <1>3, OutSteps, PidSteps

\* Packet ids of a connection are never 0, and an id is taken again only
\* after all the others were, whatever the width of the counter, and however
\* many publishers deliver to it at once (get_next_packet_id).
THEOREM PacketIdsCycle == Spec => []PacketIdCycle
<1>1. Init => DeliveryInv /\ PidInv
  <2>1. ASSUME Init, NEW c \in Conns PROVE PidsInTurn(c)
    <3>1. out[c] = << >>
      BY <2>1 DEF Init
    <3>2. Numbered(c) = {}
      BY <3>1 DEF Numbered, Packets
    <3> QED BY <3>2 DEF PidsInTurn
  <2> QED BY <2>1, InitDelivery DEF PidInv
<1>2. Inv /\ DeliveryInv /\ PidInv /\ [Next]_vars => DeliveryInv' /\ PidInv'
  BY NextDelivery, PidStep
<1>3. PidInv => PacketIdCycle
  <2>1. ASSUME NEW c \in Conns, PidsInTurn(c), NEW i \in Numbered(c)
        PROVE  Pid(c, i) # 0
    BY <2>1 DEF PidsInTurn
  <2> QED BY <2>1 DEF PidInv, PidsInTurn, PacketIdCycle
<1> QED BY <1>1, <1>2, <1>3, Invariance, PTL DEF Spec

-----------------------------------------------------------------------------
(* What is saved.                                                          *)

\* All sessions are meant to last, the statements of the database succeed,
\* and the filters have '#' only at their end.
Lasting ==
  /\ \A h \in Hellos : ~ h.clean_start /\ h.expiry > 0
  /\ ~ DbMayFail
  /\ \A q \in Requests : WellFormed(q.filter)

\* Of such a filter the key in the database can be told from the entry in
\* the trie.
LEMMA FilterOfEntry ==
  ASSUME NEW L, NEW f \in Seq(L), WellFormed(f)
  PROVE  /\ SubscribeGroup(f) = << >> => SubscribeNode(f) = f
         /\ SubscribeGroup(f) # << >> => <<"$share", SubscribeGroup(f)[1]>> \o SubscribeNode(f) = f
<1>0. Len(f) \in Nat /\ \A i \in 1 .. Len(f) : f[i] \in L
  OBVIOUS
<1>1. CASE ~ (Len(f) >= 3 /\ f[1] = "$share")
  <2>1. SubscribeGroup(f) = << >> /\ SubscribeNode(f) = Walked(f)
    BY <1>1 DEF SubscribeGroup, SubscribeNode, parse_shared_subscription
  <2> QED BY <2>1, WalkedFacts
<1>2. CASE Len(f) >= 3 /\ f[1] = "$share"
  <2>1. PICK n : n = SubSeq(f, 3, Len(f))
    OBVIOUS
  <2>2. n \in Seq(L) /\ Len(n) = Len(f) - 2 /\ \A i \in 1 .. Len(f) - 2 : n[i] = f[i + 2]
    <3>1. n \in Seq(L) /\ Len(n) = Len(f) - 2
      BY <1>0, <1>2, <2>1
    <3>2. ASSUME NEW i \in 1 .. Len(f) - 2 PROVE n[i] = f[i + 2]
      BY <1>0, <1>2, <2>1
    <3> QED BY <3>1, <3>2
  <2>3. SubscribeGroup(f) = <<f[2]>> /\ SubscribeNode(f) = Walked(n) /\ <<f[2]>> # << >>
    <3>1. parse_shared_subscription(f) = [group |-> <<f[2]>>, filter |-> n]
      BY <1>2, <2>1 DEF parse_shared_subscription
    <3>2. <<f[2]>> # << >>
      OBVIOUS
    <3> QED BY <3>1, <3>2 DEF SubscribeGroup, SubscribeNode
  <2>4. WellFormed(n)
    <3>1. ASSUME NEW i \in 1 .. Len(n) - 1 PROVE n[i] # "#"
      <4>1. i + 2 \in 1 .. Len(f) - 1 /\ n[i] = f[i + 2]
        BY <1>0, <2>2
      <4> QED BY <4>1 DEF WellFormed
    <3> QED BY <3>1 DEF WellFormed
  <2>5. SubscribeNode(f) = n
    BY <2>2, <2>3, <2>4, WalkedFacts
  <2>6. PICK s : s = <<"$share", f[2]>>
    OBVIOUS
  <2>7. s \in Seq(L) /\ Len(s) = 2 /\ s[1] = f[1] /\ s[2] = f[2]
    BY <1>0, <1>2, <2>6
  <2>8. PICK t : t = s \o n
    OBVIOUS
  <2>9. /\ t \in Seq(L) /\ Len(t) = Len(s) + Len(n)
        /\ \A i \in 1 .. Len(s) + Len(n) : t[i] = IF i <= Len(s) THEN s[i] ELSE n[i - Len(s)]
    <3>1. s \in Seq(L) /\ n \in Seq(L)
      BY <2>2, <2>7
    <3> QED BY <2>8, <3>1, ConcatProperties
  <2>10. Len(t) = Len(f)
    BY <1>0, <2>2, <2>7, <2>9
  <2>11. \A i \in 1 .. Len(t) : t[i] = f[i]
    <3>1. ASSUME NEW i \in 1 .. Len(f), i <= 2 PROVE t[i] = f[i]
      <4>1. i = 1 \/ i = 2
        BY <3>1
      <4> QED BY <1>0, <2>2, <2>7, <2>9, <3>1, <4>1
    <3>2. ASSUME NEW i \in 1 .. Len(f), ~ (i <= 2) PROVE t[i] = f[i]
      <4>1. PICK j : j = i - 2
        OBVIOUS
      <4>2. j \in 1 .. Len(f) - 2 /\ j + 2 = i
        BY <1>0, <3>2, <4>1
      <4>3. t[i] = n[j]
        BY <1>0, <2>2, <2>7, <2>9, <3>2, <4>1
      <4> QED BY <2>2, <4>2, <4>3
    <3> QED BY <2>10, <3>1, <3>2
  <2>12. t = f
    BY <2>9, <2>10, <2>11, SeqEqual
  <2>13. SubscribeGroup(f)[1] = f[2]
    BY <2>3
  <2> QED BY <2>3, <2>5, <2>6, <2>8, <2>12, <2>13
<1> QED BY <1>1, <1>2

\* The keys of the entries of a trie.
PlainKeys(t) == {<<s.client, s.node>> : s \in t.subs}
FilterAt(k) == <<"$share", k[2]>> \o k[1]
GroupKeys(t) ==
  UNION {{<<e.client, FilterAt(k)>> : e \in ToSet(t.shared[k])} : k \in DOMAIN t.shared}
Keys(t) == PlainKeys(t) \cup GroupKeys(t)

\* subscribe adds the key under which the subscription is saved.
LEMMA SubscribeKeys ==
  ASSUME NEW t, NEW u, NEW client, NEW f \in Seq(Levels), NEW info, WellFormed(f),
         Subscribed(t, u, client, f, info)
  PROVE  Keys(u) = Keys(t) \cup {<<client, f>>}
<1> DEFINE n == SubscribeNode(f)
           g == SubscribeGroup(f)
           key == <<n, g[1]>>
<1>1. CASE g = << >>
  <2>1. n = f
    BY <1>1, FilterOfEntry
  <2>2. PICK new : /\ new = [node |-> n, client |-> client, info |-> info]
                   /\ u.subs = {s \in t.subs : ~ (s.node = n /\ s.client = client)} \cup {new}
                   /\ u.shared = t.shared
    BY <1>1 DEF Subscribed
  <2>3. new.node = f /\ new.client = client
    BY <2>1, <2>2
  <2>4. GroupKeys(u) = GroupKeys(t)
    BY <2>2 DEF GroupKeys
  <2> HIDE DEF n, g, key
  <2>5. PlainKeys(u) = PlainKeys(t) \cup {<<client, f>>}
    BY <2>1, <2>2, <2>3 DEF PlainKeys
  <2> QED BY <2>4, <2>5 DEF Keys
<1>2. CASE g # << >>
  <2>1. <<"$share", g[1]>> \o n = f
    BY <1>2, FilterOfEntry
  <2>2. PICK e0 : e0 = [client |-> client, info |-> info]
    OBVIOUS
  <2>3. /\ u.subs = t.subs
        /\ DOMAIN u.shared = DOMAIN t.shared \cup {key}
        /\ \A k \in DOMAIN t.shared : k # key => u.shared[k] = t.shared[k]
        /\ ToSet(u.shared[key]) = {e0} \cup
             IF key \in DOMAIN t.shared
             THEN {d \in ToSet(t.shared[key]) : d.client # client} ELSE {}
    BY <1>2, <2>2 DEF Subscribed
  <2>4. e0.client = client
    BY <2>2
  <2>5. key[1] = n /\ key[2] = g[1]
    OBVIOUS
  <2> HIDE DEF n, g, key
  <2>7. FilterAt(key) = f
    BY <2>1, <2>5 DEF FilterAt
  <2>8. ASSUME NEW v, NEW x
        PROVE  x \in GroupKeys(v) <=>
                 \E k \in DOMAIN v.shared : \E e \in ToSet(v.shared[k]) : x = <<e.client, FilterAt(k)>>
    BY DEF GroupKeys
  <2>9. ASSUME NEW k \in DOMAIN u.shared, NEW e \in ToSet(u.shared[k])
        PROVE  \/ k \in DOMAIN t.shared /\ e \in ToSet(t.shared[k])
               \/ <<e.client, FilterAt(k)>> = <<client, f>>
    <3>1. CASE k # key
      BY <2>3, <3>1
    <3>2. CASE k = key
      BY <2>3, <2>4, <2>7, <3>2
    <3> QED BY <3>1, <3>2
  <2>10. key \in DOMAIN u.shared /\ e0 \in ToSet(u.shared[key]) /\ <<e0.client, FilterAt(key)>> = <<client, f>>
    BY <2>3, <2>4, <2>7
  <2>11. ASSUME NEW k \in DOMAIN t.shared, NEW e \in ToSet(t.shared[k])
         PROVE  \/ k \in DOMAIN u.shared /\ e \in ToSet(u.shared[k])
                \/ <<e.client, FilterAt(k)>> = <<client, f>>
    <3>1. CASE k # key
      BY <2>3, <3>1
    <3>2. CASE k = key
      BY <2>3, <2>7, <3>2
    <3> QED BY <3>1, <3>2
  <2>13. GroupKeys(u) = GroupKeys(t) \cup {<<client, f>>}
    <3>1. ASSUME NEW x \in GroupKeys(u) PROVE x \in GroupKeys(t) \/ x = <<client, f>>
      BY <2>8, <2>9, <3>1
    <3>2. ASSUME NEW x \in GroupKeys(t) PROVE x \in GroupKeys(u)
      BY <2>8, <2>10, <2>11, <3>2
    <3>3. <<client, f>> \in GroupKeys(u)
      BY <2>8, <2>10
    <3> QED BY <3>1, <3>2, <3>3
  <2>12. PlainKeys(u) = PlainKeys(t)
    BY <2>3 DEF PlainKeys
  <2> QED BY <2>12, <2>13 DEF Keys
<1> QED BY <1>1, <1>2

\* Until the listeners start, nothing but the restore happens.
LEMMA IdleSteps ==
  ASSUME [Next]_vars, ~ Listening
  PROVE  Stop \/ Restore \/ UNCHANGED vars
<1>1. ASSUME NEW c \in Conns, Handle(c) PROVE Listening
  BY <1>1 DEF Handle, Routing, SendConnAck, DeliverNormal, DeliverShared, FinishPublish,
              SubscribeFilter, FinishSubscribe
<1>2. ASSUME NEW c \in Conns, Receive(c) PROVE Listening
  BY <1>2 DEF Receive, Read, NoConnect, Refuse, Connect, PublishDenied, Publish, Subscribe,
              PubAck, PingReq, Disconnect, Panic, Exit, WriterFails
<1>3. ~ Shutdown
  BY DEF Shutdown, Listening
<1> QED BY <1>1, <1>2, <1>3 DEF Next, DbStep

\* The writes that are spawned, and why.
SentBy(client, msg) ==
  UNCHANGED sessions /\ \E info : send_publish_to_client(client, msg, info)
SessionSaved(t)   == \E h \in Hellos : t = SaveSession(h.client, Session(h))
SessionDropped(t) == \E client \in DOMAIN sessions :
                       /\ t = DeleteSession(client)
                       /\ meta[sessions[client]].clean_start \/ meta[sessions[client]].expiry = 0
MessageSaved(t)   == \E client, pid, msg : /\ t = SaveInFlight(client, pid, msg)
                                           /\ SentBy(client, msg)
MessageDropped(t) == \E client : \E pid \in PubAcks : t = DeleteInFlight(client, pid)

LEMMA SpawnSteps ==
  ASSUME [Next]_vars
  PROVE  \/ Stop \/ DbStep(RunTask) \/ (DbMayFail /\ DbStep(TaskFails))
         \/ UNCHANGED dbVars
         \/ UNCHANGED db /\ \E t : /\ Spawn(t)
                                   /\ \/ SessionSaved(t) \/ SessionDropped(t)
                                      \/ MessageSaved(t) \/ MessageDropped(t)
         \/ \E c \in Conns : SubscribeFilter(c)
<1> DEFINE Goal == \/ UNCHANGED dbVars
                   \/ UNCHANGED db /\ \E t : /\ Spawn(t)
                                             /\ \/ SessionSaved(t) \/ SessionDropped(t)
                                                \/ MessageSaved(t) \/ MessageDropped(t)
<1>2. ASSUME NEW c \in Conns, DeliverNormal(c) \/ DeliverShared(c) PROVE Goal
  <2>1. PICK client, msg, info : send_publish_to_client(client, msg, info) /\ UNCHANGED sessions
    BY <1>2 DEF DeliverNormal, DeliverShared, sessVars
  <2>2. UNCHANGED dbVars \/ \E pid : UNCHANGED db /\ Spawn(SaveInFlight(client, pid, msg))
    BY <2>1 DEF send_publish_to_client
  <2>3. \A pid : MessageSaved(SaveInFlight(client, pid, msg))
    BY <2>1 DEF MessageSaved, SentBy
  <2> QED BY <2>2, <2>3
<1>3. ASSUME NEW c \in Conns, NEW h \in Hellos, Connect(c, h) PROVE Goal
  <2>1. register_session(c, Session(h)) /\ Session(h).client = h.client
    BY <1>3 DEF Connect, Session
  <2>2. UNCHANGED dbVars \/ (UNCHANGED db /\ Spawn(SaveSession(h.client, Session(h))))
    BY <2>1 DEF register_session, dbVars
  <2>3. SessionSaved(SaveSession(h.client, Session(h)))
    BY DEF SessionSaved
  <2> QED BY <2>2, <2>3
<1>4. ASSUME NEW c \in Conns, Exit(c) PROVE Goal
  <2>1. PICK client : client = meta[c].client /\ remove_session(client) /\ UNCHANGED db
    BY <1>4 DEF Exit
  <2>2. CASE client \notin DOMAIN sessions
    BY <2>1, <2>2 DEF remove_session, dbVars
  <2>3. CASE client \in DOMAIN sessions
    <3>1. \/ UNCHANGED tasks
          \/ /\ Spawn(DeleteSession(client))
             /\ meta[sessions[client]].clean_start \/ meta[sessions[client]].expiry = 0
      BY <2>1, <2>3 DEF remove_session
    <3>2. meta[sessions[client]].clean_start \/ meta[sessions[client]].expiry = 0
          => SessionDropped(DeleteSession(client))
      BY <2>3 DEF SessionDropped
    <3> QED BY <2>1, <3>1, <3>2 DEF dbVars
  <2> QED BY <2>2, <2>3
<1>5. ASSUME NEW c \in Conns, NEW pid \in PubAcks, PubAck(c, pid) PROVE Goal
  <2>1. UNCHANGED db /\ Spawn(DeleteInFlight(meta[c].client, pid))
    BY <1>5 DEF PubAck
  <2>2. MessageDropped(DeleteInFlight(meta[c].client, pid))
    BY DEF MessageDropped
  <2> QED BY <2>1, <2>2
<1>6. ASSUME NEW c \in Conns, Receive(c) PROVE Goal
  <2> HIDE DEF Goal
  <2>1. UNCHANGED dbVars => Goal
    BY DEF Goal
  <2> QED
    BY <1>3, <1>4, <1>5, <1>6, <2>1
       DEF Receive, NoConnect, Refuse, PublishDenied, Publish, Subscribe, PingReq, Disconnect,
           Panic, WriterFails
<1>7. ASSUME NEW c \in Conns, Handle(c) PROVE Goal \/ SubscribeFilter(c)
  <2> HIDE DEF Goal
  <2>1. UNCHANGED dbVars => Goal
    BY DEF Goal
  <2> QED BY <1>2, <1>7, <2>1 DEF Handle, SendConnAck, FinishPublish, FinishSubscribe
<1>8. ASSUME Shutdown \/ Restore \/ UNCHANGED vars PROVE Goal
  BY <1>8 DEF Shutdown, Restore, RestoreSessions, RestoreSubscription, RestoreInFlight, vars
<1> HIDE DEF Goal
<1>9. \/ Stop \/ DbStep(RunTask) \/ (DbMayFail /\ DbStep(TaskFails)) \/ Goal
      \/ \E c \in Conns : SubscribeFilter(c)
  BY <1>6, <1>7, <1>8 DEF Next
<1> QED BY <1>9 DEF Goal

\* A session without a connection stays as it was restored.
LEMMA OfflineSteps ==
  ASSUME Inv, [Next]_vars, NEW cl \in DOMAIN sessions', sessions'[cl] = cl
  PROVE  \/ RestoreSessions
         \/ cl \in DOMAIN sessions /\ sessions[cl] = cl /\ meta'[cl] = meta[cl]
<1>0. cl \in Clients /\ cl \notin Conns
  BY NextInv, BrokerAssumption DEF Inv, TypeOK, SessionTypes
<1> DEFINE Goal == \/ RestoreSessions
                   \/ cl \in DOMAIN sessions /\ sessions[cl] = cl /\ meta'[cl] = meta[cl]
<1>1. ASSUME UNCHANGED sessVars PROVE Goal
  BY <1>1 DEF sessVars
<1>2. ASSUME NEW c \in Conns, NEW h \in Hellos, Connect(c, h) PROVE Goal
  <2>1. /\ sessions' = Insert(sessions, Session(h).client, c)
        /\ meta' = [meta EXCEPT ![c] = Session(h)]
    BY <1>2 DEF Connect, register_session
  <2>2. cl # Session(h).client
    BY <1>0, <2>1 DEF Insert
  <2>3. cl \in DOMAIN meta
    BY <1>0 DEF Inv, TypeOK, SessionTypes, Sids
  <2>4. cl \in DOMAIN sessions /\ sessions[cl] = cl
    BY <2>1, <2>2 DEF Insert
  <2> QED BY <1>0, <2>1, <2>3, <2>4
<1>3. ASSUME NEW c \in Conns, Exit(c) PROVE Goal
  <2>1. /\ meta' = meta
        /\ sessions' = sessions \/ sessions' = Without(sessions, {meta[c].client})
    BY <1>3 DEF Exit, remove_session
  <2> QED BY <2>1 DEF Without
<1>4. ~ Stop
  BY DEF Stop
<1> HIDE DEF Goal
<1>5. RestoreSessions => Goal
  BY DEF Goal
<1>6. Goal
  BY <1>1, <1>2, <1>3, <1>4, <1>5, ZenonT(60)
     DEF Next, Handle, Receive, Restore, DbStep, vars,
         SendConnAck, DeliverNormal, DeliverShared, FinishPublish, SubscribeFilter, FinishSubscribe,
         NoConnect, Refuse, PublishDenied, Publish, Subscribe, PubAck, PingReq, Disconnect, Panic,
         WriterFails, Shutdown, RestoreSubscription, RestoreInFlight
<1> QED BY <1>6 DEF Goal

\* A session that is removed leaves its rows alone.
LastingRow(row) == ~ row.clean_start /\ row.expiry # 0

KeptSessions ==
  /\ \A cl \in DOMAIN db.sessions : LastingRow(db.sessions[cl])
  /\ \A t \in DOMAIN tasks : t.op # "delete_session" /\ (t.op = "save_session" => LastingRow(t.row))
  /\ \A cl \in DOMAIN sessions : sessions[cl] = cl => LastingRow(meta[cl])
  /\ ~ Listening => DOMAIN tasks = {}

\* At every moment of the restore too, what is not in the trie is yet to be
\* replayed.
KeptSubscriptions ==
  /\ running = "down" => trie = EmptyTrie
  /\ running # "down" => EntryKeys \cup loading = DOMAIN db.subscriptions \cup PendingKeys
  /\ \A k \in DOMAIN db.subscriptions : k = <<k[1], k[2]>>

\* The keys of the rows are pairs, and a process that is down has nothing in
\* transit.
KeptMessages ==
  /\ \A k \in DOMAIN db.in_flight : k = <<k[1], k[2]>>
  /\ running = "down" => \A s \in Sids : in_flight[s] = << >>

\* What a step does to the rows and the writes when nothing is deleted.
LEMMA KeptTaskSteps ==
  ASSUME Lasting, SavedWell, KeptSessions, [Next]_vars,
         \A cl \in DOMAIN sessions : LastingRow(meta[sessions[cl]])
  PROVE  \/ Stop /\ db' = db /\ DOMAIN tasks' = {}
         \/ \E t \in DOMAIN tasks : /\ t.op # "delete_session" /\ db' = Apply(db, t)
                                    /\ tasks' = BagOps!BagRemove(tasks, t)
                                    /\ DOMAIN tasks' \subseteq DOMAIN tasks
                                    /\ DOMAIN tasks \subseteq DOMAIN tasks' \cup {t}
                                    /\ UNCHANGED <<trie, bootVars, sessVars, pidVars>>
         \/ UNCHANGED dbVars
         \/ \E t : /\ UNCHANGED db /\ DOMAIN tasks' = DOMAIN tasks \cup {t}
                   /\ SessionSaved(t) \/ MessageSaved(t) \/ MessageDropped(t)
         \/ \E c \in Conns : SubscribeFilter(c)
<1>1. CASE Stop
  <2>1. db' = db
    BY <1>1 DEF Stop, LoseTasks, KeptSessions
  <2>2. DOMAIN tasks' = {}
    BY <1>1 DEF Stop, LoseTasks, EmptyBag, SetToBag
  <2> QED BY <1>1, <2>1, <2>2
<1>2. CASE DbStep(RunTask)
  <2>1. PICK t \in DOMAIN tasks : db' = Apply(db, t) /\ tasks' = BagOps!BagRemove(tasks, t)
    BY <1>2 DEF DbStep, RunTask
  <2>2. DOMAIN tasks' \subseteq DOMAIN tasks /\ DOMAIN tasks \subseteq DOMAIN tasks' \cup {t}
    BY <2>1 DEF BagOps!BagRemove
  <2>3. UNCHANGED <<trie, bootVars, sessVars, pidVars>>
    BY <1>2 DEF DbStep, routeVars
  <2> QED BY <2>1, <2>2, <2>3 DEF KeptSessions
<1>3. ASSUME NEW t, Spawn(t), UNCHANGED db,
             SessionSaved(t) \/ SessionDropped(t) \/ MessageSaved(t) \/ MessageDropped(t)
      PROVE  /\ UNCHANGED db /\ DOMAIN tasks' = DOMAIN tasks \cup {t}
             /\ SessionSaved(t) \/ MessageSaved(t) \/ MessageDropped(t)
  <2>1. ~ SessionDropped(t)
    BY DEF SessionDropped, LastingRow
  <2>2. DOMAIN tasks' = DOMAIN tasks \cup {t}
    BY <1>3, BagFacts DEF Spawn
  <2> QED BY <1>3, <2>1, <2>2
<1>4. ~ DbMayFail
  BY DEF Lasting
<1> QED BY <1>1, <1>2, <1>3, <1>4, SpawnSteps

\* Only a subscription's own write comes with SubscribeFilter.
LEMMA SubscribeFilterTasks ==
  ASSUME NEW c \in Conns, SubscribeFilter(c)
  PROVE  /\ UNCHANGED db
         /\ \/ UNCHANGED <<tasks, trie>>
            \/ LET q == Head(work[c].todo)
                   t == SaveSubscription(meta[c].client, q.filter, q.info)
               IN  /\ MayRead(c, q.filter)
                   /\ trie' = subscribe(trie, meta[c].client, q.filter, q.info)
                   /\ DOMAIN tasks' = DOMAIN tasks \cup {t}
<1> DEFINE q == Head(work[c].todo)
           t == SaveSubscription(meta[c].client, q.filter, q.info)
<1>1. UNCHANGED db
  BY DEF SubscribeFilter
<1>2. CASE MayRead(c, q.filter)
  <2>1. Spawn(t) /\ trie' = subscribe(trie, meta[c].client, q.filter, q.info)
    BY <1>2 DEF SubscribeFilter
  <2>2. DOMAIN tasks' = DOMAIN tasks \cup {t}
    BY <2>1, BagFacts DEF Spawn
  <2> QED BY <1>1, <1>2, <2>1, <2>2
<1>3. CASE ~ MayRead(c, q.filter)
  BY <1>1, <1>3 DEF SubscribeFilter
<1> QED BY <1>2, <1>3

LEMMA SessionsLast ==
  ASSUME Lasting, Inv, LoggedIn, KeptSessions, NEW cl \in DOMAIN sessions
  PROVE  LastingRow(meta[sessions[cl]])
<1>1. PICK s : s = sessions[cl] /\ (s # cl => s \in Conns /\ phase[s] \in Held)
  BY DEF Inv, RegisteredIsLive
<1>2. CASE s = cl
  BY <1>1, <1>2 DEF KeptSessions
<1>3. CASE s # cl
  <2>1. PICK h \in Hellos : meta[s] = Session(h)
    BY <1>1, <1>3 DEF LoggedIn
  <2>2. ~ h.clean_start /\ h.expiry # 0
    BY BrokerAssumption DEF Lasting
  <2>3. meta[s].clean_start = h.clean_start /\ meta[s].expiry = h.expiry
    BY <2>1 DEF Session
  <2> QED BY <1>1, <2>2, <2>3 DEF LastingRow
<1> QED BY <1>2, <1>3

LEMMA KeptSessionsStep ==
  ASSUME Lasting, Inv, LoggedIn, KeptSessions, [Next]_vars
  PROVE  KeptSessions'
<1> DEFINE Rows(d) == \A cl \in DOMAIN d.sessions : LastingRow(d.sessions[cl])
           Fine(t) == t.op # "delete_session" /\ (t.op = "save_session" => LastingRow(t.row))
<1>0. Rows(db) /\ \A t \in DOMAIN tasks : Fine(t)
  BY DEF KeptSessions
<1>1. SavedWell /\ \A cl \in DOMAIN sessions : LastingRow(meta[sessions[cl]])
  BY SessionsLast DEF Inv
<1>2. Rows(db') /\ \A t \in DOMAIN tasks' : Fine(t)
  <2>1. ASSUME NEW t \in DOMAIN tasks, t.op # "delete_session", db' = Apply(db, t),
               DOMAIN tasks' \subseteq DOMAIN tasks
        PROVE  Rows(db') /\ \A u \in DOMAIN tasks' : Fine(u)
    <3>1. /\ DOMAIN db = {"sessions", "subscriptions", "in_flight"}
          /\ t.op \in {"save_session", "delete_session", "save_subscription",
                       "save_in_flight", "delete_in_flight"}
      BY <1>1 DEF SavedWell
    <3>2. CASE t.op = "save_session"
      <4>1. db'.sessions = Insert(db.sessions, t.client, t.row)
        BY <2>1, <3>1, <3>2 DEF Apply
      <4>2. LastingRow(t.row)
        BY <1>0, <3>2
      <4>3. Rows(db')
        BY <1>0, <4>1, <4>2 DEF Insert
      <4> QED BY <1>0, <2>1, <4>3
    <3>3. CASE t.op # "save_session"
      <4>1. db'.sessions = db.sessions
        BY <2>1, <3>1, <3>3 DEF Apply
      <4> QED BY <1>0, <2>1, <4>1
    <3> QED BY <3>2, <3>3
  <2>2. ASSUME NEW t, UNCHANGED db, DOMAIN tasks' = DOMAIN tasks \cup {t}, Fine(t)
        PROVE  Rows(db') /\ \A u \in DOMAIN tasks' : Fine(u)
    BY <1>0, <2>2
  <2>3. ASSUME NEW t, SessionSaved(t) \/ MessageSaved(t) \/ MessageDropped(t) PROVE Fine(t)
    <3>1. ASSUME NEW h \in Hellos, t = SaveSession(h.client, Session(h)) PROVE Fine(t)
      <4>1. t.op = "save_session" /\ t.row = Session(h)
        BY <3>1 DEF SaveSession
      <4>2. ~ h.clean_start /\ h.expiry # 0
        BY BrokerAssumption DEF Lasting
      <4>3. Session(h).clean_start = h.clean_start /\ Session(h).expiry = h.expiry
        BY DEF Session
      <4> QED BY <4>1, <4>2, <4>3 DEF LastingRow
    <3>2. ASSUME MessageSaved(t) \/ MessageDropped(t) PROVE Fine(t)
      BY <3>2 DEF MessageSaved, MessageDropped, SaveInFlight, DeleteInFlight
    <3> QED BY <2>3, <3>1, <3>2 DEF SessionSaved
  <2>4. ASSUME NEW c \in Conns, SubscribeFilter(c) PROVE Rows(db') /\ \A u \in DOMAIN tasks' : Fine(u)
    <3>1. PICK t : t = SaveSubscription(meta[c].client, Head(work[c].todo).filter, Head(work[c].todo).info)
      OBVIOUS
    <3>2. Fine(t)
      BY <3>1 DEF SaveSubscription
    <3>3. UNCHANGED db /\ (tasks' = tasks \/ DOMAIN tasks' = DOMAIN tasks \cup {t})
      BY <2>4, <3>1, SubscribeFilterTasks
    <3> QED BY <1>0, <2>2, <3>2, <3>3
  <2>5. ASSUME UNCHANGED dbVars \/ (db' = db /\ DOMAIN tasks' = {})
        PROVE  Rows(db') /\ \A u \in DOMAIN tasks' : Fine(u)
    BY <1>0, <2>5 DEF dbVars
  <2> HIDE DEF Rows, Fine
  <2> QED BY <1>1, <2>1, <2>2, <2>3, <2>4, <2>5, KeptTaskSteps
<1>3. ASSUME NEW cl \in DOMAIN sessions', sessions'[cl] = cl PROVE LastingRow(meta'[cl])
  <2>1. CASE RestoreSessions
    <3>1. PICK rows : /\ rows = << >> \/ rows = db.sessions
                      /\ sessions' = [k \in DOMAIN rows |-> k]
                      /\ meta' = [s \in Sids |-> IF s \in DOMAIN rows THEN rows[s] ELSE meta[s]]
      BY <2>1 DEF RestoreSessions
    <3>2. cl \in DOMAIN rows /\ rows = db.sessions
      BY <1>3, <3>1
    <3>3. cl \in Sids
      BY <1>1, <3>2 DEF SavedWell, Sids
    <3> QED BY <1>0, <3>1, <3>2, <3>3
  <2>2. CASE cl \in DOMAIN sessions /\ sessions[cl] = cl /\ meta'[cl] = meta[cl]
    BY <2>2 DEF KeptSessions
  <2> QED BY <1>3, <2>1, <2>2, OfflineSteps
<1>4. ASSUME ~ Listening' PROVE DOMAIN tasks' = {}
  <2>1. CASE Stop
    BY <2>1 DEF Stop, LoseTasks, EmptyBag, SetToBag
  <2>2. CASE ~ Listening /\ ~ Stop
    <3>1. UNCHANGED dbVars
      BY <2>2, IdleSteps DEF Restore, RestoreSessions, RestoreSubscription, RestoreInFlight, vars
    <3> QED BY <2>2, <3>1 DEF KeptSessions, dbVars
  <2>3. CASE Listening /\ ~ Stop
    <3>1. Shutdown \/ UNCHANGED bootVars
      BY <2>3, BootSteps DEF Listening, RestoreSessions, RestoreSubscription, RestoreInFlight
    <3> QED BY <1>4, <2>3, <3>1 DEF Shutdown, bootVars, Listening
  <2> QED BY <2>1, <2>2, <2>3
<1> QED BY <1>2, <1>3, <1>4 DEF KeptSessions

\* The entry a granted subscription makes is the one its row makes.
LEMMA GrantedKeys ==
  ASSUME Lasting, TrieGranted, NEW client, NEW filter, NEW info, MayHave(client, filter, info)
  PROVE  Keys(subscribe(trie, client, filter, info)) = Keys(trie) \cup {<<client, filter>>}
<1>1. client \in Clients /\ filter \in Seq(Levels) /\ info \in Infos /\ WellFormed(filter)
  BY BrokerAssumption, PacketAssumption DEF MayHave, Granted, Infos, Lasting
<1>2. GoodTrie(Levels, Clients, Infos, trie)
  BY DEF TrieGranted
<1>3. PICK u : u = subscribe(trie, client, filter, info)
  OBVIOUS
<1>4. Subscribed(trie, u, client, filter, info)
  BY <1>1, <1>2, <1>3, SubscribeFacts
<1> QED BY <1>1, <1>3, <1>4, SubscribeKeys

LEMMA KeysAreEntries == EntryKeys = Keys(trie)
BY DEF EntryKeys, Keys, PlainKeys, GroupKeys, FilterAt

LEMMA KeysOfEmpty == Keys(EmptyTrie) = {}
<1>1. EmptyTrie.subs = {} /\ DOMAIN EmptyTrie.shared = {}
  BY DEF EmptyTrie
<1> QED BY <1>1 DEF Keys, PlainKeys, GroupKeys

\* The keys of the rows that are to be written.
PendingIn(s) == {<<t.client, t.filter>> : t \in {u \in s : u.op = "save_subscription"}}

LEMMA PendingFacts ==
  /\ PendingKeys = PendingIn(DOMAIN tasks)
  /\ PendingIn({}) = {}
  /\ \A s, t : /\ t.op = "save_subscription" =>
                    PendingIn(s \cup {t}) = PendingIn(s) \cup {<<t.client, t.filter>>}
               /\ t.op # "save_subscription" => PendingIn(s \cup {t}) = PendingIn(s)
  /\ \A s, u : s \subseteq u => PendingIn(s) \subseteq PendingIn(u)
<1>1. PendingKeys = PendingIn(DOMAIN tasks)
  BY DEF PendingKeys, PendingIn
<1>2. PendingIn({}) = {}
  BY DEF PendingIn
<1>3. ASSUME NEW s, NEW x
      PROVE  x \in PendingIn(s) <=> \E t \in s : t.op = "save_subscription" /\ x = <<t.client, t.filter>>
  BY DEF PendingIn
<1>4. ASSUME NEW s, NEW t, t.op = "save_subscription"
      PROVE  PendingIn(s \cup {t}) = PendingIn(s) \cup {<<t.client, t.filter>>}
  BY <1>3, <1>4
<1>5. ASSUME NEW s, NEW t, t.op # "save_subscription" PROVE PendingIn(s \cup {t}) = PendingIn(s)
  <2>1. ASSUME NEW x PROVE x \in PendingIn(s \cup {t}) <=> x \in PendingIn(s)
    BY <1>3, <1>5
  <2> QED BY <2>1
<1>6. ASSUME NEW s, NEW u, s \subseteq u PROVE PendingIn(s) \subseteq PendingIn(u)
  BY <1>3, <1>6
<1> QED BY <1>1, <1>2, <1>4, <1>5, <1>6

LEMMA KeptSubscriptionsStep ==
  ASSUME Lasting, Inv, LoggedIn, TrieGranted, RowsGranted, WorkGranted,
         KeptSessions, KeptSubscriptions, [Next]_vars
  PROVE  KeptSubscriptions'
<1> DEFINE Rows(d) == DOMAIN d.subscriptions
           Pairs(d) == \A k \in Rows(d) : k = <<k[1], k[2]>>
           Balance(tr, ld, d, ts) == Keys(tr) \cup ld = Rows(d) \cup PendingIn(ts)
<1>0. /\ running = "down" => trie = EmptyTrie
      /\ running # "down" => Balance(trie, loading, db, DOMAIN tasks)
      /\ Pairs(db)
  BY KeysAreEntries, PendingFacts DEF KeptSubscriptions
<1>1. SavedWell /\ \A cl \in DOMAIN sessions : LastingRow(meta[sessions[cl]])
  BY SessionsLast DEF Inv
<1> DEFINE Goal == /\ running' = "down" => trie' = EmptyTrie
                   /\ running' # "down" => Balance(trie', loading', db', DOMAIN tasks')
                   /\ Pairs(db')
<1>2. ASSUME ~ Listening PROVE Goal
  <2>1. ASSUME RestoreSessions PROVE Goal
    <3>1. /\ running = "down" /\ running' = "restoring" /\ trie' = trie /\ loading' = Rows(db)
          /\ db' = db /\ tasks' = tasks
      BY <2>1 DEF RestoreSessions, Lasting, routeVars, dbVars
    <3>2. trie = EmptyTrie /\ DOMAIN tasks = {}
      BY <1>0, <3>1 DEF KeptSessions, Listening
    <3> QED BY <1>0, <3>1, <3>2, KeysOfEmpty, PendingFacts
  <2>2. ASSUME RestoreSubscription PROVE Goal
    <3>1. PICK k \in loading : /\ trie' = subscribe(trie, k[1], k[2], db.subscriptions[k])
                               /\ loading' = loading \ {k}
      BY <2>2 DEF RestoreSubscription
    <3>2. running = "restoring" /\ UNCHANGED <<running, db, tasks>>
      BY <2>2 DEF RestoreSubscription, dbVars
    <3>3. k \in Rows(db) /\ MayHave(k[1], k[2], db.subscriptions[k])
      BY DEF RowsGranted
    <3>4. Keys(trie') = Keys(trie) \cup {k}
      BY <1>0, <3>1, <3>3, GrantedKeys
    <3>5. Balance(trie', loading', db, DOMAIN tasks)
      BY <1>0, <3>1, <3>2, <3>4
    <3> QED BY <1>0, <3>2, <3>5
  <2>3. ASSUME RestoreInFlight PROVE Goal
    <3>1. running = "restoring" /\ running' = "up" /\ UNCHANGED <<trie, loading, db, tasks>>
      BY <2>3 DEF RestoreInFlight, routeVars, dbVars
    <3> QED BY <1>0, <3>1
  <2>4. ASSUME UNCHANGED vars PROVE Goal
    <3>1. UNCHANGED <<running, trie, loading, db, tasks>>
      BY <2>4 DEF vars, routeVars, dbVars, bootVars
    <3> QED BY <1>0, <3>1
  <2>5. ASSUME Stop PROVE Goal
    <3>1. running' = "down" /\ trie' = EmptyTrie
      BY <2>5 DEF Stop
    <3>2. db' = db
      BY <2>5 DEF Stop, LoseTasks, KeptSessions
    <3> QED BY <1>0, <3>1, <3>2
  <2> HIDE DEF Goal
  <2> QED BY <1>2, <2>1, <2>2, <2>3, <2>4, <2>5, IdleSteps DEF Restore
<1>3. ASSUME Listening, UNCHANGED <<trie, loading>>, running' # "down", Pairs(db'),
             Rows(db') \cup PendingIn(DOMAIN tasks') = Rows(db) \cup PendingIn(DOMAIN tasks)
      PROVE  Goal
  BY <1>0, <1>3 DEF Listening
<1>4. ASSUME NEW t, Listening, UNCHANGED <<trie, loading>>, running' # "down", UNCHANGED db,
             DOMAIN tasks' = DOMAIN tasks \cup {t}, t.op # "save_subscription"
      PROVE  Goal
  <2>1. PendingIn(DOMAIN tasks') = PendingIn(DOMAIN tasks)
    BY <1>4, PendingFacts
  <2> QED BY <1>0, <1>3, <1>4, <2>1
<1>5. ASSUME NEW t \in DOMAIN tasks, t.op # "delete_session", db' = Apply(db, t),
             DOMAIN tasks' \subseteq DOMAIN tasks, DOMAIN tasks \subseteq DOMAIN tasks' \cup {t},
             Listening, UNCHANGED <<trie, loading>>, running' # "down"
      PROVE  Goal
  <2>1. /\ DOMAIN db = {"sessions", "subscriptions", "in_flight"}
        /\ t.op \in {"save_session", "delete_session", "save_subscription",
                     "save_in_flight", "delete_in_flight"}
    BY <1>1 DEF SavedWell
  <2>2. DOMAIN tasks = DOMAIN tasks' \cup {t}
    BY <1>5
  <2>3. ASSUME t.op = "save_subscription" PROVE Goal
    <3>1. PICK key : key = <<t.client, t.filter>>
      OBVIOUS
    <3>2. Rows(db') = Rows(db) \cup {key}
      <4>1. db'.subscriptions = Insert(db.subscriptions, key, t.info)
        BY <1>5, <2>1, <2>3, <3>1 DEF Apply
      <4> QED BY <4>1 DEF Insert
    <3>3. PendingIn(DOMAIN tasks) = PendingIn(DOMAIN tasks') \cup {key}
      BY <2>2, <2>3, <3>1, PendingFacts
    <3>4. key = <<key[1], key[2]>>
      BY <3>1
    <3> HIDE DEF Rows, Goal
    <3>5. Pairs(db')
      BY <1>0, <3>2, <3>4
    <3> QED BY <1>3, <1>5, <3>2, <3>3, <3>5
  <2>4. ASSUME t.op # "save_subscription" PROVE Goal
    <3>1. db'.subscriptions = db.subscriptions
      BY <1>5, <2>1, <2>4 DEF Apply
    <3>2. PendingIn(DOMAIN tasks) = PendingIn(DOMAIN tasks')
      BY <2>2, <2>4, PendingFacts
    <3>3. Rows(db') = Rows(db)
      BY <3>1
    <3> QED BY <1>0, <1>3, <1>5, <3>2, <3>3
  <2> QED BY <2>3, <2>4
<1>6. ASSUME NEW c \in Conns, SubscribeFilter(c), Listening, UNCHANGED loading, running' # "down"
      PROVE  Goal
  <2>1. PICK q, client : q = Head(work[c].todo) /\ client = meta[c].client
    OBVIOUS
  <2>2. PICK t : t = SaveSubscription(client, q.filter, q.info)
    OBVIOUS
  <2>3. t.op = "save_subscription" /\ t.client = client /\ t.filter = q.filter
    BY <2>2 DEF SaveSubscription
  <2>4. /\ UNCHANGED db
        /\ \/ UNCHANGED <<tasks, trie>>
           \/ /\ MayRead(c, q.filter)
              /\ trie' = subscribe(trie, client, q.filter, q.info)
              /\ DOMAIN tasks' = DOMAIN tasks \cup {t}
    BY <1>6, <2>1, <2>2, SubscribeFilterTasks
  <2>5. CASE UNCHANGED <<tasks, trie>>
    BY <1>0, <1>3, <1>6, <2>4, <2>5
  <2>6. ASSUME MayRead(c, q.filter), trie' = subscribe(trie, client, q.filter, q.info),
               DOMAIN tasks' = DOMAIN tasks \cup {t}
        PROVE  Goal
    <3>1. phase[c] = "subscribing" /\ work[c].todo # << >>
      BY <1>6 DEF SubscribeFilter
    <3>2. MayHave(client, q.filter, q.info)
      BY <2>1, <2>6, <3>1, FilterGranted
    <3>3. Keys(trie') = Keys(trie) \cup {<<client, q.filter>>}
      BY <2>6, <3>2, GrantedKeys
    <3>4. PendingIn(DOMAIN tasks') = PendingIn(DOMAIN tasks) \cup {<<client, q.filter>>}
      BY <2>3, <2>6, PendingFacts
    <3>5. Balance(trie', loading', db', DOMAIN tasks')
      BY <1>0, <1>6, <2>4, <3>3, <3>4 DEF Listening
    <3> QED BY <1>0, <1>6, <2>4, <3>5
  <2> QED BY <2>4, <2>5, <2>6
<1>7. ASSUME Listening, ~ Stop PROVE UNCHANGED loading /\ running' # "down"
  <2>1. Shutdown \/ UNCHANGED bootVars
    BY <1>7, BootSteps DEF Listening, RestoreSessions, RestoreSubscription, RestoreInFlight
  <2> QED BY <1>7, <2>1 DEF Shutdown, bootVars, Listening
<1>8. ASSUME Listening PROVE Goal
  <2>1. ASSUME Stop, db' = db PROVE Goal
    <3>1. running' = "down" /\ trie' = EmptyTrie
      BY <2>1 DEF Stop
    <3> QED BY <1>0, <2>1, <3>1
  <2>2. ASSUME NEW t, SessionSaved(t) \/ MessageSaved(t) \/ MessageDropped(t)
        PROVE  t.op # "save_subscription"
    BY <2>2 DEF SessionSaved, MessageSaved, MessageDropped, SaveSession, SaveInFlight, DeleteInFlight
  <2>3. ~ RestoreSubscription
    BY <1>8 DEF RestoreSubscription, Listening
  <2>4. \/ Stop \/ UNCHANGED trie \/ \E c \in Conns : SubscribeFilter(c)
    BY <2>3, TrieSteps
  <2>5. ASSUME UNCHANGED dbVars, UNCHANGED trie, ~ Stop PROVE Goal
    <3>1. UNCHANGED <<db, tasks>>
      BY <2>5 DEF dbVars
    <3>2. UNCHANGED <<trie, loading>> /\ running' # "down"
      BY <1>7, <1>8, <2>5
    <3> QED BY <1>0, <1>3, <1>8, <3>1, <3>2
  <2>6. ASSUME NEW c \in Conns, SubscribeFilter(c), ~ Stop PROVE Goal
    BY <1>6, <1>7, <1>8, <2>6
  <2>7. ASSUME UNCHANGED trie, ~ Stop, NEW t, UNCHANGED db, DOMAIN tasks' = DOMAIN tasks \cup {t},
               SessionSaved(t) \/ MessageSaved(t) \/ MessageDropped(t)
        PROVE  Goal
    <3>1. t.op # "save_subscription"
      BY <2>2, <2>7
    <3> QED BY <1>4, <1>7, <1>8, <2>7, <3>1
  <2> HIDE DEF Goal
  <2>8. ASSUME ~ Stop, NEW t \in DOMAIN tasks, t.op # "delete_session", db' = Apply(db, t),
               DOMAIN tasks' \subseteq DOMAIN tasks, DOMAIN tasks \subseteq DOMAIN tasks' \cup {t},
               UNCHANGED trie
        PROVE  Goal
    BY <1>5, <1>7, <1>8, <2>8
  <2>9. ASSUME Stop PROVE Goal
    <3>1. db' = db
      BY <2>9 DEF Stop, LoseTasks, KeptSessions
    <3> QED BY <2>1, <2>9, <3>1
  <2> QED BY <1>1, <2>4, <2>5, <2>6, <2>7, <2>8, <2>9, KeptTaskSteps
<1> HIDE DEF Goal
<1>9. Goal
  BY <1>2, <1>8
<1>10. EntryKeys' = Keys(trie') /\ PendingKeys' = PendingIn(DOMAIN tasks')
  BY DEF EntryKeys, Keys, PlainKeys, GroupKeys, FilterAt, PendingKeys, PendingIn
<1> QED BY <1>9, <1>10 DEF Goal, KeptSubscriptions

LEMMA InitKept == ASSUME Init PROVE KeptSessions /\ KeptSubscriptions /\ KeptMessages
<1>1. DOMAIN tasks = {}
  BY DEF Init, EmptyBag, SetToBag
<1>2. /\ running = "up" /\ loading = {} /\ trie = EmptyTrie
      /\ DOMAIN sessions = {} /\ DOMAIN db.sessions = {} /\ DOMAIN db.subscriptions = {}
      /\ DOMAIN db.in_flight = {}
  BY DEF Init, EmptyDb
<1>3. EntryKeys = {} /\ PendingKeys = {}
  BY <1>1, <1>2, KeysAreEntries, KeysOfEmpty, PendingFacts
<1> QED BY <1>1, <1>2, <1>3 DEF KeptSessions, KeptSubscriptions, KeptMessages, Listening

LEMMA KeptIsDurable == ASSUME RowsGranted, KeptSubscriptions PROVE SubscriptionsDurable
BY DEF RowsGranted, KeptSubscriptions, SubscriptionsDurable, Listening

\* With sessions that are meant to last, well-formed filters and a database
\* that works, the router holds exactly the subscriptions that are saved or
\* about to be, whatever ends and starts again (SubscriptionsDurable): for
\* any number of clients, connections, packets and restarts.
THEOREM SubscriptionsKept == Lasting => (Spec => []SubscriptionsDurable)
<1> SUFFICES ASSUME Lasting PROVE Spec => []SubscriptionsDurable
  OBVIOUS
<1> DEFINE Durable == DeliveryInv /\ KeptSessions /\ KeptSubscriptions
<1>1. Init => Durable
  BY InitDelivery, InitKept
<1>2. Inv /\ Durable /\ [Next]_vars => Durable'
  <2> SUFFICES ASSUME Inv, Durable, [Next]_vars PROVE Durable'
    OBVIOUS
  <2>1. DeliveryInv'
    BY NextDelivery
  <2>2. KeptSessions'
    BY KeptSessionsStep DEF DeliveryInv
  <2>3. KeptSubscriptions'
    BY KeptSubscriptionsStep DEF DeliveryInv
  <2> QED BY <2>1, <2>2, <2>3
<1>3. Durable => SubscriptionsDurable
  BY KeptIsDurable DEF DeliveryInv
<1> HIDE DEF Durable
<1> QED BY <1>1, <1>2, <1>3, Invariance, PTL DEF Spec

-----------------------------------------------------------------------------
(* Messages in transit.                                                    *)

\* The writes of what is in transit, without sets.
Transits(w, ss, flight) ==
  \E cl \in DOMAIN ss : \E pid \in DOMAIN flight[ss[cl]] : w = SaveInFlight(cl, pid, flight[ss[cl]][pid])

LEMMA TransitFacts ==
  /\ \A w : w \in InTransit <=> Transits(w, sessions, in_flight)
  /\ \A w : w \in InTransit' <=> Transits(w, sessions', in_flight')
BY DEF InTransit, Transits

LEMMA WriteFields ==
  ASSUME NEW w, NEW ss, NEW flight, Transits(w, ss, flight)
  PROVE  /\ w.op = "save_in_flight" /\ w = SaveInFlight(w.client, w.pid, w.msg)
         /\ w.client \in DOMAIN ss /\ w.pid \in DOMAIN flight[ss[w.client]]
         /\ w.msg = flight[ss[w.client]][w.pid]
BY DEF Transits, SaveInFlight

\* A write that is pending or done is one or the other after a step, unless
\* another one under its client and id has run.
LEMMA WriteStays ==
  ASSUME Lasting, Inv, LoggedIn, KeptSessions, [Next]_vars, ~ Stop,
         NEW w, w = SaveInFlight(w.client, w.pid, w.msg), w \in DOMAIN tasks \/ InRow(w)
  PROVE  w \in DOMAIN tasks' \/ InRow(w)' \/ \E t \in DOMAIN tasks : Overwrites(t, w)
<1> DEFINE Goal == w \in DOMAIN tasks' \/ InRow(w)' \/ \E t \in DOMAIN tasks : Overwrites(t, w)
           Key == <<w.client, w.pid>>
<1>1. SavedWell /\ \A cl \in DOMAIN sessions : LastingRow(meta[sessions[cl]])
  BY SessionsLast DEF Inv
<1>2. ASSUME db' = db, DOMAIN tasks \subseteq DOMAIN tasks' PROVE Goal
  BY <1>2 DEF InRow
<1>3. ASSUME NEW t \in DOMAIN tasks, t.op # "delete_session", db' = Apply(db, t),
             tasks' = BagOps!BagRemove(tasks, t), DOMAIN tasks \subseteq DOMAIN tasks' \cup {t}
      PROVE  Goal
  <2>1. /\ DOMAIN db = {"sessions", "subscriptions", "in_flight"}
        /\ t.op \in {"save_session", "delete_session", "save_subscription", "save_in_flight",
                     "delete_in_flight"}
        /\ w.op = "save_in_flight"
    BY <1>1 DEF SavedWell, SaveInFlight
  <2>2. CASE t = w
    <3>1. db'.in_flight = Insert(db.in_flight, Key, w.msg)
      BY <1>3, <2>1, <2>2 DEF Apply
    <3> QED BY <3>1 DEF InRow, Insert
  <2>3. CASE w \in DOMAIN tasks /\ t # w
    BY <1>3, <2>3
  <2>4. CASE InRow(w) /\ t # w
    <3>1. CASE t.op \in {"save_in_flight", "delete_in_flight"} /\ t.client = w.client /\ t.pid = w.pid
      BY <1>3, <2>4, <3>1 DEF Overwrites
    <3>2. CASE t.op = "save_in_flight" /\ ~ (t.client = w.client /\ t.pid = w.pid)
      <4>1. db'.in_flight = Insert(db.in_flight, <<t.client, t.pid>>, t.msg) /\ <<t.client, t.pid>> # Key
        BY <1>3, <2>1, <3>2 DEF Apply
      <4> QED BY <2>4, <4>1 DEF InRow, Insert
    <3>3. CASE t.op = "delete_in_flight" /\ ~ (t.client = w.client /\ t.pid = w.pid)
      <4>1. db'.in_flight = Without(db.in_flight, {<<t.client, t.pid>>}) /\ <<t.client, t.pid>> # Key
        BY <1>3, <2>1, <3>3 DEF Apply
      <4> QED BY <2>4, <4>1 DEF InRow, Without
    <3>4. CASE t.op \notin {"save_in_flight", "delete_in_flight"}
      <4>1. db'.in_flight = db.in_flight
        BY <1>3, <2>1, <3>4 DEF Apply
      <4> QED BY <2>4, <4>1 DEF InRow
    <3> QED BY <3>1, <3>2, <3>3, <3>4
  <2> QED BY <2>2, <2>3, <2>4
<1>4. ASSUME NEW c \in Conns, SubscribeFilter(c) PROVE Goal
  <2>1. UNCHANGED db /\ DOMAIN tasks \subseteq DOMAIN tasks'
    BY <1>4, SubscribeFilterTasks
  <2> HIDE DEF Goal
  <2> QED BY <1>2, <2>1
<1> HIDE DEF Goal
<1>5. Goal
  BY <1>1, <1>2, <1>3, <1>4, KeptTaskSteps DEF dbVars
<1> QED BY <1>5 DEF Goal

\* How a session gets messages in transit.
LEMMA TransitSteps ==
  ASSUME [Next]_vars
  PROVE  \/ UNCHANGED <<sessions, in_flight>>
         \/ Stop \/ RestoreSessions \/ RestoreInFlight
         \/ \E c \in Conns, h \in Hellos : Connect(c, h)
         \/ \E c \in Conns : Exit(c)
         \/ \E c \in Conns, pid \in PubAcks : PubAck(c, pid)
         \/ \E client, msg, info : send_publish_to_client(client, msg, info) /\ UNCHANGED sessions
<1> DEFINE Sends == \E client, msg, info : send_publish_to_client(client, msg, info) /\ UNCHANGED sessions
           Same == UNCHANGED <<sessions, in_flight>>
           Acks == \E c \in Conns, pid \in PubAcks : PubAck(c, pid)
<1>1. ASSUME NEW c \in Conns, DeliverNormal(c) \/ DeliverShared(c) PROVE Sends
  BY <1>1 DEF DeliverNormal, DeliverShared, sessVars
<1>2. UNCHANGED <<sessVars, pidVars>> => Same
  BY DEF sessVars, pidVars
<1> HIDE DEF Sends, Same
<1>3. ASSUME NEW c \in Conns, Handle(c) PROVE Same \/ Sends
  BY <1>1, <1>2, <1>3 DEF Handle, SendConnAck, FinishPublish, SubscribeFilter, FinishSubscribe
<1>4. ASSUME NEW c \in Conns, Receive(c)
      PROVE  Same \/ (\E h \in Hellos : Connect(c, h)) \/ Exit(c) \/ Acks
  BY <1>2, <1>4 DEF Receive, NoConnect, Refuse, PublishDenied, Publish, Subscribe, PingReq,
                    Disconnect, Panic, WriterFails
<1> HIDE DEF Acks
<1>5. ASSUME DbStep(RunTask) \/ DbStep(TaskFails) \/ Shutdown \/ RestoreSubscription \/ UNCHANGED vars
      PROVE  Same
  BY <1>2, <1>5 DEF DbStep, Shutdown, RestoreSubscription, vars
<1>6. \/ Same \/ Stop \/ RestoreSessions \/ RestoreInFlight \/ Sends \/ Acks
      \/ \E c \in Conns, h \in Hellos : Connect(c, h)
      \/ \E c \in Conns : Exit(c)
  BY <1>3, <1>4, <1>5 DEF Next, Restore
<1> QED BY <1>6 DEF Same, Sends, Acks

\* A delivery that gets a packet id comes with its write.
LEMMA SentWrite ==
  ASSUME Inv, NEW client, NEW msg, NEW info, send_publish_to_client(client, msg, info),
         ~ UNCHANGED <<in_flight, tasks>>
  PROVE  \E s, pid :
           /\ s \in Sids /\ client \in DOMAIN sessions /\ s = sessions[client]
           /\ in_flight' = [in_flight EXCEPT ![s] = Insert(@, pid, msg)]
           /\ UNCHANGED db /\ DOMAIN tasks' = DOMAIN tasks \cup {SaveInFlight(client, pid, msg)}
<1>1. PICK s, pid : /\ client \in DOMAIN sessions /\ s = sessions[client]
                    /\ in_flight' = [in_flight EXCEPT ![s] = Insert(@, pid, msg)]
                    /\ Spawn(SaveInFlight(client, pid, msg)) /\ UNCHANGED db
  BY DEF send_publish_to_client, pidVars, dbVars
<1>2. PICK t : t = SaveInFlight(client, pid, msg)
  OBVIOUS
<1>3. tasks' = BagOps!BagAdd(tasks, t)
  BY <1>1, <1>2, Zenon DEF Spawn
<1>4. DOMAIN BagOps!BagAdd(tasks, t) = DOMAIN tasks \cup {t}
  BY BagFacts, Zenon
<1>5. s \in Sids
  BY <1>1 DEF Inv, TypeOK, SessionTypes
<1> QED BY <1>1, <1>2, <1>3, <1>4, <1>5

\* What is in transit after a step was so before it, or comes with its write
\* or from its row.
LEMMA NewTransit ==
  ASSUME Lasting, Inv, KeptMessages, [Next]_vars, NEW w, Transits(w, sessions', in_flight')
  PROVE  Transits(w, sessions, in_flight) \/ w \in DOMAIN tasks' \/ (RestoreInFlight /\ InRow(w)')
<1> DEFINE Goal == \/ Transits(w, sessions, in_flight) \/ w \in DOMAIN tasks'
                   \/ RestoreInFlight /\ InRow(w)'
<1>1. PICK cl, pid : /\ cl \in DOMAIN sessions' /\ pid \in DOMAIN in_flight'[sessions'[cl]]
                     /\ w = SaveInFlight(cl, pid, in_flight'[sessions'[cl]][pid])
  BY DEF Transits
<1>2. /\ DOMAIN in_flight = Sids /\ DOMAIN sessions \subseteq Clients
      /\ \A k \in DOMAIN sessions :
           /\ sessions[k] \in Sids /\ meta[sessions[k]].client = k
           /\ sessions[k] # k => sessions[k] \in Conns
  BY DEF Inv, TypeOK, SessionTypes, RegisteredIsLive
<1>3. ASSUME cl \in DOMAIN sessions, sessions'[cl] = sessions[cl],
             pid \in DOMAIN in_flight[sessions[cl]],
             in_flight'[sessions'[cl]][pid] = in_flight[sessions[cl]][pid]
      PROVE  Goal
  BY <1>1, <1>3 DEF Transits
<1> HIDE DEF Goal
<1>4. ASSUME UNCHANGED <<sessions, in_flight>> PROVE Goal
  BY <1>1, <1>3, <1>4
<1>5. ~ Stop
  <2>1. Stop => DOMAIN sessions' = {}
    BY DEF Stop
  <2> QED BY <1>1, <2>1
<1>6. ~ RestoreSessions
  <2> SUFFICES ASSUME RestoreSessions PROVE FALSE
    OBVIOUS
  <2>1. running = "down" /\ UNCHANGED in_flight
    BY DEF RestoreSessions, pidVars
  <2>2. sessions'[cl] \in Sids
    BY NextInv, <1>1 DEF Inv, TypeOK, SessionTypes
  <2>3. DOMAIN in_flight'[sessions'[cl]] = {}
    BY <2>1, <2>2 DEF KeptMessages
  <2> QED BY <1>1, <2>3
<1>7. ASSUME RestoreInFlight PROVE Goal
  <2>1. /\ UNCHANGED <<sessions, db>>
        /\ \A s \in Sids :
             in_flight'[s] = IF s \in DOMAIN sessions
                             THEN [p \in {k[2] : k \in OfClient(db.in_flight, s)} |-> db.in_flight[<<s, p>>]]
                             ELSE in_flight[s]
    BY <1>7 DEF RestoreInFlight, Lasting, sessVars, dbVars
  <2>2. cl \in DOMAIN sessions /\ sessions[cl] \in Sids /\ sessions'[cl] = sessions[cl]
    BY <1>1, <1>2, <2>1
  <2>3. CASE sessions[cl] = cl
    <3>1. in_flight'[cl] = [p \in {k[2] : k \in OfClient(db.in_flight, cl)} |-> db.in_flight[<<cl, p>>]]
      BY <2>1, <2>2, <2>3
    <3>2. pid \in {k[2] : k \in OfClient(db.in_flight, cl)} /\ w = SaveInFlight(cl, pid, db.in_flight[<<cl, pid>>])
      BY <1>1, <2>2, <2>3, <3>1
    <3>3. PICK k \in DOMAIN db.in_flight : k[1] = cl /\ k[2] = pid
      BY <3>2 DEF OfClient
    <3>4. k = <<cl, pid>>
      BY <3>3 DEF KeptMessages
    <3>5. w.client = cl /\ w.pid = pid /\ w.msg = db.in_flight[<<cl, pid>>]
      BY <3>2 DEF SaveInFlight
    <3>6. InRow(w)'
      BY <2>1, <3>3, <3>4, <3>5 DEF InRow
    <3> QED BY <1>7, <3>6 DEF Goal
  <2>4. CASE sessions[cl] # cl
    <3>1. sessions[cl] \notin DOMAIN sessions
      BY <1>2, <2>2, <2>4, BrokerAssumption
    <3>2. in_flight'[sessions'[cl]] = in_flight[sessions[cl]]
      BY <2>1, <2>2, <3>1
    <3> QED BY <1>1, <1>3, <2>2, <3>2
  <2> QED BY <2>3, <2>4
<1>8. ASSUME NEW c \in Conns, NEW h \in Hellos, Connect(c, h) PROVE Goal
  <2>1. /\ sessions' = Insert(sessions, Session(h).client, c)
        /\ in_flight' = [in_flight EXCEPT ![c] = << >>]
    BY <1>8 DEF Connect, register_session
  <2>2. c \in Sids
    BY DEF Sids
  <2>3. DOMAIN in_flight'[c] = {} /\ \A s \in Sids : s # c => in_flight'[s] = in_flight[s]
    BY <1>2, <2>1, <2>2
  <2>4. sessions'[cl] = c \/ (cl \in DOMAIN sessions /\ sessions'[cl] = sessions[cl])
    BY <1>1, <2>1 DEF Insert
  <2>5. sessions'[cl] # c
    BY <1>1, <2>3
  <2>6. in_flight'[sessions'[cl]] = in_flight[sessions[cl]]
    BY <1>2, <2>3, <2>4, <2>5
  <2> QED BY <1>1, <1>3, <2>4, <2>5, <2>6
<1>9. ASSUME NEW c \in Conns, Exit(c) PROVE Goal
  <2>1. UNCHANGED in_flight /\ (UNCHANGED sessions \/ sessions' = Without(sessions, {meta[c].client}))
    BY <1>9 DEF Exit, remove_session, pidVars
  <2>2. cl \in DOMAIN sessions /\ sessions'[cl] = sessions[cl]
    BY <1>1, <2>1 DEF Without
  <2> QED BY <1>1, <1>3, <2>1, <2>2
<1>10. ASSUME NEW c \in Conns, NEW p \in PubAcks, PubAck(c, p) PROVE Goal
  <2>1. sessions' = sessions /\ in_flight' = [in_flight EXCEPT ![c] = Without(@, {p})]
    BY <1>10 DEF PubAck, sessVars
  <2>2. \A s \in Sids : in_flight'[s] = in_flight[s] \/ in_flight'[s] = Without(in_flight[s], {p})
    BY <1>2, <2>1
  <2>3. cl \in DOMAIN sessions /\ sessions'[cl] = sessions[cl] /\ sessions[cl] \in Sids
    BY <1>1, <1>2, <2>1
  <2>4. PICK f, g : /\ f = in_flight[sessions[cl]] /\ g = in_flight'[sessions'[cl]]
                    /\ g = f \/ g = Without(f, {p})
    BY <2>2, <2>3
  <2>5. pid \in DOMAIN f /\ g[pid] = f[pid]
    BY <1>1, <2>4 DEF Without
  <2> QED BY <1>3, <2>3, <2>4, <2>5
<1>11. ASSUME NEW client, NEW msg, NEW info, send_publish_to_client(client, msg, info),
              UNCHANGED sessions
       PROVE  Goal
  <2>1. CASE UNCHANGED in_flight
    BY <1>4, <1>11, <2>1
  <2>2. CASE ~ UNCHANGED in_flight
    <3>1. PICK s, p :
            /\ s \in Sids /\ client \in DOMAIN sessions /\ s = sessions[client]
            /\ in_flight' = [in_flight EXCEPT ![s] = Insert(@, p, msg)]
            /\ UNCHANGED db /\ DOMAIN tasks' = DOMAIN tasks \cup {SaveInFlight(client, p, msg)}
      BY <1>11, <2>2, SentWrite
    <3>2. cl \in DOMAIN sessions /\ sessions'[cl] = sessions[cl] /\ sessions[cl] \in Sids
      BY <1>1, <1>2, <1>11
    <3>3. /\ in_flight'[s] = Insert(in_flight[s], p, msg)
          /\ \A u \in Sids : u # s => in_flight'[u] = in_flight[u]
      BY <1>2, <3>1
    <3>4. CASE sessions[cl] # s
      <4>1. in_flight'[sessions'[cl]] = in_flight[sessions[cl]]
        BY <3>2, <3>3, <3>4
      <4> QED BY <1>1, <1>3, <3>2, <4>1
    <3>5. CASE sessions[cl] = s /\ pid # p
      <4>1. /\ pid \in DOMAIN in_flight[sessions[cl]]
            /\ in_flight'[sessions'[cl]][pid] = in_flight[sessions[cl]][pid]
        BY <1>1, <3>2, <3>3, <3>5 DEF Insert
      <4> QED BY <1>3, <3>2, <4>1
    <3>6. CASE sessions[cl] = s /\ pid = p
      <4>1. cl = client
        BY <1>2, <3>1, <3>2, <3>6
      <4>2. in_flight'[sessions'[cl]][pid] = msg
        BY <3>2, <3>3, <3>6 DEF Insert
      <4>3. w \in DOMAIN tasks'
        BY <1>1, <3>1, <3>6, <4>1, <4>2
      <4> QED BY <4>3 DEF Goal
    <3> QED BY <3>4, <3>5, <3>6
  <2> QED BY <2>1, <2>2
<1>12. Goal
  BY <1>4, <1>5, <1>6, <1>7, <1>8, <1>9, <1>10, <1>11, TransitSteps
<1> QED BY <1>12 DEF Goal

LEMMA KeptMessagesStep ==
  ASSUME Lasting, Inv, LoggedIn, KeptSessions, KeptMessages, [Next]_vars
  PROVE  KeptMessages'
<1> DEFINE Pairs(table) == \A k \in DOMAIN table : k = <<k[1], k[2]>>
<1>1. running' = "down" => \A s \in Sids : in_flight'[s] = << >>
  <2>1. CASE Stop
    BY <2>1 DEF Stop
  <2>2. ASSUME ~ Stop, running' = "down" PROVE \A s \in Sids : in_flight'[s] = << >>
    <3>1. running = "down"
      BY <2>2, BootSteps DEF RestoreSessions, RestoreSubscription, RestoreInFlight, Shutdown, bootVars
    <3>2. UNCHANGED vars
      BY <2>2, <3>1, IdleSteps DEF Listening, Restore, RestoreSessions, RestoreSubscription, RestoreInFlight
    <3>3. in_flight' = in_flight
      BY <3>2 DEF vars, pidVars
    <3> QED BY <3>1, <3>3 DEF KeptMessages
  <2> QED BY <2>1, <2>2
<1>2. Pairs(db'.in_flight)
  <2>0. Pairs(db.in_flight) /\ SavedWell /\ \A cl \in DOMAIN sessions : LastingRow(meta[sessions[cl]])
    BY SessionsLast DEF Inv, KeptMessages
  <2>1. ASSUME db' = db PROVE Pairs(db'.in_flight)
    BY <2>0, <2>1
  <2>2. ASSUME NEW t \in DOMAIN tasks, t.op # "delete_session", db' = Apply(db, t)
        PROVE  Pairs(db'.in_flight)
    <3>1. /\ DOMAIN db = {"sessions", "subscriptions", "in_flight"}
          /\ t.op \in {"save_session", "delete_session", "save_subscription", "save_in_flight",
                       "delete_in_flight"}
      BY <2>0 DEF SavedWell
    <3>2. \/ db'.in_flight = db.in_flight
          \/ db'.in_flight = Insert(db.in_flight, <<t.client, t.pid>>, t.msg)
          \/ db'.in_flight = Without(db.in_flight, {<<t.client, t.pid>>})
      BY <2>2, <3>1 DEF Apply
    <3> QED BY <2>0, <3>2 DEF Insert, Without
  <2>3. ASSUME NEW c \in Conns, SubscribeFilter(c) PROVE db' = db
    BY <2>3, SubscribeFilterTasks
  <2> HIDE DEF Pairs
  <2> QED BY <2>0, <2>1, <2>2, <2>3, KeptTaskSteps DEF dbVars
<1> QED BY <1>1, <1>2 DEF KeptMessages

LEMMA LostStep ==
  ASSUME Lasting, Inv, LoggedIn, KeptSessions, KeptMessages, [Next]_vars, NEW w \in Lost'
  PROVE  w \in Lost \/ \E t \in DOMAIN tasks : Overwrites(t, w)
<1>1. Transits(w, sessions', in_flight') /\ w \notin DOMAIN tasks' /\ ~ InRow(w)'
  BY TransitFacts DEF Lost
<1>2. Transits(w, sessions, in_flight)
  BY <1>1, NewTransit
<1>3. ~ Stop
  <2>1. Stop => DOMAIN sessions' = {}
    BY DEF Stop
  <2> QED BY <1>1, <2>1 DEF Transits
<1>4. CASE w \in DOMAIN tasks \/ InRow(w)
  BY <1>1, <1>2, <1>3, <1>4, WriteFields, WriteStays
<1>5. CASE ~ (w \in DOMAIN tasks \/ InRow(w))
  BY <1>2, <1>5, TransitFacts DEF Lost
<1> QED BY <1>4, <1>5

\* With sessions that are meant to last and a database that works, a message
\* in transit is saved or about to be from its delivery or its restore on,
\* until another write under its client and packet id runs (InTransitKept):
\* across takeovers, acknowledgements and restarts (send_publish_to_client,
\* load_all_in_flight).
THEOREM MessagesKept == Lasting => (Spec => InTransitKept)
<1> SUFFICES ASSUME Lasting PROVE Spec => InTransitKept
  OBVIOUS
<1> DEFINE Durable == DeliveryInv /\ KeptSessions /\ KeptMessages
<1>1. Init => Durable
  BY InitDelivery, InitKept
<1>2. Inv /\ Durable /\ [Next]_vars => Durable'
  <2> SUFFICES ASSUME Inv, Durable, [Next]_vars PROVE Durable'
    OBVIOUS
  <2>1. DeliveryInv'
    BY NextDelivery
  <2>2. KeptSessions'
    BY KeptSessionsStep DEF DeliveryInv
  <2>3. KeptMessages'
    BY KeptMessagesStep DEF DeliveryInv
  <2> QED BY <2>1, <2>2, <2>3
<1>3. Inv /\ Durable /\ [Next]_vars =>
        [\A w \in Lost' : w \in Lost \/ \E t \in DOMAIN tasks : Overwrites(t, w)]_vars
  BY LostStep DEF DeliveryInv
<1> HIDE DEF Durable
<1> QED BY <1>1, <1>2, <1>3, Invariance, PTL DEF Spec, InTransitKept

\* A message's write is spawned when the message is put in transit.
LEMMA NewWrite ==
  ASSUME Lasting, Inv, LoggedIn, KeptSessions, [Next]_vars,
         NEW t \in DOMAIN tasks', t \notin DOMAIN tasks, t.op = "save_in_flight"
  PROVE  Transits(t, sessions', in_flight')
<1>1. SavedWell /\ \A cl \in DOMAIN sessions : LastingRow(meta[sessions[cl]])
  BY SessionsLast DEF Inv
<1>2. ASSUME NEW c \in Conns, SubscribeFilter(c) PROVE FALSE
  <2>1. PICK u : u = SaveSubscription(meta[c].client, Head(work[c].todo).filter, Head(work[c].todo).info)
    OBVIOUS
  <2>2. tasks' = tasks \/ DOMAIN tasks' = DOMAIN tasks \cup {u}
    BY <1>2, <2>1, SubscribeFilterTasks
  <2>3. u.op = "save_subscription"
    BY <2>1 DEF SaveSubscription
  <2> QED BY <2>2, <2>3
<1>3. PICK u : /\ DOMAIN tasks' = DOMAIN tasks \cup {u}
               /\ SessionSaved(u) \/ MessageSaved(u) \/ MessageDropped(u)
  BY <1>1, <1>2, KeptTaskSteps DEF dbVars
<1>4. u = t
  BY <1>3
<1>5. PICK client, pid, msg : t = SaveInFlight(client, pid, msg) /\ SentBy(client, msg)
  BY <1>3, <1>4 DEF SessionSaved, MessageSaved, MessageDropped, SaveSession, DeleteInFlight
<1>6. PICK info : send_publish_to_client(client, msg, info) /\ UNCHANGED sessions
  BY <1>5 DEF SentBy
<1>7. tasks' # tasks
  OBVIOUS
<1>8. PICK s, p : /\ s \in Sids /\ client \in DOMAIN sessions /\ s = sessions[client]
                  /\ in_flight' = [in_flight EXCEPT ![s] = Insert(@, p, msg)]
                  /\ DOMAIN tasks' = DOMAIN tasks \cup {SaveInFlight(client, p, msg)}
  BY <1>6, <1>7, SentWrite
<1>9. t = SaveInFlight(client, p, msg)
  BY <1>8
<1>10. in_flight'[s] = Insert(in_flight[s], p, msg)
  BY <1>8 DEF Inv, TypeOK, SessionTypes
<1>11. p \in DOMAIN in_flight'[s] /\ in_flight'[s][p] = msg
  BY <1>10 DEF Insert
<1> QED BY <1>6, <1>8, <1>9, <1>11 DEF Transits

\* What is in transit is saved or about to be, no other write waits under its
\* client and packet id, and nothing is to be deleted.
SafeInTransit ==
  /\ \A t \in DOMAIN tasks : t.op # "delete_in_flight"
  /\ \A w \in InTransit :
       /\ w \in DOMAIN tasks \/ InRow(w)
       /\ \A t \in DOMAIN tasks :
            t.op = "save_in_flight" /\ t.client = w.client /\ t.pid = w.pid => t = w

LEMMA SafeStep ==
  ASSUME Lasting, PubAcks = {}, Inv, LoggedIn, KeptSessions, KeptMessages,
         SafeInTransit, OneWritePerId', [Next]_vars
  PROVE  SafeInTransit'
<1>1. SavedWell /\ \A cl \in DOMAIN sessions : LastingRow(meta[sessions[cl]])
  BY SessionsLast DEF Inv
<1>2. ASSUME NEW t \in DOMAIN tasks' PROVE t.op # "delete_in_flight"
  <2>1. ASSUME NEW c \in Conns, SubscribeFilter(c) PROVE t.op # "delete_in_flight"
    <3>1. PICK u : u = SaveSubscription(meta[c].client, Head(work[c].todo).filter, Head(work[c].todo).info)
      OBVIOUS
    <3>2. tasks' = tasks \/ DOMAIN tasks' = DOMAIN tasks \cup {u}
      BY <2>1, <3>1, SubscribeFilterTasks
    <3>3. u.op = "save_subscription"
      BY <3>1 DEF SaveSubscription
    <3> QED BY <3>2, <3>3 DEF SafeInTransit
  <2>2. ASSUME NEW u, DOMAIN tasks' = DOMAIN tasks \cup {u},
               SessionSaved(u) \/ MessageSaved(u) \/ MessageDropped(u)
        PROVE  t.op # "delete_in_flight"
    <3>1. u.op # "delete_in_flight"
      BY <2>2 DEF SessionSaved, MessageSaved, MessageDropped, SaveSession, SaveInFlight
    <3> QED BY <2>2, <3>1 DEF SafeInTransit
  <2>3. t \in DOMAIN tasks => t.op # "delete_in_flight"
    BY DEF SafeInTransit
  <2> QED BY <1>1, <2>1, <2>2, <2>3, KeptTaskSteps DEF dbVars
<1>3. ASSUME NEW w \in InTransit'
      PROVE  /\ w \in DOMAIN tasks' \/ InRow(w)'
             /\ \A t \in DOMAIN tasks' :
                  t.op = "save_in_flight" /\ t.client = w.client /\ t.pid = w.pid => t = w
  <2>1. Transits(w, sessions', in_flight')
    BY TransitFacts
  <2>2. /\ w.op = "save_in_flight" /\ w = SaveInFlight(w.client, w.pid, w.msg)
        /\ w.msg = in_flight'[sessions'[w.client]][w.pid]
    BY <2>1, WriteFields
  <2>3. ASSUME NEW t \in DOMAIN tasks', t \notin DOMAIN tasks, t.op = "save_in_flight",
               t.client = w.client, t.pid = w.pid
        PROVE  t = w
    <3>1. Transits(t, sessions', in_flight')
      BY <2>3, NewWrite
    <3>2. /\ t = SaveInFlight(t.client, t.pid, t.msg)
          /\ t.msg = in_flight'[sessions'[t.client]][t.pid]
      BY <3>1, WriteFields
    <3> QED BY <2>2, <2>3, <3>2
  <2>4. CASE Transits(w, sessions, in_flight)
    <3>1. w \in InTransit
      BY <2>4, TransitFacts
    <3>2. ~ Stop
      <4>1. Stop => DOMAIN sessions' = {}
        BY DEF Stop
      <4> QED BY <2>1, <4>1 DEF Transits
    <3>3. ~ \E t \in DOMAIN tasks : Overwrites(t, w)
      BY <3>1 DEF SafeInTransit, Overwrites
    <3>4. w \in DOMAIN tasks' \/ InRow(w)'
      BY <2>2, <3>1, <3>2, <3>3, WriteStays DEF SafeInTransit
    <3> QED BY <2>3, <3>1, <3>4 DEF SafeInTransit
  <2>5. CASE w \in DOMAIN tasks'
    BY <2>2, <2>5 DEF OneWritePerId
  <2>6. CASE RestoreInFlight /\ InRow(w)'
    <3>1. ~ Listening /\ tasks' = tasks
      BY <2>6 DEF RestoreInFlight, Listening, dbVars
    <3>2. DOMAIN tasks' = {}
      BY <3>1 DEF KeptSessions
    <3> QED BY <2>6, <3>2
  <2> QED BY <2>1, <2>4, <2>5, <2>6, NewTransit
<1> QED BY <1>2, <1>3 DEF SafeInTransit

\* The reuse of ids by a later session is all that stands between a message in
\* transit and the database: while no two writes of different messages wait
\* under one client and packet id, and nothing is acknowledged, every message
\* in transit is in its row or about to be (save_in_flight, get_next_packet_id,
\* load_all_in_flight).
THEOREM SoleWritesRecoverable ==
  Lasting /\ PubAcks = {} => (Spec /\ []OneWritePerId => []TransitRecoverable)
<1> SUFFICES ASSUME Lasting, PubAcks = {}
             PROVE  Spec /\ []OneWritePerId => []TransitRecoverable
  OBVIOUS
<1> DEFINE Durable == DeliveryInv /\ KeptSessions /\ KeptMessages /\ SafeInTransit
<1>1. Init => Durable
  <2> SUFFICES ASSUME Init PROVE SafeInTransit
    BY InitDelivery, InitKept
  <2>1. DOMAIN tasks = {} /\ DOMAIN sessions = {}
    BY DEF Init, EmptyBag, SetToBag
  <2>2. InTransit = {}
    BY <2>1 DEF InTransit
  <2> QED BY <2>1, <2>2 DEF SafeInTransit
<1>2. Inv /\ Durable /\ OneWritePerId' /\ [Next]_vars => Durable'
  <2> SUFFICES ASSUME Inv, Durable, OneWritePerId', [Next]_vars PROVE Durable'
    OBVIOUS
  <2>1. DeliveryInv'
    BY NextDelivery
  <2>2. KeptSessions'
    BY KeptSessionsStep DEF DeliveryInv
  <2>3. KeptMessages'
    BY KeptMessagesStep DEF DeliveryInv
  <2>4. SafeInTransit'
    BY SafeStep DEF DeliveryInv
  <2> QED BY <2>1, <2>2, <2>3, <2>4
<1>3. Durable => TransitRecoverable
  BY DEF SafeInTransit, TransitRecoverable, Lost
<1> HIDE DEF Durable
<1> QED BY <1>1, <1>2, <1>3, Invariance, PTL DEF Spec

-----------------------------------------------------------------------------
(* The answer means delivered.  The invariant counts, for each client that *)
(* is present, the copies in its channel and the subscriptions to come.    *)

\* How often a message is in a channel.
CopiesOf(s, msg) == Cardinality({i \in DOMAIN s : s[i].type = "PUBLISH" /\ s[i].msg = msg})

LEMMA CopiesAre ==
  ASSUME NEW c, NEW msg
  PROVE  Copies(c, msg) = CopiesOf(out[c], msg) /\ Copies(c, msg)' = CopiesOf(out'[c], msg)
<1>1. {i \in Packets(c, "PUBLISH") : out[c][i].msg = msg}
        = {i \in DOMAIN out[c] : out[c][i].type = "PUBLISH" /\ out[c][i].msg = msg}
  BY DEF Packets
<1>2. {i \in Packets(c, "PUBLISH") : out[c][i].msg = msg}'
        = {i \in DOMAIN out'[c] : out'[c][i].type = "PUBLISH" /\ out'[c][i].msg = msg}
  BY DEF Packets
<1> QED BY <1>1, <1>2 DEF Copies, CopiesOf

LEMMA CopiesNat ==
  ASSUME NEW s, IsSequence(s), NEW msg
  PROVE  CopiesOf(s, msg) \in Nat
<1>1. PICK n \in Nat : DOMAIN s = 1 .. n
  <2>1. PICK S : s \in Seq(S)
    BY DEF IsSequence
  <2> QED BY <2>1
<1>2. PICK A : A = {i \in DOMAIN s : s[i].type = "PUBLISH" /\ s[i].msg = msg}
  OBVIOUS
<1>3. A \in SUBSET (1 .. n)
  BY <1>1, <1>2
<1>4. IsFiniteSet(1 .. n)
  BY FS_Interval
<1>5. IsFiniteSet(A)
  BY <1>3, <1>4, FS_Subset
<1>6. Cardinality(A) \in Nat
  BY <1>5, FS_CardinalityType
<1> QED BY <1>2, <1>6 DEF CopiesOf

LEMMA CopiesAppended ==
  ASSUME NEW s, NEW p, NEW t, Extended(s, p, t), NEW msg
  PROVE  /\ p.type = "PUBLISH" /\ p.msg = msg => CopiesOf(t, msg) = CopiesOf(s, msg) + 1
         /\ ~ (p.type = "PUBLISH" /\ p.msg = msg) => CopiesOf(t, msg) = CopiesOf(s, msg)
<1>2. PICK n \in Nat : /\ n = Len(s) /\ DOMAIN s = 1 .. n /\ DOMAIN t = 1 .. n + 1
                       /\ t[n + 1] = p /\ \A i \in 1 .. n : t[i] = s[i]
  BY DEF Extended
<1>3. PICK A, B : /\ A = {i \in DOMAIN s : s[i].type = "PUBLISH" /\ s[i].msg = msg}
                  /\ B = {i \in DOMAIN t : t[i].type = "PUBLISH" /\ t[i].msg = msg}
  OBVIOUS
<1>4. A \in SUBSET (1 .. n)
  BY <1>2, <1>3
<1>5. IsFiniteSet(A)
  <2>1. IsFiniteSet(1 .. n)
    BY FS_Interval
  <2> QED BY <1>4, <2>1, FS_Subset
<1>6. n + 1 \notin A
  BY <1>4
<1>7. CASE p.type = "PUBLISH" /\ p.msg = msg
  <2>1. B = A \cup {n + 1}
    BY <1>2, <1>3, <1>7
  <2>2. Cardinality(B) = Cardinality(A) + 1
    BY <1>5, <1>6, <2>1, FS_AddElement
  <2> QED BY <1>3, <1>7, <2>2 DEF CopiesOf
<1>8. CASE ~ (p.type = "PUBLISH" /\ p.msg = msg)
  <2>1. B = A
    BY <1>2, <1>3, <1>8
  <2> QED BY <1>3, <1>8, <2>1 DEF CopiesOf
<1> QED BY <1>7, <1>8

\* Which steps change who is registered and who can be written to.
LEMMA RegisterSteps ==
  ASSUME [Next]_vars
  PROVE  \/ /\ UNCHANGED sessions
            /\ writer' = writer \/ \E d \in Conns : writer' = [writer EXCEPT ![d] = FALSE]
         \/ Stop \/ RestoreSessions
         \/ \E d \in Conns, h \in Hellos : Connect(d, h)
         \/ \E d \in Conns : Exit(d)
<1> DEFINE Same == /\ UNCHANGED sessions
                   /\ writer' = writer \/ \E d \in Conns : writer' = [writer EXCEPT ![d] = FALSE]
<1>1. UNCHANGED <<sessVars, writer>> => Same
  BY DEF sessVars
<1>2. ASSUME NEW d \in Conns, WriterFails(d) PROVE Same
  BY <1>2 DEF WriterFails, sessVars
<1> HIDE DEF Same
<1>3. ASSUME NEW c \in Conns, Handle(c) PROVE Same
  BY <1>1, <1>3 DEF Handle, SendConnAck, DeliverNormal, DeliverShared, FinishPublish,
                    SubscribeFilter, FinishSubscribe
<1>4. ASSUME NEW c \in Conns, Receive(c)
      PROVE  Same \/ (\E h \in Hellos : Connect(c, h)) \/ Exit(c)
  BY <1>1, <1>2, <1>4 DEF Receive, NoConnect, Refuse, PublishDenied, Publish, Subscribe, PubAck,
                          PingReq, Disconnect, Panic
<1>5. ASSUME \/ DbStep(RunTask) \/ DbStep(TaskFails) \/ Shutdown \/ RestoreSubscription
             \/ RestoreInFlight \/ UNCHANGED vars
      PROVE  Same
  BY <1>1, <1>5 DEF DbStep, Shutdown, RestoreSubscription, RestoreInFlight, vars, connVars
<1>6. \/ Same \/ Stop \/ RestoreSessions
      \/ \E d \in Conns, h \in Hellos : Connect(d, h)
      \/ \E d \in Conns : Exit(d)
  BY <1>3, <1>4, <1>5 DEF Next, Restore
<1> QED BY <1>6 DEF Same

\* A connection that has started is registered only once, and has one writer.
LEMMA RegisteredBefore ==
  ASSUME Inv, [Next]_vars, NEW s \in Conns, phase[s] # "free",
         NEW client \in DOMAIN sessions', sessions'[client] = s
  PROVE  /\ client \in DOMAIN sessions /\ sessions[client] = s
         /\ writer'[s] => writer[s]
<1>0. s \in DOMAIN writer /\ client # s
  <2>1. DOMAIN sessions' \subseteq Clients
    <3>1. Inv'
      BY NextInv
    <3> QED BY <3>1 DEF Inv, TypeOK, SessionTypes
  <2> QED BY <2>1, BrokerAssumption DEF Inv, TypeOK, ConnTypes
<1>1. CASE /\ UNCHANGED sessions
           /\ writer' = writer \/ \E d \in Conns : writer' = [writer EXCEPT ![d] = FALSE]
  BY <1>0, <1>1
<1>2. CASE Stop
  BY <1>2 DEF Stop
<1>3. CASE RestoreSessions
  BY <1>0, <1>3 DEF RestoreSessions
<1>4. ASSUME NEW d \in Conns, NEW h \in Hellos, Connect(d, h)
      PROVE  /\ client \in DOMAIN sessions /\ sessions[client] = s
             /\ writer'[s] => writer[s]
  <2>1. /\ phase[d] = "free" /\ sessions' = Insert(sessions, Session(h).client, d)
        /\ writer' = [writer EXCEPT ![d] = TRUE]
    BY <1>4 DEF Connect, register_session
  <2> QED BY <1>0, <2>1 DEF Insert
<1>5. ASSUME NEW d \in Conns, Exit(d)
      PROVE  /\ client \in DOMAIN sessions /\ sessions[client] = s
             /\ writer'[s] => writer[s]
  <2>1. /\ sessions' = sessions \/ sessions' = Without(sessions, {meta[d].client})
        /\ writer' = [writer EXCEPT ![d] = FALSE]
    BY <1>5 DEF Exit, remove_session
  <2> QED BY <1>0, <2>1 DEF Without
<1> QED BY <1>1, <1>2, <1>3, <1>4, <1>5, RegisterSteps

\* Whose copies can be counted while the message of c is routed: the clients
\* whose session was registered at the match and still is, with its writer.
Present(c) == {cl \in DOMAIN sessions :
                 /\ cl \in DOMAIN work[c].at /\ sessions[cl] = work[c].at[cl]
                 /\ sessions[cl] \in Conns /\ writer[sessions[cl]]}

\* The groups of the route that had their copy, and who got it.
Served(w) == DOMAIN w.route.shared \ DOMAIN w.shared
ByMembers(w, choice) ==
  \A g \in Served(w) : \E k \in DOMAIN w.route.shared[g] : choice[g] = w.route.shared[g][k].client

\* The copies in the channel of a client and those to come: one for each of
\* its subscriptions and one for each group that chose it.
Balanced(w, choice, client, channel) ==
  CopiesOf(channel, w.msg) + Cardinality(Left(w.normal, client))
    = Cardinality(NormalEntries(w.route, client)) + Cardinality(ChosenBy(Served(w), choice, {client}))

\* What is left of the route is a part of it.
RouteKept(w) ==
  /\ {"msg", "normal", "shared", "route", "at"} \subseteq DOMAIN w
  /\ OneEach(w.normal)
  /\ \A client : Cardinality(NormalEntries(w.route, client)) \in Nat
  /\ IsFiniteSet(DOMAIN w.route.shared)
  /\ DOMAIN w.shared \subseteq DOMAIN w.route.shared
  /\ \A g \in DOMAIN w.shared : w.shared[g] = w.route.shared[g]

RouteCounted(c) ==
  /\ RouteKept(work[c])
  /\ work[c].msg.from = c /\ work[c].msg.n = reads[c]
  /\ \A cl \in DOMAIN work[c].at : work[c].at[cl] \in Conns => phase[work[c].at[cl]] # "free"
  /\ \E choice : /\ ByMembers(work[c], choice)
                 /\ \A cl \in Present(c) : Balanced(work[c], choice, cl, out[sessions[cl]])

\* A message is one that its publisher's connection has read.
MessagesRead ==
  \A c \in Conns : \A i \in Packets(c, "PUBLISH") :
    out[c][i].msg.n \in 0 .. reads[out[c][i].msg.from]

FiniteTables ==
  IsFiniteSet(DOMAIN sessions) /\ IsFiniteSet(DOMAIN db.sessions) /\ IsFiniteSet(DOMAIN trie.shared)

CountInv ==
  MessagesRead /\ FiniteTables /\ \A c \in Conns : phase[c] = "routing" => RouteCounted(c)

\* The tables stay finite.
LEMMA GrownFinite ==
  ASSUME NEW S, IsFiniteSet(S), NEW x, NEW T, T \subseteq S \cup {x}
  PROVE  IsFiniteSet(T)
<1>1. IsFiniteSet(S \cup {x})
  BY FS_AddElement
<1>2. T \in SUBSET (S \cup {x})
  OBVIOUS
<1> QED BY <1>1, <1>2, FS_Subset

LEMMA SessionsFinite ==
  ASSUME FiniteTables, [Next]_vars
  PROVE  IsFiniteSet(DOMAIN sessions')
<1>0. IsFiniteSet(DOMAIN sessions) /\ IsFiniteSet(DOMAIN db.sessions)
  BY DEF FiniteTables
<1>1. CASE UNCHANGED sessions
  BY <1>0, <1>1
<1>2. CASE Stop
  <2>1. DOMAIN sessions' = {}
    BY <1>2 DEF Stop
  <2> QED BY <2>1, FS_EmptySet
<1>3. CASE RestoreSessions
  <2>1. PICK rows : (rows = << >> \/ rows = db.sessions) /\ DOMAIN sessions' = DOMAIN rows
    BY <1>3 DEF RestoreSessions
  <2>2. CASE rows = << >>
    <3>1. DOMAIN sessions' = {}
      BY <2>1, <2>2
    <3> QED BY <3>1, FS_EmptySet
  <2>3. CASE rows = db.sessions
    BY <1>0, <2>1, <2>3
  <2> QED BY <2>1, <2>2, <2>3
<1>4. ASSUME NEW d \in Conns, NEW h \in Hellos, Connect(d, h) PROVE IsFiniteSet(DOMAIN sessions')
  <2>1. sessions' = Insert(sessions, Session(h).client, d)
    BY <1>4 DEF Connect, register_session
  <2>2. DOMAIN sessions' \subseteq DOMAIN sessions \cup {Session(h).client}
    BY <2>1 DEF Insert
  <2> QED BY <1>0, <2>2, GrownFinite
<1>5. ASSUME NEW d \in Conns, Exit(d) PROVE IsFiniteSet(DOMAIN sessions')
  <2>1. sessions' = sessions \/ sessions' = Without(sessions, {meta[d].client})
    BY <1>5 DEF Exit, remove_session
  <2>2. DOMAIN sessions' \in SUBSET DOMAIN sessions
    BY <2>1 DEF Without
  <2> QED BY <1>0, <2>2, FS_Subset
<1> QED BY <1>1, <1>2, <1>3, <1>4, <1>5, RegisterSteps

LEMMA RowsFinite ==
  ASSUME Inv, FiniteTables, [Next]_vars
  PROVE  IsFiniteSet(DOMAIN db'.sessions)
<1>0. /\ IsFiniteSet(DOMAIN db.sessions)
      /\ DOMAIN db = {"sessions", "subscriptions", "in_flight"}
  BY DEF FiniteTables, Inv, SavedWell
<1> SUFFICES \E x : DOMAIN db'.sessions \subseteq DOMAIN db.sessions \cup {x}
  BY <1>0, GrownFinite
<1>1. ASSUME NEW client, NEW which, db' = DeleteStatements(db, client, which)
      PROVE  DOMAIN db'.sessions \subseteq DOMAIN db.sessions
  <2>1. db'.sessions = db.sessions \/ db'.sessions = Without(db.sessions, {client})
    BY <1>1 DEF DeleteStatements
  <2> QED BY <2>1 DEF Without
<1>2. CASE db' = db
  BY <1>2
<1>3. CASE \E client, which : db' = DeleteStatements(db, client, which)
  BY <1>1, <1>3
<1>4. CASE Stop
  BY <1>2, <1>3, <1>4 DEF Stop, LoseTasks
<1>5. CASE DbStep(TaskFails)
  BY <1>2, <1>3, <1>5 DEF DbStep, TaskFails
<1>6. CASE DbStep(RunTask)
  <2>1. PICK t \in DOMAIN tasks : db' = Apply(db, t)
    BY <1>6 DEF DbStep, RunTask
  <2>2. t.op \in {"save_session", "delete_session", "save_subscription",
                  "save_in_flight", "delete_in_flight"}
    BY DEF Inv, SavedWell
  <2>3. CASE t.op = "delete_session"
    BY <1>3, <2>1, <2>3 DEF Apply
  <2>4. CASE t.op = "save_session"
    <3>1. db' = [db EXCEPT !.sessions = Insert(@, t.client, t.row)]
      BY <2>1, <2>4 DEF Apply
    <3>2. db'.sessions = Insert(db.sessions, t.client, t.row)
      BY <1>0, <3>1
    <3>3. DOMAIN db'.sessions \subseteq DOMAIN db.sessions \cup {t.client}
      BY <3>2 DEF Insert
    <3> QED BY <3>3
  <2>5. CASE t.op \in {"save_subscription", "save_in_flight", "delete_in_flight"}
    <3>1. db'.sessions = db.sessions
      BY <1>0, <2>1, <2>5 DEF Apply
    <3> QED BY <3>1
  <2> QED BY <2>2, <2>3, <2>4, <2>5
<1>7. UNCHANGED db \/ Stop \/ DbStep(TaskFails) \/ DbStep(RunTask)
  <2>1. ASSUME NEW c \in Conns, SubscribeFilter(c) PROVE UNCHANGED db
    BY <2>1 DEF SubscribeFilter
  <2> QED BY <2>1, TaskSteps DEF dbVars
<1> QED BY <1>2, <1>4, <1>5, <1>6, <1>7

LEMMA GroupsFinite ==
  ASSUME FiniteTables, [Next]_vars
  PROVE  IsFiniteSet(DOMAIN trie'.shared)
<1>0. IsFiniteSet(DOMAIN trie.shared)
  BY DEF FiniteTables
<1>1. ASSUME NEW client, NEW filter, NEW info, trie' = subscribe(trie, client, filter, info)
      PROVE  IsFiniteSet(DOMAIN trie'.shared)
  <2>1. \E x : DOMAIN trie'.shared \subseteq DOMAIN trie.shared \cup {x}
    BY <1>1 DEF subscribe, Insert
  <2> QED BY <1>0, <2>1, GrownFinite
<1>2. CASE UNCHANGED trie
  BY <1>0, <1>2
<1>3. CASE Stop
  <2>1. DOMAIN trie'.shared = {}
    BY <1>3 DEF Stop, EmptyTrie
  <2> QED BY <2>1, FS_EmptySet
<1>4. CASE RestoreSubscription
  BY <1>1, <1>4 DEF RestoreSubscription
<1>5. ASSUME NEW c \in Conns, SubscribeFilter(c) PROVE IsFiniteSet(DOMAIN trie'.shared)
  BY <1>1, <1>2, <1>5 DEF SubscribeFilter
<1> QED BY <1>2, <1>3, <1>4, <1>5, TrieSteps

\* What becomes of a channel: nothing, one packet that is no PUBLISH, or one
\* of a message that is being routed.
Routed(c, d, p) ==
  /\ phase[d] = "routing" /\ p.type = "PUBLISH" /\ p.msg = work[d].msg
  /\ out'[c] = Append(out[c], p)

LEMMA ChannelSteps ==
  ASSUME Inv, Recorded, [Next]_vars, NEW c \in Conns
  PROVE  Told(c) \/ \E d \in Conns : \E p : (DeliverNormal(d) \/ DeliverShared(d)) /\ Routed(c, d, p)
<1>1. ASSUME NEW d \in Conns, DeliverNormal(d) \/ DeliverShared(d)
      PROVE  Told(c) \/ \E p : Routed(c, d, p)
  <2>1. phase[d] = "routing"
    BY <1>1 DEF DeliverNormal, DeliverShared, Routing
  <2>2. PICK client, info : send_publish_to_client(client, work[d].msg, info)
    BY <1>1 DEF DeliverNormal, DeliverShared
  <2>3. CASE out'[c] = out[c]
    BY <2>3 DEF Told
  <2>4. CASE Sending(c, client, work[d].msg, info)
    <3>1. PICK pid, p : /\ p = [type |-> "PUBLISH", msg |-> work[d].msg, pid |-> pid, info |-> info]
                        /\ out'[c] = Append(out[c], p)
      BY <2>4 DEF Sending
    <3>2. p.type = "PUBLISH" /\ p.msg = work[d].msg
      BY <3>1
    <3> QED BY <2>1, <3>1, <3>2 DEF Routed
  <2> QED BY <2>2, <2>3, <2>4, SendFacts
<1> QED BY <1>1, OutSteps

\* A message is new when it is read, and is read once.
LEMMA ReadsSteps ==
  ASSUME Inv, [Next]_vars, NEW c \in Conns
  PROVE  /\ reads[c] \in Nat /\ reads'[c] \in Nat /\ reads[c] <= reads'[c]
         /\ phase[c] # "open" => reads'[c] = reads[c]
<1>1. reads[c] \in Nat /\ c \in DOMAIN reads
  BY DEF Inv, TypeOK, ConnTypes
<1> SUFFICES UNCHANGED reads \/ \E d \in Conns : Read(d)
  BY <1>1 DEF Read
<1>2. ASSUME NEW d \in Conns, Handle(d) PROVE UNCHANGED reads
  BY <1>2 DEF Handle, SendConnAck, DeliverNormal, DeliverShared, FinishPublish,
              SubscribeFilter, FinishSubscribe
<1>3. ASSUME NEW d \in Conns, Receive(d) PROVE UNCHANGED reads \/ Read(d)
  BY <1>3 DEF Receive, NoConnect, Refuse, Connect, PublishDenied, Publish, Subscribe, PubAck,
              PingReq, Disconnect, Panic, Exit, WriterFails
<1>4. ASSUME \/ DbStep(RunTask) \/ DbStep(TaskFails) \/ Shutdown \/ Stop \/ Restore \/ UNCHANGED vars
      PROVE  UNCHANGED reads
  BY <1>4 DEF DbStep, Shutdown, Stop, Restore, RestoreSessions, RestoreSubscription,
              RestoreInFlight, vars, connVars
<1> QED BY <1>2, <1>3, <1>4 DEF Next

LEMMA MessagesStep ==
  ASSUME Inv, DeliveryInv, CountInv, [Next]_vars
  PROVE  MessagesRead'
<1> DEFINE Known(m) == m.from \in Conns /\ m.n \in 0 .. reads[m.from]
<1>1. ASSUME NEW c \in Conns, NEW i \in Packets(c, "PUBLISH") PROVE Known(out[c][i].msg)
  BY DEF DeliveryInv, Delivered, Written, CountInv, MessagesRead
<1>2. ASSUME NEW d \in Conns, phase[d] = "routing" PROVE Known(work[d].msg)
  <2>1. reads[d] \in Nat
    BY ReadsSteps
  <2>2. work[d].msg.from = d /\ work[d].msg.n = reads[d]
    BY <1>2 DEF CountInv, RouteCounted
  <2> QED BY <2>1, <2>2
<1>3. ASSUME NEW m, Known(m) PROVE m.n \in 0 .. reads'[m.from]
  <2>1. reads[m.from] \in Nat /\ reads'[m.from] \in Nat /\ reads[m.from] <= reads'[m.from]
    BY <1>3, ReadsSteps
  <2> QED BY <1>3, <2>1
<1> SUFFICES ASSUME NEW c \in Conns, NEW i \in Packets(c, "PUBLISH")'
             PROVE  Known(out'[c][i].msg)
  BY <1>3 DEF MessagesRead
<1> HIDE DEF Known
<1>4. PICK p : p = out'[c][i] /\ i \in DOMAIN out'[c] /\ p.type = "PUBLISH"
  BY DEF Packets
<1>5. ASSUME i \in DOMAIN out[c], p = out[c][i] PROVE Known(p.msg)
  <2>1. i \in Packets(c, "PUBLISH")
    BY <1>4, <1>5 DEF Packets
  <2> QED BY <1>1, <1>5, <2>1
<1>6. ASSUME NEW q, q.type = "PUBLISH" => Known(q.msg), out'[c] = Append(out[c], q)
      PROVE  Known(p.msg)
  <2>1. IsSequence(out[c])
    BY DEF DeliveryInv, Recorded
  <2>2. /\ DOMAIN out[c] = 1 .. Len(out[c]) /\ Len(out[c]) \in Nat
        /\ DOMAIN out'[c] = 1 .. Len(out[c]) + 1 /\ out'[c][Len(out[c]) + 1] = q
        /\ \A j \in 1 .. Len(out[c]) : out'[c][j] = out[c][j]
    BY <1>6, <2>1, Appended DEF Extended
  <2>3. CASE i \in 1 .. Len(out[c])
    BY <1>4, <1>5, <2>2, <2>3
  <2>4. CASE i = Len(out[c]) + 1
    BY <1>4, <1>6, <2>2, <2>4
  <2> QED BY <1>4, <2>2, <2>3, <2>4
<1>7. CASE Told(c)
  BY <1>4, <1>5, <1>6, <1>7 DEF Told
<1>8. ASSUME NEW d \in Conns, NEW q, Routed(c, d, q) PROVE Known(p.msg)
  BY <1>2, <1>6, <1>8 DEF Routed
<1> QED BY <1>4, <1>7, <1>8, ChannelSteps DEF DeliveryInv

\* The copies in a channel, when a PUBLISH is sent and when it is not.
LEMMA SentThere ==
  ASSUME Inv, Recorded, NEW client \in DOMAIN sessions, NEW s \in Conns, sessions[client] = s, writer[s],
         NEW msg, NEW info, send_publish_to_client(client, msg, info)
  PROVE  CopiesOf(out'[s], msg) = CopiesOf(out[s], msg) + 1
<1>0. s \in DOMAIN out
  BY DEF Inv, TypeOK, ConnTypes
<1>1. PICK p : /\ p = [type |-> "PUBLISH", msg |-> msg,
                       pid |-> (IF msg.qos > 0 THEN <<PidToUse(s)>> ELSE << >>), info |-> info]
  OBVIOUS
<1>2. out' = Sent(s, p)
  BY <1>1 DEF send_publish_to_client
<1>3. PICK q, t : q = out[s] /\ t = out'[s] /\ t = Append(q, p)
  BY <1>0, <1>2 DEF Sent
<1>4. p.type = "PUBLISH" /\ p.msg = msg
  BY <1>1
<1>5. IsSequence(q)
  BY <1>3 DEF Recorded
<1>6. Extended(q, p, t)
  BY <1>3, <1>5, Appended
<1> QED BY <1>3, <1>4, <1>6, CopiesAppended

LEMMA SentElsewhere ==
  ASSUME Inv, NEW client, NEW s \in Conns, meta[s].client # client,
         NEW msg, NEW info, send_publish_to_client(client, msg, info)
  PROVE  out'[s] = out[s]
BY SendFacts DEF Sending

LEMMA CopiesKept ==
  ASSUME Inv, DeliveryInv, CountInv, [Next]_vars, NEW c \in Conns, phase[c] = "routing",
         ~ DeliverNormal(c), ~ DeliverShared(c), NEW s \in Conns
  PROVE  CopiesOf(out'[s], work[c].msg) = CopiesOf(out[s], work[c].msg)
<1>1. IsSequence(out[s]) /\ Recorded
  BY DEF DeliveryInv, Recorded
<1>2. work[c].msg.from = c
  BY DEF CountInv, RouteCounted
<1>3. ASSUME NEW p, ~ (p.type = "PUBLISH" /\ p.msg = work[c].msg), out'[s] = Append(out[s], p)
      PROVE  CopiesOf(out'[s], work[c].msg) = CopiesOf(out[s], work[c].msg)
  <2>1. PICK q, t, m : q = out[s] /\ t = out'[s] /\ m = work[c].msg /\ t = Append(q, p)
    BY <1>3
  <2>2. Extended(q, p, t)
    BY <1>1, <2>1, Appended
  <2> QED BY <1>3, <2>1, <2>2, CopiesAppended
<1>4. CASE Told(s)
  BY <1>3, <1>4 DEF Told
<1>5. ASSUME NEW d \in Conns, NEW p, DeliverNormal(d) \/ DeliverShared(d), Routed(s, d, p)
      PROVE  CopiesOf(out'[s], work[c].msg) = CopiesOf(out[s], work[c].msg)
  <2>1. d # c
    BY <1>5
  <2>2. work[d].msg.from = d
    BY <1>5 DEF CountInv, RouteCounted, Routed
  <2>3. p.msg # work[c].msg
    BY <1>2, <1>5, <2>1, <2>2 DEF Routed
  <2> QED BY <1>3, <1>5, <2>3 DEF Routed
<1> QED BY <1>1, <1>4, <1>5, ChannelSteps

\* As long as the message of c is routed, nobody becomes present.
LEMMA SameRoute ==
  ASSUME Inv, CountInv, [Next]_vars, NEW c \in Conns, phase[c] = "routing",
         work'[c].msg = work[c].msg, work'[c].at = work[c].at
  PROVE  /\ work'[c].msg.from = c /\ work'[c].msg.n = reads'[c]
         /\ \A cl \in DOMAIN work'[c].at :
              work'[c].at[cl] \in Conns => phase'[work'[c].at[cl]] # "free"
         /\ \A cl \in Present(c)' : /\ cl \in Present(c) /\ sessions'[cl] = sessions[cl]
                                    /\ cl \in DOMAIN sessions
                                    /\ sessions[cl] \in Conns /\ writer[sessions[cl]]
                                    /\ meta[sessions[cl]].client = cl
<1>1. /\ work[c].msg.from = c /\ work[c].msg.n = reads[c]
      /\ \A cl \in DOMAIN work[c].at : work[c].at[cl] \in Conns => phase[work[c].at[cl]] # "free"
  BY DEF CountInv, RouteCounted
<1>2. reads'[c] = reads[c]
  BY ReadsSteps
<1>3. \A d \in Conns : phase[d] # "free" => phase'[d] # "free"
  BY FrameStep DEF Frame
<1>4. ASSUME NEW cl \in Present(c)'
      PROVE  /\ cl \in Present(c) /\ sessions'[cl] = sessions[cl] /\ cl \in DOMAIN sessions
             /\ sessions[cl] \in Conns /\ writer[sessions[cl]]
             /\ meta[sessions[cl]].client = cl
  <2>1. PICK s : /\ s = sessions'[cl] /\ cl \in DOMAIN sessions' /\ s \in Conns /\ writer'[s]
                 /\ cl \in DOMAIN work[c].at /\ s = work[c].at[cl]
    BY DEF Present
  <2>2. phase[s] # "free"
    BY <1>1, <2>1
  <2>3. cl \in DOMAIN sessions /\ sessions[cl] = s /\ writer[s]
    BY <2>1, <2>2, RegisteredBefore
  <2>4. meta[s].client = cl
    BY <2>3 DEF Inv, RegisteredIsLive
  <2> QED BY <2>1, <2>3, <2>4 DEF Present
<1> QED BY <1>1, <1>2, <1>3, <1>4

\* One more group has been served, and chose that client.
ChosenMore(w, choice, v, next, member) ==
  \A client :
    LET before == Cardinality(ChosenBy(Served(w), choice, {client}))
        after  == Cardinality(ChosenBy(Served(v), next, {client}))
    IN  before \in Nat /\ after = IF client = member THEN before + 1 ELSE before

LEMMA OneMoreServed ==
  ASSUME NEW w, NEW v, RouteKept(w), v.route = w.route, NEW g \in DOMAIN w.shared,
         DOMAIN v.shared = DOMAIN w.shared \ {g},
         NEW choice, ByMembers(w, choice), NEW k \in DOMAIN w.shared[g],
         NEW member, member = w.shared[g][k].client
  PROVE  \E next : ByMembers(v, next) /\ ChosenMore(w, choice, v, next, member)
<1>2. PICK next : next = [h \in Served(v) |-> IF h = g THEN member ELSE choice[h]]
  OBVIOUS
<1>3. /\ g \notin Served(w) /\ Served(v) = Served(w) \cup {g}
      /\ g \in DOMAIN w.route.shared /\ w.shared[g] = w.route.shared[g]
      /\ IsFiniteSet(DOMAIN w.route.shared)
  BY DEF RouteKept, Served
<1>4. ByMembers(v, next)
  BY <1>2, <1>3 DEF ByMembers
<1>5. ASSUME NEW client
      PROVE  /\ Cardinality(ChosenBy(Served(w), choice, {client})) \in Nat
             /\ Cardinality(ChosenBy(Served(v), next, {client})) =
                  IF client = member THEN Cardinality(ChosenBy(Served(w), choice, {client})) + 1
                  ELSE Cardinality(ChosenBy(Served(w), choice, {client}))
  <2>1. PICK A, B : /\ A = ChosenBy(Served(w), choice, {client})
                    /\ B = ChosenBy(Served(v), next, {client})
    OBVIOUS
  <2>2. A \in SUBSET (DOMAIN w.route.shared) /\ g \notin A
    BY <1>3, <2>1 DEF ChosenBy, Served
  <2>3. IsFiniteSet(A)
    BY <1>3, <2>2, FS_Subset
  <2>4. Cardinality(A) \in Nat
    BY <2>3, FS_CardinalityType
  <2>5. B = IF client = member THEN A \cup {g} ELSE A
    BY <1>2, <1>3, <2>1 DEF ChosenBy
  <2>6. Cardinality(A \cup {g}) = Cardinality(A) + 1
    BY <2>2, <2>3, FS_AddElement
  <2> QED BY <2>1, <2>4, <2>5, <2>6
<1>6. ChosenMore(w, choice, v, next, member)
  BY <1>5 DEF ChosenMore
<1> QED BY <1>4, <1>6

\* What a step has to establish.
LEMMA CountedNext ==
  ASSUME NEW c \in Conns, NEW v, v = work'[c], RouteKept(v),
         v.msg.from = c, v.msg.n = reads'[c],
         \A cl \in DOMAIN v.at : v.at[cl] \in Conns => phase'[v.at[cl]] # "free",
         NEW choice, ByMembers(v, choice),
         \A cl \in Present(c)' : Balanced(v, choice, cl, out'[sessions'[cl]])
  PROVE  RouteCounted(c)'
BY DEF RouteCounted, RouteKept, ByMembers, Balanced, Served

\* One round of the loop over route.normal: one copy more is in the channel
\* of its client, and one less to come.
LEMMA CountNormal ==
  ASSUME Inv, DeliveryInv, CountInv, [Next]_vars, NEW c \in Conns, DeliverNormal(c)
  PROVE  RouteCounted(c)'
<1>1. phase[c] = "routing" /\ c \in DOMAIN work /\ WorkGranted /\ Recorded
  BY DEF DeliverNormal, Routing, Inv, TypeOK, ConnTypes, DeliveryInv
<1>2. PICK w : w = work[c] /\ RouteGranted(w) /\ RouteKept(w)
  BY <1>1 DEF WorkGranted, CountInv, RouteCounted
<1>3. PICK S : w.normal \in Seq(SUBSET S)
  BY <1>2 DEF RouteGranted
<1>4. PICK choice : /\ ByMembers(w, choice)
                    /\ \A cl \in Present(c) : Balanced(w, choice, cl, out[sessions[cl]])
  BY <1>1, <1>2 DEF CountInv, RouteCounted
<1>5. PICK sub \in Head(w.normal) :
        /\ w.normal # << >> /\ send_publish_to_client(sub.client, w.msg, sub.info)
        /\ LET left == Head(work[c].normal) \ {sub} IN
           work' = [work EXCEPT ![c].normal = IF left = {} THEN Tail(@) ELSE <<left>> \o Tail(@)]
  BY <1>2 DEF DeliverNormal
<1>6. PICK rest : /\ rest = Rest(w.normal, sub)
                  /\ rest = LET left == Head(w.normal) \ {sub} IN
                            IF left = {} THEN Tail(w.normal) ELSE <<left>> \o Tail(w.normal)
  BY DEF Rest
<1>7. PICK v : v = work'[c] /\ v = [w EXCEPT !.normal = rest]
  BY <1>1, <1>2, <1>5, <1>6
<1>8. /\ DOMAIN v = DOMAIN w /\ v.normal = rest /\ v.msg = w.msg /\ v.shared = w.shared
      /\ v.route = w.route /\ v.at = w.at
  BY <1>2, <1>7 DEF RouteKept
<1>9. /\ OneEach(rest)
      /\ \A client : client # sub.client => Left(rest, client) = Left(w.normal, client)
      /\ Cardinality(Left(w.normal, sub.client)) = Cardinality(Left(rest, sub.client)) + 1
  <2>1. OneEach(w.normal)
    BY <1>2 DEF RouteKept
  <2>2. PICK list : list = w.normal /\ list \in Seq(SUBSET S) /\ list # << >> /\ OneEach(list)
    BY <1>3, <1>5, <2>1
  <2>3. sub \in Head(list) /\ rest = Rest(list, sub)
    BY <1>5, <1>6, <2>2
  <2>4. /\ OneEach(rest)
        /\ \A client : client # sub.client => Left(rest, client) = Left(list, client)
        /\ Cardinality(Left(list, sub.client)) = Cardinality(Left(rest, sub.client)) + 1
    BY <2>2, <2>3, LeftStep
  <2> QED BY <2>2, <2>4
<1>10. rest \in Seq(SUBSET S)
  BY <1>3, <1>5, <1>6, NormalLeft
<1>11. RouteKept(v)
  BY <1>2, <1>8, <1>9 DEF RouteKept
<1>12. Served(v) = Served(w) /\ ByMembers(v, choice)
  BY <1>4, <1>8 DEF Served, ByMembers
<1>13. work'[c].msg = work[c].msg /\ work'[c].at = work[c].at
  BY <1>2, <1>7, <1>8
<1>14. ASSUME NEW cl \in Present(c)' PROVE Balanced(v, choice, cl, out'[sessions'[cl]])
  <2>1. PICK s \in Conns : /\ s = sessions[cl] /\ s = sessions'[cl] /\ writer[s]
                           /\ cl \in Present(c) /\ cl \in DOMAIN sessions /\ meta[s].client = cl
    BY <1>1, <1>13, SameRoute
  <2>2. PICK a, b : a = CopiesOf(out[s], w.msg) /\ b = CopiesOf(out'[s], w.msg)
    OBVIOUS
  <2>3. PICK l, r : l = Cardinality(Left(w.normal, cl)) /\ r = Cardinality(Left(rest, cl))
    OBVIOUS
  <2>4. a \in Nat /\ r \in Nat
    BY <1>1, <1>10, <2>2, <2>3, CopiesNat, LeftAtFirst DEF Recorded
  <2>5. b + r = a + l
    <3>1. CASE cl = sub.client
      <4>1. b = a + 1
        BY <1>1, <1>5, <2>1, <2>2, <3>1, SentThere
      <4>2. l = r + 1
        BY <1>9, <2>3, <3>1
      <4> QED BY <2>4, <4>1, <4>2
    <3>2. CASE cl # sub.client
      <4>1. out'[s] = out[s]
        BY <1>5, <2>1, <3>2, SentElsewhere
      <4>2. l = r
        BY <1>9, <2>3, <3>2
      <4> QED BY <2>2, <4>1, <4>2
    <3> QED BY <3>1, <3>2
  <2>6. Balanced(w, choice, cl, out[s])
    BY <1>4, <2>1
  <2>7. a + l = Cardinality(NormalEntries(w.route, cl)) + Cardinality(ChosenBy(Served(w), choice, {cl}))
    BY <2>2, <2>3, <2>6 DEF Balanced
  <2>8. Balanced(v, choice, cl, out'[s])
    BY <1>8, <1>12, <2>2, <2>3, <2>5, <2>7 DEF Balanced
  <2> QED BY <2>1, <2>8
<1>15. /\ v.msg.from = c /\ v.msg.n = reads'[c]
       /\ \A cl \in DOMAIN v.at : v.at[cl] \in Conns => phase'[v.at[cl]] # "free"
  <2>1. /\ work'[c].msg.from = c /\ work'[c].msg.n = reads'[c]
        /\ \A cl \in DOMAIN work'[c].at :
             work'[c].at[cl] \in Conns => phase'[work'[c].at[cl]] # "free"
    BY <1>1, <1>13, SameRoute
  <2> QED BY <1>7, <2>1
<1> QED BY <1>7, <1>11, <1>12, <1>14, <1>15, CountedNext

\* One round of the loop over route.shared: one group more has chosen.
LEMMA CountShared ==
  ASSUME Inv, DeliveryInv, CountInv, [Next]_vars, NEW c \in Conns, DeliverShared(c)
  PROVE  RouteCounted(c)'
<1>1. /\ phase[c] = "routing" /\ c \in DOMAIN work /\ WorkGranted /\ Recorded /\ CountersNat
  BY DEF DeliverShared, Routing, Inv, TypeOK, ConnTypes, DeliveryInv
<1>2. PICK w : w = work[c] /\ RouteGranted(w) /\ RouteKept(w)
  BY <1>1 DEF WorkGranted, CountInv, RouteCounted
<1>3. PICK S : w.normal \in Seq(SUBSET S)
  BY <1>2 DEF RouteGranted
<1>4. PICK choice : /\ ByMembers(w, choice)
                    /\ \A cl \in Present(c) : Balanced(w, choice, cl, out[sessions[cl]])
  BY <1>1, <1>2 DEF CountInv, RouteCounted
<1>5. PICK g \in DOMAIN w.shared :
        /\ LET sub == w.shared[g][(Counter(g) % Len(w.shared[g])) + 1] IN
           send_publish_to_client(sub.client, w.msg, sub.info)
        /\ work' = [work EXCEPT ![c].shared = Without(@, {g})]
  BY <1>2 DEF DeliverShared
<1>6. PICK k : k = (Counter(g) % Len(w.shared[g])) + 1 /\ k \in DOMAIN w.shared[g]
  <2>1. PICK T, subs : subs = w.shared[g] /\ subs # << >> /\ subs \in Seq(T)
    BY <1>2, <1>5 DEF RouteGranted
  <2>2. Len(subs) \in Nat \ {0} /\ DOMAIN subs = 1 .. Len(subs)
    BY <2>1, EmptySeq
  <2>3. Counter(g) \in Nat
    BY <1>1 DEF CountersNat, Counter
  <2>4. (Counter(g) % Len(subs)) + 1 \in 1 .. Len(subs)
    BY <2>2, <2>3
  <2> QED BY <2>1, <2>2, <2>4
<1>7. PICK sub : sub = w.shared[g][k] /\ send_publish_to_client(sub.client, w.msg, sub.info)
  BY <1>5, <1>6
<1>8. PICK v : v = work'[c] /\ v = [w EXCEPT !.shared = Without(w.shared, {g})]
  BY <1>1, <1>2, <1>5
<1>9. /\ DOMAIN v = DOMAIN w /\ v.normal = w.normal /\ v.msg = w.msg
      /\ v.shared = Without(w.shared, {g}) /\ v.route = w.route /\ v.at = w.at
  BY <1>2, <1>8 DEF RouteKept
<1>10. /\ DOMAIN v.shared = DOMAIN w.shared \ {g}
       /\ \A h \in DOMAIN v.shared : v.shared[h] = w.shared[h]
  BY <1>9 DEF Without
<1>11. RouteKept(v)
  BY <1>2, <1>9, <1>10 DEF RouteKept
<1>12. PICK next : ByMembers(v, next) /\ ChosenMore(w, choice, v, next, sub.client)
  <2>1. /\ RouteKept(w) /\ v.route = w.route /\ DOMAIN v.shared = DOMAIN w.shared \ {g}
        /\ ByMembers(w, choice)
    BY <1>2, <1>4, <1>9, <1>10
  <2>2. PICK member : member = sub.client /\ member = w.shared[g][k].client
    BY <1>7
  <2>3. \E next : ByMembers(v, next) /\ ChosenMore(w, choice, v, next, member)
    BY <1>5, <1>6, <2>1, <2>2, OneMoreServed
  <2> QED BY <2>2, <2>3
<1>13. work'[c].msg = work[c].msg /\ work'[c].at = work[c].at
  BY <1>2, <1>8, <1>9
<1>14. ASSUME NEW cl \in Present(c)' PROVE Balanced(v, next, cl, out'[sessions'[cl]])
  <2>1. PICK s \in Conns : /\ s = sessions[cl] /\ s = sessions'[cl] /\ writer[s]
                           /\ cl \in Present(c) /\ cl \in DOMAIN sessions /\ meta[s].client = cl
    BY <1>1, <1>13, SameRoute
  <2>2. PICK a, b : a = CopiesOf(out[s], w.msg) /\ b = CopiesOf(out'[s], w.msg)
    OBVIOUS
  <2>3. PICK l, n : l = Cardinality(Left(w.normal, cl)) /\ n = Cardinality(NormalEntries(w.route, cl))
    OBVIOUS
  <2>4. PICK x, y : /\ x = Cardinality(ChosenBy(Served(w), choice, {cl}))
                    /\ y = Cardinality(ChosenBy(Served(v), next, {cl}))
                    /\ x \in Nat /\ y = IF cl = sub.client THEN x + 1 ELSE x
    BY <1>12 DEF ChosenMore
  <2>5. Balanced(w, choice, cl, out[s])
    BY <1>4, <2>1
  <2>6. a + l = n + x
    BY <2>2, <2>3, <2>4, <2>5 DEF Balanced
  <2>7. a \in Nat /\ l \in Nat
    BY <1>1, <1>3, <2>2, <2>3, CopiesNat, LeftAtFirst DEF Recorded
  <2>8. n \in Nat
    BY <1>2, <2>3 DEF RouteKept
  <2>9. b + l = n + y
    <3>1. CASE cl = sub.client
      <4>1. b = a + 1
        BY <1>1, <1>7, <2>1, <2>2, <3>1, SentThere
      <4> QED BY <2>4, <2>6, <2>7, <2>8, <3>1, <4>1
    <3>2. CASE cl # sub.client
      <4>1. out'[s] = out[s]
        BY <1>7, <2>1, <3>2, SentElsewhere
      <4> QED BY <2>2, <2>4, <2>6, <3>2, <4>1
    <3> QED BY <3>1, <3>2
  <2>10. Balanced(v, next, cl, out'[s])
    BY <1>9, <2>2, <2>3, <2>4, <2>9 DEF Balanced
  <2> QED BY <2>1, <2>10
<1>15. /\ v.msg.from = c /\ v.msg.n = reads'[c]
       /\ \A cl \in DOMAIN v.at : v.at[cl] \in Conns => phase'[v.at[cl]] # "free"
  <2>1. /\ work'[c].msg.from = c /\ work'[c].msg.n = reads'[c]
        /\ \A cl \in DOMAIN work'[c].at :
             work'[c].at[cl] \in Conns => phase'[work'[c].at[cl]] # "free"
    BY <1>1, <1>13, SameRoute
  <2> QED BY <1>8, <2>1
<1> QED BY <1>8, <1>11, <1>12, <1>14, <1>15, CountedNext

\* A handler that begins to route: nothing was sent yet.
LEMMA GroupsOfRoute ==
  ASSUME FiniteTables, NEW m, NEW topic, NEW E, Matched(E, trie, topic, m)
  PROVE  IsFiniteSet(DOMAIN m.shared)
<1>1. PICK D : D = {h \in DOMAIN trie.shared : Matches(h[1], topic)}
  OBVIOUS
<1>2. IsFiniteSet(D)
  <2>1. D \in SUBSET DOMAIN trie.shared
    BY <1>1
  <2> QED BY <2>1, FS_Subset DEF FiniteTables
<1>3. PICK T : T = DOMAIN m.shared /\ T = {k[2] : k \in D}
  BY <1>1 DEF Matched
<1>4. [h \in D |-> h[2]] \in Surjection(D, T)
  BY <1>3 DEF Surjection
<1>5. IsFiniteSet(T)
  BY <1>2, <1>4, FS_Surjection
<1> QED BY <1>3, <1>5

LEMMA NoCopies ==
  ASSUME Inv, Delivered, MessagesRead, NEW c \in Conns, NEW s \in Conns,
         NEW msg, msg.from = c, msg.n = reads[c] + 1
  PROVE  CopiesOf(out[s], msg) = 0
<1>1. reads[c] \in Nat
  BY DEF Inv, TypeOK, ConnTypes
<1>2. ASSUME NEW i \in DOMAIN out[s], out[s][i].type = "PUBLISH", out[s][i].msg = msg PROVE FALSE
  <2>1. i \in Packets(s, "PUBLISH")
    BY <1>2 DEF Packets
  <2>2. msg.n \in 0 .. reads[c]
    BY <1>2, <2>1 DEF MessagesRead
  <2> QED BY <1>1, <2>2
<1>3. {i \in DOMAIN out[s] : out[s][i].type = "PUBLISH" /\ out[s][i].msg = msg} = {}
  BY <1>2
<1> QED BY <1>3, FS_EmptySet DEF CopiesOf

LEMMA CountPublish ==
  ASSUME Inv, DeliveryInv, CountInv, [Next]_vars, NEW c \in Conns,
         NEW p \in Publishes, Publish(c, p)
  PROVE  RouteCounted(c)'
<1>1. /\ c \in DOMAIN work /\ c \in DOMAIN phase /\ c \in DOMAIN reads /\ reads[c] \in Nat
  BY DEF Inv, TypeOK, ConnTypes
<1>2. PICK msg, m, v :
        /\ msg = [from |-> c, n |-> reads[c] + 1, topic |-> p.topic, qos |-> p.qos]
        /\ m = match_topic(trie, p.topic)
        /\ v = [kind |-> "route", msg |-> msg, normal |-> m.normal,
                shared |-> m.shared, route |-> m, at |-> sessions]
        /\ work' = [work EXCEPT ![c] = v]
  BY DEF Publish
<1>3. /\ v = work'[c] /\ {"msg", "normal", "shared", "route", "at"} \subseteq DOMAIN v
      /\ v.msg = msg /\ v.normal = m.normal /\ v.shared = m.shared /\ v.route = m /\ v.at = sessions
      /\ msg.from = c /\ msg.n = reads[c] + 1
  BY <1>1, <1>2
<1>4. /\ UNCHANGED <<sessions, out, writer>> /\ reads'[c] = reads[c] + 1
      /\ phase' = [phase EXCEPT ![c] = "routing"]
  BY <1>1 DEF Publish, Read, sessVars
<1>5. GoodTrie(Levels, Clients, Infos, trie)
  BY DEF DeliveryInv, TrieGranted
<1>6. Matched(Entry(Clients, Infos), trie, p.topic, m)
  <2>1. p.topic \in Seq(Levels)
    BY PacketAssumption
  <2> QED BY <1>2, <1>5, <2>1, MatchFacts
<1>7. PICK list : list = m.normal /\ list \in Seq(SUBSET trie.subs)
                  /\ \A i \in 1 .. Len(list) : \A r, s \in list[i] : r.node = s.node
  BY <1>6 DEF Matched
<1>8. OneEach(list)
  <2>1. \A i \in 1 .. Len(list) : list[i] \subseteq trie.subs
    BY <1>7
  <2>2. \A r, s \in trie.subs : r.node = s.node /\ r.client = s.client => r = s
    BY <1>5 DEF GoodTrie
  <2> QED BY <1>7, <2>1, <2>2 DEF OneEach
<1>9. ASSUME NEW client
      PROVE  /\ Cardinality(NormalEntries(m, client)) \in Nat
             /\ Cardinality(Left(list, client)) = Cardinality(NormalEntries(m, client))
  <2>1. NormalEntries(m, client) = Having(list, client)
    <3>1. DOMAIN list = 1 .. Len(list) /\ list = m.normal
      BY <1>7
    <3> QED BY <3>1, Zenon DEF NormalEntries, Having
  <2>2. PICK T : list \in Seq(T)
    BY <1>7
  <2> QED BY <2>1, <2>2, LeftAtFirst
<1>10. IsFiniteSet(DOMAIN m.shared)
  BY <1>6, GroupsOfRoute DEF CountInv
<1>11. RouteKept(v)
  BY <1>3, <1>7, <1>8, <1>9, <1>10 DEF RouteKept
<1>12. Served(v) = {}
  BY <1>3 DEF Served
<1>13. ByMembers(v, << >>)
  BY <1>12 DEF ByMembers
<1>14. /\ v.msg.from = c /\ v.msg.n = reads'[c]
       /\ \A cl \in DOMAIN v.at : v.at[cl] \in Conns => phase'[v.at[cl]] # "free"
  <2>1. ASSUME NEW cl \in DOMAIN sessions, sessions[cl] \in Conns PROVE phase'[sessions[cl]] # "free"
    <3>1. sessions[cl] # cl
      BY <2>1, BrokerAssumption DEF Inv, TypeOK, SessionTypes
    <3>2. phase[sessions[cl]] # "free"
      BY <2>1, <3>1 DEF Inv, RegisteredIsLive, Held, Alive
    <3> QED BY <1>1, <1>4, <3>2
  <2> QED BY <1>3, <1>4, <2>1
<1>15. ASSUME NEW cl \in Present(c)' PROVE Balanced(v, << >>, cl, out'[sessions'[cl]])
  <2>1. PICK s \in Conns : s = sessions[cl]
    BY <1>4 DEF Present
  <2>2. CopiesOf(out[s], msg) = 0
    BY <1>3, NoCopies DEF DeliveryInv, CountInv
  <2>3. Cardinality(ChosenBy(Served(v), << >>, {cl})) = 0
    <3>1. ChosenBy(Served(v), << >>, {cl}) = {}
      BY <1>12 DEF ChosenBy
    <3> QED BY <3>1, FS_EmptySet
  <2>4. PICK n \in Nat : n = Cardinality(Left(list, cl)) /\ n = Cardinality(NormalEntries(m, cl))
    BY <1>9
  <2>5. 0 + n = n + 0
    OBVIOUS
  <2>6. Balanced(v, << >>, cl, out[s])
    BY <1>3, <1>7, <2>2, <2>3, <2>4, <2>5 DEF Balanced
  <2> QED BY <1>4, <2>1, <2>6
<1> QED BY <1>3, <1>11, <1>13, <1>14, <1>15, CountedNext

\* Whatever the others do: the copies of another message are not counted.
LEMMA CountOther ==
  ASSUME Inv, DeliveryInv, CountInv, [Next]_vars, NEW c \in Conns,
         phase[c] = "routing", work'[c] = work[c], ~ DeliverNormal(c), ~ DeliverShared(c)
  PROVE  RouteCounted(c)'
<1>1. PICK v : v = work[c] /\ v = work'[c]
  OBVIOUS
<1>2. RouteKept(v)
  BY <1>1 DEF CountInv, RouteCounted
<1>3. PICK choice : /\ ByMembers(v, choice)
                    /\ \A cl \in Present(c) : Balanced(v, choice, cl, out[sessions[cl]])
  BY <1>1 DEF CountInv, RouteCounted
<1>4. /\ work'[c].msg.from = c /\ work'[c].msg.n = reads'[c]
      /\ \A cl \in DOMAIN work'[c].at :
           work'[c].at[cl] \in Conns => phase'[work'[c].at[cl]] # "free"
  BY SameRoute
<1>5. ASSUME NEW cl \in Present(c)' PROVE Balanced(v, choice, cl, out'[sessions'[cl]])
  <2>1. PICK s \in Conns : s = sessions[cl] /\ s = sessions'[cl] /\ cl \in Present(c)
    BY SameRoute
  <2>2. CopiesOf(out'[s], v.msg) = CopiesOf(out[s], v.msg)
    BY <1>1, CopiesKept
  <2>3. Balanced(v, choice, cl, out[s])
    BY <1>3, <2>1
  <2>4. Balanced(v, choice, cl, out'[s])
    BY <2>2, <2>3 DEF Balanced
  <2> QED BY <2>1, <2>4
<1> QED BY <1>1, <1>2, <1>3, <1>4, <1>5, CountedNext

LEMMA CountStep ==
  ASSUME Inv, DeliveryInv, CountInv, [Next]_vars
  PROVE  CountInv'
<1>1. ASSUME NEW c \in Conns, phase'[c] = "routing" PROVE RouteCounted(c)'
  <2>1. CASE DeliverNormal(c)
    BY <2>1, CountNormal
  <2>2. CASE DeliverShared(c)
    BY <2>2, CountShared
  <2>3. CASE phase'[c] = phase[c] /\ work'[c] = work[c] /\ ~ DeliverNormal(c) /\ ~ DeliverShared(c)
    BY <1>1, <2>3, CountOther
  <2>4. ASSUME NEW p \in Publishes, Publish(c, p) PROVE RouteCounted(c)'
    BY <2>4, CountPublish
  <2>5. ASSUME (\E r \in Subscribes : Subscribe(c, r)) \/ SubscribeFilter(c) PROVE FALSE
    <3>1. c \in DOMAIN phase
      BY DEF Inv, TypeOK, ConnTypes
    <3> QED BY <1>1, <2>5, <3>1 DEF Subscribe, SubscribeFilter
  <2> QED BY <1>1, <2>1, <2>2, <2>3, <2>4, <2>5, WorkSteps
<1>2. FiniteTables'
  BY SessionsFinite, RowsFinite, GroupsFinite DEF CountInv, FiniteTables
<1> QED BY <1>1, <1>2, MessagesStep DEF CountInv

LEMMA InitCount == ASSUME Init PROVE CountInv
<1>1. \A c \in Conns : out[c] = << >> /\ phase[c] = "free"
  BY DEF Init
<1>2. MessagesRead
  BY <1>1 DEF MessagesRead, Packets
<1>3. FiniteTables
  <2>1. DOMAIN sessions = {} /\ DOMAIN db.sessions = {} /\ DOMAIN trie.shared = {}
    BY DEF Init, EmptyDb, EmptyTrie
  <2> QED BY <2>1, FS_EmptySet DEF FiniteTables
<1> QED BY <1>1, <1>2, <1>3 DEF CountInv

\* A handler that was routing goes on only when both loops have ended.
LEMMA RoutingEnds ==
  ASSUME Inv, [Next]_vars, NEW c \in Conns, phase[c] = "routing", phase'[c] = "open"
  PROVE  RoutingDone(c)
<1>0. c \in DOMAIN phase
  BY DEF Inv, TypeOK, ConnTypes
<1>1. ASSUME UNCHANGED phase PROVE FALSE
  BY <1>1
<1>2. ASSUME NEW d \in Conns, NEW v, phase' = [phase EXCEPT ![d] = v], phase[d] # "routing" \/ v # "open"
      PROVE  FALSE
  BY <1>0, <1>2
<1>3. ASSUME NEW d \in Conns, FinishPublish(d) PROVE RoutingDone(c)
  <2>1. phase' = [phase EXCEPT ![d] = "open"] /\ RoutingDone(d)
    BY <1>3 DEF FinishPublish
  <2>2. d = c
    BY <1>0, <2>1
  <2> QED BY <2>1, <2>2
<1>4. ASSUME NEW d \in Conns, Handle(d), ~ FinishPublish(d) PROVE FALSE
  BY <1>1, <1>2, <1>4 DEF Handle, SendConnAck, DeliverNormal, DeliverShared, SubscribeFilter, FinishSubscribe
<1>5. ASSUME NEW d \in Conns, Receive(d) PROVE FALSE
  BY <1>1, <1>2, <1>5 DEF Receive, NoConnect, Refuse, Connect, PublishDenied, Publish, Subscribe,
                          PubAck, PingReq, Disconnect, Panic, Exit, WriterFails
<1>6. ASSUME DbStep(RunTask) \/ DbStep(TaskFails) \/ Shutdown \/ Restore \/ UNCHANGED vars PROVE FALSE
  BY <1>1, <1>6 DEF DbStep, Shutdown, Restore, RestoreSessions, RestoreSubscription,
                    RestoreInFlight, vars, connVars
<1>7. ASSUME Stop PROVE FALSE
  BY <1>7 DEF Stop
<1> QED BY <1>3, <1>4, <1>5, <1>6, <1>7 DEF Next

\* Then each client that is present has its copies, and the shared ones are
\* as many as the groups that chose somebody present.
LEMMA DoneIsDelivered ==
  ASSUME Inv, DeliveryInv, CountInv, NEW c \in Conns, phase[c] = "routing", RoutingDone(c)
  PROVE  FullyDelivered(c)
<1>1. PICK w : w = work[c] /\ RouteKept(w) /\ w.normal = << >> /\ DOMAIN w.shared = {}
  BY DEF RoutingDone, CountInv, RouteCounted
<1>2. PICK G : G = DOMAIN w.route.shared /\ IsFiniteSet(G) /\ Served(w) = G
  BY <1>1 DEF RouteKept, Served
<1>3. PICK choice : /\ ByMembers(w, choice)
                    /\ \A cl \in Present(c) : Balanced(w, choice, cl, out[sessions[cl]])
  BY <1>1 DEF CountInv, RouteCounted
<1>4. PICK here : here = {cl \in Clients : /\ cl \in DOMAIN w.at /\ cl \in DOMAIN sessions
                                           /\ sessions[cl] = w.at[cl] /\ sessions[cl] \in Conns}
  OBVIOUS
<1>5. PICK members : members = UNION {{w.route.shared[g][k].client : k \in DOMAIN w.route.shared[g]}
                                        : g \in DOMAIN w.route.shared}
  OBVIOUS
<1>6. PICK f : f = [cl \in here |-> Copies(sessions[cl], w.msg) - Cardinality(NormalEntries(w.route, cl))]
  OBVIOUS
<1>7. ASSUME NEW cl \in here, writer[sessions[cl]]
      PROVE  f[cl] = Cardinality(ChosenBy(G, choice, {cl})) /\ f[cl] \in Nat
  <2>1. PICK s \in Conns : s = sessions[cl] /\ cl \in Present(c)
    BY <1>1, <1>4, <1>7 DEF Present
  <2>2. PICK a, n, x : /\ a = CopiesOf(out[s], w.msg) /\ n = Cardinality(NormalEntries(w.route, cl))
                       /\ x = Cardinality(ChosenBy(G, choice, {cl}))
    OBVIOUS
  <2>3. Cardinality(Left(w.normal, cl)) = 0
    <3>1. Left(w.normal, cl) = {}
      BY <1>1 DEF Left
    <3> QED BY <3>1, FS_EmptySet
  <2>4. a + 0 = n + x
    <3>1. Balanced(w, choice, cl, out[s])
      BY <1>3, <2>1
    <3> QED BY <1>2, <2>2, <2>3, <3>1 DEF Balanced
  <2>5. a \in Nat
    BY <2>2, CopiesNat DEF DeliveryInv, Recorded
  <2>6. n \in Nat
    BY <1>1, <2>2 DEF RouteKept
  <2>7. x \in Nat
    <3>1. PICK A : A = ChosenBy(G, choice, {cl}) /\ A \in SUBSET G
      BY DEF ChosenBy
    <3>2. IsFiniteSet(A)
      BY <1>2, <3>1, FS_Subset
    <3> QED BY <2>2, <3>1, <3>2, FS_CardinalityType
  <2>8. f[cl] = a - n
    BY <1>6, <2>1, <2>2, CopiesAre
  <2> QED BY <2>2, <2>4, <2>5, <2>6, <2>7, <2>8
<1>8. ASSUME \A cl \in here : writer[sessions[cl]]
      PROVE  /\ SumFunction(f) <= Cardinality(G)
             /\ members \subseteq here => SumFunction(f) = Cardinality(G)
  <2>1. IsFiniteSet(here)
    <3>1. here \in SUBSET DOMAIN sessions
      BY <1>4
    <3> QED BY <3>1, FS_Subset DEF CountInv, FiniteTables
  <2>2. f = [cl \in here |-> Cardinality(ChosenBy(G, choice, {cl}))]
    BY <1>6, <1>7, <1>8
  <2>3. SumFunction(f) = Cardinality(ChosenBy(G, choice, here))
    BY <1>2, <2>1, <2>2, SumOfChosen
  <2>4. PICK A : A = ChosenBy(G, choice, here) /\ A \in SUBSET G
    BY DEF ChosenBy
  <2>5. Cardinality(A) <= Cardinality(G)
    BY <1>2, <2>4, FS_Subset
  <2>6. ASSUME members \subseteq here PROVE A = G
    <3>1. ASSUME NEW g \in G PROVE choice[g] \in here
      <4>1. PICK k \in DOMAIN w.route.shared[g] : choice[g] = w.route.shared[g][k].client
        BY <1>2, <1>3 DEF ByMembers
      <4>2. choice[g] \in members
        BY <1>2, <1>5, <4>1
      <4> QED BY <2>6, <4>2
    <3> QED BY <2>4, <3>1 DEF ChosenBy
  <2> QED BY <2>3, <2>4, <2>5, <2>6
<1>9. \A cl \in here : writer[sessions[cl]] =>
        Copies(sessions[cl], w.msg) - Cardinality(NormalEntries(w.route, cl)) >= 0
  <2> SUFFICES ASSUME NEW cl \in here, writer[sessions[cl]]
               PROVE  Copies(sessions[cl], w.msg) - Cardinality(NormalEntries(w.route, cl)) >= 0
    OBVIOUS
  <2>1. PICK x \in Nat : x = f[cl]
    BY <1>7
  <2>2. x >= 0
    OBVIOUS
  <2> QED BY <1>6, <2>1, <2>2
<1> QED BY <1>1, <1>2, <1>4, <1>5, <1>6, <1>8, <1>9 DEF FullyDelivered

\* The handler of a PUBLISH goes on, and queues its PUBACK, only when every
\* session that was registered at the match and still is, with its writer,
\* has one copy for each of its subscriptions, and each shared group one:
\* for every set of clients, connections and routes, whatever other
\* connections come, go or are taken over while the loops of route_publish
\* run, and across restarts.
THEOREM AnswerMeansDelivered == Spec => AckMeansDelivered
<1>1. Init => CountInv
  BY InitCount
<1>2. Inv /\ DeliveryInv /\ CountInv /\ [Next]_vars => CountInv'
  BY CountStep
<1>3. Inv /\ DeliveryInv /\ CountInv /\ [Next]_vars =>
        [\A c \in Conns : (phase[c] = "routing" /\ phase'[c] = "open") => FullyDelivered(c)]_vars
  BY RoutingEnds, DoneIsDelivered
<1>4. Init => DeliveryInv
  BY InitDelivery
<1>5. Inv /\ DeliveryInv /\ [Next]_vars => DeliveryInv'
  BY NextDelivery
<1> QED BY <1>1, <1>2, <1>3, <1>4, <1>5, Invariance, PTL DEF Spec, AckMeansDelivered

-----------------------------------------------------------------------------
(* Who takes a session out of the table.                                   *)

\* No two connections of one client at a time.
Sole ==
  \A c, d \in Conns :
    phase[c] \in Held /\ phase[d] \in Held /\ meta[c].client = meta[d].client => c = d

\* A process that is down has no sessions.
NoneWhenDown == running = "down" => DOMAIN sessions = {}

LEMMA NoneWhenDownStep == ASSUME NoneWhenDown, [Next]_vars PROVE NoneWhenDown'
<1>1. CASE Stop
  BY <1>1 DEF Stop, NoneWhenDown
<1>2. ASSUME ~ Stop, running' = "down" PROVE running = "down" /\ UNCHANGED sessions
  <2>1. ~ RestoreSessions /\ running = "down"
    BY <1>2, BootSteps DEF RestoreSessions, RestoreSubscription, RestoreInFlight, Shutdown, bootVars
  <2>2. ~ Listening
    BY <2>1 DEF Listening
  <2> QED BY <1>2, <2>1, <2>2, RegisterSteps DEF Connect, Exit
<1> QED BY <1>1, <1>2 DEF NoneWhenDown

\* Short of the end of the process, only the end of a connection of the same
\* client takes the session of a connection out of the table.
NamesakeEnds(cl) ==
  \E d \in Conns : phase[d] = "open" /\ phase'[d] = "closed" /\ meta[d].client = cl

OnlyNamesakesRemove ==
  [][\A cl \in DOMAIN sessions :
       (sessions[cl] \in Conns /\ running' # "down" /\ cl \notin DOMAIN sessions') =>
         NamesakeEnds(cl)]_vars

LEMMA RemovedByNamesake ==
  ASSUME Inv, NoneWhenDown, [Next]_vars, NEW cl \in DOMAIN sessions,
         running' # "down", cl \notin DOMAIN sessions'
  PROVE  NamesakeEnds(cl)
<1>1. ~ Stop
  BY DEF Stop
<1>2. ~ RestoreSessions
  BY DEF RestoreSessions, NoneWhenDown
<1>3. ASSUME NEW d \in Conns, NEW h \in Hellos, Connect(d, h) PROVE FALSE
  BY <1>3 DEF Connect, register_session, Insert
<1>4. ASSUME NEW d \in Conns, Exit(d) PROVE NamesakeEnds(cl)
  <2>1. d \in DOMAIN phase
    BY DEF Inv, TypeOK, ConnTypes
  <2>2. /\ phase[d] = "open" /\ phase' = [phase EXCEPT ![d] = "closed"]
        /\ sessions' = sessions \/ sessions' = Without(sessions, {meta[d].client})
    BY <1>4 DEF Exit, remove_session
  <2>3. meta[d].client = cl
    BY <2>2 DEF Without
  <2> QED BY <2>1, <2>2, <2>3 DEF NamesakeEnds
<1> QED BY <1>1, <1>2, <1>3, <1>4, RegisterSteps

\* The session of a connection is taken out of the table only by the end of a
\* connection with the same client identifier, its own or another one
\* (remove_session, called at the end of handle_connection with the name of
\* the client), by nothing a client sends and no failure.
THEOREM RemovedOnlyByNamesakes == Spec => OnlyNamesakesRemove
<1>1. Init => NoneWhenDown
  BY DEF Init, NoneWhenDown
<1>2. NoneWhenDown /\ [Next]_vars => NoneWhenDown'
  BY NoneWhenDownStep
<1>3. Inv /\ NoneWhenDown /\ [Next]_vars =>
        [\A cl \in DOMAIN sessions :
           (sessions[cl] \in Conns /\ running' # "down" /\ cl \notin DOMAIN sessions') =>
             NamesakeEnds(cl)]_vars
  BY RemovedByNamesake
<1> QED BY <1>1, <1>2, <1>3, Invariance, PTL DEF Spec, OnlyNamesakesRemove

\* So the loss of a registered session that the table suffers after a
\* takeover (remove_session looks at the name only) needs two connections of
\* one client at the same time: without them SessionOutlivesPredecessor holds.
THEOREM SoleSessionsLast == Spec /\ []Sole => SessionOutlivesPredecessor
<1>1. Init => NoneWhenDown
  BY DEF Init, NoneWhenDown
<1>2. NoneWhenDown /\ [Next]_vars => NoneWhenDown'
  BY NoneWhenDownStep
<1>3. Inv /\ Sole /\ NoneWhenDown /\ [Next]_vars =>
        [\A cl \in DOMAIN sessions :
           /\ sessions[cl] \in Conns /\ running' # "down"
           => \/ phase'[sessions[cl]] = "closed"
              \/ cl \in DOMAIN sessions']_vars
  <2> SUFFICES ASSUME Inv, Sole, NoneWhenDown, [Next]_vars, NEW cl \in DOMAIN sessions,
                      sessions[cl] \in Conns, running' # "down", cl \notin DOMAIN sessions'
               PROVE  phase'[sessions[cl]] = "closed"
    OBVIOUS
  <2>1. PICK d \in Conns : phase[d] = "open" /\ phase'[d] = "closed" /\ meta[d].client = cl
    BY RemovedByNamesake DEF NamesakeEnds
  <2>2. PICK s \in Conns : s = sessions[cl] /\ s # cl
    BY BrokerAssumption DEF Inv, TypeOK, SessionTypes
  <2>3. meta[s].client = cl /\ phase[s] \in Held
    BY <2>2 DEF Inv, RegisteredIsLive
  <2>4. s = d
    BY <2>1, <2>3 DEF Sole, Held, Alive
  <2> QED BY <2>1, <2>2, <2>4
<1> QED BY <1>1, <1>2, <1>3, Invariance, PTL DEF Spec, SessionOutlivesPredecessor
=============================================================================
