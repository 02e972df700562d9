----------------------------- MODULE Persistence ----------------------------
(***************************************************************************)
(* persistence.rs: the SQLite database.  A table is a function from its    *)
(* primary key to the rest of the row.  No caller waits for a write: it    *)
(* spawns a task that takes the connection's mutex some time later, so the *)
(* writes that are pending form a bag and run in any order.                *)
(***************************************************************************)
EXTENDS Naturals, Sequences, Maps, Bags

\* BagAdd and BagRemove.
BagOps == INSTANCE BagsExt

VARIABLES db,       \* the three tables: what survives the process
          tasks     \* the writes that were spawned and have not run

EmptyDb == [sessions |-> << >>, subscriptions |-> << >>, in_flight |-> << >>]

SaveSession(client, row)            == [op |-> "save_session", client |-> client, row |-> row]
DeleteSession(client)               == [op |-> "delete_session", client |-> client]
SaveSubscription(client, filter, i) == [op |-> "save_subscription", client |-> client,
                                        filter |-> filter, info |-> i]
SaveInFlight(client, pid, msg)      == [op |-> "save_in_flight", client |-> client,
                                        pid |-> pid, msg |-> msg]
DeleteInFlight(client, pid)         == [op |-> "delete_in_flight", client |-> client, pid |-> pid]

\* tokio::spawn(async move { db.op(..).await })
Spawn(task) == tasks' = BagOps!BagAdd(tasks, task)

OfClient(table, client) == {k \in DOMAIN table : k[1] = client}

\* delete_session is three statements, each its own transaction.
DeleteStatements(d, client, which) ==
  [sessions      |-> IF 1 \in which THEN Without(d.sessions, {client}) ELSE d.sessions,
   subscriptions |-> IF 2 \in which THEN Without(d.subscriptions, OfClient(d.subscriptions, client))
                     ELSE d.subscriptions,
   in_flight     |-> IF 3 \in which THEN Without(d.in_flight, OfClient(d.in_flight, client))
                     ELSE d.in_flight]

\* save_session, delete_session, save_subscription, save_in_flight and
\* delete_in_flight, when every statement succeeds.
Apply(d, t) ==
  CASE t.op = "save_session" ->
         [d EXCEPT !.sessions = Insert(@, t.client, t.row)]
    [] t.op = "delete_session" ->
         DeleteStatements(d, t.client, {1, 2, 3})
    [] t.op = "save_subscription" ->
         [d EXCEPT !.subscriptions = Insert(@, <<t.client, t.filter>>, t.info)]
    [] t.op = "save_in_flight" ->
         [d EXCEPT !.in_flight = Insert(@, <<t.client, t.pid>>, t.msg)]
    [] t.op = "delete_in_flight" ->
         [d EXCEPT !.in_flight = Without(@, {<<t.client, t.pid>>})]

\* Faulty version: a write that finds the connection busy is dropped.
RunTask_TryLock ==
  \E t \in DOMAIN tasks :
    /\ db' = IF DOMAIN tasks = {t} THEN Apply(db, t) ELSE db
    /\ tasks' = BagOps!BagRemove(tasks, t)

\* A spawned write gets the mutex and runs.
RunTask ==
  \E t \in DOMAIN tasks :
    /\ db' = Apply(db, t)
    /\ tasks' = BagOps!BagRemove(tasks, t)

\* An error of SQLite is logged or dropped: the write is not done and not
\* tried again; of delete_session any of the statements may fail.
TaskFails ==
  \E t \in DOMAIN tasks :
    /\ IF t.op = "delete_session"
       THEN \E done \in SUBSET {1, 2, 3} :
              done # {1, 2, 3} /\ db' = DeleteStatements(db, t.client, done)
       ELSE db' = db
    /\ tasks' = BagOps!BagRemove(tasks, t)

\* The process dies: what has not run is gone, and a delete_session that was
\* running has done the first n of its statements.
LoseTasks ==
  /\ \/ db' = db
     \/ \E t \in DOMAIN tasks, n \in 1 .. 2 :
          t.op = "delete_session" /\ db' = DeleteStatements(db, t.client, 1 .. n)
  /\ tasks' = EmptyBag
=============================================================================
