-------------------------- MODULE BridgeProperties --------------------------
(***************************************************************************)
(* What the bridge keeps of every message on its way through queue, hand   *)
(* and network.                                                            *)
(***************************************************************************)
EXTENDS Bridge, SequencesExt

TypeOK ==
  /\ phase \in {"start", "waiting", "subscribing", "running", "writing", "backoff", "pause", "ended"}
  /\ backoff \in {5, 10, 20, 40, 60}
  /\ failures \in 0 .. MaxFailures
  /\ published \in 0 .. MaxLocal /\ alerts \in 0 .. MaxRemote
  /\ ToSet(queue) \subseteq [topic : Topics, id : 1 .. published]
  /\ hand \in [1 .. Len(hand) -> 1 .. published]
  /\ hand # << >> <=> phase = "writing"
  /\ ToSet(uplink) \subseteq 1 .. published /\ ToSet(remote) \subseteq 1 .. published
  /\ ToSet(downlink) \subseteq 1 .. alerts /\ ToSet(routed) \subseteq 1 .. alerts
  /\ uplink # << >> \/ downlink # << >> => phase \in {"running", "writing"}
  /\ stuck \subseteq {"await", "read"}
  /\ "read" \in stuck => phase \in {"running", "writing"}
  /\ "await" \in stuck => phase \in {"start", "subscribing", "running", "writing"}
  /\ phase = "ended" => queue = << >>

\* What the remote broker gets are local messages, in the order in which
\* they were published and none of them twice, however often the connection
\* breaks in the middle of a write (route_publish, connect_and_run_bridge).
Up == INSTANCE LossyChannel WITH published <- published, received <- remote
ForwardedInOrder == Up!Spec

\* The same for the remote messages that are routed locally.
Down == INSTANCE LossyChannel WITH published <- alerts, received <- routed
RoutedInOrder == Down!Spec

\* What nothing in the bridge ever ends: an await without a timeout that stays
\* without an answer, and a task that has panicked (bridge.rs has neither a
\* timeout around its connection and its writes nor anything that starts the
\* task of start_bridge_engine again).
Hangs == <>[]Awaits
Dead  == <>(phase = "ended")

\* A message under sensor/ waits in the queue through all failures until it
\* is taken, and from then on reaches the remote broker unless something else
\* goes wrong: only what was taken can be lost, as long as the task lives and
\* no await hangs for ever (local_rx outlives connect_and_run_bridge).
Waiting(k) == \E i \in DOMAIN queue : queue[i] = [topic |-> "sensor", id |-> k]
QueuedIsForwarded ==
  \/ Hangs \/ Dead
  \/ \A k \in 1 .. MaxLocal :
       /\ Waiting(k) ~> (hand = <<k>>)
       /\ (hand = <<k>> /\ failures = MaxFailures) ~> (\E i \in DOMAIN remote : remote[i] = k)

\* Everything that is queued is taken in the end, also what is not forwarded
\* and also while nothing of the remote broker can be read any more, unless an
\* await hangs for ever (connect_and_run_bridge).
QueueDrains == Hangs \/ <>[](queue = << >>)

\* After any failed attempts the bridge is connected in the end, and from then
\* on reads what arrives, unless one of three things has happened: the peer
\* leaves an await without an answer for ever, a frame was taken for half of
\* one and the connection never ends, or the decoder has panicked (the loop of
\* start_bridge_engine).
Connected == phase \in {"running", "writing"}
Reconnects ==
  \/ <>[](Connected /\ stuck = {})
  \/ Hangs \/ <>[](Connected /\ stuck = {"read"}) \/ Dead
=============================================================================
