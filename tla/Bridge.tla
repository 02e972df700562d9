------------------------------- MODULE Bridge -------------------------------
(***************************************************************************)
(* The bridge to a remote broker (bridge.rs) and what hands messages to it *)
(* (route_publish in session.rs).                                          *)
(*                                                                         *)
(* A task connects, waits for its CONNACK, subscribes, and then works off  *)
(* three sources: what the remote broker sends, the queue of local         *)
(* messages, and a timer for pings.  An error ends the attempt; the queue  *)
(* outlives it.  Pings change nothing here but may fail like every write.  *)
(* Three things are no errors: an await that has no timeout may stay       *)
(* without an answer, a complete frame may be taken for half of one, and   *)
(* the decoder may panic, which ends the task.                             *)
(*                                                                         *)
(* The remote broker and the network are external.  Messages of either     *)
(* direction are numbered as they are published.                           *)
(***************************************************************************)
EXTENDS Integers, Sequences

CONSTANTS
  LocalClients,  \* names under which local messages are published
  Topics,        \* topics of local messages, as far as the prefix tells them apart
  MaxLocal,      \* bound: local messages
  MaxRemote,     \* bound: remote messages
  MaxFailures    \* bound: what goes wrong, after which the remote broker is well

ASSUME BridgeAssumption ==
  MaxLocal \in Nat /\ MaxRemote \in Nat /\ MaxFailures \in Nat

VARIABLES
  phase,     \* "start", "waiting" (for CONNACK), "subscribing", "running",
             \* "writing", "backoff", "pause" or, after a panic, "ended"
  backoff,   \* seconds
  stuck,     \* "await": one without a timeout has no answer; "read": what is
             \* in the buffer is taken for half a packet for ever
  failures,
  published, \* local messages published
  queue,     \* the channel of bridge_sender: local messages not yet taken
  hand,      \* the message being written
  uplink,    \* written, not yet at the remote broker
  remote,    \* numbers of the local messages that the remote broker got
  alerts,    \* remote messages published
  downlink,  \* sent by the remote broker, not yet read
  routed     \* numbers of the remote messages routed to local subscribers

up    == <<published, queue, hand, uplink, remote>>
down  == <<alerts, downlink, routed>>
attempt == <<backoff, stuck, failures>>
vars  == <<phase, attempt, up, down>>

Init ==
  /\ phase = "start" /\ backoff = 5 /\ stuck = {} /\ failures = 0
  /\ published = 0 /\ queue = << >> /\ hand = << >> /\ uplink = << >> /\ remote = << >>
  /\ alerts = 0 /\ downlink = << >> /\ routed = << >>

-----------------------------------------------------------------------------
(* The ends of the bridge.                                                 *)

BridgeName == "bridge_client"

\* route_publish of the broker: everything goes to the bridge, except what
\* comes from its own name.  Once its task has ended, the queue is closed
\* and the error of send is ignored.
LocalPublish(from, topic) ==
  /\ published < MaxLocal
  /\ published' = published + 1
  /\ queue' = IF from # BridgeName /\ phase # "ended"
              THEN Append(queue, [topic |-> topic, id |-> published + 1]) ELSE queue
  /\ UNCHANGED <<phase, attempt, hand, uplink, remote, down>>

\* External: a message on alerts/# is published at the remote broker, which
\* may send it to the bridge once it has its SUBSCRIBE.
RemotePublish ==
  /\ alerts < MaxRemote
  /\ alerts' = alerts + 1
  /\ \/ UNCHANGED downlink
     \/ phase \in {"running", "writing"} /\ downlink' = Append(downlink, alerts + 1)
  /\ UNCHANGED <<phase, attempt, up, routed>>

\* External: the remote broker gets what was written.
RemoteReceive ==
  /\ uplink # << >>
  /\ remote' = Append(remote, Head(uplink)) /\ uplink' = Tail(uplink)
  /\ UNCHANGED <<phase, attempt, published, queue, hand, down>>

-----------------------------------------------------------------------------
(* connect_and_run_bridge.                                                 *)

Awaits == "await" \in stuck

\* TCP, TLS, and the CONNECT is written.
Connect ==
  /\ phase = "start" /\ ~ Awaits /\ phase' = "waiting"
  /\ UNCHANGED <<attempt, up, down>>

\* One read brings a CONNACK with reason 0.
ConnAck ==
  /\ phase = "waiting" /\ phase' = "subscribing"
  /\ UNCHANGED <<attempt, up, down>>

Subscribe ==
  /\ phase = "subscribing" /\ ~ Awaits /\ phase' = "running"
  /\ UNCHANGED <<attempt, up, down>>

\* Faulty version: the last message stays in the buffer.
ReadRemote_KeepsLast ==
  /\ phase = "running" /\ stuck = {}
  /\ \E n \in 1 .. Len(downlink) :
       /\ routed' = routed \o SubSeq(downlink, 1, n)
       /\ downlink' = SubSeq(downlink, n, Len(downlink))
  /\ UNCHANGED <<phase, attempt, up, alerts>>

\* The first branch of select: a read brings one or more messages, all of
\* which are routed under the name of the bridge.
ReadRemote ==
  /\ phase = "running" /\ stuck = {}
  /\ \E n \in 1 .. Len(downlink) :
       /\ routed' = routed \o SubSeq(downlink, 1, n)
       /\ downlink' = SubSeq(downlink, n + 1, Len(downlink))
  /\ UNCHANGED <<phase, attempt, up, alerts>>

\* Faulty version: what is not forwarded is left in the queue.
TakeLocal_LeavesOthers ==
  /\ phase = "running" /\ ~ Awaits /\ queue # << >> /\ Head(queue).topic = "sensor"
  /\ queue' = Tail(queue)
  /\ phase' = "writing" /\ hand' = <<Head(queue).id>>
  /\ UNCHANGED <<attempt, published, uplink, remote, down>>

\* The second branch: a message is taken from the queue; only those under
\* sensor/ are forwarded.
TakeLocal ==
  /\ phase = "running" /\ ~ Awaits /\ queue # << >>
  /\ queue' = Tail(queue)
  /\ IF Head(queue).topic = "sensor"
     THEN phase' = "writing" /\ hand' = <<Head(queue).id>>
     ELSE UNCHANGED <<phase, hand>>
  /\ UNCHANGED <<attempt, published, uplink, remote, down>>

Written ==
  /\ phase = "writing" /\ ~ Awaits /\ phase' = "running"
  /\ uplink' = uplink \o hand /\ hand' = << >>
  /\ UNCHANGED <<attempt, published, queue, remote, down>>

\* Faulty version: what was in hand goes back to the queue.
Unsent_Requeued == queue' = [i \in 1 .. Len(hand) |-> [topic |-> "sensor", id |-> hand[i]]] \o queue

\* Faulty version: the receiver belongs to the attempt.
Unsent_QueueLost == queue' = << >>

\* What was taken from the queue is gone, what is in it stays.
Unsent == UNCHANGED queue

\* The stream is gone, and with it what was not read; of what was written or
\* is being written, some first part arrives.
StreamLost ==
  /\ \E n \in 0 .. Len(uplink \o hand) : remote' = remote \o SubSeq(uplink \o hand, 1, n)
  /\ hand' = << >> /\ uplink' = << >> /\ downlink' = << >>
  /\ stuck' = {}

GoesWrong == failures < MaxFailures /\ failures' = failures + 1

\* The errors of an attempt: no connection, no CONNACK, another packet or half
\* of it in the first read, a refusal, a failed read or write, bytes that
\* decode_packet refuses, and the end of the connection, which is an error too.
Fail ==
  /\ phase \in {"start", "waiting", "subscribing", "running", "writing"}
  /\ GoesWrong /\ phase' = "backoff"
  /\ StreamLost /\ Unsent
  /\ UNCHANGED <<backoff, published, alerts, routed>>

\* External: the peer does not answer a connection attempt, a handshake or a
\* write (of a ping while "running").  Only the CONNACK's read has a timeout.
Hang ==
  /\ phase \in {"start", "subscribing", "running", "writing"} /\ ~ Awaits
  /\ GoesWrong /\ stuck' = stuck \cup {"await"}
  /\ UNCHANGED <<phase, backoff, up, down>>

\* External: it answers after all.
Resume ==
  /\ Awaits /\ stuck' = stuck \ {"await"}
  /\ UNCHANGED <<phase, backoff, failures, up, down>>

\* A complete frame with a field that is too short is Incomplete: it stays in
\* the buffer, and all that comes behind it.
Stall ==
  /\ phase = "running" /\ stuck = {}
  /\ GoesWrong /\ stuck' = {"read"}
  /\ UNCHANGED <<phase, backoff, up, down>>

\* decode_packet panics at a CONNECT frame whose will is longer than the frame
\* and at nothing else: the task ends, and the queue with it.
Panic ==
  /\ phase \in {"waiting", "running"} /\ stuck = {}
  /\ GoesWrong /\ phase' = "ended"
  /\ StreamLost /\ queue' = << >>
  /\ UNCHANGED <<backoff, published, alerts, routed>>

-----------------------------------------------------------------------------
(* The loop of start_bridge_engine.  An attempt never returns Ok, so the   *)
(* branch that resets the backoff is never taken.                          *)

\* Faulty version: without the upper limit.
Doubled_NoLimit(b) == IF b < 600 THEN 2 * b ELSE b

Doubled(b) == IF 2 * b < 60 THEN 2 * b ELSE 60

BackoffOver ==
  /\ phase = "backoff" /\ phase' = "pause"
  /\ backoff' = Doubled(backoff)
  /\ UNCHANGED <<stuck, failures, up, down>>

\* Faulty version: at the limit no further attempt is made.
PauseOver_GivesUp ==
  /\ phase = "pause" /\ backoff < 60 /\ phase' = "start"
  /\ UNCHANGED <<attempt, up, down>>

PauseOver ==
  /\ phase = "pause" /\ phase' = "start"
  /\ UNCHANGED <<attempt, up, down>>

Next ==
  \/ \E from \in LocalClients, topic \in Topics : LocalPublish(from, topic)
  \/ RemotePublish \/ RemoteReceive
  \/ Connect \/ ConnAck \/ Subscribe
  \/ ReadRemote \/ TakeLocal \/ Written
  \/ Fail \/ Hang \/ Resume \/ Stall \/ Panic
  \/ BackoffOver \/ PauseOver

Spec == Init /\ [][Next]_vars

\* The timers run out, and select, which picks among its ready branches at
\* random, does not pass over one for ever.  The remote broker answers, unless
\* it is one of the answers that Hang says may be missing: Resume is not fair,
\* and neither is Fail, since nothing ends an await that has no timeout.
Fairness ==
  /\ WF_vars(Connect) /\ WF_vars(ConnAck) /\ WF_vars(Subscribe)
  /\ SF_vars(ReadRemote) /\ SF_vars(TakeLocal) /\ WF_vars(Written)
  /\ WF_vars(RemoteReceive) /\ WF_vars(BackoffOver) /\ WF_vars(PauseOver)

FairSpec == Spec /\ Fairness
=============================================================================
