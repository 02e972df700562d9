----------------------------- MODULE Connection -----------------------------
(***************************************************************************)
(* One connection, byte by byte: handle_connection and its writer task     *)
(* (main.rs) over a TCP socket or the WebSocket adapter (websocket.rs),    *)
(* with the packets of the codec.  What a packet does to the broker is in  *)
(* Broker; here it is the answers that count.                              *)
(*                                                                         *)
(* A client sends the items of a script: a frame of bytes and the packet   *)
(* it means, if it means one.  Outgoing packets are kept whole.            *)
(***************************************************************************)
EXTENDS Packets

CONSTANTS
  Scripts,       \* the sequences of items a client may send
  Transports,    \* "tcp", "ws"
  Chunks,        \* bytes that one segment or one WebSocket frame brings
  Rooms,         \* room for bytes that a read of the adapter may find
  Denied,        \* topics and filters that the client may not use
  MaxDeliveries  \* bound on what other clients publish to this one

ASSUME ConnectionAssumption ==
  /\ \A s \in Scripts : s \in Seq(ToSet(s)) /\ \A i \in DOMAIN s : s[i].bytes \in Seq(0 .. 255)
  /\ Chunks \subseteq Nat \ {0} /\ Rooms \subseteq Nat \ {0}

VARIABLES
  script, transport,
  input,         \* bytes sent and not yet taken from the network
  read_buffer,   \* WebSocket adapter: the bytes from read_cursor on
  read_buf,      \* bytes read and not yet decoded
  pc,            \* where handle_connection is
  fresh,         \* nothing was read after the read that brought CONNECT
  log,           \* packets handled
  queue,         \* the session's channel
  hand,          \* what the writer task is writing
  writer,        \* where the writer task is
  write_buffer,  \* WebSocket adapter: written, not yet given to the sink
  sink,          \* WebSocket library: given, not yet flushed
  wire,          \* what reached the client
  sent           \* what was ever given to the channel

reading == <<script, transport, input, read_buffer, read_buf, fresh, log>>
writing == <<queue, hand, writer, write_buffer, sink, wire>>
vars    == <<reading, pc, writing, sent>>

-----------------------------------------------------------------------------
(* Packets and their answers.                                              *)

ConnAck(reason) == [type |-> "ConnAck", session_present |-> FALSE,
                    reason_code |-> reason, properties |-> NoProperties]
PubAck(pid, reason) == [type |-> "PubAck", packet_id |-> pid, reason_code |-> reason,
                        properties |-> NoProperties]
SubAck(pid, codes) == [type |-> "SubAck", packet_id |-> pid, properties |-> NoProperties,
                       reason_codes |-> codes]
PingResp == [type |-> "PingResp"]

\* A message of another client, put into the channel by route_publish.
Delivery(n) == [type |-> "Delivery", number |-> n]

BadCredentials == 134
NotAuthorized  == 135

\* The arms of process_client_packet, as far as they answer.
Replies(p) ==
  CASE p.type = "Publish" /\ p.qos = 1 ->
         <<PubAck(p.packet_id[1], IF p.topic \in Denied THEN NotAuthorized ELSE 0)>>
    [] p.type = "Subscribe" ->
         <<SubAck(p.packet_id,
                  [i \in DOMAIN p.subscriptions |->
                     IF p.subscriptions[i].topic_filter \in Denied THEN NotAuthorized
                     ELSE p.subscriptions[i].options % 4])>>
    [] p.type = "PingReq" -> <<PingResp>>
    [] OTHER -> << >>

\* One of username and password without the other is never let in.
HalfCredentials(p) == Len(p.username) # Len(p.password)

-----------------------------------------------------------------------------
(* Reading.                                                                *)

Smaller(m, n) == IF m < n THEN m ELSE n
Upto(s, n)   == Take(s, Smaller(n, Len(s)))
Beyond(s, n) == Drop(s, Smaller(n, Len(s)))

\* Faulty version: what a frame holds beyond the room is dropped.
poll_read_NoCursor ==
  {[got |-> Upto(Upto(input, n), m), left |-> << >>, rest |-> Beyond(input, n)] :
     n \in Chunks, m \in Rooms}

\* poll_read of the adapter: what is left of the last frame first, then the
\* next frame that is not empty.
poll_read ==
  IF read_buffer # << >>
  THEN {[got |-> Upto(read_buffer, m), left |-> Beyond(read_buffer, m), rest |-> input] :
          m \in Rooms}
  ELSE {[got |-> Upto(Upto(input, n), m), left |-> Beyond(Upto(input, n), m),
         rest |-> Beyond(input, n)] : n \in Chunks, m \in Rooms}

\* External: a read of a TCP socket.
socket_read ==
  {[got |-> Upto(input, n), left |-> << >>, rest |-> Beyond(input, n)] : n \in Chunks}

NoMoreBytes == input = << >> /\ read_buffer = << >>

\* read_buf: appends at least one byte.
ReadSome ==
  /\ ~NoMoreBytes
  /\ \E r \in (IF transport = "ws" THEN poll_read ELSE socket_read) :
       /\ read_buf' = read_buf \o r.got
       /\ read_buffer' = r.left
       /\ input' = r.rest

-----------------------------------------------------------------------------
(* The channel to the writer task.                                         *)

\* Faulty version: a channel of one, and messages that do not fit are dropped.
Send_Bounded(messages) ==
  /\ sent' = sent \o messages
  /\ queue' = IF queue # << >> \/ writer \in {"closed", "aborted"} THEN queue ELSE queue \o messages

\* The receiver is gone when the task has ended; send then fails unnoticed.
Send(messages) ==
  /\ sent' = sent \o messages
  /\ queue' = IF writer \in {"closed", "aborted"} THEN queue ELSE queue \o messages

\* remove_session and writer_task.abort(): what is not on the wire is lost.
Exit ==
  /\ pc' = "ended"
  /\ writer' = IF writer = "closed" THEN "closed" ELSE "aborted"
  /\ queue' = << >> /\ hand' = << >> /\ write_buffer' = << >> /\ sink' = << >>
  /\ UNCHANGED <<wire, sent>>

-----------------------------------------------------------------------------
(* handle_connection.                                                      *)

Init ==
  /\ script \in Scripts /\ transport \in Transports
  /\ input = FlattenSeq([i \in DOMAIN script |-> script[i].bytes])
  /\ read_buffer = << >> /\ read_buf = << >>
  /\ pc = "connect" /\ fresh = TRUE /\ log = << >>
  /\ queue = << >> /\ hand = << >> /\ writer = "idle"
  /\ write_buffer = << >> /\ sink = << >> /\ wire = << >> /\ sent = << >>

\* Only one read is made for CONNECT, and decoded once.  An accepted client
\* is registered at once, its CONNACK is sent in the next step.
FirstRead ==
  /\ pc = "connect" /\ ReadSome
  /\ \E r \in {decode_packet(read_buf')} :
       \/ /\ r.err = "none" => r.val.type # "Connect"
          /\ pc' = "dropped"
          /\ UNCHANGED <<log, wire, sent>>
       \/ /\ r.err = "none" /\ r.val.type = "Connect"
          /\ log' = <<r.val>>
          /\ pc' = "refused"
          /\ sent' = <<ConnAck(BadCredentials)>>
          /\ wire' \in {sent', << >>}
       \/ /\ r.err = "none" /\ r.val.type = "Connect" /\ ~HalfCredentials(r.val)
          /\ log' = <<r.val>>
          /\ pc' = "registered"
          /\ UNCHANGED <<wire, sent>>
  /\ UNCHANGED <<script, transport, fresh, queue, hand, writer, write_buffer, sink>>

\* read_buf.advance after the CONNECT, and the CONNACK into the channel.
SendConnAck ==
  /\ pc = "registered" /\ pc' = "read"
  /\ read_buf' = Drop(read_buf, decode_packet(read_buf).read)
  /\ Send(<<ConnAck(0)>>)
  /\ UNCHANGED <<script, transport, input, read_buffer, fresh, log,
                 hand, writer, write_buffer, sink, wire>>

Read ==
  /\ pc = "read" /\ ReadSome
  /\ pc' = "decode" /\ fresh' = FALSE
  /\ UNCHANGED <<script, transport, log, writing, sent>>

\* Faulty version: one packet for each read.
AfterPacket_Read == "read"

\* The loop goes on with the next packet.
AfterPacket == "decode"

\* One turn of the loop over the packets in the buffer.
Decode ==
  /\ pc = "decode"
  /\ \E r \in {decode_packet(read_buf)} :
       \/ /\ r.err = "none" /\ r.val.type # "Connect"
          /\ log' = Append(log, r.val)
          /\ read_buf' = Drop(read_buf, r.read)
          /\ Send(Replies(r.val))
          /\ pc' = AfterPacket
          /\ UNCHANGED <<hand, writer, write_buffer, sink, wire>>
       \/ /\ r.err = "none" /\ r.val.type = "Connect"
          /\ log' = Append(log, r.val)
          /\ Exit
          /\ UNCHANGED read_buf
       \/ /\ r.err = "Incomplete" /\ pc' = "read"
          /\ UNCHANGED <<read_buf, log, writing, sent>>
       \/ /\ r.err \notin {"none", "Incomplete", "panic"} /\ Exit
          /\ UNCHANGED <<read_buf, log>>
       \* The task ends where it is: the session stays registered, and its
       \* writer goes on.
       \/ /\ r.err = "panic" /\ pc' = "panicked"
          /\ UNCHANGED <<read_buf, log, writing, sent>>
  /\ UNCHANGED <<script, transport, input, read_buffer, fresh>>

\* No CONNECT in five seconds, or the peer is gone before.
GiveUp ==
  /\ pc = "connect" /\ pc' = "dropped"
  /\ UNCHANGED <<reading, writing, sent>>

\* The client closed, the read failed, or the keep alive time is over.
Eof         == pc = "read" /\ NoMoreBytes /\ Exit /\ UNCHANGED reading
StopReading == pc = "read" /\ Exit /\ UNCHANGED reading

-----------------------------------------------------------------------------
(* The writer task, which runs while the session has a sender.             *)

Registered == pc \in {"registered", "read", "decode", "panicked"}

\* Faulty version: everything that waits is taken at once.
TakeMessage_All ==
  /\ writer = "idle" /\ Registered /\ queue # << >>
  /\ queue' = << >>
  /\ IF transport = "ws"
     THEN write_buffer' = write_buffer \o queue /\ writer' = "flush" /\ UNCHANGED hand
     ELSE hand' = queue /\ writer' = "write" /\ UNCHANGED write_buffer
  /\ UNCHANGED <<reading, pc, sink, wire, sent>>

\* rx.recv and write_all: the adapter only collects the bytes.
TakeMessage ==
  /\ writer = "idle" /\ Registered /\ queue # << >>
  /\ queue' = Tail(queue)
  /\ IF transport = "ws"
     THEN /\ write_buffer' = Append(write_buffer, Head(queue)) /\ writer' = "flush"
          /\ UNCHANGED hand
     ELSE hand' = <<Head(queue)>> /\ writer' = "write" /\ UNCHANGED write_buffer
  /\ UNCHANGED <<reading, pc, sink, wire, sent>>

\* External: the socket takes the bytes.
SocketWrite ==
  /\ writer = "write" /\ writer' = "idle"
  /\ wire' = wire \o hand /\ hand' = << >>
  /\ UNCHANGED <<reading, pc, queue, write_buffer, sink, sent>>

\* Faulty version: the buffer is emptied before the sink has taken it.
poll_flush_Early ==
  IF write_buffer = << >> THEN writer' = "idle" /\ UNCHANGED <<write_buffer, sink, wire>>
  ELSE /\ write_buffer' = << >>
       /\ \/ /\ wire' = wire \o sink \o write_buffer /\ sink' = << >> /\ writer' = "idle"
          \/ /\ UNCHANGED <<sink, wire, writer>>

\* Nothing in the buffer: done, whatever the sink still holds.  Otherwise
\* the buffer is given to the sink as one frame, and the sink is flushed or
\* pending.
poll_flush ==
  IF write_buffer = << >> THEN writer' = "idle" /\ UNCHANGED <<write_buffer, sink, wire>>
  ELSE /\ write_buffer' = << >>
       /\ \/ /\ wire' = wire \o sink \o write_buffer /\ sink' = << >> /\ writer' = "idle"
          \/ /\ sink' = sink \o write_buffer /\ UNCHANGED <<wire, writer>>

Flush ==
  /\ writer = "flush" /\ poll_flush
  /\ UNCHANGED <<reading, pc, queue, hand, sent>>

\* A write or a flush fails: the task closes the socket and ends.
WriteFails ==
  /\ writer \in {"write", "flush"} /\ writer' = "closed"
  /\ queue' = << >> /\ hand' = << >> /\ write_buffer' = << >> /\ sink' = << >>
  /\ UNCHANGED <<reading, pc, wire, sent>>

\* External: the library flushes the sink when it answers a ping frame.
AnswerPing ==
  /\ transport = "ws" /\ pc = "read" /\ writer # "closed" /\ sink # << >>
  /\ wire' = wire \o sink /\ sink' = << >>
  /\ UNCHANGED <<reading, pc, queue, hand, writer, write_buffer, sent>>

-----------------------------------------------------------------------------
\* Other clients publish (route_publish).
Deliveries == Len(SelectSeq(sent, LAMBDA m : m.type = "Delivery"))

Deliver ==
  /\ Registered /\ Deliveries < MaxDeliveries
  /\ Send(<<Delivery(Deliveries + 1)>>)
  /\ UNCHANGED <<reading, pc, hand, writer, write_buffer, sink, wire>>

Next ==
  \/ FirstRead \/ SendConnAck \/ Read \/ Decode \/ GiveUp \/ Eof \/ StopReading
  \/ TakeMessage \/ SocketWrite \/ Flush \/ WriteFails \/ AnswerPing \/ Deliver

Spec == Init /\ [][Next]_vars

\* The runtime polls what is ready: bytes that are there are read, packets
\* decoded, and the writer task runs.
Fairness ==
  /\ WF_vars(FirstRead) /\ WF_vars(SendConnAck) /\ WF_vars(Read) /\ WF_vars(Decode)
  /\ WF_vars(TakeMessage) /\ WF_vars(SocketWrite) /\ WF_vars(Flush)

FairSpec == Spec /\ Fairness
=============================================================================
