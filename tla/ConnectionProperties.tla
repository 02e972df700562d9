------------------------ MODULE ConnectionProperties ------------------------
(***************************************************************************)
(* What a connection guarantees, whatever the sizes in which its bytes     *)
(* arrive.                                                                 *)
(***************************************************************************)
EXTENDS Connection, PacketTypes

TypeOK ==
  /\ script \in Scripts /\ transport \in Transports
  /\ pc \in {"connect", "registered", "read", "decode",
             "dropped", "refused", "ended", "panicked"}
  /\ writer \in {"idle", "write", "flush", "closed", "aborted"}
  /\ fresh \in BOOLEAN
  /\ Len(hand) \in 0 .. 1 /\ (transport = "tcp" => read_buffer \o write_buffer \o sink = << >>)

-----------------------------------------------------------------------------
\* The packets of a client are handled in order, once, and as they were
\* sent: the codec and the read loop (decode_packet, handle_connection) put
\* them together from whatever pieces the network or the WebSocket adapter
\* (poll_read) deliver.
Stream == INSTANCE PacketStream WITH
            open <- pc \in {"connect", "registered", "read", "decode"}
StreamHandledInOrder == Stream!Spec

\* What a channel was given apart from deliveries, and the answers to packets.
Answers(messages) ==
  FlattenSeq([i \in DOMAIN messages |->
                IF messages[i].type = "Delivery" THEN << >> ELSE <<messages[i]>>])
RepliesTo(packets) == FlattenSeq([i \in DOMAIN packets |-> Replies(packets[i])])

\* The client receives what was sent to it in that order, nothing twice and
\* nothing left out in between, and apart from deliveries this is the
\* CONNACK and then the answers to the packets handled: the writer task, the
\* channel and the WebSocket adapter (poll_write, poll_flush) keep the order.
\* A delivery may come before the CONNACK, an answer may not.
AnswersInOrder ==
  /\ IsPrefix(wire, sent)
  /\ pc \notin {"connect", "dropped", "registered", "refused"} =>
       Answers(sent) = <<ConnAck(0)>> \o RepliesTo(Tail(log))

\* The frame at the front of the buffer is there with all its bytes.
CompleteFrame(buf) ==
  LET n == decode_varint(Tail(buf))
  IN  Len(buf) > 1 /\ n.err = "none" /\ Len(buf) >= 1 + n.read + n.val

\* Whatever follows, these bytes decide what is made of them: a frame with
\* all its bytes, or one whose length is none.
Settled(buf) ==
  /\ buf # << >>
  /\ CompleteFrame(buf) \/ decode_varint(Tail(buf)).err = "InvalidVarint"

\* The bytes of an item are one frame, and decode_packet makes of them the
\* packet the item means, or an error if it means none.
ItemDecodes(item) ==
  /\ Settled(item.bytes)
  /\ IF item.means = << >> THEN decode_packet(item.bytes).err # "none"
     ELSE decode_packet(item.bytes) = Value(item.means[1], Len(item.bytes))

\* An item is a packet in the bytes of encode_packet.
Encoded(item) ==
  \E p \in ToSet(item.means) :
    Encodable(p) /\ item = [bytes |-> encode_packet(p), means |-> <<p>>]

\* What the client means is what the codec makes of its bytes, item by item:
\* encode_packet and decode_packet agree, and no damaged frame passes for a
\* packet or takes bytes of the next one.
ScriptDecodes == \A i \in DOMAIN script : ItemDecodes(script[i])

\* A client that sends nothing else.
EncodedScript == \A i \in DOMAIN script : Encoded(script[i])

\* What the client sent next means a packet.
NextIsPacket == Len(log) < Len(script) /\ script[Len(log) + 1].means # << >>

\* While the read loop waits, a packet that has arrived waits only if it
\* came together with the CONNECT and nothing came since: the loop reads
\* before it decodes (handle_connection, after the CONNACK).
OnlyPipelinedWaits ==
  pc = "read" /\ read_buf # << >> /\ NextIsPacket /\ CompleteFrame(read_buf) => fresh

\* A connection's task dies with its session still registered only in one
\* way: a second CONNECT with a will whose lengths exceed the packet (the
\* slices of decode_packet).
OnlyWillPanics ==
  pc = "panicked" =>
    /\ ~NextIsPacket
    /\ CompleteFrame(read_buf)
    /\ read_buf[1] = 16

\* What arrives is handled, unless it came with the CONNECT and nothing came
\* since, or an item before it is no packet, or the connection ends.
EverythingHandled ==
  (\A i \in DOMAIN script : script[i].means # << >>) =>
    <>[](\/ Len(log) = Len(script)
         \/ pc \in {"dropped", "refused", "ended"}
         \/ NoMoreBytes /\ fresh)

\* Everything sent to a client reaches it, unless the connection ends or a
\* write fails (the channel, the writer task, poll_write and poll_flush).
RepliesArrive ==
  <>[](wire = sent \/ pc \in {"refused", "ended"} \/ writer = "closed")

\* Over TCP the writer task leaves nothing behind (write_all and flush).
TcpRepliesArrive == transport = "tcp" => RepliesArrive

-----------------------------------------------------------------------------
\* "Parse and process all complete packets currently in the read buffer":
\* when the loop goes back to reading, no complete frame is left in front.
AllCompletePacketsProcessed ==
  [][pc = "decode" /\ pc' = "read" /\ read_buf # << >> => ~CompleteFrame(read_buf)]_vars
=============================================================================
