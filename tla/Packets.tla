------------------------------ MODULE Packets ------------------------------
(***************************************************************************)
(* decode_packet and encode_packet (codec.rs).  A packet is a record whose *)
(* type names the variant; properties are functions (see Codec).           *)
(***************************************************************************)
EXTENDS Codec

Mqtt == <<77, 81, 84, 84>>

\* if present { Some(read(payload)?) }.
Optional(present, read(_), buf) ==
  IF present THEN Then(read(buf), LAMBDA r : Got(<<r.val>>, r.rest)) ELSE Got(<< >>, buf)

\* while !payload.is_empty() { read }.
ReadAll(read(_), buf) ==
  LET n == Len(buf)
      all[i \in 1 .. n + 1] ==
        IF i = n + 1 THEN Got(<< >>, << >>)
        ELSE Then(read(Drop(buf, i - 1)), LAMBDA r :
             Then(all[n - Len(r.rest) + 1], LAMBDA more : Got(<<r.val>> \o more.val, << >>)))
  IN  all[1]

-----------------------------------------------------------------------------
(* Decoding the payload of each packet type.  The result is the packet in  *)
(* the form Got(packet, rest).                                             *)

\* &payload[len..]: slicing past the end panics.
Skip(len, buf) == IF len > Len(buf) THEN Failed("panic") ELSE Got(<< >>, Drop(buf, len))

\* The will is stepped over, not stored.
skip_will(buf) ==
  Then(decode_varint(buf), LAMBDA n :
  Then(Skip(n.read + n.val, buf), LAMBDA props :
  Then(read_u16(props.rest), LAMBDA t :
  Then(Skip(t.val, t.rest), LAMBDA topic :
  Then(read_u16(topic.rest), LAMBDA p : Skip(p.val, p.rest))))))

DecodeConnect(flags, buf) ==
  IF flags # 0 THEN Failed("MalformedPacket")
  ELSE Then(read_str(buf), LAMBDA name :
       IF name.val # Mqtt THEN Failed("MalformedPacket")
  ELSE Then(read_u8(name.rest), LAMBDA level :
       IF level.val # 5 THEN Failed("UnsupportedProtocolVersion")
  ELSE Then(read_u8(level.rest), LAMBDA bits :
       Then(read_u16(bits.rest), LAMBDA alive :
       Then(decode_properties(ConnectProperties, alive.rest), LAMBDA props :
       Then(read_str(props.rest), LAMBDA id :
       Then(IF HasBit(bits.val, 4) THEN skip_will(id.rest) ELSE id, LAMBDA will :
       Then(Optional(HasBit(bits.val, 128), read_str, will.rest), LAMBDA user :
       Then(Optional(HasBit(bits.val, 64), read_bytes, user.rest), LAMBDA pass :
            Got([type |-> "Connect", client_id |-> id.val, keep_alive |-> alive.val,
                 clean_start |-> HasBit(bits.val, 2), username |-> user.val,
                 password |-> pass.val, properties |-> props.val], pass.rest))))))))))

DecodeConnAck(buf) ==
  Then(read_u8(buf), LAMBDA bits :
  Then(read_u8(bits.rest), LAMBDA reason :
  Then(decode_properties(ConnAckProperties, reason.rest), LAMBDA props :
       Got([type |-> "ConnAck", session_present |-> HasBit(bits.val, 1),
            reason_code |-> reason.val, properties |-> props.val], props.rest))))

DecodePublish(flags, buf) ==
  LET qos == (flags \div 2) % 4 IN
  IF qos > 2 THEN Failed("MalformedPacket")
  ELSE Then(read_str(buf), LAMBDA topic :
       Then(Optional(qos > 0, read_u16, topic.rest), LAMBDA pid :
       Then(decode_properties(PublishProperties, pid.rest), LAMBDA props :
            Got([type |-> "Publish", dup |-> HasBit(flags, 8), qos |-> qos,
                 retain |-> HasBit(flags, 1), topic |-> topic.val, packet_id |-> pid.val,
                 properties |-> props.val, payload |-> props.rest], << >>))))

\* The reason code and the properties that may be missing (PUBACK, DISCONNECT).
ReasonAndProperties(table, buf) ==
  IF buf = << >> THEN Got(<<0, NoProperties>>, buf)
  ELSE Then(read_u8(buf), LAMBDA reason :
       Then(decode_properties(table, reason.rest), LAMBDA props :
            Got(<<reason.val, props.val>>, props.rest)))

DecodePubAck(buf) ==
  Then(read_u16(buf), LAMBDA pid :
  Then(ReasonAndProperties(PubAckProperties, pid.rest), LAMBDA r :
       Got([type |-> "PubAck", packet_id |-> pid.val, reason_code |-> r.val[1],
            properties |-> r.val[2]], r.rest)))

read_subscription(buf) ==
  Then(read_str(buf), LAMBDA filter :
  Then(read_u8(filter.rest), LAMBDA options :
       Got([topic_filter |-> filter.val, options |-> options.val], options.rest)))

DecodeSubscribe(flags, buf) ==
  IF flags # 2 THEN Failed("MalformedPacket")
  ELSE Then(read_u16(buf), LAMBDA pid :
       Then(decode_properties(SubscribeProperties, pid.rest), LAMBDA props :
       Then(ReadAll(read_subscription, props.rest), LAMBDA subs :
            IF subs.val = << >> THEN Failed("MalformedPacket")
            ELSE Got([type |-> "Subscribe", packet_id |-> pid.val, properties |-> props.val,
                      subscriptions |-> subs.val], subs.rest))))

DecodeSubAck(buf) ==
  Then(read_u16(buf), LAMBDA pid :
  Then(decode_properties(SubAckProperties, pid.rest), LAMBDA props :
  Then(ReadAll(read_u8, props.rest), LAMBDA codes :
       Got([type |-> "SubAck", packet_id |-> pid.val, properties |-> props.val,
            reason_codes |-> codes.val], codes.rest))))

DecodePing(type, flags, buf) ==
  IF flags # 0 \/ buf # << >> THEN Failed("MalformedPacket") ELSE Got([type |-> type], buf)

DecodeDisconnect(buf) ==
  Then(ReasonAndProperties(DisconnectProperties, buf), LAMBDA r :
       Got([type |-> "Disconnect", reason_code |-> r.val[1], properties |-> r.val[2]], r.rest))

\* The match on the packet type.
DecodePayload(type, flags, buf) ==
  CASE type = 1  -> DecodeConnect(flags, buf)
    [] type = 2  -> DecodeConnAck(buf)
    [] type = 3  -> DecodePublish(flags, buf)
    [] type = 4  -> DecodePubAck(buf)
    [] type = 8  -> DecodeSubscribe(flags, buf)
    [] type = 9  -> DecodeSubAck(buf)
    [] type = 12 -> DecodePing("PingReq", flags, buf)
    [] type = 13 -> DecodePing("PingResp", flags, buf)
    [] type = 14 -> DecodeDisconnect(buf)
    [] OTHER     -> Failed("MalformedPacket")

-----------------------------------------------------------------------------

\* Faulty version: a frame that fills the buffer is not complete.
FrameIsThere_OffByOne(buf, total_read) == Len(buf) > total_read

FrameIsThere(buf, total_read) == Len(buf) >= total_read

\* The packet at the front of the buffer and the number of bytes it takes.
decode_packet(buf) ==
  Then(read_u8(buf), LAMBDA header :
  Then(decode_varint(header.rest), LAMBDA n :
       LET total_read == 1 + n.read + n.val IN
       IF ~FrameIsThere(buf, total_read) THEN Failed("Incomplete")
       ELSE Then(DecodePayload(header.val \div 16, header.val % 16,
                               SubSeq(buf, n.read + 2, total_read)),
                 LAMBDA p : Value(p.val, total_read))))

\* PUBACK and DISCONNECT without properties and with reason 0 end early.
EncodeReason(table, p) ==
  IF p.reason_code = 0 /\ DOMAIN p.properties = {} THEN << >>
  ELSE <<p.reason_code>> \o encode_properties(table, p.properties)

\* A bit of a flag byte, if it is set.
Bit(bit, on) == IF on THEN bit ELSE 0

\* The fixed header byte and the payload.
EncodeHeader(p) ==
  CASE p.type = "Connect"    -> 16
    [] p.type = "ConnAck"    -> 32
    [] p.type = "Publish"    -> 48 + Bit(8, p.dup) + 2 * (p.qos % 4) + Bit(1, p.retain)
    [] p.type = "PubAck"     -> 64
    [] p.type = "Subscribe"  -> 130
    [] p.type = "SubAck"     -> 144
    [] p.type = "PingReq"    -> 192
    [] p.type = "PingResp"   -> 208
    [] p.type = "Disconnect" -> 224

EncodePayload(p) ==
  CASE p.type = "Connect" ->
         write_bytes(Mqtt)
         \o <<5, Bit(2, p.clean_start) + Bit(128, p.username # << >>) + Bit(64, p.password # << >>)>>
         \o write_u16(p.keep_alive) \o encode_properties(ConnectProperties, p.properties)
         \o FlattenSeq([i \in 1 .. 1 + Len(p.username) + Len(p.password) |->
                          write_bytes((<<p.client_id>> \o p.username \o p.password)[i])])
    [] p.type = "ConnAck" ->
         <<Bit(1, p.session_present), p.reason_code>>
         \o encode_properties(ConnAckProperties, p.properties)
    [] p.type = "Publish" ->
         write_bytes(p.topic)
         \o (IF p.packet_id = << >> THEN << >> ELSE write_u16(p.packet_id[1]))
         \o encode_properties(PublishProperties, p.properties) \o p.payload
    [] p.type = "PubAck" ->
         write_u16(p.packet_id) \o EncodeReason(PubAckProperties, p)
    [] p.type = "Subscribe" ->
         write_u16(p.packet_id) \o encode_properties(SubscribeProperties, p.properties)
         \o FlattenSeq([i \in DOMAIN p.subscriptions |->
                          Append(write_bytes(p.subscriptions[i].topic_filter),
                                 p.subscriptions[i].options)])
    [] p.type = "SubAck" ->
         write_u16(p.packet_id) \o encode_properties(SubAckProperties, p.properties)
         \o p.reason_codes
    [] p.type \in {"PingReq", "PingResp"} -> << >>
    [] p.type = "Disconnect" -> EncodeReason(DisconnectProperties, p)

encode_packet(p) ==
  LET payload == EncodePayload(p)
  IN  <<EncodeHeader(p)>> \o encode_varint(Len(payload)) \o payload
=============================================================================
