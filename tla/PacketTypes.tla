---------------------------- MODULE PacketTypes ----------------------------
(***************************************************************************)
(* What the structs of codec.rs can hold, and what of it the format can    *)
(* carry: strings and binary data have a length of two bytes, a packet and *)
(* a subscription identifier what four bytes of a variable byte integer    *)
(* hold.                                                                   *)
(***************************************************************************)
EXTENDS Packets

Byte   == 0 .. 255
U16    == {n \in Nat : n <= 65535}
Binary == {s \in Seq(Byte) : Len(s) <= 65535}
Text   == {s \in Binary : 255 \notin ToSet(s)}

Option(S) == {s \in Seq(S) : Len(s) <= 1}

Values(type) ==
  CASE type = "u8"     -> Byte
    [] type = "u16"    -> U16
    [] type = "u32"    -> [1 .. 4 -> Byte]
    [] type = "str"    -> Text
    [] type = "bin"    -> Binary
    [] type = "pair"   -> Text \X Text
    [] type = "varint" -> {n \in Nat : n <= MaxVarint}

\* ...Properties.  User properties are a Vec, which is there if not empty.
IsProperties(table, props) ==
  /\ props = [id \in DOMAIN props |-> props[id]]
  /\ DOMAIN props \subseteq {table[k][1] : k \in DOMAIN table}
  /\ \A k \in DOMAIN table :
       LET id == table[k][1]  type == table[k][2] IN
       id \in DOMAIN props =>
         IF id = UserProperty THEN props[id] \in Seq(Values(type)) \ {<< >>}
         ELSE props[id] \in Values(type)

\* Packet.  "Required if QoS > 0": a QoS of 0 goes without an identifier.
\* A SUBSCRIBE without a filter is refused.
IsPacket(p) ==
  CASE p.type = "Connect" ->
         /\ p \in [type : {"Connect"}, client_id : Text, keep_alive : U16,
                   clean_start : BOOLEAN, username : Option(Text), password : Option(Binary),
                   properties : {p.properties}]
         /\ IsProperties(ConnectProperties, p.properties)
    [] p.type = "ConnAck" ->
         /\ p \in [type : {"ConnAck"}, session_present : BOOLEAN, reason_code : Byte,
                   properties : {p.properties}]
         /\ IsProperties(ConnAckProperties, p.properties)
    [] p.type = "Publish" ->
         /\ p \in [type : {"Publish"}, dup : BOOLEAN, qos : 0 .. 2, retain : BOOLEAN,
                   topic : Text, packet_id : Option(U16), properties : {p.properties},
                   payload : Seq(Byte)]
         /\ p.packet_id = << >> <=> p.qos = 0
         /\ IsProperties(PublishProperties, p.properties)
    [] p.type = "PubAck" ->
         /\ p \in [type : {"PubAck"}, packet_id : U16, reason_code : Byte,
                   properties : {p.properties}]
         /\ IsProperties(PubAckProperties, p.properties)
    [] p.type = "Subscribe" ->
         /\ p \in [type : {"Subscribe"}, packet_id : U16, properties : {p.properties},
                   subscriptions : Seq([topic_filter : Text, options : Byte]) \ {<< >>}]
         /\ IsProperties(SubscribeProperties, p.properties)
    [] p.type = "SubAck" ->
         /\ p \in [type : {"SubAck"}, packet_id : U16, properties : {p.properties},
                   reason_codes : Seq(Byte)]
         /\ IsProperties(SubAckProperties, p.properties)
    [] p.type = "Disconnect" ->
         /\ p \in [type : {"Disconnect"}, reason_code : Byte, properties : {p.properties}]
         /\ IsProperties(DisconnectProperties, p.properties)
    [] OTHER -> p \in [type : {"PingReq", "PingResp"}]

\* The remaining length can be written.
Encodable(p) == IsPacket(p) /\ Len(EncodePayload(p)) <= MaxVarint
=============================================================================
