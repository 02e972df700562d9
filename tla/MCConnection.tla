---------------------------- MODULE MCConnection ----------------------------
(***************************************************************************)
(* Scripts for Connection: what a client may send, packets of every kind,  *)
(* frames whose bytes mean no packet, and the pieces they may arrive in.   *)
(***************************************************************************)
EXTENDS ConnectionProperties

Item(p)    == [bytes |-> encode_packet(p), means |-> <<p>>]
Damaged(b) == [bytes |-> b, means |-> << >>]

a == <<97>>
b == <<98, 47, 99>>

Connect(user, pass, props) ==
  [type |-> "Connect", client_id |-> a, keep_alive |-> 60, clean_start |-> TRUE,
   username |-> user, password |-> pass, properties |-> props]
Plain == Connect(<< >>, << >>, NoProperties)
Login == Connect(<<a>>, <<b>>,
                 (\h11 :> <<0, 0, 14, 16>>) @@ (\h21 :> 300) @@ (\h19 :> 1)
                 @@ (UserProperty :> <<<<a, b>>, <<b, << >>>>>>))

Publish(qos, topic, pid, props, payload) ==
  [type |-> "Publish", dup |-> qos = 2, qos |-> qos, retain |-> qos = 0, topic |-> topic,
   packet_id |-> pid, properties |-> props, payload |-> payload]
Subscribe(pid, filters, props) ==
  [type |-> "Subscribe", packet_id |-> pid, properties |-> props,
   subscriptions |-> [i \in DOMAIN filters |-> [topic_filter |-> filters[i], options |-> i]]]
PingReq == [type |-> "PingReq"]
Disconnect(reason, props) ==
  [type |-> "Disconnect", reason_code |-> reason, properties |-> props]

\* CONNECT frames with a will, which encode_packet never writes: fixed
\* header, protocol, flags, keep alive, properties, client id, will.
WithWill(will) ==
  LET body == write_bytes(Mqtt) \o <<5, 6, 0, 60, 0>> \o write_bytes(a) \o will
  IN  <<16, Len(body)>> \o body
GoodWill == <<2, 1, 0>> \o write_bytes(b) \o write_bytes(a)
LongWill == <<2, 1, 0>> \o write_u16(9) \o a

\* A PUBLISH whose topic is said to be longer than the packet.
ShortField == <<48, 3, 0, 9, 97>>
\* A remaining length of five bytes.
LongLength == <<48, 255, 255, 255, 255, 1>>

MCScripts ==
  { \* answers, one filter denied
    << Item(Plain), Item(Publish(1, a, <<258>>, (\h0B :> 300), << >>)),
       Item(Subscribe(5, <<a, b>>, (\h0B :> 5))) >>,
    \* a length of two bytes, and a packet behind it
    << Item(Plain), Item(Publish(0, a, << >>, NoProperties, [i \in 1 .. 125 |-> 7])),
       Item(Publish(0, b, << >>, NoProperties, [i \in 1 .. 30 |-> 8])) >>,
    \* a client with a will; acknowledgements with and without a reason
    << [bytes |-> WithWill(GoodWill), means |-> <<Plain>>],
       Item(PubAck(1, 0)), Item([PubAck(2, 16) EXCEPT !.properties = (\h1F :> b)]),
       Item(PingReq) >>,
    \* a login, a topic denied, a second CONNECT
    << Item(Login), Item(Publish(1, b, <<3>>, (\h03 :> a) @@ (\h26 :> <<<<a, a>>>>), a)),
       Item(Disconnect(4, (\h1F :> a) @@ (\h11 :> <<0, 0, 0, 1>>))), Item(Plain) >>,
    \* packets that need no answer
    << Item(Plain), Item(Publish(2, a, <<7>>, (\h23 :> 1), << >>)), Item(SubAck(9, <<1, 128>>)),
       Item(Disconnect(0, NoProperties)), Item(PingReq) >>,
    \* no packets
    << Item(Plain), Damaged(ShortField), Item(PingReq) >>,
    << Item(Plain), Damaged(LongLength) >>,
    << Item(Plain), Item(PingReq), Damaged(WithWill(LongWill)), Item(PingReq) >>,
    << Damaged(WithWill(LongWill)) >>,
    << Item(PingReq), Item(Plain) >>,
    << Item(Connect(<<a>>, << >>, NoProperties)) >> }

\* The items that mean a packet are what encode_packet writes, except the
\* CONNECT with a will.
ASSUME ItemsEncoded ==
  \A s \in MCScripts : \A i \in DOMAIN s :
    s[i].means = << >> \/ s[i].bytes = WithWill(GoodWill) \/ Encoded(s[i])

\* The smallest scripts for the runs that refute a claim.
MCOneClient  == { << Item(Plain) >> }
MCShortField == { << Item(Plain), Damaged(ShortField), Item(PingReq) >> }

\* The length of the plain CONNECT, one byte, and several packets at once.
MCChunks == {1, 16, 60}
MCRooms  == {40}
MCDenied == {b}
=============================================================================
