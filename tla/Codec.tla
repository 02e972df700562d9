------------------------------- MODULE Codec -------------------------------
(***************************************************************************)
(* MQTT packets and their bytes (codec.rs).                                *)
(*                                                                         *)
(* Decoding is pure: a reader takes a slice and returns an error, or a     *)
(* value and what is left of the slice.  The property decoders and         *)
(* encoders of the source all have one shape, so they are one pair of      *)
(* operators over a table of identifiers and types, in encoding order.     *)
(*                                                                         *)
(* A u8 or u16 is a number, a u32 its four bytes; a string is its bytes.   *)
(* Bytes are ASCII, or 255, which UTF-8 never contains.  An optional value *)
(* is a sequence of at most one element.                                   *)
(***************************************************************************)
EXTENDS Varint, SequencesExt

Got(val, rest) == [err |-> "none", val |-> val, rest |-> rest]
Take(buf, n)   == SubSeq(buf, 1, n)
Drop(buf, n)   == SubSeq(buf, n + 1, Len(buf))

\* The ? operator.  (The binding of x makes TLC evaluate r only once.)
Then(r, Next(_)) ==
  CHOOSE y \in {IF x.err = "none" THEN Next(x) ELSE Failed(x.err) : x \in {r}} : TRUE

HasBit(flags, bit) == (flags \div bit) % 2 = 1

-----------------------------------------------------------------------------
(* Reading and writing single values.                                      *)

\* Faulty version: the slice is taken without a check.
read_raw_Unchecked(n, buf) ==
  IF Len(buf) < n THEN Failed("panic") ELSE Got(Take(buf, n), Drop(buf, n))

\* The length checks of the readers: too short is incomplete, also inside a
\* packet all of whose bytes are there.
read_raw(n, buf) ==
  IF Len(buf) < n THEN Failed("Incomplete") ELSE Got(Take(buf, n), Drop(buf, n))

read_u8(buf)  == Then(read_raw(1, buf), LAMBDA r : Got(r.val[1], r.rest))
read_u16(buf) == Then(read_raw(2, buf), LAMBDA r : Got(r.val[1] * 256 + r.val[2], r.rest))
read_u32(buf) == read_raw(4, buf)
read_bytes(buf) == Then(read_u16(buf), LAMBDA n : read_raw(n.val, n.rest))
read_str(buf) ==
  Then(read_bytes(buf),
       LAMBDA s : IF 255 \in ToSet(s.val) THEN Failed("MalformedPacket") ELSE s)
read_pair(buf) ==
  Then(read_str(buf), LAMBDA k :
  Then(read_str(k.rest), LAMBDA v : Got(<<k.val, v.val>>, v.rest)))
read_varint(buf) ==
  Then(decode_varint(buf), LAMBDA n : Got(n.val, Drop(buf, n.read)))

write_u16(n)     == <<(n \div 256) % 256, n % 256>>
write_bytes(s)   == write_u16(Len(s)) \o s

Write(type, v) ==
  CASE type = "u8"     -> <<v>>
    [] type = "u16"    -> write_u16(v)
    [] type = "u32"    -> v
    [] type = "str"    -> write_bytes(v)
    [] type = "bin"    -> write_bytes(v)
    [] type = "pair"   -> write_bytes(v[1]) \o write_bytes(v[2])
    [] type = "varint" -> encode_varint(v)

-----------------------------------------------------------------------------
(* Properties: a function from the identifiers that are present to their   *)
(* values, for user properties the sequence of their values.               *)

UserProperty == \h26

ConnectProperties ==
  << <<\h11, "u32">>, <<\h21, "u16">>, <<\h27, "u32">>, <<\h22, "u16">>, <<\h19, "u8">>,
     <<\h17, "u8">>, <<\h26, "pair">>, <<\h15, "str">>, <<\h16, "bin">> >>
ConnAckProperties ==
  << <<\h11, "u32">>, <<\h21, "u16">>, <<\h24, "u8">>, <<\h25, "u8">>, <<\h27, "u32">>,
     <<\h12, "str">>, <<\h22, "u16">>, <<\h1F, "str">>, <<\h26, "pair">>, <<\h28, "u8">>,
     <<\h29, "u8">>, <<\h2A, "u8">>, <<\h13, "u16">>, <<\h1A, "str">>, <<\h1C, "str">>,
     <<\h15, "str">>, <<\h16, "bin">> >>
PublishProperties ==
  << <<\h01, "u8">>, <<\h02, "u32">>, <<\h03, "str">>, <<\h08, "str">>, <<\h09, "bin">>,
     <<\h0B, "varint">>, <<\h23, "u16">>, <<\h26, "pair">> >>
PubAckProperties     == << <<\h1F, "str">>, <<\h26, "pair">> >>
SubscribeProperties  == << <<\h0B, "varint">>, <<\h26, "pair">> >>
SubAckProperties     == << <<\h1F, "str">>, <<\h26, "pair">> >>
DisconnectProperties == << <<\h11, "u32">>, <<\h1F, "str">>, <<\h26, "pair">>, <<\h1C, "str">> >>

NoProperties == << >>

\* One value of a table's type.
ReadTyped(type, buf) ==
  CASE type = "u8"     -> read_u8(buf)
    [] type = "u16"    -> read_u16(buf)
    [] type = "u32"    -> read_u32(buf)
    [] type = "str"    -> read_str(buf)
    [] type = "bin"    -> read_bytes(buf)
    [] type = "pair"   -> read_pair(buf)
    [] type = "varint" -> read_varint(buf)

\* The loop over the bytes of the properties: the list of what was read
\* from the i-th byte on.
PropertyList(table, slice) ==
  LET n == Len(slice)
      list[i \in 1 .. n + 1] ==
        IF i = n + 1 THEN Got(<< >>, << >>)
        ELSE LET known == {k \in DOMAIN table : table[k][1] = slice[i]} IN
             IF known = {} THEN Failed("MalformedPacket")
             ELSE Then(ReadTyped(table[CHOOSE k \in known : TRUE][2], Drop(slice, i)), LAMBDA r :
                  Then(list[n - Len(r.rest) + 1], LAMBDA more :
                       Got(<< <<slice[i], r.val>> >> \o more.val, << >>)))
  IN  list[1]

\* Of a repeated property the last value stays; user properties add up.
Collected(list) ==
  [id \in {list[i][1] : i \in DOMAIN list} |->
     LET of == FlattenSeq([i \in DOMAIN list |->
                             IF list[i][1] = id THEN <<list[i][2]>> ELSE << >>])
     IN  IF id = UserProperty THEN of ELSE of[Len(of)]]

\* ...Properties::decode.  Nothing at all stands for no properties.
decode_properties(table, buf) ==
  IF buf = << >> THEN Got(NoProperties, buf)
  ELSE Then(read_varint(buf), LAMBDA n :
       Then(read_raw(n.val, n.rest), LAMBDA slice :
       Then(PropertyList(table, slice.val), LAMBDA list :
            Got(Collected(list.val), slice.rest))))

\* ...Properties::encode.
encode_properties(table, props) ==
  LET field(k) ==
        LET id == table[k][1]  type == table[k][2] IN
        IF id \notin DOMAIN props THEN << >>
        ELSE IF id = UserProperty
             THEN FlattenSeq([i \in DOMAIN props[id] |-> <<id>> \o Write(type, props[id][i])])
             ELSE <<id>> \o Write(type, props[id])
      temp == FlattenSeq([k \in DOMAIN table |-> field(k)])
  IN  encode_varint(Len(temp)) \o temp
=============================================================================
