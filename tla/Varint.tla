------------------------------- MODULE Varint -------------------------------
(***************************************************************************)
(* Variable byte integers (codec.rs): seven bits per byte, least           *)
(* significant first, the top bit set on every byte but the last.  The     *)
(* length of a packet, the length of its properties and the subscription   *)
(* identifier are written this way.                                        *)
(***************************************************************************)
EXTENDS Integers, Sequences

Failed(err)    == [err |-> err]
Value(v, read) == [err |-> "none", val |-> v, read |-> read]

\* What a byte counts for, by its position (multiplier).
Place == <<1, 128, 16384, 2097152, 268435456>>

\* The highest value that decode_varint accepts.
MaxVarint == 268435455

\* How many bytes the loop of encode_varint pushes.
VarintLen(v) ==
  IF v < 128 THEN 1 ELSE IF v < 16384 THEN 2 ELSE IF v < 2097152 THEN 3
  ELSE IF v <= MaxVarint THEN 4 ELSE 5

encode_varint(v) ==
  [i \in 1 .. VarintLen(v) |->
     ((v \div Place[i]) % 128) + (IF i < VarintLen(v) THEN 128 ELSE 0)]

\* The first byte without the continuation bit is the n-th, n being at most
\* four.
Ends(buf, n) ==
  /\ n \in 1 .. 4 /\ n <= Len(buf)
  /\ buf[n] < 128
  /\ \A i \in 1 .. n - 1 : buf[i] >= 128

\* What the i-th byte adds to the value, when n bytes are read.
Part(buf, i, n) == IF i <= n THEN (buf[i] % 128) * Place[i] ELSE 0

decode_varint(buf) ==
  IF \E n \in 1 .. 4 : Ends(buf, n)
  THEN LET n == CHOOSE n \in 1 .. 4 : Ends(buf, n)
       IN  Value(Part(buf, 1, n) + Part(buf, 2, n) + Part(buf, 3, n) + Part(buf, 4, n), n)
  ELSE Failed(IF Len(buf) >= 4 THEN "InvalidVarint" ELSE "Incomplete")
=============================================================================
