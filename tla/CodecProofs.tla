---------------------------- MODULE CodecProofs ----------------------------
(***************************************************************************)
(* The codec, for every packet and every sequence of bytes: what the       *)
(* variable byte integers give back, that no reader looks past the end of  *)
(* its slice, and that decode_packet gives back what encode_packet wrote.  *)
(* (SMT is cited wherever large numerals occur: Zenon writes numbers in    *)
(* unary.  RouterLemmas has the induction that the recursive functions     *)
(* need, and what FlattenSeq returns.)                                     *)
(***************************************************************************)
EXTENDS PacketTypes, RouterLemmas

-----------------------------------------------------------------------------
(* Variable byte integers.                                                 *)

LEMMA DivMod128 ==
  ASSUME NEW v \in Nat
  PROVE  /\ v \div 128 \in Nat /\ v % 128 \in Nat /\ v % 128 < 128
         /\ v = 128 * (v \div 128) + (v % 128)
  BY SMT

\* Dividing by the place of a digit is dividing by 128 that often.
LEMMA Quotients ==
  ASSUME NEW v \in Nat
  PROVE  /\ v \div 16384 = (v \div 128) \div 128
         /\ v \div 2097152 = ((v \div 128) \div 128) \div 128
         /\ v \div 268435456 = (((v \div 128) \div 128) \div 128) \div 128
<1> DEFINE q1 == v \div 128
           q2 == q1 \div 128
           q3 == q2 \div 128
           q4 == q3 \div 128
<1>1. q1 \in Nat /\ 128 * q1 <= v /\ v < 128 * q1 + 128
  BY DivMod128
<1>2. q2 \in Nat /\ 128 * q2 <= q1 /\ q1 < 128 * q2 + 128
  BY <1>1, DivMod128
<1>3. q3 \in Nat /\ 128 * q3 <= q2 /\ q2 < 128 * q3 + 128
  BY <1>2, DivMod128
<1>4. q4 \in Nat /\ 128 * q4 <= q3 /\ q3 < 128 * q4 + 128
  BY <1>3, DivMod128
<1> HIDE DEF q1, q2, q3, q4
<1>5. v \div 16384 = q2
  BY <1>1, <1>2, SMT
<1>6. v \div 2097152 = q3
  BY <1>1, <1>2, <1>3, SMT
<1>7. v \div 268435456 = q4
  BY <1>1, <1>2, <1>3, <1>4, SMT
<1> QED BY <1>5, <1>6, <1>7 DEF q1, q2, q3, q4

LEMMA Continued ==
  ASSUME NEW d \in Nat, d < 128
  PROVE  (d + 128) % 128 = d /\ d % 128 = d
  BY SMT

\* The i-th digit of v in base 128.
Digit(v, i) == (v \div Place[i]) % 128

LEMMA PlaceValues ==
  Place[1] = 1 /\ Place[2] = 128 /\ Place[3] = 16384 /\ Place[4] = 2097152 /\ Place[5] = 268435456
  BY SMT DEF Place

LEMMA LenBounds ==
  ASSUME NEW v \in Nat
  PROVE  /\ VarintLen(v) \in {1, 2, 3, 4, 5}
         /\ v <= MaxVarint <=> VarintLen(v) <= 4
         /\ VarintLen(v) = 1 <=> v < 128
         /\ VarintLen(v) <= 2 <=> v < 16384
         /\ VarintLen(v) <= 3 <=> v < 2097152
  BY SMT DEF VarintLen, MaxVarint

LEMMA DigitRange ==
  ASSUME NEW v \in Nat, NEW i \in {1, 2, 3, 4, 5}
  PROVE  Digit(v, i) \in Nat /\ Digit(v, i) < 128
<1> DEFINE q1 == v \div 128
           q2 == q1 \div 128
           q3 == q2 \div 128
           q4 == q3 \div 128
<1>1. q1 \in Nat /\ q2 \in Nat /\ q3 \in Nat /\ q4 \in Nat
  BY DivMod128
<1>2. v \div 1 = v
  BY SMT
<1>3. Digit(v, i) \in {v % 128, q1 % 128, q2 % 128, q3 % 128, q4 % 128}
  BY <1>2, PlaceValues, Quotients, SMT DEF Digit
<1> HIDE DEF q1, q2, q3, q4
<1> QED BY <1>1, <1>3, DivMod128

\* A value that fits four digits is the sum of these digits.
LEMMA SumOfDigits ==
  ASSUME NEW v \in Nat, v <= MaxVarint
  PROVE  v = Digit(v, 1) + Digit(v, 2) * 128 + Digit(v, 3) * 16384 + Digit(v, 4) * 2097152
<1> DEFINE q1 == v \div 128
           q2 == q1 \div 128
           q3 == q2 \div 128
<1>1. q1 \in Nat /\ v % 128 \in Nat /\ v = 128 * q1 + (v % 128)
  BY DivMod128
<1>2. q2 \in Nat /\ q1 % 128 \in Nat /\ q1 = 128 * q2 + (q1 % 128)
  BY <1>1, DivMod128
<1>3. q3 \in Nat /\ q2 % 128 \in Nat /\ q2 = 128 * q3 + (q2 % 128)
  BY <1>2, DivMod128
<1>4. v \div 1 = v
  BY SMT
<1>5. /\ Digit(v, 1) = v % 128 /\ Digit(v, 2) = q1 % 128
      /\ Digit(v, 3) = q2 % 128 /\ Digit(v, 4) = q3 % 128
  BY <1>4, PlaceValues, Quotients DEF Digit
<1>6. v <= 268435455
  BY SMT DEF MaxVarint
<1> HIDE DEF q1, q2, q3
<1>7. q3 < 128
  BY <1>1, <1>2, <1>3, <1>6, SMT
<1>8. q3 % 128 = q3
  BY <1>3, <1>7, SMT
<1> DEFINE r1 == v % 128
           r2 == q1 % 128
           r3 == q2 % 128
<1>9. /\ r1 \in Nat /\ r2 \in Nat /\ r3 \in Nat /\ q1 \in Nat /\ q2 \in Nat /\ q3 \in Nat
      /\ v = 128 * q1 + r1 /\ q1 = 128 * q2 + r2 /\ q2 = 128 * q3 + r3
  BY <1>1, <1>2, <1>3
<1> HIDE DEF r1, r2, r3
<1>10. v = r1 + r2 * 128 + r3 * 16384 + q3 * 2097152
  BY <1>9, SMT
<1> QED BY <1>5, <1>8, <1>10 DEF r1, r2, r3

\* The digits above the last one are zero.
LEMMA HighDigits ==
  ASSUME NEW v \in Nat, v <= MaxVarint, NEW i \in {1, 2, 3, 4}, i > VarintLen(v)
  PROVE  Digit(v, i) = 0
<1>1. v < 268435456
  BY SMT DEF MaxVarint
<1>2. Place[i] \in Nat /\ v < Place[i] /\ Place[i] > 0
  BY <1>1, PlaceValues, LenBounds, SMT
<1>3. v \div Place[i] = 0
  BY <1>2, SMT
<1> QED BY <1>3, SMT DEF Digit

\* What encode_varint pushes, byte for byte.
LEMMA EncodedBytes ==
  ASSUME NEW v \in Nat
  PROVE  /\ encode_varint(v) \in Seq(Nat)
         /\ Len(encode_varint(v)) = VarintLen(v)
         /\ \A i \in 1 .. VarintLen(v) :
              encode_varint(v)[i] = Digit(v, i) + (IF i < VarintLen(v) THEN 128 ELSE 0)
<1>1. VarintLen(v) \in Nat /\ \A i \in 1 .. VarintLen(v) : i \in {1, 2, 3, 4, 5}
  BY LenBounds, SMT
<1>2. \A i \in 1 .. VarintLen(v) : Digit(v, i) + (IF i < VarintLen(v) THEN 128 ELSE 0) \in Nat
  <2> TAKE i \in 1 .. VarintLen(v)
  <2>1. Digit(v, i) \in Nat
    BY <1>1, DigitRange
  <2> QED BY <2>1
<1> QED BY <1>1, <1>2 DEF encode_varint, Digit

-----------------------------------------------------------------------------
\* In front of anything, the bytes of v end where encode_varint ended them.
LEMMA EndsAtLength ==
  ASSUME NEW v \in Nat, v <= MaxVarint, NEW rest \in Seq(Nat)
  PROVE  LET buf == encode_varint(v) \o rest
             n   == VarintLen(v)
         IN  /\ buf \in Seq(Nat) /\ Len(buf) = n + Len(rest)
             /\ \A i \in {1, 2, 3, 4} : i < n => buf[i] = Digit(v, i) + 128
             /\ buf[n] = Digit(v, n)
             /\ \A m \in {1, 2, 3, 4} : Ends(buf, m) <=> m = n
<1> DEFINE buf == encode_varint(v) \o rest
           n   == VarintLen(v)
<1>1. n \in {1, 2, 3, 4} /\ n \in Nat
  BY LenBounds, SMT
<1> DEFINE e == encode_varint(v)
<1>e. /\ e \in Seq(Nat) /\ Len(e) = n
      /\ \A i \in 1 .. n : e[i] = Digit(v, i) + (IF i < n THEN 128 ELSE 0)
  BY EncodedBytes
<1>b. buf = e \o rest
  OBVIOUS
<1> HIDE DEF buf, n, e
<1>2. buf \in Seq(Nat) /\ Len(buf) = n + Len(rest) /\ \A i \in 1 .. n : buf[i] = e[i]
  BY <1>1, <1>e, <1>b
<1>3. \A i \in 1 .. n : buf[i] = Digit(v, i) + (IF i < n THEN 128 ELSE 0)
  BY <1>2, <1>e
<1>4. ASSUME NEW i \in {1, 2, 3, 4}, i < n
      PROVE  buf[i] = Digit(v, i) + 128 /\ buf[i] \in Nat /\ buf[i] >= 128
  <2>1. i \in 1 .. n
    BY <1>1, <1>4
  <2>2. Digit(v, i) \in Nat
    BY DigitRange
  <2> QED BY <1>3, <1>4, <2>1, <2>2
<1>5. buf[n] = Digit(v, n) /\ buf[n] \in Nat /\ buf[n] < 128
  <2>1. Digit(v, n) \in Nat /\ Digit(v, n) < 128
    BY <1>1, DigitRange
  <2>2. buf[n] = Digit(v, n) + 0
    BY <1>1, <1>3
  <2> QED BY <2>1, <2>2
<1>6. Len(rest) \in Nat
  OBVIOUS
<1>7. Ends(buf, n)
  <2>1. n \in 1 .. 4 /\ n <= Len(buf)
    BY <1>1, <1>2, <1>6, SMT
  <2>2. \A i \in 1 .. n - 1 : i \in {1, 2, 3, 4} /\ i < n
    BY <1>1, SMT
  <2>3. \A i \in 1 .. n - 1 : buf[i] >= 128
    BY <2>2, <1>4
  <2> QED BY <1>5, <2>1, <2>3 DEF Ends
<1>8. ASSUME NEW m \in {1, 2, 3, 4}, Ends(buf, m)
      PROVE  m = n
  <2>1. buf[m] < 128 /\ \A i \in 1 .. m - 1 : buf[i] >= 128
    BY <1>8 DEF Ends
  <2>2. ~ (m < n)
    BY <1>4, <2>1
  <2>3. ASSUME n < m PROVE FALSE
    <3>1. n \in 1 .. m - 1
      BY <1>1, <2>3, SMT
    <3> QED BY <1>5, <2>1, <3>1, SMT
  <2> QED BY <1>1, <2>2, <2>3, SMT
<1> QED BY <1>2, <1>4, <1>5, <1>7, <1>8 DEF buf, n

\* Whatever follows, decoding gives back every value up to the limit and
\* uses up exactly the bytes that encoding wrote (encode_varint,
\* decode_varint).
THEOREM VarintRoundTrip ==
  \A v \in Nat, rest \in Seq(Nat) :
    v <= MaxVarint => decode_varint(encode_varint(v) \o rest) = Value(v, VarintLen(v))
<1> SUFFICES ASSUME NEW v \in Nat, NEW rest \in Seq(Nat), v <= MaxVarint
             PROVE  decode_varint(encode_varint(v) \o rest) = Value(v, VarintLen(v))
  OBVIOUS
<1> DEFINE buf == encode_varint(v) \o rest
           n   == VarintLen(v)
<1>1. n \in {1, 2, 3, 4}
  BY LenBounds, SMT
<1>2. /\ \A i \in {1, 2, 3, 4} : i < n => buf[i] = Digit(v, i) + 128
      /\ buf[n] = Digit(v, n)
      /\ \A m \in {1, 2, 3, 4} : Ends(buf, m) <=> m = n
  BY EndsAtLength, ZenonT(60)
<1> HIDE DEF buf, n
<1>3. \A i \in {1, 2, 3, 4} : Part(buf, i, n) = Digit(v, i) * Place[i]
  <2> TAKE i \in {1, 2, 3, 4}
  <2>1. Digit(v, i) \in Nat /\ Digit(v, i) < 128
    BY DigitRange
  <2>2. CASE i < n
    <3>a. buf[i] = Digit(v, i) + 128
      BY <1>2, <2>2
    <3>1. buf[i] % 128 = Digit(v, i)
      BY <3>a, <2>1, Continued
    <3> QED BY <1>1, <2>2, <3>1 DEF Part
  <2>3. CASE i = n
    <3>1. buf[i] % 128 = Digit(v, i)
      BY <1>2, <2>1, <2>3, Continued
    <3> QED BY <1>1, <2>3, <3>1 DEF Part
  <2>4. CASE i > n
    <3>1. Digit(v, i) = 0
      BY <2>4, HighDigits DEF n
    <3>2. Place[i] \in Nat
      BY PlaceValues, SMT
    <3>3. Part(buf, i, n) = 0
      BY <1>1, <2>4, SMT DEF Part
    <3> QED BY <3>1, <3>2, <3>3
  <2> QED BY <1>1, <2>2, <2>3, <2>4
<1>4. Part(buf, 1, n) + Part(buf, 2, n) + Part(buf, 3, n) + Part(buf, 4, n) = v
  <2> DEFINE d(i) == Digit(v, i)
  <2>1. d(1) \in Nat /\ d(2) \in Nat /\ d(3) \in Nat /\ d(4) \in Nat
    BY DigitRange
  <2>2. v = d(1) + d(2) * 128 + d(3) * 16384 + d(4) * 2097152
    BY SumOfDigits
  <2>3. /\ Part(buf, 1, n) = d(1) * 1 /\ Part(buf, 2, n) = d(2) * 128
        /\ Part(buf, 3, n) = d(3) * 16384 /\ Part(buf, 4, n) = d(4) * 2097152
    BY <1>3, PlaceValues
  <2> HIDE DEF d
  <2> QED BY <2>1, <2>2, <2>3, SMT
<1>5. /\ \E m \in 1 .. 4 : Ends(buf, m)
      /\ (CHOOSE m \in 1 .. 4 : Ends(buf, m)) = n
  <2>1. \A m \in 1 .. 4 : Ends(buf, m) <=> m = n
    BY <1>2, SMT
  <2>2. n \in 1 .. 4
    BY <1>1, SMT
  <2> QED BY <2>1, <2>2
<1> QED BY <1>4, <1>5 DEF decode_varint, buf, n

\* A value that has arrived in part is reported as incomplete, never as an
\* error or as another value: the read loop then waits (decode_varint).
THEOREM VarintPrefix ==
  \A v \in Nat : \A k \in Nat :
    (v <= MaxVarint /\ k < VarintLen(v)) =>
      decode_varint(SubSeq(encode_varint(v), 1, k)) = Failed("Incomplete")
<1> SUFFICES ASSUME NEW v \in Nat, NEW k \in Nat, v <= MaxVarint, k < VarintLen(v)
             PROVE  decode_varint(SubSeq(encode_varint(v), 1, k)) = Failed("Incomplete")
  OBVIOUS
<1> DEFINE n   == VarintLen(v)
           e   == encode_varint(v)
           buf == SubSeq(e, 1, k)
<1>1. n \in {1, 2, 3, 4} /\ k < n
  BY LenBounds, SMT
<1>2. /\ e \in Seq(Nat) /\ Len(e) = n
      /\ \A i \in 1 .. n : e[i] = Digit(v, i) + (IF i < n THEN 128 ELSE 0)
  BY EncodedBytes
<1> HIDE DEF n, e
<1>3. Len(buf) = k /\ \A i \in 1 .. k : buf[i] = e[i]
  BY <1>1, <1>2
<1> HIDE DEF buf
<1>4. ASSUME NEW i \in 1 .. k
      PROVE  ~ (buf[i] < 128)
  <2>1. i \in 1 .. n /\ i < n /\ i \in {1, 2, 3, 4, 5}
    BY <1>1, SMT
  <2>2. Digit(v, i) \in Nat
    BY <2>1, DigitRange
  <2>3. buf[i] = Digit(v, i) + 128
    BY <1>2, <1>3, <2>1
  <2> QED BY <2>2, <2>3, SMT
<1>5. ASSUME NEW m \in 1 .. 4
      PROVE  ~ Ends(buf, m)
  <2>1. m <= k => m \in 1 .. k
    OBVIOUS
  <2> QED BY <1>3, <1>4, <2>1 DEF Ends
<1>6. ~ (Len(buf) >= 4)
  BY <1>1, <1>3, SMT
<1> QED BY <1>5, <1>6 DEF decode_varint, buf, e

\* A larger value is written with five bytes, which decoding rejects
\* (encode_varint checks no limit, decode_varint does).
THEOREM VarintTooLarge ==
  \A v \in Nat : v > MaxVarint => decode_varint(encode_varint(v)) = Failed("InvalidVarint")
<1> SUFFICES ASSUME NEW v \in Nat, v > MaxVarint
             PROVE  decode_varint(encode_varint(v)) = Failed("InvalidVarint")
  OBVIOUS
<1> DEFINE e == encode_varint(v)
<1>0. MaxVarint \in Nat
  BY SMT DEF MaxVarint
<1>1. VarintLen(v) = 5
  BY <1>0, LenBounds, SMT
<1>2. Len(e) = 5 /\ \A i \in 1 .. 5 : e[i] = Digit(v, i) + (IF i < 5 THEN 128 ELSE 0)
  BY <1>1, EncodedBytes
<1> HIDE DEF e
<1>3. ASSUME NEW m \in 1 .. 4
      PROVE  ~ Ends(e, m)
  <2>1. m \in {1, 2, 3, 4, 5} /\ m \in 1 .. 5 /\ m < 5
    BY SMT
  <2>2. Digit(v, m) \in Nat /\ e[m] = Digit(v, m) + 128
    BY <1>2, <2>1, DigitRange, SMTT(30)
  <2> QED BY <2>2 DEF Ends
<1> QED BY <1>2, <1>3 DEF decode_varint, e

\* Whatever the bytes are, a decoded value is within the limit, and no more
\* bytes are used than there are (the slices behind decode_varint in
\* decode_packet and in the property decoders).
THEOREM VarintInBounds ==
  \A buf \in Seq(Nat) :
    decode_varint(buf).err = "none" =>
      /\ decode_varint(buf).read \in 1 .. 4 /\ decode_varint(buf).read <= Len(buf)
      /\ decode_varint(buf).val \in Nat /\ decode_varint(buf).val <= MaxVarint
<1> SUFFICES ASSUME NEW buf \in Seq(Nat), decode_varint(buf).err = "none"
             PROVE  /\ decode_varint(buf).read \in 1 .. 4 /\ decode_varint(buf).read <= Len(buf)
                    /\ decode_varint(buf).val \in Nat /\ decode_varint(buf).val <= MaxVarint
  OBVIOUS
<1> DEFINE n == CHOOSE n \in 1 .. 4 : Ends(buf, n)
           p(i) == Part(buf, i, n)
<1>1. \E m \in 1 .. 4 : Ends(buf, m)
  BY DEF decode_varint, Failed
<1>2. n \in 1 .. 4 /\ Ends(buf, n)
  BY <1>1
<1>3. decode_varint(buf) = Value(p(1) + p(2) + p(3) + p(4), n)
  BY <1>1 DEF decode_varint
<1> HIDE DEF n
<1>4. n <= Len(buf) /\ Len(buf) \in Nat
  BY <1>2 DEF Ends
<1>5. ASSUME NEW i \in {1, 2, 3, 4}
      PROVE  p(i) \in Nat /\ p(i) <= 127 * Place[i]
  <2>1. Place[i] \in Nat
    BY PlaceValues, SMT
  <2>2. CASE i <= n
    <3>1. i \in 1 .. Len(buf)
      BY <1>2, <1>4, <2>2, SMT
    <3>2. buf[i] \in Nat
      BY <3>1
    <3>3. buf[i] % 128 \in Nat /\ buf[i] % 128 <= 127
      BY <3>2, DivMod128, SMT
    <3> DEFINE r == buf[i] % 128
    <3>4. p(i) = r * Place[i]
      BY <2>2 DEF Part
    <3> HIDE DEF r
    <3>5. r \in Nat /\ r <= 127
      BY <3>3 DEF r
    <3>6. Place[i] \in {1, 128, 16384, 2097152}
      BY PlaceValues, SMT
    <3>7. r * Place[i] \in Nat /\ r * Place[i] <= 127 * Place[i]
      BY <3>5, <3>6, SMT
    <3> QED BY <3>4, <3>7
  <2>3. CASE ~ (i <= n)
    <3>1. p(i) = 0
      BY <2>3 DEF Part
    <3>2. 0 <= 127 * Place[i]
      BY <2>1, SMT
    <3> QED BY <3>1, <3>2
  <2> QED BY <2>2, <2>3
<1> HIDE DEF p
<1>6. /\ p(1) \in Nat /\ p(2) \in Nat /\ p(3) \in Nat /\ p(4) \in Nat
      /\ p(1) <= 127 * 1 /\ p(2) <= 127 * 128 /\ p(3) <= 127 * 16384 /\ p(4) <= 127 * 2097152
  <2>1. /\ p(1) \in Nat /\ p(2) \in Nat /\ p(3) \in Nat /\ p(4) \in Nat
        /\ p(1) <= 127 * Place[1] /\ p(2) <= 127 * Place[2]
        /\ p(3) <= 127 * Place[3] /\ p(4) <= 127 * Place[4]
    BY <1>5
  <2>2. Place[1] = 1 /\ Place[2] = 128 /\ Place[3] = 16384 /\ Place[4] = 2097152
    BY PlaceValues
  <2> QED BY <2>1, <2>2, SMT
<1>7. p(1) + p(2) + p(3) + p(4) \in Nat /\ p(1) + p(2) + p(3) + p(4) <= 268435455
  BY <1>6, SMTT(30)
<1> QED BY <1>2, <1>3, <1>4, <1>7, SMT DEF Value, MaxVarint

-----------------------------------------------------------------------------
(* Sequences.                                                              *)

\* Three sequences in a row.
Assoc(T, s, t, u) ==
  s \o t \in Seq(T) /\ t \o u \in Seq(T) /\ (s \o t) \o u = s \o (t \o u)

LEMMA Joined ==
  ASSUME NEW T, NEW s \in Seq(T), NEW t \in Seq(T), NEW u \in Seq(T)
  PROVE  Assoc(T, s, t, u)
BY ConcatProperties, ConcatAssociative DEF Assoc

\* What is in front of t can be split off.
LEMMA MoveFirst ==
  ASSUME NEW T, NEW t \in Seq(T), t # << >>
  PROVE  /\ Head(t) \in T /\ Tail(t) \in Seq(T) /\ <<Head(t)>> \in Seq(T)
         /\ <<Head(t)>> \o Tail(t) = t
<1>1. PICK h, u, o : h = Head(t) /\ u = Tail(t) /\ o = <<h>>
  OBVIOUS
<1>2. h \in T /\ u \in Seq(T) /\ Len(u) = Len(t) - 1 /\ \A i \in 1 .. Len(u) : u[i] = t[i + 1]
  BY <1>1, HeadTailProperties
<1>3. o \in Seq(T) /\ Len(o) = 1 /\ o[1] = t[1]
  BY <1>1, <1>2
<1>4. PICK v : v = o \o u
  OBVIOUS
<1>5. /\ v \in Seq(T) /\ Len(v) = Len(o) + Len(u)
      /\ \A i \in 1 .. Len(o) + Len(u) : v[i] = IF i <= Len(o) THEN o[i] ELSE u[i - Len(o)]
  <2>1. o \in Seq(T) /\ u \in Seq(T)
    BY <1>2, <1>3
  <2> QED BY <1>4, <2>1, ConcatProperties
<1>6. Len(t) \in Nat /\ Len(u) \in Nat
  BY <1>2
<1>7. Len(v) = Len(t)
  BY <1>2, <1>3, <1>5, <1>6
<1>8. \A i \in 1 .. Len(v) : v[i] = t[i]
  BY <1>2, <1>3, <1>5, <1>6
<1>9. v = t
  BY <1>5, <1>7, <1>8, SeqEqual
<1> QED BY <1>1, <1>2, <1>3, <1>4, <1>9

\* A prefix of s is a prefix of what s is extended to.
LEMMA PrefixOfConcat ==
  ASSUME NEW T, NEW w \in Seq(T), NEW s \in Seq(T), NEW m \in Seq(T)
  PROVE  /\ IsPrefix(w, w \o m)
         /\ IsPrefix(w, s) => IsPrefix(w, s \o m)
<1>0. Len(w) \in Nat /\ Len(s) \in Nat /\ Len(m) \in Nat
  OBVIOUS
<1>1. ASSUME NEW x \in Seq(T)
      PROVE  IsPrefix(w, x) <=> Len(w) <= Len(x) /\ \A i \in 1 .. Len(w) : w[i] = x[i]
  <2>1. SubSeq(w, 1, Len(w)) \in Seq(T) /\ Len(SubSeq(w, 1, Len(w))) = Len(w)
        /\ \A i \in 1 .. Len(w) : SubSeq(w, 1, Len(w))[i] = w[i]
    BY <1>0
  <2>2. ASSUME Len(w) <= Len(x)
        PROVE  /\ SubSeq(x, 1, Len(w)) \in Seq(T) /\ Len(SubSeq(x, 1, Len(w))) = Len(w)
               /\ \A i \in 1 .. Len(w) : SubSeq(x, 1, Len(w))[i] = x[i]
    BY <1>0, <2>2
  <2>3. PICK a, b : a = SubSeq(w, 1, Len(w)) /\ b = SubSeq(x, 1, Len(w))
    OBVIOUS
  <2>4. ASSUME Len(w) <= Len(x), \A i \in 1 .. Len(w) : w[i] = x[i] PROVE a = b
    <3>1. /\ a \in Seq(T) /\ b \in Seq(T) /\ Len(a) = Len(w) /\ Len(b) = Len(w)
          /\ \A i \in 1 .. Len(w) : a[i] = b[i]
      BY <2>1, <2>2, <2>3, <2>4
    <3> QED BY <3>1, SeqEqual
  <2>5. ASSUME Len(w) <= Len(x), a = b PROVE \A i \in 1 .. Len(w) : w[i] = x[i]
    BY <2>1, <2>2, <2>3, <2>5
  <2> QED BY <2>3, <2>4, <2>5 DEF IsPrefix
<1>2. ASSUME NEW x \in Seq(T)
      PROVE  /\ x \o m \in Seq(T) /\ Len(x \o m) = Len(x) + Len(m)
             /\ \A i \in 1 .. Len(x) : (x \o m)[i] = x[i]
  BY <1>0
<1>3. IsPrefix(w, w \o m)
  <2>1. PICK x : x = w \o m /\ x \in Seq(T) /\ Len(x) = Len(w) + Len(m) /\ \A i \in 1 .. Len(w) : x[i] = w[i]
    BY <1>2
  <2>2. Len(w) <= Len(x) /\ \A i \in 1 .. Len(w) : w[i] = x[i]
    BY <1>0, <2>1
  <2> QED BY <1>1, <2>1, <2>2
<1>4. ASSUME IsPrefix(w, s) PROVE IsPrefix(w, s \o m)
  <2>1. Len(w) <= Len(s) /\ \A i \in 1 .. Len(w) : w[i] = s[i]
    BY <1>1, <1>4
  <2>2. PICK x : x = s \o m /\ x \in Seq(T) /\ Len(x) = Len(s) + Len(m) /\ \A i \in 1 .. Len(s) : x[i] = s[i]
    BY <1>2
  <2>3. Len(w) <= Len(x) /\ \A i \in 1 .. Len(w) : w[i] = x[i]
    BY <1>0, <2>1, <2>2
  <2> QED BY <1>1, <2>2, <2>3
<1> QED BY <1>3, <1>4

LEMMA FlattenAppend ==
  ASSUME NEW T, NEW ss \in Seq(Seq(T)), NEW x \in Seq(T)
  PROVE  FlattenSeq(ss) \in Seq(T) /\ FlattenSeq(Append(ss, x)) = FlattenSeq(ss) \o x
<1>0. PICK tt : tt = Append(ss, x)
  OBVIOUS
<1>1. /\ tt \in Seq(Seq(T)) /\ Len(tt) = Len(ss) + 1 /\ Len(ss) \in Nat /\ tt[Len(ss) + 1] = x
      /\ \A i \in 1 .. Len(ss) : tt[i] = ss[i]
  <2> DEFINE S == Seq(T)
  <2>1. ss \in Seq(S) /\ x \in S
    OBVIOUS
  <2> HIDE DEF S
  <2>2. /\ tt \in Seq(S) /\ Len(tt) = Len(ss) + 1 /\ Len(ss) \in Nat /\ tt[Len(ss) + 1] = x
        /\ \A i \in 1 .. Len(ss) : tt[i] = ss[i]
    BY <1>0, <2>1, AppendProperties
  <2> QED BY <2>2 DEF S
<1>2. FlattenSeq(ss) \in Seq(T)
  BY FlattenElements
<1>3. PICK k : FlattenTrace(T, tt, k)
  <2>1. Len(tt) # 0
    BY <1>1
  <2> QED BY <1>1, <2>1, FlattenRounds
<1>4. CASE Len(ss) = 0
  <2>1. FlattenSeq(tt) = x
    BY <1>1, <1>3, <1>4 DEF FlattenTrace
  <2>2. FlattenSeq(ss) = << >>
    <3>1. ss = << >>
      BY <1>4
    <3> QED BY <3>1 DEF FlattenSeq
  <2>3. << >> \o x = x
    BY ConcatEmptySeq
  <2> QED BY <1>0, <1>2, <2>1, <2>2, <2>3
<1>5. CASE Len(ss) # 0
  <2>1. PICK j : FlattenTrace(T, ss, j)
    BY <1>5, FlattenRounds
  <2> DEFINE S == {n \in Nat : n \in 1 .. Len(ss) => k[n] = j[n]}
  <2>2. 0 \in S
    OBVIOUS
  <2>3. ASSUME NEW n \in Nat, n \in S PROVE n + 1 \in S
    <3>1. CASE n = 0
      BY <1>1, <1>3, <2>1, <3>1 DEF FlattenTrace
    <3>2. ASSUME n # 0, n + 1 \in 1 .. Len(ss) PROVE k[n + 1] = j[n + 1]
      <4>1. n \in 1 .. Len(ss) /\ n + 1 \in 2 .. Len(ss) /\ n + 1 \in 2 .. Len(tt) /\ (n + 1) - 1 = n
        <5>1. PICK l, m : l = Len(ss) /\ m = Len(tt) /\ l \in Nat /\ m = l + 1 /\ n + 1 \in 1 .. l
          BY <1>1, <3>2
        <5>2. n \in 1 .. l /\ n + 1 \in 2 .. l /\ n + 1 \in 2 .. m /\ (n + 1) - 1 = n
          BY <3>2, <5>1
        <5> QED BY <5>1, <5>2
      <4>2. k[n + 1] = k[n] \o tt[n + 1] /\ j[n + 1] = j[n] \o ss[n + 1]
        BY <1>3, <2>1, <4>1 DEF FlattenTrace
      <4> QED BY <1>1, <2>3, <3>2, <4>1, <4>2
    <3> QED BY <3>1, <3>2
  <2> HIDE DEF S
  <2>4. Len(ss) \in S
    BY <1>1, <2>2, <2>3, SetInduction
  <2>5. k[Len(ss)] = j[Len(ss)]
    BY <1>1, <1>5, <2>4 DEF S
  <2>6. k[Len(ss) + 1] = k[Len(ss)] \o x
    <3>1. Len(ss) + 1 \in 2 .. Len(tt) /\ (Len(ss) + 1) - 1 = Len(ss)
      BY <1>1, <1>5
    <3> QED BY <1>1, <1>3, <3>1 DEF FlattenTrace
  <2>7. FlattenSeq(tt) = k[Len(ss) + 1] /\ FlattenSeq(ss) = j[Len(ss)]
    BY <1>1, <1>3, <2>1 DEF FlattenTrace
  <2> QED BY <1>0, <1>2, <2>5, <2>6, <2>7
<1> QED BY <1>4, <1>5

\* Every element of u by its image.
Image(f, u) == [i \in DOMAIN u |-> f[u[i]]]

\* What the images make together grows at its end.
Grown(T, f, s, m) ==
  /\ FlattenSeq(Image(f, s)) \in Seq(T)
  /\ FlattenSeq(Image(f, Append(s, m))) = FlattenSeq(Image(f, s)) \o f[m]

LEMMA FlattenImageAppend ==
  ASSUME NEW P, NEW T, NEW f \in [P -> Seq(T)], NEW s \in Seq(P), NEW m \in P
  PROVE  Grown(T, f, s, m)
<1> DEFINE S == Seq(T)
           u0 == Append(s, m)
<1>1. \A a \in P : f[a] \in S
  OBVIOUS
<1>2. ASSUME NEW u \in Seq(P)
      PROVE  Image(f, u) \in Seq(S) /\ Len(Image(f, u)) = Len(u) /\ DOMAIN u = 1 .. Len(u)
  <2>1. DOMAIN u = 1 .. Len(u) /\ Len(u) \in Nat /\ \A i \in 1 .. Len(u) : u[i] \in P
    OBVIOUS
  <2>2. \A i \in 1 .. Len(u) : f[u[i]] \in S
    BY <1>1, <2>1
  <2> HIDE DEF S
  <2> QED BY <2>1, <2>2 DEF Image
<1>3. u0 \in Seq(P) /\ Len(u0) = Len(s) + 1 /\ Len(s) \in Nat /\ u0[Len(s) + 1] = m
      /\ \A i \in 1 .. Len(s) : u0[i] = s[i]
  BY AppendProperties
<1> HIDE DEF S, u0
<1>4. Image(f, u0) = Append(Image(f, s), f[m])
  <2>1. PICK a, b : a = Image(f, u0) /\ b = Append(Image(f, s), f[m])
    OBVIOUS
  <2>2. a \in Seq(S) /\ Len(a) = Len(s) + 1 /\ Image(f, s) \in Seq(S) /\ Len(Image(f, s)) = Len(s)
    BY <1>2, <1>3, <2>1
  <2>3. b \in Seq(S) /\ Len(b) = Len(s) + 1 /\ b[Len(s) + 1] = f[m]
        /\ \A i \in 1 .. Len(s) : b[i] = Image(f, s)[i]
    <3>1. f[m] \in S
      BY <1>1
    <3> QED BY <2>1, <2>2, <3>1, AppendProperties
  <2>4. ASSUME NEW i \in 1 .. Len(s) + 1 PROVE a[i] = b[i]
    <3>1. a[i] = f[u0[i]]
      BY <1>2, <1>3, <2>1 DEF Image
    <3>2. CASE i = Len(s) + 1
      BY <1>3, <2>3, <3>1, <3>2
    <3>3. CASE i # Len(s) + 1
      <4>1. i \in 1 .. Len(s)
        BY <1>3, <3>3
      <4>2. Image(f, s)[i] = f[s[i]]
        BY <1>2, <4>1 DEF Image
      <4> QED BY <1>3, <2>3, <3>1, <4>1, <4>2
    <3> QED BY <3>2, <3>3
  <2>5. a = b
    BY <2>2, <2>3, <2>4, SeqEqual
  <2> QED BY <2>1, <2>5
<1>5. Image(f, s) \in Seq(Seq(T)) /\ f[m] \in Seq(T)
  <2>1. Image(f, s) \in Seq(S) /\ f[m] \in S
    BY <1>1, <1>2
  <2> QED BY <2>1 DEF S
<1>7. /\ FlattenSeq(Image(f, s)) \in Seq(T)
      /\ FlattenSeq(Append(Image(f, s), f[m])) = FlattenSeq(Image(f, s)) \o f[m]
  BY <1>5, FlattenAppend
<1> QED BY <1>4, <1>7 DEF u0, Grown

-----------------------------------------------------------------------------
(* The frame at the front of a buffer.                                     *)

LEMMA DropFacts ==
  ASSUME NEW T, NEW s \in Seq(T), NEW k \in 0 .. Len(s)
  PROVE  /\ Drop(s, k) \in Seq(T) /\ Len(Drop(s, k)) = Len(s) - k
         /\ \A i \in 1 .. Len(s) - k : Drop(s, k)[i] = s[k + i]
<1>1. Len(s) \in Nat /\ \A i \in 1 .. Len(s) : s[i] \in T
  OBVIOUS
<1>2. /\ SubSeq(s, k + 1, Len(s)) \in Seq(T) /\ Len(SubSeq(s, k + 1, Len(s))) = Len(s) - k
      /\ \A i \in 1 .. Len(s) - k : SubSeq(s, k + 1, Len(s))[i] = s[k + i]
  <2>1. /\ k + 1 \in 1 .. Len(s) + 1
        /\ SubSeq(s, k + 1, Len(s)) \in Seq(T) /\ Len(SubSeq(s, k + 1, Len(s))) = IF k + 1 <= Len(s) THEN Len(s) - (k + 1) + 1 ELSE 0
        /\ \A i \in 1 .. Len(s) - (k + 1) + 1 : SubSeq(s, k + 1, Len(s))[i] = s[k + 1 + i - 1]
    BY <1>1, SubSeqProperties
  <2> QED BY <1>1, <2>1
<1> QED BY <1>2 DEF Drop

\* What w is, as s followed by m, and as the part of s from x to y.
JoinOf(T, s, m, w) ==
  /\ w \in Seq(T) /\ Len(w) = Len(s) + Len(m)
  /\ \A i \in 1 .. Len(s) + Len(m) : w[i] = IF i <= Len(s) THEN s[i] ELSE m[i - Len(s)]
PartOf(T, s, x, y, w) ==
  /\ w \in Seq(T) /\ Len(w) = IF x <= y THEN y - x + 1 ELSE 0
  /\ \A i \in 1 .. y - x + 1 : w[i] = s[x + i - 1]

LEMMA JoinIs ==
  ASSUME NEW T, NEW s \in Seq(T), NEW m \in Seq(T)
  PROVE  JoinOf(T, s, m, s \o m)
BY ConcatProperties, Zenon DEF JoinOf

LEMMA PartIs ==
  ASSUME NEW T, NEW s, NEW x \in Int, NEW y \in Int, \A i \in x .. y : s[i] \in T
  PROVE  PartOf(T, s, x, y, SubSeq(s, x, y))
BY SubSeqProperties DEF PartOf

LEMMA BytesAreNumbers == ASSUME NEW s \in Seq(Byte) PROVE s \in Seq(Nat)
<1>1. Byte \subseteq Nat
  BY DEF Byte
<1> QED BY <1>1, SeqMonotonic

LEMMA NumberRead ==
  ASSUME NEW d \in Seq(Byte), NEW n, n = decode_varint(d), n.err = "none"
  PROVE  n.read \in Nat /\ n.val \in Nat /\ n.read >= 1 /\ n.read <= Len(d)
<1>1. d \in Seq(Nat) /\ decode_varint(d).err = "none"
  BY BytesAreNumbers
<1>2. /\ decode_varint(d).read \in 1 .. 4 /\ decode_varint(d).read <= Len(d)
      /\ decode_varint(d).val \in Nat
  BY <1>1, VarintInBounds, Zenon
<1> QED BY <1>2

\* The next one goes on where one sequence ends, or from the front.
LEMMA DropOfConcat ==
  ASSUME NEW T, NEW s \in Seq(T), NEW m \in Seq(T), NEW k \in 0 .. Len(s)
  PROVE  Drop(s \o m, k) = Drop(s, k) \o m
<1>1. PICK w : w = s \o m
  OBVIOUS
<1>2. /\ w \in Seq(T) /\ Len(w) = Len(s) + Len(m) /\ Len(s) \in Nat /\ Len(m) \in Nat
      /\ \A i \in 1 .. Len(s) + Len(m) : w[i] = IF i <= Len(s) THEN s[i] ELSE m[i - Len(s)]
  BY <1>1, ConcatProperties
<1>3. PICK d, e, c : d = Drop(w, k) /\ e = Drop(s, k) /\ c = e \o m
  OBVIOUS
<1>4. /\ d \in Seq(T) /\ Len(d) = Len(w) - k /\ \A i \in 1 .. Len(w) - k : d[i] = w[k + i]
      /\ e \in Seq(T) /\ Len(e) = Len(s) - k /\ \A i \in 1 .. Len(s) - k : e[i] = s[k + i]
  <2>1. k \in 0 .. Len(w)
    BY <1>2
  <2>2. w \in Seq(T)
    BY <1>2
  <2>3. d \in Seq(T) /\ Len(d) = Len(w) - k /\ \A i \in 1 .. Len(w) - k : d[i] = w[k + i]
    BY <1>3, <2>1, <2>2, DropFacts
  <2>4. e \in Seq(T) /\ Len(e) = Len(s) - k /\ \A i \in 1 .. Len(s) - k : e[i] = s[k + i]
    BY <1>3, DropFacts
  <2> QED BY <2>3, <2>4
<1>5. /\ c \in Seq(T) /\ Len(c) = Len(e) + Len(m)
      /\ \A i \in 1 .. Len(e) + Len(m) : c[i] = IF i <= Len(e) THEN e[i] ELSE m[i - Len(e)]
  <2>1. e \in Seq(T)
    BY <1>4
  <2>2. JoinOf(T, e, m, c)
    BY <1>3, <2>1, JoinIs, Zenon
  <2> QED BY <2>2, Zenon DEF JoinOf
<1>6. Len(c) = Len(d) /\ k \in Nat
  BY <1>2, <1>4, <1>5
<1>7. ASSUME NEW i \in 1 .. Len(d) PROVE d[i] = c[i]
  <2>1. CASE i <= Len(e)
    <3>1. d[i] = w[k + i] /\ c[i] = e[i] /\ e[i] = s[k + i] /\ w[k + i] = s[k + i]
      BY <1>2, <1>4, <1>5, <1>6, <2>1
    <3> QED BY <3>1
  <2>2. CASE ~ (i <= Len(e))
    <3>1. /\ i \in 1 .. Len(w) - k /\ i \in 1 .. Len(e) + Len(m)
          /\ k + i \in 1 .. Len(s) + Len(m) /\ ~ (k + i <= Len(s))
          /\ (k + i) - Len(s) = i - Len(e)
      <4> HIDE <1>1, <1>3
      <4>1. PICK a, b, n : a = Len(s) /\ b = Len(m) /\ n = Len(w) /\ a \in Nat /\ b \in Nat /\ n = a + b
        BY <1>2
      <4>2. Len(d) = n - k /\ Len(e) = a - k /\ k \in 0 .. a
        BY <1>4, <4>1
      <4> QED BY <2>2, <4>1, <4>2
    <3>2. d[i] = w[k + i]
      BY <1>4, <3>1
    <3>3. c[i] = m[i - Len(e)]
      BY <1>5, <2>2, <3>1
    <3>4. w[k + i] = m[(k + i) - Len(s)]
      BY <1>2, <3>1
    <3> QED BY <3>1, <3>2, <3>3, <3>4
  <2> QED BY <2>1, <2>2
<1>8. d = c
  BY <1>4, <1>5, <1>6, <1>7, SeqEqual
<1> QED BY <1>1, <1>3, <1>8

\* Of s and what follows, without s.
LEMMA DropFirst ==
  ASSUME NEW T, NEW s \in Seq(T), NEW m \in Seq(T)
  PROVE  Drop(s \o m, Len(s)) = m
<1>1. Len(s) \in 0 .. Len(s)
  OBVIOUS
<1>2. Drop(s, Len(s)) \in Seq(T) /\ Len(Drop(s, Len(s))) = 0
  BY <1>1, DropFacts
<1>3. Drop(s, Len(s)) = << >>
  BY <1>2, EmptySeq
<1>4. Drop(s \o m, Len(s)) = Drop(s, Len(s)) \o m
  BY <1>1, DropOfConcat
<1> QED BY <1>3, <1>4, ConcatEmptySeq

\* What the packet at the front is decoded from.
Payload(buf, n) == DecodePayload(buf[1] \div 16, buf[1] % 16, SubSeq(buf, n.read + 2, 1 + n.read + n.val))

\* decode_packet without its continuations.
Framed(p, total) == IF p.err = "none" THEN Value(p.val, total) ELSE Failed(p.err)
Decoded(buf, n) ==
  IF n.err # "none" THEN Failed(n.err)
  ELSE IF Len(buf) < 1 + n.read + n.val THEN Failed("Incomplete")
  ELSE Framed(Payload(buf, n), 1 + n.read + n.val)

LEMMA DecodePacketIs ==
  ASSUME NEW buf \in Seq(Byte)
  PROVE  decode_packet(buf) = IF Len(buf) < 1 THEN Failed("Incomplete")
                              ELSE Decoded(buf, decode_varint(Drop(buf, 1)))
<1>1. CASE Len(buf) < 1
  <2>1. read_raw(1, buf) = Failed("Incomplete")
    BY <1>1 DEF read_raw
  <2>2. read_u8(buf) = Failed("Incomplete")
    BY <2>1 DEF read_u8, Then, Failed
  <2>3. decode_packet(buf) = Failed("Incomplete")
    BY <2>2 DEF decode_packet, Then, Failed
  <2> QED BY <1>1, <2>3
<1>2. CASE ~ (Len(buf) < 1)
  <2>1. read_raw(1, buf) = Got(Take(buf, 1), Drop(buf, 1))
    BY <1>2 DEF read_raw
  <2>2. Take(buf, 1)[1] = buf[1]
    BY <1>2 DEF Take
  <2>3. read_u8(buf) = Got(buf[1], Drop(buf, 1))
    BY <2>1, <2>2 DEF read_u8, Then, Got
  <2>4. PICK n : n = decode_varint(Drop(buf, 1))
    OBVIOUS
  <2>5. decode_packet(buf) = Decoded(buf, n)
    <3>0. Drop(buf, 1) \in Seq(Nat) /\ Len(buf) \in Nat
      <4>1. 1 \in 0 .. Len(buf) /\ Len(buf) \in Nat
        BY <1>2
      <4> QED BY <4>1, DropFacts, BytesAreNumbers
    <3>1. CASE n.err # "none"
      <4>1. decode_packet(buf) = Failed(n.err)
        BY <2>3, <2>4, <3>1, SMTT(30) DEF decode_packet, Then, Got
      <4> QED BY <3>1, <4>1 DEF Decoded
    <3>2. CASE n.err = "none"
      <4>1. n.read \in Nat /\ n.val \in Nat
        BY <2>4, <3>0, <3>2, VarintInBounds
      <4>2. PICK p, total : p = Payload(buf, n) /\ total = 1 + n.read + n.val
        OBVIOUS
      <4>3. total \in Nat
        BY <4>1, <4>2
      <4>4. CASE Len(buf) < total
        <5>1. ~ FrameIsThere(buf, total)
          BY <3>0, <4>3, <4>4 DEF FrameIsThere
        <5>2. decode_packet(buf) = Failed("Incomplete")
          BY <2>3, <2>4, <3>2, <4>2, <5>1, SMTT(30) DEF decode_packet, Then, Got
        <5> QED BY <3>2, <4>2, <4>4, <5>2 DEF Decoded
      <4>5. CASE ~ (Len(buf) < total)
        <5>1. FrameIsThere(buf, total)
          BY <3>0, <4>3, <4>5 DEF FrameIsThere
        <5>2. decode_packet(buf) = Framed(p, total)
          <6>1. PICK h : /\ h = read_u8(buf) /\ h.err = "none"
                         /\ h.val = buf[1] /\ h.rest = Drop(buf, 1)
            BY <2>3 DEF Got
          <6>2. p = DecodePayload(h.val \div 16, h.val % 16, SubSeq(buf, n.read + 2, total))
            BY <4>2, <6>1 DEF Payload
          <6>3. CASE p.err = "none"
            <7>1. decode_packet(buf) = Value(p.val, total)
              BY <2>4, <3>2, <4>2, <5>1, <6>1, <6>2, <6>3, ZenonT(60) DEF decode_packet, Then
            <7> QED BY <6>3, <7>1 DEF Framed
          <6>4. CASE p.err # "none"
            <7>1. decode_packet(buf) = Failed(p.err)
              BY <2>4, <3>2, <4>2, <5>1, <6>1, <6>2, <6>4, ZenonT(60) DEF decode_packet, Then
            <7> QED BY <6>4, <7>1 DEF Framed
          <6> QED BY <6>3, <6>4
        <5> QED BY <3>2, <4>2, <4>5, <5>2 DEF Decoded
      <4> QED BY <4>4, <4>5
    <3> QED BY <3>1, <3>2
  <2> QED BY <1>2, <2>4, <2>5
<1> QED BY <1>1, <1>2

-----------------------------------------------------------------------------
(* No reader looks past the end of its slice.                              *)

\* What a reader may complain about.
Errors == {"Incomplete", "MalformedPacket", "InvalidVarint"}

\* r is what a reader returns that takes at least k bytes of buf.
Takes(k, r, buf) ==
  \/ r.err \in Errors
  \/ r.err = "none" /\ r.rest \in Seq(Byte) /\ Len(r.rest) + k <= Len(buf)

LEMMA RawTakes ==
  ASSUME NEW buf \in Seq(Byte), NEW n \in Nat, NEW r, r = read_raw(n, buf)
  PROVE  /\ Takes(n, r, buf) /\ r.err # "panic"
         /\ r.err = "none" => /\ r.val \in Seq(Byte) /\ Len(r.val) = n /\ r.rest = Drop(buf, n)
                              /\ \A i \in 1 .. n : r.val[i] = buf[i]
<1>0. Len(buf) \in Nat
  OBVIOUS
<1>1. CASE Len(buf) < n
  <2>1. r = Failed("Incomplete")
    BY <1>1 DEF read_raw
  <2> QED BY <2>1 DEF Failed, Takes, Errors
<1>2. CASE ~ (Len(buf) < n)
  <2>1. r = Got(Take(buf, n), Drop(buf, n))
    BY <1>2 DEF read_raw
  <2>2. r.err = "none" /\ r.val = Take(buf, n) /\ r.rest = Drop(buf, n)
    BY <2>1 DEF Got
  <2>3. n \in 0 .. Len(buf)
    BY <1>0, <1>2
  <2>4. Drop(buf, n) \in Seq(Byte) /\ Len(Drop(buf, n)) = Len(buf) - n
    BY <2>3, DropFacts
  <2>5. Take(buf, n) \in Seq(Byte) /\ Len(Take(buf, n)) = n /\ \A i \in 1 .. n : Take(buf, n)[i] = buf[i]
    BY <1>0, <2>3 DEF Take
  <2>6. Len(r.rest) + n <= Len(buf)
    BY <1>0, <2>2, <2>4
  <2> QED BY <2>2, <2>4, <2>5, <2>6 DEF Takes
<1> QED BY <1>1, <1>2

LEMMA U8Takes ==
  ASSUME NEW buf \in Seq(Byte), NEW r, r = read_u8(buf)
  PROVE  Takes(1, r, buf) /\ (r.err = "none" => r.val \in Nat)
<1>1. PICK a : a = read_raw(1, buf)
  OBVIOUS
<1>2. /\ Takes(1, a, buf)
      /\ a.err = "none" => a.val \in Seq(Byte) /\ Len(a.val) = 1
  BY <1>1, RawTakes
<1>3. CASE a.err = "none"
  <2>1. r = Got(a.val[1], a.rest)
    BY <1>1, <1>3 DEF read_u8, Then
  <2>2. r.err = "none" /\ r.val = a.val[1] /\ r.rest = a.rest
    BY <2>1 DEF Got
  <2>3. r.val \in Nat
    <3>1. PICK v : v = a.val /\ v \in Seq(Byte) /\ Len(v) = 1
      BY <1>2, <1>3
    <3>2. v \in Seq(Nat)
      BY <3>1, BytesAreNumbers
    <3>3. v[1] \in Nat
      BY <3>1, <3>2
    <3> QED BY <2>2, <3>1, <3>3
  <2> QED BY <1>2, <1>3, <2>2, <2>3 DEF Takes, Errors
<1>4. CASE a.err # "none"
  <2>1. r = Failed(a.err)
    BY <1>1, <1>4 DEF read_u8, Then
  <2> QED BY <1>2, <1>4, <2>1 DEF Takes, Failed, Errors
<1> QED BY <1>3, <1>4

LEMMA U16Takes ==
  ASSUME NEW buf \in Seq(Byte), NEW r, r = read_u16(buf)
  PROVE  Takes(2, r, buf) /\ (r.err = "none" => r.val \in Nat)
<1>1. PICK a : a = read_raw(2, buf)
  OBVIOUS
<1>2. /\ Takes(2, a, buf)
      /\ a.err = "none" => a.val \in Seq(Byte) /\ Len(a.val) = 2
  BY <1>1, RawTakes
<1>3. CASE a.err = "none"
  <2>1. r = Got(a.val[1] * 256 + a.val[2], a.rest)
    BY <1>1, <1>3 DEF read_u16, Then
  <2>2. r.err = "none" /\ r.val = a.val[1] * 256 + a.val[2] /\ r.rest = a.rest
    BY <2>1 DEF Got
  <2>3. a.val[1] \in Nat /\ a.val[2] \in Nat
    <3>1. PICK v : v = a.val /\ v \in Seq(Byte) /\ Len(v) = 2
      BY <1>2, <1>3
    <3>2. v \in Seq(Nat)
      BY <3>1, BytesAreNumbers
    <3>3. v[1] \in Nat /\ v[2] \in Nat
      BY <3>1, <3>2
    <3> QED BY <3>1, <3>3
  <2>4. r.val \in Nat
    BY <2>2, <2>3
  <2> QED BY <1>2, <1>3, <2>2, <2>4 DEF Takes, Errors
<1>4. CASE a.err # "none"
  <2>1. r = Failed(a.err)
    BY <1>1, <1>4 DEF read_u16, Then
  <2> QED BY <1>2, <1>4, <2>1 DEF Takes, Failed, Errors
<1> QED BY <1>3, <1>4

\* One reader after another.
LEMMA TakesMore ==
  ASSUME NEW buf \in Seq(Byte), NEW j \in Nat, NEW k \in Nat, NEW r, NEW s,
         Takes(j, r, buf), r.err = "none", Takes(k, s, r.rest)
  PROVE  Takes(j + k, s, buf) /\ Takes(j, s, buf) /\ Takes(k, s, buf)
<1>1. r.rest \in Seq(Byte) /\ Len(r.rest) + j <= Len(buf)
  BY DEF Takes, Errors
<1>2. Len(buf) \in Nat /\ Len(r.rest) \in Nat
  BY <1>1
<1>3. CASE s.err \in Errors
  BY <1>3 DEF Takes
<1>4. CASE s.err = "none" /\ s.rest \in Seq(Byte) /\ Len(s.rest) + k <= Len(r.rest)
  <2>1. Len(s.rest) \in Nat
    BY <1>4
  <2>2. Len(s.rest) + (j + k) <= Len(buf) /\ Len(s.rest) + j <= Len(buf) /\ Len(s.rest) + k <= Len(buf)
    <3>1. PICK x, y, z : x = Len(s.rest) /\ y = Len(r.rest) /\ z = Len(buf)
      OBVIOUS
    <3>2. x \in Nat /\ y \in Nat /\ z \in Nat /\ x + k <= y /\ y + j <= z
      BY <1>1, <1>2, <1>4, <2>1, <3>1
    <3>3. x + (j + k) <= z /\ x + j <= z /\ x + k <= z
      BY <3>2
    <3> QED BY <3>1, <3>3
  <2> QED BY <1>4, <2>2 DEF Takes
<1> QED BY <1>3, <1>4 DEF Takes

LEMMA BytesTakes ==
  ASSUME NEW buf \in Seq(Byte), NEW r, r = read_bytes(buf)
  PROVE  Takes(2, r, buf) /\ (r.err = "none" => r.val \in Seq(Byte))
<1>1. PICK n : n = read_u16(buf)
  OBVIOUS
<1>2. Takes(2, n, buf) /\ (n.err = "none" => n.val \in Nat)
  BY <1>1, U16Takes
<1>3. CASE n.err = "none"
  <2>1. r = read_raw(n.val, n.rest)
    BY <1>1, <1>3 DEF read_bytes, Then
  <2>2. n.rest \in Seq(Byte) /\ n.val \in Nat
    BY <1>2, <1>3 DEF Takes, Errors
  <2>3. Takes(n.val, r, n.rest) /\ (r.err = "none" => r.val \in Seq(Byte))
    BY <2>1, <2>2, RawTakes
  <2>4. Takes(2, r, buf)
    BY <1>2, <1>3, <2>2, <2>3, TakesMore
  <2> QED BY <2>3, <2>4
<1>4. CASE n.err # "none"
  <2>1. r = Failed(n.err)
    BY <1>1, <1>4 DEF read_bytes, Then
  <2> QED BY <1>2, <1>4, <2>1 DEF Takes, Failed, Errors
<1> QED BY <1>3, <1>4

LEMMA StrTakes ==
  ASSUME NEW buf \in Seq(Byte), NEW r, r = read_str(buf)
  PROVE  Takes(2, r, buf)
<1>1. PICK n : n = read_bytes(buf)
  OBVIOUS
<1>2. Takes(2, n, buf)
  BY <1>1, BytesTakes
<1>3. CASE n.err = "none"
  <2>1. r = n \/ r = Failed("MalformedPacket")
    BY <1>1, <1>3 DEF read_str, Then
  <2> QED BY <1>2, <2>1 DEF Takes, Failed, Errors
<1>4. CASE n.err # "none"
  <2>1. r = Failed(n.err)
    BY <1>1, <1>4 DEF read_str, Then
  <2> QED BY <1>2, <1>4, <2>1 DEF Takes, Failed, Errors
<1> QED BY <1>3, <1>4

LEMMA PairTakes ==
  ASSUME NEW buf \in Seq(Byte), NEW r, r = read_pair(buf)
  PROVE  Takes(2, r, buf)
<1>1. PICK k, v : k = read_str(buf) /\ v = read_str(k.rest)
  OBVIOUS
<1>2. Takes(2, k, buf)
  BY <1>1, StrTakes
<1>3. CASE k.err # "none"
  <2>1. r = Failed(k.err)
    BY <1>1, <1>3 DEF read_pair, Then
  <2> QED BY <1>2, <1>3, <2>1 DEF Takes, Failed, Errors
<1>4. CASE k.err = "none"
  <2>1. k.rest \in Seq(Byte)
    BY <1>2, <1>4 DEF Takes, Errors
  <2>2. Takes(2, v, k.rest)
    BY <1>1, <2>1, StrTakes
  <2>3. Takes(2, v, buf)
    BY <1>2, <1>4, <2>2, TakesMore
  <2>4. CASE v.err # "none"
    <3>1. r = Failed(v.err)
      BY <1>1, <1>4, <2>4 DEF read_pair, Then
    <3> QED BY <2>3, <2>4, <3>1 DEF Takes, Failed, Errors
  <2>5. CASE v.err = "none"
    <3>1. r = Got(<<k.val, v.val>>, v.rest)
      BY <1>1, <1>4, <2>5 DEF read_pair, Then
    <3> QED BY <2>3, <2>5, <3>1 DEF Takes, Got, Errors
  <2> QED BY <2>4, <2>5
<1> QED BY <1>3, <1>4

LEMMA VarintTakes ==
  ASSUME NEW buf \in Seq(Byte), NEW r, r = read_varint(buf)
  PROVE  Takes(1, r, buf) /\ (r.err = "none" => r.val \in Nat)
<1>0. Len(buf) \in Nat
  OBVIOUS
<1>1. PICK n : n = decode_varint(buf)
  OBVIOUS
<1>2. n.err \in {"none", "Incomplete", "InvalidVarint"}
  BY <1>1 DEF decode_varint, Value, Failed
<1>3. CASE n.err # "none"
  <2>1. r = Failed(n.err)
    BY <1>1, <1>3 DEF read_varint, Then
  <2> QED BY <1>2, <1>3, <2>1 DEF Takes, Failed, Errors
<1>4. CASE n.err = "none"
  <2>1. r = Got(n.val, Drop(buf, n.read))
    BY <1>1, <1>4 DEF read_varint, Then
  <2>2. r.err = "none" /\ r.val = n.val /\ r.rest = Drop(buf, n.read)
    BY <2>1 DEF Got
  <2>3. n.read \in Nat /\ n.val \in Nat /\ n.read >= 1 /\ n.read <= Len(buf)
    BY <1>1, <1>4, NumberRead
  <2>4. n.read \in 0 .. Len(buf)
    BY <1>0, <2>3
  <2>5. r.rest \in Seq(Byte) /\ Len(r.rest) = Len(buf) - n.read
    BY <2>2, <2>4, DropFacts
  <2>6. Len(r.rest) + 1 <= Len(buf)
    BY <1>0, <2>3, <2>5
  <2> QED BY <2>2, <2>3, <2>5, <2>6 DEF Takes
<1> QED BY <1>3, <1>4

\* The types of the property tables.
Types == {"u8", "u16", "u32", "str", "bin", "pair", "varint"}

LEMMA TypedTakes ==
  ASSUME NEW buf \in Seq(Byte), NEW type \in Types, NEW r, r = ReadTyped(type, buf)
  PROVE  Takes(0, r, buf)
<1>0. ASSUME NEW k \in {1, 2, 4}, Takes(k, r, buf) PROVE Takes(0, r, buf)
  <2>1. CASE r.err \in Errors
    BY <2>1 DEF Takes
  <2>2. CASE r.err = "none" /\ r.rest \in Seq(Byte) /\ Len(r.rest) + k <= Len(buf)
    <3>1. Len(r.rest) \in Nat /\ Len(buf) \in Nat
      BY <2>2
    <3>2. Len(r.rest) + 0 <= Len(buf)
      BY <2>2, <3>1
    <3> QED BY <2>2, <3>2 DEF Takes
  <2> QED BY <1>0, <2>1, <2>2 DEF Takes
<1>1. CASE type = "u8"
  BY <1>0, <1>1, U8Takes DEF ReadTyped
<1>2. CASE type = "u16"
  BY <1>0, <1>2, U16Takes DEF ReadTyped
<1>3. CASE type = "u32"
  BY <1>0, <1>3, RawTakes DEF ReadTyped, read_u32
<1>4. CASE type = "str"
  BY <1>0, <1>4, StrTakes DEF ReadTyped
<1>5. CASE type = "bin"
  BY <1>0, <1>5, BytesTakes DEF ReadTyped
<1>6. CASE type = "pair"
  BY <1>0, <1>6, PairTakes DEF ReadTyped
<1>7. CASE type = "varint"
  BY <1>0, <1>7, VarintTakes DEF ReadTyped
<1> QED BY <1>1, <1>2, <1>3, <1>4, <1>5, <1>6, <1>7 DEF Types

-----------------------------------------------------------------------------
(* Loops over a slice.                                                     *)

\* R says what is read at the i-th of n bytes.
Chain(R, n) ==
  /\ n \in Nat
  /\ \A i \in 1 .. n : \/ R[i].err \in Errors
                       \/ R[i].err = "none" /\ R[i].rest \in Seq(Byte) /\ Len(R[i].rest) <= n - i

\* What the loop makes of it from the i-th byte on, g being what it makes of
\* the later ones.
ChainStep(R, n, g, i) ==
  IF i = n + 1 THEN Got(<< >>, << >>)
  ELSE IF R[i].err # "none" THEN Failed(R[i].err)
  ELSE IF g[n - Len(R[i].rest) + 1].err # "none" THEN Failed(g[n - Len(R[i].rest) + 1].err)
  ELSE Got(<<R[i].val>> \o g[n - Len(R[i].rest) + 1].val, << >>)

LEMMA ChainGoesOn ==
  ASSUME NEW R, NEW n, Chain(R, n), NEW i \in 1 .. n, R[i].err = "none"
  PROVE  n - Len(R[i].rest) + 1 \in i + 1 .. n + 1
<1>1. R[i].rest \in Seq(Byte) /\ Len(R[i].rest) <= n - i /\ n \in Nat
  BY DEF Chain, Errors
<1>2. PICK x : x = Len(R[i].rest) /\ x \in Nat /\ x <= n - i
  BY <1>1
<1>3. n \in Nat /\ i \in Nat /\ x \in Nat /\ x <= n - i
  BY <1>1, <1>2
<1>4. n - x + 1 \in i + 1 .. n + 1
  BY <1>3
<1> QED BY <1>2, <1>4

\* What a loop may return: an error, or what it collected, all bytes read.
Returned(R, n) ==
  {Failed(e) : e \in Errors} \cup {Got(v, << >>) : v \in Seq({R[i].val : i \in 1 .. n})}

LEMMA ReturnedFacts ==
  ASSUME NEW R, NEW n, NEW r \in Returned(R, n)
  PROVE  \/ r.err \in Errors
         \/ r.err = "none" /\ r.val \in Seq({R[i].val : i \in 1 .. n}) /\ r.rest = << >>
<1>1. CASE \E e \in Errors : r = Failed(e)
  BY <1>1 DEF Failed
<1>2. CASE \E v \in Seq({R[i].val : i \in 1 .. n}) : r = Got(v, << >>)
  BY <1>2 DEF Got
<1> QED BY <1>1, <1>2 DEF Returned

LEMMA ChainStepReturns ==
  ASSUME NEW R, NEW n, Chain(R, n), NEW g, NEW i \in 1 .. n + 1,
         \A j \in i + 1 .. n + 1 : g[j] \in Returned(R, n)
  PROVE  ChainStep(R, n, g, i) \in Returned(R, n)
<1>0. n \in Nat
  BY DEF Chain
<1>1. CASE i = n + 1
  <2>1. ChainStep(R, n, g, i) = Got(<< >>, << >>)
    BY <1>1 DEF ChainStep
  <2>2. << >> \in Seq({R[j].val : j \in 1 .. n})
    OBVIOUS
  <2> QED BY <2>1, <2>2 DEF Returned
<1>2. CASE i # n + 1
  <2>1. i \in 1 .. n
    BY <1>0, <1>2
  <2>2. CASE R[i].err # "none"
    <3>1. R[i].err \in Errors
      BY <2>1, <2>2 DEF Chain
    <3>2. ChainStep(R, n, g, i) = Failed(R[i].err)
      BY <1>2, <2>2 DEF ChainStep
    <3> QED BY <3>1, <3>2 DEF Returned
  <2>3. CASE R[i].err = "none"
    <3>1. PICK j : j = n - Len(R[i].rest) + 1
      OBVIOUS
    <3>2. j \in i + 1 .. n + 1
      BY <2>1, <2>3, <3>1, ChainGoesOn
    <3>3. PICK m, W : m = g[j] /\ W = {R[k].val : k \in 1 .. n}
      OBVIOUS
    <3>4. m \in Returned(R, n)
      BY <3>2, <3>3
    <3>5. m.err \in Errors \/ (m.err = "none" /\ m.val \in Seq(W))
      BY <3>3, <3>4, ReturnedFacts
    <3>6. CASE m.err # "none"
      <4>1. ChainStep(R, n, g, i) = Failed(m.err)
        BY <1>2, <2>3, <3>1, <3>3, <3>6 DEF ChainStep
      <4> QED BY <3>5, <3>6, <4>1 DEF Returned
    <3>7. CASE m.err = "none"
      <4>1. ChainStep(R, n, g, i) = Got(<<R[i].val>> \o m.val, << >>)
        BY <1>2, <2>3, <3>1, <3>3, <3>7 DEF ChainStep
      <4>2. <<R[i].val>> \o m.val \in Seq(W)
        <5>1. m.val \in Seq(W)
          BY <3>5, <3>7 DEF Errors
        <5>2. R[i].val \in W
          BY <2>1, <3>3
        <5>3. <<R[i].val>> \in Seq(W)
          BY <5>2
        <5> QED BY <5>1, <5>3, ConcatProperties
      <4> QED BY <3>3, <4>1, <4>2 DEF Returned
    <3> QED BY <3>6, <3>7
  <2> QED BY <2>2, <2>3
<1> QED BY <1>1, <1>2

\* A function that computes the loop is determined, and there is one.
LEMMA ChainReturns ==
  ASSUME NEW R, NEW n, Chain(R, n), NEW g, g = [i \in 1 .. n + 1 |-> ChainStep(R, n, g, i)]
  PROVE  \A i \in 1 .. n + 1 : g[i] \in Returned(R, n)
<1>0. n \in Nat
  BY DEF Chain
<1> DEFINE S == {k \in Nat : \A i \in 1 .. n + 1 : n + 1 - i < k => g[i] \in Returned(R, n)}
<1>1. 0 \in S
  BY <1>0
<1>2. ASSUME NEW k \in Nat, k \in S PROVE k + 1 \in S
  <2>1. ASSUME NEW i \in 1 .. n + 1, n + 1 - i < k + 1 PROVE g[i] \in Returned(R, n)
    <3>1. ASSUME NEW j \in i + 1 .. n + 1 PROVE g[j] \in Returned(R, n)
      <4>1. j \in 1 .. n + 1 /\ n + 1 - j < k
        BY <1>0, <2>1
      <4> QED BY <1>2, <4>1
    <3>2. ChainStep(R, n, g, i) \in Returned(R, n)
      BY <3>1, ChainStepReturns
    <3>3. g[i] = ChainStep(R, n, g, i)
      BY <2>1
    <3> QED BY <3>2, <3>3
  <2> QED BY <2>1
<1>3. n + 1 \in S
  <2> HIDE DEF S
  <2> QED BY <1>0, <1>1, <1>2, SetInduction
<1>4. \A i \in 1 .. n + 1 : n + 1 - i < n + 1
  BY <1>0
<1> QED BY <1>3, <1>4

LEMMA ChainExists ==
  ASSUME NEW R, NEW n, Chain(R, n)
  PROVE  \E g : g = [i \in 1 .. n + 1 |-> ChainStep(R, n, g, i)]
<1>0. n \in Nat
  BY DEF Chain
<1> DEFINE D == 1 .. n + 1
           V == Returned(R, n)
           rank == [i \in D |-> n + 1 - i]
           Step == [a \in D \X [D -> V] |-> ChainStep(R, n, a[2], a[1])]
<1>1. V # {} /\ rank \in [D -> 0 .. n]
  <2>1. Failed("Incomplete") \in V
    BY DEF Returned, Errors
  <2> QED BY <1>0, <2>1
<1>2. ASSUME NEW i \in D, NEW f \in [D -> V] PROVE ChainStep(R, n, f, i) \in V
  <2>1. \A j \in i + 1 .. n + 1 : f[j] \in V
    BY <1>0
  <2> QED BY <2>1, ChainStepReturns
<1>3. Step \in [D \X [D -> V] -> V]
  BY <1>2
<1>4. ASSUME NEW i \in D, NEW f \in [D -> V], NEW h \in [D -> V],
             \A j \in D : rank[j] < rank[i] => f[j] = h[j]
      PROVE  ChainStep(R, n, f, i) = ChainStep(R, n, h, i)
  <2>1. CASE i = n + 1
    BY <2>1 DEF ChainStep
  <2>2. CASE i # n + 1 /\ R[i].err # "none"
    BY <2>2 DEF ChainStep
  <2>3. CASE i # n + 1 /\ R[i].err = "none"
    <3>1. PICK j : j = n - Len(R[i].rest) + 1
      OBVIOUS
    <3>2. i \in 1 .. n
      BY <1>0, <2>3
    <3>3. j \in i + 1 .. n + 1
      BY <2>3, <3>1, <3>2, ChainGoesOn
    <3>4. j \in D /\ rank[j] < rank[i]
      BY <1>0, <3>2, <3>3
    <3>5. f[j] = h[j]
      BY <1>4, <3>4
    <3> QED BY <3>1, <3>5 DEF ChainStep
  <2> QED BY <2>1, <2>2, <2>3
<1>5. Recursion(D, V, n, rank, Step)
  <2>1. ASSUME NEW i \in D, NEW f \in [D -> V], NEW h \in [D -> V],
               \A j \in D : rank[j] < rank[i] => f[j] = h[j]
        PROVE  Step[<<i, f>>] = Step[<<i, h>>]
    <3>1. Step[<<i, f>>] = ChainStep(R, n, f, i) /\ Step[<<i, h>>] = ChainStep(R, n, h, i)
      OBVIOUS
    <3>2. ChainStep(R, n, f, i) = ChainStep(R, n, h, i)
      BY <1>4, <2>1
    <3> QED BY <3>1, <3>2
  <2> HIDE DEF D, V, rank, Step
  <2>2. rank \in [D -> 0 .. n] /\ V # {} /\ n \in Nat /\ Step \in [D \X [D -> V] -> V]
    BY <1>0, <1>1, <1>3
  <2> QED BY <2>1, <2>2 DEF Recursion
<1>6. PICK g \in [D -> V] : \A i \in D : g[i] = Step[<<i, g>>]
  <2> HIDE DEF D, V, rank, Step
  <2> QED BY <1>5, RecursionExists
<1>7. \A i \in D : g[i] = ChainStep(R, n, g, i)
  BY <1>6
<1>8. g = [i \in D |-> ChainStep(R, n, g, i)]
  <2> HIDE DEF V, Step
  <2> QED BY <1>6, <1>7
<1> QED BY <1>8

\* r is what the loop makes of all n bytes.
Computed(R, n, r) ==
  /\ Chain(R, n)
  /\ \E g : g = [i \in 1 .. n + 1 |-> ChainStep(R, n, g, i)] /\ r = g[1]

LEMMA ComputedReturns ==
  ASSUME NEW R, NEW n, NEW r, Computed(R, n, r)
  PROVE  r.err \in Errors \cup {"none"}
<1>1. Chain(R, n) /\ n \in Nat
  BY DEF Computed, Chain
<1>2. PICK g : g = [i \in 1 .. n + 1 |-> ChainStep(R, n, g, i)] /\ r = g[1]
  BY DEF Computed
<1>3. 1 \in 1 .. n + 1
  BY <1>1
<1>4. g[1] \in Returned(R, n)
  BY <1>1, <1>2, <1>3, ChainReturns
<1> QED BY <1>2, <1>4, ReturnedFacts

\* Every entry of a property table has a type.
Typed(table) == \A k \in DOMAIN table : table[k][2] \in Types

LEMMA TablesTyped ==
  /\ Typed(ConnectProperties) /\ Typed(ConnAckProperties) /\ Typed(PublishProperties)
  /\ Typed(PubAckProperties) /\ Typed(SubscribeProperties) /\ Typed(SubAckProperties)
  /\ Typed(DisconnectProperties)
<1>1. Typed(ConnectProperties)
  BY DEF Typed, Types, ConnectProperties
<1>2. Typed(ConnAckProperties)
  BY DEF Typed, Types, ConnAckProperties
<1>3. Typed(PublishProperties)
  BY DEF Typed, Types, PublishProperties
<1>4. Typed(PubAckProperties) /\ Typed(SubscribeProperties) /\ Typed(SubAckProperties)
  BY DEF Typed, Types, PubAckProperties, SubscribeProperties, SubAckProperties
<1>5. Typed(DisconnectProperties)
  BY DEF Typed, Types, DisconnectProperties
<1> QED BY <1>1, <1>2, <1>3, <1>4, <1>5

\* What the loop over the properties reads at each byte.
Known(table, id) == {k \in DOMAIN table : table[k][1] = id}
PropertyAt(table, slice, i) ==
  ReadTyped(table[CHOOSE k \in Known(table, slice[i]) : TRUE][2], Drop(slice, i))
PropertyReads(table, slice) ==
  [i \in 1 .. Len(slice) |->
     IF Known(table, slice[i]) = {} THEN Failed("MalformedPacket")
     ELSE IF PropertyAt(table, slice, i).err # "none" THEN Failed(PropertyAt(table, slice, i).err)
     ELSE Got(<<slice[i], PropertyAt(table, slice, i).val>>, PropertyAt(table, slice, i).rest)]

LEMMA PropertyLoop ==
  ASSUME NEW table, Typed(table), NEW slice \in Seq(Byte)
  PROVE  Computed(PropertyReads(table, slice), Len(slice), PropertyList(table, slice))
<1> DEFINE n == Len(slice)
           known(i) == {k \in DOMAIN table : table[k][1] = slice[i]}
           At(i) == ReadTyped(table[CHOOSE k \in known(i) : TRUE][2], Drop(slice, i))
           Body(g, i) ==
             IF i = n + 1 THEN Got(<< >>, << >>)
             ELSE IF known(i) = {} THEN Failed("MalformedPacket")
             ELSE Then(At(i), LAMBDA q : Then(g[n - Len(q.rest) + 1], LAMBDA more :
                       Got(<< <<slice[i], q.val>> >> \o more.val, << >>)))
           Eqn(g) == g = [i \in 1 .. n + 1 |-> Body(g, i)]
           R == [i \in 1 .. n |->
                  IF known(i) = {} THEN Failed("MalformedPacket")
                  ELSE IF At(i).err # "none" THEN Failed(At(i).err)
                  ELSE Got(<<slice[i], At(i).val>>, At(i).rest)]
<1>0. n \in Nat
  OBVIOUS
<1>1. ASSUME NEW i \in 1 .. n, known(i) # {} PROVE Takes(0, At(i), Drop(slice, i)) /\ Len(Drop(slice, i)) = n - i
  <2>1. PICK k : k = (CHOOSE j \in known(i) : TRUE)
    OBVIOUS
  <2>2. k \in known(i)
    BY <1>1, <2>1
  <2>3. table[k][2] \in Types
    BY <2>2 DEF Typed
  <2>4. Drop(slice, i) \in Seq(Byte) /\ Len(Drop(slice, i)) = n - i
    <3>1. i \in 0 .. Len(slice)
      BY <1>0
    <3> QED BY <3>1, DropFacts
  <2> HIDE DEF known
  <2> QED BY <2>1, <2>3, <2>4, TypedTakes
<1>2. Chain(R, n)
  <2>1. ASSUME NEW i \in 1 .. n
        PROVE  R[i].err \in Errors \/ (R[i].err = "none" /\ R[i].rest \in Seq(Byte) /\ Len(R[i].rest) <= n - i)
    <3>1. CASE known(i) = {}
      <4>1. R[i] = Failed("MalformedPacket")
        BY <3>1
      <4> HIDE DEF R, Body, At, known, n
      <4> QED BY <4>1 DEF Failed, Errors
    <3>2. CASE known(i) # {}
      <4>1. PICK q : q = At(i)
        OBVIOUS
      <4>2. R[i] = IF q.err # "none" THEN Failed(q.err) ELSE Got(<<slice[i], q.val>>, q.rest)
        BY <3>2, <4>1
      <4>3. Takes(0, q, Drop(slice, i)) /\ Len(Drop(slice, i)) = n - i
        BY <1>1, <3>2, <4>1
      <4> HIDE DEF R, At, known, n
      <4>4. CASE q.err # "none"
        BY <4>2, <4>3, <4>4 DEF Takes, Failed, Errors
      <4>5. CASE q.err = "none"
        <5>1. R[i].err = "none" /\ R[i].rest = q.rest
          BY <4>2, <4>5 DEF Got
        <5>2. q.rest \in Seq(Byte) /\ Len(q.rest) + 0 <= n - i
          BY <4>3, <4>5 DEF Takes, Errors
        <5>3. Len(q.rest) \in Nat
          BY <5>2
        <5>4. Len(q.rest) <= n - i
          BY <5>2, <5>3
        <5> QED BY <5>1, <5>2, <5>4
      <4> QED BY <4>4, <4>5
    <3> QED BY <3>1, <3>2
  <2> HIDE DEF R, n
  <2> QED BY <1>0, <2>1 DEF Chain
<1>3. ASSUME NEW g, NEW i \in 1 .. n + 1 PROVE Body(g, i) = ChainStep(R, n, g, i)
  <2>1. CASE i = n + 1
    BY <2>1 DEF ChainStep
  <2>2. CASE i # n + 1 /\ known(i) = {}
    <3>1. i \in 1 .. n
      BY <1>0, <2>2
    <3>2. R[i] = Failed("MalformedPacket")
      BY <2>2, <3>1
    <3>3. Body(g, i) = Failed("MalformedPacket")
      BY <2>2
    <3> HIDE DEF R, Body
    <3> QED BY <2>2, <3>2, <3>3 DEF ChainStep, Failed
  <2>3. CASE i # n + 1 /\ known(i) # {}
    <3>1. i \in 1 .. n
      BY <1>0, <2>3
    <3>2. PICK q : q = At(i)
      OBVIOUS
    <3>3. R[i] = IF q.err # "none" THEN Failed(q.err) ELSE Got(<<slice[i], q.val>>, q.rest)
      BY <2>3, <3>1, <3>2
    <3>4. Body(g, i) = Then(q, LAMBDA x : Then(g[n - Len(x.rest) + 1], LAMBDA more :
                            Got(<< <<slice[i], x.val>> >> \o more.val, << >>)))
      <4> HIDE DEF At, known, n
      <4> QED BY <2>3, <3>2 DEF Then
    <3> HIDE DEF R, Body, At, known, n
    <3>5. CASE q.err # "none"
      BY <2>3, <3>3, <3>4, <3>5 DEF ChainStep, Then, Failed
    <3>6. CASE q.err = "none"
      <4>1. R[i].err = "none" /\ R[i].rest = q.rest /\ R[i].val = <<slice[i], q.val>>
        BY <3>3, <3>6 DEF Got
      <4>2. PICK m : m = g[n - Len(q.rest) + 1]
        OBVIOUS
      <4>3. CASE m.err # "none"
        BY <2>3, <3>4, <3>6, <4>1, <4>2, <4>3 DEF ChainStep, Then
      <4>4. CASE m.err = "none"
        BY <2>3, <3>4, <3>6, <4>1, <4>2, <4>4 DEF ChainStep, Then
      <4> QED BY <4>3, <4>4
    <3> QED BY <3>5, <3>6
  <2> QED BY <2>1, <2>2, <2>3
<1>4. \E g : Eqn(g)
  <2>1. PICK g : g = [i \in 1 .. n + 1 |-> ChainStep(R, n, g, i)]
    <3> HIDE DEF R, n
    <3> QED BY <1>2, ChainExists, Zenon
  <2> HIDE DEF R, Body, n
  <2>2. Eqn(g)
    BY <1>3, <2>1
  <2> QED BY <2>2
<1> DEFINE c == CHOOSE g : Eqn(g)
<1>5. Eqn(c)
  <2> HIDE DEF Eqn
  <2> QED BY <1>4
<1>6. PropertyList(table, slice) = c[1]
  BY Zenon DEF PropertyList
<1> HIDE DEF c
<1>7. c = [i \in 1 .. n + 1 |-> ChainStep(R, n, c, i)]
  <2> HIDE DEF R, Body, n
  <2> QED BY <1>3, <1>5
<1>8. R = PropertyReads(table, slice)
  BY DEF PropertyReads, PropertyAt, Known
<1> HIDE DEF R, n
<1>9. Computed(R, n, c[1])
  BY <1>2, <1>7, Zenon DEF Computed
<1> QED BY <1>6, <1>8, <1>9 DEF n

LEMMA PropertyListTakes ==
  ASSUME NEW table, Typed(table), NEW slice \in Seq(Byte), NEW r, r = PropertyList(table, slice)
  PROVE  r.err \in Errors \cup {"none"}
BY PropertyLoop, ComputedReturns

\* ...Properties::decode never looks past the end, whatever lengths the
\* bytes give.
LEMMA PropertiesTake ==
  ASSUME NEW table, Typed(table), NEW buf \in Seq(Byte), NEW r, r = decode_properties(table, buf)
  PROVE  Takes(0, r, buf)
<1>0. Len(buf) \in Nat
  OBVIOUS
<1>1. CASE buf = << >>
  <2>1. r = Got(NoProperties, buf)
    BY <1>1 DEF decode_properties
  <2>2. r.err = "none" /\ r.rest = buf /\ Len(buf) + 0 <= Len(buf)
    BY <1>0, <2>1 DEF Got
  <2> QED BY <2>2 DEF Takes
<1>2. CASE buf # << >>
  <2>1. PICK n, s, l : /\ n = read_varint(buf) /\ s = read_raw(n.val, n.rest)
                       /\ l = PropertyList(table, s.val)
    OBVIOUS
  <2>2. Takes(1, n, buf) /\ (n.err = "none" => n.val \in Nat)
    BY <2>1, VarintTakes
  <2>3. CASE n.err # "none"
    <3>1. r = Failed(n.err)
      BY <1>2, <2>1, <2>3 DEF decode_properties, Then
    <3> QED BY <2>2, <2>3, <3>1 DEF Takes, Failed, Errors
  <2>4. CASE n.err = "none"
    <3>1. n.rest \in Seq(Byte) /\ n.val \in Nat
      BY <2>2, <2>4 DEF Takes, Errors
    <3>2. Takes(n.val, s, n.rest) /\ (s.err = "none" => s.val \in Seq(Byte))
      BY <2>1, <3>1, RawTakes
    <3>3. Takes(0, s, n.rest)
      <4>1. CASE s.err \in Errors
        BY <4>1 DEF Takes
      <4>2. CASE s.err = "none" /\ s.rest \in Seq(Byte) /\ Len(s.rest) + n.val <= Len(n.rest)
        <5>1. PICK x, y, v : x = Len(s.rest) /\ y = Len(n.rest) /\ v = n.val /\ x \in Nat /\ y \in Nat /\ v \in Nat /\ x + v <= y
          BY <3>1, <4>2
        <5>2. x + 0 <= y
          BY <5>1
        <5> QED BY <4>2, <5>1, <5>2 DEF Takes
      <4> QED BY <3>2, <4>1, <4>2 DEF Takes
    <3>4. Takes(1, s, buf) /\ Takes(0, s, buf)
      BY <2>2, <2>4, <3>3, TakesMore
    <3>5. CASE s.err # "none"
      <4>1. r = Failed(s.err)
        BY <1>2, <2>1, <2>4, <3>5 DEF decode_properties, Then
      <4> QED BY <3>4, <3>5, <4>1 DEF Takes, Failed, Errors
    <3>6. CASE s.err = "none"
      <4>1. l.err \in Errors \cup {"none"}
        BY <2>1, <3>2, <3>6, PropertyListTakes
      <4>2. CASE l.err # "none"
        <5>1. r = Failed(l.err)
          BY <1>2, <2>1, <2>4, <3>6, <4>2 DEF decode_properties, Then
        <5> QED BY <4>1, <4>2, <5>1 DEF Takes, Failed, Errors
      <4>3. CASE l.err = "none"
        <5>1. r = Got(Collected(l.val), s.rest)
          BY <1>2, <2>1, <2>4, <3>6, <4>3 DEF decode_properties, Then
        <5>2. r.err = "none" /\ r.rest = s.rest
          BY <5>1 DEF Got
        <5> QED BY <3>4, <3>6, <5>2 DEF Takes, Errors
      <4> QED BY <4>2, <4>3
    <3> QED BY <3>5, <3>6
  <2> QED BY <2>3, <2>4
<1> QED BY <1>1, <1>2

LEMMA SubscriptionTakes ==
  ASSUME NEW buf \in Seq(Byte), NEW r, r = read_subscription(buf)
  PROVE  Takes(1, r, buf)
<1>1. PICK k, v : k = read_str(buf) /\ v = read_u8(k.rest)
  OBVIOUS
<1>2. Takes(2, k, buf)
  BY <1>1, StrTakes
<1>3. CASE k.err # "none"
  <2>1. r = Failed(k.err)
    BY <1>1, <1>3 DEF read_subscription, Then
  <2> QED BY <1>2, <1>3, <2>1 DEF Takes, Failed, Errors
<1>4. CASE k.err = "none"
  <2>1. k.rest \in Seq(Byte)
    BY <1>2, <1>4 DEF Takes, Errors
  <2>2. Takes(1, v, k.rest)
    BY <1>1, <2>1, U8Takes
  <2>3. Takes(1, v, buf)
    BY <1>2, <1>4, <2>2, TakesMore
  <2>4. CASE v.err # "none"
    <3>1. r = Failed(v.err)
      BY <1>1, <1>4, <2>4 DEF read_subscription, Then
    <3> QED BY <2>3, <2>4, <3>1 DEF Takes, Failed, Errors
  <2>5. CASE v.err = "none"
    <3>1. r = Got([topic_filter |-> k.val, options |-> v.val], v.rest)
      BY <1>1, <1>4, <2>5 DEF read_subscription, Then
    <3>2. r.err = "none" /\ r.rest = v.rest
      BY <3>1 DEF Got
    <3> QED BY <2>3, <2>5, <3>2 DEF Takes, Errors
  <2> QED BY <2>4, <2>5
<1> QED BY <1>3, <1>4

\* The same for the loop over the subscriptions.
SubscriptionReads(buf) == [i \in 1 .. Len(buf) |-> read_subscription(Drop(buf, i - 1))]

LEMMA SubscriptionLoop ==
  ASSUME NEW buf \in Seq(Byte)
  PROVE  Computed(SubscriptionReads(buf), Len(buf), ReadAll(read_subscription, buf))
<1> DEFINE n == Len(buf)
           At(i) == read_subscription(Drop(buf, i - 1))
           Body(g, i) ==
             IF i = n + 1 THEN Got(<< >>, << >>)
             ELSE Then(At(i), LAMBDA q : Then(g[n - Len(q.rest) + 1], LAMBDA more :
                       Got(<<q.val>> \o more.val, << >>)))
           Eqn(g) == g = [i \in 1 .. n + 1 |-> Body(g, i)]
           R == [i \in 1 .. n |-> At(i)]
<1>0. n \in Nat
  OBVIOUS
<1>1. ASSUME NEW i \in 1 .. n PROVE Takes(1, At(i), Drop(buf, i - 1)) /\ Len(Drop(buf, i - 1)) = n - (i - 1)
  <2>1. i - 1 \in 0 .. Len(buf)
    BY <1>0
  <2>2. Drop(buf, i - 1) \in Seq(Byte) /\ Len(Drop(buf, i - 1)) = n - (i - 1)
    BY <2>1, DropFacts
  <2> QED BY <2>2, SubscriptionTakes
<1>2. Chain(R, n)
  <2>1. ASSUME NEW i \in 1 .. n
        PROVE  R[i].err \in Errors \/ (R[i].err = "none" /\ R[i].rest \in Seq(Byte) /\ Len(R[i].rest) <= n - i)
    <3>1. PICK q : q = At(i) /\ R[i] = q
      OBVIOUS
    <3>2. PICK len : len = Len(Drop(buf, i - 1)) /\ len = n - (i - 1)
      BY <1>1
    <3>3. q.err \in Errors \/ (q.err = "none" /\ q.rest \in Seq(Byte) /\ Len(q.rest) + 1 <= len)
      BY <1>1, <3>1, <3>2 DEF Takes
    <3> HIDE DEF R, At, Body, n
    <3>4. CASE q.err \in Errors
      BY <3>1, <3>4
    <3>5. CASE q.err = "none" /\ q.rest \in Seq(Byte) /\ Len(q.rest) + 1 <= len
      <4>1. PICK x : x = Len(q.rest) /\ x \in Nat
        BY <3>5
      <4>2. n \in Nat /\ i \in Nat /\ len = n - (i - 1) /\ x + 1 <= len
        BY <1>0, <3>2, <3>5, <4>1
      <4>3. x <= n - i
        BY <4>1, <4>2
      <4> QED BY <3>1, <3>5, <4>1, <4>3
    <3> QED BY <3>3, <3>4, <3>5
  <2> HIDE DEF R, n
  <2> QED BY <1>0, <2>1 DEF Chain
<1>3. ASSUME NEW g, NEW i \in 1 .. n + 1 PROVE Body(g, i) = ChainStep(R, n, g, i)
  <2>1. CASE i = n + 1
    BY <2>1 DEF ChainStep
  <2>2. CASE i # n + 1
    <3>1. i \in 1 .. n
      BY <1>0, <2>2
    <3>2. PICK q : q = At(i) /\ R[i] = q
      BY <3>1
    <3>3. Body(g, i) = Then(q, LAMBDA x : Then(g[n - Len(x.rest) + 1], LAMBDA more :
                            Got(<<x.val>> \o more.val, << >>)))
      <4> HIDE DEF At, n
      <4> QED BY <2>2, <3>2 DEF Then
    <3> HIDE DEF R, Body, At, n
    <3>4. CASE q.err # "none"
      BY <2>2, <3>2, <3>3, <3>4 DEF ChainStep, Then
    <3>5. CASE q.err = "none"
      <4>1. PICK m : m = g[n - Len(q.rest) + 1]
        OBVIOUS
      <4>2. CASE m.err # "none"
        BY <2>2, <3>2, <3>3, <3>5, <4>1, <4>2 DEF ChainStep, Then
      <4>3. CASE m.err = "none"
        BY <2>2, <3>2, <3>3, <3>5, <4>1, <4>3 DEF ChainStep, Then
      <4> QED BY <4>2, <4>3
    <3> QED BY <3>4, <3>5
  <2> QED BY <2>1, <2>2
<1>4. \E g : Eqn(g)
  <2>1. PICK g : g = [i \in 1 .. n + 1 |-> ChainStep(R, n, g, i)]
    <3> HIDE DEF R, n
    <3> QED BY <1>2, ChainExists, Zenon
  <2> HIDE DEF R, Body, n
  <2>2. Eqn(g)
    BY <1>3, <2>1
  <2> QED BY <2>2
<1> DEFINE c == CHOOSE g : Eqn(g)
<1>5. Eqn(c)
  <2> HIDE DEF Eqn
  <2> QED BY <1>4
<1>6. ReadAll(read_subscription, buf) = c[1]
  BY Zenon DEF ReadAll
<1> HIDE DEF c
<1>7. c = [i \in 1 .. n + 1 |-> ChainStep(R, n, c, i)]
  <2> HIDE DEF R, Body, n
  <2> QED BY <1>3, <1>5
<1>8. R = SubscriptionReads(buf)
  BY DEF SubscriptionReads
<1> HIDE DEF R, n
<1>9. Computed(R, n, c[1])
  BY <1>2, <1>7, Zenon DEF Computed
<1> QED BY <1>6, <1>8, <1>9, Zenon DEF n

LEMMA AllSubscriptions ==
  ASSUME NEW buf \in Seq(Byte), NEW r, r = ReadAll(read_subscription, buf)
  PROVE  r.err \in Errors \cup {"none"}
<1>1. PICK d : d = ReadAll(read_subscription, buf)
  OBVIOUS
<1>2. Computed(SubscriptionReads(buf), Len(buf), d)
  BY <1>1, SubscriptionLoop, Zenon
<1>3. d.err \in Errors \cup {"none"}
  BY <1>2, ComputedReturns
<1> QED BY <1>1, <1>3, Zenon

\* The same for the loop over the reason codes.
CodeReads(buf) == [i \in 1 .. Len(buf) |-> read_u8(Drop(buf, i - 1))]

LEMMA CodeLoop ==
  ASSUME NEW buf \in Seq(Byte)
  PROVE  Computed(CodeReads(buf), Len(buf), ReadAll(read_u8, buf))
<1> DEFINE n == Len(buf)
           At(i) == read_u8(Drop(buf, i - 1))
           Body(g, i) ==
             IF i = n + 1 THEN Got(<< >>, << >>)
             ELSE Then(At(i), LAMBDA q : Then(g[n - Len(q.rest) + 1], LAMBDA more :
                       Got(<<q.val>> \o more.val, << >>)))
           Eqn(g) == g = [i \in 1 .. n + 1 |-> Body(g, i)]
           R == [i \in 1 .. n |-> At(i)]
<1>0. n \in Nat
  OBVIOUS
<1>1. ASSUME NEW i \in 1 .. n PROVE Takes(1, At(i), Drop(buf, i - 1)) /\ Len(Drop(buf, i - 1)) = n - (i - 1)
  <2>1. i - 1 \in 0 .. Len(buf)
    BY <1>0
  <2>2. Drop(buf, i - 1) \in Seq(Byte) /\ Len(Drop(buf, i - 1)) = n - (i - 1)
    BY <2>1, DropFacts
  <2> QED BY <2>2, U8Takes
<1>2. Chain(R, n)
  <2>1. ASSUME NEW i \in 1 .. n
        PROVE  R[i].err \in Errors \/ (R[i].err = "none" /\ R[i].rest \in Seq(Byte) /\ Len(R[i].rest) <= n - i)
    <3>1. PICK q : q = At(i) /\ R[i] = q
      OBVIOUS
    <3>2. PICK len : len = Len(Drop(buf, i - 1)) /\ len = n - (i - 1)
      BY <1>1
    <3>3. q.err \in Errors \/ (q.err = "none" /\ q.rest \in Seq(Byte) /\ Len(q.rest) + 1 <= len)
      BY <1>1, <3>1, <3>2 DEF Takes
    <3> HIDE DEF R, At, Body, n
    <3>4. CASE q.err \in Errors
      BY <3>1, <3>4
    <3>5. CASE q.err = "none" /\ q.rest \in Seq(Byte) /\ Len(q.rest) + 1 <= len
      <4>1. PICK x : x = Len(q.rest) /\ x \in Nat
        BY <3>5
      <4>2. n \in Nat /\ i \in Nat /\ len = n - (i - 1) /\ x + 1 <= len
        BY <1>0, <3>2, <3>5, <4>1
      <4>3. x <= n - i
        BY <4>1, <4>2
      <4> QED BY <3>1, <3>5, <4>1, <4>3
    <3> QED BY <3>3, <3>4, <3>5
  <2> HIDE DEF R, n
  <2> QED BY <1>0, <2>1 DEF Chain
<1>3. ASSUME NEW g, NEW i \in 1 .. n + 1 PROVE Body(g, i) = ChainStep(R, n, g, i)
  <2>1. CASE i = n + 1
    BY <2>1 DEF ChainStep
  <2>2. CASE i # n + 1
    <3>1. i \in 1 .. n
      BY <1>0, <2>2
    <3>2. PICK q : q = At(i) /\ R[i] = q
      BY <3>1
    <3>3. Body(g, i) = Then(q, LAMBDA x : Then(g[n - Len(x.rest) + 1], LAMBDA more :
                            Got(<<x.val>> \o more.val, << >>)))
      <4> HIDE DEF At, n
      <4> QED BY <2>2, <3>2 DEF Then
    <3> HIDE DEF R, Body, At, n
    <3>4. CASE q.err # "none"
      BY <2>2, <3>2, <3>3, <3>4 DEF ChainStep, Then
    <3>5. CASE q.err = "none"
      <4>1. PICK m : m = g[n - Len(q.rest) + 1]
        OBVIOUS
      <4>2. CASE m.err # "none"
        BY <2>2, <3>2, <3>3, <3>5, <4>1, <4>2 DEF ChainStep, Then
      <4>3. CASE m.err = "none"
        BY <2>2, <3>2, <3>3, <3>5, <4>1, <4>3 DEF ChainStep, Then
      <4> QED BY <4>2, <4>3
    <3> QED BY <3>4, <3>5
  <2> QED BY <2>1, <2>2
<1>4. \E g : Eqn(g)
  <2>1. PICK g : g = [i \in 1 .. n + 1 |-> ChainStep(R, n, g, i)]
    <3> HIDE DEF R, n
    <3> QED BY <1>2, ChainExists, Zenon
  <2> HIDE DEF R, Body, n
  <2>2. Eqn(g)
    BY <1>3, <2>1
  <2> QED BY <2>2
<1> DEFINE c == CHOOSE g : Eqn(g)
<1>5. Eqn(c)
  <2> HIDE DEF Eqn
  <2> QED BY <1>4
<1>6. ReadAll(read_u8, buf) = c[1]
  BY Zenon DEF ReadAll
<1> HIDE DEF c
<1>7. c = [i \in 1 .. n + 1 |-> ChainStep(R, n, c, i)]
  <2> HIDE DEF R, Body, n
  <2> QED BY <1>3, <1>5
<1>8. R = CodeReads(buf)
  BY DEF CodeReads
<1> HIDE DEF R, n
<1>9. Computed(R, n, c[1])
  BY <1>2, <1>7, Zenon DEF Computed
<1> QED BY <1>6, <1>8, <1>9, Zenon DEF n

LEMMA AllCodes ==
  ASSUME NEW buf \in Seq(Byte), NEW r, r = ReadAll(read_u8, buf)
  PROVE  r.err \in Errors \cup {"none"}
<1>1. PICK d : d = ReadAll(read_u8, buf)
  OBVIOUS
<1>2. Computed(CodeReads(buf), Len(buf), d)
  BY <1>1, CodeLoop, Zenon
<1>3. d.err \in Errors \cup {"none"}
  BY <1>2, ComputedReturns
<1> QED BY <1>1, <1>3, Zenon

-----------------------------------------------------------------------------
(* Of all packets only a CONNECT can make decode_packet panic.             *)

\* What is read after what was read before.
LEMMA RestIsBytes ==
  ASSUME NEW k, NEW r, NEW buf, Takes(k, r, buf)
  PROVE  r.err # "panic" /\ (r.err = "none" => r.rest \in Seq(Byte))
BY DEF Takes, Errors

LEMMA ConnAckCalm ==
  ASSUME NEW buf \in Seq(Byte), NEW r, r = DecodeConnAck(buf)
  PROVE  r.err # "panic"
<1>1. PICK b, c, p : /\ b = read_u8(buf) /\ c = read_u8(b.rest)
                     /\ p = decode_properties(ConnAckProperties, c.rest)
  OBVIOUS
<1>2. b.err # "panic" /\ (b.err = "none" => b.rest \in Seq(Byte))
  BY <1>1, U8Takes, RestIsBytes
<1>3. CASE b.err # "none"
  <2>1. r = Failed(b.err)
    BY <1>1, <1>3 DEF DecodeConnAck, Then
  <2> QED BY <1>2, <2>1 DEF Failed
<1>4. CASE b.err = "none"
  <2>1. c.err # "panic" /\ (c.err = "none" => c.rest \in Seq(Byte))
    BY <1>1, <1>2, <1>4, U8Takes, RestIsBytes
  <2>2. CASE c.err # "none"
    <3>1. r = Failed(c.err)
      BY <1>1, <1>4, <2>2 DEF DecodeConnAck, Then
    <3> QED BY <2>1, <3>1 DEF Failed
  <2>3. CASE c.err = "none"
    <3>1. p.err # "panic"
      BY <1>1, <2>1, <2>3, TablesTyped, PropertiesTake, RestIsBytes
    <3>2. CASE p.err # "none"
      <4>1. r = Failed(p.err)
        BY <1>1, <1>4, <2>3, <3>2 DEF DecodeConnAck, Then
      <4> QED BY <3>1, <4>1 DEF Failed
    <3>3. CASE p.err = "none"
      <4>1. r = Got([type |-> "ConnAck", session_present |-> HasBit(b.val, 1),
                     reason_code |-> c.val, properties |-> p.val], p.rest)
        BY <1>1, <1>4, <2>3, <3>3 DEF DecodeConnAck, Then
      <4> QED BY <4>1 DEF Got
    <3> QED BY <3>2, <3>3
  <2> QED BY <2>2, <2>3
<1> QED BY <1>3, <1>4

LEMMA PublishCalm ==
  ASSUME NEW flags, NEW buf \in Seq(Byte), NEW r, r = DecodePublish(flags, buf)
  PROVE  r.err # "panic"
<1>0. CASE (flags \div 2) % 4 > 2
  <2>1. r = Failed("MalformedPacket")
    BY <1>0 DEF DecodePublish
  <2> QED BY <2>1 DEF Failed
<1>a. CASE ~ ((flags \div 2) % 4 > 2)
  <2>1. PICK t, o, p : /\ t = read_str(buf)
                       /\ o = Optional((flags \div 2) % 4 > 0, read_u16, t.rest)
                       /\ p = decode_properties(PublishProperties, o.rest)
    OBVIOUS
  <2>2. t.err # "panic" /\ (t.err = "none" => t.rest \in Seq(Byte))
    BY <2>1, StrTakes, RestIsBytes
  <2>3. CASE t.err # "none"
    <3>1. r = Failed(t.err)
      BY <1>a, <2>1, <2>3 DEF DecodePublish, Then
    <3> QED BY <2>2, <3>1 DEF Failed
  <2>4. CASE t.err = "none"
    <3>1. o.err # "panic" /\ (o.err = "none" => o.rest \in Seq(Byte))
      <4>1. PICK w : w = read_u16(t.rest)
        OBVIOUS
      <4>2. w.err # "panic" /\ (w.err = "none" => w.rest \in Seq(Byte))
        BY <2>2, <2>4, <4>1, U16Takes, RestIsBytes
      <4>3. o = Got(<< >>, t.rest) \/ o = Failed(w.err) \/ (w.err = "none" /\ o = Got(<<w.val>>, w.rest))
        BY <2>1, <4>1 DEF Optional, Then
      <4>4. CASE o = Got(<< >>, t.rest)
        BY <2>2, <2>4, <4>4 DEF Got
      <4>5. CASE o = Failed(w.err)
        <5>1. o.err = w.err
          BY <4>5 DEF Failed
        <5>2. CASE w.err = "none"
          <6>1. o = Got(<< >>, t.rest) \/ o = Got(<<w.val>>, w.rest)
            BY <2>1, <4>1, <5>2 DEF Optional, Then
          <6> QED BY <2>2, <2>4, <4>2, <5>2, <6>1 DEF Got
        <5> QED BY <4>2, <5>1, <5>2
      <4>6. CASE w.err = "none" /\ o = Got(<<w.val>>, w.rest)
        BY <4>2, <4>6 DEF Got
      <4> QED BY <4>3, <4>4, <4>5, <4>6
    <3>2. CASE o.err # "none"
      <4>1. r = Failed(o.err)
        BY <1>a, <2>1, <2>4, <3>2 DEF DecodePublish, Then
      <4> QED BY <3>1, <4>1 DEF Failed
    <3>3. CASE o.err = "none"
      <4>1. p.err # "panic"
        BY <2>1, <3>1, <3>3, TablesTyped, PropertiesTake, RestIsBytes
      <4>2. CASE p.err # "none"
        <5>1. r = Failed(p.err)
          BY <1>a, <2>1, <2>4, <3>3, <4>2 DEF DecodePublish, Then
        <5> QED BY <4>1, <5>1 DEF Failed
      <4>3. CASE p.err = "none"
        <5>1. r = Got([type |-> "Publish", dup |-> HasBit(flags, 8), qos |-> (flags \div 2) % 4,
                       retain |-> HasBit(flags, 1), topic |-> t.val, packet_id |-> o.val,
                       properties |-> p.val, payload |-> p.rest], << >>)
          BY <1>a, <2>1, <2>4, <3>3, <4>3 DEF DecodePublish, Then
        <5> QED BY <5>1 DEF Got
      <4> QED BY <4>2, <4>3
    <3> QED BY <3>2, <3>3
  <2> QED BY <2>3, <2>4
<1> QED BY <1>0, <1>a

LEMMA ReasonCalm ==
  ASSUME NEW table, Typed(table), NEW buf \in Seq(Byte), NEW r, r = ReasonAndProperties(table, buf)
  PROVE  r.err # "panic"
<1>1. CASE buf = << >>
  <2>1. r = Got(<<0, NoProperties>>, buf)
    BY <1>1 DEF ReasonAndProperties
  <2> QED BY <2>1 DEF Got
<1>2. CASE buf # << >>
  <2>1. PICK b, p : b = read_u8(buf) /\ p = decode_properties(table, b.rest)
    OBVIOUS
  <2>2. b.err # "panic" /\ (b.err = "none" => b.rest \in Seq(Byte))
    BY <2>1, U8Takes, RestIsBytes
  <2>3. CASE b.err # "none"
    <3>1. r = Failed(b.err)
      BY <1>2, <2>1, <2>3 DEF ReasonAndProperties, Then
    <3> QED BY <2>2, <3>1 DEF Failed
  <2>4. CASE b.err = "none"
    <3>1. p.err # "panic"
      BY <2>1, <2>2, <2>4, PropertiesTake, RestIsBytes
    <3>2. r = Failed(p.err) \/ r.err = "none"
      BY <1>2, <2>1, <2>4 DEF ReasonAndProperties, Then, Got
    <3> QED BY <3>1, <3>2 DEF Failed
  <2> QED BY <2>3, <2>4
<1> QED BY <1>1, <1>2

LEMMA AckCalm ==
  ASSUME NEW buf \in Seq(Byte)
  PROVE  DecodePubAck(buf).err # "panic" /\ DecodeDisconnect(buf).err # "panic"
<1>1. DecodePubAck(buf).err # "panic"
  <2>1. PICK b, p, r : /\ b = read_u16(buf) /\ p = ReasonAndProperties(PubAckProperties, b.rest)
                       /\ r = DecodePubAck(buf)
    OBVIOUS
  <2>2. b.err # "panic" /\ (b.err = "none" => b.rest \in Seq(Byte))
    BY <2>1, U16Takes, RestIsBytes
  <2>3. CASE b.err # "none"
    <3>1. r = Failed(b.err)
      BY <2>1, <2>3 DEF DecodePubAck, Then
    <3> QED BY <2>1, <2>2, <3>1 DEF Failed
  <2>4. CASE b.err = "none"
    <3>1. p.err # "panic"
      BY <2>1, <2>2, <2>4, TablesTyped, ReasonCalm
    <3>2. r = Failed(p.err) \/ r.err = "none"
      BY <2>1, <2>4 DEF DecodePubAck, Then, Got
    <3> QED BY <2>1, <3>1, <3>2 DEF Failed
  <2> QED BY <2>3, <2>4
<1>2. DecodeDisconnect(buf).err # "panic"
  <2>1. PICK p, r : p = ReasonAndProperties(DisconnectProperties, buf) /\ r = DecodeDisconnect(buf)
    OBVIOUS
  <2>2. p.err # "panic"
    BY <2>1, TablesTyped, ReasonCalm
  <2>3. r = Failed(p.err) \/ r.err = "none"
    BY <2>1 DEF DecodeDisconnect, Then, Got
  <2> QED BY <2>1, <2>2, <2>3 DEF Failed
<1> QED BY <1>1, <1>2

LEMMA SubscribeCalm ==
  ASSUME NEW flags, NEW buf \in Seq(Byte), NEW r, r = DecodeSubscribe(flags, buf)
  PROVE  r.err # "panic"
<1>1. CASE flags # 2
  <2>1. r = Failed("MalformedPacket")
    BY <1>1 DEF DecodeSubscribe
  <2> QED BY <2>1 DEF Failed
<1>2. CASE flags = 2
  <2>1. PICK b, p, a : /\ b = read_u16(buf) /\ p = decode_properties(SubscribeProperties, b.rest)
                       /\ a = ReadAll(read_subscription, p.rest)
    OBVIOUS
  <2>2. b.err # "panic" /\ (b.err = "none" => b.rest \in Seq(Byte))
    BY <2>1, U16Takes, RestIsBytes
  <2>3. CASE b.err # "none"
    <3>1. r = Failed(b.err)
      BY <1>2, <2>1, <2>3 DEF DecodeSubscribe, Then
    <3> QED BY <2>2, <3>1 DEF Failed
  <2>4. CASE b.err = "none"
    <3>1. p.err # "panic" /\ (p.err = "none" => p.rest \in Seq(Byte))
      BY <2>1, <2>2, <2>4, TablesTyped, PropertiesTake, RestIsBytes
    <3>2. CASE p.err # "none"
      <4>1. r = Failed(p.err)
        BY <1>2, <2>1, <2>4, <3>2 DEF DecodeSubscribe, Then
      <4> QED BY <3>1, <4>1 DEF Failed
    <3>3. CASE p.err = "none"
      <4>1. a.err # "panic"
        BY <2>1, <3>1, <3>3, AllSubscriptions DEF Errors
      <4>2. CASE a.err # "none"
        <5>1. r = Failed(a.err)
          BY <1>2, <2>1, <2>4, <3>3, <4>2 DEF DecodeSubscribe, Then
        <5> QED BY <4>1, <5>1 DEF Failed
      <4>3. CASE a.err = "none" /\ a.val = << >>
        <5>1. r = Failed("MalformedPacket")
          BY <1>2, <2>1, <2>4, <3>3, <4>3 DEF DecodeSubscribe, Then
        <5> QED BY <5>1 DEF Failed
      <4>4. CASE a.err = "none" /\ a.val # << >>
        <5>1. r = Got([type |-> "Subscribe", packet_id |-> b.val, properties |-> p.val,
                       subscriptions |-> a.val], a.rest)
          BY <1>2, <2>1, <2>4, <3>3, <4>4 DEF DecodeSubscribe, Then
        <5> QED BY <5>1 DEF Got
      <4> QED BY <4>2, <4>3, <4>4
    <3> QED BY <3>2, <3>3
  <2> QED BY <2>3, <2>4
<1> QED BY <1>1, <1>2

LEMMA SubAckCalm ==
  ASSUME NEW buf \in Seq(Byte), NEW r, r = DecodeSubAck(buf)
  PROVE  r.err # "panic"
<1>1. PICK b, p, a : /\ b = read_u16(buf) /\ p = decode_properties(SubAckProperties, b.rest)
                     /\ a = ReadAll(read_u8, p.rest)
  OBVIOUS
<1>2. b.err # "panic" /\ (b.err = "none" => b.rest \in Seq(Byte))
  BY <1>1, U16Takes, RestIsBytes
<1>3. CASE b.err # "none"
  <2>1. r = Failed(b.err)
    BY <1>1, <1>3 DEF DecodeSubAck, Then
  <2> QED BY <1>2, <2>1 DEF Failed
<1>4. CASE b.err = "none"
  <2>1. p.err # "panic" /\ (p.err = "none" => p.rest \in Seq(Byte))
    BY <1>1, <1>2, <1>4, TablesTyped, PropertiesTake, RestIsBytes
  <2>2. CASE p.err # "none"
    <3>1. r = Failed(p.err)
      BY <1>1, <1>4, <2>2 DEF DecodeSubAck, Then
    <3> QED BY <2>1, <3>1 DEF Failed
  <2>3. CASE p.err = "none"
    <3>1. a.err # "panic"
      BY <1>1, <2>1, <2>3, AllCodes DEF Errors
    <3>2. CASE a.err # "none"
      <4>1. r = Failed(a.err)
        BY <1>1, <1>4, <2>3, <3>2 DEF DecodeSubAck, Then
      <4> QED BY <3>1, <4>1 DEF Failed
    <3>3. CASE a.err = "none"
      <4>1. r = Got([type |-> "SubAck", packet_id |-> b.val, properties |-> p.val,
                     reason_codes |-> a.val], a.rest)
        BY <1>1, <1>4, <2>3, <3>3 DEF DecodeSubAck, Then
      <4> QED BY <4>1 DEF Got
    <3> QED BY <3>2, <3>3
  <2> QED BY <2>2, <2>3
<1> QED BY <1>3, <1>4

LEMMA PayloadCalm ==
  ASSUME NEW type, NEW flags, NEW buf \in Seq(Byte), DecodePayload(type, flags, buf).err = "panic"
  PROVE  type = 1 /\ flags = 0
<1>1. DecodeConnect(flags, buf).err = "panic" => flags = 0
  BY DEF DecodeConnect, Failed
<1>2. \A t : DecodePing(t, flags, buf).err # "panic"
  BY DEF DecodePing, Failed, Got
<1>3. DecodeConnAck(buf).err # "panic" /\ DecodePublish(flags, buf).err # "panic"
  BY ConnAckCalm, PublishCalm
<1>4. DecodePubAck(buf).err # "panic" /\ DecodeDisconnect(buf).err # "panic"
  BY AckCalm
<1>5. DecodeSubscribe(flags, buf).err # "panic" /\ DecodeSubAck(buf).err # "panic"
  BY SubscribeCalm, SubAckCalm
<1>6. Failed("MalformedPacket").err # "panic"
  BY DEF Failed
<1> QED BY <1>1, <1>2, <1>3, <1>4, <1>5, <1>6 DEF DecodePayload

-----------------------------------------------------------------------------
(* What was written is read again, whatever follows it.                    *)

LEMMA RawGot ==
  ASSUME NEW s \in Seq(Byte), NEW rest \in Seq(Byte)
  PROVE  read_raw(Len(s), s \o rest) = Got(s, rest)
<1>1. PICK w : w = s \o rest
  OBVIOUS
<1>2. JoinOf(Byte, s, rest, w)
  BY <1>1, JoinIs, Zenon
<1>3. /\ w \in Seq(Byte) /\ Len(w) = Len(s) + Len(rest) /\ Len(s) \in Nat /\ Len(rest) \in Nat
      /\ \A i \in 1 .. Len(s) + Len(rest) : w[i] = IF i <= Len(s) THEN s[i] ELSE rest[i - Len(s)]
  BY <1>2 DEF JoinOf
<1>4. ~ (Len(w) < Len(s))
  BY <1>3
<1>5. Take(w, Len(s)) = s
  <2>1. PICK t : t = Take(w, Len(s))
    OBVIOUS
  <2>2. \A i \in 1 .. Len(s) : i \in 1 .. Len(w) /\ w[i] \in Byte /\ w[i] = s[i]
    BY <1>3
  <2>3. PartOf(Byte, w, 1, Len(s), t)
    BY <1>3, <2>1, <2>2, PartIs DEF Take
  <2>4. t \in Seq(Byte) /\ Len(t) = Len(s) /\ \A i \in 1 .. Len(s) : t[i] = w[i]
    <3>1. \A i \in 1 .. Len(s) : i \in 1 .. Len(s) - 1 + 1 /\ 1 + i - 1 = i
      BY <1>3
    <3>2. t \in Seq(Byte) /\ \A i \in 1 .. Len(s) - 1 + 1 : t[i] = w[1 + i - 1]
      BY <2>3 DEF PartOf
    <3>3. Len(t) = Len(s)
      BY <1>3, <2>3 DEF PartOf
    <3> QED BY <3>1, <3>2, <3>3
  <2>5. t = s
    BY <2>2, <2>4, SeqEqual
  <2> QED BY <2>1, <2>5
<1>6. Drop(w, Len(s)) = rest
  BY <1>1, DropFirst
<1>7. read_raw(Len(s), w) = Got(s, rest)
  BY <1>4, <1>5, <1>6 DEF read_raw
<1> QED BY <1>1, <1>7

LEMMA U8Got ==
  ASSUME NEW v \in Byte, NEW rest \in Seq(Byte)
  PROVE  <<v>> \in Seq(Byte) /\ Len(<<v>>) = 1 /\ read_u8(<<v>> \o rest) = Got(v, rest)
<1>1. PICK s : s = <<v>>
  OBVIOUS
<1>2. s \in Seq(Byte) /\ Len(s) = 1 /\ s[1] = v
  BY <1>1
<1>3. PICK r : r = read_raw(1, s \o rest)
  OBVIOUS
<1>4. r = Got(s, rest)
  BY <1>2, <1>3, RawGot
<1>5. r.err = "none" /\ r.val = s /\ r.rest = rest
  BY <1>4 DEF Got
<1>6. read_u8(s \o rest) = Got(r.val[1], r.rest)
  BY <1>3, <1>5 DEF read_u8, Then
<1> QED BY <1>1, <1>2, <1>5, <1>6

LEMMA HighLow ==
  ASSUME NEW n \in U16
  PROVE  /\ (n \div 256) % 256 \in Byte /\ n % 256 \in Byte
         /\ ((n \div 256) % 256) * 256 + (n % 256) = n
<1>2. PICK q, l : q = n \div 256 /\ l = n % 256
  OBVIOUS
<1>3. n \in Nat /\ n < 65536
  BY SMT DEF U16
<1>4. /\ q \in Nat /\ l \in Nat /\ l < 256 /\ n = 256 * q + l
  BY <1>2, <1>3, SMT
<1>5. q < 256
  BY <1>3, <1>4, SMT
<1>6. q % 256 = q
  BY <1>4, <1>5, SMT
<1>7. q \in 0 .. 255 /\ l \in 0 .. 255
  BY <1>4, <1>5, SMT
<1>8. q * 256 + l = n
  BY <1>4, SMT
<1> QED BY <1>2, <1>6, <1>7, <1>8 DEF Byte

LEMMA U16Got ==
  ASSUME NEW n \in U16, NEW rest \in Seq(Byte)
  PROVE  /\ write_u16(n) \in Seq(Byte) /\ Len(write_u16(n)) = 2
         /\ read_u16(write_u16(n) \o rest) = Got(n, rest)
<1>1. PICK h, l : h = (n \div 256) % 256 /\ l = n % 256
  OBVIOUS
<1>2. h \in Byte /\ l \in Byte /\ h * 256 + l = n
  BY <1>1, HighLow
<1>3. PICK s : s = <<h, l>>
  OBVIOUS
<1>4. s \in Seq(Byte) /\ Len(s) = 2 /\ s[1] = h /\ s[2] = l
  BY <1>2, <1>3
<1>5. s = write_u16(n)
  BY <1>1, <1>3 DEF write_u16
<1>6. PICK r : r = read_raw(2, s \o rest)
  OBVIOUS
<1>7. r = Got(s, rest)
  BY <1>4, <1>6, RawGot
<1>8. r.err = "none" /\ r.val = s /\ r.rest = rest
  BY <1>7 DEF Got
<1>9. read_u16(s \o rest) = Got(r.val[1] * 256 + r.val[2], r.rest)
  BY <1>6, <1>8 DEF read_u16, Then
<1> QED BY <1>2, <1>4, <1>5, <1>8, <1>9

LEMMA BytesGot ==
  ASSUME NEW s \in Binary, NEW rest \in Seq(Byte)
  PROVE  /\ write_bytes(s) \in Seq(Byte) /\ Len(write_bytes(s)) >= 2
         /\ read_bytes(write_bytes(s) \o rest) = Got(s, rest)
<1>0. s \in Seq(Byte) /\ Len(s) <= 65535
  BY DEF Binary
<1>1. s \in Seq(Byte) /\ Len(s) \in U16
  <2>1. Len(s) \in Nat
    BY <1>0
  <2> QED BY <1>0, <2>1 DEF U16
<1>2. PICK a : a = write_u16(Len(s))
  OBVIOUS
<1>3. a \in Seq(Byte) /\ Len(a) = 2
  BY <1>1, <1>2, U16Got, EmptySeq
<1>4. Assoc(Byte, a, s, rest)
  BY <1>1, <1>3, Joined
<1>5. PICK n : n = read_u16(a \o (s \o rest))
  OBVIOUS
<1>6. n = Got(Len(s), s \o rest)
  BY <1>1, <1>2, <1>4, <1>5, U16Got DEF Assoc
<1>7. n.err = "none" /\ n.val = Len(s) /\ n.rest = s \o rest
  BY <1>6 DEF Got
<1>8. read_bytes(a \o (s \o rest)) = read_raw(n.val, n.rest)
  <2>1. PICK r : r = read_raw(n.val, n.rest)
    OBVIOUS
  <2>2. r = Got(s, rest)
    BY <1>1, <1>7, <2>1, RawGot
  <2> QED BY <1>5, <1>7, <2>1 DEF read_bytes, Then
<1>9. read_bytes(a \o (s \o rest)) = Got(s, rest)
  BY <1>1, <1>7, <1>8, RawGot
<1>10. write_bytes(s) = a \o s
  BY <1>2 DEF write_bytes
<1>11. Len(a \o s) >= 2
  <2>1. JoinOf(Byte, a, s, a \o s)
    BY <1>1, <1>3, JoinIs, Zenon
  <2>2. Len(a \o s) = 2 + Len(s) /\ Len(s) \in Nat
    BY <1>1, <1>3, <2>1 DEF JoinOf
  <2> QED BY <2>2
<1> QED BY <1>4, <1>9, <1>10, <1>11 DEF Assoc

LEMMA StrGot ==
  ASSUME NEW s \in Text, NEW rest \in Seq(Byte)
  PROVE  /\ write_bytes(s) \in Seq(Byte) /\ Len(write_bytes(s)) >= 2
         /\ read_str(write_bytes(s) \o rest) = Got(s, rest)
<1>1. s \in Binary /\ 255 \notin ToSet(s)
  BY DEF Text
<1>2. PICK r : r = read_bytes(write_bytes(s) \o rest)
  OBVIOUS
<1>3. r = Got(s, rest) /\ write_bytes(s) \in Seq(Byte) /\ Len(write_bytes(s)) >= 2
  BY <1>1, <1>2, BytesGot
<1>4. r.err = "none" /\ r.val = s
  BY <1>3 DEF Got
<1>5. read_str(write_bytes(s) \o rest) = r
  BY <1>1, <1>2, <1>4 DEF read_str, Then
<1> QED BY <1>3, <1>5

LEMMA PairGot ==
  ASSUME NEW k \in Text, NEW v \in Text, NEW rest \in Seq(Byte)
  PROVE  /\ write_bytes(k) \o write_bytes(v) \in Seq(Byte)
         /\ read_pair((write_bytes(k) \o write_bytes(v)) \o rest) = Got(<<k, v>>, rest)
<1>1. PICK a, b : a = write_bytes(k) /\ b = write_bytes(v)
  OBVIOUS
<1>2. a \in Seq(Byte) /\ b \in Seq(Byte)
  BY <1>1, StrGot
<1>3. Assoc(Byte, a, b, rest)
  BY <1>2, Joined
<1>4. PICK x, y : x = read_str(a \o (b \o rest)) /\ y = read_str(b \o rest)
  OBVIOUS
<1>5. x = Got(k, b \o rest) /\ y = Got(v, rest)
  BY <1>1, <1>3, <1>4, StrGot DEF Assoc
<1>6. /\ x.err = "none" /\ x.val = k /\ x.rest = b \o rest
      /\ y.err = "none" /\ y.val = v /\ y.rest = rest
  BY <1>5 DEF Got
<1>7. read_pair(a \o (b \o rest)) = Got(<<x.val, y.val>>, y.rest)
  BY <1>4, <1>6 DEF read_pair, Then
<1> QED BY <1>1, <1>3, <1>6, <1>7 DEF Assoc

LEMMA VarintBytes ==
  ASSUME NEW v \in Nat, v <= MaxVarint
  PROVE  encode_varint(v) \in Seq(Byte) /\ Len(encode_varint(v)) = VarintLen(v) /\ VarintLen(v) \in 1 .. 4
<1>1. v \in Nat /\ v <= MaxVarint
  OBVIOUS
<1>2. VarintLen(v) \in 1 .. 4
  BY <1>1, LenBounds, SMT
<1>3. PICK e : e = encode_varint(v)
  OBVIOUS
<1>4. /\ e \in Seq(Nat) /\ Len(e) = VarintLen(v)
      /\ \A i \in 1 .. VarintLen(v) : e[i] = Digit(v, i) + (IF i < VarintLen(v) THEN 128 ELSE 0)
  BY <1>1, <1>3, EncodedBytes
<1>5. ASSUME NEW i \in 1 .. Len(e) PROVE e[i] \in Byte
  <2>1. i \in {1, 2, 3, 4, 5} /\ i \in 1 .. VarintLen(v)
    BY <1>2, <1>4, SMT
  <2>2. Digit(v, i) \in Nat /\ Digit(v, i) < 128
    BY <1>1, <2>1, DigitRange
  <2>3. e[i] = Digit(v, i) + 128 \/ e[i] = Digit(v, i) + 0
    BY <1>4, <2>1
  <2>4. PICK d : d = Digit(v, i)
    OBVIOUS
  <2>5. PICK b : b = e[i]
    OBVIOUS
  <2>6. d \in Nat /\ d < 128 /\ (b = d + 128 \/ b = d + 0)
    BY <2>2, <2>3, <2>4, <2>5
  <2>7. b \in Nat /\ b <= 255
    BY <2>6, SMT
  <2>8. b \in 0 .. 255
    BY <2>7, SMT
  <2> QED BY <2>5, <2>8 DEF Byte
<1>6. e \in Seq(Byte)
  BY <1>4, <1>5, IsASeq
<1> QED BY <1>1, <1>2, <1>3, <1>4, <1>6

LEMMA VarintGot ==
  ASSUME NEW v \in Nat, v <= MaxVarint, NEW rest \in Seq(Byte)
  PROVE  read_varint(encode_varint(v) \o rest) = Got(v, rest)
<1>1. PICK e : e = encode_varint(v)
  OBVIOUS
<1>2. e \in Seq(Byte) /\ Len(e) = VarintLen(v)
  BY <1>1, VarintBytes
<1>3. rest \in Seq(Nat)
  BY BytesAreNumbers
<1>4. PICK n : n = decode_varint(e \o rest)
  OBVIOUS
<1>5. n = Value(v, Len(e))
  BY <1>1, <1>2, <1>3, <1>4, VarintRoundTrip, Zenon
<1>6. n.err = "none" /\ n.val = v /\ n.read = Len(e)
  BY <1>5 DEF Value
<1>7. read_varint(e \o rest) = Got(n.val, Drop(e \o rest, n.read))
  BY <1>4, <1>6 DEF read_varint, Then
<1>8. Drop(e \o rest, Len(e)) = rest
  BY <1>2, DropFirst
<1> QED BY <1>1, <1>6, <1>7, <1>8

\* w is what a reader of a type makes v of.
Reads(type, w, v) ==
  /\ w \in Seq(Byte)
  /\ \A rest \in Seq(Byte) : ReadTyped(type, w \o rest) = Got(v, rest)

LEMMA FunctionIsSeq ==
  ASSUME NEW T, NEW n \in Nat, NEW v \in [1 .. n -> T]
  PROVE  v \in Seq(T) /\ Len(v) = n
OBVIOUS

LEMMA TypedGot ==
  ASSUME NEW type \in Types, NEW v \in Values(type)
  PROVE  Reads(type, Write(type, v), v)
<1>1. CASE type = "u8"
  <2>1. v \in Byte /\ Write(type, v) = <<v>> /\ \A buf : ReadTyped(type, buf) = read_u8(buf)
    BY <1>1 DEF Values, Write, ReadTyped
  <2> QED BY <2>1, U8Got DEF Reads
<1>2. CASE type = "u16"
  <2>1. v \in U16 /\ Write(type, v) = write_u16(v) /\ \A buf : ReadTyped(type, buf) = read_u16(buf)
    BY <1>2 DEF Values, Write, ReadTyped
  <2>2. write_u16(v) \in Seq(Byte)
    <3>1. << >> \in Seq(Byte)
      OBVIOUS
    <3> QED BY <2>1, <3>1, U16Got
  <2>3. ASSUME NEW rest \in Seq(Byte) PROVE read_u16(write_u16(v) \o rest) = Got(v, rest)
    BY <2>1, U16Got
  <2> QED BY <2>1, <2>2, <2>3, Zenon DEF Reads
<1>3. CASE type = "u32"
  <2>1. v \in [1 .. 4 -> Byte] /\ Write(type, v) = v /\ \A buf : ReadTyped(type, buf) = read_raw(4, buf)
    BY <1>3 DEF Values, Write, ReadTyped, read_u32
  <2>2. v \in Seq(Byte) /\ Len(v) = 4
    BY <2>1, FunctionIsSeq
  <2> QED BY <2>1, <2>2, RawGot DEF Reads
<1>4. CASE type = "str"
  <2>1. v \in Text /\ Write(type, v) = write_bytes(v) /\ \A buf : ReadTyped(type, buf) = read_str(buf)
    BY <1>4 DEF Values, Write, ReadTyped
  <2>2. write_bytes(v) \in Seq(Byte)
    <3>1. << >> \in Seq(Byte)
      OBVIOUS
    <3> QED BY <2>1, <3>1, StrGot
  <2> QED BY <2>1, <2>2, StrGot DEF Reads
<1>5. CASE type = "bin"
  <2>1. v \in Binary /\ Write(type, v) = write_bytes(v) /\ \A buf : ReadTyped(type, buf) = read_bytes(buf)
    BY <1>5 DEF Values, Write, ReadTyped
  <2>2. write_bytes(v) \in Seq(Byte)
    <3>1. << >> \in Seq(Byte)
      OBVIOUS
    <3> QED BY <2>1, <3>1, BytesGot
  <2> QED BY <2>1, <2>2, BytesGot DEF Reads
<1>6. CASE type = "pair"
  <2>1. /\ v \in Text \X Text /\ Write(type, v) = write_bytes(v[1]) \o write_bytes(v[2])
        /\ \A buf : ReadTyped(type, buf) = read_pair(buf)
    BY <1>6 DEF Values, Write, ReadTyped
  <2>2. PICK a \in Text, b \in Text : v = <<a, b>> /\ v[1] = a /\ v[2] = b
    BY <2>1
  <2>3. write_bytes(a) \o write_bytes(b) \in Seq(Byte)
    <3>1. << >> \in Seq(Byte)
      OBVIOUS
    <3> QED BY <3>1, PairGot
  <2> QED BY <2>1, <2>2, <2>3, PairGot DEF Reads
<1>7. CASE type = "varint"
  <2>1. /\ v \in Nat /\ v <= MaxVarint /\ Write(type, v) = encode_varint(v)
        /\ \A buf : ReadTyped(type, buf) = read_varint(buf)
    BY <1>7 DEF Values, Write, ReadTyped
  <2>2. encode_varint(v) \in Seq(Byte)
    BY <2>1, VarintBytes
  <2> QED BY <2>1, <2>2, VarintGot DEF Reads
<1> QED BY <1>1, <1>2, <1>3, <1>4, <1>5, <1>6, <1>7 DEF Types

\* What a loop collects that goes from place to place until the end: P is
\* where the i-th reading begins, E what is read.
Loop(R, n, g) == \A i \in 1 .. n + 1 : g[i] = ChainStep(R, n, g, i)
Stops(R, n, E, P) ==
  /\ P[Len(E) + 1] = n + 1
  /\ \A k \in 1 .. Len(E) : /\ P[k] \in 1 .. n
                            /\ R[P[k]].err = "none" /\ R[P[k]].val = E[k]
                            /\ n - Len(R[P[k]].rest) + 1 = P[k + 1]

LEMMA ChainCollects ==
  ASSUME NEW R, NEW n \in Nat, NEW g, Loop(R, n, g),
         NEW T, NEW E \in Seq(T), NEW P, Stops(R, n, E, P)
  PROVE  g[P[1]] = Got(E, << >>)
<1> DEFINE m == Len(E)
           S == {j \in Nat : j <= m => g[P[m + 1 - j]] = Got(SubSeq(E, m + 1 - j, m), << >>)}
<1>0. m \in Nat
  OBVIOUS
<1>1. 0 \in S
  <2>1. g[n + 1] = Got(<< >>, << >>)
    <3>1. n + 1 \in 1 .. n + 1
      OBVIOUS
    <3>2. g[n + 1] = ChainStep(R, n, g, n + 1)
      BY <3>1, Zenon DEF Loop
    <3> QED BY <3>2 DEF ChainStep
  <2>2. SubSeq(E, m + 1, m) = << >>
    BY <1>0
  <2>3. m + 1 - 0 = m + 1
    BY <1>0
  <2>4. P[m + 1] = n + 1
    BY DEF Stops
  <2> QED BY <2>1, <2>2, <2>3, <2>4
<1>2. ASSUME NEW j \in Nat, j \in S PROVE j + 1 \in S
  <2> SUFFICES ASSUME j + 1 <= m
               PROVE  g[P[m + 1 - (j + 1)]] = Got(SubSeq(E, m + 1 - (j + 1), m), << >>)
    OBVIOUS
  <2>1. PICK k : k = m + 1 - (j + 1) /\ k \in 1 .. m /\ k + 1 = m + 1 - j /\ j <= m
    BY <1>0
  <2>2. g[P[k + 1]] = Got(SubSeq(E, k + 1, m), << >>)
    BY <1>2, <2>1
  <2>3. PICK p, q, v : p = P[k] /\ q = P[k + 1] /\ v = SubSeq(E, k + 1, m)
    OBVIOUS
  <2>4. /\ p \in 1 .. n /\ p # n + 1 /\ R[p].err = "none" /\ R[p].val = E[k]
        /\ n - Len(R[p].rest) + 1 = q
    <3>1. /\ p \in 1 .. n /\ R[p].err = "none" /\ R[p].val = E[k]
          /\ n - Len(R[p].rest) + 1 = q
      BY <2>1, <2>3, Zenon DEF Stops
    <3>2. p # n + 1
      BY <3>1
    <3> QED BY <3>1, <3>2
  <2>5. g[q].err = "none" /\ g[q].val = v
    BY <2>2, <2>3 DEF Got
  <2>6. g[p] = ChainStep(R, n, g, p)
    <3>1. p \in 1 .. n + 1
      BY <2>4
    <3> QED BY <3>1, Zenon DEF Loop
  <2>7. g[p] = Got(<<E[k]>> \o v, << >>)
    <3> HIDE DEF m, S
    <3> QED BY <2>4, <2>5, <2>6 DEF ChainStep
  <2>8. <<E[k]>> \o v = SubSeq(E, k, m)
    <3>1. PICK o, w, u : o = <<E[k]>> /\ w = o \o v /\ u = SubSeq(E, k, m)
      OBVIOUS
    <3>2. E[k] \in T /\ k \in Int /\ k + 1 \in Int /\ m \in Int
      BY <1>0, <2>1
    <3>3. o \in Seq(T) /\ Len(o) = 1 /\ o[1] = E[k]
      BY <3>1, <3>2
    <3>4. \A i \in k .. m : E[i] \in T
      BY <1>0, <2>1
    <3>5. \A i \in k + 1 .. m : E[i] \in T
      BY <1>0, <2>1
    <3>6. PartOf(T, E, k, m, u)
      BY <3>1, <3>2, <3>4, PartIs
    <3>7. PartOf(T, E, k + 1, m, v)
      BY <2>3, <3>2, <3>5, PartIs
    <3>8. v \in Seq(T)
      BY <3>7 DEF PartOf
    <3>9. JoinOf(T, o, v, w)
      BY <3>1, <3>3, <3>8, JoinIs, Zenon
    <3> HIDE DEF m, S
    <3>10. Len(v) = m - k /\ \A i \in 1 .. m - k : v[i] = E[k + i]
      <4>1. /\ Len(v) = IF k + 1 <= m THEN m - (k + 1) + 1 ELSE 0
            /\ \A i \in 1 .. m - (k + 1) + 1 : v[i] = E[(k + 1) + i - 1]
        BY <3>7 DEF PartOf
      <4> QED BY <1>0, <2>1, <4>1
    <3>11. Len(u) = m - k + 1 /\ u \in Seq(T) /\ \A i \in 1 .. m - k + 1 : u[i] = E[k + i - 1]
      <4>1. /\ Len(u) = IF k <= m THEN m - k + 1 ELSE 0
            /\ u \in Seq(T) /\ \A i \in 1 .. m - k + 1 : u[i] = E[k + i - 1]
        BY <3>6 DEF PartOf
      <4> QED BY <1>0, <2>1, <4>1
    <3>12. /\ w \in Seq(T) /\ Len(w) = 1 + (m - k)
           /\ \A i \in 1 .. 1 + (m - k) : w[i] = IF i <= 1 THEN o[i] ELSE v[i - 1]
      BY <3>3, <3>9, <3>10 DEF JoinOf
    <3>13. Len(w) = Len(u)
      BY <1>0, <2>1, <3>11, <3>12
    <3>14. ASSUME NEW i \in 1 .. Len(w) PROVE w[i] = u[i]
      <4>1. i \in 1 .. 1 + (m - k) /\ i \in 1 .. m - k + 1
        BY <1>0, <2>1, <3>12
      <4>2. CASE i = 1
        <5>1. w[i] = E[k] /\ u[i] = E[k + 1 - 1] /\ k + 1 - 1 = k
          BY <2>1, <3>3, <3>11, <3>12, <4>1, <4>2
        <5> QED BY <5>1
      <4>3. CASE i # 1
        <5>1. i - 1 \in 1 .. m - k /\ ~ (i <= 1) /\ k + (i - 1) = k + i - 1
          BY <1>0, <2>1, <4>1, <4>3
        <5> QED BY <3>10, <3>11, <3>12, <4>1, <5>1
      <4> QED BY <4>2, <4>3
    <3>15. w = u
      BY <3>11, <3>12, <3>13, <3>14, SeqEqual
    <3> QED BY <3>1, <3>15
  <2> QED BY <2>1, <2>3, <2>7, <2>8
<1>3. m \in S
  <2> HIDE DEF S
  <2> QED BY <1>0, <1>1, <1>2, SetInduction
<1>4. m + 1 - m = 1 /\ m <= m /\ SubSeq(E, 1, m) = E
  BY <1>0
<1>5. g[P[m + 1 - m]] = Got(SubSeq(E, m + 1 - m, m), << >>)
  BY <1>3, <1>4
<1> QED BY <1>4, <1>5

\* A concatenation, cut at one of its parts.
LEMMA FlattenTail ==
  ASSUME NEW T, NEW W \in Seq(Seq(T)), NEW k, FlattenTrace(T, W, k), NEW i \in 1 .. Len(W)
  PROVE  \E d \in Seq(T) : FlattenSeq(W) = k[i] \o d
<1> DEFINE From(x) == \E d \in Seq(T) : x = k[i] \o d
           S == {j \in Nat : i + j <= Len(W) => From(k[i + j])}
<1>a. Len(W) \in Nat /\ i \in Nat /\ i <= Len(W) /\ \A j \in 1 .. Len(W) : W[j] \in Seq(T)
  OBVIOUS
<1>b. \A j \in 1 .. Len(W) : k[j] \in Seq(T)
  BY Zenon DEF FlattenTrace
<1>0. Len(W) \in Nat /\ i \in Nat /\ i <= Len(W) /\ \A j \in 1 .. Len(W) : W[j] \in Seq(T) /\ k[j] \in Seq(T)
  BY <1>a, <1>b
<1>1. 0 \in S
  <2>1. k[i] = k[i] \o << >> /\ << >> \in Seq(T) /\ i + 0 = i
    BY <1>0, ConcatEmptySeq
  <2> QED BY <2>1
<1>2. ASSUME NEW j \in Nat, j \in S PROVE j + 1 \in S
  <2> SUFFICES ASSUME i + (j + 1) <= Len(W) PROVE From(k[i + (j + 1)])
    <3> HIDE DEF From
    <3> QED OBVIOUS
  <2>1. PICK d \in Seq(T) : k[i + j] = k[i] \o d
    <3>1. i + j <= Len(W)
      BY <1>0
    <3> QED BY <1>2, <3>1
  <2>2. PICK x : x = i + (j + 1) /\ x \in 2 .. Len(W) /\ x - 1 = i + j /\ x \in 1 .. Len(W)
    BY <1>0
  <2>3. k[x] = k[x - 1] \o W[x]
    BY <2>2, Zenon DEF FlattenTrace
  <2>4. k[i] \in Seq(T) /\ W[x] \in Seq(T)
    BY <1>0, <2>2
  <2>5. Assoc(T, k[i], d, W[x])
    BY <2>4, Joined
  <2>6. k[x] = k[i] \o (d \o W[x]) /\ d \o W[x] \in Seq(T)
    BY <2>1, <2>2, <2>3, <2>5 DEF Assoc
  <2> QED BY <2>2, <2>6
<1>3. PICK j : j = Len(W) - i /\ j \in Nat /\ i + j = Len(W)
  BY <1>0
<1>4. j \in S
  <2> HIDE DEF S
  <2> QED BY <1>1, <1>2, <1>3, SetInduction
<1>5. FlattenSeq(W) = k[Len(W)]
  BY Zenon DEF FlattenTrace
<1>6. From(k[Len(W)])
  <2> HIDE DEF From
  <2>1. i + j <= Len(W)
    BY <1>0, <1>3
  <2>2. From(k[i + j])
    BY <1>3, <1>4, <2>1
  <2> QED BY <1>3, <2>2
<1> QED BY <1>5, <1>6

\* P is where the parts of W begin in s, which W makes together.
Cuts(T, W, P, s) ==
  /\ s = FlattenSeq(W) /\ s \in Seq(T)
  /\ P[1] = 0 /\ P[Len(W) + 1] = Len(s)
  /\ \A i \in 1 .. Len(W) :
       /\ P[i] \in Nat /\ P[i + 1] \in Nat
       /\ P[i + 1] = P[i] + Len(W[i]) /\ P[i + 1] <= Len(s)
       /\ Drop(s, P[i]) = W[i] \o Drop(s, P[i + 1])

LEMMA DropNothing ==
  ASSUME NEW T, NEW s \in Seq(T)
  PROVE  Drop(s, 0) = s
<1>1. 0 + 1 = 1 /\ SubSeq(s, 1, Len(s)) = s
  OBVIOUS
<1> QED BY <1>1 DEF Drop

LEMMA FlattenCuts ==
  ASSUME NEW T, NEW W \in Seq(Seq(T))
  PROVE  \E P : Cuts(T, W, P, FlattenSeq(W))
<1>0. Len(W) \in Nat /\ (\A j \in 1 .. Len(W) : W[j] \in Seq(T)) /\ FlattenSeq(W) \in Seq(T)
  BY FlattenElements
<1>1. CASE Len(W) = 0
  <2>1. FlattenSeq(W) = << >>
    <3>1. W = << >>
      BY <1>1
    <3> QED BY <3>1 DEF FlattenSeq
  <2>2. PICK P : P = [i \in 1 .. 1 |-> 0]
    OBVIOUS
  <2>3. P[1] = 0 /\ P[Len(W) + 1] = Len(FlattenSeq(W))
    BY <1>1, <2>1, <2>2
  <2>4. \A i \in 1 .. Len(W) : FALSE
    BY <1>1
  <2> QED BY <1>0, <2>3, <2>4 DEF Cuts
<1>2. CASE Len(W) # 0
  <2>1. PICK k : FlattenTrace(T, W, k)
    BY <1>2, FlattenRounds
  <2>2. /\ k[1] = W[1] /\ FlattenSeq(W) = k[Len(W)]
        /\ \A i \in 1 .. Len(W) : k[i] \in Seq(T) /\ Len(k[i]) \in Nat
        /\ \A i \in 2 .. Len(W) : k[i] = k[i - 1] \o W[i]
    <3>1. /\ k[1] = W[1] /\ FlattenSeq(W) = k[Len(W)]
          /\ \A i \in 1 .. Len(W) : k[i] \in Seq(T)
          /\ \A i \in 2 .. Len(W) : k[i] = k[i - 1] \o W[i]
      BY <2>1, Zenon DEF FlattenTrace
    <3>2. \A i \in 1 .. Len(W) : Len(k[i]) \in Nat
      BY <3>1
    <3> QED BY <3>1, <3>2
  <2>3. PICK P : P = [i \in 1 .. Len(W) + 1 |-> IF i = 1 THEN 0 ELSE Len(k[i - 1])]
    OBVIOUS
  <2>4. P[1] = 0 /\ \A i \in 1 .. Len(W) : P[i + 1] = Len(k[i])
    <3>1. 1 \in 1 .. Len(W) + 1
      BY <1>0
    <3>2. ASSUME NEW i \in 1 .. Len(W) PROVE P[i + 1] = Len(k[i])
      <4>1. i + 1 \in 1 .. Len(W) + 1 /\ i + 1 # 1 /\ (i + 1) - 1 = i
        BY <1>0
      <4> QED BY <2>3, <4>1
    <3> QED BY <2>3, <3>1, <3>2
  <2>5. PICK s : s = FlattenSeq(W) /\ s \in Seq(T)
    BY <1>0
  <2>6. P[Len(W) + 1] = Len(s)
    <3>1. Len(W) \in 1 .. Len(W)
      BY <1>0, <1>2
    <3> QED BY <2>2, <2>4, <2>5, <3>1
  <2>7. ASSUME NEW i \in 1 .. Len(W)
        PROVE  /\ P[i] \in Nat /\ P[i + 1] \in Nat
               /\ P[i + 1] = P[i] + Len(W[i]) /\ P[i + 1] <= Len(s)
               /\ Drop(s, P[i]) = W[i] \o Drop(s, P[i + 1])
    <3>1. PICK d \in Seq(T) : s = k[i] \o d
      BY <2>1, <2>5, FlattenTail, Zenon
    <3>2. k[i] \in Seq(T) /\ W[i] \in Seq(T)
      BY <1>0, <2>2
    <3>3. JoinOf(T, k[i], d, s)
      BY <3>1, <3>2, JoinIs, Zenon
    <3>4. Len(s) = Len(k[i]) + Len(d) /\ Len(k[i]) \in Nat /\ Len(d) \in Nat
      BY <3>2, <3>3 DEF JoinOf
    <3>5. Drop(s, Len(k[i])) = d
      BY <3>1, <3>2, DropFirst
    <3>6. CASE i = 1
      <4>1. P[i] = 0 /\ k[i] = W[i] /\ P[i + 1] = Len(k[i])
        BY <2>2, <2>4, <3>6
      <4>2. Drop(s, 0) = s
        BY <2>5, DropNothing
      <4>3. Drop(s, P[i]) = W[i] \o Drop(s, P[i + 1])
        BY <3>1, <3>5, <4>1, <4>2
      <4>4. P[i] \in Nat /\ P[i + 1] \in Nat /\ P[i + 1] = P[i] + Len(W[i]) /\ P[i + 1] <= Len(s)
        <5>1. PICK x, y : x = Len(k[i]) /\ y = Len(d) /\ x \in Nat /\ y \in Nat /\ Len(s) = x + y
          BY <3>4
        <5>2. P[i] = 0 /\ P[i + 1] = x /\ Len(W[i]) = x
          BY <4>1, <5>1
        <5> QED BY <5>1, <5>2
      <4> QED BY <4>3, <4>4
    <3>7. CASE i # 1
      <4>1. PICK h : h = i - 1 /\ h \in 1 .. Len(W) /\ i \in 2 .. Len(W) /\ h + 1 = i
        BY <1>0, <3>7
      <4>2. P[i] = Len(k[h]) /\ P[i + 1] = Len(k[i]) /\ k[h] \in Seq(T) /\ k[i] = k[h] \o W[i]
        BY <2>2, <2>4, <4>1
      <4>3. Assoc(T, k[h], W[i], d)
        BY <3>2, <4>2, Joined
      <4>4. s = k[h] \o (W[i] \o d) /\ W[i] \o d \in Seq(T)
        BY <3>1, <4>2, <4>3 DEF Assoc
      <4>5. Drop(s, Len(k[h])) = W[i] \o d
        BY <4>2, <4>4, DropFirst
      <4>6. JoinOf(T, k[h], W[i], k[i])
        BY <3>2, <4>2, JoinIs, Zenon
      <4>7. Len(k[i]) = Len(k[h]) + Len(W[i]) /\ Len(k[h]) \in Nat
        BY <4>2, <4>6 DEF JoinOf
      <4>8. P[i] \in Nat /\ P[i + 1] \in Nat /\ P[i + 1] = P[i] + Len(W[i]) /\ P[i + 1] <= Len(s)
        <5>1. PICK x, y, z : /\ x = Len(k[i]) /\ y = Len(d) /\ x \in Nat /\ y \in Nat /\ Len(s) = x + y
                             /\ z = Len(k[h]) /\ z \in Nat /\ x = z + Len(W[i])
          BY <3>4, <4>7
        <5>2. P[i] = z /\ P[i + 1] = x
          BY <4>2, <5>1
        <5>3. x <= x + y
          <6>1. x \in Nat /\ y \in Nat
            BY <5>1, Zenon
          <6> QED BY <6>1
        <5>4. P[i] \in Nat /\ P[i + 1] \in Nat /\ P[i + 1] = P[i] + Len(W[i]) /\ P[i + 1] <= Len(s)
          BY <5>1, <5>2, <5>3, Zenon
        <5> QED BY <5>4
      <4>9. Drop(s, P[i]) = W[i] \o Drop(s, P[i + 1])
        BY <3>5, <4>2, <4>5
      <4> QED BY <4>8, <4>9
    <3> QED BY <3>6, <3>7
  <2> QED BY <2>4, <2>5, <2>6, <2>7 DEF Cuts
<1> QED BY <1>1, <1>2

\* A loop over bytes made of the parts W reads one element of E from each.
LEMMA LoopReads ==
  ASSUME NEW W, NEW C, NEW s, Cuts(Byte, W, C, s), \A k \in 1 .. Len(W) : Len(W[k]) \in Nat \ {0},
         NEW T, NEW E \in Seq(T), Len(E) = Len(W),
         NEW R, NEW r, Computed(R, Len(s), r),
         \A k \in 1 .. Len(W) : LET q == R[C[k] + 1] IN
           q.err = "none" /\ q.val = E[k] /\ q.rest = Drop(s, C[k + 1])
  PROVE  r = Got(E, << >>)
<1>1. PICK n : n = Len(s)
  OBVIOUS
<1>2. n \in Nat /\ s \in Seq(Byte) /\ Len(W) \in Nat
  BY <1>1 DEF Cuts
<1>3. PICK g : g = [i \in 1 .. n + 1 |-> ChainStep(R, n, g, i)] /\ r = g[1]
  BY <1>1 DEF Computed
<1>4. Loop(R, n, g)
  BY <1>3 DEF Loop
<1>5. PICK m : m = Len(E) /\ m \in Nat /\ m = Len(W)
  BY <1>2
<1>6. PICK P : P = [k \in 1 .. m + 1 |-> C[k] + 1]
  OBVIOUS
<1>7. \A k \in 1 .. m + 1 : P[k] = C[k] + 1
  BY <1>6
<1>8. C[1] = 0 /\ C[m + 1] = n
  BY <1>1, <1>5 DEF Cuts
<1>9. Stops(R, n, E, P)
  <2>1. P[m + 1] = n + 1
    BY <1>5, <1>7, <1>8
  <2>2. ASSUME NEW k \in 1 .. m
        PROVE  /\ P[k] \in 1 .. n /\ R[P[k]].err = "none" /\ R[P[k]].val = E[k]
               /\ n - Len(R[P[k]].rest) + 1 = P[k + 1]
    <3>1. k \in 1 .. Len(W) /\ k \in 1 .. m + 1 /\ k + 1 \in 1 .. m + 1
      BY <1>5
    <3>2. PICK a, b, l : a = C[k] /\ b = C[k + 1] /\ l = Len(W[k])
      OBVIOUS
    <3>3. a \in Nat /\ b \in Nat /\ b = a + l /\ b <= n
      BY <1>1, <3>1, <3>2, Zenon DEF Cuts
    <3>4. l \in Nat \ {0}
      BY <3>1, <3>2
    <3>5. P[k] = a + 1 /\ P[k + 1] = b + 1
      BY <1>7, <3>1, <3>2
    <3>6. R[a + 1].err = "none" /\ R[a + 1].val = E[k] /\ R[a + 1].rest = Drop(s, b)
      BY <3>1, <3>2
    <3>7. b \in 0 .. Len(s)
      BY <1>1, <1>2, <3>3
    <3>8. Len(Drop(s, b)) = Len(s) - b
      BY <1>2, <3>7, DropFacts
    <3>9. a + 1 \in 1 .. n /\ n - (n - b) + 1 = b + 1
      BY <1>2, <3>3, <3>4
    <3> QED BY <1>1, <3>5, <3>6, <3>8, <3>9
  <2> QED BY <1>5, <2>1, <2>2 DEF Stops
<1>10. g[P[1]] = Got(E, << >>)
  BY <1>2, <1>4, <1>9, ChainCollects
<1>11. P[1] = 1
  <2>1. 1 \in 1 .. m + 1
    BY <1>5
  <2> QED BY <1>7, <1>8, <2>1
<1> QED BY <1>3, <1>10, <1>11

\* The byte at the front of what is left, and what follows it.
FrontIs(s, c, x, m) ==
  c + 1 \in 1 .. Len(s) /\ s[c + 1] = x /\ Drop(s, c + 1) = m

LEMMA HeadOfDrop ==
  ASSUME NEW T, NEW s \in Seq(T), NEW c \in 0 .. Len(s), NEW x \in T, NEW m \in Seq(T),
         Drop(s, c) = <<x>> \o m
  PROVE  FrontIs(s, c, x, m)
<1>1. PICK d, o : d = Drop(s, c) /\ o = <<x>>
  OBVIOUS
<1>2. o \in Seq(T) /\ Len(o) = 1 /\ o[1] = x
  BY <1>1
<1>3. JoinOf(T, o, m, d)
  BY <1>1, <1>2, JoinIs, Zenon
<1>4. /\ d \in Seq(T) /\ Len(d) = 1 + Len(m) /\ Len(m) \in Nat
      /\ \A i \in 1 .. 1 + Len(m) : d[i] = IF i <= 1 THEN o[i] ELSE m[i - 1]
  BY <1>2, <1>3 DEF JoinOf
<1>5. Len(d) = Len(s) - c /\ \A i \in 1 .. Len(s) - c : d[i] = s[c + i]
  BY <1>1, DropFacts
<1>a. Len(s) \in Nat /\ Len(m) \in Nat
  BY LenProperties
<1>6. PICK n, l : n = Len(s) /\ l = Len(m) /\ n \in Nat /\ l \in Nat
  BY <1>a, Zenon
<1>b. n - c = 1 + l
  BY <1>4, <1>5, <1>6, Zenon
<1>7. c \in Nat /\ n \in Nat /\ l \in Nat /\ n - c = 1 + l
  <2>1. c \in 0 .. n
    BY <1>6, Zenon
  <2>2. c \in Nat
    BY <1>6, <2>1
  <2> QED BY <1>b, <1>6, <2>2, Zenon
<1>8. c + 1 \in 1 .. n /\ c + 1 \in 0 .. n
  BY <1>6, <1>7
<1>9. s[c + 1] = x
  <2>1. 1 \in 1 .. Len(s) - c /\ 1 \in 1 .. 1 + Len(m)
    BY <1>6, <1>7
  <2>2. d[1] = s[c + 1]
    BY <1>5, <2>1
  <2>3. d[1] = o[1]
    BY <1>4, <2>1
  <2> QED BY <1>2, <2>2, <2>3
<1>10. Drop(s, c + 1) = m
  <2>1. PICK e : e = Drop(s, c + 1)
    OBVIOUS
  <2>2. e \in Seq(T) /\ Len(e) = Len(s) - (c + 1) /\ \A i \in 1 .. Len(s) - (c + 1) : e[i] = s[(c + 1) + i]
    BY <1>6, <1>8, <2>1, DropFacts
  <2>3. Len(e) = Len(m)
    <3>1. n - (c + 1) = l
      BY <1>7
    <3> QED BY <1>6, <2>2, <3>1, Zenon
  <2>4. ASSUME NEW i \in 1 .. Len(m) PROVE e[i] = m[i]
    <3>1. /\ i \in 1 .. Len(s) - (c + 1) /\ i + 1 \in 1 .. 1 + Len(m) /\ i + 1 \in 1 .. Len(s) - c
          /\ ~ (i + 1 <= 1) /\ (i + 1) - 1 = i /\ (c + 1) + i = c + (i + 1)
      <4>1. i \in 1 .. l
        BY <1>6
      <4>2. /\ i \in 1 .. n - (c + 1) /\ i + 1 \in 1 .. 1 + l /\ i + 1 \in 1 .. n - c
            /\ ~ (i + 1 <= 1) /\ (i + 1) - 1 = i /\ (c + 1) + i = c + (i + 1)
        BY <1>6, <1>7, <4>1
      <4> QED BY <1>6, <4>2
    <3>2. e[i] = s[(c + 1) + i]
      BY <2>2, <3>1
    <3>3. d[i + 1] = s[c + (i + 1)]
      BY <1>5, <3>1
    <3>4. d[i + 1] = m[(i + 1) - 1]
      BY <1>4, <3>1
    <3> QED BY <3>1, <3>2, <3>3, <3>4
  <2>5. e = m
    BY <2>2, <2>3, <2>4, SeqEqual
  <2> QED BY <2>1, <2>5
<1> QED BY <1>6, <1>8, <1>9, <1>10 DEF FrontIs

-----------------------------------------------------------------------------
(* Properties.                                                             *)

\* No identifier stands twice in a table, and those of user properties are
\* the pairs.
Table(table) ==
  /\ Typed(table)
  /\ table \in Seq(Byte \X Types)
  /\ \A j, k \in DOMAIN table : table[j][1] = table[k][1] => j = k

LEMMA Tables ==
  /\ Table(ConnectProperties) /\ Table(ConnAckProperties) /\ Table(PublishProperties)
  /\ Table(PubAckProperties) /\ Table(SubscribeProperties) /\ Table(SubAckProperties)
  /\ Table(DisconnectProperties)
<1>1. Table(ConnectProperties)
  BY TablesTyped DEF Table, Types, ConnectProperties, Byte
<1>2. Table(ConnAckProperties)
  BY TablesTyped, SMTT(60) DEF Table, Types, ConnAckProperties, Byte
<1>3. Table(PublishProperties)
  BY TablesTyped DEF Table, Types, PublishProperties, Byte
<1>4. Table(PubAckProperties) /\ Table(SubscribeProperties) /\ Table(SubAckProperties)
  BY TablesTyped DEF Table, Types, PubAckProperties, SubscribeProperties, SubAckProperties, Byte
<1>5. Table(DisconnectProperties)
  BY TablesTyped DEF Table, Types, DisconnectProperties, Byte
<1> QED BY <1>1, <1>2, <1>3, <1>4, <1>5

\* A property that is present, and its bytes.
Entries(table) == UNION {{table[k][1]} \X Values(table[k][2]) : k \in DOMAIN table}
TypeOf(table, id) == table[CHOOSE k \in Known(table, id) : TRUE][2]
EntryBytes(table) == [e \in Entries(table) |-> <<e[1]>> \o Write(TypeOf(table, e[1]), e[2])]

LEMMA KnownIs ==
  ASSUME NEW table, Table(table), NEW k \in DOMAIN table
  PROVE  Known(table, table[k][1]) = {k} /\ TypeOf(table, table[k][1]) = table[k][2]
<1>1. Known(table, table[k][1]) = {k}
  BY DEF Table, Known
<1>2. (CHOOSE j \in {k} : TRUE) = k
  OBVIOUS
<1> QED BY <1>1, <1>2 DEF TypeOf

\* The property e is of the k-th kind of the table, w the bytes of its value.
IsEntry(table, e, k, w) ==
  /\ e = <<e[1], e[2]>> /\ e[1] = table[k][1] /\ e[1] \in Byte
  /\ e[2] \in Values(table[k][2]) /\ Reads(table[k][2], w, e[2])
  /\ EntryBytes(table)[e] = <<e[1]>> \o w
  /\ EntryBytes(table)[e] \in Seq(Byte) /\ Len(EntryBytes(table)[e]) \in Nat \ {0}

LEMMA EntryFacts ==
  ASSUME NEW table, Table(table), NEW e \in Entries(table)
  PROVE  \E k \in DOMAIN table : \E w : IsEntry(table, e, k, w)
<1>1. PICK k \in DOMAIN table : e \in {table[k][1]} \X Values(table[k][2])
  BY DEF Entries
<1>2. e = <<table[k][1], e[2]>> /\ e[1] = table[k][1] /\ e[2] \in Values(table[k][2])
  BY <1>1
<1>3. table[k][1] \in Byte /\ table[k][2] \in Types
  <2>1. \A r \in Byte \X Types : r[1] \in Byte /\ r[2] \in Types
    OBVIOUS
  <2>2. table \in Seq(Byte \X Types)
    BY DEF Table
  <2>3. table[k] \in Byte \X Types
    BY <2>2
  <2> QED BY <2>1, <2>3
<1>4. PICK w : w = Write(table[k][2], e[2])
  OBVIOUS
<1>5. Reads(table[k][2], w, e[2])
  BY <1>2, <1>3, <1>4, TypedGot
<1>6. EntryBytes(table)[e] = <<e[1]>> \o w
  BY <1>2, <1>4, KnownIs DEF EntryBytes
<1>7. PICK o, x : o = <<e[1]>> /\ x = o \o w
  OBVIOUS
<1>8. o \in Seq(Byte) /\ Len(o) = 1 /\ w \in Seq(Byte)
  BY <1>2, <1>3, <1>5, <1>7 DEF Reads
<1>9. JoinOf(Byte, o, w, x)
  BY <1>7, <1>8, JoinIs, Zenon
<1>10. x \in Seq(Byte) /\ Len(x) = 1 + Len(w) /\ Len(w) \in Nat
  BY <1>8, <1>9 DEF JoinOf
<1>11. IsEntry(table, e, k, w)
  BY <1>2, <1>3, <1>5, <1>6, <1>7, <1>10 DEF IsEntry
<1> QED BY <1>11

ImageOf(P, T, f, u, v) ==
  /\ v \in Seq(Seq(T)) /\ Len(v) = Len(u) /\ Len(u) \in Nat
  /\ \A i \in 1 .. Len(u) : u[i] \in P /\ v[i] = f[u[i]]

LEMMA ImageSeq ==
  ASSUME NEW P, NEW T, NEW f \in [P -> Seq(T)], NEW u \in Seq(P)
  PROVE  ImageOf(P, T, f, u, Image(f, u))
<1> DEFINE S == Seq(T)
<1>1. DOMAIN u = 1 .. Len(u) /\ Len(u) \in Nat /\ \A i \in 1 .. Len(u) : u[i] \in P
  OBVIOUS
<1>2. \A i \in 1 .. Len(u) : f[u[i]] \in S
  BY <1>1
<1> HIDE DEF S
<1>3. Image(f, u) \in Seq(S) /\ Len(Image(f, u)) = Len(u)
  BY <1>1, <1>2 DEF Image
<1>4. \A i \in 1 .. Len(u) : Image(f, u)[i] = f[u[i]]
  BY <1>1 DEF Image
<1> QED BY <1>1, <1>3, <1>4 DEF S, ImageOf

\* The bytes of a list of properties are read as that list.
LEMMA PropertyListGot ==
  ASSUME NEW table, Table(table), NEW E \in Seq(Entries(table)),
         NEW s, s = FlattenSeq(Image(EntryBytes(table), E))
  PROVE  s \in Seq(Byte) /\ PropertyList(table, s) = Got(E, << >>)
<1>1. EntryBytes(table) \in [Entries(table) -> Seq(Byte)]
  <2>1. \A e \in Entries(table) : EntryBytes(table)[e] \in Seq(Byte)
    BY EntryFacts DEF IsEntry
  <2>2. EntryBytes(table) = [e \in Entries(table) |-> EntryBytes(table)[e]]
    BY DEF EntryBytes
  <2> QED BY <2>1, <2>2
<1>2. PICK W : W = Image(EntryBytes(table), E)
  OBVIOUS
<1>3. /\ W \in Seq(Seq(Byte)) /\ Len(W) = Len(E) /\ Len(E) \in Nat
      /\ \A k \in 1 .. Len(E) : E[k] \in Entries(table) /\ W[k] = EntryBytes(table)[E[k]]
  <2>1. ImageOf(Entries(table), Byte, EntryBytes(table), E, W)
    BY <1>1, <1>2, ImageSeq, Zenon
  <2> QED BY <2>1, Zenon DEF ImageOf
<1>4. PICK C : Cuts(Byte, W, C, s)
  BY <1>2, <1>3, FlattenCuts
<1>5. s \in Seq(Byte) /\ Len(s) \in Nat
  BY <1>4 DEF Cuts
<1>6. PICK R, r : R = PropertyReads(table, s) /\ r = PropertyList(table, s)
  OBVIOUS
<1>7. Computed(R, Len(s), r)
  BY <1>5, <1>6, PropertyLoop DEF Table
<1>8. \A k \in 1 .. Len(W) : Len(W[k]) \in Nat \ {0}
  <2>1. \A e \in Entries(table) : Len(EntryBytes(table)[e]) \in Nat \ {0}
    BY EntryFacts, Zenon DEF IsEntry
  <2> QED BY <1>3, <2>1
<1>9. ASSUME NEW k \in 1 .. Len(W)
      PROVE  LET q == R[C[k] + 1] IN q.err = "none" /\ q.val = E[k] /\ q.rest = Drop(s, C[k + 1])
  <2>1. PICK e : e = E[k] /\ e \in Entries(table) /\ W[k] = EntryBytes(table)[e]
    BY <1>3
  <2>2. PICK j \in DOMAIN table : \E w : IsEntry(table, e, j, w)
    BY <2>1, EntryFacts, Zenon
  <2>x. PICK w : IsEntry(table, e, j, w)
    BY <2>2
  <2>3. /\ e = <<e[1], e[2]>> /\ e[1] = table[j][1] /\ e[1] \in Byte
        /\ Reads(table[j][2], w, e[2]) /\ W[k] = <<e[1]>> \o w
    BY <2>1, <2>x, Zenon DEF IsEntry
  <2>4. PICK a, b : a = C[k] /\ b = C[k + 1]
    OBVIOUS
  <2>5. a \in Nat /\ b \in Nat /\ b = a + Len(W[k]) /\ b <= Len(s) /\ Drop(s, a) = W[k] \o Drop(s, b)
    BY <1>4, <2>4, Zenon DEF Cuts
  <2>6. a \in 0 .. Len(s) /\ b \in 0 .. Len(s)
    <3>1. PICK l, n : l = Len(W[k]) /\ n = Len(s) /\ l \in Nat /\ n \in Nat
      BY <1>5, <1>8
    <3>2. a \in 0 .. n /\ b \in 0 .. n
      BY <2>5, <3>1
    <3> QED BY <3>1, <3>2
  <2>7. PICK rest \in Seq(Byte) : rest = Drop(s, b)
    BY <1>5, <2>6, DropFacts
  <2>8. w \in Seq(Byte) /\ ReadTyped(table[j][2], w \o rest) = Got(e[2], rest)
    BY <2>3 DEF Reads
  <2>9. <<e[1]>> \in Seq(Byte)
    BY <2>3
  <2>10. Assoc(Byte, <<e[1]>>, w, rest)
    BY <2>8, <2>9, Joined
  <2>11. PICK m \in Seq(Byte) : m = w \o rest /\ Drop(s, a) = <<e[1]>> \o m
    BY <2>3, <2>5, <2>7, <2>10 DEF Assoc
  <2>12. a + 1 \in 1 .. Len(s) /\ s[a + 1] = e[1] /\ Drop(s, a + 1) = m
    <3>1. PICK x : x = e[1] /\ x \in Byte
      BY <2>3, Zenon
    <3>2. Drop(s, a) = <<x>> \o m
      BY <2>11, <3>1, Zenon
    <3>3. FrontIs(s, a, x, m)
      BY <1>5, <2>6, <3>1, <3>2, HeadOfDrop, Zenon
    <3> QED BY <3>1, <3>3, Zenon DEF FrontIs
  <2>13. Known(table, s[a + 1]) = {j}
    <3>1. Known(table, table[j][1]) = {j}
      BY KnownIs, Zenon
    <3> QED BY <2>3, <2>12, <3>1, Zenon
  <2>14. (CHOOSE i \in Known(table, s[a + 1]) : TRUE) = j
    BY <2>13
  <2>15. PICK p : p = PropertyAt(table, s, a + 1)
    OBVIOUS
  <2>16. p = Got(e[2], rest)
    BY <2>8, <2>11, <2>12, <2>14, <2>15 DEF PropertyAt
  <2>17. p.err = "none" /\ p.val = e[2] /\ p.rest = rest
    BY <2>16 DEF Got
  <2>18. R[a + 1] = Got(<<s[a + 1], p.val>>, p.rest)
    BY <1>6, <2>12, <2>13, <2>15, <2>17 DEF PropertyReads
  <2>19. R[a + 1] = Got(e, rest)
    BY <2>3, <2>12, <2>17, <2>18
  <2> QED BY <2>1, <2>4, <2>7, <2>19 DEF Got
<1>10. r = Got(E, << >>)
  BY <1>3, <1>4, <1>7, <1>8, <1>9, LoopReads
<1> QED BY <1>5, <1>6, <1>10

\* The images of two lists in a row are those of the one and of the other.
ImageConcat(f, s, t) ==
  FlattenSeq(Image(f, s \o t)) = FlattenSeq(Image(f, s)) \o FlattenSeq(Image(f, t))

LEMMA FlattenImageConcat ==
  ASSUME NEW P, NEW T, NEW f \in [P -> Seq(T)], NEW s \in Seq(P), NEW t \in Seq(P)
  PROVE  ImageConcat(f, s, t)
<1> DEFINE S == {n \in Nat : \A u \in Seq(P) : Len(u) = n => ImageConcat(f, s, u)}
<1>0. ASSUME NEW u \in Seq(P)
      PROVE  FlattenSeq(Image(f, u)) \in Seq(T)
  <2>1. ImageOf(P, T, f, u, Image(f, u))
    BY ImageSeq, Zenon
  <2>2. Image(f, u) \in Seq(Seq(T))
    BY <2>1, Zenon DEF ImageOf
  <2> QED BY <2>2, FlattenElements
<1>1. 0 \in S
  <2> SUFFICES ASSUME NEW u \in Seq(P), Len(u) = 0 PROVE ImageConcat(f, s, u)
    OBVIOUS
  <2>1. u = << >>
    BY EmptySeq
  <2>2. s \o << >> = s /\ \A x \in Seq(T) : x \o << >> = x
    BY ConcatEmptySeq
  <2>3. Image(f, << >>) = << >>
    BY DEF Image
  <2>4. FlattenSeq(<< >>) = << >>
    BY DEF FlattenSeq
  <2> QED BY <1>0, <2>1, <2>2, <2>3, <2>4 DEF ImageConcat
<1>2. ASSUME NEW n \in Nat, n \in S PROVE n + 1 \in S
  <2> SUFFICES ASSUME NEW u \in Seq(P), Len(u) = n + 1 PROVE ImageConcat(f, s, u)
    OBVIOUS
  <2>1. PICK v \in Seq(P), m \in P : u = Append(v, m) /\ Len(v) = n
    <3>1. u # << >>
      OBVIOUS
    <3>2. PICK v \in Seq(P), m \in P : u = Append(v, m)
      BY <3>1, SequenceEmptyOrAppend
    <3>3. Len(v) = n
      BY <3>2
    <3> QED BY <3>2, <3>3
  <2>2. ImageConcat(f, s, v)
    BY <1>2, <2>1
  <2>3. Grown(T, f, v, m) /\ s \o v \in Seq(P)
    BY FlattenImageAppend, ConcatProperties
  <2>4. Grown(T, f, s \o v, m)
    BY <2>3, FlattenImageAppend
  <2>5. s \o Append(v, m) = Append(s \o v, m)
    <3>1. <<m>> \in Seq(P)
      OBVIOUS
    <3>2. Append(v, m) = v \o <<m>> /\ Append(s \o v, m) = (s \o v) \o <<m>>
      BY <2>3, AppendIsConcat
    <3>3. Assoc(P, s, v, <<m>>)
      BY <3>1, Joined
    <3> QED BY <3>2, <3>3 DEF Assoc
  <2>6. PICK a, b, c : a = FlattenSeq(Image(f, s)) /\ b = FlattenSeq(Image(f, v)) /\ c = f[m]
    OBVIOUS
  <2>7. Assoc(T, a, b, c)
    BY <1>0, <2>6, Joined
  <2>8. FlattenSeq(Image(f, s \o u)) = (a \o b) \o c
    BY <2>1, <2>2, <2>4, <2>5, <2>6 DEF Grown, ImageConcat
  <2>9. FlattenSeq(Image(f, u)) = b \o c
    BY <2>1, <2>3, <2>6 DEF Grown
  <2> QED BY <2>6, <2>7, <2>8, <2>9 DEF Assoc, ImageConcat
<1>3. Len(t) \in S
  <2> HIDE DEF S
  <2>1. Len(t) \in Nat
    OBVIOUS
  <2> QED BY <1>1, <1>2, <2>1, SetInduction
<1> QED BY <1>3

\* The images of a list made of parts are those of its parts.
Parts(f, EE) == [k \in DOMAIN EE |-> FlattenSeq(Image(f, EE[k]))]
PartsMake(P, T, f, EE) ==
  /\ Parts(f, EE) \in Seq(Seq(T)) /\ FlattenSeq(EE) \in Seq(P)
  /\ FlattenSeq(Parts(f, EE)) = FlattenSeq(Image(f, FlattenSeq(EE)))

LEMMA FlattenOfFlatten ==
  ASSUME NEW P, NEW T, NEW f \in [P -> Seq(T)], NEW EE \in Seq(Seq(P))
  PROVE  PartsMake(P, T, f, EE)
<1> DEFINE V == Seq(T)
<1>0. DOMAIN EE = 1 .. Len(EE) /\ Len(EE) \in Nat /\ \A k \in 1 .. Len(EE) : EE[k] \in Seq(P)
  OBVIOUS
<1>1. ASSUME NEW u \in Seq(P)
      PROVE  FlattenSeq(Image(f, u)) \in V
  <2>1. ImageOf(P, T, f, u, Image(f, u))
    BY ImageSeq, Zenon
  <2>2. Image(f, u) \in Seq(Seq(T))
    BY <2>1, Zenon DEF ImageOf
  <2> QED BY <2>2, FlattenElements
<1>2. PICK W : W = Parts(f, EE)
  OBVIOUS
<1>3. W \in Seq(V) /\ Len(W) = Len(EE) /\ \A k \in 1 .. Len(EE) : W[k] = FlattenSeq(Image(f, EE[k]))
  <2>1. \A k \in 1 .. Len(EE) : FlattenSeq(Image(f, EE[k])) \in V
    BY <1>0, <1>1
  <2> HIDE DEF V
  <2> QED BY <1>0, <1>2, <2>1 DEF Parts
<1>4. FlattenSeq(EE) \in Seq(P)
  BY FlattenElements
<1>5. CASE Len(EE) = 0
  <2>1. EE = << >> /\ W = << >>
    BY <1>3, <1>5, EmptySeq
  <2>2. FlattenSeq(<< >>) = << >> /\ Image(f, << >>) = << >>
    BY DEF FlattenSeq, Image
  <2> QED BY <1>2, <1>3, <1>4, <2>1, <2>2 DEF PartsMake
<1>6. CASE Len(EE) # 0
  <2>1. PICK k : FlattenTrace(P, EE, k)
    BY <1>6, FlattenRounds
  <2>2. PICK j : FlattenTrace(T, W, j)
    BY <1>3, <1>6, FlattenRounds
  <2>3. /\ k[1] = EE[1] /\ FlattenSeq(EE) = k[Len(EE)]
        /\ \A i \in 1 .. Len(EE) : k[i] \in Seq(P)
        /\ \A i \in 2 .. Len(EE) : k[i] = k[i - 1] \o EE[i]
    BY <2>1, Zenon DEF FlattenTrace
  <2>4. /\ j[1] = W[1] /\ FlattenSeq(W) = j[Len(EE)]
        /\ \A i \in 2 .. Len(EE) : j[i] = j[i - 1] \o W[i]
    BY <1>3, <2>2, Zenon DEF FlattenTrace
  <2> DEFINE S == {i \in Nat : i \in 1 .. Len(EE) => j[i] = FlattenSeq(Image(f, k[i]))}
  <2>5. 0 \in S
    OBVIOUS
  <2>6. ASSUME NEW i \in Nat, i \in S PROVE i + 1 \in S
    <3> SUFFICES ASSUME i + 1 \in 1 .. Len(EE) PROVE j[i + 1] = FlattenSeq(Image(f, k[i + 1]))
      OBVIOUS
    <3>1. CASE i = 0
      <4>1. i + 1 = 1
        BY <3>1
      <4> QED BY <1>3, <2>3, <2>4, <4>1
    <3>2. CASE i # 0
      <4>1. i \in 1 .. Len(EE) /\ i + 1 \in 2 .. Len(EE) /\ (i + 1) - 1 = i
        BY <1>0, <3>2
      <4>2. j[i] = FlattenSeq(Image(f, k[i]))
        BY <2>6, <4>1
      <4>3. k[i] \in Seq(P) /\ EE[i + 1] \in Seq(P)
        BY <1>0, <2>3, <4>1
      <4>4. ImageConcat(f, k[i], EE[i + 1])
        BY <4>3, FlattenImageConcat
      <4>5. k[i + 1] = k[i] \o EE[i + 1] /\ j[i + 1] = j[i] \o W[i + 1]
        BY <2>3, <2>4, <4>1
      <4>6. W[i + 1] = FlattenSeq(Image(f, EE[i + 1]))
        BY <1>3
      <4> QED BY <4>2, <4>4, <4>5, <4>6 DEF ImageConcat
    <3> QED BY <3>1, <3>2
  <2>7. Len(EE) \in S
    <3> HIDE DEF S
    <3> QED BY <1>0, <2>5, <2>6, SetInduction
  <2>8. Len(EE) \in 1 .. Len(EE)
    BY <1>0, <1>6
  <2>9. j[Len(EE)] = FlattenSeq(Image(f, k[Len(EE)]))
    BY <2>7, <2>8
  <2> QED BY <1>2, <1>3, <1>4, <2>3, <2>4, <2>9 DEF PartsMake
<1> QED BY <1>5, <1>6

\* Of parts that are all empty but one, that one is left.
LEMMA FlattenOne ==
  ASSUME NEW T, NEW W \in Seq(Seq(T)), NEW m \in 1 .. Len(W),
         \A i \in 1 .. Len(W) : i # m => W[i] = << >>
  PROVE  FlattenSeq(W) = W[m]
<1>0. Len(W) \in Nat /\ m \in Nat /\ m <= Len(W) /\ m >= 1 /\ W[m] \in Seq(T)
  OBVIOUS
<1>1. PICK k : FlattenTrace(T, W, k)
  <2>1. Len(W) # 0
    BY <1>0
  <2> QED BY <2>1, FlattenRounds
<1>2. /\ k[1] = W[1] /\ FlattenSeq(W) = k[Len(W)]
      /\ \A i \in 2 .. Len(W) : k[i] = k[i - 1] \o W[i]
  BY <1>1, Zenon DEF FlattenTrace
<1>3. PICK w : w = W[m] /\ w \in Seq(T)
  BY <1>0
<1>4. w \o << >> = w /\ << >> \o w = w /\ << >> \o << >> = << >>
  <2>1. << >> \in Seq(T)
    OBVIOUS
  <2> QED BY <1>3, <2>1, ConcatEmptySeq
<1> DEFINE Upto(i) == IF i < m THEN << >> ELSE w
           S == {i \in Nat : i \in 1 .. Len(W) => k[i] = Upto(i)}
<1>5. 0 \in S
  OBVIOUS
<1>6. ASSUME NEW i \in Nat, i \in S PROVE i + 1 \in S
  <2> SUFFICES ASSUME i + 1 \in 1 .. Len(W) PROVE k[i + 1] = Upto(i + 1)
    OBVIOUS
  <2>1. W[i + 1] = IF i + 1 = m THEN w ELSE << >>
    BY <1>3
  <2>2. CASE i = 0
    <3>1. i + 1 = 1
      BY <2>2
    <3>2. CASE m = 1
      BY <1>2, <2>1, <3>1, <3>2
    <3>3. CASE m # 1
      <4>1. 1 < m
        BY <1>0, <3>3
      <4> QED BY <1>2, <2>1, <3>1, <3>3, <4>1
    <3> QED BY <3>2, <3>3
  <2>3. CASE i # 0
    <3>1. i \in 1 .. Len(W) /\ i + 1 \in 2 .. Len(W) /\ (i + 1) - 1 = i
      BY <1>0, <2>3
    <3>2. k[i] = Upto(i) /\ k[i + 1] = k[i] \o W[i + 1]
      BY <1>2, <1>6, <3>1
    <3>3. CASE i + 1 = m
      <4>1. i < m /\ ~ (i + 1 < m)
        BY <3>3
      <4> QED BY <1>4, <2>1, <3>2, <3>3, <4>1
    <3>4. CASE i + 1 < m
      <4>1. i < m /\ i + 1 # m
        BY <1>0, <3>4
      <4> QED BY <1>4, <2>1, <3>2, <3>4, <4>1
    <3>5. CASE i + 1 > m
      <4>1. ~ (i < m) /\ ~ (i + 1 < m) /\ i + 1 # m
        BY <1>0, <3>5
      <4> QED BY <1>4, <2>1, <3>2, <4>1
    <3> QED BY <1>0, <3>3, <3>4, <3>5
  <2> QED BY <2>2, <2>3
<1>7. Len(W) \in S
  <2> HIDE DEF S
  <2> QED BY <1>0, <1>5, <1>6, SetInduction
<1>8. Len(W) \in 1 .. Len(W) /\ ~ (Len(W) < m)
  BY <1>0
<1>9. k[Len(W)] = w
  BY <1>7, <1>8
<1> QED BY <1>2, <1>3, <1>9

LEMMA FlattenFew ==
  ASSUME NEW T, NEW x \in Seq(T)
  PROVE  FlattenSeq(<< >>) = << >> /\ FlattenSeq(<<x>>) = x
<1>1. FlattenSeq(<< >>) = << >>
  BY DEF FlattenSeq
<1> DEFINE S == Seq(T)
<1>2. x \in S
  OBVIOUS
<1> HIDE DEF S
<1>3. PICK W : W = <<x>>
  OBVIOUS
<1>4. W \in Seq(S) /\ Len(W) = 1 /\ W[1] = x
  BY <1>2, <1>3
<1>5. FlattenSeq(W) = W[1]
  <2>1. W \in Seq(Seq(T)) /\ 1 \in 1 .. Len(W) /\ \A i \in 1 .. Len(W) : i # 1 => W[i] = << >>
    BY <1>4 DEF S
  <2> QED BY <2>1, FlattenOne
<1> QED BY <1>1, <1>3, <1>4, <1>5

\* The elements one by one.
Singles(T) == [x \in T |-> <<x>>]

LEMMA FlattenSingles ==
  ASSUME NEW T, NEW v \in Seq(T)
  PROVE  FlattenSeq(Image(Singles(T), v)) = v
<1> DEFINE f == Singles(T)
           S == {n \in Nat : \A u \in Seq(T) : Len(u) = n => FlattenSeq(Image(f, u)) = u}
<1>0. f \in [T -> Seq(T)] /\ \A x \in T : f[x] = <<x>>
  BY DEF Singles
<1>1. 0 \in S
  <2> SUFFICES ASSUME NEW u \in Seq(T), Len(u) = 0 PROVE FlattenSeq(Image(f, u)) = u
    OBVIOUS
  <2>1. u = << >>
    BY EmptySeq
  <2>2. Image(f, << >>) = << >>
    BY DEF Image
  <2>3. FlattenSeq(<< >>) = << >>
    BY DEF FlattenSeq
  <2> QED BY <2>1, <2>2, <2>3
<1> HIDE DEF f
<1>2. ASSUME NEW n \in Nat, n \in S PROVE n + 1 \in S
  <2> SUFFICES ASSUME NEW u \in Seq(T), Len(u) = n + 1 PROVE FlattenSeq(Image(f, u)) = u
    OBVIOUS
  <2>1. u # << >>
    OBVIOUS
  <2>2. PICK t \in Seq(T), m \in T : u = Append(t, m)
    BY <2>1, SequenceEmptyOrAppend
  <2>3. Len(t) = n
    BY <2>2
  <2>4. FlattenSeq(Image(f, t)) = t
    BY <1>2, <2>3
  <2>5. Grown(T, f, t, m)
    BY <1>0, FlattenImageAppend
  <2>6. Append(t, m) = t \o <<m>>
    BY AppendIsConcat
  <2> QED BY <1>0, <2>2, <2>4, <2>5, <2>6 DEF Grown
<1>3. Len(v) \in S
  <2> HIDE DEF S
  <2>1. Len(v) \in Nat
    OBVIOUS
  <2> QED BY <1>1, <1>2, <2>1, SetInduction
<1> QED BY <1>3 DEF f

\* The bytes of the k-th kind of property, and the properties they stand for.
Field(table, props, k) ==
  LET id == table[k][1]  type == table[k][2] IN
  IF id \notin DOMAIN props THEN << >>
  ELSE IF id = UserProperty
       THEN FlattenSeq([i \in DOMAIN props[id] |-> <<id>> \o Write(type, props[id][i])])
       ELSE <<id>> \o Write(type, props[id])
Listed(table, props, k) ==
  LET id == table[k][1] IN
  IF id \notin DOMAIN props THEN << >>
  ELSE IF id = UserProperty THEN [i \in DOMAIN props[id] |-> <<id, props[id][i]>>]
       ELSE << <<id, props[id]>> >>

\* The values of what is listed, if it is of one kind.
Found(table) == {e[2] : e \in Entries(table)}
ValueOf(table, id) == [e \in Entries(table) |-> IF e[1] = id THEN <<e[2]>> ELSE << >>]

\* What stands in a list of properties of the k-th kind.
ListedIs(table, props, k, u) ==
  LET id == table[k][1] IN
  /\ u \in Seq(Entries(table))
  /\ \A i \in DOMAIN u : u[i][1] = id
  /\ FlattenSeq(Image(EntryBytes(table), u)) = Field(table, props, k)
  /\ id \notin DOMAIN props => u = << >>
  /\ id \in DOMAIN props =>
       /\ u # << >>
       /\ FlattenSeq(Image(ValueOf(table, id), u)) = IF id = UserProperty THEN props[id] ELSE <<props[id]>>
  /\ \A other : other # id => FlattenSeq(Image(ValueOf(table, other), u)) = << >>

LEMMA EntryFunctions ==
  ASSUME NEW table, Table(table)
  PROVE  /\ EntryBytes(table) \in [Entries(table) -> Seq(Byte)]
         /\ \A id : ValueOf(table, id) \in [Entries(table) -> Seq(Found(table))]
<1>1. \A e \in Entries(table) : EntryBytes(table)[e] \in Seq(Byte)
  BY EntryFacts DEF IsEntry
<1>2. EntryBytes(table) = [e \in Entries(table) |-> EntryBytes(table)[e]]
  BY DEF EntryBytes
<1>3. ASSUME NEW id PROVE ValueOf(table, id) \in [Entries(table) -> Seq(Found(table))]
  <2>1. \A e \in Entries(table) : e[2] \in Found(table)
    BY DEF Found
  <2> QED BY <2>1 DEF ValueOf
<1> QED BY <1>1, <1>2, <1>3

\* Nothing comes of images that are all empty.
LEMMA NothingListed ==
  ASSUME NEW P, NEW T, NEW f \in [P -> Seq(T)], NEW u \in Seq(P), \A i \in 1 .. Len(u) : f[u[i]] = << >>
  PROVE  FlattenSeq(Image(f, u)) = << >>
<1>1. PICK W : W = Image(f, u)
  OBVIOUS
<1>2. W \in Seq(Seq(T)) /\ Len(W) = Len(u) /\ Len(u) \in Nat /\ \A i \in 1 .. Len(W) : W[i] = << >>
  <2>1. ImageOf(P, T, f, u, W)
    BY <1>1, ImageSeq, Zenon
  <2>2. /\ W \in Seq(Seq(T)) /\ Len(W) = Len(u) /\ Len(u) \in Nat
        /\ \A i \in 1 .. Len(u) : W[i] = f[u[i]]
    BY <2>1, Zenon DEF ImageOf
  <2> QED BY <2>2, Zenon
<1>3. CASE Len(W) = 0
  <2>1. W = << >>
    BY <1>2, <1>3, EmptySeq
  <2> QED BY <1>1, <2>1 DEF FlattenSeq
<1>4. CASE Len(W) # 0
  <2>1. 1 \in 1 .. Len(W)
    BY <1>2, <1>4
  <2> QED BY <1>1, <1>2, <2>1, FlattenOne
<1> QED BY <1>3, <1>4

LEMMA ListedFacts ==
  ASSUME NEW table, Table(table), NEW props, IsProperties(table, props), NEW k \in DOMAIN table
  PROVE  ListedIs(table, props, k, Listed(table, props, k))
<1>1. PICK id, type, u : id = table[k][1] /\ type = table[k][2] /\ u = Listed(table, props, k)
  OBVIOUS
<1>2. id \in Byte /\ type \in Types /\ TypeOf(table, id) = type
  <2>1. \A r \in Byte \X Types : r[1] \in Byte /\ r[2] \in Types
    OBVIOUS
  <2>2. table \in Seq(Byte \X Types)
    BY DEF Table
  <2>3. table[k] \in Byte \X Types
    BY <2>2
  <2> QED BY <1>1, <2>1, <2>3, KnownIs
<1>3. ASSUME NEW v \in Values(type)
      PROVE  /\ <<id, v>> \in Entries(table)
             /\ EntryBytes(table)[<<id, v>>] = <<id>> \o Write(type, v)
             /\ EntryBytes(table)[<<id, v>>] \in Seq(Byte)
             /\ ValueOf(table, id)[<<id, v>>] = <<v>>
             /\ v \in Found(table)
  <2>1. PICK e : e = <<id, v>>
    OBVIOUS
  <2>2. e[1] = id /\ e[2] = v
    BY <2>1
  <2>3. e \in Entries(table)
    BY <1>1, <2>1 DEF Entries
  <2>4. EntryBytes(table)[e] = <<id>> \o Write(type, v)
    BY <1>2, <2>2, <2>3 DEF EntryBytes
  <2>5. ValueOf(table, id)[e] = <<v>> /\ v \in Found(table)
    BY <2>2, <2>3 DEF ValueOf, Found
  <2> QED BY <2>1, <2>3, <2>4, <2>5, EntryFunctions
<1>4. CASE id \notin DOMAIN props
  <2>1. u = << >> /\ Field(table, props, k) = << >>
    BY <1>1, <1>4 DEF Listed, Field
  <2>2. \A f : FlattenSeq(Image(f, << >>)) = << >>
    <3>1. \A f : Image(f, << >>) = << >>
      BY DEF Image
    <3>2. FlattenSeq(<< >>) = << >>
      BY DEF FlattenSeq
    <3> QED BY <3>1, <3>2
  <2>3. << >> \in Seq(Entries(table)) /\ DOMAIN << >> = {}
    OBVIOUS
  <2> QED BY <1>1, <1>4, <2>1, <2>2, <2>3 DEF ListedIs
<1>5. ASSUME u \in Seq(Entries(table)), \A i \in DOMAIN u : u[i][1] = id
      PROVE  \A other : other # id => FlattenSeq(Image(ValueOf(table, other), u)) = << >>
  <2> SUFFICES ASSUME NEW other, other # id PROVE FlattenSeq(Image(ValueOf(table, other), u)) = << >>
    OBVIOUS
  <2>1. PICK f \in [Entries(table) -> Seq(Found(table))] : f = ValueOf(table, other)
    BY EntryFunctions
  <2>2. ASSUME NEW i \in 1 .. Len(u) PROVE f[u[i]] = << >>
    <3>1. u[i] \in Entries(table) /\ u[i][1] = id
      BY <1>5
    <3> QED BY <2>1, <3>1 DEF ValueOf
  <2>3. FlattenSeq(Image(f, u)) = << >>
    BY <1>5, <2>2, NothingListed
  <2> QED BY <2>1, <2>3
<1>6. CASE id \in DOMAIN props /\ id # UserProperty
  <2>1. PICK v \in Values(type) : v = props[id]
    BY <1>1, <1>6 DEF IsProperties
  <2>2. PICK e : e = <<id, v>>
    OBVIOUS
  <2>3. u = <<e>> /\ Field(table, props, k) = <<id>> \o Write(type, v)
    BY <1>1, <1>6, <2>1, <2>2 DEF Listed, Field
  <2>4. e \in Entries(table) /\ e[1] = id
    BY <1>3, <2>2
  <2>5. u \in Seq(Entries(table)) /\ (\A i \in DOMAIN u : u[i][1] = id) /\ u # << >>
    BY <2>3, <2>4
  <2>6. \A f : Image(f, u) = <<f[e]>>
    BY <2>3 DEF Image
  <2>7. FlattenSeq(Image(EntryBytes(table), u)) = Field(table, props, k)
    <3>1. PICK x \in Seq(Byte) : x = EntryBytes(table)[e]
      BY <1>3, <2>2
    <3>2. x = <<id>> \o Write(type, v)
      BY <1>3, <2>2, <3>1
    <3>3. FlattenSeq(<<x>>) = x
      BY FlattenFew
    <3> QED BY <2>3, <2>6, <3>1, <3>2, <3>3
  <2>8. FlattenSeq(Image(ValueOf(table, id), u)) = <<v>>
    <3>0. PICK F : F = Found(table) /\ v \in F
      BY <1>3, Zenon
    <3>1. <<v>> \in Seq(Found(table))
      BY <3>0
    <3>2. FlattenSeq(<<<<v>>>>) = <<v>>
      BY <3>1, FlattenFew
    <3> QED BY <1>3, <2>2, <2>6, <3>2
  <2> QED BY <1>1, <1>5, <1>6, <2>1, <2>5, <2>7, <2>8 DEF ListedIs
<1>7. CASE id \in DOMAIN props /\ id = UserProperty
  <2>1. PICK v : v = props[id] /\ v \in Seq(Values(type)) /\ v # << >>
    BY <1>1, <1>7 DEF IsProperties
  <2>2. Len(v) \in Nat /\ Len(v) # 0 /\ DOMAIN v = 1 .. Len(v) /\ \A i \in 1 .. Len(v) : v[i] \in Values(type)
    BY <2>1
  <2>3. /\ u = [i \in 1 .. Len(v) |-> <<id, v[i]>>]
        /\ Field(table, props, k) = FlattenSeq([i \in 1 .. Len(v) |-> <<id>> \o Write(type, v[i])])
    BY <1>1, <1>7, <2>1, <2>2 DEF Listed, Field
  <2>4. DOMAIN u = 1 .. Len(v) /\ \A i \in 1 .. Len(v) : u[i] = <<id, v[i]>> /\ u[i] \in Entries(table) /\ u[i][1] = id
    <3>1. DOMAIN u = 1 .. Len(v) /\ \A i \in 1 .. Len(v) : u[i] = <<id, v[i]>>
      BY <2>3
    <3>2. \A i \in 1 .. Len(v) : <<id, v[i]>> \in Entries(table) /\ <<id, v[i]>>[1] = id
      BY <1>3, <2>2
    <3> QED BY <3>1, <3>2
  <2>5. u \in Seq(Entries(table)) /\ Len(u) = Len(v)
    <3>1. u \in [1 .. Len(v) -> Entries(table)]
      BY <2>3, <2>4
    <3> QED BY <2>2, <3>1, FunctionIsSeq
  <2>6. u # << >> /\ \A i \in DOMAIN u : u[i][1] = id
    BY <2>2, <2>4, <2>5
  <2>7. FlattenSeq(Image(EntryBytes(table), u)) = Field(table, props, k)
    <3>1. Image(EntryBytes(table), u) = [i \in 1 .. Len(v) |-> EntryBytes(table)[u[i]]]
      BY <2>4 DEF Image
    <3>2. \A i \in 1 .. Len(v) : EntryBytes(table)[u[i]] = <<id>> \o Write(type, v[i])
      BY <1>3, <2>2, <2>4
    <3>3. Image(EntryBytes(table), u) = [i \in 1 .. Len(v) |-> <<id>> \o Write(type, v[i])]
      BY <3>1, <3>2, Zenon
    <3> QED BY <2>3, <3>3
  <2>8. FlattenSeq(Image(ValueOf(table, id), u)) = v
    <3> DEFINE F == Found(table)
    <3>1. v \in Seq(F)
      <4>1. \A i \in 1 .. Len(v) : v[i] \in F
        BY <1>3, <2>2
      <4> HIDE DEF F
      <4> QED BY <2>1, <2>2, <4>1
    <3>2. Image(ValueOf(table, id), u) = [i \in 1 .. Len(v) |-> ValueOf(table, id)[u[i]]]
      BY <2>4 DEF Image
    <3>3. \A i \in 1 .. Len(v) : ValueOf(table, id)[u[i]] = <<v[i]>>
      BY <1>3, <2>2, <2>4
    <3>4. Image(Singles(F), v) = [i \in 1 .. Len(v) |-> <<v[i]>>]
      <4>1. Image(Singles(F), v) = [i \in 1 .. Len(v) |-> Singles(F)[v[i]]]
        BY <2>2 DEF Image
      <4>2. \A i \in 1 .. Len(v) : Singles(F)[v[i]] = <<v[i]>>
        BY <1>3, <2>2 DEF Singles
      <4> QED BY <4>1, <4>2, Zenon
    <3>5. Image(ValueOf(table, id), u) = Image(Singles(F), v)
      BY <3>2, <3>3, <3>4, Zenon
    <3>6. FlattenSeq(Image(Singles(F), v)) = v
      BY <3>1, FlattenSingles
    <3> QED BY <3>5, <3>6
  <2> QED BY <1>1, <1>5, <1>7, <2>1, <2>5, <2>6, <2>7, <2>8 DEF ListedIs
<1> QED BY <1>4, <1>6, <1>7

\* The bytes, the list and the values of the properties of all kinds.
LEMMA AllListed ==
  ASSUME NEW table, Table(table), NEW props, IsProperties(table, props),
         NEW E, E = FlattenSeq([k \in DOMAIN table |-> Listed(table, props, k)])
  PROVE  /\ E \in Seq(Entries(table)) /\ Collected(E) = props
         /\ FlattenSeq([k \in DOMAIN table |-> Field(table, props, k)])
              = FlattenSeq(Image(EntryBytes(table), E))
<1> DEFINE T == Entries(table)
           S == Seq(T)
<1>1. PICK EE : EE = [k \in DOMAIN table |-> Listed(table, props, k)]
  OBVIOUS
<1>2. DOMAIN table = 1 .. Len(table) /\ Len(table) \in Nat
  BY DEF Table
<1>3. /\ EE \in Seq(Seq(T)) /\ DOMAIN EE = DOMAIN table /\ Len(EE) = Len(table)
      /\ \A k \in DOMAIN table : ListedIs(table, props, k, EE[k])
  <2>1. \A k \in DOMAIN table : ListedIs(table, props, k, EE[k])
    BY <1>1, ListedFacts
  <2>2. \A k \in DOMAIN table : EE[k] \in S
    BY <2>1 DEF ListedIs
  <2>3. DOMAIN EE = DOMAIN table
    BY <1>1
  <2> HIDE DEF S
  <2>4. EE \in [1 .. Len(table) -> S]
    BY <1>1, <1>2, <2>2, <2>3
  <2>5. EE \in Seq(S) /\ Len(EE) = Len(table)
    BY <1>2, <2>4, FunctionIsSeq
  <2> QED BY <2>1, <2>3, <2>5 DEF S
<1>4. E \in Seq(T) /\ ToSet(E) = UNION {ToSet(EE[k]) : k \in DOMAIN table}
  <2>0. E = FlattenSeq(EE) /\ EE \in Seq(Seq(T))
    BY <1>1, <1>3
  <2> HIDE DEF T, S
  <2>1. E \in Seq(T) /\ ToSet(E) = UNION {ToSet(EE[k]) : k \in 1 .. Len(EE)}
    BY <2>0, FlattenElements
  <2> QED BY <1>2, <1>3, <2>1
<1>5. \A id : id \in DOMAIN props => \E k \in DOMAIN table : table[k][1] = id
  BY DEF IsProperties
<1>6. {E[i][1] : i \in DOMAIN E} = DOMAIN props
  <2>1. ToSet(E) = {E[i] : i \in DOMAIN E}
    BY DEF ToSet
  <2>2. ASSUME NEW i \in DOMAIN E PROVE E[i][1] \in DOMAIN props
    <3>0. E[i] \in ToSet(E)
      BY <2>1
    <3>1. PICK k \in DOMAIN table : E[i] \in ToSet(EE[k])
      BY <1>4, <3>0, Zenon
    <3>2. PICK j \in DOMAIN EE[k] : E[i] = EE[k][j]
      BY <3>1 DEF ToSet
    <3>3. E[i][1] = table[k][1]
      BY <1>3, <3>2, Zenon DEF ListedIs
    <3>4. EE[k] # << >>
      BY <3>2
    <3> QED BY <1>3, <3>3, <3>4, Zenon DEF ListedIs
  <2>3. ASSUME NEW id \in DOMAIN props PROVE \E i \in DOMAIN E : id = E[i][1]
    <3>1. PICK k \in DOMAIN table : table[k][1] = id
      BY <1>5
    <3>2. PICK u : u = EE[k]
      OBVIOUS
    <3>3. u \in Seq(T) /\ u # << >> /\ \A j \in DOMAIN u : u[j][1] = id
      BY <1>3, <3>1, <3>2, Zenon DEF ListedIs
    <3>4. 1 \in DOMAIN u
      <4> HIDE DEF T
      <4>1. u \in Seq(T) /\ u # << >>
        BY <3>3
      <4> QED BY <4>1
    <3>5. u[1] \in ToSet(E)
      <4>1. u[1] \in ToSet(u)
        BY <3>4 DEF ToSet
      <4> QED BY <1>4, <3>2, <4>1
    <3> QED BY <2>1, <3>3, <3>4, <3>5
  <2> QED BY <2>2, <2>3
<1>7. ASSUME NEW id \in DOMAIN props
      PROVE  FlattenSeq(Image(ValueOf(table, id), E)) = IF id = UserProperty THEN props[id] ELSE <<props[id]>>
  <2>1. PICK k \in DOMAIN table : table[k][1] = id
    BY <1>5
  <2>2. PICK f \in [T -> Seq(Found(table))] : f = ValueOf(table, id)
    BY EntryFunctions
  <2>3. PICK W : W = Parts(f, EE)
    OBVIOUS
  <2>4. W \in Seq(Seq(Found(table))) /\ FlattenSeq(W) = FlattenSeq(Image(f, E))
    <3>1. E = FlattenSeq(EE) /\ EE \in Seq(Seq(T))
      BY <1>1, <1>3
    <3> HIDE DEF T, S
    <3>2. PartsMake(T, Found(table), f, EE)
      BY <3>1, FlattenOfFlatten, Zenon
    <3> QED BY <2>3, <3>1, <3>2, Zenon DEF PartsMake
  <2>5. DOMAIN W = DOMAIN table /\ \A j \in DOMAIN table : W[j] = FlattenSeq(Image(f, EE[j]))
    BY <1>3, <2>3 DEF Parts
  <2>6. \A j \in DOMAIN table : j # k => W[j] = << >>
    <3>1. \A j \in DOMAIN table : j # k => table[j][1] # id
      BY <2>1, Zenon DEF Table
    <3> QED BY <1>3, <2>2, <2>5, <3>1, Zenon DEF ListedIs
  <2>7. FlattenSeq(W) = W[k]
    <3>1. DOMAIN W = 1 .. Len(W)
      BY <2>4
    <3> QED BY <2>4, <2>5, <2>6, <3>1, FlattenOne
  <2>8. W[k] = IF id = UserProperty THEN props[id] ELSE <<props[id]>>
    BY <1>3, <2>1, <2>2, <2>5, Zenon DEF ListedIs
  <2> QED BY <2>2, <2>4, <2>7, <2>8
<1>8. Collected(E) = props
  <2> DEFINE of(id) == FlattenSeq([i \in DOMAIN E |-> IF E[i][1] = id THEN <<E[i][2]>> ELSE << >>])
             value(id) == IF id = UserProperty THEN of(id) ELSE of(id)[Len(of(id))]
  <2>1. ASSUME NEW id \in DOMAIN props PROVE value(id) = props[id]
    <3>1. \A i \in DOMAIN E : E[i] \in T
      <4> HIDE DEF T
      <4> QED BY <1>4
    <3>2. \A i \in DOMAIN E : ValueOf(table, id)[E[i]] = IF E[i][1] = id THEN <<E[i][2]>> ELSE << >>
      BY <3>1 DEF ValueOf
    <3>3. Image(ValueOf(table, id), E) = [i \in DOMAIN E |-> IF E[i][1] = id THEN <<E[i][2]>> ELSE << >>]
      BY <3>2, Zenon DEF Image
    <3>4. PICK v : v = of(id)
      OBVIOUS
    <3>5. v = IF id = UserProperty THEN props[id] ELSE <<props[id]>>
      BY <1>7, <3>3, <3>4
    <3>6. value(id) = IF id = UserProperty THEN v ELSE v[Len(v)]
      BY <3>4, Zenon
    <3>7. CASE id = UserProperty
      BY <3>5, <3>6, <3>7
    <3>8. CASE id # UserProperty
      <4>1. v = <<props[id]>>
        BY <3>5, <3>8
      <4>2. v[Len(v)] = props[id]
        BY <4>1
      <4> QED BY <3>6, <3>8, <4>2
    <3> QED BY <3>7, <3>8
  <2>2. Collected(E) = [id \in {E[i][1] : i \in DOMAIN E} |-> value(id)]
    BY DEF Collected
  <2>3. Collected(E) = [id \in DOMAIN props |-> value(id)]
    BY <1>6, <2>2
  <2>4. Collected(E) = [id \in DOMAIN props |-> props[id]]
    <3> HIDE DEF value
    <3> QED BY <2>1, <2>3
  <2>5. props = [id \in DOMAIN props |-> props[id]]
    BY Zenon DEF IsProperties
  <2> QED BY <2>4, <2>5
<1>9. FlattenSeq([k \in DOMAIN table |-> Field(table, props, k)]) = FlattenSeq(Image(EntryBytes(table), E))
  <2>1. PICK f \in [T -> Seq(Byte)] : f = EntryBytes(table)
    BY EntryFunctions
  <2>2. FlattenSeq(Parts(f, EE)) = FlattenSeq(Image(f, E))
    <3>1. E = FlattenSeq(EE) /\ EE \in Seq(Seq(T))
      BY <1>1, <1>3
    <3> HIDE DEF T, S
    <3>2. PartsMake(T, Byte, f, EE)
      BY <3>1, FlattenOfFlatten, Zenon
    <3> QED BY <3>1, <3>2, Zenon DEF PartsMake
  <2>3. \A k \in DOMAIN table : FlattenSeq(Image(f, EE[k])) = Field(table, props, k)
    BY <1>3, <2>1, Zenon DEF ListedIs
  <2>4. Parts(f, EE) = [k \in DOMAIN table |-> Field(table, props, k)]
    BY <1>3, <2>3, Zenon DEF Parts
  <2> QED BY <2>1, <2>2, <2>4
<1> QED BY <1>4, <1>8, <1>9

\* Encoded properties are bytes and are decoded to what they were, whatever
\* follows them.
Carried(table, props, w) ==
  /\ w \in Seq(Byte) /\ w # << >>
  /\ \A rest \in Seq(Byte) : decode_properties(table, w \o rest) = Got(props, rest)

LEMMA PropertiesGot ==
  ASSUME NEW table, Table(table), NEW props, IsProperties(table, props),
         Len(FlattenSeq([k \in DOMAIN table |-> Field(table, props, k)])) <= MaxVarint
  PROVE  Carried(table, props, encode_properties(table, props))
<1>1. PICK E : E = FlattenSeq([k \in DOMAIN table |-> Listed(table, props, k)])
  OBVIOUS
<1>2. PICK s : s = FlattenSeq([k \in DOMAIN table |-> Field(table, props, k)])
  OBVIOUS
<1>3. E \in Seq(Entries(table)) /\ Collected(E) = props /\ s = FlattenSeq(Image(EntryBytes(table), E))
  BY <1>1, <1>2, AllListed
<1>4. s \in Seq(Byte) /\ PropertyList(table, s) = Got(E, << >>)
  BY <1>3, PropertyListGot
<1>5. PICK n : n = Len(s) /\ n \in Nat /\ n <= MaxVarint
  <2>1. Len(s) \in Nat
    BY <1>4
  <2> QED BY <1>2, <2>1
<1>6. PICK a : a = encode_varint(n)
  OBVIOUS
<1>7. a \in Seq(Byte) /\ a # << >>
  <2>1. a \in Seq(Byte) /\ Len(a) = VarintLen(n) /\ VarintLen(n) \in 1 .. 4
    BY <1>5, <1>6, VarintBytes
  <2> QED BY <2>1
<1>8. encode_properties(table, props) = a \o s
  BY <1>2, <1>5, <1>6 DEF encode_properties, Field
<1>9. a \o s \in Seq(Byte)
  BY <1>4, <1>7, ConcatProperties
<1>10. a \o s # << >>
  BY <1>4, <1>7, ConcatEqualIffEmpty
<1>11. ASSUME NEW rest \in Seq(Byte)
       PROVE  decode_properties(table, (a \o s) \o rest) = Got(props, rest)
  <2>1. Assoc(Byte, a, s, rest)
    BY <1>4, <1>7, Joined
  <2>2. PICK m : m = s \o rest /\ m \in Seq(Byte) /\ (a \o s) \o rest = a \o m
    BY <2>1 DEF Assoc
  <2>3. a \o m # << >>
    BY <1>7, <2>2, ConcatEqualIffEmpty
  <2>4. PICK h : h = read_varint(a \o m)
    OBVIOUS
  <2>5. h = Got(n, m)
    BY <1>5, <1>6, <2>2, <2>4, VarintGot
  <2>6. h.err = "none" /\ h.val = n /\ h.rest = m
    BY <2>5 DEF Got
  <2>7. PICK x : x = read_raw(n, m)
    OBVIOUS
  <2>8. x = Got(s, rest)
    BY <1>4, <1>5, <2>2, <2>7, RawGot
  <2>9. x.err = "none" /\ x.val = s /\ x.rest = rest
    BY <2>8 DEF Got
  <2>10. PICK l : l = PropertyList(table, s)
    OBVIOUS
  <2>11. l.err = "none" /\ l.val = E
    BY <1>4, <2>10 DEF Got
  <2>12. decode_properties(table, a \o m) = Got(Collected(l.val), x.rest)
    BY <2>3, <2>4, <2>6, <2>7, <2>9, <2>10, <2>11 DEF decode_properties, Then
  <2> QED BY <1>3, <2>2, <2>9, <2>11, <2>12
<1> QED BY <1>8, <1>9, <1>10, <1>11 DEF Carried

-----------------------------------------------------------------------------
(* Packets.                                                                *)

\* A part is not longer than the whole.
LEMMA PartFits ==
  ASSUME NEW a \in Seq(Nat), NEW w \in Seq(Nat), NEW b \in Seq(Nat), Len((a \o w) \o b) <= MaxVarint
  PROVE  Len(w) <= MaxVarint
<1>1. PICK x : x = a \o w
  OBVIOUS
<1>2. JoinOf(Nat, a, w, x)
  BY <1>1, JoinIs, Zenon
<1>3. x \in Seq(Nat) /\ Len(x) = Len(a) + Len(w)
  BY <1>2 DEF JoinOf
<1>4. JoinOf(Nat, x, b, x \o b)
  BY <1>3, JoinIs, Zenon
<1>5. Len(x \o b) = Len(x) + Len(b) /\ Len(x \o b) <= MaxVarint
  BY <1>1, <1>4 DEF JoinOf
<1>6. Len(a) \in Nat /\ Len(w) \in Nat /\ Len(b) \in Nat
  OBVIOUS
<1>7. PICK i, j, k, m : i = Len(a) /\ j = Len(w) /\ k = Len(b) /\ m = Len(x \o b)
  OBVIOUS
<1>8. i \in Nat /\ j \in Nat /\ k \in Nat /\ m = (i + j) + k /\ m <= MaxVarint
  BY <1>3, <1>5, <1>6, <1>7, Zenon
<1>9. j <= MaxVarint
  BY <1>8 DEF MaxVarint
<1> QED BY <1>7, <1>9

\* Encoded properties are a list of numbers, and bytes if they are short
\* enough to be written.
LEMMA PropertiesAreNumbers ==
  ASSUME NEW table, Table(table), NEW props, IsProperties(table, props)
  PROVE  /\ encode_properties(table, props) \in Seq(Nat)
         /\ Len(encode_properties(table, props)) <= MaxVarint =>
              Carried(table, props, encode_properties(table, props))
<1>1. PICK E : E = FlattenSeq([k \in DOMAIN table |-> Listed(table, props, k)])
  OBVIOUS
<1>2. PICK s : s = FlattenSeq([k \in DOMAIN table |-> Field(table, props, k)])
  OBVIOUS
<1>3. E \in Seq(Entries(table)) /\ s = FlattenSeq(Image(EntryBytes(table), E))
  BY <1>1, <1>2, AllListed
<1>4. s \in Seq(Byte) /\ s \in Seq(Nat)
  BY <1>3, PropertyListGot, BytesAreNumbers
<1>5. PICK a : a = encode_varint(Len(s))
  OBVIOUS
<1>6. a \in Seq(Nat)
  <2>1. Len(s) \in Nat
    BY <1>4
  <2> QED BY <1>5, <2>1, EncodedBytes
<1>7. PICK w : w = encode_properties(table, props)
  OBVIOUS
<1>8. w = a \o s
  BY <1>2, <1>5, <1>7 DEF encode_properties, Field
<1>9. w \in Seq(Nat)
  BY <1>4, <1>6, <1>8, ConcatProperties
<1>10. ASSUME Len(w) <= MaxVarint PROVE Carried(table, props, w)
  <2>1. (a \o s) \o << >> = w
    BY <1>8, <1>9, ConcatEmptySeq
  <2>2. << >> \in Seq(Nat)
    OBVIOUS
  <2>3. Len(s) <= MaxVarint
    BY <1>4, <1>6, <1>10, <2>1, <2>2, PartFits
  <2> QED BY <1>2, <1>7, <2>3, PropertiesGot
<1> QED BY <1>7, <1>9, <1>10

\* An optional value is there or not.
OptionBytes(o) == IF o = << >> THEN << >> ELSE write_bytes(o[1])

LEMMA OptionCases ==
  ASSUME NEW S, NEW o \in Option(S)
  PROVE  o = << >> \/ (o # << >> /\ o[1] \in S /\ o = <<o[1]>>)
<1>1. o \in Seq(S) /\ Len(o) <= 1
  BY DEF Option
<1>2. CASE o # << >>
  <2>0. Len(o) \in Nat \ {0}
    BY <1>1, <1>2, EmptySeq
  <2>1. Len(o) = 1 /\ o[1] \in S
    BY <1>1, <2>0
  <2>2. o = <<o[1]>>
    BY <1>1, <2>1
  <2> QED BY <1>2, <2>1, <2>2
<1> QED BY <1>2

LEMMA OptionalGot ==
  ASSUME NEW o, NEW rest \in Seq(Byte), NEW present \in BOOLEAN, present <=> o # << >>
  PROVE  /\ o \in Option(Text) =>
              /\ OptionBytes(o) \in Seq(Byte)
              /\ Optional(present, read_str, OptionBytes(o) \o rest) = Got(o, rest)
         /\ o \in Option(Binary) =>
              /\ OptionBytes(o) \in Seq(Byte)
              /\ Optional(present, read_bytes, OptionBytes(o) \o rest) = Got(o, rest)
         /\ o \in Option(U16) =>
              LET w == IF o = << >> THEN << >> ELSE write_u16(o[1]) IN
              /\ w \in Seq(Byte)
              /\ Optional(present, read_u16, w \o rest) = Got(o, rest)
<1>0. << >> \in Seq(Byte) /\ << >> \o rest = rest
  BY ConcatEmptySeq
<1>1. CASE o = << >>
  <2>1. OptionBytes(o) = << >> /\ ~ present
    BY <1>1 DEF OptionBytes
  <2> QED BY <1>0, <1>1, <2>1 DEF Optional
<1>2. ASSUME o # << >>, o \in Option(Text)
      PROVE  /\ OptionBytes(o) \in Seq(Byte)
             /\ Optional(present, read_str, OptionBytes(o) \o rest) = Got(o, rest)
  <2>1. o[1] \in Text /\ o = <<o[1]>>
    BY <1>2, OptionCases
  <2>2. PICK w : w = write_bytes(o[1]) /\ OptionBytes(o) = w
    BY <1>2 DEF OptionBytes
  <2>3. PICK r : r = read_str(w \o rest)
    OBVIOUS
  <2>4. w \in Seq(Byte) /\ r = Got(o[1], rest)
    BY <2>1, <2>2, <2>3, StrGot
  <2>5. r.err = "none" /\ r.val = o[1] /\ r.rest = rest
    BY <2>4 DEF Got
  <2>6. Optional(present, read_str, w \o rest) = Got(<<r.val>>, r.rest)
    BY <1>2, <2>3, <2>5 DEF Optional, Then
  <2> QED BY <2>1, <2>2, <2>4, <2>5, <2>6
<1>3. ASSUME o # << >>, o \in Option(Binary)
      PROVE  /\ OptionBytes(o) \in Seq(Byte)
             /\ Optional(present, read_bytes, OptionBytes(o) \o rest) = Got(o, rest)
  <2>1. o[1] \in Binary /\ o = <<o[1]>>
    BY <1>3, OptionCases
  <2>2. PICK w : w = write_bytes(o[1]) /\ OptionBytes(o) = w
    BY <1>3 DEF OptionBytes
  <2>3. PICK r : r = read_bytes(w \o rest)
    OBVIOUS
  <2>4. w \in Seq(Byte) /\ r = Got(o[1], rest)
    BY <2>1, <2>2, <2>3, BytesGot
  <2>5. r.err = "none" /\ r.val = o[1] /\ r.rest = rest
    BY <2>4 DEF Got
  <2>6. Optional(present, read_bytes, w \o rest) = Got(<<r.val>>, r.rest)
    BY <1>3, <2>3, <2>5 DEF Optional, Then
  <2> QED BY <2>1, <2>2, <2>4, <2>5, <2>6
<1>4. ASSUME o # << >>, o \in Option(U16), NEW w, w = write_u16(o[1])
      PROVE  /\ w \in Seq(Byte)
             /\ Optional(present, read_u16, w \o rest) = Got(o, rest)
  <2>1. o[1] \in U16 /\ o = <<o[1]>>
    BY <1>4, OptionCases
  <2>3. PICK r : r = read_u16(w \o rest)
    OBVIOUS
  <2>4. w \in Seq(Byte) /\ r = Got(o[1], rest)
    BY <1>4, <2>1, <2>3, U16Got
  <2>5. r.err = "none" /\ r.val = o[1] /\ r.rest = rest
    BY <2>4 DEF Got
  <2>6. Optional(present, read_u16, w \o rest) = Got(<<r.val>>, r.rest)
    BY <1>4, <2>3, <2>5 DEF Optional, Then
  <2> QED BY <2>1, <2>4, <2>5, <2>6
<1> QED BY <1>1, <1>2, <1>3, <1>4

\* The bytes of one subscription, and of all.
Subscription == [topic_filter : Text, options : Byte]
SubscriptionBytes(x) == Append(write_bytes(x.topic_filter), x.options)

LEMMA SubscriptionGot ==
  ASSUME NEW x \in Subscription, NEW rest \in Seq(Byte)
  PROVE  /\ SubscriptionBytes(x) \in Seq(Byte) /\ Len(SubscriptionBytes(x)) \in Nat \ {0}
         /\ read_subscription(SubscriptionBytes(x) \o rest) = Got(x, rest)
<1>1. PICK f \in Text, o \in Byte : f = x.topic_filter /\ o = x.options /\ x = [topic_filter |-> f, options |-> o]
  BY DEF Subscription
<1>2. PICK a, b : a = write_bytes(f) /\ b = <<o>>
  OBVIOUS
<1>3. a \in Seq(Byte) /\ b \in Seq(Byte)
  BY <1>2, StrGot
<1>4. SubscriptionBytes(x) = Append(a, o) /\ Append(a, o) = a \o b
  BY <1>1, <1>2, <1>3, AppendIsConcat DEF SubscriptionBytes
<1>5. Len(Append(a, o)) = Len(a) + 1 /\ Len(a) \in Nat
  BY <1>3
<1>6. Assoc(Byte, a, b, rest)
  BY <1>3, Joined
<1>7. PICK y, z : y = read_str(a \o (b \o rest)) /\ z = read_u8(b \o rest)
  OBVIOUS
<1>8. y = Got(f, b \o rest)
  BY <1>2, <1>6, <1>7, StrGot DEF Assoc
<1>9. z = Got(o, rest)
  BY <1>2, <1>7, U8Got
<1>10. y.err = "none" /\ y.val = f /\ y.rest = b \o rest /\ z.err = "none" /\ z.val = o /\ z.rest = rest
  BY <1>8, <1>9 DEF Got
<1>11. read_subscription(a \o (b \o rest)) = Got([topic_filter |-> y.val, options |-> z.val], z.rest)
  BY <1>7, <1>10 DEF read_subscription, Then
<1>12. read_subscription((a \o b) \o rest) = Got(x, rest)
  BY <1>1, <1>6, <1>10, <1>11 DEF Assoc
<1>13. a \o b \in Seq(Byte) /\ Len(a \o b) \in Nat \ {0}
  BY <1>4, <1>5, <1>6 DEF Assoc
<1> QED BY <1>4, <1>12, <1>13

\* A loop that reads each element of E from the part of s that f makes of it.
LoopOver(T, f, E, R, s) ==
  /\ f \in [T -> Seq(Byte)] /\ \A x \in T : Len(f[x]) \in Nat \ {0}
  /\ s = FlattenSeq(Image(f, E))
  /\ \A i \in 0 .. Len(s) - 1 : \A x \in T, rest \in Seq(Byte) :
       Drop(s, i) = f[x] \o rest => R[i + 1] = Got(x, rest)

LEMMA LoopGot ==
  ASSUME NEW T, NEW f, NEW E \in Seq(T), NEW R, NEW s, LoopOver(T, f, E, R, s),
         NEW r, Computed(R, Len(s), r)
  PROVE  s \in Seq(Byte) /\ r = Got(E, << >>)
<1>0. f \in [T -> Seq(Byte)] /\ s = FlattenSeq(Image(f, E))
  BY DEF LoopOver
<1>1. PICK W : W = Image(f, E)
  OBVIOUS
<1>2. /\ W \in Seq(Seq(Byte)) /\ Len(W) = Len(E) /\ Len(E) \in Nat
      /\ \A k \in 1 .. Len(E) : E[k] \in T /\ W[k] = f[E[k]]
  <2>1. ImageOf(T, Byte, f, E, W)
    BY <1>0, <1>1, ImageSeq, Zenon
  <2> QED BY <2>1, Zenon DEF ImageOf
<1>3. PICK C : Cuts(Byte, W, C, s)
  BY <1>0, <1>1, <1>2, FlattenCuts
<1>4. s \in Seq(Byte) /\ Len(s) \in Nat
  BY <1>3 DEF Cuts
<1>5. \A k \in 1 .. Len(W) : Len(W[k]) \in Nat \ {0}
  BY <1>2, Zenon DEF LoopOver
<1>6. ASSUME NEW k \in 1 .. Len(W)
      PROVE  LET q == R[C[k] + 1] IN q.err = "none" /\ q.val = E[k] /\ q.rest = Drop(s, C[k + 1])
  <2>1. PICK a, b : a = C[k] /\ b = C[k + 1]
    OBVIOUS
  <2>2. a \in Nat /\ b \in Nat /\ b = a + Len(W[k]) /\ b <= Len(s) /\ Drop(s, a) = W[k] \o Drop(s, b)
    BY <1>3, <2>1, Zenon DEF Cuts
  <2>3. a \in 0 .. Len(s) - 1 /\ b \in 0 .. Len(s)
    <3>1. PICK l, n : l = Len(W[k]) /\ n = Len(s) /\ l \in Nat \ {0} /\ n \in Nat
      BY <1>4, <1>5
    <3>2. a \in 0 .. n - 1 /\ b \in 0 .. n
      BY <2>2, <3>1
    <3> QED BY <3>1, <3>2
  <2>4. PICK rest \in Seq(Byte) : rest = Drop(s, b)
    BY <1>4, <2>3, DropFacts
  <2>5. PICK x \in T : x = E[k] /\ W[k] = f[x]
    BY <1>2
  <2>6. Drop(s, a) = f[x] \o rest
    BY <2>2, <2>4, <2>5
  <2>7. R[a + 1] = Got(x, rest)
    BY <2>3, <2>6, Zenon DEF LoopOver
  <2> QED BY <2>1, <2>4, <2>5, <2>7 DEF Got
<1>7. r = Got(E, << >>)
  BY <1>2, <1>3, <1>5, <1>6, LoopReads
<1> QED BY <1>4, <1>7

LEMMA SubscriptionsGot ==
  ASSUME NEW E \in Seq(Subscription), NEW s, s = FlattenSeq([i \in DOMAIN E |-> SubscriptionBytes(E[i])])
  PROVE  s \in Seq(Byte) /\ ReadAll(read_subscription, s) = Got(E, << >>)
<1> DEFINE S == Subscription
<1>1. PICK f : f = [x \in S |-> SubscriptionBytes(x)]
  OBVIOUS
<1>2. \A x \in S : f[x] = SubscriptionBytes(x)
  BY <1>1
<1>3. f \in [S -> Seq(Byte)] /\ \A x \in S : Len(f[x]) \in Nat \ {0}
  <2>1. << >> \in Seq(Byte)
    OBVIOUS
  <2>2. \A x \in S : SubscriptionBytes(x) \in Seq(Byte) /\ Len(SubscriptionBytes(x)) \in Nat \ {0}
    BY <2>1, SubscriptionGot
  <2> HIDE DEF S
  <2> QED BY <1>1, <1>2, <2>2
<1>4. s = FlattenSeq(Image(f, E))
  <2> HIDE DEF S
  <2>1. \A i \in DOMAIN E : E[i] \in S
    BY DEF S
  <2>2. Image(f, E) = [i \in DOMAIN E |-> SubscriptionBytes(E[i])]
    BY <1>2, <2>1, Zenon DEF Image
  <2> QED BY <2>2
<1>5. s \in Seq(Byte) /\ Len(s) \in Nat
  <2>1. ImageOf(S, Byte, f, E, Image(f, E))
    BY <1>3, ImageSeq, Zenon
  <2>2. Image(f, E) \in Seq(Seq(Byte))
    BY <2>1, Zenon DEF ImageOf
  <2> QED BY <1>4, <2>2, FlattenElements
<1>6. PICK R, r : R = SubscriptionReads(s) /\ r = ReadAll(read_subscription, s)
  OBVIOUS
<1>7. Computed(R, Len(s), r)
  BY <1>5, <1>6, SubscriptionLoop, Zenon
<1>8. ASSUME NEW i \in 0 .. Len(s) - 1, NEW x \in S, NEW rest \in Seq(Byte), Drop(s, i) = f[x] \o rest
      PROVE  R[i + 1] = Got(x, rest)
  <2>1. i + 1 \in 1 .. Len(s) /\ (i + 1) - 1 = i
    BY <1>5
  <2>2. R[i + 1] = read_subscription(Drop(s, i))
    BY <1>6, <2>1 DEF SubscriptionReads
  <2> QED BY <1>2, <1>8, <2>2, SubscriptionGot
<1>9. LoopOver(S, f, E, R, s)
  BY <1>3, <1>4, <1>8 DEF LoopOver
<1>10. r = Got(E, << >>)
  <2> HIDE DEF S
  <2>1. E \in Seq(S)
    BY DEF S
  <2> QED BY <1>7, <1>9, <2>1, LoopGot
<1> QED BY <1>5, <1>6, <1>10, Zenon

LEMMA CodesGot ==
  ASSUME NEW s \in Seq(Byte)
  PROVE  ReadAll(read_u8, s) = Got(s, << >>)
<1>1. PICK f : f = Singles(Byte)
  OBVIOUS
<1>2. f \in [Byte -> Seq(Byte)] /\ \A x \in Byte : f[x] = <<x>>
  BY <1>1 DEF Singles
<1>3. \A x \in Byte : Len(f[x]) \in Nat \ {0}
  <2>1. \A x \in Byte : Len(<<x>>) = 1
    OBVIOUS
  <2>2. 1 \in Nat \ {0}
    OBVIOUS
  <2> QED BY <1>2, <2>1, <2>2, Zenon
<1>4. s = FlattenSeq(Image(f, s))
  BY <1>1, FlattenSingles
<1>6. PICK R, r : R = CodeReads(s) /\ r = ReadAll(read_u8, s)
  OBVIOUS
<1>7. Computed(R, Len(s), r)
  BY <1>6, CodeLoop, Zenon
<1>8. ASSUME NEW i \in 0 .. Len(s) - 1, NEW x \in Byte, NEW rest \in Seq(Byte), Drop(s, i) = f[x] \o rest
      PROVE  R[i + 1] = Got(x, rest)
  <2>1. i + 1 \in 1 .. Len(s) /\ (i + 1) - 1 = i
    OBVIOUS
  <2>2. R[i + 1] = read_u8(Drop(s, i))
    BY <1>6, <2>1 DEF CodeReads
  <2> QED BY <1>2, <1>8, <2>2, U8Got
<1>9. LoopOver(Byte, f, s, R, s)
  BY <1>2, <1>3, <1>4, <1>8 DEF LoopOver
<1>10. r = Got(s, << >>)
  BY <1>7, <1>9, LoopGot
<1> QED BY <1>6, <1>10, Zenon

\* The payload of p is decoded to p.
ReadBack(p) ==
  LET s == EncodePayload(p)
      h == EncodeHeader(p)
      r == DecodePayload(h \div 16, h % 16, s)
  IN  s \in Seq(Byte) /\ h \in Byte /\ r.err = "none" /\ r.val = p

LEMMA TwoBytes ==
  ASSUME NEW x \in Byte, NEW y \in Byte, NEW rest \in Seq(Byte)
  PROVE  /\ <<x, y>> \in Seq(Byte) /\ <<x, y>> \o rest \in Seq(Byte)
         /\ <<y>> \o rest \in Seq(Byte) /\ <<x, y>> \o rest = <<x>> \o (<<y>> \o rest)
<1>0. <<x>> \in Seq(Byte) /\ <<y>> \in Seq(Byte) /\ <<x, y>> \in Seq(Byte)
  OBVIOUS
<1>1. <<x>> \in Seq(Byte) /\ <<y>> \in Seq(Byte) /\ <<x, y>> = <<x>> \o <<y>> /\ <<x, y>> \in Seq(Byte)
  <2>1. Append(<<x>>, y) = <<x>> \o <<y>>
    BY <1>0, AppendIsConcat
  <2>2. Append(<<x>>, y) = <<x, y>>
    <3>1. PICK o, u, v : o = <<x>> /\ u = Append(o, y) /\ v = <<x, y>>
      OBVIOUS
    <3>2. o \in Seq(Byte) /\ Len(o) = 1 /\ o[1] = x
      BY <3>1
    <3>3. v \in Seq(Byte) /\ Len(v) = 2 /\ v[1] = x /\ v[2] = y
      BY <3>1
    <3>4. u \in Seq(Byte) /\ Len(u) = 2 /\ u[1] = x /\ u[2] = y
      <4>1. /\ u \in Seq(Byte) /\ Len(u) = Len(o) + 1 /\ u[Len(o) + 1] = y
            /\ \A i \in 1 .. Len(o) : u[i] = o[i]
        BY <3>1, <3>2, AppendProperties
      <4>2. 1 \in 1 .. Len(o) /\ Len(o) + 1 = 2
        BY <3>2
      <4> QED BY <3>2, <4>1, <4>2
    <3>5. \A i \in 1 .. 2 : u[i] = v[i]
      BY <3>3, <3>4
    <3> QED BY <3>1, <3>3, <3>4, <3>5, SeqEqual
  <2> QED BY <1>0, <2>1, <2>2
<1>2. Assoc(Byte, <<x>>, <<y>>, rest)
  BY <1>1, Joined
<1> QED BY <1>1, <1>2 DEF Assoc

LEMMA BitsBack ==
  ASSUME NEW on \in BOOLEAN
  PROVE  Bit(1, on) \in Byte /\ HasBit(Bit(1, on), 1) = on
<1>1. CASE on
  <2>1. Bit(1, on) = 1 /\ 1 \in Byte
    BY <1>1 DEF Bit, Byte
  <2>2. HasBit(1, 1) = TRUE
    BY SMT DEF HasBit
  <2> QED BY <1>1, <2>1, <2>2, Zenon
<1>2. CASE ~ on
  <2>1. Bit(1, on) = 0 /\ 0 \in Byte
    BY <1>2 DEF Bit, Byte
  <2>2. HasBit(0, 1) = FALSE
    BY SMT DEF HasBit
  <2> QED BY <1>2, <2>1, <2>2, Zenon
<1> QED BY <1>1, <1>2

LEMMA ConnAckGot ==
  ASSUME NEW p, Encodable(p), p.type = "ConnAck"
  PROVE  ReadBack(p)
<1>1. /\ p.session_present \in BOOLEAN /\ p.reason_code \in Byte
      /\ IsProperties(ConnAckProperties, p.properties)
      /\ p = [type |-> "ConnAck", session_present |-> p.session_present,
              reason_code |-> p.reason_code, properties |-> p.properties]
  <2>1. /\ p \in [type : {"ConnAck"}, session_present : BOOLEAN, reason_code : Byte,
                  properties : {p.properties}]
        /\ IsProperties(ConnAckProperties, p.properties)
    BY DEF Encodable, IsPacket
  <2> QED BY <2>1
<1>2. PICK b, c, w, s : /\ b = Bit(1, p.session_present) /\ c = p.reason_code
                        /\ w = encode_properties(ConnAckProperties, p.properties)
                        /\ s = EncodePayload(p)
  OBVIOUS
<1>3. b \in Byte /\ HasBit(b, 1) = p.session_present /\ c \in Byte
  BY <1>1, <1>2, BitsBack
<1>4. s = <<b, c>> \o w /\ Len(s) <= MaxVarint
  BY <1>2 DEF EncodePayload, Encodable
<1>5. Table(ConnAckProperties) /\ w \in Seq(Nat)
  BY <1>1, <1>2, Tables, PropertiesAreNumbers
<1>6. Carried(ConnAckProperties, p.properties, w)
  <2>1. <<b, c>> \in Seq(Nat) /\ << >> \in Seq(Nat)
    BY <1>3 DEF Byte
  <2>2. s \in Seq(Nat)
    BY <1>4, <1>5, <2>1, ConcatProperties
  <2>3. (<<b, c>> \o w) \o << >> = s
    BY <1>4, <2>2, ConcatEmptySeq
  <2>4. Len(w) <= MaxVarint
    BY <1>4, <1>5, <2>1, <2>3, PartFits
  <2> QED BY <1>1, <1>2, <1>5, <2>4, PropertiesAreNumbers
<1>7. w \in Seq(Byte) /\ decode_properties(ConnAckProperties, w) = Got(p.properties, << >>)
  <2>1. w \in Seq(Byte) /\ << >> \in Seq(Byte)
    BY <1>6 DEF Carried
  <2>2. w \o << >> = w
    BY <2>1, ConcatEmptySeq
  <2> QED BY <1>6, <2>1, <2>2 DEF Carried
<1>8. s \in Seq(Byte) /\ s = <<b>> \o (<<c>> \o w) /\ <<c>> \o w \in Seq(Byte)
  BY <1>3, <1>4, <1>7, TwoBytes
<1>9. PICK x, y, z : x = read_u8(s) /\ y = read_u8(x.rest) /\ z = decode_properties(ConnAckProperties, y.rest)
  OBVIOUS
<1>10. x.err = "none" /\ x.val = b /\ x.rest = <<c>> \o w
  <2>1. x = Got(b, <<c>> \o w)
    BY <1>3, <1>8, <1>9, U8Got
  <2> QED BY <2>1 DEF Got
<1>a. y.err = "none" /\ y.val = c /\ y.rest = w
  <2>1. y = Got(c, w)
    BY <1>3, <1>7, <1>9, <1>10, U8Got
  <2> QED BY <2>1 DEF Got
<1>b. z.err = "none" /\ z.val = p.properties /\ z.rest = << >>
  <2>1. z = Got(p.properties, << >>)
    BY <1>7, <1>9, <1>a
  <2> QED BY <2>1 DEF Got
<1>11. x.err = "none" /\ y.err = "none" /\ z.err = "none"
  BY <1>10, <1>a, <1>b
<1>12. DecodeConnAck(s) = Got([type |-> "ConnAck", session_present |-> HasBit(x.val, 1),
                               reason_code |-> y.val, properties |-> z.val], z.rest)
  BY <1>9, <1>11 DEF DecodeConnAck, Then
<1>13. DecodeConnAck(s) = Got(p, << >>)
  BY <1>1, <1>2, <1>3, <1>10, <1>a, <1>b, <1>12
<1>14. EncodeHeader(p) = 32 /\ 32 \div 16 = 2 /\ 32 \in Byte
  BY SMT DEF EncodeHeader, Byte
<1>15. DecodePayload(2, 32 % 16, s) = DecodeConnAck(s)
  BY DEF DecodePayload
<1> QED BY <1>2, <1>8, <1>13, <1>14, <1>15 DEF ReadBack, Got

LEMMA PingGot ==
  ASSUME NEW p, Encodable(p), p.type \in {"PingReq", "PingResp"}
  PROVE  ReadBack(p)
<1>1. p = [type |-> p.type]
  <2>1. p \in [type : {"PingReq", "PingResp"}]
    <3>1. /\ p.type # "Connect" /\ p.type # "ConnAck" /\ p.type # "Publish" /\ p.type # "PubAck"
          /\ p.type # "Subscribe" /\ p.type # "SubAck" /\ p.type # "Disconnect"
      OBVIOUS
    <3> QED BY <3>1 DEF Encodable, IsPacket
  <2> QED BY <2>1
<1>2. EncodePayload(p) = << >> /\ << >> \in Seq(Byte)
  BY DEF EncodePayload
<1>3. CASE p.type = "PingReq"
  <2>1. EncodeHeader(p) = 192 /\ 192 \div 16 = 12 /\ 192 % 16 = 0 /\ 192 \in Byte
    BY <1>3, SMT DEF EncodeHeader, Byte
  <2>2. DecodePayload(12, 0, << >>) = Got([type |-> "PingReq"], << >>)
    BY DEF DecodePayload, DecodePing
  <2> QED BY <1>1, <1>2, <1>3, <2>1, <2>2 DEF ReadBack, Got
<1>4. CASE p.type = "PingResp"
  <2>1. EncodeHeader(p) = 208 /\ 208 \div 16 = 13 /\ 208 % 16 = 0 /\ 208 \in Byte
    BY <1>4, SMT DEF EncodeHeader, Byte
  <2>2. DecodePayload(13, 0, << >>) = Got([type |-> "PingResp"], << >>)
    BY DEF DecodePayload, DecodePing
  <2> QED BY <1>1, <1>2, <1>4, <2>1, <2>2 DEF ReadBack, Got
<1> QED BY <1>3, <1>4

\* The reason code and the properties, which are left out if they say
\* nothing.
LEMMA ReasonGot ==
  ASSUME NEW table, Table(table), NEW p, IsProperties(table, p.properties), p.reason_code \in Byte,
         NEW a \in Seq(Nat), Len(a \o EncodeReason(table, p)) <= MaxVarint
  PROVE  /\ EncodeReason(table, p) \in Seq(Byte)
         /\ ReasonAndProperties(table, EncodeReason(table, p)) = Got(<<p.reason_code, p.properties>>, << >>)
<1>1. PICK s : s = EncodeReason(table, p)
  OBVIOUS
<1>2. CASE p.reason_code = 0 /\ DOMAIN p.properties = {}
  <2>1. s = << >>
    BY <1>1, <1>2 DEF EncodeReason
  <2>2. p.properties = << >>
    <3>1. p.properties = [id \in {} |-> p.properties[id]]
      BY <1>2, Zenon DEF IsProperties
    <3> QED BY <3>1
  <2>3. ReasonAndProperties(table, << >>) = Got(<<0, << >>>>, << >>)
    BY DEF ReasonAndProperties, NoProperties
  <2> QED BY <1>1, <1>2, <2>1, <2>2, <2>3
<1>3. CASE ~ (p.reason_code = 0 /\ DOMAIN p.properties = {})
  <2>1. PICK c, w : c = p.reason_code /\ w = encode_properties(table, p.properties)
    OBVIOUS
  <2>2. s = <<c>> \o w
    BY <1>1, <1>3, <2>1 DEF EncodeReason
  <2>3. w \in Seq(Nat) /\ <<c>> \in Seq(Nat) /\ << >> \in Seq(Nat) /\ a \o <<c>> \in Seq(Nat) /\ <<c>> \in Seq(Byte)
    <3>0. c \in Byte
      BY <2>1, Zenon
    <3>1. c \in Byte /\ c \in Nat
      BY <3>0 DEF Byte
    <3>2. <<c>> \in Seq(Nat) /\ << >> \in Seq(Nat) /\ <<c>> \in Seq(Byte)
      BY <3>1
    <3> QED BY <2>1, <3>2, PropertiesAreNumbers, ConcatProperties
  <2>4. Len(w) <= MaxVarint
    <3>1. Assoc(Nat, a, <<c>>, w)
      BY <2>3, Joined
    <3>2. (a \o <<c>>) \o w = a \o s /\ (a \o <<c>>) \o w \in Seq(Nat)
      <4>1. (a \o <<c>>) \o w = a \o s
        BY <2>2, <3>1 DEF Assoc
      <4> QED BY <2>3, <4>1, ConcatProperties
    <3>3. ((a \o <<c>>) \o w) \o << >> = a \o s
      BY <3>2, ConcatEmptySeq
    <3> QED BY <1>1, <2>3, <3>3, PartFits
  <2>5. Carried(table, p.properties, w)
    BY <2>1, <2>4, PropertiesAreNumbers
  <2>6. w \in Seq(Byte) /\ decode_properties(table, w) = Got(p.properties, << >>)
    <3>1. w \in Seq(Byte) /\ << >> \in Seq(Byte)
      BY <2>5 DEF Carried
    <3>2. w \o << >> = w
      BY <3>1, ConcatEmptySeq
    <3> QED BY <2>5, <3>1, <3>2 DEF Carried
  <2>7. s \in Seq(Byte) /\ s # << >>
    <3>1. <<c>> # << >>
      OBVIOUS
    <3> QED BY <2>2, <2>3, <2>6, <3>1, ConcatProperties, ConcatEqualIffEmpty
  <2>8. PICK x, z : x = read_u8(s) /\ z = decode_properties(table, w)
    OBVIOUS
  <2>9. x = Got(c, w) /\ z = Got(p.properties, << >>)
    BY <2>1, <2>2, <2>6, <2>8, U8Got
  <2>10. /\ x.err = "none" /\ x.val = c /\ x.rest = w
         /\ z.err = "none" /\ z.val = p.properties /\ z.rest = << >>
    BY <2>9 DEF Got
  <2>11. ReasonAndProperties(table, s) = Got(<<x.val, z.val>>, z.rest)
    BY <2>7, <2>8, <2>10 DEF ReasonAndProperties, Then
  <2> QED BY <1>1, <2>1, <2>7, <2>10, <2>11
<1> QED BY <1>2, <1>3

LEMMA DisconnectGot ==
  ASSUME NEW p, Encodable(p), p.type = "Disconnect"
  PROVE  ReadBack(p)
<1>1. /\ p.reason_code \in Byte /\ IsProperties(DisconnectProperties, p.properties)
      /\ p = [type |-> "Disconnect", reason_code |-> p.reason_code, properties |-> p.properties]
  <2>1. /\ p \in [type : {"Disconnect"}, reason_code : Byte, properties : {p.properties}]
        /\ IsProperties(DisconnectProperties, p.properties)
    BY DEF Encodable, IsPacket
  <2> QED BY <2>1
<1>2. PICK s : s = EncodePayload(p) /\ s = EncodeReason(DisconnectProperties, p) /\ Len(s) <= MaxVarint
  BY DEF EncodePayload, Encodable
<1>3. s \in Seq(Byte) /\ ReasonAndProperties(DisconnectProperties, s) = Got(<<p.reason_code, p.properties>>, << >>)
  <2>1. << >> \in Seq(Nat) /\ << >> \o s = s
    <3>1. encode_properties(DisconnectProperties, p.properties) \in Seq(Nat)
      BY <1>1, Tables, PropertiesAreNumbers
    <3>2. <<p.reason_code>> \in Seq(Nat)
      BY <1>1 DEF Byte
    <3>3. s = << >> \/ s = <<p.reason_code>> \o encode_properties(DisconnectProperties, p.properties)
      BY <1>2 DEF EncodeReason
    <3>4. s \in Seq(Nat)
      <4>1. CASE s = << >>
        BY <4>1
      <4>2. CASE s # << >>
        BY <3>1, <3>2, <3>3, <4>2, ConcatProperties
      <4> QED BY <4>1, <4>2
    <3> QED BY <3>4, ConcatEmptySeq
  <2> QED BY <1>1, <1>2, <2>1, Tables, ReasonGot
<1>4. PICK x : x = ReasonAndProperties(DisconnectProperties, s)
  OBVIOUS
<1>5. x.err = "none" /\ x.val = <<p.reason_code, p.properties>> /\ x.rest = << >>
  BY <1>3, <1>4 DEF Got
<1>6. DecodeDisconnect(s) = Got([type |-> "Disconnect", reason_code |-> x.val[1], properties |-> x.val[2]], x.rest)
  BY <1>4, <1>5 DEF DecodeDisconnect, Then
<1>7. DecodeDisconnect(s) = Got(p, << >>)
  BY <1>1, <1>5, <1>6
<1>8. EncodeHeader(p) = 224 /\ 224 \div 16 = 14 /\ 224 \in Byte
  BY SMT DEF EncodeHeader, Byte
<1>9. DecodePayload(14, 224 % 16, s) = DecodeDisconnect(s)
  BY DEF DecodePayload
<1> QED BY <1>2, <1>3, <1>7, <1>8, <1>9 DEF ReadBack, Got

LEMMA PubAckGot ==
  ASSUME NEW p, Encodable(p), p.type = "PubAck"
  PROVE  ReadBack(p)
<1>1. /\ p.packet_id \in U16 /\ p.reason_code \in Byte /\ IsProperties(PubAckProperties, p.properties)
      /\ p = [type |-> "PubAck", packet_id |-> p.packet_id, reason_code |-> p.reason_code,
              properties |-> p.properties]
  <2>1. /\ p \in [type : {"PubAck"}, packet_id : U16, reason_code : Byte, properties : {p.properties}]
        /\ IsProperties(PubAckProperties, p.properties)
    BY DEF Encodable, IsPacket
  <2> QED BY <2>1
<1>2. PICK s, a, e : /\ s = EncodePayload(p) /\ a = write_u16(p.packet_id)
                     /\ e = EncodeReason(PubAckProperties, p) /\ s = a \o e /\ Len(s) <= MaxVarint
  BY DEF EncodePayload, Encodable
<1>3. a \in Seq(Byte) /\ a \in Seq(Nat)
  <2>1. << >> \in Seq(Byte)
    OBVIOUS
  <2>2. a \in Seq(Byte)
    BY <1>1, <1>2, <2>1, U16Got
  <2> QED BY <2>2, BytesAreNumbers
<1>4. e \in Seq(Byte) /\ ReasonAndProperties(PubAckProperties, e) = Got(<<p.reason_code, p.properties>>, << >>)
  BY <1>1, <1>2, <1>3, Tables, ReasonGot
<1>5. s \in Seq(Byte)
  BY <1>2, <1>3, <1>4, ConcatProperties
<1>6. PICK y, x : y = read_u16(s) /\ x = ReasonAndProperties(PubAckProperties, e)
  OBVIOUS
<1>7. y = Got(p.packet_id, e)
  BY <1>1, <1>2, <1>4, <1>6, U16Got
<1>8. /\ y.err = "none" /\ y.val = p.packet_id /\ y.rest = e
      /\ x.err = "none" /\ x.val = <<p.reason_code, p.properties>> /\ x.rest = << >>
  BY <1>4, <1>6, <1>7 DEF Got
<1>9. DecodePubAck(s) = Got([type |-> "PubAck", packet_id |-> y.val, reason_code |-> x.val[1],
                             properties |-> x.val[2]], x.rest)
  BY <1>6, <1>8 DEF DecodePubAck, Then
<1>10. DecodePubAck(s) = Got(p, << >>)
  BY <1>1, <1>8, <1>9
<1>11. EncodeHeader(p) = 64 /\ 64 \div 16 = 4 /\ 64 \in Byte
  BY SMT DEF EncodeHeader, Byte
<1>12. DecodePayload(4, 64 % 16, s) = DecodePubAck(s)
  BY DEF DecodePayload
<1> QED BY <1>2, <1>5, <1>10, <1>11, <1>12 DEF ReadBack, Got

\* Properties between what is in front of them and what follows.
CarriedIn(table, props, a, w, b) ==
  /\ Carried(table, props, w) /\ w \in Seq(Byte) /\ w \o b \in Seq(Byte)
  /\ a \o w \in Seq(Byte) /\ (a \o w) \o b \in Seq(Byte) /\ (a \o w) \o b = a \o (w \o b)
  /\ decode_properties(table, w \o b) = Got(props, b)

LEMMA CarriedWithin ==
  ASSUME NEW table, Table(table), NEW props, IsProperties(table, props),
         NEW a \in Seq(Byte), NEW b \in Seq(Byte), NEW w, w = encode_properties(table, props),
         Len((a \o w) \o b) <= MaxVarint
  PROVE  CarriedIn(table, props, a, w, b)
<1>1. a \in Seq(Nat) /\ b \in Seq(Nat) /\ w \in Seq(Nat)
  BY BytesAreNumbers, PropertiesAreNumbers
<1>2. Len(w) <= MaxVarint
  BY <1>1, PartFits
<1>3. Carried(table, props, w)
  BY <1>2, PropertiesAreNumbers
<1>4. w \in Seq(Byte)
  BY <1>3 DEF Carried
<1>5. Assoc(Byte, a, w, b)
  BY <1>4, Joined
<1>6. (a \o w) \o b \in Seq(Byte)
  <2>1. a \o w \in Seq(Byte)
    BY <1>5 DEF Assoc
  <2> QED BY <2>1, ConcatProperties
<1>7. decode_properties(table, w \o b) = Got(props, b)
  BY <1>3 DEF Carried
<1> QED BY <1>3, <1>4, <1>5, <1>6, <1>7 DEF CarriedIn, Assoc

LEMMA SubAckGot ==
  ASSUME NEW p, Encodable(p), p.type = "SubAck"
  PROVE  ReadBack(p)
<1>1. /\ p.packet_id \in U16 /\ p.reason_codes \in Seq(Byte)
      /\ IsProperties(SubAckProperties, p.properties)
      /\ p = [type |-> "SubAck", packet_id |-> p.packet_id, properties |-> p.properties,
              reason_codes |-> p.reason_codes]
  <2>1. /\ p \in [type : {"SubAck"}, packet_id : U16, properties : {p.properties},
                  reason_codes : Seq(Byte)]
        /\ IsProperties(SubAckProperties, p.properties)
    BY DEF Encodable, IsPacket
  <2> QED BY <2>1
<1>2. PICK a, w, b, s : /\ a = write_u16(p.packet_id) /\ b = p.reason_codes
                        /\ w = encode_properties(SubAckProperties, p.properties)
                        /\ s = EncodePayload(p) /\ s = (a \o w) \o b /\ Len(s) <= MaxVarint
  BY DEF EncodePayload, Encodable
<1>3. a \in Seq(Byte) /\ b \in Seq(Byte)
  <2>1. << >> \in Seq(Byte)
    OBVIOUS
  <2> QED BY <1>1, <1>2, <2>1, U16Got
<1>4. CarriedIn(SubAckProperties, p.properties, a, w, b)
  BY <1>1, <1>2, <1>3, Tables, CarriedWithin
<1>5. /\ s \in Seq(Byte) /\ s = a \o (w \o b) /\ w \o b \in Seq(Byte)
      /\ decode_properties(SubAckProperties, w \o b) = Got(p.properties, b)
  BY <1>2, <1>4 DEF CarriedIn
<1>6. PICK x, y, z : /\ x = read_u16(s) /\ y = decode_properties(SubAckProperties, x.rest)
                     /\ z = ReadAll(read_u8, y.rest)
  OBVIOUS
<1>7. x.err = "none" /\ x.val = p.packet_id /\ x.rest = w \o b
  <2>1. x = Got(p.packet_id, w \o b)
    BY <1>1, <1>2, <1>5, <1>6, U16Got
  <2> QED BY <2>1 DEF Got
<1>8. y.err = "none" /\ y.val = p.properties /\ y.rest = b
  <2>1. y = Got(p.properties, b)
    BY <1>5, <1>6, <1>7
  <2> QED BY <2>1 DEF Got
<1>9. z.err = "none" /\ z.val = b /\ z.rest = << >>
  <2>1. z = ReadAll(read_u8, b)
    BY <1>6, <1>8
  <2>2. z = Got(b, << >>)
    BY <1>3, <2>1, CodesGot
  <2> QED BY <2>2 DEF Got
<1>10. DecodeSubAck(s) = Got([type |-> "SubAck", packet_id |-> x.val, properties |-> y.val,
                              reason_codes |-> z.val], z.rest)
  BY <1>6, <1>7, <1>8, <1>9 DEF DecodeSubAck, Then
<1>11. DecodeSubAck(s) = Got(p, << >>)
  BY <1>1, <1>2, <1>7, <1>8, <1>9, <1>10
<1>12. EncodeHeader(p) = 144 /\ 144 \div 16 = 9 /\ 144 \in Byte
  BY SMT DEF EncodeHeader, Byte
<1>13. DecodePayload(9, 144 % 16, s) = DecodeSubAck(s)
  BY DEF DecodePayload
<1> QED BY <1>2, <1>5, <1>11, <1>12, <1>13 DEF ReadBack, Got

\* decode_packet on a SUBSCRIBE after its properties.
SubscribeRest(pid, props) ==
  Then(ReadAll(read_subscription, props.rest), LAMBDA subs :
       IF subs.val = << >> THEN Failed("MalformedPacket")
       ELSE Got([type |-> "Subscribe", packet_id |-> pid.val, properties |-> props.val,
                 subscriptions |-> subs.val], subs.rest))

LEMMA SubscribeGot ==
  ASSUME NEW p, Encodable(p), p.type = "Subscribe"
  PROVE  ReadBack(p)
<1>1. /\ p.packet_id \in U16 /\ p.subscriptions \in Seq(Subscription) /\ p.subscriptions # << >>
      /\ IsProperties(SubscribeProperties, p.properties)
      /\ p = [type |-> "Subscribe", packet_id |-> p.packet_id, properties |-> p.properties,
              subscriptions |-> p.subscriptions]
  <2>1. /\ p \in [type : {"Subscribe"}, packet_id : U16, properties : {p.properties},
                  subscriptions : Seq(Subscription) \ {<< >>}]
        /\ IsProperties(SubscribeProperties, p.properties)
    BY DEF Encodable, IsPacket, Subscription
  <2> QED BY <2>1
<1>2. PICK a, w, b, s : /\ a = write_u16(p.packet_id)
                        /\ b = FlattenSeq([i \in DOMAIN p.subscriptions |-> SubscriptionBytes(p.subscriptions[i])])
                        /\ w = encode_properties(SubscribeProperties, p.properties)
                        /\ s = EncodePayload(p) /\ s = (a \o w) \o b /\ Len(s) <= MaxVarint
  BY DEF EncodePayload, Encodable, SubscriptionBytes
<1>3. a \in Seq(Byte) /\ b \in Seq(Byte) /\ ReadAll(read_subscription, b) = Got(p.subscriptions, << >>)
  <2>1. << >> \in Seq(Byte)
    OBVIOUS
  <2> QED BY <1>1, <1>2, <2>1, U16Got, SubscriptionsGot
<1>4. CarriedIn(SubscribeProperties, p.properties, a, w, b)
  BY <1>1, <1>2, <1>3, Tables, CarriedWithin
<1>5. /\ s \in Seq(Byte) /\ s = a \o (w \o b) /\ w \o b \in Seq(Byte)
      /\ decode_properties(SubscribeProperties, w \o b) = Got(p.properties, b)
  BY <1>2, <1>4 DEF CarriedIn
<1>6. PICK x, y, z : /\ x = read_u16(s) /\ y = decode_properties(SubscribeProperties, x.rest)
                     /\ z = ReadAll(read_subscription, y.rest)
  OBVIOUS
<1>7. x.err = "none" /\ x.val = p.packet_id /\ x.rest = w \o b
  <2>1. x = Got(p.packet_id, w \o b)
    BY <1>1, <1>2, <1>5, <1>6, U16Got
  <2> QED BY <2>1 DEF Got
<1>8. y.err = "none" /\ y.val = p.properties /\ y.rest = b
  <2>1. y = Got(p.properties, b)
    BY <1>5, <1>6, <1>7
  <2> QED BY <2>1 DEF Got
<1>9. z.err = "none" /\ z.val = p.subscriptions /\ z.rest = << >>
  <2>1. z = ReadAll(read_subscription, b)
    BY <1>6, <1>8
  <2>2. z = Got(p.subscriptions, << >>)
    BY <1>3, <2>1
  <2> QED BY <2>2 DEF Got
<1>10. DecodeSubscribe(2, s) = Got([type |-> "Subscribe", packet_id |-> x.val, properties |-> y.val,
                                    subscriptions |-> z.val], z.rest)
  <2>1. z.val # << >>
    BY <1>1, <1>9
  <2>2. DecodeSubscribe(2, s) =
          IF 2 # 2 THEN Failed("MalformedPacket")
          ELSE Then(read_u16(s), LAMBDA n :
               Then(decode_properties(SubscribeProperties, n.rest), LAMBDA m : SubscribeRest(n, m)))
    BY DEF DecodeSubscribe, SubscribeRest
  <2>3. DecodeSubscribe(2, s) = SubscribeRest(x, y)
    BY <1>6, <1>7, <1>8, <2>2 DEF Then
  <2>4. SubscribeRest(x, y) = Then(z, LAMBDA m :
          IF m.val = << >> THEN Failed("MalformedPacket")
          ELSE Got([type |-> "Subscribe", packet_id |-> x.val, properties |-> y.val,
                    subscriptions |-> m.val], m.rest))
    BY <1>6, Zenon DEF SubscribeRest
  <2>5. @ = Got([type |-> "Subscribe", packet_id |-> x.val, properties |-> y.val,
                 subscriptions |-> z.val], z.rest)
    BY <1>9, <2>1 DEF Then
  <2> QED BY <2>3, <2>4, <2>5
<1>11. DecodeSubscribe(2, s) = Got(p, << >>)
  BY <1>1, <1>2, <1>7, <1>8, <1>9, <1>10
<1>12. EncodeHeader(p) = 130 /\ 130 \div 16 = 8 /\ 130 % 16 = 2 /\ 130 \in Byte
  BY SMT DEF EncodeHeader, Byte
<1>13. DecodePayload(8, 2, s) = DecodeSubscribe(2, s)
  BY DEF DecodePayload
<1> QED BY <1>2, <1>5, <1>11, <1>12, <1>13 DEF ReadBack, Got

\* The flags of a PUBLISH are read as they were written.
FlagsBack(dup, qos, retain, h) ==
  /\ h \in Byte /\ h \div 16 = 3 /\ ((h % 16) \div 2) % 4 = qos
  /\ HasBit(h % 16, 8) = dup /\ HasBit(h % 16, 1) = retain

LEMMA PublishFlags ==
  ASSUME NEW dup \in BOOLEAN, NEW retain \in BOOLEAN, NEW qos \in 0 .. 2,
         NEW h, h = 48 + Bit(8, dup) + 2 * (qos % 4) + Bit(1, retain)
  PROVE  FlagsBack(dup, qos, retain, h)
<1>1. /\ FlagsBack(FALSE, 0, FALSE, 48) /\ FlagsBack(FALSE, 1, FALSE, 50) /\ FlagsBack(FALSE, 2, FALSE, 52)
      /\ FlagsBack(FALSE, 0, TRUE, 49) /\ FlagsBack(FALSE, 1, TRUE, 51) /\ FlagsBack(FALSE, 2, TRUE, 53)
  BY SMT DEF FlagsBack, HasBit, Byte
<1>2. /\ FlagsBack(TRUE, 0, FALSE, 56) /\ FlagsBack(TRUE, 1, FALSE, 58) /\ FlagsBack(TRUE, 2, FALSE, 60)
      /\ FlagsBack(TRUE, 0, TRUE, 57) /\ FlagsBack(TRUE, 1, TRUE, 59) /\ FlagsBack(TRUE, 2, TRUE, 61)
  BY SMT DEF FlagsBack, HasBit, Byte
<1>3. qos \in {0, 1, 2}
  OBVIOUS
<1>4. 2 * (0 % 4) = 0 /\ 2 * (1 % 4) = 2 /\ 2 * (2 % 4) = 4
  BY SMT
<1>5. /\ Bit(8, TRUE) = 8 /\ Bit(8, FALSE) = 0 /\ Bit(1, TRUE) = 1 /\ Bit(1, FALSE) = 0
  BY DEF Bit
<1>6. dup \in {TRUE, FALSE} /\ retain \in {TRUE, FALSE}
  OBVIOUS
<1>9. PICK d, q, r : d = Bit(8, dup) /\ q = 2 * (qos % 4) /\ r = Bit(1, retain)
  OBVIOUS
<1>10. (qos = 0 /\ q = 0) \/ (qos = 1 /\ q = 2) \/ (qos = 2 /\ q = 4)
  BY <1>3, <1>4, <1>9
<1>11. h = 48 + d + q + r
  BY <1>9
<1>7. CASE dup = FALSE
  <2>0. d = 0
    BY <1>5, <1>9, <1>7, Zenon
  <2>1. CASE retain = FALSE
    <3>1. r = 0
      BY <1>5, <1>9, <2>1, Zenon
    <3>2. (q = 0 /\ h = 48) \/ (q = 2 /\ h = 50) \/ (q = 4 /\ h = 52)
      BY <1>10, <1>11, <2>0, <3>1, SMT
    <3>3. (qos = 0 /\ h = 48) \/ (qos = 1 /\ h = 50) \/ (qos = 2 /\ h = 52)
      BY <1>10, <3>2, SMT
    <3> QED BY <1>1, <1>7, <2>1, <3>3, Zenon
  <2>2. CASE retain = TRUE
    <3>1. r = 1
      BY <1>5, <1>9, <2>2, Zenon
    <3>2. (q = 0 /\ h = 49) \/ (q = 2 /\ h = 51) \/ (q = 4 /\ h = 53)
      BY <1>10, <1>11, <2>0, <3>1, SMT
    <3>3. (qos = 0 /\ h = 49) \/ (qos = 1 /\ h = 51) \/ (qos = 2 /\ h = 53)
      BY <1>10, <3>2, SMT
    <3> QED BY <1>1, <1>7, <2>2, <3>3, Zenon
  <2> QED BY <1>6, <2>1, <2>2, Zenon
<1>8. CASE dup = TRUE
  <2>0. d = 8
    BY <1>5, <1>9, <1>8, Zenon
  <2>1. CASE retain = FALSE
    <3>1. r = 0
      BY <1>5, <1>9, <2>1, Zenon
    <3>2. (q = 0 /\ h = 56) \/ (q = 2 /\ h = 58) \/ (q = 4 /\ h = 60)
      BY <1>10, <1>11, <2>0, <3>1, SMT
    <3>3. (qos = 0 /\ h = 56) \/ (qos = 1 /\ h = 58) \/ (qos = 2 /\ h = 60)
      BY <1>10, <3>2, SMT
    <3> QED BY <1>2, <1>8, <2>1, <3>3, Zenon
  <2>2. CASE retain = TRUE
    <3>1. r = 1
      BY <1>5, <1>9, <2>2, Zenon
    <3>2. (q = 0 /\ h = 57) \/ (q = 2 /\ h = 59) \/ (q = 4 /\ h = 61)
      BY <1>10, <1>11, <2>0, <3>1, SMT
    <3>3. (qos = 0 /\ h = 57) \/ (qos = 1 /\ h = 59) \/ (qos = 2 /\ h = 61)
      BY <1>10, <3>2, SMT
    <3> QED BY <1>2, <1>8, <2>2, <3>3, Zenon
  <2> QED BY <1>6, <2>1, <2>2, Zenon
<1> QED BY <1>6, <1>7, <1>8, Zenon

\* decode_packet on a PUBLISH after its topic.
PublishEnd(flags, topic, pid) ==
  Then(decode_properties(PublishProperties, pid.rest), LAMBDA props :
       Got([type |-> "Publish", dup |-> HasBit(flags, 8), qos |-> (flags \div 2) % 4,
            retain |-> HasBit(flags, 1), topic |-> topic.val, packet_id |-> pid.val,
            properties |-> props.val, payload |-> props.rest], << >>))
PublishRest(flags, topic) ==
  Then(Optional((flags \div 2) % 4 > 0, read_u16, topic.rest), LAMBDA pid :
       PublishEnd(flags, topic, pid))

LEMMA PublishGot ==
  ASSUME NEW p, Encodable(p), p.type = "Publish"
  PROVE  ReadBack(p)
<1>1. /\ p.dup \in BOOLEAN /\ p.qos \in 0 .. 2 /\ p.retain \in BOOLEAN /\ p.topic \in Text
      /\ p.packet_id \in Option(U16) /\ p.payload \in Seq(Byte)
      /\ p.packet_id = << >> <=> p.qos = 0
      /\ IsProperties(PublishProperties, p.properties)
      /\ p = [type |-> "Publish", dup |-> p.dup, qos |-> p.qos, retain |-> p.retain,
              topic |-> p.topic, packet_id |-> p.packet_id, properties |-> p.properties,
              payload |-> p.payload]
  <2>1. /\ p \in [type : {"Publish"}, dup : BOOLEAN, qos : 0 .. 2, retain : BOOLEAN,
                  topic : Text, packet_id : Option(U16), properties : {p.properties},
                  payload : Seq(Byte)]
        /\ p.packet_id = << >> <=> p.qos = 0
        /\ IsProperties(PublishProperties, p.properties)
    BY DEF Encodable, IsPacket
  <2> QED BY <2>1
<1>2. PICK t, o, w, b, s : /\ t = write_bytes(p.topic) /\ b = p.payload
                           /\ o = IF p.packet_id = << >> THEN << >> ELSE write_u16(p.packet_id[1])
                           /\ w = encode_properties(PublishProperties, p.properties)
                           /\ s = EncodePayload(p) /\ s = ((t \o o) \o w) \o b /\ Len(s) <= MaxVarint
  BY DEF EncodePayload, Encodable
<1>3. PICK present : present \in BOOLEAN /\ (present <=> p.qos > 0)
  <2>1. (p.qos > 0) \in BOOLEAN
    OBVIOUS
  <2> QED BY <2>1
<1>a. present <=> p.packet_id # << >>
  BY <1>1, <1>3
<1>4. t \in Seq(Byte) /\ o \in Seq(Byte) /\ b \in Seq(Byte)
  <2>1. << >> \in Seq(Byte)
    OBVIOUS
  <2>2. t \in Seq(Byte)
    BY <1>1, <1>2, <2>1, StrGot
  <2>3. o \in Seq(Byte)
    BY <1>1, <1>2, <1>3, <1>a, <2>1, OptionalGot
  <2> QED BY <1>1, <1>2, <2>2, <2>3
<1>5. t \o o \in Seq(Byte)
  BY <1>4, ConcatProperties
<1>6. CarriedIn(PublishProperties, p.properties, t \o o, w, b)
  BY <1>1, <1>2, <1>4, <1>5, Tables, CarriedWithin
<1>7. PICK m : /\ m = w \o b /\ m \in Seq(Byte) /\ s = (t \o o) \o m /\ s \in Seq(Byte)
               /\ decode_properties(PublishProperties, m) = Got(p.properties, b)
  BY <1>2, <1>6 DEF CarriedIn
<1>8. s = t \o (o \o m) /\ o \o m \in Seq(Byte)
  <2>1. Assoc(Byte, t, o, m)
    BY <1>4, <1>7, Joined
  <2> QED BY <1>7, <2>1 DEF Assoc
<1>9. PICK h, flags : h = EncodeHeader(p) /\ flags = h % 16
  OBVIOUS
<1>10. FlagsBack(p.dup, p.qos, p.retain, h)
  <2>1. h = 48 + Bit(8, p.dup) + 2 * (p.qos % 4) + Bit(1, p.retain)
    BY <1>9 DEF EncodeHeader
  <2> QED BY <1>1, <2>1, PublishFlags
<1>11. /\ h \in Byte /\ h \div 16 = 3 /\ (flags \div 2) % 4 = p.qos
       /\ HasBit(flags, 8) = p.dup /\ HasBit(flags, 1) = p.retain
  BY <1>9, <1>10 DEF FlagsBack
<1>12. PICK x, y, z : /\ x = read_str(s) /\ y = Optional((flags \div 2) % 4 > 0, read_u16, x.rest)
                      /\ z = decode_properties(PublishProperties, y.rest)
  OBVIOUS
<1>13. x.err = "none" /\ x.val = p.topic /\ x.rest = o \o m
  <2>1. x = Got(p.topic, o \o m)
    BY <1>1, <1>2, <1>8, <1>12, StrGot
  <2> QED BY <2>1 DEF Got
<1>14. y.err = "none" /\ y.val = p.packet_id /\ y.rest = m
  <2>1. Optional(p.qos > 0, read_u16, o \o m) = Optional(present, read_u16, o \o m)
    BY <1>3 DEF Optional
  <2>2. y = Optional(present, read_u16, o \o m)
    BY <1>11, <1>12, <1>13, <2>1
  <2>3. Optional(present, read_u16, o \o m) = Got(p.packet_id, m)
    BY <1>1, <1>2, <1>3, <1>a, <1>7, OptionalGot
  <2> QED BY <2>2, <2>3 DEF Got
<1>15. z.err = "none" /\ z.val = p.properties /\ z.rest = b
  <2>1. z = Got(p.properties, b)
    BY <1>7, <1>12, <1>14
  <2> QED BY <2>1 DEF Got
<1>16. ~ ((flags \div 2) % 4 > 2)
  BY <1>1, <1>11
<1>17. DecodePublish(flags, s) =
         Got([type |-> "Publish", dup |-> HasBit(flags, 8), qos |-> (flags \div 2) % 4,
              retain |-> HasBit(flags, 1), topic |-> x.val, packet_id |-> y.val,
              properties |-> z.val, payload |-> z.rest], << >>)
  <2>1. DecodePublish(flags, s) =
          IF (flags \div 2) % 4 > 2 THEN Failed("MalformedPacket")
          ELSE Then(read_str(s), LAMBDA n : PublishRest(flags, n))
    BY DEF DecodePublish, PublishRest, PublishEnd
  <2>2. DecodePublish(flags, s) = PublishRest(flags, x)
    BY <1>12, <1>13, <1>16, <2>1 DEF Then
  <2>3. PublishRest(flags, x) = Then(y, LAMBDA n : PublishEnd(flags, x, n))
    BY <1>12, Zenon DEF PublishRest
  <2>4. @ = PublishEnd(flags, x, y)
    BY <1>14 DEF Then
  <2>5. @ = Got([type |-> "Publish", dup |-> HasBit(flags, 8), qos |-> (flags \div 2) % 4,
                 retain |-> HasBit(flags, 1), topic |-> x.val, packet_id |-> y.val,
                 properties |-> z.val, payload |-> z.rest], << >>)
    BY <1>12, <1>15 DEF PublishEnd, Then
  <2> QED BY <2>2, <2>3, <2>4, <2>5
<1>18. DecodePublish(flags, s) = Got(p, << >>)
  BY <1>1, <1>2, <1>11, <1>13, <1>14, <1>15, <1>17
<1>19. DecodePayload(h \div 16, flags, s) = DecodePublish(flags, s)
  BY <1>11 DEF DecodePayload
<1> QED BY <1>2, <1>7, <1>9, <1>11, <1>18, <1>19 DEF ReadBack, Got

\* The flags of a CONNECT are read as they were written; it has no will.
ConnectFlagsBack(clean, user, pass, f) ==
  /\ f \in Byte /\ HasBit(f, 2) = clean /\ ~ HasBit(f, 4)
  /\ HasBit(f, 128) = user /\ HasBit(f, 64) = pass

LEMMA ConnectFlags ==
  ASSUME NEW clean \in BOOLEAN, NEW user \in BOOLEAN, NEW pass \in BOOLEAN,
         NEW f, f = Bit(2, clean) + Bit(128, user) + Bit(64, pass)
  PROVE  ConnectFlagsBack(clean, user, pass, f)
<1>1. /\ ConnectFlagsBack(FALSE, FALSE, FALSE, 0) /\ ConnectFlagsBack(TRUE, FALSE, FALSE, 2)
      /\ ConnectFlagsBack(FALSE, TRUE, FALSE, 128) /\ ConnectFlagsBack(TRUE, TRUE, FALSE, 130)
  BY SMT DEF ConnectFlagsBack, HasBit, Byte
<1>2. /\ ConnectFlagsBack(FALSE, FALSE, TRUE, 64) /\ ConnectFlagsBack(TRUE, FALSE, TRUE, 66)
      /\ ConnectFlagsBack(FALSE, TRUE, TRUE, 192) /\ ConnectFlagsBack(TRUE, TRUE, TRUE, 194)
  BY SMT DEF ConnectFlagsBack, HasBit, Byte
<1>3. PICK c, u, w : c = Bit(2, clean) /\ u = Bit(128, user) /\ w = Bit(64, pass)
  OBVIOUS
<1>4. (clean = FALSE /\ c = 0) \/ (clean = TRUE /\ c = 2)
  BY <1>3, Zenon DEF Bit
<1>5. (user = FALSE /\ u = 0) \/ (user = TRUE /\ u = 128)
  BY <1>3, Zenon DEF Bit
<1>6. (pass = FALSE /\ w = 0) \/ (pass = TRUE /\ w = 64)
  BY <1>3, Zenon DEF Bit
<1>7. f = c + u + w
  BY <1>3
<1>8. /\ c = 0 /\ u = 0 /\ w = 0 => f = 0
      /\ c = 2 /\ u = 0 /\ w = 0 => f = 2
      /\ c = 0 /\ u = 128 /\ w = 0 => f = 128
      /\ c = 2 /\ u = 128 /\ w = 0 => f = 130
      /\ c = 0 /\ u = 0 /\ w = 64 => f = 64
      /\ c = 2 /\ u = 0 /\ w = 64 => f = 66
      /\ c = 0 /\ u = 128 /\ w = 64 => f = 192
      /\ c = 2 /\ u = 128 /\ w = 64 => f = 194
  BY <1>7, SMT
<1>9. CASE w = 0
  <2>1. pass = FALSE
    <3>1. 0 # 64
      OBVIOUS
    <3> QED BY <1>6, <1>9, <3>1, Zenon
  <2> QED BY <1>1, <1>4, <1>5, <1>8, <1>9, <2>1, ZenonT(30)
<1>10. CASE w = 64
  <2>1. pass = TRUE
    <3>1. 0 # 64
      OBVIOUS
    <3> QED BY <1>6, <1>10, <3>1, Zenon
  <2> QED BY <1>2, <1>4, <1>5, <1>8, <1>10, <2>1, ZenonT(30)
<1> QED BY <1>6, <1>9, <1>10, Zenon

\* What follows the properties of a CONNECT, one string after the other.
Credentials(id, user, pass) ==
  FlattenSeq([i \in 1 .. 1 + Len(user) + Len(pass) |-> write_bytes((<<id>> \o user \o pass)[i])])

LEMMA CredentialsAre ==
  ASSUME NEW id \in Text, NEW user \in Option(Text), NEW pass \in Option(Binary)
  PROVE  Credentials(id, user, pass) = (write_bytes(id) \o OptionBytes(user)) \o OptionBytes(pass)
<1>1. PICK f : f = [x \in Binary |-> write_bytes(x)]
  OBVIOUS
<1>2. \A x \in Binary : f[x] = write_bytes(x)
  BY <1>1
<1>3. f \in [Binary -> Seq(Byte)]
  <2>1. << >> \in Seq(Byte)
    OBVIOUS
  <2>2. \A x \in Binary : write_bytes(x) \in Seq(Byte)
    BY <2>1, BytesGot
  <2> QED BY <1>1, <1>2, <2>2
<1>4. <<id>> \in Seq(Binary) /\ user \in Seq(Binary) /\ pass \in Seq(Binary)
  <2>0. Text \subseteq Binary
    BY DEF Text
  <2>1. id \in Binary /\ user \in Seq(Binary)
    <3>1. user \in Seq(Text)
      BY DEF Option
    <3> QED BY <2>0, <3>1, SeqMonotonic
  <2>2. pass \in Seq(Binary)
    BY DEF Option
  <2> QED BY <2>1, <2>2
<1>5. PICK a, u : a = <<id>> \o user /\ u = a \o pass
  OBVIOUS
<1>6. a \in Seq(Binary) /\ Len(a) = 1 + Len(user)
  <2>1. JoinOf(Binary, <<id>>, user, a)
    BY <1>4, <1>5, JoinIs, Zenon
  <2>2. a \in Seq(Binary) /\ Len(a) = Len(<<id>>) + Len(user)
    BY <2>1, Zenon DEF JoinOf
  <2>3. Len(<<id>>) = 1
    OBVIOUS
  <2> QED BY <2>2, <2>3
<1>7. u \in Seq(Binary) /\ Len(u) = 1 + Len(user) + Len(pass)
  <2>1. JoinOf(Binary, a, pass, u)
    BY <1>4, <1>5, <1>6, JoinIs, Zenon
  <2>2. u \in Seq(Binary) /\ Len(u) = Len(a) + Len(pass)
    BY <2>1, Zenon DEF JoinOf
  <2> QED BY <1>6, <2>2
<1>8. Credentials(id, user, pass) = FlattenSeq(Image(f, u))
  <2>1. DOMAIN u = 1 .. 1 + Len(user) + Len(pass) /\ \A i \in DOMAIN u : u[i] \in Binary
    <3>1. DOMAIN u = 1 .. Len(u) /\ \A i \in DOMAIN u : u[i] \in Binary
      BY <1>7
    <3> QED BY <1>7, <3>1, Zenon
  <2>2. \A i \in DOMAIN u : f[u[i]] = write_bytes(u[i])
    BY <1>2, <2>1, Zenon
  <2>3. Image(f, u) = [i \in 1 .. 1 + Len(user) + Len(pass) |-> write_bytes(u[i])]
    BY <2>1, <2>2, Zenon DEF Image
  <2>4. u = <<id>> \o user \o pass
    BY <1>5
  <2> QED BY <2>3, <2>4 DEF Credentials
<1>9. ImageConcat(f, a, pass) /\ ImageConcat(f, <<id>>, user)
  BY <1>3, <1>4, <1>6, FlattenImageConcat
<1>10. ASSUME NEW o, o = << >> \/ (o # << >> /\ o[1] \in Binary /\ o = <<o[1]>>)
       PROVE  FlattenSeq(Image(f, o)) = OptionBytes(o)
  <2>1. CASE o = << >>
    <3>1. Image(f, << >>) = << >> /\ FlattenSeq(<< >>) = << >>
      BY DEF Image, FlattenSeq
    <3> QED BY <2>1, <3>1 DEF OptionBytes
  <2>2. CASE o # << >>
    <3>1. PICK x \in Binary : x = o[1] /\ o = <<x>>
      BY <1>10, <2>2
    <3>2. Image(f, o) = <<f[x]>>
      BY <3>1 DEF Image
    <3>3. f[x] \in Seq(Byte) /\ f[x] = write_bytes(x)
      BY <1>2, <1>3
    <3>4. FlattenSeq(<<f[x]>>) = f[x]
      BY <3>3, FlattenFew
    <3> QED BY <2>2, <3>1, <3>2, <3>3, <3>4 DEF OptionBytes
  <2> QED BY <2>1, <2>2
<1>11. FlattenSeq(Image(f, user)) = OptionBytes(user)
  <2>1. user = << >> \/ (user # << >> /\ user[1] \in Text /\ user = <<user[1]>>)
    BY OptionCases
  <2>2. Text \subseteq Binary
    BY DEF Text
  <2> QED BY <1>10, <2>1, <2>2
<1>12. FlattenSeq(Image(f, pass)) = OptionBytes(pass)
  <2>1. pass = << >> \/ (pass # << >> /\ pass[1] \in Binary /\ pass = <<pass[1]>>)
    BY OptionCases
  <2> QED BY <1>10, <2>1
<1>13. FlattenSeq(Image(f, <<id>>)) = write_bytes(id)
  <2>1. id \in Binary
    BY DEF Text
  <2>2. PICK o : o = <<id>>
    OBVIOUS
  <2>3. o # << >> /\ o[1] = id /\ o = <<o[1]>>
    BY <2>2
  <2>4. FlattenSeq(Image(f, o)) = OptionBytes(o)
    BY <1>10, <2>1, <2>3
  <2> QED BY <2>2, <2>3, <2>4 DEF OptionBytes
<1> QED BY <1>5, <1>8, <1>9, <1>11, <1>12, <1>13 DEF ImageConcat

LEMMA ProtocolName == Mqtt \in Text /\ 5 \in Byte
<1>1. Mqtt \in Seq(Byte) /\ Len(Mqtt) = 4
  BY DEF Mqtt, Byte
<1>2. 255 \notin ToSet(Mqtt)
  BY DEF Mqtt, ToSet
<1>3. 5 \in Byte
  BY DEF Byte
<1>4. Mqtt \in Binary
  <2>1. PICK n : n = 65535
    OBVIOUS
  <2>2. Binary = {x \in Seq(Byte) : Len(x) <= n}
    BY <2>1 DEF Binary
  <2>3. Len(Mqtt) <= n
    <3>1. 4 <= n
      BY <2>1
    <3> QED BY <1>1, <3>1, Zenon
  <2> QED BY <1>1, <2>2, <2>3, Zenon
<1> QED BY <1>2, <1>3, <1>4, Zenon DEF Text

\* The fields of a CONNECT and the parts of its payload.
IsConnect(p) ==
  /\ p.client_id \in Text /\ p.keep_alive \in U16 /\ p.clean_start \in BOOLEAN
  /\ p.username \in Option(Text) /\ p.password \in Option(Binary)
  /\ IsProperties(ConnectProperties, p.properties)
  /\ p = [type |-> "Connect", client_id |-> p.client_id, keep_alive |-> p.keep_alive,
          clean_start |-> p.clean_start, username |-> p.username, password |-> p.password,
          properties |-> p.properties]
ConnectParts(p, m, f, k, w, i, u, c, s) ==
  /\ m = write_bytes(Mqtt) /\ k = write_u16(p.keep_alive)
  /\ f \in Byte
  /\ ConnectFlagsBack(p.clean_start, p.username # << >>, p.password # << >>, f)
  /\ w = encode_properties(ConnectProperties, p.properties)
  /\ i = write_bytes(p.client_id) /\ u = OptionBytes(p.username) /\ c = OptionBytes(p.password)
  /\ s = EncodePayload(p) /\ s = (((m \o <<5, f>>) \o k) \o w) \o ((i \o u) \o c)

LEMMA ConnectFields ==
  ASSUME NEW p, Encodable(p), p.type = "Connect"
  PROVE  IsConnect(p) /\ \E m, f, k, w, i, u, c, s : ConnectParts(p, m, f, k, w, i, u, c, s)
<1>1. IsConnect(p)
  <2>1. /\ p \in [type : {"Connect"}, client_id : Text, keep_alive : U16,
                  clean_start : BOOLEAN, username : Option(Text), password : Option(Binary),
                  properties : {p.properties}]
        /\ IsProperties(ConnectProperties, p.properties)
    BY DEF Encodable, IsPacket
  <2> QED BY <2>1 DEF IsConnect
<1>2. PICK user, pass : /\ user \in BOOLEAN /\ pass \in BOOLEAN
                        /\ user = (p.username # << >>) /\ pass = (p.password # << >>)
  OBVIOUS
<1>3. PICK f : f = Bit(2, p.clean_start) + Bit(128, user) + Bit(64, pass)
  OBVIOUS
<1>4. ConnectFlagsBack(p.clean_start, user, pass, f)
  BY <1>1, <1>2, <1>3, ConnectFlags DEF IsConnect
<1>5. PICK m, k, w, i, u, c, s :
        /\ m = write_bytes(Mqtt) /\ k = write_u16(p.keep_alive)
        /\ w = encode_properties(ConnectProperties, p.properties)
        /\ i = write_bytes(p.client_id) /\ u = OptionBytes(p.username) /\ c = OptionBytes(p.password)
        /\ s = EncodePayload(p)
  OBVIOUS
<1>6. s = (((m \o <<5, Bit(2, p.clean_start) + Bit(128, p.username # << >>) + Bit(64, p.password # << >>)>>)
              \o k) \o w) \o Credentials(p.client_id, p.username, p.password)
  BY <1>5 DEF EncodePayload, Credentials
<1>7. Credentials(p.client_id, p.username, p.password) = (i \o u) \o c
  BY <1>1, <1>5, CredentialsAre DEF IsConnect
<1>8. s = (((m \o <<5, f>>) \o k) \o w) \o ((i \o u) \o c)
  BY <1>2, <1>3, <1>6, <1>7, Zenon
<1>9. f \in Byte
  BY <1>4 DEF ConnectFlagsBack
<1>10. ConnectParts(p, m, f, k, w, i, u, c, s)
  BY <1>2, <1>4, <1>5, <1>8, <1>9, Zenon DEF ConnectParts
<1> QED BY <1>1, <1>10

\* decode_packet on a CONNECT after its flags, and after its properties.
ConnectLast(bits, alive, props, id, user) ==
  Then(Optional(HasBit(bits.val, 64), read_bytes, user.rest), LAMBDA pass :
       Got([type |-> "Connect", client_id |-> id.val, keep_alive |-> alive.val,
            clean_start |-> HasBit(bits.val, 2), username |-> user.val,
            password |-> pass.val, properties |-> props.val], pass.rest))
ConnectEnd(bits, alive, props, id, will) ==
  Then(Optional(HasBit(bits.val, 128), read_str, will.rest), LAMBDA user :
       ConnectLast(bits, alive, props, id, user))
ConnectRest(bits, alive, props) ==
  Then(read_str(props.rest), LAMBDA id :
  Then(IF HasBit(bits.val, 4) THEN skip_will(id.rest) ELSE id, LAMBDA will :
       ConnectEnd(bits, alive, props, id, will)))
ConnectBody(bits) ==
  Then(read_u16(bits.rest), LAMBDA alive :
  Then(decode_properties(ConnectProperties, alive.rest), LAMBDA props : ConnectRest(bits, alive, props)))

LEMMA ConnectGot ==
  ASSUME NEW p, Encodable(p), p.type = "Connect"
  PROVE  ReadBack(p)
<1>1. /\ p.client_id \in Text /\ p.keep_alive \in U16 /\ p.clean_start \in BOOLEAN
      /\ p.username \in Option(Text) /\ p.password \in Option(Binary)
      /\ IsProperties(ConnectProperties, p.properties)
      /\ p = [type |-> "Connect", client_id |-> p.client_id, keep_alive |-> p.keep_alive,
              clean_start |-> p.clean_start, username |-> p.username, password |-> p.password,
              properties |-> p.properties]
  BY ConnectFields DEF IsConnect
<1>2. PICK m, f, k, w, i, u, c, s : ConnectParts(p, m, f, k, w, i, u, c, s)
  BY ConnectFields
<1>3. /\ m = write_bytes(Mqtt) /\ k = write_u16(p.keep_alive) /\ f \in Byte
      /\ w = encode_properties(ConnectProperties, p.properties)
      /\ i = write_bytes(p.client_id) /\ u = OptionBytes(p.username) /\ c = OptionBytes(p.password)
      /\ s = EncodePayload(p) /\ s = (((m \o <<5, f>>) \o k) \o w) \o ((i \o u) \o c)
      /\ HasBit(f, 2) = p.clean_start /\ ~ HasBit(f, 4)
      /\ HasBit(f, 128) = (p.username # << >>) /\ HasBit(f, 64) = (p.password # << >>)
  BY <1>2 DEF ConnectParts, ConnectFlagsBack
<1>4. << >> \in Seq(Byte) /\ c \o << >> = c
  <2>1. << >> \in Seq(Byte)
    OBVIOUS
  <2>2. c \in Seq(Byte)
    BY <1>1, <1>3, <2>1, OptionalGot
  <2> QED BY <2>1, <2>2, ConcatEmptySeq
<1>5. PICK user \in BOOLEAN, pass \in BOOLEAN :
        (user <=> HasBit(f, 128)) /\ (pass <=> HasBit(f, 64))
  <2>1. HasBit(f, 128) \in BOOLEAN /\ HasBit(f, 64) \in BOOLEAN
    BY DEF HasBit
  <2> QED BY <2>1
<1>6. (user <=> p.username # << >>) /\ (pass <=> p.password # << >>)
  BY <1>3, <1>5
<1>7. /\ m \in Seq(Byte) /\ k \in Seq(Byte) /\ i \in Seq(Byte) /\ u \in Seq(Byte) /\ c \in Seq(Byte)
      /\ <<5, f>> \in Seq(Byte)
  <2>0. /\ p.client_id \in Text /\ p.keep_alive \in U16 /\ << >> \in Seq(Byte)
        /\ p.username \in Option(Text) /\ p.password \in Option(Binary)
    BY <1>1, <1>4
  <2>1. m \in Seq(Byte) /\ i \in Seq(Byte)
    BY <1>3, <2>0, ProtocolName, StrGot
  <2>2. k \in Seq(Byte)
    BY <1>3, <2>0, U16Got
  <2>3. u \in Seq(Byte) /\ c \in Seq(Byte)
    <3>1. OptionBytes(p.username) \in Seq(Byte)
      BY <1>5, <1>6, <2>0, OptionalGot
    <3>2. OptionBytes(p.password) \in Seq(Byte)
      BY <1>5, <1>6, <2>0, OptionalGot
    <3> QED BY <1>3, <3>1, <3>2
  <2>4. <<5, f>> \in Seq(Byte)
    BY <1>3, <1>4, ProtocolName, TwoBytes
  <2> QED BY <2>1, <2>2, <2>3, <2>4
<1>8. PICK ic : ic = (i \o u) \o c /\ ic \in Seq(Byte) /\ ic = i \o (u \o c) /\ u \o c \in Seq(Byte)
  <2>1. Assoc(Byte, i, u, c)
    BY <1>7, Joined
  <2>2. i \o (u \o c) \in Seq(Byte)
    BY <1>7, <2>1, ConcatProperties DEF Assoc
  <2> QED BY <2>1, <2>2 DEF Assoc
<1>9. PICK a : a = (m \o <<5, f>>) \o k /\ a \in Seq(Byte) /\ a = m \o (<<5, f>> \o k) /\ <<5, f>> \o k \in Seq(Byte)
  <2>1. Assoc(Byte, m, <<5, f>>, k)
    BY <1>7, Joined
  <2>2. m \o (<<5, f>> \o k) \in Seq(Byte)
    BY <1>7, <2>1, ConcatProperties DEF Assoc
  <2> QED BY <2>1, <2>2 DEF Assoc
<1>10. s = (a \o w) \o ic /\ Len(s) <= MaxVarint
  BY <1>3, <1>8, <1>9 DEF Encodable
<1>11. CarriedIn(ConnectProperties, p.properties, a, w, ic)
  BY <1>1, <1>3, <1>8, <1>9, <1>10, Tables, CarriedWithin
<1>12. PICK wi : /\ wi = w \o ic /\ wi \in Seq(Byte) /\ s \in Seq(Byte) /\ s = a \o wi
                 /\ decode_properties(ConnectProperties, wi) = Got(p.properties, ic)
  BY <1>10, <1>11 DEF CarriedIn
<1>13. PICK kw : kw = k \o wi /\ kw \in Seq(Byte) /\ s = m \o (<<5, f>> \o kw) /\ <<5, f>> \o kw \in Seq(Byte)
  <2>1. Assoc(Byte, m, <<5, f>> \o k, wi) /\ Assoc(Byte, <<5, f>>, k, wi)
    BY <1>7, <1>9, <1>12, Joined
  <2> QED BY <1>9, <1>12, <2>1 DEF Assoc
<1>14. PICK fk : fk = <<f>> \o kw /\ fk \in Seq(Byte) /\ <<5, f>> \o kw = <<5>> \o fk
  <2>1. f \in Byte /\ 5 \in Byte /\ kw \in Seq(Byte)
    BY <1>3, <1>13, ProtocolName
  <2>2. /\ <<5, f>> \o kw = <<5>> \o (<<f>> \o kw) /\ <<f>> \o kw \in Seq(Byte)
    BY <2>1, TwoBytes
  <2> QED BY <2>2
<1>15. PICK name, level, bits, alive :
         /\ name = read_str(s) /\ level = read_u8(name.rest)
         /\ bits = read_u8(level.rest) /\ alive = read_u16(bits.rest)
  OBVIOUS
<1>16. PICK props, id, will, us, pa :
         /\ props = decode_properties(ConnectProperties, alive.rest) /\ id = read_str(props.rest)
         /\ will = (IF HasBit(bits.val, 4) THEN skip_will(id.rest) ELSE id)
         /\ us = Optional(HasBit(bits.val, 128), read_str, will.rest)
         /\ pa = Optional(HasBit(bits.val, 64), read_bytes, us.rest)
  OBVIOUS
<1>17. name.err = "none" /\ name.val = Mqtt /\ name.rest = <<5>> \o fk
  <2>1. name = Got(Mqtt, <<5>> \o fk)
    BY <1>3, <1>13, <1>14, <1>15, ProtocolName, StrGot
  <2> QED BY <2>1 DEF Got
<1>18. level.err = "none" /\ level.val = 5 /\ level.rest = fk
  <2>1. level = Got(5, fk)
    BY <1>14, <1>15, <1>17, ProtocolName, U8Got
  <2> QED BY <2>1 DEF Got
<1>19. bits.err = "none" /\ bits.val = f /\ bits.rest = kw
  <2>1. bits = Got(f, kw)
    BY <1>3, <1>13, <1>14, <1>15, <1>18, U8Got
  <2> QED BY <2>1 DEF Got
<1>20. alive.err = "none" /\ alive.val = p.keep_alive /\ alive.rest = wi
  <2>1. alive = Got(p.keep_alive, wi)
    <3>1. alive = read_u16(write_u16(p.keep_alive) \o wi)
      BY <1>3, <1>13, <1>15, <1>19, Zenon
    <3>2. p.keep_alive \in U16 /\ wi \in Seq(Byte)
      BY <1>1, <1>12
    <3> QED BY <3>1, <3>2, U16Got
  <2> QED BY <2>1 DEF Got
<1>21. props.err = "none" /\ props.val = p.properties /\ props.rest = ic
  <2>1. props = Got(p.properties, ic)
    BY <1>12, <1>16, <1>20
  <2> QED BY <2>1 DEF Got
<1>22. id.err = "none" /\ id.val = p.client_id /\ id.rest = u \o c
  <2>1. id = Got(p.client_id, u \o c)
    BY <1>1, <1>3, <1>8, <1>16, <1>21, StrGot
  <2> QED BY <2>1 DEF Got
<1>23. will = id
  BY <1>3, <1>16, <1>19
<1>24. us.err = "none" /\ us.val = p.username /\ us.rest = c
  <2>1. Optional(HasBit(f, 128), read_str, u \o c) = Optional(user, read_str, u \o c)
    BY <1>5 DEF Optional
  <2>2. us = Optional(user, read_str, u \o c)
    BY <1>16, <1>19, <1>22, <1>23, <2>1
  <2>3. Optional(user, read_str, u \o c) = Got(p.username, c)
    <3>1. p.username \in Option(Text) /\ u = OptionBytes(p.username) /\ c \in Seq(Byte)
      BY <1>1, <1>3, <1>7
    <3> QED BY <1>6, <3>1, OptionalGot
  <2> QED BY <2>2, <2>3 DEF Got
<1>25. pa.err = "none" /\ pa.val = p.password /\ pa.rest = << >>
  <2>1. Optional(HasBit(f, 64), read_bytes, c) = Optional(pass, read_bytes, c)
    BY <1>5 DEF Optional
  <2>2. pa = Optional(pass, read_bytes, c \o << >>)
    <3>1. pa = Optional(HasBit(f, 64), read_bytes, c)
      BY <1>16, <1>19, <1>24
    <3> QED BY <1>4, <2>1, <3>1, Zenon
  <2>3. Optional(pass, read_bytes, c \o << >>) = Got(p.password, << >>)
    <3>1. p.password \in Option(Binary) /\ c = OptionBytes(p.password) /\ << >> \in Seq(Byte)
      BY <1>1, <1>3, <1>4
    <3> QED BY <1>6, <3>1, OptionalGot
  <2> QED BY <2>2, <2>3 DEF Got
<1>26. DecodeConnect(0, s) =
         Got([type |-> "Connect", client_id |-> id.val, keep_alive |-> alive.val,
              clean_start |-> HasBit(bits.val, 2), username |-> us.val,
              password |-> pa.val, properties |-> props.val], pa.rest)
  <2>1. will.err = "none"
    BY <1>22, <1>23
  <2>2. DecodeConnect(0, s) =
          IF 0 # 0 THEN Failed("MalformedPacket")
          ELSE Then(read_str(s), LAMBDA n :
               IF n.val # Mqtt THEN Failed("MalformedPacket")
          ELSE Then(read_u8(n.rest), LAMBDA l :
               IF l.val # 5 THEN Failed("UnsupportedProtocolVersion")
          ELSE Then(read_u8(l.rest), LAMBDA b : ConnectBody(b))))
    BY DEF DecodeConnect, ConnectBody, ConnectRest, ConnectEnd, ConnectLast
  <2>3. DecodeConnect(0, s) = ConnectBody(bits)
    BY <1>15, <1>17, <1>18, <1>19, <2>2 DEF Then
  <2>4. ConnectBody(bits) = ConnectRest(bits, alive, props)
    BY <1>15, <1>16, <1>20, <1>21 DEF ConnectBody, Then
  <2>5. ConnectRest(bits, alive, props) = ConnectEnd(bits, alive, props, id, will)
    BY <1>16, <1>22, <2>1 DEF ConnectRest, Then
  <2>6. ConnectEnd(bits, alive, props, id, will) =
          Got([type |-> "Connect", client_id |-> id.val, keep_alive |-> alive.val,
               clean_start |-> HasBit(bits.val, 2), username |-> us.val,
               password |-> pa.val, properties |-> props.val], pa.rest)
    <3>1. ConnectEnd(bits, alive, props, id, will) =
            Then(us, LAMBDA x : ConnectLast(bits, alive, props, id, x))
      BY <1>16, Zenon DEF ConnectEnd
    <3>2. @ = ConnectLast(bits, alive, props, id, us)
      BY <1>24 DEF Then
    <3>3. @ = Then(pa, LAMBDA x :
                Got([type |-> "Connect", client_id |-> id.val, keep_alive |-> alive.val,
                     clean_start |-> HasBit(bits.val, 2), username |-> us.val,
                     password |-> x.val, properties |-> props.val], x.rest))
      BY <1>16, Zenon DEF ConnectLast
    <3>4. @ = Got([type |-> "Connect", client_id |-> id.val, keep_alive |-> alive.val,
                   clean_start |-> HasBit(bits.val, 2), username |-> us.val,
                   password |-> pa.val, properties |-> props.val], pa.rest)
      BY <1>25 DEF Then
    <3> QED BY <3>1, <3>2, <3>3, <3>4, Zenon
  <2> QED BY <2>3, <2>4, <2>5, <2>6
<1>27. DecodeConnect(0, s) = Got(p, << >>)
  <2>1. DecodeConnect(0, s) =
          Got([type |-> "Connect", client_id |-> p.client_id, keep_alive |-> p.keep_alive,
               clean_start |-> p.clean_start, username |-> p.username,
               password |-> p.password, properties |-> p.properties], << >>)
    <3>1. HasBit(bits.val, 2) = p.clean_start
      BY <1>3, <1>19, Zenon
    <3> QED BY <1>20, <1>21, <1>22, <1>24, <1>25, <1>26, <3>1, Zenon
  <2> QED BY <1>1, <2>1, Zenon
<1>28. EncodeHeader(p) = 16 /\ 16 \div 16 = 1 /\ 16 % 16 = 0 /\ 16 \in Byte
  BY SMT DEF EncodeHeader, Byte
<1>29. DecodePayload(1, 0, s) = DecodeConnect(0, s)
  BY DEF DecodePayload
<1> QED BY <1>3, <1>12, <1>27, <1>28, <1>29 DEF ReadBack, Got

-----------------------------------------------------------------------------
(* Packets.                                                                *)

LEMMA PacketReadBack == ASSUME NEW p, Encodable(p) PROVE ReadBack(p)
<1>1. CASE p.type \in {"Connect", "ConnAck", "Publish"}
  BY <1>1, ConnectGot, ConnAckGot, PublishGot
<1>2. CASE p.type \in {"PubAck", "Subscribe", "SubAck", "Disconnect"}
  BY <1>2, PubAckGot, SubscribeGot, SubAckGot, DisconnectGot
<1>3. CASE ~ (p.type \in {"Connect", "ConnAck", "Publish"})
           /\ ~ (p.type \in {"PubAck", "Subscribe", "SubAck", "Disconnect"})
  <2>1. p \in [type : {"PingReq", "PingResp"}]
    BY <1>3 DEF Encodable, IsPacket
  <2> QED BY <2>1, PingGot
<1> QED BY <1>1, <1>2, <1>3

\* What lies between two sequences can be cut out.
LEMMA CutOut ==
  ASSUME NEW T, NEW a \in Seq(T), NEW s \in Seq(T), NEW m \in Seq(T)
  PROVE  SubSeq((a \o s) \o m, Len(a) + 1, Len(a) + Len(s)) = s
<1>1. PICK x, n, as, w : x = Len(a) /\ n = Len(s) /\ as = a \o s /\ w = as \o m
  OBVIOUS
<1>2. /\ as \in Seq(T) /\ Len(as) = x + n /\ x \in Nat /\ n \in Nat
      /\ \A i \in 1 .. n : as[x + i] = s[i]
  <2>1. /\ as \in Seq(T) /\ Len(as) = Len(a) + Len(s)
        /\ \A i \in 1 .. Len(a) + Len(s) : as[i] = IF i <= Len(a) THEN a[i] ELSE s[i - Len(a)]
    BY <1>1, ConcatProperties
  <2>2. Len(a) \in Nat /\ Len(s) \in Nat
    OBVIOUS
  <2>3. ASSUME NEW i \in 1 .. n PROVE as[x + i] = s[i]
    <3>1. x + i \in 1 .. x + n /\ ~ (x + i <= x) /\ (x + i) - x = i
      BY <1>1, <2>2
    <3> QED BY <1>1, <2>1, <3>1
  <2> QED BY <1>1, <2>1, <2>2, <2>3
<1>3. /\ \A i \in 1 .. x + n : w[i] = as[i] /\ as[i] \in T
  <2>1. \A i \in 1 .. Len(as) : w[i] = as[i] /\ as[i] \in T
    BY <1>1, <1>2, ConcatProperties
  <2> QED BY <1>2, <2>1
<1>4. PICK b : b = SubSeq(w, x + 1, x + n)
  OBVIOUS
<1>5. PartOf(T, w, x + 1, x + n, b)
  <2>1. ASSUME NEW i \in x + 1 .. x + n PROVE w[i] \in T
    <3>1. i \in 1 .. x + n
      BY <1>2
    <3> QED BY <1>3, <3>1
  <2>2. x + 1 \in Int /\ x + n \in Int
    BY <1>2
  <2> QED BY <1>4, <2>1, <2>2, PartIs, Zenon
<1>6. b \in Seq(T) /\ Len(b) = n /\ \A i \in 1 .. n : b[i] = w[x + i]
  BY <1>2, <1>5 DEF PartOf
<1>7. ASSUME NEW i \in 1 .. n PROVE b[i] = s[i]
  <2>1. x + i \in 1 .. x + n
    BY <1>2
  <2> QED BY <1>2, <1>3, <1>6, <2>1
<1>8. b = s
  BY <1>1, <1>2, <1>6, <1>7, SeqEqual
<1> QED BY <1>1, <1>4, <1>8

\* The bytes of a packet and what follows: the first byte, the length, the
\* payload.
PacketIn(h, s, v, k, w) ==
  /\ k \in Seq(Byte) /\ Len(k) = (1 + v) + Len(s) /\ v \in 1 .. 4
  /\ w \in Seq(Byte) /\ w[1] = h /\ Len(w) >= (1 + v) + Len(s)
  /\ decode_varint(Drop(w, 1)) = Value(Len(s), v)
  /\ SubSeq(w, v + 2, (1 + v) + Len(s)) = s

LEMMA PacketBytes ==
  ASSUME NEW h \in Byte, NEW s \in Seq(Byte), Len(s) <= MaxVarint, NEW more \in Seq(Byte),
         NEW k, k = (<<h>> \o encode_varint(Len(s))) \o s
  PROVE  PacketIn(h, s, VarintLen(Len(s)), k, k \o more)
<1>1. PICK n, v, e, a, w : /\ n = Len(s) /\ v = VarintLen(n) /\ e = encode_varint(n)
                           /\ a = <<h>> \o e /\ w = k \o more
  OBVIOUS
<1>2. n \in Nat /\ n <= MaxVarint
  BY <1>1
<1>3. e \in Seq(Byte) /\ Len(e) = v /\ v \in 1 .. 4
  BY <1>1, <1>2, VarintBytes
<1>4. /\ <<h>> \in Seq(Byte) /\ Len(<<h>>) = 1 /\ a \in Seq(Byte) /\ Len(a) = 1 + v /\ a[1] = h
  <2>1. <<h>> \in Seq(Byte) /\ Len(<<h>>) = 1 /\ <<h>>[1] = h
    OBVIOUS
  <2> QED BY <1>1, <1>3, <2>1, ConcatProperties
<1>5. k = a \o s /\ k \in Seq(Byte) /\ Len(k) = (1 + v) + n /\ k[1] = h
  BY <1>1, <1>3, <1>4, ConcatProperties
<1>6. w \in Seq(Byte) /\ Len(w) >= (1 + v) + n /\ w[1] = h
  <2>1. k \in Seq(Byte) /\ more \in Seq(Byte) /\ w = k \o more
    BY <1>1, <1>5
  <2>2. Len(k) \in Nat /\ Len(more) \in Nat
    BY <2>1
  <2>3. JoinOf(Byte, k, more, w)
    BY <2>1, JoinIs, Zenon
  <2>4. /\ w \in Seq(Byte) /\ Len(w) = Len(k) + Len(more)
        /\ \A i \in 1 .. Len(k) + Len(more) : w[i] = IF i <= Len(k) THEN k[i] ELSE more[i - Len(k)]
    BY <2>3, Zenon DEF JoinOf
  <2>5. w[1] = k[1]
    <3>1. 1 \in 1 .. Len(k) + Len(more) /\ 1 <= Len(k)
      BY <1>2, <1>3, <1>5, <2>2
    <3> QED BY <2>4, <3>1, Zenon
  <2>6. Len(w) >= (1 + v) + n
    BY <1>2, <1>3, <1>5, <2>2, <2>4
  <2> QED BY <1>5, <2>4, <2>5, <2>6
<1>7. decode_varint(Drop(w, 1)) = Value(n, v)
  <2>1. PICK sm, r : sm = s \o more /\ r = e \o sm
    OBVIOUS
  <2>2. sm \in Seq(Byte) /\ r \in Seq(Byte)
    BY <1>3, <2>1, ConcatProperties
  <2>3. Assoc(Byte, <<h>>, e, s) /\ Assoc(Byte, <<h>>, e, sm) /\ Assoc(Byte, a, s, more)
    BY <1>3, <1>4, <2>2, Joined
  <2>4. w = <<h>> \o r
    BY <1>1, <1>5, <2>1, <2>3 DEF Assoc
  <2>5. Drop(w, 1) = r
    BY <1>4, <2>2, <2>4, DropFirst
  <2>6. sm \in Seq(Nat)
    BY <2>2, BytesAreNumbers
  <2>7. decode_varint(r) = Value(n, v)
    BY <1>1, <1>2, <2>1, <2>6, VarintRoundTrip
  <2> QED BY <2>5, <2>7
<1>8. SubSeq(w, v + 2, (1 + v) + n) = s
  <2>1. SubSeq((a \o s) \o more, Len(a) + 1, Len(a) + Len(s)) = s
    BY <1>4, CutOut
  <2>2. Len(a) + 1 = v + 2 /\ Len(a) + Len(s) = (1 + v) + n
    BY <1>1, <1>3, <1>4
  <2> QED BY <1>1, <1>5, <2>1, <2>2
<1> QED BY <1>1, <1>3, <1>5, <1>6, <1>7, <1>8 DEF PacketIn

\* Whatever follows, decode_packet gives back every packet that encode_packet
\* can write, and uses up exactly the bytes written: its type and flags, its
\* lengths, its strings, its properties with their identifiers and the loops
\* over subscriptions, reason codes and user properties.
THEOREM PacketRoundTrip ==
  \A p, more : Encodable(p) /\ more \in Seq(Byte) =>
    decode_packet(encode_packet(p) \o more) = Value(p, Len(encode_packet(p)))
<1> SUFFICES ASSUME NEW p, NEW more, Encodable(p), more \in Seq(Byte)
             PROVE  decode_packet(encode_packet(p) \o more) = Value(p, Len(encode_packet(p)))
  OBVIOUS
<1>1. PICK s, h, r : s = EncodePayload(p) /\ h = EncodeHeader(p)
                     /\ r = DecodePayload(h \div 16, h % 16, s)
  OBVIOUS
<1>2. s \in Seq(Byte) /\ h \in Byte /\ r.err = "none" /\ r.val = p
  BY <1>1, PacketReadBack DEF ReadBack
<1>3. Len(s) <= MaxVarint
  BY <1>1 DEF Encodable
<1>4. PICK k, w, n, v : /\ k = encode_packet(p) /\ w = k \o more
                        /\ n = decode_varint(Drop(w, 1)) /\ v = VarintLen(Len(s))
  OBVIOUS
<1>5. k = (<<h>> \o encode_varint(Len(s))) \o s
  BY <1>1, <1>4 DEF encode_packet
<1>6. /\ k \in Seq(Byte) /\ Len(k) = (1 + v) + Len(s) /\ v \in 1 .. 4
      /\ w \in Seq(Byte) /\ w[1] = h /\ Len(w) >= (1 + v) + Len(s)
      /\ n = Value(Len(s), v)
      /\ SubSeq(w, v + 2, (1 + v) + Len(s)) = s
  <2>1. PacketIn(h, s, VarintLen(Len(s)), k, k \o more)
    BY <1>2, <1>3, <1>5, PacketBytes
  <2>2. PacketIn(h, s, v, k, w)
    BY <1>4, <2>1, Zenon
  <2> QED BY <1>4, <2>2, Zenon DEF PacketIn
<1>7. n.err = "none" /\ n.read = v /\ n.val = Len(s)
  BY <1>6 DEF Value
<1>8. PICK t, l : t = (1 + v) + Len(s) /\ l = Len(w) /\ t \in Nat /\ l \in Nat /\ l >= t /\ t >= 1
  <2>1. Len(s) \in Nat /\ Len(w) \in Nat /\ v \in Nat
    BY <1>2, <1>6
  <2>2. PICK q : q = (1 + v) + Len(s) /\ q \in Nat /\ q >= 1
    BY <2>1
  <2> QED BY <1>6, <2>1, <2>2, Zenon
<1>9. ~ (Len(w) < 1) /\ ~ (Len(w) < t)
  BY <1>8
<1>10. decode_packet(w) = Decoded(w, n)
  BY <1>4, <1>6, <1>9, DecodePacketIs
<1>11. Payload(w, n) = r
  BY <1>1, <1>6, <1>7 DEF Payload
<1>12. Decoded(w, n) = Framed(r, t)
  BY <1>7, <1>8, <1>9, <1>11 DEF Decoded
<1>13. Framed(r, t) = Value(p, Len(k))
  BY <1>2, <1>6, <1>8 DEF Framed
<1> QED BY <1>4, <1>10, <1>12, <1>13
=============================================================================
