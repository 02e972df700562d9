---------------------------- MODULE BridgeProofs ----------------------------
(***************************************************************************)
(* The bridge implements a lossy channel in order from the local broker to *)
(* the remote one and another one back, for any numbers of messages and of *)
(* failures.                                                               *)
(***************************************************************************)
EXTENDS BridgeProperties, SequenceTheorems, TLAPS

\* Everything that has left the queue, in order.
Path == remote \o (uplink \o hand)

Rising(s) == \A i, j \in 1 .. Len(s) : i < j => s[i] < s[j]

\* Path and queue together are in the order of publication: each is, and
\* what is in the queue was published after what has left it.
UpTypeOK ==
  /\ published \in Nat
  /\ queue \in Seq([topic : Topics, id : Nat])
  /\ hand \in Seq(Nat) /\ uplink \in Seq(Nat) /\ remote \in Seq(Nat)
  /\ phase # "writing" => hand = << >>

UpInv ==
  /\ UpTypeOK
  /\ Rising(Path)
  /\ \A i \in 1 .. Len(Path) : 1 <= Path[i] /\ Path[i] <= published
  /\ \A i, j \in 1 .. Len(queue) : i < j => queue[i].id < queue[j].id
  /\ \A i \in 1 .. Len(queue) : 1 <= queue[i].id /\ queue[i].id <= published
  /\ \A i \in 1 .. Len(Path), j \in 1 .. Len(queue) : Path[i] < queue[j].id

-----------------------------------------------------------------------------
(* Sequences of numbers.                                                   *)

LEMMA Associative ==
  \A s, t, u \in Seq(Nat) : (s \o t) \o u = s \o (t \o u)
<1> TAKE s, t, u \in Seq(Nat)
<1> QED BY ConcatAssociative, SMTT(60)

\* Moving the head of t to the end of s.
LEMMA MoveHead ==
  ASSUME NEW s \in Seq(Nat), NEW t \in Seq(Nat), NEW u \in Seq(Nat), t # << >>
  PROVE  /\ Append(s, Head(t)) \in Seq(Nat) /\ Tail(t) \in Seq(Nat)
         /\ Append(s, Head(t)) \o (Tail(t) \o u) = s \o (t \o u)
<1> DEFINE h == Head(t)
<1>1. h \in Nat /\ Tail(t) \in Seq(Nat) /\ <<h>> \in Seq(Nat)
  BY HeadTailProperties
<1>2. Append(s, h) = s \o <<h>>
  BY <1>1, AppendIsConcat
<1>3. t = <<h>> \o Tail(t)
  <2>1. /\ <<h>> \o Tail(t) \in Seq(Nat) /\ Len(<<h>> \o Tail(t)) = 1 + Len(Tail(t))
        /\ \A i \in 1 .. 1 + Len(Tail(t)) :
             (<<h>> \o Tail(t))[i] = IF i <= 1 THEN <<h>>[i] ELSE Tail(t)[i - 1]
    BY <1>1, ConcatProperties
  <2>2. Len(Tail(t)) = Len(t) - 1 /\ \A i \in 1 .. Len(Tail(t)) : Tail(t)[i] = t[i + 1]
    BY HeadTailProperties
  <2>3. h = t[1]
    OBVIOUS
  <2> HIDE DEF h
  <2>4. \A i \in 1 .. Len(t) : t[i] = (<<h>> \o Tail(t))[i]
    BY <2>1, <2>2, <2>3
  <2>5. Len(t) = Len(<<h>> \o Tail(t))
    BY <2>1, <2>2
  <2> QED BY <2>1, <2>4, <2>5, SeqEqual, Zenon
<1> DEFINE o == <<h>>
           rest == Tail(t)
<1>4. o \in Seq(Nat) /\ rest \in Seq(Nat) /\ Append(s, h) = s \o o /\ t = o \o rest
  BY <1>1, <1>2, <1>3
<1> HIDE DEF h, o, rest
<1>5. (s \o o) \o (rest \o u) = s \o (o \o (rest \o u))
  <2> DEFINE v == rest \o u
  <2>1. v \in Seq(Nat)
    BY <1>4, ConcatProperties
  <2> HIDE DEF v
  <2>2. (s \o o) \o v = s \o (o \o v)
    BY <1>4, <2>1, Associative, ZenonT(60)
  <2> QED BY <2>2 DEF v
<1>6. (o \o rest) \o u = o \o (rest \o u)
  BY <1>4, Associative, ZenonT(60)
<1>7. Append(s, h) \in Seq(Nat) /\ Append(s, h) \o (rest \o u) = s \o (t \o u)
  BY <1>4, <1>5, <1>6, ConcatProperties
<1> QED BY <1>1, <1>7 DEF h, rest

LEMMA Prefix ==
  ASSUME NEW s \in Seq(Nat), NEW t \in Seq(Nat), NEW n \in 0 .. Len(t)
  PROVE  /\ s \o SubSeq(t, 1, n) \in Seq(Nat)
         /\ Len(s \o SubSeq(t, 1, n)) = Len(s) + n
         /\ Len(s \o SubSeq(t, 1, n)) <= Len(s \o t)
         /\ \A i \in 1 .. Len(s) + n : (s \o SubSeq(t, 1, n))[i] = (s \o t)[i]
  BY SMTT(30)

\* The types that the operations of queue, hand and network keep.
LEMMA PathType == UpTypeOK => Path \in Seq(Nat) /\ uplink \o hand \in Seq(Nat)
BY ConcatProperties DEF UpTypeOK, Path

LEMMA QueueElements ==
  UpTypeOK => Len(queue) \in Nat /\ \A i \in 1 .. Len(queue) : queue[i].id \in Nat
<1> SUFFICES ASSUME UpTypeOK
             PROVE  Len(queue) \in Nat /\ \A i \in 1 .. Len(queue) : queue[i].id \in Nat
  OBVIOUS
<1> DEFINE R == [topic : Topics, id : Nat]
<1>1. queue \in Seq(R)
  BY DEF UpTypeOK
<1> HIDE DEF R
<1>2. Len(queue) \in Nat /\ \A i \in 1 .. Len(queue) : queue[i] \in R
  BY <1>1
<1> QED BY <1>2 DEF R

-----------------------------------------------------------------------------
LEMMA UpInit == Init => UpInv
BY DEF Init, UpInv, UpTypeOK, Path, Rising

\* What the invariant says of the queue alone stays true of its tail.
LEMMA TakenQueue ==
  ASSUME UpInv, queue # << >>, queue' = Tail(queue), published' = published
  PROVE  /\ \A i \in 1 .. Len(queue') : \E k \in 2 .. Len(queue) : queue'[i] = queue[k]
         /\ \A i, j \in 1 .. Len(queue') : i < j => queue'[i].id < queue'[j].id
         /\ \A i \in 1 .. Len(queue') : 1 <= queue'[i].id /\ queue'[i].id <= published'
<1>1. Len(queue') = Len(queue) - 1 /\ \A i \in 1 .. Len(queue') : queue'[i] = queue[i + 1]
  <2>1. queue \in Seq([topic : Topics, id : Nat])
    BY DEF UpInv, UpTypeOK
  <2>2. Len(Tail(queue)) = Len(queue) - 1
        /\ \A i \in 1 .. Len(Tail(queue)) : Tail(queue)[i] = queue[i + 1]
    BY <2>1, HeadTailProperties, Zenon
  <2> QED BY <2>2
<1>2. Len(queue) \in Nat /\ \A i \in 1 .. Len(queue) : queue[i].id \in Nat
  BY QueueElements DEF UpInv
<1>3. \A i \in 1 .. Len(queue') : i + 1 \in 1 .. Len(queue) /\ i + 1 \in 2 .. Len(queue)
  BY <1>1, <1>2
<1>4. \A i, j \in 1 .. Len(queue') : i < j => queue'[i].id < queue'[j].id
  BY <1>1, <1>2, <1>3 DEF UpInv
<1>5. \A i \in 1 .. Len(queue') : 1 <= queue'[i].id /\ queue'[i].id <= published'
  BY <1>1, <1>2, <1>3 DEF UpInv
<1> QED BY <1>1, <1>3, <1>4, <1>5

\* The invariant depends on Path and queue alone, apart from the types: a
\* step that keeps the path keeps it if the queue loses at most its head.
LEMMA SamePath ==
  ASSUME UpInv, UpTypeOK', Path' = Path, published' = published,
         queue' = queue \/ (queue # << >> /\ queue' = Tail(queue))
  PROVE  UpInv'
<1>1. CASE queue' = queue
  BY <1>1 DEF UpInv, Rising
<1>2. CASE queue # << >> /\ queue' = Tail(queue)
  <2>1. /\ \A i \in 1 .. Len(queue') : \E k \in 2 .. Len(queue) : queue'[i] = queue[k]
        /\ \A i, j \in 1 .. Len(queue') : i < j => queue'[i].id < queue'[j].id
        /\ \A i \in 1 .. Len(queue') : 1 <= queue'[i].id /\ queue'[i].id <= published'
    BY <1>2, TakenQueue
  <2>2. \A k \in 2 .. Len(queue) : k \in 1 .. Len(queue)
    BY QueueElements DEF UpInv
  <2>3. \A i \in 1 .. Len(Path'), j \in 1 .. Len(queue') : Path'[i] < queue'[j].id
    BY <2>1, <2>2 DEF UpInv
  <2> QED BY <2>1, <2>3 DEF UpInv, Rising
<1> QED BY <1>1, <1>2

\* The path gets a number that is above all of it and in the queue no more.
LEMMA PathGrows ==
  ASSUME NEW s \in Seq(Nat), NEW n \in Nat, Rising(s),
         \A i \in 1 .. Len(s) : 1 <= s[i] /\ s[i] < n
  PROVE  /\ Append(s, n) \in Seq(Nat) /\ Rising(Append(s, n))
         /\ \A i \in 1 .. Len(Append(s, n)) : \/ i \in 1 .. Len(s) /\ Append(s, n)[i] = s[i]
                                              \/ Append(s, n)[i] = n
<1>1. /\ Append(s, n) \in Seq(Nat) /\ Len(Append(s, n)) = Len(s) + 1
      /\ \A i \in 1 .. Len(s) : Append(s, n)[i] = s[i]
      /\ Append(s, n)[Len(s) + 1] = n
  BY AppendProperties
<1>2. Len(s) \in Nat /\ \A i \in 1 .. Len(s) : s[i] \in Nat
  OBVIOUS
<1>3. \A i \in 1 .. Len(s) + 1 : \/ i \in 1 .. Len(s) /\ Append(s, n)[i] = s[i]
                                 \/ i = Len(s) + 1 /\ Append(s, n)[i] = n
  BY <1>1, <1>2
<1>4. Rising(Append(s, n))
  <2> DEFINE a == Append(s, n)
  <2> HIDE DEF a
  <2>1. \A i, j \in 1 .. Len(s) + 1 : i < j => a[i] < a[j]
    BY <1>2, <1>3 DEF a, Rising
  <2> QED BY <1>1, <2>1 DEF a, Rising
<1> QED BY <1>1, <1>2, <1>3, <1>4

\* Path and hand apart, every action changes only what is after them.
LEMMA UpNext == UpInv /\ [Next]_vars => UpInv'
<1> SUFFICES ASSUME UpInv, [Next]_vars PROVE UpInv'
  OBVIOUS
<1>t. UpTypeOK
  BY DEF UpInv
<1>p. Path \in Seq(Nat) /\ uplink \o hand \in Seq(Nat)
  BY <1>t, PathType
<1>q. Len(queue) \in Nat /\ \A i \in 1 .. Len(queue) : queue[i].id \in Nat
  BY <1>t, QueueElements
<1>1. CASE \E from \in LocalClients, topic \in Topics : LocalPublish(from, topic)
  <2> PICK from \in LocalClients, topic \in Topics : LocalPublish(from, topic)
    BY <1>1
  <2> DEFINE e == [topic |-> topic, id |-> published + 1]
             R == [topic : Topics, id : Nat]
  <2>1. published \in Nat /\ published' = published + 1 /\ published' \in Nat
    BY <1>t DEF LocalPublish, UpTypeOK
  <2>2. e \in R /\ e.id = published + 1
    BY <2>1
  <2>3. queue \in Seq(R)
    BY <1>t DEF UpTypeOK
  <2>4. queue' = queue \/ queue' = Append(queue, e)
    BY DEF LocalPublish
  <2>5. Path' = Path /\ hand' = hand /\ uplink' = uplink /\ remote' = remote /\ phase' = phase
    BY DEF LocalPublish, Path
  <2> HIDE DEF e, R
  <2>6. queue' \in Seq(R)
    BY <2>2, <2>3, <2>4, AppendProperties
  <2>7. /\ Len(queue') \in Nat /\ Len(queue') <= Len(queue) + 1
        /\ \A i \in 1 .. Len(queue') : \/ i \in 1 .. Len(queue) /\ queue'[i] = queue[i]
                                       \/ i = Len(queue) + 1 /\ queue'[i] = e
    <3>1. /\ Len(Append(queue, e)) = Len(queue) + 1
          /\ \A i \in 1 .. Len(queue) : Append(queue, e)[i] = queue[i]
          /\ Append(queue, e)[Len(queue) + 1] = e
      BY <2>2, <2>3, AppendProperties
    <3> QED BY <1>q, <2>4, <3>1
  <2>8. UpTypeOK'
    BY <1>t, <2>1, <2>5, <2>6 DEF UpTypeOK, R
  <2>9. Rising(Path)' /\ \A i \in 1 .. Len(Path') : 1 <= Path'[i] /\ Path'[i] <= published'
    <3>1. Len(Path) \in Nat /\ \A i \in 1 .. Len(Path) : Path[i] \in Nat
      BY <1>p
    <3>2. Rising(Path)'
      BY <2>5 DEF UpInv, Rising
    <3>3. \A i \in 1 .. Len(Path) : 1 <= Path[i] /\ Path[i] <= published
      BY DEF UpInv
    <3>4. \A i \in 1 .. Len(Path) : 1 <= Path[i] /\ Path[i] <= published'
      BY <2>1, <3>1, <3>3
    <3> QED BY <2>5, <3>2, <3>4
  <2>10. \A i, j \in 1 .. Len(queue') : i < j => queue'[i].id < queue'[j].id
    <3>1. \A i, j \in 1 .. Len(queue) : i < j => queue[i].id < queue[j].id
      BY DEF UpInv
    <3>2. \A i \in 1 .. Len(queue) : queue[i].id < e.id
      BY <1>q, <2>1, <2>2 DEF UpInv
    <3> SUFFICES ASSUME NEW i \in 1 .. Len(queue'), NEW j \in 1 .. Len(queue'), i < j
                 PROVE  queue'[i].id < queue'[j].id
      OBVIOUS
    <3>3. i \in 1 .. Len(queue) /\ queue'[i] = queue[i]
      BY <1>q, <2>7
    <3>4. CASE j \in 1 .. Len(queue) /\ queue'[j] = queue[j]
      BY <3>1, <3>3, <3>4
    <3>5. CASE queue'[j] = e
      BY <3>2, <3>3, <3>5
    <3> QED BY <2>7, <3>4, <3>5
  <2>11. \A i \in 1 .. Len(queue') : 1 <= queue'[i].id /\ queue'[i].id <= published'
    <3>1. \A i \in 1 .. Len(queue) : 1 <= queue[i].id /\ queue[i].id <= published
      BY DEF UpInv
    <3> QED BY <1>q, <2>1, <2>2, <2>7, <3>1
  <2>12. \A i \in 1 .. Len(Path'), j \in 1 .. Len(queue') : Path'[i] < queue'[j].id
    <3>1. Len(Path') = Len(Path) /\ \A i \in 1 .. Len(Path) : Path'[i] = Path[i] /\ Path[i] \in Nat
      BY <1>p, <2>5
    <3>2. \A i \in 1 .. Len(Path) : Path[i] < e.id
      BY <2>1, <2>2, <3>1 DEF UpInv
    <3>3. \A i \in 1 .. Len(Path), j \in 1 .. Len(queue) : Path[i] < queue[j].id
      BY DEF UpInv
    <3> QED BY <2>7, <3>1, <3>2, <3>3
  <2> QED BY <2>8, <2>9, <2>10, <2>11, <2>12 DEF UpInv
<1>2. CASE RemoteReceive
  <2>1. /\ Append(remote, Head(uplink)) \in Seq(Nat) /\ Tail(uplink) \in Seq(Nat)
        /\ Append(remote, Head(uplink)) \o (Tail(uplink) \o hand) = remote \o (uplink \o hand)
    BY <1>2, <1>t, MoveHead DEF RemoteReceive, UpTypeOK
  <2>2. Path' = Path /\ published' = published /\ queue' = queue
    BY <1>2, <2>1 DEF RemoteReceive, Path
  <2>3. UpTypeOK'
    BY <1>2, <1>t, <2>1 DEF RemoteReceive, UpTypeOK
  <2> QED BY <2>2, <2>3, SamePath
<1>3. CASE TakeLocal
  <2> DEFINE R == [topic : Topics, id : Nat]
  <2>1. queue \in Seq(R) /\ queue # << >>
    BY <1>3, <1>t DEF TakeLocal, UpTypeOK
  <2> HIDE DEF R
  <2>2. Tail(queue) \in Seq(R) /\ Head(queue) = queue[1] /\ Head(queue) \in R
    BY <2>1
  <2> USE DEF R
  <2>3. Head(queue).id \in Nat /\ 1 \in 1 .. Len(queue) /\ Tail(queue) \in Seq([topic : Topics, id : Nat])
    BY <1>q, <2>1, <2>2
  <2>4. queue' = Tail(queue) /\ published' = published /\ uplink' = uplink /\ remote' = remote
    BY <1>3 DEF TakeLocal
  <2> HIDE DEF R
  <2>5. CASE hand' = hand /\ phase' = phase
    <3>1. Path' = Path
      BY <2>4, <2>5 DEF Path
    <3>2. UpTypeOK'
      BY <1>t, <2>3, <2>4, <2>5 DEF UpTypeOK
    <3> QED BY <2>1, <2>4, <3>1, <3>2, SamePath
  <2>6. CASE hand' = <<Head(queue).id>> /\ phase' = "writing"
    <3> DEFINE n == Head(queue).id
    <3>1. hand = << >>
      BY <1>3, <1>t DEF TakeLocal, UpTypeOK
    <3>2. UpTypeOK'
      BY <1>t, <2>3, <2>4, <2>6 DEF UpTypeOK
    <3>3. Path = remote \o uplink /\ Path' = remote \o (uplink \o <<n>>)
      BY <1>t, <2>4, <2>6, <3>1, ConcatEmptySeq DEF Path, UpTypeOK
    <3>4. n \in Nat /\ n = queue[1].id
      BY <2>2, <2>3
    <3> HIDE DEF n
    <3>5. Path' = Append(Path, n)
      <4>1. <<n>> \in Seq(Nat) /\ remote \in Seq(Nat) /\ uplink \in Seq(Nat)
        BY <1>t, <3>4 DEF UpTypeOK
      <4>2. Path' = Path \o <<n>>
        BY <3>3, <4>1, Associative
      <4> QED BY <1>p, <3>4, <4>2, AppendIsConcat
    <3>6. \A i \in 1 .. Len(Path) : 1 <= Path[i] /\ Path[i] < n
      BY <2>3, <3>4 DEF UpInv
    <3>7. /\ Path' \in Seq(Nat) /\ Rising(Path')
          /\ \A i \in 1 .. Len(Path') : \/ i \in 1 .. Len(Path) /\ Path'[i] = Path[i]
                                        \/ Path'[i] = n
      BY <1>p, <3>4, <3>5, <3>6, PathGrows DEF UpInv
    <3>8. /\ \A i \in 1 .. Len(queue') : \E k \in 2 .. Len(queue) : queue'[i] = queue[k]
          /\ \A i, j \in 1 .. Len(queue') : i < j => queue'[i].id < queue'[j].id
          /\ \A i \in 1 .. Len(queue') : 1 <= queue'[i].id /\ queue'[i].id <= published'
      BY <2>1, <2>4, TakenQueue
    <3>9. \A i \in 1 .. Len(Path') : 1 <= Path'[i] /\ Path'[i] <= published'
      <4>1. \A i \in 1 .. Len(Path) : 1 <= Path[i] /\ Path[i] <= published
        BY DEF UpInv
      <4>2. 1 <= n /\ n <= published
        BY <2>3, <3>4 DEF UpInv
      <4> QED BY <2>4, <3>7, <4>1, <4>2
    <3>10. \A i \in 1 .. Len(Path'), j \in 1 .. Len(queue') : Path'[i] < queue'[j].id
      <4>1. \A k \in 2 .. Len(queue) : k \in 1 .. Len(queue) /\ n < queue[k].id
        BY <1>q, <2>3, <3>4 DEF UpInv
      <4>2. \A i \in 1 .. Len(Path), j \in 1 .. Len(queue') : Path[i] < queue'[j].id
        BY <3>8, <4>1 DEF UpInv
      <4>3. \A j \in 1 .. Len(queue') : n < queue'[j].id
        BY <3>8, <4>1
      <4> QED BY <3>7, <4>2, <4>3
    <3> QED BY <3>2, <3>7, <3>8, <3>9, <3>10 DEF UpInv
  <2> QED BY <1>3, <2>5, <2>6 DEF TakeLocal
<1>4. CASE Written
  <2>1. uplink \o hand \in Seq(Nat) /\ (uplink \o hand) \o << >> = uplink \o hand
    BY <1>p, ConcatEmptySeq
  <2>2. Path' = Path /\ published' = published /\ queue' = queue
    BY <1>4, <2>1 DEF Written, Path
  <2>3. UpTypeOK'
    BY <1>4, <1>t, <2>1 DEF Written, UpTypeOK
  <2> QED BY <2>2, <2>3, SamePath
<1>5. CASE StreamLost /\ phase' \in {"backoff", "ended"} /\ published' = published
           /\ (queue' = queue \/ queue' = << >>)
  <2> PICK n \in 0 .. Len(uplink \o hand) : remote' = remote \o SubSeq(uplink \o hand, 1, n)
    BY <1>5 DEF StreamLost
  <2>1. /\ remote' \in Seq(Nat) /\ Len(remote') <= Len(Path)
        /\ \A i \in 1 .. Len(remote') : remote'[i] = Path[i]
    <3> DEFINE t == uplink \o hand
    <3>1. remote \in Seq(Nat) /\ t \in Seq(Nat) /\ n \in 0 .. Len(t)
      BY <1>t, <1>p DEF UpTypeOK
    <3>2. Path = remote \o t /\ remote' = remote \o SubSeq(t, 1, n)
      BY DEF Path
    <3> HIDE DEF t
    <3>3. /\ remote \o SubSeq(t, 1, n) \in Seq(Nat)
          /\ Len(remote \o SubSeq(t, 1, n)) = Len(remote) + n
          /\ Len(remote \o SubSeq(t, 1, n)) <= Len(remote \o t)
          /\ \A i \in 1 .. Len(remote) + n : (remote \o SubSeq(t, 1, n))[i] = (remote \o t)[i]
      BY <3>1, Prefix, Zenon
    <3> QED BY <3>2, <3>3, Zenon
  <2>2. Path' = remote'
    <3>1. Path' = remote' \o (<< >> \o << >>)
      BY <1>5 DEF StreamLost, Path
    <3>2. << >> \o << >> = << >> /\ << >> \in Seq(Nat)
      BY ConcatEmptySeq
    <3> QED BY <2>1, <3>1, <3>2, ConcatEmptySeq
  <2>3. published' = published /\ (queue' = queue \/ queue' = << >>)
    BY <1>5
  <2>4. UpTypeOK'
    <3> DEFINE R == [topic : Topics, id : Nat]
    <3>1. queue \in Seq(R) /\ published \in Nat
      BY <1>t DEF UpTypeOK
    <3>2. << >> \in Seq(R) /\ << >> \in Seq(Nat)
      OBVIOUS
    <3> HIDE DEF R
    <3>3. queue' \in Seq(R) /\ published' \in Nat
      BY <2>3, <3>1, <3>2
    <3>4. hand' = << >> /\ uplink' = << >>
      BY <1>5 DEF StreamLost
    <3>5. hand' \in Seq(Nat) /\ uplink' \in Seq(Nat)
      BY <3>2, <3>4
    <3> QED BY <2>1, <3>3, <3>4, <3>5 DEF UpTypeOK, R
  <2>5. Len(Path') \in Nat /\ \A i \in 1 .. Len(Path') : i \in 1 .. Len(Path) /\ Path'[i] = Path[i]
    <3>1. Len(remote') \in Nat /\ Len(Path) \in Nat
      BY <1>p, <2>1
    <3>2. \A i \in 1 .. Len(remote') : i \in 1 .. Len(Path)
      BY <2>1, <3>1
    <3> QED BY <2>1, <2>2, <3>1, <3>2
  <2> QED BY <2>3, <2>4, <2>5 DEF UpInv, Rising
<1>6. CASE RemotePublish \/ Connect \/ ConnAck \/ Subscribe \/ ReadRemote
           \/ Hang \/ Resume \/ Stall \/ BackoffOver \/ PauseOver \/ UNCHANGED vars
  <2>1. UNCHANGED up
    BY <1>6 DEF RemotePublish, Connect, ConnAck, Subscribe, ReadRemote, Hang, Resume, Stall, BackoffOver, PauseOver,
                vars, up
  <2>2. phase' # "writing" \/ phase' = phase
    BY <1>6 DEF RemotePublish, Connect, ConnAck, Subscribe, ReadRemote, Hang, Resume, Stall, BackoffOver, PauseOver,
                vars
  <2>3. phase # "writing" => phase' # "writing"
    BY <2>2
  <2>4. Path' = Path /\ published' = published /\ queue' = queue
    BY <2>1 DEF up, Path
  <2>5. UpTypeOK'
    <3>1. phase' # "writing" => hand = << >>
      BY <1>6, <1>t DEF RemotePublish, Connect, ConnAck, Subscribe, ReadRemote, Hang, Resume, Stall, BackoffOver,
                        PauseOver, vars, UpTypeOK
    <3> QED BY <1>t, <2>1, <3>1 DEF UpTypeOK, up
  <2> QED BY <2>4, <2>5, SamePath
<1> QED BY <1>1, <1>2, <1>3, <1>4, <1>5, <1>6 DEF Next, Fail, Panic, Unsent

\* What remote holds is a prefix of the path.
RemoteOK ==
  /\ remote \in Seq(Nat)
  /\ \A i, j \in DOMAIN remote : i < j => remote[i] < remote[j]
  /\ \A i \in DOMAIN remote : remote[i] \in 1 .. published

LEMMA RemoteIsPrefix == UpInv => RemoteOK
<1> SUFFICES ASSUME UpInv PROVE RemoteOK
  OBVIOUS
<1> DEFINE t == uplink \o hand
<1>1. remote \in Seq(Nat) /\ t \in Seq(Nat) /\ published \in Nat
  BY PathType DEF UpInv, UpTypeOK
<1>2. Path = remote \o t
  BY DEF Path
<1> HIDE DEF t
<1>3. /\ Len(remote) \in Nat /\ DOMAIN remote = 1 .. Len(remote)
      /\ \A i \in 1 .. Len(remote) : i \in 1 .. Len(Path) /\ Path[i] = remote[i] /\ remote[i] \in Nat
  BY <1>1, <1>2
<1>4. \A i, j \in 1 .. Len(remote) : i < j => remote[i] < remote[j]
  BY <1>3 DEF UpInv, Rising
<1>5. \A i \in 1 .. Len(remote) : remote[i] \in 1 .. published
  <2>1. \A i \in 1 .. Len(remote) : 1 <= remote[i] /\ remote[i] <= published
    BY <1>3 DEF UpInv
  <2> QED BY <1>1, <1>3, <2>1
<1> QED BY <1>1, <1>3, <1>4, <1>5 DEF RemoteOK

LEMMA Extends ==
  ASSUME NEW s \in Seq(Nat), NEW t \in Seq(Nat)
  PROVE  Len(s \o t) >= Len(s) /\ SubSeq(s \o t, 1, Len(s)) = s
OBVIOUS

\* Every step of the bridge is a step of the channel or changes nothing of it.
LEMMA UpStep == UpInv /\ RemoteOK' /\ [Next]_vars => [Up!Next]_(Up!vars)
<1> SUFFICES ASSUME UpInv, RemoteOK', [Next]_vars PROVE [Up!Next]_(Up!vars)
  OBVIOUS
<1>t. remote \in Seq(Nat) /\ uplink \in Seq(Nat) /\ uplink \o hand \in Seq(Nat)
  BY PathType DEF UpInv, UpTypeOK
<1>1. CASE \E from \in LocalClients, topic \in Topics : LocalPublish(from, topic)
  BY <1>1 DEF LocalPublish, Up!Next, Up!Publish
<1>2. CASE \E t \in Seq(Nat) : remote' = remote \o t /\ published' = published
  <2>1. Len(remote') >= Len(remote) /\ SubSeq(remote', 1, Len(remote)) = remote
    BY <1>t, <1>2, Extends
  <2>2. /\ \A i, j \in DOMAIN remote' : i < j => remote'[i] < remote'[j]
        /\ \A i \in DOMAIN remote' : remote'[i] \in 1 .. published'
    BY DEF RemoteOK
  <2> QED BY <1>2, <2>1, <2>2 DEF Up!Next, Up!Receive, Up!Increasing
<1>3. CASE RemoteReceive
  <2>1. Head(uplink) \in Nat /\ <<Head(uplink)>> \in Seq(Nat)
    BY <1>3, <1>t, HeadTailProperties DEF RemoteReceive
  <2>2. remote' = remote \o <<Head(uplink)>>
    BY <1>3, <1>t, <2>1, AppendIsConcat DEF RemoteReceive
  <2>3. published' = published
    BY <1>3 DEF RemoteReceive
  <2> QED BY <1>2, <2>1, <2>2, <2>3
<1>4. CASE StreamLost /\ published' = published
  <2>1. PICK n \in 0 .. Len(uplink \o hand) : remote' = remote \o SubSeq(uplink \o hand, 1, n)
    BY <1>4 DEF StreamLost
  <2>2. SubSeq(uplink \o hand, 1, n) \in Seq(Nat)
    BY <1>t
  <2>3. published' = published
    BY <1>4
  <2> QED BY <1>2, <2>1, <2>2, <2>3
<1>5. CASE RemotePublish \/ Connect \/ ConnAck \/ Subscribe \/ ReadRemote \/ TakeLocal
           \/ Written \/ Hang \/ Resume \/ Stall \/ BackoffOver \/ PauseOver \/ UNCHANGED vars
  BY <1>5 DEF RemotePublish, Connect, ConnAck, Subscribe, ReadRemote, TakeLocal, Written,
              Hang, Resume, Stall, BackoffOver, PauseOver, vars, up, Up!vars
<1> QED BY <1>1, <1>3, <1>4, <1>5 DEF Next, Fail, Panic

\* The remote broker gets the local messages in the order in which they were
\* published and none twice, whatever fails and however often
\* (connect_and_run_bridge under the retries of start_bridge_engine).
THEOREM BridgeForwardsInOrder == Spec => ForwardedInOrder
<1>1. Init => Up!Init
  BY DEF Init, Up!Init
<1> QED BY <1>1, UpInit, UpNext, RemoteIsPrefix, UpStep, PTL DEF Spec, ForwardedInOrder, Up!Spec

-----------------------------------------------------------------------------
(* The other direction.                                                    *)

\* What was routed came before what the network still holds.
DownInv ==
  /\ alerts \in Nat /\ routed \in Seq(Nat) /\ downlink \in Seq(Nat)
  /\ Rising(routed) /\ Rising(downlink)
  /\ \A i \in 1 .. Len(routed) : 1 <= routed[i] /\ routed[i] <= alerts
  /\ \A j \in 1 .. Len(downlink) : 1 <= downlink[j] /\ downlink[j] <= alerts
  /\ \A i \in 1 .. Len(routed), j \in 1 .. Len(downlink) : routed[i] < downlink[j]

\* The two parts of a sequence that is cut, and the first put behind another.
LEMMA Cut ==
  ASSUME NEW s \in Seq(Nat), NEW t \in Seq(Nat), NEW n \in 1 .. Len(t)
  PROVE  LET a == SubSeq(t, 1, n)  b == SubSeq(t, n + 1, Len(t)) IN
         /\ a \in Seq(Nat) /\ b \in Seq(Nat) /\ s \o a \in Seq(Nat)
         /\ Len(b) = Len(t) - n /\ \A j \in 1 .. Len(b) : b[j] = t[n + j]
         /\ Len(s \o a) = Len(s) + n
         /\ \A i \in 1 .. Len(s) + n :
              (s \o a)[i] = IF i <= Len(s) THEN s[i] ELSE t[i - Len(s)]
<1> DEFINE a == SubSeq(t, 1, n)
           b == SubSeq(t, n + 1, Len(t))
<1>1. a \in Seq(Nat) /\ Len(a) = n /\ \A i \in 1 .. n : a[i] = t[i]
  OBVIOUS
<1>2. b \in Seq(Nat) /\ Len(b) = Len(t) - n /\ \A j \in 1 .. Len(b) : b[j] = t[n + j]
  <2>1. b \in Seq(Nat) /\ Len(b) = Len(t) - n
    OBVIOUS
  <2>2. \A j \in 1 .. Len(t) - n : b[j] = t[n + j]
    OBVIOUS
  <2> QED BY <2>1, <2>2
<1> HIDE DEF a, b
<1>3. /\ s \o a \in Seq(Nat) /\ Len(s \o a) = Len(s) + n
      /\ \A i \in 1 .. Len(s) + n : (s \o a)[i] = IF i <= Len(s) THEN s[i] ELSE a[i - Len(s)]
  <2>1. /\ s \o a \in Seq(Nat) /\ Len(s \o a) = Len(s) + Len(a)
        /\ \A i \in 1 .. Len(s) + Len(a) :
             (s \o a)[i] = IF i <= Len(s) THEN s[i] ELSE a[i - Len(s)]
    BY <1>1, ConcatProperties
  <2> QED BY <1>1, <2>1
<1>4. \A i \in 1 .. Len(s) + n : i > Len(s) => a[i - Len(s)] = t[i - Len(s)]
  BY <1>1
<1>5. ASSUME NEW i \in 1 .. Len(s) + n
      PROVE  (s \o a)[i] = IF i <= Len(s) THEN s[i] ELSE t[i - Len(s)]
  <2> DEFINE x == (s \o a)[i]
  <2>1. x = IF i <= Len(s) THEN s[i] ELSE a[i - Len(s)]
    BY <1>3
  <2>2. i > Len(s) => a[i - Len(s)] = t[i - Len(s)]
    BY <1>4
  <2>3. i \in Int /\ Len(s) \in Int
    OBVIOUS
  <2> HIDE DEF x
  <2>4. x = IF i <= Len(s) THEN s[i] ELSE t[i - Len(s)]
    BY <2>1, <2>2, <2>3
  <2> QED BY <2>4 DEF x
<1> QED BY <1>1, <1>2, <1>3, <1>5 DEF a, b

LEMMA DownRead == DownInv /\ ReadRemote => DownInv'
<1> SUFFICES ASSUME DownInv, ReadRemote PROVE DownInv'
  OBVIOUS
<1>1. PICK n \in 1 .. Len(downlink) :
        /\ routed' = routed \o SubSeq(downlink, 1, n)
        /\ downlink' = SubSeq(downlink, n + 1, Len(downlink))
  BY DEF ReadRemote
<1>2. alerts' = alerts
  BY DEF ReadRemote
<1>3. /\ Len(routed) \in Nat /\ Len(downlink) \in Nat /\ alerts \in Nat
      /\ \A i \in 1 .. Len(routed) : routed[i] \in Nat
      /\ \A j \in 1 .. Len(downlink) : downlink[j] \in Nat
  BY DEF DownInv
<1>4. /\ routed' \in Seq(Nat) /\ downlink' \in Seq(Nat)
      /\ Len(downlink') = Len(downlink) - n
      /\ \A j \in 1 .. Len(downlink') : downlink'[j] = downlink[n + j]
      /\ Len(routed') = Len(routed) + n
      /\ \A i \in 1 .. Len(routed') :
           routed'[i] = IF i <= Len(routed) THEN routed[i] ELSE downlink[i - Len(routed)]
  BY <1>1, Cut DEF DownInv
<1>5. /\ \A j \in 1 .. Len(downlink') : n + j \in 1 .. Len(downlink)
      /\ \A i \in 1 .. Len(routed') :
           \/ i \in 1 .. Len(routed) /\ routed'[i] = routed[i]
           \/ i > Len(routed) /\ i - Len(routed) \in 1 .. n
              /\ i - Len(routed) \in 1 .. Len(downlink)
              /\ routed'[i] = downlink[i - Len(routed)]
  BY <1>3, <1>4, SMTT(30)
<1>6. Rising(downlink)'
  <2> SUFFICES ASSUME NEW i \in 1 .. Len(downlink'), NEW j \in 1 .. Len(downlink'), i < j
               PROVE  downlink'[i] < downlink'[j]
    BY DEF Rising
  <2>1. n + i \in 1 .. Len(downlink) /\ n + j \in 1 .. Len(downlink) /\ n + i < n + j
    BY <1>3, <1>4, <1>5
  <2> QED BY <1>4, <2>1 DEF DownInv, Rising
<1>7. Rising(routed)'
  <2> SUFFICES ASSUME NEW i \in 1 .. Len(routed'), NEW j \in 1 .. Len(routed'), i < j
               PROVE  routed'[i] < routed'[j]
    BY DEF Rising
  <2>1. CASE j \in 1 .. Len(routed)
    <3>1. i \in 1 .. Len(routed) /\ routed'[i] = routed[i] /\ routed'[j] = routed[j]
      BY <1>3, <1>4, <2>1
    <3> QED BY <2>1, <3>1 DEF DownInv, Rising
  <2>2. CASE i \in 1 .. Len(routed) /\ j > Len(routed)
    <3> DEFINE l == j - Len(routed)
    <3>1. l \in 1 .. Len(downlink) /\ routed'[j] = downlink[l]
      BY <1>3, <1>5, <2>2
    <3>2. routed'[i] = routed[i]
      BY <1>3, <1>5, <2>2
    <3> HIDE DEF l
    <3> QED BY <2>2, <3>1, <3>2 DEF DownInv
  <2>3. CASE i > Len(routed) /\ j > Len(routed)
    <3> DEFINE k == i - Len(routed)
               l == j - Len(routed)
    <3>1. k \in 1 .. Len(downlink) /\ routed'[i] = downlink[k]
      BY <1>3, <1>5, <2>3
    <3>2. l \in 1 .. Len(downlink) /\ routed'[j] = downlink[l]
      BY <1>3, <1>5, <2>3
    <3>3. k < l
      BY <1>3, <1>4
    <3> HIDE DEF k, l
    <3> QED BY <3>1, <3>2, <3>3 DEF DownInv, Rising
  <2> QED BY <1>3, <1>4, <2>1, <2>2, <2>3
<1>8. \A i \in 1 .. Len(routed') : 1 <= routed'[i] /\ routed'[i] <= alerts'
  BY <1>2, <1>3, <1>5 DEF DownInv
<1>9. \A j \in 1 .. Len(downlink') : 1 <= downlink'[j] /\ downlink'[j] <= alerts'
  BY <1>2, <1>4, <1>5 DEF DownInv
<1>10. \A i \in 1 .. Len(routed'), j \in 1 .. Len(downlink') : routed'[i] < downlink'[j]
  <2> TAKE i \in 1 .. Len(routed'), j \in 1 .. Len(downlink')
  <2>1. n + j \in 1 .. Len(downlink) /\ downlink'[j] = downlink[n + j]
    BY <1>4, <1>5
  <2>2. CASE i \in 1 .. Len(routed) /\ routed'[i] = routed[i]
    BY <2>1, <2>2 DEF DownInv
  <2>3. CASE i - Len(routed) \in 1 .. n /\ i - Len(routed) \in 1 .. Len(downlink)
             /\ routed'[i] = downlink[i - Len(routed)]
    <3> DEFINE k == i - Len(routed)
    <3>1. k \in 1 .. Len(downlink) /\ k < n + j /\ routed'[i] = downlink[k]
      BY <1>3, <1>4, <2>3
    <3> HIDE DEF k
    <3> QED BY <2>1, <3>1 DEF DownInv, Rising
  <2> QED BY <1>5, <2>2, <2>3
<1> QED BY <1>2, <1>3, <1>4, <1>6, <1>7, <1>8, <1>9, <1>10 DEF DownInv

\* A new message goes behind all the others; a failure empties the network.
LEMMA DownNext == DownInv /\ [Next]_vars => DownInv'
<1> SUFFICES ASSUME DownInv, [Next]_vars PROVE DownInv'
  OBVIOUS
<1>1. CASE RemotePublish
  <2>1. /\ alerts \in Nat /\ alerts' = alerts + 1 /\ routed' = routed
        /\ downlink' = downlink \/ downlink' = Append(downlink, alerts + 1)
    BY <1>1 DEF RemotePublish, DownInv
  <2>2. /\ Len(routed) \in Nat /\ \A i \in 1 .. Len(routed) : routed[i] \in Nat
        /\ Len(downlink) \in Nat /\ \A j \in 1 .. Len(downlink) : downlink[j] \in Nat
    BY DEF DownInv
  <2>3. CASE downlink' = downlink
    BY <2>1, <2>2, <2>3 DEF DownInv, Rising
  <2>4. CASE downlink' = Append(downlink, alerts + 1)
    <3>1. alerts + 1 \in Nat /\ \A j \in 1 .. Len(downlink) : 1 <= downlink[j] /\ downlink[j] < alerts + 1
      BY <2>1, <2>2 DEF DownInv
    <3>2. /\ downlink' \in Seq(Nat) /\ Rising(downlink')
          /\ \A j \in 1 .. Len(downlink') :
               \/ j \in 1 .. Len(downlink) /\ downlink'[j] = downlink[j]
               \/ downlink'[j] = alerts + 1
      BY <2>4, <3>1, PathGrows DEF DownInv
    <3>3. \A j \in 1 .. Len(downlink') : 1 <= downlink'[j] /\ downlink'[j] <= alerts'
      BY <2>1, <2>2, <3>1, <3>2, SMTT(30)
    <3>4. \A i \in 1 .. Len(routed) : 1 <= routed[i] /\ routed[i] < alerts + 1
      BY <2>1, <2>2 DEF DownInv
    <3>5. \A i \in 1 .. Len(routed), j \in 1 .. Len(downlink') : routed[i] < downlink'[j]
      BY <3>2, <3>4 DEF DownInv
    <3>6. \A i \in 1 .. Len(routed) : 1 <= routed[i] /\ routed[i] <= alerts'
      BY <2>1, <2>2, <3>4
    <3> QED BY <2>1, <3>2, <3>3, <3>5, <3>6 DEF DownInv, Rising
  <2> QED BY <2>1, <2>3, <2>4
<1>2. CASE ReadRemote
  BY <1>2, DownRead
<1>3. CASE Fail \/ Panic
  <2>1. alerts' = alerts /\ routed' = routed /\ downlink' = << >>
    BY <1>3 DEF Fail, Panic, StreamLost
  <2>2. downlink' \in Seq(Nat) /\ Len(downlink') = 0
    BY <2>1
  <2>3. alerts' \in Nat /\ routed' \in Seq(Nat)
    BY <2>1 DEF DownInv
  <2> QED BY <2>1, <2>2, <2>3 DEF DownInv, Rising
<1>4. CASE \/ \E from \in LocalClients, topic \in Topics : LocalPublish(from, topic)
           \/ RemoteReceive \/ Connect \/ ConnAck \/ Subscribe \/ TakeLocal \/ Written
           \/ Hang \/ Resume \/ Stall \/ BackoffOver \/ PauseOver \/ UNCHANGED vars
  <2>1. UNCHANGED down
    BY <1>4 DEF LocalPublish, RemoteReceive, Connect, ConnAck, Subscribe, TakeLocal, Written,
                Hang, Resume, Stall, BackoffOver, PauseOver, vars
  <2> QED BY <2>1 DEF down, DownInv, Rising
<1> QED BY <1>1, <1>2, <1>3, <1>4 DEF Next

LEMMA DownStep == DownInv /\ DownInv' /\ [Next]_vars => [Down!Next]_(Down!vars)
<1> SUFFICES ASSUME DownInv, DownInv', [Next]_vars PROVE [Down!Next]_(Down!vars)
  OBVIOUS
<1>1. CASE RemotePublish
  BY <1>1 DEF RemotePublish, Down!Next, Down!Publish
<1>2. CASE ReadRemote
  <2>1. PICK n \in 1 .. Len(downlink) : routed' = routed \o SubSeq(downlink, 1, n)
    BY <1>2 DEF ReadRemote
  <2>2. routed \in Seq(Nat) /\ SubSeq(downlink, 1, n) \in Seq(Nat)
    BY DEF DownInv
  <2>3. Len(routed') >= Len(routed) /\ SubSeq(routed', 1, Len(routed)) = routed
    BY <2>1, <2>2, Extends
  <2>4. alerts' = alerts /\ alerts \in Nat
    BY <1>2 DEF ReadRemote, DownInv
  <2>5. Len(routed') \in Nat /\ DOMAIN routed' = 1 .. Len(routed')
        /\ \A i \in 1 .. Len(routed') : routed'[i] \in Nat
    BY SMTT(30) DEF DownInv
  <2>6. /\ \A i, j \in DOMAIN routed' : i < j => routed'[i] < routed'[j]
        /\ \A i \in DOMAIN routed' : routed'[i] \in 1 .. alerts
    BY <2>4, <2>5 DEF DownInv, Rising
  <2> QED BY <2>3, <2>4, <2>6 DEF Down!Next, Down!Receive, Down!Increasing
<1>3. CASE \/ \E from \in LocalClients, topic \in Topics : LocalPublish(from, topic)
           \/ RemoteReceive \/ Connect \/ ConnAck \/ Subscribe \/ TakeLocal \/ Written \/ Fail \/ Panic
           \/ Hang \/ Resume \/ Stall \/ BackoffOver \/ PauseOver \/ UNCHANGED vars
  BY <1>3 DEF LocalPublish, RemoteReceive, Connect, ConnAck, Subscribe, TakeLocal, Written,
              Fail, Panic, StreamLost, Hang, Resume, Stall, BackoffOver, PauseOver, vars, down, Down!vars
<1> QED BY <1>1, <1>2, <1>3 DEF Next

\* The messages of the remote broker are routed in the order in which they
\* were published there and none twice, whatever fails and however often
\* (the first branch of select in connect_and_run_bridge).
THEOREM BridgeRoutesInOrder == Spec => RoutedInOrder
<1>1. Init => DownInv /\ Down!Init
  BY DEF Init, DownInv, Rising, Down!Init
<1> QED BY <1>1, DownNext, DownStep, PTL DEF Spec, RoutedInOrder, Down!Spec

-----------------------------------------------------------------------------
(* Types.                                                                  *)

\* What of TypeOK the two invariants do not say: the network is empty
\* whenever there is no connection, and a message is in hand exactly while
\* it is written.
PhaseInv ==
  /\ phase \in {"start", "waiting", "subscribing", "running", "writing", "backoff", "pause", "ended"}
  /\ backoff \in {5, 10, 20, 40, 60}
  /\ failures \in 0 .. MaxFailures
  /\ published \in 0 .. MaxLocal /\ alerts \in 0 .. MaxRemote
  /\ hand # << >> <=> phase = "writing"
  /\ uplink # << >> \/ downlink # << >> => phase \in {"running", "writing"}
  /\ stuck \subseteq {"await", "read"}
  /\ "read" \in stuck => phase \in {"running", "writing"}
  /\ "await" \in stuck => phase \in {"start", "subscribing", "running", "writing"}
  /\ phase = "ended" => queue = << >>

LEMMA PhaseNext == UpInv /\ DownInv /\ PhaseInv /\ [Next]_vars => PhaseInv'
<1> SUFFICES ASSUME UpInv, DownInv, PhaseInv, [Next]_vars PROVE PhaseInv'
  OBVIOUS
<1>0. /\ MaxLocal \in Nat /\ MaxRemote \in Nat /\ MaxFailures \in Nat
      /\ uplink \in Seq(Nat) /\ downlink \in Seq(Nat) /\ hand \in Seq(Nat)
  BY BridgeAssumption DEF UpInv, UpTypeOK, DownInv
<1>1. CASE \E from \in LocalClients, topic \in Topics : LocalPublish(from, topic)
  BY <1>0, <1>1 DEF LocalPublish, PhaseInv, attempt, down
<1>2. CASE RemotePublish
  BY <1>0, <1>2 DEF RemotePublish, PhaseInv, attempt, up
<1>3. CASE RemoteReceive
  BY <1>0, <1>3 DEF RemoteReceive, PhaseInv, attempt, down
<1>4. CASE Connect \/ ConnAck \/ Subscribe \/ PauseOver
  BY <1>4 DEF Connect, ConnAck, Subscribe, PauseOver, Awaits, PhaseInv, attempt, up, down
<1>5. CASE ReadRemote
  <2>1. downlink # << >> /\ phase = "running"
    BY <1>0, <1>5 DEF ReadRemote
  <2> QED BY <1>5, <2>1 DEF ReadRemote, PhaseInv, attempt, up
<1>6. CASE TakeLocal
  <2>1. <<Head(queue).id>> # << >>
    OBVIOUS
  <2> QED BY <1>6, <2>1 DEF TakeLocal, Awaits, PhaseInv, attempt, down
<1>7. CASE Written
  BY <1>7 DEF Written, Awaits, PhaseInv, attempt, down
<1>8. CASE Fail \/ Panic
  <2>1. /\ hand' = << >> /\ uplink' = << >> /\ downlink' = << >> /\ stuck' = {}
        /\ backoff' = backoff /\ published' = published /\ alerts' = alerts
        /\ failures < MaxFailures /\ failures' = failures + 1
    BY <1>8 DEF Fail, Panic, StreamLost, GoesWrong
  <2>2. phase' = "backoff" \/ (phase' = "ended" /\ queue' = << >>)
    BY <1>8 DEF Fail, Panic
  <2>3. failures' \in 0 .. MaxFailures
    BY <1>0, <2>1 DEF PhaseInv
  <2> QED BY <2>1, <2>2, <2>3 DEF PhaseInv
<1>11. CASE Hang \/ Resume \/ Stall
  <2>1. UNCHANGED <<phase, backoff, up, down>> /\ failures' \in 0 .. MaxFailures
    BY <1>0, <1>11 DEF Hang, Resume, Stall, GoesWrong, PhaseInv
  <2>2. /\ stuck' \subseteq {"await", "read"}
        /\ "read" \in stuck' => phase \in {"running", "writing"}
        /\ "await" \in stuck' => phase \in {"start", "subscribing", "running", "writing"}
    <3>1. CASE Hang
      BY <3>1 DEF Hang, PhaseInv
    <3>2. CASE Resume
      BY <3>2 DEF Resume, PhaseInv
    <3>3. CASE Stall
      BY <3>3 DEF Stall, PhaseInv
    <3> QED BY <1>11, <3>1, <3>2, <3>3
  <2> QED BY <2>1, <2>2 DEF PhaseInv, up, down
<1>9. CASE BackoffOver
  <2>1. Doubled(backoff) \in {5, 10, 20, 40, 60}
    BY DEF Doubled, PhaseInv
  <2> QED BY <1>9, <2>1 DEF BackoffOver, PhaseInv, up, down
<1>10. CASE UNCHANGED vars
  BY <1>10 DEF PhaseInv, vars, attempt, up, down
<1> QED BY <1>1, <1>2, <1>3, <1>4, <1>5, <1>6, <1>7, <1>8, <1>9, <1>10, <1>11 DEF Next

\* The elements of a sequence are those of its range.
LEMMA Elements ==
  ASSUME NEW S, NEW s \in Seq(S), NEW T, \A i \in 1 .. Len(s) : s[i] \in T
  PROVE  ToSet(s) \subseteq T
BY DEF ToSet

\* What holds of all elements of s \o t holds of those of s and of t.
LEMMA BothParts ==
  ASSUME NEW s \in Seq(Nat), NEW t \in Seq(Nat), NEW T,
         \A i \in 1 .. Len(s \o t) : (s \o t)[i] \in T
  PROVE  /\ \A i \in 1 .. Len(s) : s[i] \in T
         /\ \A i \in 1 .. Len(t) : t[i] \in T
<1>1. PICK p : p = s \o t
  OBVIOUS
<1>2. /\ Len(p) = Len(s) + Len(t)
      /\ \A i \in 1 .. Len(s) + Len(t) : p[i] = IF i <= Len(s) THEN s[i] ELSE t[i - Len(s)]
  BY <1>1, ConcatProperties, Zenon
<1>3. Len(s) \in Nat /\ Len(t) \in Nat
  OBVIOUS
<1>4. ASSUME NEW i \in 1 .. Len(s) PROVE s[i] \in T
  <2>1. i \in 1 .. Len(p) /\ p[i] = s[i]
    BY <1>2, <1>3
  <2> QED BY <1>1, <2>1
<1>5. ASSUME NEW i \in 1 .. Len(t) PROVE t[i] \in T
  <2>1. PICK j : j = i + Len(s)
    OBVIOUS
  <2>2. j \in 1 .. Len(s) + Len(t) /\ ~ (j <= Len(s)) /\ j - Len(s) = i
    BY <1>3, <2>1
  <2>3. p[j] = t[i] /\ j \in 1 .. Len(p)
    BY <1>2, <2>2
  <2> QED BY <1>1, <2>3
<1> QED BY <1>4, <1>5

LEMMA TypesFollow == UpInv /\ DownInv /\ PhaseInv => TypeOK
<1> SUFFICES ASSUME UpInv, DownInv, PhaseInv PROVE TypeOK
  OBVIOUS
<1>1. /\ published \in Nat /\ alerts \in Nat
      /\ remote \in Seq(Nat) /\ uplink \in Seq(Nat) /\ hand \in Seq(Nat)
      /\ routed \in Seq(Nat) /\ downlink \in Seq(Nat)
  BY DEF UpInv, UpTypeOK, DownInv
<1>2. \A i \in 1 .. Len(Path) : Path[i] \in 1 .. published
  <2>1. Path \in Seq(Nat)
    BY PathType DEF UpInv
  <2>2. \A i \in 1 .. Len(Path) : Path[i] \in Nat
    BY <2>1
  <2> QED BY <1>1, <2>2 DEF UpInv
<1>3. /\ \A i \in 1 .. Len(remote) : remote[i] \in 1 .. published
      /\ \A i \in 1 .. Len(uplink) : uplink[i] \in 1 .. published
      /\ \A i \in 1 .. Len(hand) : hand[i] \in 1 .. published
  <2>1. /\ uplink \o hand \in Seq(Nat) /\ Path = remote \o (uplink \o hand)
    BY PathType DEF UpInv, Path
  <2>2. PICK t : t = uplink \o hand
    OBVIOUS
  <2>3. t \in Seq(Nat) /\ Path = remote \o t
    BY <2>1, <2>2
  <2>4. /\ \A i \in 1 .. Len(remote) : remote[i] \in 1 .. published
        /\ \A i \in 1 .. Len(t) : t[i] \in 1 .. published
    BY <1>1, <1>2, <2>3, BothParts
  <2> QED BY <1>1, <2>2, <2>4, BothParts, ZenonT(60)
<1>4. \A i \in 1 .. Len(queue) : queue[i] \in [topic : Topics, id : 1 .. published]
  <2> DEFINE R == [topic : Topics, id : Nat]
  <2>1. queue \in Seq(R)
    BY DEF UpInv, UpTypeOK
  <2> SUFFICES ASSUME NEW i \in 1 .. Len(queue)
               PROVE  queue[i] \in [topic : Topics, id : 1 .. published]
    OBVIOUS
  <2>2. queue[i] \in R
    BY <2>1, ElementOfSeq
  <2>3. 1 <= queue[i].id /\ queue[i].id <= published
    BY DEF UpInv
  <2> QED BY <1>1, <2>2, <2>3
<1>5. ToSet(queue) \subseteq [topic : Topics, id : 1 .. published]
  <2>1. queue \in Seq([topic : Topics, id : Nat])
    BY DEF UpInv, UpTypeOK
  <2> QED BY <1>4, <2>1, Elements, Zenon
<1>6. ToSet(uplink) \subseteq 1 .. published /\ ToSet(remote) \subseteq 1 .. published
  BY <1>1, <1>3, Elements
<1>7. ToSet(downlink) \subseteq 1 .. alerts /\ ToSet(routed) \subseteq 1 .. alerts
  <2>1. /\ \A i \in 1 .. Len(downlink) : downlink[i] \in Nat
        /\ \A i \in 1 .. Len(routed) : routed[i] \in Nat
    BY <1>1
  <2>2. /\ \A i \in 1 .. Len(downlink) : downlink[i] \in 1 .. alerts
        /\ \A i \in 1 .. Len(routed) : routed[i] \in 1 .. alerts
    BY <1>1, <2>1 DEF DownInv
  <2> QED BY <1>1, <2>2, Elements
<1>8. hand \in [1 .. Len(hand) -> 1 .. published]
  BY <1>1, <1>3
<1> QED BY <1>5, <1>6, <1>7, <1>8 DEF TypeOK, PhaseInv

\* Nothing is in the queue, in hand or on the way that was not published; a
\* message is in hand only while it is written, and nothing is on the way
\* without a connection (connect_and_run_bridge).
THEOREM BridgeTypeCorrect == Spec => []TypeOK
<1>1. Init => DownInv /\ PhaseInv
  BY BridgeAssumption DEF Init, DownInv, Rising, PhaseInv
<1> QED BY <1>1, UpInit, UpNext, DownNext, PhaseNext, TypesFollow, PTL DEF Spec
=============================================================================
