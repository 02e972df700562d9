-------------------------- MODULE ConnectionProofs --------------------------
(***************************************************************************)
(* One connection, for every script, every transport and every way the     *)
(* network cuts the bytes into pieces: what reaches the client, and what   *)
(* is made of what it sends.  (CodecProofs has what the codec makes of one *)
(* packet, RouterLemmas the induction that the recursive functions need.)  *)
(***************************************************************************)
EXTENDS ConnectionProperties, CodecProofs

-----------------------------------------------------------------------------
(* The way out.                                                            *)

\* What was given to the channel and is not on the wire yet, in its order.
Path == IF transport = "ws" THEN sink \o (write_buffer \o queue) ELSE hand \o queue

Over(T) ==
  /\ queue \in Seq(T) /\ hand \in Seq(T) /\ write_buffer \in Seq(T)
  /\ sink \in Seq(T) /\ wire \in Seq(T) /\ sent \in Seq(T)

Gone == {"closed", "aborted"}
Early == {"connect", "dropped", "refused"}

Flow ==
  /\ transport # "ws" => write_buffer = << >> /\ sink = << >>
  /\ transport = "ws" => hand = << >> /\ writer # "write"
  /\ writer # "write" => hand = << >>
  /\ writer = "write" => Len(hand) = 1
  /\ writer = "aborted" => pc = "ended"
  /\ pc = "ended" => writer \in Gone
  /\ pc \in Early => writer = "idle" /\ queue = << >> /\ write_buffer = << >> /\ sink = << >>
  /\ pc \in {"connect", "dropped"} => sent = << >> /\ wire = << >>
  /\ pc # "refused" /\ writer \notin Gone => wire \o Path = sent
  /\ IsPrefix(wire, sent)

OutInv == (\E T : Over(T)) /\ Flow

LEMMA InitOut == Init => OutInv
<1> SUFFICES ASSUME Init PROVE OutInv
  OBVIOUS
<1>1. << >> \in Seq({}) /\ << >> \o << >> = << >> /\ IsPrefix(<< >>, << >>)
  BY DEF IsPrefix
<1>2. Over({})
  BY <1>1 DEF Init, Over
<1>3. wire \o Path = sent
  BY <1>1 DEF Init, Path
<1>4. Flow
  BY <1>1, <1>3 DEF Init, Flow, Gone, Early
<1> QED BY <1>2, <1>4 DEF OutInv

LEMMA WiderOver == ASSUME NEW T, NEW U, Over(T) PROVE Over(T \cup U)
BY SeqMonotonic DEF Over

\* A message joins the channel at its end, and the path too.
LEMMA SendOut ==
  ASSUME OutInv, NEW U, NEW m \in Seq(U), Send(m), pc \notin Early \cup {"ended"},
         pc' \notin Early \cup {"ended"}, UNCHANGED <<transport, hand, writer, write_buffer, sink, wire>>
  PROVE  OutInv'
<1>1. PICK S : Over(S)
  BY DEF OutInv
<1>2. PICK T : T = S \cup U
  OBVIOUS
<1>3. Over(T) /\ m \in Seq(T) /\ Flow
  BY <1>1, <1>2, WiderOver, SeqMonotonic DEF OutInv
<1>t. /\ queue \in Seq(T) /\ hand \in Seq(T) /\ write_buffer \in Seq(T)
      /\ sink \in Seq(T) /\ wire \in Seq(T) /\ sent \in Seq(T) /\ m \in Seq(T)
  BY <1>3 DEF Over
<1>4. sent' = sent \o m /\ queue' = IF writer \in Gone THEN queue ELSE queue \o m
  BY DEF Send, Gone
<1>5. Over(T)'
  BY <1>3, <1>4, ConcatProperties DEF Over
<1>6. IsPrefix(wire', sent')
  BY <1>3, <1>4, PrefixOfConcat DEF Over, Flow
<1>7. ASSUME writer \notin Gone PROVE wire' \o Path' = sent'
  <2>1. wire \o Path = sent /\ queue' = queue \o m
    BY <1>3, <1>4, <1>7 DEF Flow, Early
  <2>2. Path \in Seq(T) /\ Path' = Path \o m
    <3>1. CASE transport = "ws"
      <4>1. PICK wq : wq = write_buffer \o queue /\ wq \in Seq(T)
        BY <1>t, ConcatProperties
      <4>2. Assoc(T, write_buffer, queue, m) /\ Assoc(T, sink, wq, m)
        BY <1>t, <4>1, Joined, Zenon
      <4>4. Path = sink \o wq /\ Path' = sink \o (write_buffer \o (queue \o m))
        BY <2>1, <3>1, <4>1 DEF Path
      <4> QED BY <4>1, <4>2, <4>4 DEF Assoc
    <3>2. CASE transport # "ws"
      <4>1. Path = hand \o queue /\ Path' = hand \o (queue \o m)
        BY <2>1, <3>2 DEF Path
      <4>2. Assoc(T, hand, queue, m)
        BY <1>t, Joined, Zenon
      <4> QED BY <4>1, <4>2 DEF Assoc
    <3> QED BY <3>1, <3>2
  <2>3. Assoc(T, wire, Path, m)
    BY <1>t, <2>2, Joined, Zenon
  <2> QED BY <1>4, <2>1, <2>2, <2>3 DEF Assoc
<1>8. Flow'
  BY <1>3, <1>6, <1>7 DEF Flow, Early, Gone
<1> QED BY <1>5, <1>8 DEF OutInv

\* The reader goes on without sending.
LEMMA ReaderOut ==
  ASSUME OutInv, UNCHANGED <<transport, writing, sent>>, pc' # "ended",
         pc' \in Early => (pc \in {"connect", "dropped"} /\ pc' = "dropped") \/ pc' = pc,
         pc \in Early \cup {"ended"} => pc' \in {pc, "dropped"} \/ (pc = "connect" /\ pc' = "registered")
  PROVE  OutInv'
<1>0. UNCHANGED <<transport, queue, hand, writer, write_buffer, sink, wire, sent>>
  BY DEF writing
<1>1. PICK T : Over(T)
  BY DEF OutInv
<1>2. Over(T)' /\ Path' = Path
  BY <1>0, <1>1 DEF Over, Path
<1>3. Flow'
  <2>1. pc = "ended" \/ writer # "aborted"
    BY DEF OutInv, Flow
  <2>2. pc # "ended"
    BY DEF Early
  <2> QED BY <1>0, <1>2, <2>1, <2>2 DEF OutInv, Flow, Early
<1> QED BY <1>2, <1>3 DEF OutInv

\* What is not on the wire is lost.
LEMMA LostOut ==
  ASSUME OutInv, pc \notin Early,
         queue' = << >>, hand' = << >>, write_buffer' = << >>, sink' = << >>,
         UNCHANGED <<transport, wire, sent>>,
         \/ pc' = "ended" /\ writer' \in Gone
         \/ pc' = pc /\ writer' = "closed"
  PROVE  OutInv'
<1>1. PICK T : Over(T)
  BY DEF OutInv
<1>2. Over(T)'
  <2>1. << >> \in Seq(T)
    OBVIOUS
  <2> QED BY <1>1, <2>1 DEF Over
<1>3. Flow'
  BY DEF OutInv, Flow, Early, Gone
<1> QED BY <1>2, <1>3 DEF OutInv

\* The first packet: nothing is sent yet, or the refusal and nothing else.
LEMMA FirstOut == ASSUME OutInv, FirstRead PROVE OutInv'
<1>0. /\ pc = "connect" /\ sent = << >> /\ wire = << >>
      /\ UNCHANGED <<transport, queue, hand, writer, write_buffer, sink>>
  BY DEF FirstRead, OutInv, Flow
<1>1. CASE UNCHANGED <<wire, sent>> /\ pc' \in {"dropped", "registered"}
  <2>1. UNCHANGED <<transport, writing, sent>>
    BY <1>0, <1>1 DEF writing
  <2> QED BY <1>0, <1>1, <2>1, ReaderOut DEF Early
<1>2. ASSUME pc' = "refused", NEW a, sent' = <<a>>, wire' = sent' \/ wire' = << >> PROVE OutInv'
  <2>1. PICK T : Over(T)
    BY DEF OutInv
  <2>2. PICK U : U = T \cup {a}
    OBVIOUS
  <2>3. Over(U)
    BY <2>1, <2>2, WiderOver
  <2>4. sent' \in Seq(U) /\ wire' \in Seq(U) /\ IsPrefix(wire', sent')
    <3>1. <<a>> \in Seq(U) /\ << >> \in Seq(U)
      BY <2>2
    <3>2. IsPrefix(<<a>>, <<a>>) /\ IsPrefix(<< >>, <<a>>)
      BY DEF IsPrefix
    <3> QED BY <1>2, <3>1, <3>2
  <2>5. Over(U)'
    BY <1>0, <2>3, <2>4 DEF Over
  <2>6. Flow'
    BY <1>0, <1>2, <2>4 DEF OutInv, Flow, Early, Gone
  <2> QED BY <2>5, <2>6 DEF OutInv
<1> QED BY <1>1, <1>2 DEF FirstRead

\* The writer task passes on what is in front.
LEMMA WriterOut ==
  ASSUME OutInv, TakeMessage \/ SocketWrite \/ Flush \/ AnswerPing
  PROVE  OutInv'
<1>1. PICK T : Over(T)
  BY DEF OutInv
<1>t. /\ queue \in Seq(T) /\ hand \in Seq(T) /\ write_buffer \in Seq(T)
      /\ sink \in Seq(T) /\ wire \in Seq(T) /\ sent \in Seq(T)
  BY <1>1 DEF Over
<1>e. \A s \in Seq(T) : s \o << >> = s /\ << >> \o s = s
  BY ConcatEmptySeq
<1>2. UNCHANGED <<transport, pc, sent>>
  BY DEF TakeMessage, SocketWrite, Flush, AnswerPing, reading
\* What is left to show when the path still leads to what was sent.
<1>3. ASSUME Over(T)', wire' \o Path' = sent, Path' \in Seq(T), writer' \notin Gone, pc \notin Early,
             transport # "ws" => write_buffer' = << >> /\ sink' = << >>,
             transport = "ws" => hand' = << >> /\ writer' # "write",
             writer' # "write" => hand' = << >>,
             writer' = "write" => Len(hand') = 1, pc # "ended"
      PROVE  OutInv'
  <2>1. IsPrefix(wire', sent')
    BY <1>2, <1>3, PrefixOfConcat DEF Over
  <2>2. Flow'
    BY <1>2, <1>3, <2>1 DEF Flow, Gone, Early
  <2> QED BY <1>3, <2>2 DEF OutInv
<1>4. CASE TakeMessage
  <2>1. PICK h, q, o : h = Head(queue) /\ q = Tail(queue) /\ o = <<h>>
    OBVIOUS
  <2>2. q \in Seq(T) /\ o \in Seq(T) /\ o \o q = queue /\ h \in T
    BY <1>4, <1>t, <2>1, MoveFirst DEF TakeMessage
  <2>3. /\ writer = "idle" /\ pc \notin Early /\ pc # "ended" /\ wire \o Path = sent
        /\ UNCHANGED <<sink, wire>> /\ queue' = q
    BY <1>4, <2>1 DEF TakeMessage, Registered, OutInv, Flow, Gone, Early
  <2>4. CASE transport = "ws"
    <3>1. write_buffer' = write_buffer \o o /\ writer' = "flush" /\ hand' = hand /\ hand = << >>
      <4>1. write_buffer' = Append(write_buffer, h) /\ writer' = "flush" /\ hand' = hand /\ hand = << >>
        BY <1>4, <2>1, <2>4 DEF TakeMessage, OutInv, Flow
      <4>2. Append(write_buffer, h) = write_buffer \o o
        BY <1>t, <2>1, <2>2, AppendIsConcat
      <4> QED BY <4>1, <4>2
    <3>2. Assoc(T, write_buffer, o, q)
      BY <1>t, <2>2, Joined, Zenon
    <3>3. Path = sink \o (write_buffer \o queue) /\ Path' = sink \o ((write_buffer \o o) \o q)
      BY <1>2, <2>3, <2>4, <3>1 DEF Path
    <3>4. Path' = Path /\ write_buffer' \in Seq(T)
      BY <2>2, <3>1, <3>2, <3>3 DEF Assoc
    <3>5. Path \in Seq(T)
      <4>1. write_buffer \o queue \in Seq(T)
        BY <1>t, ConcatProperties
      <4> QED BY <1>t, <3>3, <4>1, ConcatProperties
    <3>6. Over(T)'
      BY <1>2, <1>t, <2>2, <2>3, <3>1, <3>4 DEF Over
    <3> QED BY <1>3, <2>3, <2>4, <3>1, <3>4, <3>5, <3>6 DEF Gone
  <2>5. CASE transport # "ws"
    <3>1. hand' = o /\ writer' = "write" /\ write_buffer' = write_buffer /\ hand = << >> /\ write_buffer = << >> /\ sink = << >>
      BY <1>4, <2>1, <2>3, <2>5 DEF TakeMessage, OutInv, Flow
    <3>2. Path = << >> \o queue /\ Path' = o \o q
      BY <1>2, <2>3, <2>5, <3>1 DEF Path
    <3>3. Path' = Path /\ Path \in Seq(T)
      BY <1>e, <1>t, <2>2, <3>2
    <3>4. Len(o) = 1
      BY <2>1
    <3>5. Over(T)'
      BY <1>2, <1>t, <2>2, <2>3, <3>1 DEF Over
    <3> QED BY <1>3, <2>3, <2>5, <3>1, <3>3, <3>4, <3>5 DEF Gone
  <2> QED BY <2>4, <2>5
<1>5. CASE SocketWrite
  <2>1. /\ writer = "write" /\ writer' = "idle" /\ wire' = wire \o hand /\ hand' = << >>
        /\ UNCHANGED <<queue, write_buffer, sink>>
    BY <1>5 DEF SocketWrite
  <2>2. /\ transport # "ws" /\ pc \notin Early /\ pc # "ended" /\ wire \o Path = sent
        /\ write_buffer = << >> /\ sink = << >>
    BY <2>1 DEF OutInv, Flow, Gone, Early
  <2>3. Path = hand \o queue /\ Path' = << >> \o queue
    BY <1>2, <2>1, <2>2 DEF Path
  <2>4. Assoc(T, wire, hand, queue)
    BY <1>t, Joined, Zenon
  <2>5. Path' = queue /\ wire' \o Path' = sent
    BY <1>e, <1>t, <2>1, <2>2, <2>3, <2>4 DEF Assoc
  <2>6. Over(T)'
    BY <1>2, <1>t, <2>1, <2>4 DEF Over, Assoc
  <2> QED BY <1>3, <1>t, <2>1, <2>2, <2>5, <2>6 DEF Gone
<1>6. CASE AnswerPing
  <2>1. /\ transport = "ws" /\ pc = "read" /\ writer # "closed" /\ wire' = wire \o sink /\ sink' = << >>
        /\ UNCHANGED <<queue, hand, writer, write_buffer>>
    BY <1>6 DEF AnswerPing
  <2>2. writer \notin Gone /\ pc \notin Early /\ wire \o Path = sent /\ hand = << >> /\ writer # "write"
    BY <2>1 DEF OutInv, Flow, Gone, Early
  <2>3. PICK wq : wq = write_buffer \o queue /\ wq \in Seq(T)
    BY <1>t, ConcatProperties
  <2>4. Path = sink \o wq /\ Path' = << >> \o wq
    BY <1>2, <2>1, <2>3 DEF Path
  <2>5. Assoc(T, wire, sink, wq)
    BY <1>t, <2>3, Joined, Zenon
  <2>6. Path' = wq /\ wire' \o Path' = sent
    BY <1>e, <2>1, <2>2, <2>3, <2>4, <2>5 DEF Assoc
  <2>7. Over(T)'
    BY <1>2, <1>t, <2>1, <2>5 DEF Over, Assoc
  <2> QED BY <1>3, <2>1, <2>2, <2>3, <2>6, <2>7
<1>7. CASE Flush
  <2>1. writer = "flush" /\ UNCHANGED <<queue, hand>> /\ poll_flush
    BY <1>7 DEF Flush
  <2>2. /\ pc \notin Early /\ pc # "ended" /\ wire \o Path = sent /\ hand = << >>
        /\ transport # "ws" => write_buffer = << >> /\ sink = << >>
    BY <2>1 DEF OutInv, Flow, Gone, Early
  <2>3. CASE write_buffer = << >>
    <3>1. writer' = "idle" /\ UNCHANGED <<write_buffer, sink, wire>>
      BY <2>1, <2>3 DEF poll_flush
    <3>2. Path' = Path /\ Over(T)'
      BY <1>1, <1>2, <2>1, <3>1 DEF Path, Over
    <3>3. Path \in Seq(T)
      <4>1. write_buffer \o queue \in Seq(T) /\ hand \o queue \in Seq(T)
        BY <1>t, ConcatProperties
      <4> QED BY <1>t, <4>1, ConcatProperties DEF Path
    <3> QED BY <1>3, <2>1, <2>2, <3>1, <3>2, <3>3 DEF Gone
  <2>4. ASSUME write_buffer # << >> PROVE OutInv'
    <3>1. transport = "ws" /\ write_buffer' = << >>
      BY <2>1, <2>2, <2>4 DEF poll_flush
    <3>2. Path = sink \o (write_buffer \o queue) /\ Path' = sink' \o (<< >> \o queue)
      BY <1>2, <2>1, <3>1 DEF Path
    <3>3. PICK sw : sw = sink \o write_buffer /\ sw \in Seq(T)
      BY <1>t, ConcatProperties
    <3>4. Assoc(T, sink, write_buffer, queue) /\ Assoc(T, wire, sw, queue) /\ Assoc(T, wire, sink, write_buffer)
      BY <1>t, <3>3, Joined, Zenon
    <3>5. wire \o (sw \o queue) = sent /\ << >> \o queue = queue
      BY <1>e, <1>t, <2>2, <3>2, <3>3, <3>4 DEF Assoc
    <3>6. CASE wire' = wire \o sink \o write_buffer /\ sink' = << >> /\ writer' = "idle"
      <4>1. wire' = wire \o sw /\ wire' \in Seq(T)
        BY <3>3, <3>4, <3>6 DEF Assoc
      <4>2. Path' = queue
        BY <1>e, <1>t, <3>2, <3>5, <3>6
      <4>3. wire' \o Path' = sent
        BY <3>4, <3>5, <4>1, <4>2 DEF Assoc
      <4>4. Over(T)'
        BY <1>2, <1>t, <2>1, <3>1, <3>6, <4>1 DEF Over
      <4> QED BY <1>3, <1>t, <2>1, <2>2, <3>1, <3>6, <4>2, <4>3, <4>4 DEF Gone
    <3>7. CASE sink' = sink \o write_buffer /\ UNCHANGED <<wire, writer>>
      <4>1. Path' = sw \o queue
        BY <3>2, <3>3, <3>5, <3>7
      <4>2. Path' \in Seq(T) /\ wire' \o Path' = sent
        BY <3>4, <3>5, <3>7, <4>1 DEF Assoc
      <4>3. Over(T)'
        BY <1>2, <1>t, <2>1, <3>1, <3>3, <3>7 DEF Over
      <4> QED BY <1>3, <2>1, <2>2, <3>1, <3>7, <4>2, <4>3 DEF Gone
    <3> QED BY <2>1, <2>4, <3>6, <3>7 DEF poll_flush
  <2> QED BY <2>3, <2>4
<1> QED BY <1>4, <1>5, <1>6, <1>7

-----------------------------------------------------------------------------
(* Answers.                                                                *)

\* The answer to a packet, if there is one, is not a delivery.
LEMMA RepliesFacts ==
  ASSUME NEW p
  PROVE  Replies(p) = << >> \/ \E a : Replies(p) = <<a>> /\ a.type # "Delivery"
<1>1. /\ \A i, r : PubAck(i, r).type # "Delivery"
      /\ \A i, r : SubAck(i, r).type # "Delivery"
      /\ PingResp.type # "Delivery"
  BY DEF PubAck, SubAck, PingResp
<1>2. CASE p.type = "Publish" /\ p.qos = 1
  <2>1. \E i, r : Replies(p) = <<PubAck(i, r)>>
    BY <1>2 DEF Replies
  <2> QED BY <1>1, <2>1
<1>3. CASE p.type = "Subscribe"
  <2>1. \E i, r : Replies(p) = <<SubAck(i, r)>>
    BY <1>3 DEF Replies
  <2> QED BY <1>1, <2>1
<1>4. CASE p.type = "PingReq"
  <2>1. Replies(p) = <<PingResp>>
    BY <1>4 DEF Replies
  <2> QED BY <1>1, <2>1
<1>5. CASE ~ (p.type = "Publish" /\ p.qos = 1) /\ p.type # "Subscribe" /\ p.type # "PingReq"
  BY <1>5 DEF Replies
<1> QED BY <1>2, <1>3, <1>4, <1>5

\* What a message counts for, and what the messages do.
Answer(m) == IF m.type = "Delivery" THEN << >> ELSE <<m>>

LEMMA AnswersAppend ==
  ASSUME NEW T, NEW s \in Seq(T), NEW m \in T
  PROVE  Answers(s) \in Seq(T) /\ Answers(Append(s, m)) = Answers(s) \o Answer(m)
<1>1. PICK f : f = [a \in T |-> Answer(a)]
  OBVIOUS
<1>2. f \in [T -> Seq(T)]
  BY <1>1 DEF Answer
<1>3. Append(s, m) \in Seq(T)
  BY AppendProperties
<1>4. ASSUME NEW u \in Seq(T) PROVE Answers(u) = FlattenSeq(Image(f, u))
  <2>1. \A i \in DOMAIN u : f[u[i]] = IF u[i].type = "Delivery" THEN << >> ELSE <<u[i]>>
    BY <1>1 DEF Answer
  <2> QED BY <2>1, Zenon DEF Answers, Image
<1>5. Grown(T, f, s, m)
  BY <1>2, FlattenImageAppend, Zenon
<1> QED BY <1>1, <1>3, <1>4, <1>5 DEF Grown

LEMMA RepliesToAppend ==
  ASSUME NEW P, NEW s \in Seq(P), NEW p \in P
  PROVE  \E T : /\ RepliesTo(s) \in Seq(T) /\ Replies(p) \in Seq(T)
                /\ RepliesTo(Append(s, p)) = RepliesTo(s) \o Replies(p)
<1>1. PICK T, f : T = {Replies(a)[1] : a \in P} /\ f = [a \in P |-> Replies(a)]
  OBVIOUS
<1>2. ASSUME NEW a \in P PROVE f[a] = Replies(a) /\ f[a] \in Seq(T)
  <2>1. CASE Replies(a) = << >>
    BY <1>1, <2>1
  <2>2. ASSUME NEW b, Replies(a) = <<b>> PROVE f[a] = Replies(a) /\ f[a] \in Seq(T)
    <3>1. b \in T
      <4>1. Replies(a)[1] = b
        BY <2>2
      <4> QED BY <1>1, <4>1
    <3>2. <<b>> \in Seq(T)
      BY <3>1
    <3>3. f[a] = Replies(a)
      BY <1>1
    <3> QED BY <2>2, <3>2, <3>3
  <2> QED BY <2>1, <2>2, RepliesFacts
<1>3. f \in [P -> Seq(T)]
  BY <1>1, <1>2
<1>4. ASSUME NEW u \in Seq(P) PROVE RepliesTo(u) = FlattenSeq(Image(f, u))
  <2>1. \A i \in DOMAIN u : f[u[i]] = Replies(u[i])
    BY <1>2
  <2> QED BY <2>1, Zenon DEF RepliesTo, Image
<1>5. Append(s, p) \in Seq(P)
  BY AppendProperties
<1>6. Grown(T, f, s, p)
  BY <1>3, FlattenImageAppend, Zenon
<1> QED BY <1>2, <1>4, <1>5, <1>6 DEF Grown

\* What a step gives to the channel counts as given.
LEMMA SendAnswers ==
  ASSUME OutInv, NEW m, Send(<<m>>)
  PROVE  \E T : /\ Answers(sent) \in Seq(T) /\ Answer(m) \in Seq(T) /\ m \in T
                /\ Answers(sent)' = Answers(sent) \o Answer(m)
<1>1. PICK S : Over(S)
  BY DEF OutInv
<1>2. PICK T : T = S \cup {m}
  OBVIOUS
<1>3. sent \in Seq(T) /\ m \in T
  BY <1>1, <1>2, WiderOver DEF Over
<1>4. sent' = Append(sent, m)
  <2>1. sent' = sent \o <<m>>
    BY DEF Send
  <2> QED BY <1>3, <2>1, AppendIsConcat
<1>5. Answers(sent) \in Seq(T) /\ Answers(Append(sent, m)) = Answers(sent) \o Answer(m)
  BY <1>3, AnswersAppend
<1>6. Answers(sent)' = Answers(sent')
  BY DEF Answers
<1>7. Answer(m) \in Seq(T)
  BY <1>3 DEF Answer
<1> QED BY <1>3, <1>4, <1>5, <1>6, <1>7

LEMMA OutNext == ASSUME OutInv, [Next]_vars PROVE OutInv'
<1>0. Flow
  BY DEF OutInv
<1>1. CASE FirstRead
  BY <1>1, FirstOut
<1>2. CASE SendConnAck
  <2>1. <<ConnAck(0)>> \in Seq({ConnAck(0)})
    OBVIOUS
  <2>2. /\ Send(<<ConnAck(0)>>) /\ pc = "registered" /\ pc' = "read"
        /\ UNCHANGED <<transport, hand, writer, write_buffer, sink, wire>>
    BY <1>2 DEF SendConnAck
  <2> QED BY <2>1, <2>2, SendOut DEF Early
<1>3. CASE Read \/ GiveUp
  <2>1. UNCHANGED <<transport, writing, sent>>
    BY <1>3 DEF Read, GiveUp, reading
  <2>2. (pc = "read" /\ pc' = "decode") \/ (pc = "connect" /\ pc' = "dropped")
    BY <1>3 DEF Read, GiveUp
  <2> QED BY <2>1, <2>2, ReaderOut DEF Early
<1>4. CASE Decode
  <2>1. pc = "decode" /\ UNCHANGED transport
    BY <1>4 DEF Decode
  <2>2. ASSUME NEW v, Send(Replies(v)), pc' = "decode",
               UNCHANGED <<hand, writer, write_buffer, sink, wire>>
        PROVE  OutInv'
    <3>1. \E U : Replies(v) \in Seq(U)
      <4>1. ASSUME NEW a, Replies(v) = <<a>> PROVE Replies(v) \in Seq({a})
        BY <4>1
      <4>2. << >> \in Seq({})
        OBVIOUS
      <4> QED BY <4>1, <4>2, RepliesFacts
    <3> QED BY <2>1, <2>2, <3>1, SendOut DEF Early
  <2>3. CASE Exit
    <3>1. /\ queue' = << >> /\ hand' = << >> /\ write_buffer' = << >> /\ sink' = << >>
          /\ pc' = "ended" /\ writer' \in Gone /\ UNCHANGED <<wire, sent>>
      BY <2>3 DEF Exit, Gone
    <3> QED BY <2>1, <3>1, LostOut DEF Early
  <2>4. CASE pc' \in {"read", "panicked"} /\ UNCHANGED <<writing, sent>>
    <3>1. UNCHANGED <<transport, writing, sent>>
      BY <2>1, <2>4
    <3> QED BY <2>1, <2>4, <3>1, ReaderOut DEF Early
  <2> QED BY <1>4, <2>2, <2>3, <2>4 DEF Decode, AfterPacket
<1>5. CASE Eof \/ StopReading
  <2>1. pc = "read" /\ Exit /\ UNCHANGED transport
    BY <1>5 DEF Eof, StopReading, reading
  <2>2. /\ queue' = << >> /\ hand' = << >> /\ write_buffer' = << >> /\ sink' = << >>
        /\ pc' = "ended" /\ writer' \in Gone /\ UNCHANGED <<wire, sent>>
    BY <2>1 DEF Exit, Gone
  <2> QED BY <2>1, <2>2, LostOut DEF Early
<1>6. CASE TakeMessage \/ SocketWrite \/ Flush \/ AnswerPing
  BY <1>6, WriterOut
<1>7. CASE WriteFails
  <2>1. /\ queue' = << >> /\ hand' = << >> /\ write_buffer' = << >> /\ sink' = << >>
        /\ writer \in {"write", "flush"} /\ writer' = "closed"
        /\ UNCHANGED <<transport, pc, wire, sent>>
    BY <1>7 DEF WriteFails, reading
  <2>2. pc \notin Early
    BY <1>0, <2>1 DEF Flow
  <2> QED BY <2>1, <2>2, LostOut
<1>8. CASE Deliver
  <2>1. PICK m : m = Delivery(Deliveries + 1)
    OBVIOUS
  <2>2. <<m>> \in Seq({m})
    OBVIOUS
  <2>3. /\ Send(<<m>>) /\ pc \in {"registered", "read", "decode", "panicked"} /\ pc' = pc
        /\ UNCHANGED <<transport, hand, writer, write_buffer, sink, wire>>
    BY <1>8, <2>1 DEF Deliver, Registered, reading
  <2> QED BY <2>2, <2>3, SendOut DEF Early
<1>9. CASE UNCHANGED vars
  <2>1. UNCHANGED <<transport, queue, hand, writer, write_buffer, sink, wire, sent, pc>>
    BY <1>9 DEF vars, writing, reading
  <2>2. PICK T : Over(T)
    BY DEF OutInv
  <2>3. Over(T)'
    BY <2>1, <2>2 DEF Over
  <2>4. Path' = Path
    BY <2>1 DEF Path
  <2>5. Flow'
    BY <1>0, <2>1, <2>4 DEF Flow
  <2> QED BY <2>3, <2>5 DEF OutInv
<1> QED BY <1>1, <1>2, <1>3, <1>4, <1>5, <1>6, <1>7, <1>8, <1>9 DEF Next

\* Where the connection has answered its CONNECT.
Serving == {"read", "decode", "panicked", "ended"}

AnsInv ==
  /\ \E P : log \in Seq(P)
  /\ pc \in {"connect", "dropped"} => log = << >>
  /\ pc = "registered" => Answers(sent) = << >> /\ Len(log) = 1
  /\ pc \in Serving => log # << >> /\ Answers(sent) = <<ConnAck(0)>> \o RepliesTo(Tail(log))

LEMMA NoAnswers == Answers(<< >>) = << >> /\ RepliesTo(<< >>) = << >>
<1>1. DOMAIN << >> = {}
  OBVIOUS
<1>2. /\ [i \in DOMAIN << >> |-> IF << >>[i].type = "Delivery" THEN << >> ELSE << << >>[i] >>] = << >>
      /\ [i \in DOMAIN << >> |-> Replies(<< >>[i])] = << >>
  BY <1>1
<1>3. FlattenSeq(<< >>) = << >>
  BY DEF FlattenSeq
<1> QED BY <1>2, <1>3 DEF Answers, RepliesTo

LEMMA InitAns == Init => AnsInv
<1> SUFFICES ASSUME Init PROVE AnsInv
  OBVIOUS
<1>1. << >> \in Seq({})
  OBVIOUS
<1> QED BY <1>1 DEF Init, AnsInv, Serving

\* Nothing that counts is sent and nothing is handled.
LEMMA SameAns ==
  ASSUME AnsInv, UNCHANGED log, Answers(sent)' = Answers(sent),
         pc' = pc \/ (pc = "connect" /\ pc' = "dropped") \/ (pc \in Serving /\ pc' \in Serving)
  PROVE  AnsInv'
<1>1. RepliesTo(Tail(log))' = RepliesTo(Tail(log))
  BY DEF RepliesTo
<1> QED BY <1>1 DEF AnsInv, Serving

\* One packet more is handled, and its answer sent.
LEMMA HandledAns ==
  ASSUME OutInv, AnsInv, pc \in Serving, pc' \in Serving, NEW v, log' = Append(log, v),
         Send(Replies(v)) \/ (Replies(v) = << >> /\ UNCHANGED sent)
  PROVE  AnsInv'
<1>1. PICK Q : log \in Seq(Q)
  BY DEF AnsInv
<1>2. PICK P : P = Q \cup {v}
  OBVIOUS
<1>3. log \in Seq(P) /\ v \in P /\ log # << >>
  BY <1>1, <1>2, SeqMonotonic DEF AnsInv
<1>4. Append(log, v) \in Seq(P) /\ Append(log, v) # << >>
  BY <1>3, AppendProperties
<1>5. Tail(log) \in Seq(P) /\ Tail(Append(log, v)) = Append(Tail(log), v)
  BY <1>3, HeadTailAppend, HeadTailProperties
<1>6. PICK T : /\ RepliesTo(Tail(log)) \in Seq(T) /\ Replies(v) \in Seq(T)
               /\ RepliesTo(Append(Tail(log), v)) = RepliesTo(Tail(log)) \o Replies(v)
  BY <1>3, <1>5, RepliesToAppend
<1>7. Answers(sent)' = Answers(sent) \o Replies(v)
  <2>1. ASSUME Replies(v) = << >> PROVE Answers(sent)' = Answers(sent) \o Replies(v)
    <3>1. PICK S : sent \in Seq(S)
      BY DEF OutInv, Over
    <3>2. sent' = sent
      BY <2>1, <3>1, ConcatEmptySeq DEF Send
    <3>3. Answers(sent) = <<ConnAck(0)>> \o RepliesTo(Tail(log))
      BY DEF AnsInv
    <3>4. PICK U : U = T \cup {ConnAck(0)}
      OBVIOUS
    <3>5. <<ConnAck(0)>> \in Seq(U) /\ RepliesTo(Tail(log)) \in Seq(U)
      BY <1>6, <3>4, SeqMonotonic
    <3>6. Answers(sent) \in Seq(U)
      BY <3>3, <3>5, ConcatProperties
    <3>7. Answers(sent) \o << >> = Answers(sent)
      BY <3>6, ConcatEmptySeq
    <3> QED BY <2>1, <3>2, <3>7 DEF Answers
  <2>2. ASSUME NEW a, Replies(v) = <<a>>, a.type # "Delivery"
        PROVE  Answers(sent)' = Answers(sent) \o Replies(v)
    <3>1. Send(<<a>>) /\ Answer(a) = <<a>>
      BY <2>2 DEF Answer
    <3> QED BY <2>2, <3>1, SendAnswers
  <2> QED BY <2>1, <2>2, RepliesFacts
<1>8. Answers(sent)' = <<ConnAck(0)>> \o RepliesTo(Append(Tail(log), v))
  <2>1. Answers(sent) = <<ConnAck(0)>> \o RepliesTo(Tail(log))
    BY DEF AnsInv
  <2>2. PICK U : U = T \cup {ConnAck(0)}
    OBVIOUS
  <2>3. <<ConnAck(0)>> \in Seq(U) /\ RepliesTo(Tail(log)) \in Seq(U) /\ Replies(v) \in Seq(U)
    BY <1>6, <2>2, SeqMonotonic
  <2>4. Assoc(U, <<ConnAck(0)>>, RepliesTo(Tail(log)), Replies(v))
    BY <2>3, Joined, Zenon
  <2> QED BY <1>6, <1>7, <2>1, <2>4 DEF Assoc
<1>9. RepliesTo(Tail(log))' = RepliesTo(Append(Tail(log), v))
  BY <1>5 DEF RepliesTo
<1> QED BY <1>4, <1>8, <1>9 DEF AnsInv, Serving

LEMMA AnsNext == ASSUME OutInv, AnsInv, [Next]_vars PROVE AnsInv'
<1>1. CASE FirstRead
  <2>1. pc = "connect" /\ sent = << >> /\ log = << >>
    BY <1>1 DEF FirstRead, OutInv, Flow, AnsInv
  <2>2. CASE pc' = "dropped" /\ UNCHANGED <<log, sent>>
    BY <2>1, <2>2 DEF AnsInv, Serving
  <2>3. ASSUME NEW v, log' = <<v>>, pc' = "refused" \/ (pc' = "registered" /\ UNCHANGED sent)
        PROVE  AnsInv'
    <3>1. <<v>> \in Seq({v}) /\ Len(<<v>>) = 1
      OBVIOUS
    <3>2. pc' = "registered" => Answers(sent)' = << >>
      BY <2>1, <2>3, NoAnswers
    <3> QED BY <2>3, <3>1, <3>2 DEF AnsInv, Serving
  <2> QED BY <1>1, <2>2, <2>3 DEF FirstRead
<1>2. CASE SendConnAck
  <2>1. pc = "registered" /\ pc' = "read" /\ Send(<<ConnAck(0)>>) /\ UNCHANGED log
    BY <1>2 DEF SendConnAck
  <2>2. Answer(ConnAck(0)) = <<ConnAck(0)>>
    BY DEF Answer, ConnAck
  <2>3. Answers(sent)' = << >> \o <<ConnAck(0)>>
    BY <2>1, <2>2, SendAnswers DEF AnsInv
  <2>4. PICK c : c = <<ConnAck(0)>> /\ c \in Seq({ConnAck(0)})
    <3>1. <<ConnAck(0)>> \in Seq({ConnAck(0)})
      OBVIOUS
    <3> QED BY <3>1
  <2>5. << >> \o c = c /\ c \o << >> = c
    BY <2>4, ConcatEmptySeq
  <2>6. log # << >> /\ Tail(log) = << >> /\ \E P : log \in Seq(P)
    <3>1. PICK P : log \in Seq(P) /\ Len(log) = 1
      BY <2>1 DEF AnsInv
    <3>2. log # << >>
      BY <3>1, EmptySeq
    <3>3. Tail(log) \in Seq(P) /\ Len(Tail(log)) = 0
      BY <3>1, <3>2, HeadTailProperties
    <3>4. Tail(log) = << >>
      BY <3>3, EmptySeq
    <3> QED BY <3>1, <3>2, <3>4
  <2>7. RepliesTo(Tail(log)) = << >>
    BY <2>6, NoAnswers
  <2>8. RepliesTo(Tail(log))' = RepliesTo(Tail(log))
    BY <2>1 DEF RepliesTo
  <2> QED BY <2>1, <2>3, <2>4, <2>5, <2>6, <2>7, <2>8 DEF AnsInv, Serving
<1>3. CASE Decode
  <2>1. pc = "decode" /\ pc \in Serving
    BY <1>3 DEF Decode, Serving
  <2>2. ASSUME NEW v, log' = Append(log, v), Send(Replies(v)), pc' = "decode" PROVE AnsInv'
    BY <2>1, <2>2, HandledAns DEF Serving
  <2>3. ASSUME NEW v, v.type = "Connect", log' = Append(log, v), Exit PROVE AnsInv'
    <3>1. Replies(v) = << >>
      BY <2>3 DEF Replies
    <3>2. pc' = "ended" /\ UNCHANGED sent
      BY <2>3 DEF Exit
    <3> QED BY <2>1, <2>3, <3>1, <3>2, HandledAns DEF Serving
  <2>4. CASE UNCHANGED <<log, sent>> /\ pc' \in Serving
    <3>1. Answers(sent)' = Answers(sent)
      BY <2>4 DEF Answers
    <3> QED BY <2>1, <2>4, <3>1, SameAns
  <2>5. Exit => pc' = "ended" /\ UNCHANGED sent
    BY DEF Exit
  <2> QED BY <1>3, <2>2, <2>3, <2>4, <2>5 DEF Decode, AfterPacket, Serving
<1>4. CASE Deliver
  <2>1. PICK m : m = Delivery(Deliveries + 1)
    OBVIOUS
  <2>2. Send(<<m>>) /\ UNCHANGED <<pc, log>>
    BY <1>4, <2>1 DEF Deliver, reading
  <2>3. Answer(m) = << >>
    BY <2>1 DEF Answer, Delivery
  <2>4. PICK T : Answers(sent) \in Seq(T) /\ Answers(sent)' = Answers(sent) \o << >>
    BY <2>2, <2>3, SendAnswers
  <2>5. Answers(sent)' = Answers(sent)
    BY <2>4, ConcatEmptySeq
  <2> QED BY <2>2, <2>5, SameAns
<1>5. CASE \/ Read \/ GiveUp \/ Eof \/ StopReading \/ TakeMessage \/ SocketWrite \/ Flush
           \/ WriteFails \/ AnswerPing \/ UNCHANGED vars
  <2>1. /\ UNCHANGED <<log, sent>>
        /\ pc' = pc \/ (pc = "connect" /\ pc' = "dropped") \/ (pc \in Serving /\ pc' \in Serving)
    BY <1>5 DEF Read, GiveUp, Eof, StopReading, TakeMessage, SocketWrite, Flush, WriteFails,
                AnswerPing, vars, reading, writing, Exit, Serving
  <2>2. Answers(sent)' = Answers(sent)
    BY <2>1 DEF Answers
  <2> QED BY <2>1, <2>2, SameAns
<1> QED BY <1>1, <1>2, <1>3, <1>4, <1>5 DEF Next

-----------------------------------------------------------------------------
(* The type of every variable.                                             *)

Places ==
  /\ script \in Scripts /\ transport \in Transports
  /\ pc \in {"connect", "registered", "read", "decode",
             "dropped", "refused", "ended", "panicked"}
  /\ writer \in {"idle", "write", "flush", "closed", "aborted"}
  /\ fresh \in BOOLEAN
  /\ transport # "ws" => read_buffer = << >>

LEMMA PlacesNext == ASSUME Places, [Next]_vars PROVE Places'
<1>1. ReadSome /\ UNCHANGED transport => (transport' # "ws" => read_buffer' = << >>)
  BY DEF ReadSome, socket_read
<1>2. ASSUME FirstRead \/ SendConnAck \/ Read PROVE Places'
  BY <1>1, <1>2 DEF Places, FirstRead, SendConnAck, Read, writing
<1>3. ASSUME Decode PROVE Places'
  BY <1>3 DEF Places, Decode, AfterPacket, Exit, writing
<1>4. ASSUME GiveUp \/ Eof \/ StopReading \/ Deliver PROVE Places'
  BY <1>4 DEF Places, GiveUp, Eof, StopReading, Deliver, Exit, reading, writing
<1>5. ASSUME TakeMessage \/ SocketWrite \/ Flush \/ WriteFails \/ AnswerPing PROVE Places'
  BY <1>5 DEF Places, TakeMessage, SocketWrite, Flush, poll_flush, WriteFails, AnswerPing, reading
<1>6. ASSUME UNCHANGED vars PROVE Places'
  BY <1>6 DEF Places, vars, reading, writing
<1> QED BY <1>2, <1>3, <1>4, <1>5, <1>6 DEF Next

ConnInv == Places /\ OutInv /\ AnsInv

LEMMA ConnInvariant == Spec => []ConnInv
<1>1. Init => ConnInv
  <2>1. Init => Places
    BY DEF Init, Places
  <2> QED BY <2>1, InitOut, InitAns DEF ConnInv
<1>2. ConnInv /\ [Next]_vars => ConnInv'
  BY PlacesNext, OutNext, AnsNext DEF ConnInv
<1> QED BY <1>1, <1>2, PTL DEF Spec

\* Every variable keeps its type; the writer task holds one message at most,
\* and over TCP nothing is left in the buffers of the WebSocket adapter.
THEOREM ConnectionTypeCorrect == Spec => []TypeOK
<1>1. ConnInv => TypeOK
  <2> SUFFICES ASSUME ConnInv PROVE TypeOK
    OBVIOUS
  <2>1. Len(hand) \in 0 .. 1
    <3>1. CASE writer = "write"
      BY <3>1 DEF ConnInv, OutInv, Flow
    <3>2. CASE writer # "write"
      <4>1. hand = << >>
        BY <3>2 DEF ConnInv, OutInv, Flow
      <4> QED BY <4>1
    <3> QED BY <3>1, <3>2
  <2>2. transport = "tcp" => read_buffer \o write_buffer \o sink = << >>
    <3>1. << >> \o << >> \o << >> = << >>
      OBVIOUS
    <3>2. transport = "tcp" => read_buffer = << >> /\ write_buffer = << >> /\ sink = << >>
      BY DEF ConnInv, Places, OutInv, Flow
    <3> QED BY <3>1, <3>2
  <2> QED BY <2>1, <2>2 DEF TypeOK, ConnInv, Places
<1> QED BY <1>1, ConnInvariant, PTL

\* What reaches the client is a prefix of what was sent to it, and apart from
\* deliveries this is the CONNACK and then the answers to the packets in the
\* order of their handling, for every script and every cut of its bytes.
THEOREM AnswersKeepOrder == Spec => []AnswersInOrder
<1>1. ConnInv => AnswersInOrder
  BY DEF ConnInv, Places, OutInv, Flow, AnsInv, Serving, AnswersInOrder
<1> QED BY <1>1, ConnInvariant, PTL

-----------------------------------------------------------------------------
(* The frame at the front of a buffer, and what follows it.               *)

\* Bytes that follow change nothing in a number that is read to its end, and
\* nothing in one that is too long.
LEMMA VarintLocal ==
  ASSUME NEW d \in Seq(Byte), NEW m \in Seq(Byte), decode_varint(d).err # "Incomplete"
  PROVE  decode_varint(d \o m) = decode_varint(d)
<1>1. PICK w : w = d \o m
  OBVIOUS
<1>2. /\ w \in Seq(Byte) /\ Len(w) = Len(d) + Len(m) /\ Len(d) \in Nat /\ Len(m) \in Nat
      /\ \A i \in 1 .. Len(d) : w[i] = d[i]
  BY <1>1, ConcatProperties
<1>3. ASSUME NEW n \in 1 .. 4, n <= Len(d) PROVE Ends(w, n) <=> Ends(d, n)
  <2>1. n <= Len(w) /\ w[n] = d[n] /\ \A i \in 1 .. n - 1 : w[i] = d[i]
    BY <1>2, <1>3
  <2> QED BY <1>3, <2>1 DEF Ends
<1>4. CASE \E n \in 1 .. 4 : Ends(d, n)
  <2>1. PICK n \in 1 .. 4 : Ends(d, n)
    BY <1>4
  <2>2. n <= Len(d) /\ Ends(w, n)
    BY <1>3, <2>1 DEF Ends
  <2>3. ASSUME NEW m1 \in 1 .. 4, Ends(d, m1) \/ Ends(w, m1) PROVE m1 = n
    <3>1. \A i \in 1 .. n : w[i] = d[i] /\ d[i] \in Nat
      <4>1. d \in Seq(Nat) /\ \A i \in 1 .. n : i \in 1 .. Len(d)
        BY <1>2, <2>2, BytesAreNumbers
      <4> QED BY <1>2, <4>1
    <3>2. CASE m1 < n
      <4>1. m1 \in 1 .. n - 1 /\ d[m1] >= 128 /\ w[m1] = d[m1]
        BY <2>1, <3>1, <3>2 DEF Ends
      <4>2. d[m1] < 128
        BY <2>3, <4>1 DEF Ends
      <4> QED BY <3>1, <4>1, <4>2
    <3>3. CASE n < m1
      <4>1. n \in 1 .. m1 - 1
        BY <3>3
      <4>2. d[n] >= 128
        BY <2>3, <3>1, <4>1 DEF Ends
      <4> QED BY <2>1, <3>1, <4>1, <4>2 DEF Ends
    <3> QED BY <3>2, <3>3
  <2>4. (CHOOSE k \in 1 .. 4 : Ends(d, k)) = n /\ (CHOOSE k \in 1 .. 4 : Ends(w, k)) = n
    BY <2>1, <2>2, <2>3
  <2>5. \A i \in {1, 2, 3, 4} : Part(w, i, n) = Part(d, i, n)
    BY <1>2, <2>1, <2>2 DEF Part
  <2>6. /\ decode_varint(d) = Value(Part(d, 1, n) + Part(d, 2, n) + Part(d, 3, n) + Part(d, 4, n), n)
        /\ decode_varint(w) = Value(Part(w, 1, n) + Part(w, 2, n) + Part(w, 3, n) + Part(w, 4, n), n)
    BY <2>1, <2>2, <2>4 DEF decode_varint
  <2> QED BY <1>1, <2>5, <2>6
<1>5. CASE ~ \E n \in 1 .. 4 : Ends(d, n)
  <2>1. Len(d) >= 4 /\ decode_varint(d) = Failed("InvalidVarint")
    BY <1>5 DEF decode_varint, Failed
  <2>2. ~ \E n \in 1 .. 4 : Ends(w, n)
    BY <1>2, <1>3, <1>5, <2>1
  <2>3. Len(w) >= 4
    BY <1>2, <2>1
  <2>4. decode_varint(w) = Failed("InvalidVarint")
    BY <2>2, <2>3 DEF decode_varint
  <2> QED BY <1>1, <2>1, <2>4
<1> QED BY <1>4, <1>5

\* Settled, by what decode_packet looks at.
LEMMA SettledFacts ==
  ASSUME NEW buf \in Seq(Byte)
  PROVE  /\ buf # << >> => Tail(buf) = Drop(buf, 1) /\ Drop(buf, 1) \in Seq(Byte)
         /\ LET n == decode_varint(Drop(buf, 1)) IN
            /\ Settled(buf) <=> /\ Len(buf) >= 1 /\ n.err \in {"none", "InvalidVarint"}
                                /\ n.err = "none" => Len(buf) >= 1 + n.read + n.val
            /\ CompleteFrame(buf) <=> /\ Len(buf) >= 1 /\ n.err = "none"
                                      /\ Len(buf) >= 1 + n.read + n.val
<1>1. Len(buf) \in Nat /\ (buf # << >> <=> Len(buf) >= 1)
  BY EmptySeq
<1>2. CASE buf # << >>
  <2>1. PICK d, t : d = Drop(buf, 1) /\ t = Tail(buf)
    OBVIOUS
  <2>2. t \in Seq(Byte) /\ Len(t) = Len(buf) - 1 /\ \A i \in 1 .. Len(t) : t[i] = buf[i + 1]
    BY <1>2, <2>1, HeadTailProperties
  <2>3. d \in Seq(Byte) /\ Len(d) = Len(buf) - 1 /\ \A i \in 1 .. Len(buf) - 1 : d[i] = buf[1 + i]
    <3>1. 1 \in 0 .. Len(buf)
      BY <1>1, <1>2
    <3> QED BY <2>1, <3>1, DropFacts
  <2>4. t = d
    <3>1. \A i \in 1 .. Len(t) : t[i] = d[i]
      BY <1>1, <2>2, <2>3
    <3> QED BY <2>2, <2>3, <3>1, SeqEqual
  <2>5. PICK n : n = decode_varint(d)
    OBVIOUS
  <2>6. ASSUME n.err = "none"
        PROVE  n.read \in Nat /\ n.val \in Nat /\ (Len(buf) >= 1 + n.read + n.val => Len(buf) > 1)
    <3>1. n.read \in 1 .. 4 /\ n.val \in Nat
      BY <2>3, <2>5, <2>6, VarintInBounds, BytesAreNumbers
    <3> QED BY <1>1, <3>1
  <2>7. CompleteFrame(buf) <=> Len(buf) >= 1 /\ n.err = "none" /\ Len(buf) >= 1 + n.read + n.val
    BY <1>1, <1>2, <2>1, <2>4, <2>5, <2>6 DEF CompleteFrame
  <2>8. Settled(buf) <=> /\ Len(buf) >= 1 /\ n.err \in {"none", "InvalidVarint"}
                         /\ n.err = "none" => Len(buf) >= 1 + n.read + n.val
    BY <1>1, <1>2, <2>1, <2>4, <2>5, <2>7 DEF Settled
  <2> QED BY <2>1, <2>3, <2>4, <2>5, <2>7, <2>8
<1>3. CASE buf = << >>
  BY <1>1, <1>3 DEF Settled, CompleteFrame
<1> QED BY <1>2, <1>3

\* Bytes that follow change nothing in what is made of such bytes.
LEMMA PacketLocal ==
  ASSUME NEW buf \in Seq(Byte), NEW m \in Seq(Byte), Settled(buf)
  PROVE  decode_packet(buf \o m) = decode_packet(buf)
<1>1. PICK w, d, n : w = buf \o m /\ d = Drop(buf, 1) /\ n = decode_varint(d)
  OBVIOUS
<1>2. /\ w \in Seq(Byte) /\ Len(w) = Len(buf) + Len(m) /\ Len(buf) \in Nat /\ Len(m) \in Nat
      /\ \A i \in 1 .. Len(buf) : w[i] = buf[i]
  BY <1>1, ConcatProperties
<1>3. /\ Len(buf) >= 1 /\ n.err \in {"none", "InvalidVarint"}
      /\ n.err = "none" => Len(buf) >= 1 + n.read + n.val
  BY <1>1, SettledFacts
<1>4. d \in Seq(Byte) /\ Drop(w, 1) = d \o m
  <2>1. 1 \in 0 .. Len(buf)
    BY <1>2, <1>3
  <2> QED BY <1>1, <2>1, DropFacts, DropOfConcat
<1>5. decode_varint(Drop(w, 1)) = n
  BY <1>1, <1>3, <1>4, VarintLocal
<1>6. decode_packet(buf) = Decoded(buf, n) /\ decode_packet(w) = Decoded(w, n)
  <2>1. ~ (Len(buf) < 1) /\ ~ (Len(w) < 1)
    BY <1>2, <1>3
  <2> QED BY <1>1, <1>2, <1>5, <2>1, DecodePacketIs
<1>7. CASE n.err # "none"
  BY <1>1, <1>6, <1>7 DEF Decoded
<1>8. CASE n.err = "none"
  <2>1. n.read \in Nat /\ n.val \in Nat
    BY <1>1, <1>4, <1>8, NumberRead
  <2>2. PICK x, y : x = n.read + 2 /\ y = 1 + n.read + n.val
    OBVIOUS
  <2>3. x \in Nat /\ x >= 1 /\ y \in Nat /\ y <= Len(buf) /\ y <= Len(w)
    <3>1. y \in Nat /\ x \in Nat /\ x >= 1
      BY <2>1, <2>2
    <3>2. y <= Len(buf)
      BY <1>3, <1>8, <2>2
    <3>3. PICK a, b, c : a = Len(buf) /\ b = Len(m) /\ c = Len(w) /\ a \in Nat /\ b \in Nat /\ c = a + b
      BY <1>2
    <3> QED BY <3>1, <3>2, <3>3
  <2>4. SubSeq(w, x, y) = SubSeq(buf, x, y)
    <3>1. PICK a, b : a = SubSeq(w, x, y) /\ b = SubSeq(buf, x, y)
      OBVIOUS
    <3>2. \A i \in x .. y : i \in 1 .. Len(buf) /\ w[i] = buf[i] /\ buf[i] \in Byte
      BY <1>2, <2>3
    <3>3. /\ a \in Seq(Byte) /\ Len(a) = (IF x <= y THEN y - x + 1 ELSE 0) /\ \A i \in 1 .. y - x + 1 : a[i] = w[x + i - 1]
          /\ b \in Seq(Byte) /\ Len(b) = (IF x <= y THEN y - x + 1 ELSE 0) /\ \A i \in 1 .. y - x + 1 : b[i] = buf[x + i - 1]
      <4>1. x \in Int /\ y \in Int /\ \A i \in x .. y : w[i] \in Byte /\ buf[i] \in Byte
        BY <2>3, <3>2
      <4>2. PartOf(Byte, w, x, y, a) /\ PartOf(Byte, buf, x, y, b)
        BY <3>1, <4>1, PartIs, Zenon
      <4> QED BY <4>2, Zenon DEF PartOf
    <3>4. ASSUME NEW i \in 1 .. Len(a) PROVE a[i] = b[i]
      <4>1. i \in 1 .. y - x + 1 /\ x + i - 1 \in x .. y
        BY <2>3, <3>3
      <4> QED BY <3>2, <3>3, <4>1
    <3>5. a = b
      BY <3>3, <3>4, SeqEqual
    <3> QED BY <3>1, <3>5
  <2>5. Payload(w, n) = Payload(buf, n)
    <3>1. w[1] = buf[1]
      BY <1>2, <1>3
    <3> QED BY <2>2, <2>4, <3>1 DEF Payload
  <2>6. ~ (Len(w) < y) /\ ~ (Len(buf) < y)
    BY <1>2, <2>3
  <2> QED BY <1>1, <1>6, <1>8, <2>2, <2>5, <2>6 DEF Decoded
<1> QED BY <1>7, <1>8

\* A packet, and a panic, come from a frame that is there with all its bytes.
LEMMA PacketNeedsFrame ==
  ASSUME NEW buf \in Seq(Byte), decode_packet(buf).err \in {"none", "panic"}
  PROVE  /\ CompleteFrame(buf) /\ Settled(buf)
         /\ decode_packet(buf).err = "none" =>
              decode_packet(buf).read \in Nat /\ decode_packet(buf).read <= Len(buf)
<1>1. PICK n : n = decode_varint(Drop(buf, 1))
  OBVIOUS
<1>0. Len(buf) \in Nat
  OBVIOUS
<1>2. ~ (Len(buf) < 1) /\ decode_packet(buf) = Decoded(buf, n)
  BY <1>1, DecodePacketIs DEF Failed
<1>3. n.err \in {"none", "Incomplete", "InvalidVarint"}
  BY <1>1 DEF decode_varint, Value, Failed
<1>4. n.err = "none" /\ ~ (Len(buf) < 1 + n.read + n.val)
  BY <1>2, <1>3 DEF Decoded, Failed
<1>5. n.read \in Nat /\ n.val \in Nat
  <2>1. Drop(buf, 1) \in Seq(Byte)
    <3>1. ~ (Len(buf) < 1)
      BY <1>2
    <3>2. 1 \in 0 .. Len(buf)
      BY <1>0, <3>1
    <3> QED BY <3>2, DropFacts
  <2> QED BY <1>1, <1>4, <2>1, NumberRead
<1>6. CompleteFrame(buf) /\ Settled(buf)
  BY <1>0, <1>1, <1>2, <1>4, <1>5, SettledFacts
<1>7. ASSUME decode_packet(buf).err = "none" PROVE decode_packet(buf).read = 1 + n.read + n.val
  BY <1>2, <1>4, <1>7 DEF Decoded, Framed, Value, Failed
<1> QED BY <1>0, <1>4, <1>5, <1>6, <1>7

-----------------------------------------------------------------------------
(* What the client sends.                                                  *)

\* The bytes of the first k items.
Frames(s, k) == FlattenSeq([i \in 1 .. k |-> s[i].bytes])

LEMMA ScriptFacts ==
  ASSUME NEW s \in Scripts
  PROVE  /\ s \in Seq(ToSet(s)) /\ Len(s) \in Nat /\ DOMAIN s = 1 .. Len(s)
         /\ \A i \in 1 .. Len(s) : s[i].bytes \in Seq(Byte)
<1>1. s \in Seq(ToSet(s)) /\ \A i \in DOMAIN s : s[i].bytes \in Seq(0 .. 255)
  BY ConnectionAssumption
<1>2. Len(s) \in Nat /\ DOMAIN s = 1 .. Len(s)
  BY <1>1
<1> QED BY <1>1, <1>2 DEF Byte

LEMMA FramesFacts ==
  ASSUME NEW s \in Scripts, NEW k \in 0 .. Len(s)
  PROVE  /\ Frames(s, k) \in Seq(Byte)
         /\ k < Len(s) => Frames(s, k + 1) = Frames(s, k) \o s[k + 1].bytes
<1> DEFINE S == Seq(Byte)
           U(j) == [i \in 1 .. j |-> s[i].bytes]
<1>1. Len(s) \in Nat /\ \A i \in 1 .. Len(s) : s[i].bytes \in S
  BY ScriptFacts
<1>2. ASSUME NEW j \in 0 .. Len(s) PROVE U(j) \in Seq(S) /\ Len(U(j)) = j
  <2>1. j \in Nat /\ \A i \in 1 .. j : s[i].bytes \in S
    BY <1>1
  <2> HIDE DEF S
  <2> QED BY <2>1
<1>3. U(k) \in Seq(Seq(Byte))
  BY <1>2
<1>4. ASSUME k < Len(s) PROVE U(k + 1) = Append(U(k), s[k + 1].bytes) /\ s[k + 1].bytes \in S
  <2>1. k + 1 \in 0 .. Len(s) /\ k + 1 \in 1 .. Len(s) /\ k \in Nat
    BY <1>1, <1>4
  <2>2. s[k + 1].bytes \in S
    BY <1>1, <2>1
  <2>3. PICK a, b, u : a = U(k + 1) /\ u = U(k) /\ b = Append(u, s[k + 1].bytes)
    OBVIOUS
  <2>4. /\ a \in Seq(S) /\ Len(a) = k + 1 /\ u \in Seq(S) /\ Len(u) = k
        /\ \A i \in 1 .. k + 1 : a[i] = s[i].bytes
        /\ \A i \in 1 .. k : u[i] = s[i].bytes
    BY <1>2, <2>1, <2>3
  <2> HIDE DEF S, U
  <2>5. b \in Seq(S) /\ Len(b) = k + 1 /\ b[k + 1] = s[k + 1].bytes /\ \A i \in 1 .. k : b[i] = u[i]
    BY <2>2, <2>3, <2>4, AppendProperties
  <2>6. ASSUME NEW i \in 1 .. Len(a) PROVE a[i] = b[i]
    BY <2>1, <2>4, <2>5
  <2>7. a = b
    BY <2>4, <2>5, <2>6, SeqEqual
  <2> QED BY <2>2, <2>3, <2>7
<1>5. FlattenSeq(U(k)) \in Seq(Byte)
  <2> HIDE DEF U
  <2> QED BY <1>3, FlattenElements
<1>6. ASSUME k < Len(s) PROVE FlattenSeq(U(k + 1)) = FlattenSeq(U(k)) \o s[k + 1].bytes
  <2>1. s[k + 1].bytes \in Seq(Byte) /\ U(k + 1) = Append(U(k), s[k + 1].bytes)
    BY <1>4, <1>6
  <2> HIDE DEF U
  <2>2. FlattenSeq(Append(U(k), s[k + 1].bytes)) = FlattenSeq(U(k)) \o s[k + 1].bytes
    BY <1>3, <2>1, FlattenAppend
  <2> QED BY <2>1, <2>2
<1> QED BY <1>5, <1>6 DEF Frames

\* All the bytes begin with those of the first k items.
LEMMA FramesRest ==
  ASSUME NEW s \in Scripts, NEW k \in 0 .. Len(s)
  PROVE  \E rest \in Seq(Byte) : Frames(s, Len(s)) = Frames(s, k) \o rest
<1>1. Len(s) \in Nat /\ k \in Nat
  BY ScriptFacts
<1> DEFINE S == {j \in Nat : k + j <= Len(s) =>
                   \E rest \in Seq(Byte) : Frames(s, k + j) = Frames(s, k) \o rest}
<1>2. 0 \in S
  <2>1. Frames(s, k) \o << >> = Frames(s, k) /\ << >> \in Seq(Byte) /\ k + 0 = k
    BY <1>1, FramesFacts, ConcatEmptySeq
  <2> QED BY <2>1
<1>3. ASSUME NEW j \in Nat, j \in S PROVE j + 1 \in S
  <2> SUFFICES ASSUME k + (j + 1) <= Len(s)
               PROVE  \E rest \in Seq(Byte) : Frames(s, k + (j + 1)) = Frames(s, k) \o rest
    OBVIOUS
  <2>1. PICK i : i = k + j /\ i \in 0 .. Len(s) /\ i < Len(s) /\ i + 1 = k + (j + 1) /\ i + 1 \in 1 .. Len(s)
    BY <1>1
  <2>2. PICK rest \in Seq(Byte) : Frames(s, i) = Frames(s, k) \o rest
    BY <1>3, <2>1
  <2>3. PICK b : b = s[i + 1].bytes /\ b \in Seq(Byte)
    BY <2>1, ScriptFacts
  <2>4. Frames(s, i + 1) = Frames(s, i) \o b
    BY <2>1, <2>3, FramesFacts
  <2>5. Frames(s, k) \in Seq(Byte)
    BY FramesFacts
  <2>6. Assoc(Byte, Frames(s, k), rest, b)
    BY <2>3, <2>5, Joined, Zenon
  <2> QED BY <2>1, <2>2, <2>4, <2>6 DEF Assoc
<1>4. PICK j : j = Len(s) - k /\ j \in Nat /\ k + j = Len(s)
  BY <1>1
<1>5. j \in S
  <2> HIDE DEF S
  <2> QED BY <1>2, <1>3, <1>4, SetInduction
<1> QED BY <1>1, <1>4, <1>5

-----------------------------------------------------------------------------
(* Reading.                                                                *)

\* g and b are two parts of s.
SplitIn(s, g, b) == g \in Seq(Byte) /\ b \in Seq(Byte) /\ g \o b = s

LEMMA Halves ==
  ASSUME NEW s \in Seq(Byte), NEW n \in Nat
  PROVE  SplitIn(s, Upto(s, n), Beyond(s, n))
<1>1. PICK k : k = Smaller(n, Len(s)) /\ k \in 0 .. Len(s) /\ Len(s) \in Nat
  BY DEF Smaller
<1>2. /\ SubSeq(s, 1, k) \o SubSeq(s, k + 1, Len(s)) = SubSeq(s, 1, Len(s))
      /\ SubSeq(s, 1, Len(s)) = s
  <2>1. 1 \in 1 .. Len(s) + 1 /\ k \in (1 - 1) .. Len(s) /\ Len(s) \in k .. Len(s)
    BY <1>1
  <2> QED BY <2>1, ConcatAdjacentSubSeq, SubSeqFull
<1>3. SubSeq(s, 1, k) \in Seq(Byte) /\ SubSeq(s, k + 1, Len(s)) \in Seq(Byte)
  <2>1. k \in Int /\ k + 1 \in Int /\ Len(s) \in Int
    BY <1>1
  <2>2. (\A i \in 1 .. k : s[i] \in Byte) /\ (\A i \in k + 1 .. Len(s) : s[i] \in Byte)
    BY <1>1
  <2> QED BY <2>1, <2>2, SubSeqProperties
<1> QED BY <1>1, <1>2, <1>3 DEF SplitIn, Upto, Beyond, Take, Drop

\* The bytes of the client that are not decoded yet, wherever they are.
Unread == read_buf \o (read_buffer \o input)

BytesHeld == read_buf \in Seq(Byte) /\ read_buffer \in Seq(Byte) /\ input \in Seq(Byte)

LEMMA ReadKeeps ==
  ASSUME BytesHeld, ReadSome, transport # "ws" => read_buffer = << >>
  PROVE  BytesHeld' /\ Unread' = Unread /\ \E got \in Seq(Byte) : read_buf' = read_buf \o got
<1>0. read_buf \in Seq(Byte) /\ read_buffer \in Seq(Byte) /\ input \in Seq(Byte) /\ << >> \in Seq(Byte)
  BY DEF BytesHeld
<1>1. (\A n \in Chunks : n \in Nat) /\ (\A n \in Rooms : n \in Nat)
  BY ConnectionAssumption
<1>2. \E got, left, rest \in Seq(Byte) :
        /\ read_buf' = read_buf \o got /\ read_buffer' = left /\ input' = rest
        /\ got \o (left \o rest) = read_buffer \o input
  <2>0. PICK r : /\ r \in (IF transport = "ws" THEN poll_read ELSE socket_read)
                 /\ read_buf' = read_buf \o r.got /\ read_buffer' = r.left /\ input' = r.rest
    BY DEF ReadSome
  \* What remains to show of what was read, what is left and the rest.
  <2>4. ASSUME NEW g \in Seq(Byte), NEW b \in Seq(Byte), NEW e \in Seq(Byte),
               r = [got |-> g, left |-> b, rest |-> e], g \o (b \o e) = read_buffer \o input
        PROVE  \E got, left, rest \in Seq(Byte) :
                 /\ read_buf' = read_buf \o got /\ read_buffer' = left /\ input' = rest
                 /\ got \o (left \o rest) = read_buffer \o input
    <3>1. read_buf' = read_buf \o g /\ read_buffer' = b /\ input' = e
      BY <2>0, <2>4
    <3> QED BY <2>4, <3>1
  <2>1. CASE transport = "ws" /\ read_buffer # << >>
    <3>1. PICK m \in Rooms : r = [got |-> Upto(read_buffer, m), left |-> Beyond(read_buffer, m), rest |-> input]
      BY <2>0, <2>1 DEF poll_read
    <3>2. PICK g, b : g = Upto(read_buffer, m) /\ b = Beyond(read_buffer, m)
      OBVIOUS
    <3>3. SplitIn(read_buffer, g, b)
      BY <1>0, <1>1, <3>2, Halves
    <3>4. Assoc(Byte, g, b, input)
      BY <1>0, <3>3, Joined, Zenon DEF SplitIn
    <3>5. g \in Seq(Byte) /\ b \in Seq(Byte) /\ g \o (b \o input) = read_buffer \o input
      BY <3>3, <3>4 DEF SplitIn, Assoc
    <3> QED BY <1>0, <2>4, <3>1, <3>2, <3>5
  <2>2. CASE transport = "ws" /\ read_buffer = << >>
    <3>1. PICK n \in Chunks, m \in Rooms :
            r = [got |-> Upto(Upto(input, n), m), left |-> Beyond(Upto(input, n), m), rest |-> Beyond(input, n)]
      BY <2>0, <2>2 DEF poll_read
    <3>2. PICK c, e : c = Upto(input, n) /\ e = Beyond(input, n)
      OBVIOUS
    <3>3. SplitIn(input, c, e)
      BY <1>0, <1>1, <3>2, Halves
    <3>4. PICK g, b : g = Upto(c, m) /\ b = Beyond(c, m)
      OBVIOUS
    <3>5. SplitIn(c, g, b)
      BY <1>1, <3>3, <3>4, Halves DEF SplitIn
    <3>6. Assoc(Byte, g, b, e)
      BY <3>3, <3>5, Joined, Zenon DEF SplitIn
    <3>7. << >> \o input = input
      BY <1>0, ConcatEmptySeq
    <3>8. /\ g \in Seq(Byte) /\ b \in Seq(Byte) /\ e \in Seq(Byte)
          /\ g \o (b \o e) = read_buffer \o input
      BY <2>2, <3>3, <3>5, <3>6, <3>7 DEF SplitIn, Assoc
    <3> QED BY <2>4, <3>1, <3>2, <3>4, <3>8
  <2>3. CASE transport # "ws"
    <3>1. PICK n \in Chunks : r = [got |-> Upto(input, n), left |-> << >>, rest |-> Beyond(input, n)]
      BY <2>0, <2>3 DEF socket_read
    <3>2. PICK c, e : c = Upto(input, n) /\ e = Beyond(input, n)
      OBVIOUS
    <3>3. SplitIn(input, c, e)
      BY <1>0, <1>1, <3>2, Halves
    <3>4. << >> \o input = input /\ << >> \o e = e
      BY <1>0, <3>3, ConcatEmptySeq DEF SplitIn
    <3>5. /\ c \in Seq(Byte) /\ e \in Seq(Byte)
          /\ c \o (<< >> \o e) = read_buffer \o input
      BY <2>3, <3>3, <3>4 DEF SplitIn
    <3> QED BY <1>0, <2>4, <3>1, <3>2, <3>5
  <2> QED BY <2>1, <2>2, <2>3
<1>3. PICK got \in Seq(Byte), left \in Seq(Byte), rest \in Seq(Byte) :
        /\ read_buf' = read_buf \o got /\ read_buffer' = left /\ input' = rest
        /\ got \o (left \o rest) = read_buffer \o input
  BY <1>2
<1>4. PICK lr : lr = left \o rest /\ lr \in Seq(Byte)
  BY ConcatProperties
<1>5. Assoc(Byte, read_buf, got, lr)
  BY <1>0, <1>4, Joined, Zenon
<1>6. BytesHeld'
  BY <1>3, <1>5 DEF BytesHeld, Assoc
<1>7. Unread' = Unread
  BY <1>3, <1>4, <1>5 DEF Unread, Assoc
<1> QED BY <1>3, <1>6, <1>7

-----------------------------------------------------------------------------
(* The packets of the client.                                              *)

LEMMA NoFrames == ASSUME NEW s PROVE Frames(s, 0) = << >>
<1>1. [i \in 1 .. 0 |-> s[i].bytes] = << >>
  OBVIOUS
<1>2. FlattenSeq(<< >>) = << >>
  BY DEF FlattenSeq
<1> QED BY <1>1, <1>2 DEF Frames

\* buf is the front of what follows the first k items of s, more the rest.
Follows(s, k, buf, more) ==
  /\ s \in Scripts /\ k \in 0 .. Len(s)
  /\ \A i \in DOMAIN s : ItemDecodes(s[i])
  /\ buf \in Seq(Byte) /\ more \in Seq(Byte)
  /\ Frames(s, k) \o (buf \o more) = Frames(s, Len(s))

\* They begin with the next item.
Begins(s, k, stream) ==
  \E rest \in Seq(Byte) : /\ stream = s[k + 1].bytes \o rest
                          /\ Frames(s, k + 1) \o rest = Frames(s, Len(s))

LEMMA NextItem ==
  ASSUME NEW s, NEW k, NEW buf, NEW more, Follows(s, k, buf, more), k < Len(s)
  PROVE  /\ Begins(s, k, buf \o more)
         /\ s[k + 1].bytes \in Seq(Byte) /\ ItemDecodes(s[k + 1]) /\ k + 1 \in 0 .. Len(s)
         /\ Settled(buf) => decode_packet(buf) = decode_packet(s[k + 1].bytes)
<1>1. /\ s \in Scripts /\ k \in 0 .. Len(s) /\ buf \in Seq(Byte) /\ more \in Seq(Byte)
      /\ Frames(s, k) \o (buf \o more) = Frames(s, Len(s))
  BY DEF Follows
<1>2. PICK b, F, G, w : b = s[k + 1].bytes /\ F = Frames(s, k) /\ G = Frames(s, k + 1) /\ w = buf \o more
  OBVIOUS
<1>3. k + 1 \in 1 .. Len(s) /\ k + 1 \in 0 .. Len(s) /\ DOMAIN s = 1 .. Len(s)
  BY <1>1, ScriptFacts
<1>4. b \in Seq(Byte) /\ ItemDecodes(s[k + 1])
  BY <1>1, <1>2, <1>3, ScriptFacts DEF Follows
<1>5. F \in Seq(Byte) /\ G = F \o b
  BY <1>1, <1>2, FramesFacts
<1>6. PICK rest \in Seq(Byte) : Frames(s, Len(s)) = G \o rest
  BY <1>1, <1>2, <1>3, FramesRest
<1>7. w = b \o rest /\ w \in Seq(Byte)
  <2>1. Assoc(Byte, F, b, rest)
    BY <1>4, <1>5, Joined, Zenon
  <2>2. PICK br : br = b \o rest /\ br \in Seq(Byte)
    BY <2>1 DEF Assoc
  <2>3. F \o w = F \o br
    BY <1>1, <1>2, <1>5, <1>6, <2>1, <2>2 DEF Assoc
  <2>4. w \in Seq(Byte)
    BY <1>1, <1>2, ConcatProperties
  <2>5. w = br
    BY <1>5, <2>2, <2>3, <2>4, ConcatSimplifications, Zenon
  <2> QED BY <2>2, <2>4, <2>5
<1>8. ASSUME Settled(buf) PROVE decode_packet(buf) = decode_packet(b)
  <2>1. decode_packet(w) = decode_packet(buf)
    BY <1>1, <1>2, <1>8, PacketLocal
  <2>2. Settled(b)
    BY <1>2, <1>4 DEF ItemDecodes
  <2>3. decode_packet(b \o rest) = decode_packet(b)
    BY <1>4, <2>2, PacketLocal
  <2> QED BY <1>7, <2>1, <2>3
<1>9. Begins(s, k, buf \o more)
  BY <1>2, <1>6, <1>7 DEF Begins
<1> QED BY <1>2, <1>3, <1>4, <1>8, <1>9

\* What is decoded is the packet that was sent next, and what is left of the
\* buffer are the bytes that follow it.
LEMMA NextPacket ==
  ASSUME NEW s, NEW k, NEW buf, NEW more, Follows(s, k, buf, more), NEW r, r = decode_packet(buf), r.err = "none"
  PROVE  /\ k < Len(s) /\ s[k + 1].means # << >> /\ r.val = s[k + 1].means[1]
         /\ Follows(s, k + 1, Drop(buf, r.read), more)
<1>1. /\ s \in Scripts /\ k \in 0 .. Len(s) /\ buf \in Seq(Byte) /\ more \in Seq(Byte) /\ Len(s) \in Nat
      /\ Frames(s, k) \o (buf \o more) = Frames(s, Len(s))
  BY ScriptFacts DEF Follows
<1>2. Settled(buf) /\ buf # << >> /\ r.read \in Nat /\ r.read <= Len(buf)
  <2>1. r.err \in {"none", "panic"}
    OBVIOUS
  <2> QED BY <1>1, <2>1, PacketNeedsFrame DEF Settled
<1>3. k < Len(s)
  <2> SUFFICES ASSUME ~ (k < Len(s)) PROVE FALSE
    OBVIOUS
  <2>1. k = Len(s)
    BY <1>1
  <2>2. PICK F, w : F = Frames(s, k) /\ w = buf \o more /\ F \in Seq(Byte) /\ w \in Seq(Byte)
    BY <1>1, FramesFacts, ConcatProperties
  <2>3. F \o w = F
    BY <1>1, <2>1, <2>2
  <2>4. w = << >>
    BY <2>2, <2>3, ConcatEqualIffEmpty
  <2>5. buf = << >>
    <3>1. buf \o more = << >> /\ buf \in Seq(Byte) /\ more \in Seq(Byte)
      BY <1>1, <2>2, <2>4
    <3>2. Len(buf) \in Nat /\ Len(more) \in Nat /\ Len(buf) + Len(more) = 0
      BY <3>1, ConcatProperties
    <3>3. Len(buf) = 0
      BY <3>2
    <3> QED BY <3>1, <3>3, EmptySeq
  <2> QED BY <1>2, <2>5
<1>4. PICK b : b = s[k + 1].bytes
  OBVIOUS
<1>5. /\ b \in Seq(Byte) /\ ItemDecodes(s[k + 1]) /\ k + 1 \in 0 .. Len(s)
      /\ r = decode_packet(b)
  BY <1>2, <1>3, <1>4, NextItem
<1>6. PICK rest \in Seq(Byte) : buf \o more = b \o rest /\ Frames(s, k + 1) \o rest = Frames(s, Len(s))
  <2>1. Begins(s, k, buf \o more)
    BY <1>3, NextItem
  <2> QED BY <1>4, <2>1 DEF Begins
<1>7. s[k + 1].means # << >> /\ r = Value(s[k + 1].means[1], Len(b))
  BY <1>4, <1>5 DEF ItemDecodes
<1>8. r.val = s[k + 1].means[1] /\ r.read = Len(b)
  BY <1>7 DEF Value
<1>9. PICK d : d = Drop(buf, r.read)
  OBVIOUS
<1>10. d \in Seq(Byte) /\ d \o more = rest
  <2>1. r.read \in 0 .. Len(buf)
    BY <1>1, <1>2
  <2>2. d \in Seq(Byte)
    BY <1>1, <1>9, <2>1, DropFacts
  <2>3. Drop(buf \o more, r.read) = d \o more
    BY <1>1, <1>9, <2>1, DropOfConcat
  <2>4. Drop(b \o rest, Len(b)) = rest
    BY <1>5, DropFirst
  <2> QED BY <1>6, <1>8, <2>2, <2>3, <2>4
<1>11. Follows(s, k + 1, d, more)
  BY <1>1, <1>5, <1>6, <1>10 DEF Follows
<1> QED BY <1>3, <1>7, <1>8, <1>9, <1>11

\* An item that means a packet is decoded as soon as a frame is there.
LEMMA PacketIsDecoded ==
  ASSUME NEW s, NEW k, NEW buf, NEW more, Follows(s, k, buf, more), Settled(buf),
         k < Len(s), s[k + 1].means # << >>
  PROVE  decode_packet(buf).err = "none"
<1>1. ItemDecodes(s[k + 1]) /\ decode_packet(buf) = decode_packet(s[k + 1].bytes)
  BY NextItem
<1> QED BY <1>1 DEF ItemDecodes, Value

-----------------------------------------------------------------------------
(* The way in.                                                             *)

\* Where the packets of log end and the bytes that are not decoded begin.
Aligned(k) == Follows(script, k, read_buf, read_buffer \o input)

InInv ==
  /\ BytesHeld
  /\ pc \in {"connect", "registered"} => Aligned(0) /\ fresh = TRUE
  /\ pc = "registered" => decode_packet(read_buf).err = "none"
  /\ pc \in {"read", "decode", "panicked"} => Aligned(Len(log))
  /\ pc = "read" /\ ~fresh => decode_packet(read_buf).err = "Incomplete"
  /\ pc = "panicked" => decode_packet(read_buf).err = "panic"

LEMMA InitIn == ASSUME Init, ScriptDecodes PROVE InInv
<1>1. /\ script \in Scripts /\ read_buffer = << >> /\ read_buf = << >> /\ pc = "connect" /\ fresh = TRUE
      /\ input = FlattenSeq([i \in DOMAIN script |-> script[i].bytes])
  BY DEF Init
<1>2. input = Frames(script, Len(script)) /\ Len(script) \in 0 .. Len(script) /\ 0 \in 0 .. Len(script)
  BY <1>1, ScriptFacts DEF Frames
<1>3. input \in Seq(Byte) /\ << >> \in Seq(Byte)
  BY <1>1, <1>2, FramesFacts
<1>4. << >> \o input = input /\ << >> \o (<< >> \o input) = input
  BY <1>3, ConcatEmptySeq
<1>5. << >> \o (<< >> \o (<< >> \o input)) = input
  BY <1>4
<1>6. Aligned(0)
  BY <1>1, <1>2, <1>3, <1>4, <1>5, NoFrames DEF Aligned, Follows, ScriptDecodes
<1> QED BY <1>1, <1>3, <1>6 DEF InInv, BytesHeld

\* A read changes where the bytes are, not which they are.
LEMMA ReadAligned ==
  ASSUME NEW k, Aligned(k), BytesHeld, ReadSome, UNCHANGED script, transport # "ws" => read_buffer = << >>
  PROVE  BytesHeld' /\ Follows(script, k, read_buf', read_buffer' \o input')
<1>1. BytesHeld' /\ Unread' = Unread
  BY ReadKeeps
<1>2. read_buf' \in Seq(Byte) /\ read_buffer' \in Seq(Byte) /\ input' \in Seq(Byte)
  BY <1>1 DEF BytesHeld
<1>3. read_buffer' \o input' \in Seq(Byte)
  BY <1>2, ConcatProperties
<1>4. read_buf' \o (read_buffer' \o input') = read_buf \o (read_buffer \o input)
  BY <1>1 DEF Unread
<1> QED BY <1>1, <1>2, <1>3, <1>4 DEF Aligned, Follows

\* Nothing is read or decoded, and the connection goes on or is over.
LEMMA SameIn ==
  ASSUME InInv, UNCHANGED <<script, input, read_buffer, read_buf, fresh, log>>,
         pc' = pc \/ pc' \in {"dropped", "refused", "ended"}
  PROVE  InInv'
<1>1. BytesHeld' /\ Aligned(0)' = Aligned(0) /\ Aligned(Len(log))' = Aligned(Len(log))
  BY DEF InInv, BytesHeld, Aligned
<1> QED BY <1>1 DEF InInv

LEMMA InNext == ASSUME ConnInv, InInv, [Next]_vars PROVE InInv'
<1>0. transport # "ws" => read_buffer = << >>
  BY DEF ConnInv, Places
<1>h. BytesHeld /\ \E P : log \in Seq(P)
  BY DEF InInv, ConnInv, AnsInv
<1>1. CASE FirstRead
  <2>1. pc = "connect" /\ ReadSome /\ UNCHANGED <<script, fresh>>
    BY <1>1 DEF FirstRead
  <2>2. BytesHeld' /\ Follows(script, 0, read_buf', read_buffer' \o input') /\ fresh = TRUE
    <3>1. Aligned(0) /\ fresh = TRUE
      BY <2>1 DEF InInv
    <3> QED BY <1>0, <1>h, <2>1, <3>1, ReadAligned
  <2>3. pc' \in {"dropped", "refused"} \/ (pc' = "registered" /\ decode_packet(read_buf').err = "none")
    BY <1>1 DEF FirstRead
  <2> QED BY <2>1, <2>2, <2>3 DEF InInv, Aligned
<1>2. CASE SendConnAck
  <2>1. /\ pc = "registered" /\ pc' = "read" /\ UNCHANGED <<script, input, read_buffer, fresh, log>>
        /\ read_buf' = Drop(read_buf, decode_packet(read_buf).read)
    BY <1>2 DEF SendConnAck
  <2>2. /\ Follows(script, 0, read_buf, read_buffer \o input) /\ decode_packet(read_buf).err = "none"
        /\ fresh = TRUE /\ Len(log) = 1
    BY <2>1 DEF InInv, Aligned, ConnInv, AnsInv
  <2>3. Follows(script, 0 + 1, read_buf', read_buffer \o input)
    BY <2>1, <2>2, NextPacket
  <2>4. Aligned(Len(log))' /\ read_buf' \in Seq(Byte)
    <3>1. 0 + 1 = 1
      OBVIOUS
    <3>2. Aligned(Len(log))'
      BY <2>1, <2>2, <2>3, <3>1 DEF Aligned
    <3>3. read_buf' \in Seq(Byte)
      BY <2>3 DEF Follows
    <3> QED BY <3>2, <3>3
  <2> QED BY <1>h, <2>1, <2>2, <2>4 DEF InInv, BytesHeld
<1>3. CASE Read
  <2>1. pc = "read" /\ ReadSome /\ pc' = "decode" /\ UNCHANGED <<script, log>>
    BY <1>3 DEF Read
  <2>2. Aligned(Len(log))
    BY <2>1 DEF InInv
  <2>3. BytesHeld' /\ Follows(script, Len(log), read_buf', read_buffer' \o input')
    BY <1>0, <1>h, <2>1, <2>2, ReadAligned
  <2> QED BY <2>1, <2>3 DEF InInv, Aligned
<1>4. CASE Decode
  <2>1. pc = "decode" /\ UNCHANGED <<script, input, read_buffer, fresh>> /\ Aligned(Len(log))
    BY <1>4 DEF Decode, InInv
  <2>2. PICK r : r = decode_packet(read_buf)
    OBVIOUS
  <2>3. ASSUME r.err = "none", log' = Append(log, r.val), read_buf' = Drop(read_buf, r.read), pc' = "decode"
        PROVE  InInv'
    <3>1. Follows(script, Len(log) + 1, read_buf', read_buffer \o input)
      BY <2>1, <2>2, <2>3, NextPacket DEF Aligned
    <3>2. Len(log') = Len(log) + 1
      <4>1. PICK P : log \in Seq(P)
        BY <1>h
      <4>2. log \in Seq(P \cup {r.val}) /\ r.val \in P \cup {r.val}
        BY <4>1, SeqMonotonic
      <4> QED BY <2>3, <4>2, AppendProperties
    <3>3. Aligned(Len(log))' /\ read_buf' \in Seq(Byte)
      BY <2>1, <3>1, <3>2 DEF Aligned, Follows
    <3> QED BY <1>h, <2>1, <2>3, <3>3 DEF InInv, BytesHeld
  <2>4. ASSUME pc' = "ended", UNCHANGED read_buf PROVE InInv'
    BY <1>h, <2>1, <2>4 DEF InInv, BytesHeld
  <2>5. ASSUME UNCHANGED <<read_buf, log>>,
               (r.err = "Incomplete" /\ pc' = "read") \/ (r.err = "panic" /\ pc' = "panicked")
        PROVE  InInv'
    <3>1. BytesHeld' /\ Aligned(Len(log))'
      BY <1>h, <2>1, <2>5 DEF BytesHeld, Aligned
    <3> QED BY <2>2, <2>5, <3>1 DEF InInv
  <2>6. Exit => pc' = "ended"
    BY DEF Exit
  <2> QED BY <1>4, <2>2, <2>3, <2>4, <2>5, <2>6 DEF Decode, AfterPacket
<1>5. CASE \/ GiveUp \/ Eof \/ StopReading \/ TakeMessage \/ SocketWrite \/ Flush
           \/ WriteFails \/ AnswerPing \/ Deliver \/ UNCHANGED vars
  <2>1. /\ UNCHANGED <<script, input, read_buffer, read_buf, fresh, log>>
        /\ pc' = pc \/ pc' \in {"dropped", "refused", "ended"}
    BY <1>5 DEF GiveUp, Eof, StopReading, TakeMessage, SocketWrite, Flush, WriteFails,
                AnswerPing, Deliver, vars, reading, Exit
  <2> QED BY <2>1, SameIn
<1> QED BY <1>1, <1>2, <1>3, <1>4, <1>5 DEF Next

\* The next packet is handled: what the specification of the stream allows.
LEMMA HandleStep ==
  ASSUME ConnInv, pc \in {"connect", "decode"}, UNCHANGED script,
         NEW buf, NEW more, Follows(script, Len(log), buf, more),
         NEW r, r = decode_packet(buf), r.err = "none", log' = Append(log, r.val)
  PROVE  Stream!Handle
<1>1. PICK P : log \in Seq(P)
  BY DEF ConnInv, AnsInv
<1>2. PICK Q, v : Q = P \cup {r.val} /\ v = r.val
  OBVIOUS
<1>3. log \in Seq(Q) /\ v \in Q
  BY <1>1, <1>2, SeqMonotonic
<1>4. /\ log' \in Seq(Q) /\ Len(log') = Len(log) + 1 /\ Len(log) \in Nat /\ log'[Len(log) + 1] = v
      /\ \A i \in 1 .. Len(log) : log'[i] = log[i]
  BY <1>2, <1>3, AppendProperties
<1>5. SubSeq(log', 1, Len(log)) = log
  <2>1. PICK a : a = SubSeq(log', 1, Len(log))
    OBVIOUS
  <2>2. a \in Seq(Q) /\ Len(a) = Len(log) /\ \A i \in 1 .. Len(log) : a[i] = log'[i]
    BY <1>4, <2>1
  <2>3. a = log
    BY <1>3, <1>4, <2>2, SeqEqual
  <2> QED BY <2>1, <2>3
<1>6. /\ Len(log) < Len(script) /\ script[Len(log) + 1].means # << >>
      /\ r.val = script[Len(log) + 1].means[1]
  BY NextPacket
<1>7. (pc \in {"connect", "registered", "read", "decode"}) = TRUE
  OBVIOUS
<1>8. (pc' \in {"connect", "registered", "read", "decode"}) \in BOOLEAN
  OBVIOUS
<1> QED BY <1>2, <1>4, <1>5, <1>6, <1>7, <1>8 DEF Stream!Handle

LEMMA StreamStep == ASSUME ConnInv, InInv, [Next]_vars PROVE [Stream!Next]_(Stream!vars)
<1>1. CASE FirstRead
  <2>1. pc = "connect" /\ ReadSome /\ UNCHANGED <<script, fresh>> /\ log = << >>
    BY <1>1 DEF FirstRead, ConnInv, AnsInv
  <2>2. CASE pc' = "dropped" /\ UNCHANGED log
    BY <2>1, <2>2 DEF Stream!Next, Stream!Close
  <2>3. ASSUME NEW r, r = decode_packet(read_buf'), r.err = "none", log' = <<r.val>>
        PROVE  Stream!Handle
    <3>1. Aligned(0) /\ BytesHeld /\ (transport # "ws" => read_buffer = << >>)
      BY <2>1 DEF InInv, ConnInv, Places
    <3>2. PICK buf, more : buf = read_buf' /\ more = read_buffer' \o input'
      OBVIOUS
    <3>3. Follows(script, 0, buf, more)
      BY <2>1, <3>1, <3>2, ReadAligned
    <3>4. Len(log) = 0 /\ log' = Append(log, r.val)
      BY <2>1, <2>3
    <3> QED BY <2>1, <2>3, <3>2, <3>3, <3>4, HandleStep
  <2> QED BY <1>1, <2>2, <2>3 DEF FirstRead, Stream!Next
<1>2. CASE Decode
  <2>1. pc = "decode" /\ UNCHANGED script /\ Aligned(Len(log))
    BY <1>2 DEF Decode, InInv
  <2>2. ASSUME NEW r, r = decode_packet(read_buf), r.err = "none", log' = Append(log, r.val)
        PROVE  Stream!Handle
    BY <2>1, <2>2, HandleStep DEF Aligned
  <2>3. CASE UNCHANGED log /\ pc' \in {"read", "ended", "panicked"}
    BY <2>1, <2>3 DEF Stream!Next, Stream!Close, Stream!vars
  <2>4. Exit => pc' = "ended"
    BY DEF Exit
  <2> QED BY <1>2, <2>2, <2>3, <2>4 DEF Decode, Stream!Next
<1>3. CASE SendConnAck \/ Read
  <2>1. UNCHANGED <<script, log>> /\ pc \in {"registered", "read"} /\ pc' \in {"read", "decode"}
    BY <1>3 DEF SendConnAck, Read
  <2> QED BY <2>1 DEF Stream!vars
<1>4. CASE GiveUp \/ Eof \/ StopReading
  <2>1. UNCHANGED <<script, log>> /\ pc \in {"connect", "read"} /\ pc' \in {"dropped", "ended"}
    BY <1>4 DEF GiveUp, Eof, StopReading, Exit, reading
  <2> QED BY <2>1 DEF Stream!Next, Stream!Close
<1>5. CASE \/ TakeMessage \/ SocketWrite \/ Flush
           \/ WriteFails \/ AnswerPing \/ Deliver \/ UNCHANGED vars
  <2>1. UNCHANGED <<script, log, pc>>
    BY <1>5 DEF TakeMessage, SocketWrite, Flush, WriteFails, AnswerPing, Deliver, vars, reading
  <2> QED BY <2>1 DEF Stream!vars
<1> QED BY <1>1, <1>2, <1>3, <1>4, <1>5 DEF Next

LEMMA InInvariant == ScriptDecodes /\ Spec => [](ConnInv /\ InInv)
<1>1. ScriptDecodes /\ Init => InInv
  BY InitIn
<1>2. ConnInv /\ InInv /\ [Next]_vars => InInv'
  BY InNext
<1> QED BY <1>1, <1>2, ConnInvariant, PTL DEF Spec

\* However the network cuts a client's bytes into pieces, and whichever of
\* the transports carries them, the packets it sends are handled in the order
\* of sending, each once and as it was sent, until the connection ends
\* (handle_connection, decode_packet, poll_read): a script of which every
\* item decodes by itself is decoded in the same way from the pieces.
THEOREM PacketsKeepOrder == ScriptDecodes /\ Spec => StreamHandledInOrder
<1>1. Init => Stream!Init
  BY DEF Init, Stream!Init
<1>2. ConnInv /\ InInv /\ [Next]_vars => [Stream!Next]_(Stream!vars)
  BY StreamStep
<1> QED BY <1>1, <1>2, InInvariant, PTL DEF Spec, StreamHandledInOrder, Stream!Spec

\* A packet waits in the buffer of a connection that waits for bytes only if
\* it came together with the CONNECT and nothing came since.
THEOREM NoPacketWaits == ScriptDecodes /\ Spec => []OnlyPipelinedWaits
<1>1. ConnInv /\ InInv => OnlyPipelinedWaits
  <2> SUFFICES ASSUME InInv, ConnInv, pc = "read", NextIsPacket, CompleteFrame(read_buf), ~ fresh
               PROVE  FALSE
    BY DEF OnlyPipelinedWaits
  <2>1. /\ Follows(script, Len(log), read_buf, read_buffer \o input)
        /\ decode_packet(read_buf).err = "Incomplete" /\ read_buf \in Seq(Byte)
    BY DEF InInv, Aligned, BytesHeld
  <2>2. Len(log) < Len(script) /\ script[Len(log) + 1].means # << >>
    BY DEF NextIsPacket
  <2>3. Settled(read_buf)
    BY <2>1, SettledFacts
  <2>4. decode_packet(read_buf).err = "none"
    BY <2>1, <2>2, <2>3, PacketIsDecoded
  <2> QED BY <2>1, <2>4
<1> QED BY <1>1, InInvariant, PTL

-----------------------------------------------------------------------------
(* No reader looks past the end of its slice.                              *)

LEMMA PanicIsConnect ==
  ASSUME NEW buf \in Seq(Byte), decode_packet(buf).err = "panic"
  PROVE  CompleteFrame(buf) /\ Settled(buf) /\ buf[1] = 16
<1>1. CompleteFrame(buf) /\ Settled(buf)
  BY PacketNeedsFrame
<1>2. PICK n : n = decode_varint(Drop(buf, 1))
  OBVIOUS
<1>3. /\ Len(buf) >= 1 /\ n.err = "none" /\ Len(buf) >= 1 + n.read + n.val
  BY <1>1, <1>2, SettledFacts
<1>4. Drop(buf, 1) \in Seq(Byte) /\ Len(buf) \in Nat
  <2>1. buf # << >>
    BY <1>1 DEF Settled
  <2> QED BY <2>1, SettledFacts
<1>5. n.read \in Nat /\ n.val \in Nat
  BY <1>2, <1>3, <1>4, NumberRead
<1>6. PICK y : y = 1 + n.read + n.val /\ y \in Nat /\ y <= Len(buf)
  BY <1>3, <1>4, <1>5
<1>7. decode_packet(buf) = Framed(Payload(buf, n), y)
  <2>1. ~ (Len(buf) < 1) /\ ~ (Len(buf) < y)
    BY <1>3, <1>4, <1>6
  <2> QED BY <1>2, <1>3, <1>6, <2>1, DecodePacketIs DEF Decoded
<1>8. Payload(buf, n).err = "panic"
  BY <1>7 DEF Framed, Value, Failed
<1>9. SubSeq(buf, n.read + 2, y) \in Seq(Byte)
  <2>1. PICK x : x = n.read + 2 /\ x \in Nat /\ x >= 1
    BY <1>5
  <2>2. \A i \in x .. y : i \in 1 .. Len(buf)
    BY <1>4, <1>6, <2>1
  <2>3. \A i \in x .. y : buf[i] \in Byte
    BY <2>2
  <2>4. x \in Int /\ y \in Int
    BY <1>6, <2>1
  <2>5. SubSeq(buf, x, y) \in Seq(Byte)
    BY <2>3, <2>4, SubSeqProperties
  <2> QED BY <2>1, <2>5
<1>10. buf[1] \div 16 = 1 /\ buf[1] % 16 = 0
  <2>1. DecodePayload(buf[1] \div 16, buf[1] % 16, SubSeq(buf, n.read + 2, y)).err = "panic"
    BY <1>6, <1>8 DEF Payload
  <2> QED BY <1>9, <2>1, PayloadCalm
<1>11. buf[1] \in 0 .. 255
  <2>1. 1 \in 1 .. Len(buf)
    BY <1>3, <1>4
  <2>2. buf[1] \in Byte
    BY <2>1
  <2> QED BY <2>2 DEF Byte
<1>12. PICK h : h = buf[1] /\ h \in 0 .. 255 /\ h \div 16 = 1 /\ h % 16 = 0
  BY <1>10, <1>11
<1>13. h = 16
  BY <1>12
<1> QED BY <1>1, <1>12, <1>13

\* The task of a connection dies with its session registered only at a second
\* CONNECT frame that is not what the client meant: no other bytes, and no
\* way of cutting them, lead there (decode_packet and all readers below it).
THEOREM OnlyConnectPanics == ScriptDecodes /\ Spec => []OnlyWillPanics
<1>1. ConnInv /\ InInv => OnlyWillPanics
  <2> SUFFICES ASSUME InInv, pc = "panicked"
               PROVE  ~ NextIsPacket /\ CompleteFrame(read_buf) /\ read_buf[1] = 16
    BY DEF OnlyWillPanics
  <2>1. /\ Follows(script, Len(log), read_buf, read_buffer \o input)
        /\ decode_packet(read_buf).err = "panic" /\ read_buf \in Seq(Byte)
    BY DEF InInv, Aligned, BytesHeld
  <2>2. CompleteFrame(read_buf) /\ Settled(read_buf) /\ read_buf[1] = 16
    BY <2>1, PanicIsConnect
  <2>3. ASSUME NextIsPacket PROVE FALSE
    <3>1. Len(log) < Len(script) /\ script[Len(log) + 1].means # << >>
      BY <2>3 DEF NextIsPacket
    <3>2. decode_packet(read_buf).err = "none"
      BY <2>1, <2>2, <3>1, PacketIsDecoded
    <3> QED BY <2>1, <3>2
  <2> QED BY <2>2, <2>3
<1> QED BY <1>1, InInvariant, PTL

-----------------------------------------------------------------------------
(* Clients that send what encode_packet writes.                            *)

LEMMA EncodedDecodes == ASSUME NEW item, Encoded(item) PROVE ItemDecodes(item) /\ item.means # << >>
<1>1. PICK p : Encodable(p) /\ item = [bytes |-> encode_packet(p), means |-> <<p>>]
  BY DEF Encoded
<1>2. PICK k : k = encode_packet(p)
  OBVIOUS
<1>3. item.bytes = k /\ item.means = <<p>> /\ item.means # << >> /\ item.means[1] = p
  BY <1>1, <1>2
<1>4. k \in Seq(Byte)
  <2>1. PICK s, h : s = EncodePayload(p) /\ h = EncodeHeader(p)
    OBVIOUS
  <2>2. s \in Seq(Byte) /\ h \in Byte
    BY <1>1, <2>1, PacketReadBack DEF ReadBack
  <2>3. Len(s) <= MaxVarint
    BY <1>1, <2>1 DEF Encodable
  <2>4. k = (<<h>> \o encode_varint(Len(s))) \o s
    BY <1>2, <2>1 DEF encode_packet
  <2>5. << >> \in Seq(Byte)
    OBVIOUS
  <2>6. PacketIn(h, s, VarintLen(Len(s)), k, k \o << >>)
    BY <2>2, <2>3, <2>4, <2>5, PacketBytes
  <2> QED BY <2>6, Zenon DEF PacketIn
<1>5. << >> \in Seq(Byte) /\ k \o << >> = k
  BY <1>4, ConcatEmptySeq
<1>6. decode_packet(k) = Value(p, Len(k))
  BY <1>1, <1>2, <1>5, PacketRoundTrip, Zenon
<1>7. decode_packet(k).err = "none"
  BY <1>6 DEF Value
<1>8. Settled(k)
  BY <1>4, <1>7, PacketNeedsFrame
<1> QED BY <1>3, <1>6, <1>8 DEF ItemDecodes

LEMMA EncodedScriptDecodes == EncodedScript => ScriptDecodes
BY EncodedDecodes DEF EncodedScript, ScriptDecodes

LEMMA ScriptStays == [Next]_vars => script' = script
<1> SUFFICES ASSUME [Next]_vars PROVE script' = script
  OBVIOUS
<1>1. CASE FirstRead \/ SendConnAck \/ Read \/ Decode \/ GiveUp \/ Eof \/ StopReading
  BY <1>1 DEF FirstRead, SendConnAck, Read, Decode, GiveUp, Eof, StopReading, reading
<1>2. CASE TakeMessage \/ SocketWrite \/ Flush \/ WriteFails \/ AnswerPing \/ Deliver
  BY <1>2 DEF TakeMessage, SocketWrite, Flush, WriteFails, AnswerPing, Deliver, reading
<1>3. CASE UNCHANGED vars
  BY <1>3 DEF vars, reading
<1> QED BY <1>1, <1>2, <1>3 DEF Next

LEMMA EncodedInvariant == EncodedScript /\ Spec => [](EncodedScript /\ ScriptDecodes)
<1>1. EncodedScript /\ [Next]_vars => EncodedScript'
  BY ScriptStays DEF EncodedScript
<1> QED BY <1>1, EncodedScriptDecodes, PTL DEF Spec

\* What a client means is what the codec makes of its bytes, whatever packets
\* it sends (encode_packet, decode_packet).
THEOREM EncodedScriptsDecode == EncodedScript /\ Spec => []ScriptDecodes
BY EncodedInvariant, PTL

\* A client that sends packets, of any kinds, with any properties, in any
\* number, has them handled in its order, each once and with the fields it
\* gave them, however the bytes are cut into pieces and whichever transport
\* carries them; while the loop waits for bytes none of its packets waits,
\* except behind the CONNECT (encode_packet, poll_read, handle_connection,
\* decode_packet).
THEOREM PacketsArriveAsSent ==
  EncodedScript /\ Spec => StreamHandledInOrder /\ []OnlyPipelinedWaits
BY EncodedScriptDecodes, PacketsKeepOrder, NoPacketWaits

\* And no task of such a client's connection dies.
THEOREM EncodedNeverPanics == EncodedScript /\ Spec => [](pc # "panicked")
<1>1. ConnInv /\ InInv /\ EncodedScript => pc # "panicked"
  <2> SUFFICES ASSUME InInv, EncodedScript, pc = "panicked" PROVE FALSE
    OBVIOUS
  <2>1. PICK k : k = Len(log)
    OBVIOUS
  <2>2. /\ Follows(script, k, read_buf, read_buffer \o input)
        /\ decode_packet(read_buf).err = "panic" /\ read_buf \in Seq(Byte)
    BY <2>1 DEF InInv, Aligned, BytesHeld
  <2>3. Settled(read_buf)
    BY <2>2, PacketNeedsFrame
  <2>4. PICK more : /\ more = read_buffer \o input
                    /\ script \in Scripts /\ k \in 0 .. Len(script) /\ more \in Seq(Byte)
                    /\ Frames(script, k) \o (read_buf \o more) = Frames(script, Len(script))
    BY <2>2 DEF Follows
  <2>5. CASE k < Len(script)
    <3>1. k + 1 \in DOMAIN script
      <4>1. DOMAIN script = 1 .. Len(script) /\ Len(script) \in Nat
        BY <2>4, ScriptFacts
      <4> QED BY <2>4, <2>5, <4>1
    <3>2. Encoded(script[k + 1])
      BY <3>1 DEF EncodedScript
    <3>3. script[k + 1].means # << >>
      BY <3>2, EncodedDecodes
    <3>4. decode_packet(read_buf).err = "none"
      BY <2>2, <2>3, <2>5, <3>3, PacketIsDecoded
    <3> QED BY <2>2, <3>4
  <2>6. CASE ~ (k < Len(script))
    <3>1. k = Len(script)
      <4>1. Len(script) \in Nat
        BY <2>4, ScriptFacts
      <4> QED BY <2>4, <2>6, <4>1
    <3>2. PICK f, b : f = Frames(script, k) /\ b = read_buf \o more
      OBVIOUS
    <3>3. f \in Seq(Byte) /\ b \in Seq(Byte) /\ f \o b = f
      BY <2>2, <2>4, <3>1, <3>2, FramesFacts, ConcatProperties
    <3>4. Len(f \o b) = Len(f) + Len(b) /\ Len(f) \in Nat /\ Len(b) \in Nat
      BY <3>3, ConcatProperties
    <3>5. Len(b) = 0
      BY <3>3, <3>4
    <3>6. Len(b) = Len(read_buf) + Len(more) /\ Len(read_buf) \in Nat /\ Len(more) \in Nat
      BY <2>2, <2>4, <3>2, ConcatProperties
    <3>7. Len(read_buf) = 0
      BY <3>5, <3>6
    <3>8. read_buf # << >>
      BY <2>3 DEF Settled
    <3>9. read_buf = << >>
      BY <2>2, <3>7, EmptySeq, Zenon
    <3> QED BY <3>8, <3>9
  <2> QED BY <2>5, <2>6
<1> QED BY <1>1, EncodedInvariant, EncodedScriptDecodes, InInvariant, PTL
=============================================================================
