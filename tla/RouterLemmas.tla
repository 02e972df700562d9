---------------------------- MODULE RouterLemmas ----------------------------
(***************************************************************************)
(* What the operators of the router return, for all filters, topics and    *)
(* tries.  They are recursive functions, so the first part is induction    *)
(* over the natural numbers and the existence of recursive functions, both *)
(* stated with sets in the place of predicates.  The last part counts what *)
(* the delivery of a route sends.                                          *)
(***************************************************************************)
EXTENDS Router, SequenceTheorems, FiniteSetTheorems, TLAPS

-----------------------------------------------------------------------------
(* Induction and recursion.                                                *)

\* Every set of natural numbers that is not empty has a least element.
LEMMA LeastElement ==
  ASSUME NEW S, S \subseteq Nat, S # {}
  PROVE  \E m \in S : \A n \in S : m <= n
<1> DEFINE R == {ss \in Nat \X Nat : ss[1] < ss[2]}
<1>1. IsWellFoundedOn(R, Nat)
  BY NatLessThanWellFounded DEF OpToRel
<1>2. PICK x \in S : \A y \in S : ~ (<<y, x>> \in R)
  <2> HIDE DEF R
  <2> QED BY <1>1, WFMin
<1>3. \A y \in S : ~ (y < x)
  BY <1>2
<1> QED BY <1>3

\* Induction: the set of the numbers for which something holds is Nat.
LEMMA SetInduction ==
  ASSUME NEW S, 0 \in S, \A n \in Nat : n \in S => n + 1 \in S
  PROVE  Nat \subseteq S
<1> SUFFICES ASSUME Nat \ S # {} PROVE FALSE
  OBVIOUS
<1>1. PICK m \in Nat \ S : \A n \in Nat \ S : m <= n
  BY LeastElement
<1>2. m # 0 /\ m - 1 \in Nat
  BY <1>1
<1>3. m - 1 \in S
  BY <1>1, <1>2
<1> QED BY <1>1, <1>2, <1>3

\* Step is the body of a recursive function on D with values in V that looks
\* only at arguments of lower rank.
Recursion(D, V, N, rank, Step) ==
  /\ V # {} /\ N \in Nat
  /\ rank \in [D -> 0 .. N]
  /\ Step \in [D \X [D -> V] -> V]
  /\ \A x \in D : \A f, g \in [D -> V] :
       (\A y \in D : rank[y] < rank[x] => f[y] = g[y]) => Step[<<x, f>>] = Step[<<x, g>>]

\* Such a function exists.
LEMMA RecursionExists ==
  ASSUME NEW D, NEW V, NEW N, NEW rank, NEW Step, Recursion(D, V, N, rank, Step)
  PROVE  \E f \in [D -> V] : \A x \in D : f[x] = Step[<<x, f>>]
<1> USE DEF Recursion
<1> DEFINE Upto(n, f) == \A x \in D : rank[x] < n => f[x] = Step[<<x, f>>]
           S == {n \in Nat : \E f \in [D -> V] : Upto(n, f)}
<1>1. 0 \in S
  <2>1. PICK v \in V : TRUE
    OBVIOUS
  <2>2. [x \in D |-> v] \in [D -> V] /\ Upto(0, [x \in D |-> v])
    OBVIOUS
  <2> QED BY <2>2
<1>2. ASSUME NEW n \in Nat, n \in S PROVE n + 1 \in S
  <2>1. PICK f \in [D -> V] : Upto(n, f)
    BY <1>2
  <2> DEFINE g == [x \in D |-> Step[<<x, f>>]]
  <2>2. g \in [D -> V]
    OBVIOUS
  <2>3. \A x \in D : rank[x] < n => g[x] = f[x]
    BY <2>1
  <2>4. ASSUME NEW x \in D, rank[x] < n + 1 PROVE g[x] = Step[<<x, g>>]
    <3>1. \A y \in D : rank[y] < rank[x] => f[y] = g[y]
      BY <2>3, <2>4
    <3>2. Step[<<x, f>>] = Step[<<x, g>>]
      <4> HIDE DEF g
      <4> QED BY <2>2, <3>1
    <3> QED BY <3>2
  <2>5. Upto(n + 1, g)
    BY <2>4
  <2> HIDE DEF g, Upto
  <2> QED BY <2>2, <2>5
<1>3. N + 1 \in S
  <2> HIDE DEF S
  <2> QED BY <1>1, <1>2, SetInduction
<1>4. PICK f \in [D -> V] : Upto(N + 1, f)
  BY <1>3
<1>5. \A x \in D : rank[x] < N + 1
  OBVIOUS
<1> QED BY <1>4, <1>5

-----------------------------------------------------------------------------
(* The matcher of the access rules.                                        *)

\* One round of the loop of topic_matches_acl_filter, w being what the later
\* rounds return.
Round(topic, filter, w, i) ==
  IF i > Len(filter)
  THEN i = Len(topic) + 1
  ELSE \/ filter[i] = "#"
       \/ /\ i <= Len(topic)
          /\ filter[i] = "+" \/ filter[i] = topic[i]
          /\ w[i + 1]

LEMMA AclRounds ==
  ASSUME NEW L, NEW topic \in Seq(L), NEW filter \in Seq(L)
  PROVE  \E w \in [1 .. Len(filter) + 1 -> BOOLEAN] :
           /\ \A i \in 1 .. Len(filter) + 1 : w[i] = Round(topic, filter, w, i)
           /\ topic_matches_acl_filter(topic, filter) = w[1]
<1> DEFINE B == BOOLEAN
           D == 1 .. Len(filter) + 1
           rank == [i \in D |-> Len(filter) + 1 - i]
           Step == [z \in D \X [D -> B] |-> Round(topic, filter, z[2], z[1])]
           Eqn(w) == w = [i \in D |-> Round(topic, filter, w, i)]
<1>0. Len(filter) \in Nat /\ Len(topic) \in Nat
  OBVIOUS
<1>1. rank \in [D -> 0 .. Len(filter)]
  BY <1>0
<1>2. Step \in [D \X [D -> B] -> B]
  BY DEF Round
<1>3. Recursion(D, B, Len(filter), rank, Step)
  <2> SUFFICES ASSUME NEW x \in D, NEW f \in [D -> B], NEW g \in [D -> B],
                      \A y \in D : rank[y] < rank[x] => f[y] = g[y]
               PROVE  Step[<<x, f>>] = Step[<<x, g>>]
    BY <1>0, <1>1, <1>2 DEF Recursion
  <2>1. x <= Len(filter) => f[x + 1] = g[x + 1]
    BY <1>0
  <2>2. Round(topic, filter, f, x) = Round(topic, filter, g, x)
    <3>1. CASE x > Len(filter)
      BY <3>1 DEF Round
    <3>2. CASE ~ (x > Len(filter))
      <4>1. f[x + 1] = g[x + 1]
        BY <1>0, <2>1, <3>2
      <4> QED BY <3>2, <4>1, Zenon DEF Round
    <3> QED BY <3>1, <3>2
  <2> QED BY <2>2
<1>4. PICK w \in [D -> B] : \A i \in D : w[i] = Step[<<i, w>>]
  <2> HIDE DEF B, D, rank, Step
  <2> QED BY <1>3, RecursionExists
<1>5. Eqn(w)
  BY <1>4
<1> DEFINE c == CHOOSE v : Eqn(v)
<1>6. Eqn(c)
  <2> HIDE DEF Eqn
  <2> QED BY <1>5
<1>7. topic_matches_acl_filter(topic, filter) = c[1]
  BY DEF topic_matches_acl_filter, Round
<1> HIDE DEF c
<1>8. \A i \in D : c[i] = Round(topic, filter, c, i)
  BY <1>6
<1>9. c \in [D -> B]
  <2>1. \A i \in D : Round(topic, filter, c, i) \in B
    BY DEF Round
  <2> QED BY <1>6, <2>1
<1> QED BY <1>7, <1>8, <1>9

\* On well-formed filters the loop computes Matches.
LEMMA AclMatches ==
  ASSUME NEW L, NEW topic \in Seq(L), NEW filter \in Seq(L), WellFormed(filter)
  PROVE  topic_matches_acl_filter(topic, filter) <=> Matches(filter, topic)
<1> DEFINE n == Len(filter)
           Hash == n > 0 /\ filter[n] = "#"
           last == IF Hash THEN n - 1 ELSE n
           Ok(k) == k <= Len(topic) /\ (filter[k] = "+" \/ filter[k] = topic[k])
           Rest(i) == (\A k \in i .. last : Ok(k)) /\ (Hash \/ n = Len(topic))
<1>1. PICK w \in [1 .. n + 1 -> BOOLEAN] :
        /\ \A i \in 1 .. n + 1 : w[i] = Round(topic, filter, w, i)
        /\ topic_matches_acl_filter(topic, filter) = w[1]
  BY AclRounds
<1>0. n \in Nat /\ Len(topic) \in Nat /\ last \in Nat /\ last <= n /\ n <= last + 1
  OBVIOUS
<1>2. w[last + 1] <=> Rest(last + 1)
  <2>1. CASE Hash
    <3>1. Round(topic, filter, w, n)
      BY <2>1, <1>0 DEF Round
    <3> QED BY <1>0, <1>1, <2>1, <3>1
  <2>2. CASE ~ Hash
    <3>1. Round(topic, filter, w, n + 1) <=> n = Len(topic)
      BY <1>0 DEF Round
    <3>2. w[n + 1] <=> n = Len(topic)
      BY <1>0, <1>1, <3>1
    <3> QED BY <1>0, <2>2, <3>2
  <2> QED BY <2>1, <2>2
<1>3. ASSUME NEW i \in 1 .. last PROVE w[i] <=> Ok(i) /\ w[i + 1]
  <2>1. filter[i] # "#"
    BY <1>0 DEF WellFormed
  <2>2. Round(topic, filter, w, i) <=> Ok(i) /\ w[i + 1]
    BY <1>0, <2>1 DEF Round
  <2> QED BY <1>0, <1>1, <2>2
<1>4. ASSUME NEW i \in 1 .. last PROVE Rest(i) <=> Ok(i) /\ Rest(i + 1)
  <2>1. i .. last = {i} \cup (i + 1 .. last)
    BY <1>0
  <2> QED BY <2>1
<1> HIDE DEF Rest, Ok, Hash, last
<1> DEFINE S == {m \in Nat : m <= last => (w[last + 1 - m] <=> Rest(last + 1 - m))}
<1>5. 0 \in S
  BY <1>0, <1>2
<1>6. ASSUME NEW m \in Nat, m \in S PROVE m + 1 \in S
  <2> SUFFICES ASSUME m + 1 <= last
               PROVE  w[last + 1 - (m + 1)] <=> Rest(last + 1 - (m + 1))
    OBVIOUS
  <2> DEFINE i == last - m
  <2>1. i \in 1 .. last /\ last + 1 - m = i + 1 /\ last + 1 - (m + 1) = i
    BY <1>0
  <2>2. w[i + 1] <=> Rest(i + 1)
    BY <1>0, <1>6, <2>1
  <2>3. w[i] <=> Rest(i)
    <3> HIDE DEF i
    <3> QED BY <1>3, <1>4, <2>1, <2>2
  <2> QED BY <2>1, <2>3
<1>7. last \in S
  <2> HIDE DEF S
  <2> QED BY <1>0, <1>5, <1>6, SetInduction
<1>8. w[1] <=> Rest(1)
  <2>1. last + 1 - last = 1
    BY <1>0
  <2> QED BY <1>0, <1>7, <2>1
<1>9. Rest(1) <=> Matches(filter, topic)
  BY <1>0 DEF Rest, Ok, Hash, last, Matches, LevelsMatch
<1> QED BY <1>1, <1>8, <1>9

-----------------------------------------------------------------------------
(* Sequences.                                                              *)

LEMMA ToSetIs ==
  ASSUME NEW T, NEW s \in Seq(T)
  PROVE  /\ ToSet(s) = {s[i] : i \in 1 .. Len(s)}
         /\ ToSet(s) \subseteq T
BY DEF ToSet

LEMMA ToSetAppend ==
  ASSUME NEW T, NEW s \in Seq(T), NEW e \in T
  PROVE  /\ Append(s, e) \in Seq(T)
         /\ ToSet(Append(s, e)) = ToSet(s) \cup {e}
<1>1. /\ Append(s, e) \in Seq(T) /\ Len(Append(s, e)) = Len(s) + 1 /\ Len(s) \in Nat
      /\ \A i \in 1 .. Len(s) : Append(s, e)[i] = s[i]
      /\ Append(s, e)[Len(s) + 1] = e
  BY AppendProperties
<1>2. ToSet(Append(s, e)) = {Append(s, e)[i] : i \in 1 .. Len(s) + 1}
  BY <1>1, ToSetIs
<1>3. ToSet(s) = {s[i] : i \in 1 .. Len(s)}
  BY ToSetIs
<1>4. 1 .. Len(s) + 1 = (1 .. Len(s)) \cup {Len(s) + 1}
  BY <1>1
<1> QED BY <1>1, <1>2, <1>3, <1>4

LEMMA ToSetConcat ==
  ASSUME NEW T, NEW s \in Seq(T), NEW t \in Seq(T)
  PROVE  /\ s \o t \in Seq(T)
         /\ ToSet(s \o t) = ToSet(s) \cup ToSet(t)
<1> DEFINE u == s \o t
<1>1. /\ u \in Seq(T) /\ Len(u) = Len(s) + Len(t) /\ Len(s) \in Nat /\ Len(t) \in Nat
      /\ \A i \in 1 .. Len(s) + Len(t) : u[i] = IF i <= Len(s) THEN s[i] ELSE t[i - Len(s)]
  BY ConcatProperties
<1> HIDE DEF u
<1>2. /\ ToSet(u) = {u[i] : i \in 1 .. Len(u)}
      /\ ToSet(s) = {s[i] : i \in 1 .. Len(s)}
      /\ ToSet(t) = {t[i] : i \in 1 .. Len(t)}
  BY <1>1, ToSetIs
<1>3. ASSUME NEW x \in ToSet(u) PROVE x \in ToSet(s) \cup ToSet(t)
  <2>1. PICK i \in 1 .. Len(u) : x = u[i]
    BY <1>2
  <2>2. CASE i <= Len(s)
    BY <1>1, <1>2, <2>1, <2>2, SMTT(30)
  <2>3. CASE ~ (i <= Len(s))
    <3>1. i - Len(s) \in 1 .. Len(t) /\ x = t[i - Len(s)]
      BY <1>1, <2>1, <2>3
    <3> QED BY <1>2, <3>1
  <2> QED BY <2>2, <2>3
<1>4. ASSUME NEW x \in ToSet(s) PROVE x \in ToSet(u)
  <2>1. PICK i \in 1 .. Len(s) : x = s[i]
    BY <1>2
  <2>2. i \in 1 .. Len(u) /\ u[i] = x
    BY <1>1, <2>1
  <2> QED BY <1>2, <2>2
<1>5. ASSUME NEW x \in ToSet(t) PROVE x \in ToSet(u)
  <2>1. PICK i \in 1 .. Len(t) : x = t[i]
    BY <1>2
  <2>2. PICK j \in 1 .. Len(u) : j - Len(s) = i /\ ~ (j <= Len(s))
    <3>1. i + Len(s) \in 1 .. Len(u) /\ i + Len(s) - Len(s) = i /\ ~ (i + Len(s) <= Len(s))
      BY <1>1
    <3> QED BY <3>1
  <2>3. u[j] = x
    BY <1>1, <2>1, <2>2
  <2> QED BY <1>2, <2>3
<1> QED BY <1>1, <1>3, <1>4, <1>5 DEF u

\* Vec::retain, round by round.
KeptTrace(T, list, set, k) ==
  /\ k[0] = << >>
  /\ \A i \in 0 .. Len(list) : k[i] \in Seq(T)
  /\ \A i \in 1 .. Len(list) :
       k[i] = IF list[i] \in set THEN Append(k[i - 1], list[i]) ELSE k[i - 1]
  /\ Kept(list, set) = k[Len(list)]

LEMMA KeptRounds ==
  ASSUME NEW T, NEW list \in Seq(T), NEW set
  PROVE  \E k : KeptTrace(T, list, set, k)
<1> DEFINE D == 0 .. Len(list)
           V == Seq(T)
           rank == [i \in D |-> i]
           Body(f, i) == IF i = 0 THEN << >>
                         ELSE IF list[i] \in set THEN Append(f[i - 1], list[i]) ELSE f[i - 1]
           Step == [z \in D \X [D -> V] |-> Body(z[2], z[1])]
           Eqn(f) == f = [i \in D |-> Body(f, i)]
<1>1. Len(list) \in Nat /\ \A i \in 1 .. Len(list) : list[i] \in T
  OBVIOUS
<1>2. ASSUME NEW f, NEW i \in D, i # 0 => f[i - 1] \in V PROVE Body(f, i) \in V
  <2>1. CASE i = 0
    BY <2>1
  <2>2. CASE i # 0
    BY <1>1, <1>2, <2>2, AppendProperties
  <2> QED BY <2>1, <2>2
<1>3. Recursion(D, V, Len(list), rank, Step)
  <2>1. V # {} /\ Len(list) \in Nat /\ rank \in [D -> 0 .. Len(list)]
    BY <1>1, EmptySeq
  <2>2. \A f \in [D -> V], i \in D : Body(f, i) \in V
    <3> HIDE DEF Body, V
    <3>1. \A f \in [D -> V], i \in D : i # 0 => f[i - 1] \in V
      BY <1>1
    <3> QED BY <1>2, <3>1
  <2>3. Step \in [D \X [D -> V] -> V]
    <3> HIDE DEF Body, V, D
    <3> QED BY <2>2
  <2>4. ASSUME NEW x \in D, NEW f \in [D -> V], NEW g \in [D -> V],
               \A y \in D : rank[y] < rank[x] => f[y] = g[y]
        PROVE  Step[<<x, f>>] = Step[<<x, g>>]
    <3>1. x # 0 => f[x - 1] = g[x - 1]
      BY <1>1, <2>4
    <3>2. Body(f, x) = Body(g, x)
      BY <3>1
    <3> HIDE DEF Body, V, D
    <3> QED BY <3>2
  <2> HIDE DEF rank, Step, D, V
  <2> QED BY <2>1, <2>3, <2>4 DEF Recursion
<1>4. PICK f \in [D -> V] : \A i \in D : f[i] = Step[<<i, f>>]
  <2> HIDE DEF D, V, rank, Step
  <2> QED BY <1>3, RecursionExists
<1>5. Eqn(f)
  <2>1. \A i \in D : Step[<<i, f>>] = Body(f, i)
    <3> HIDE DEF Body, D, V
    <3> QED OBVIOUS
  <2> HIDE DEF Body, D, V, Step
  <2> QED BY <1>4, <2>1
<1> DEFINE c == CHOOSE v : Eqn(v)
<1>6. Eqn(c)
  <2> HIDE DEF Eqn
  <2> QED BY <1>5
<1>7. Kept(list, set) = c[Len(list)]
  BY DEF Kept
<1> HIDE DEF c
<1>8. \A i \in D : c[i] = Body(c, i)
  <2> HIDE DEF Body
  <2> QED BY <1>6
<1>9. \A i \in D : c[i] \in V
  <2> DEFINE S == {n \in Nat : n \in D => c[n] \in V}
  <2>1. 0 \in S
    BY <1>1, <1>2, <1>8
  <2>2. ASSUME NEW n \in Nat, n \in S PROVE n + 1 \in S
    <3> SUFFICES ASSUME n + 1 \in D PROVE c[n + 1] \in V
      OBVIOUS
    <3>1. c[n + 1 - 1] \in V
      BY <1>1, <2>2
    <3>2. Body(c, n + 1) \in V
      <4> HIDE DEF Body, D, V
      <4> QED BY <1>2, <3>1
    <3> QED BY <1>8, <3>2
  <2>3. \A n \in D : n \in Nat /\ n \in S
    <3> HIDE DEF S
    <3> QED BY <1>1, <2>1, <2>2, SetInduction, SMTT(30)
  <2> QED BY <2>3
<1>10. /\ c[0] = << >>
       /\ \A i \in 1 .. Len(list) :
            c[i] = IF list[i] \in set THEN Append(c[i - 1], list[i]) ELSE c[i - 1]
  BY <1>1, <1>8
<1> HIDE DEF Body, D, V
<1>11. KeptTrace(T, list, set, c)
  BY <1>7, <1>9, <1>10 DEF D, V, KeptTrace
<1> QED BY <1>11

InOrder(kept, list) ==
  \A a, b \in 1 .. Len(kept) :
    a < b => \E x, y \in 1 .. Len(list) : x < y /\ kept[a] = list[x] /\ kept[b] = list[y]

\* What is kept are the elements of the list that are in the set, in their
\* order.
LEMMA KeptElements ==
  ASSUME NEW T, NEW list \in Seq(T), NEW set
  PROVE  /\ Kept(list, set) \in Seq(T)
         /\ ToSet(Kept(list, set)) = ToSet(list) \cap set
         /\ InOrder(Kept(list, set), list)
<1>0. PICK k : KeptTrace(T, list, set, k)
  BY KeptRounds
<1>1. /\ k[0] = << >> /\ Kept(list, set) = k[Len(list)]
      /\ \A i \in 0 .. Len(list) : k[i] \in Seq(T)
  BY <1>0 DEF KeptTrace
<1>2. Len(list) \in Nat /\ \A i \in 1 .. Len(list) : list[i] \in T
  OBVIOUS
<1> DEFINE From(n) == {list[i] : i \in 1 .. n} \cap set
           Ordered(n) == \A a, b \in 1 .. Len(k[n]) :
                           a < b => \E x, y \in 1 .. n :
                                      x < y /\ k[n][a] = list[x] /\ k[n][b] = list[y]
           S == {n \in Nat : n <= Len(list) => ToSet(k[n]) = From(n) /\ Ordered(n)}
<1>3. 0 \in S
  <2>1. ToSet(<< >>) = {} /\ Len(<< >>) = 0
    BY DEF ToSet
  <2> QED BY <1>1, <2>1
<1>4. ASSUME NEW n \in Nat, n \in S PROVE n + 1 \in S
  <2> SUFFICES ASSUME n + 1 <= Len(list) PROVE ToSet(k[n + 1]) = From(n + 1) /\ Ordered(n + 1)
    OBVIOUS
  <2>1. ToSet(k[n]) = From(n) /\ Ordered(n) /\ k[n] \in Seq(T)
    <3>1. n <= Len(list) /\ n \in 0 .. Len(list)
      BY <1>2
    <3>2. ToSet(k[n]) = From(n) /\ Ordered(n)
      <4> HIDE DEF From, Ordered
      <4> QED BY <1>4, <3>1
    <3> QED BY <1>1, <3>1, <3>2
  <2>2. n + 1 \in 1 .. Len(list) /\ n + 1 - 1 = n /\ list[n + 1] \in T
    BY <1>2
  <2>3. 1 .. n + 1 = (1 .. n) \cup {n + 1}
    OBVIOUS
  <2>4. From(n + 1) = From(n) \cup ({list[n + 1]} \cap set)
    BY <2>3
  <2>5. CASE list[n + 1] \notin set
    <3>1. k[n + 1] = k[n]
      BY <1>0, <2>2, <2>5 DEF KeptTrace
    <3>2. Ordered(n + 1)
      <4> SUFFICES ASSUME NEW a \in 1 .. Len(k[n + 1]), NEW b \in 1 .. Len(k[n + 1]), a < b
                   PROVE  \E x, y \in 1 .. n + 1 :
                            x < y /\ k[n + 1][a] = list[x] /\ k[n + 1][b] = list[y]
        OBVIOUS
      <4>1. PICK x, y \in 1 .. n : x < y /\ k[n][a] = list[x] /\ k[n][b] = list[y]
        <5>1. a \in 1 .. Len(k[n]) /\ b \in 1 .. Len(k[n])
          BY <3>1, Zenon
        <5> QED BY <2>1, <5>1
      <4> QED BY <2>3, <3>1, <4>1
    <3>3. From(n + 1) = From(n)
      BY <2>4, <2>5
    <3> QED BY <2>1, <3>1, <3>2, <3>3
  <2>6. CASE list[n + 1] \in set
    <3>1. k[n + 1] = Append(k[n], list[n + 1])
      <4>1. \A i \in 1 .. Len(list) : list[i] \in set => k[i] = Append(k[i - 1], list[i])
        BY <1>0 DEF KeptTrace
      <4>2. PICK i \in 1 .. Len(list) : i = n + 1 /\ i - 1 = n
        BY <2>2
      <4>3. k[i] = Append(k[i - 1], list[i])
        BY <2>6, <4>1, <4>2
      <4> QED BY <4>2, <4>3
    <3>2. ToSet(k[n + 1]) = ToSet(k[n]) \cup {list[n + 1]}
      BY <2>1, <2>2, <3>1, ToSetAppend
    <3>3. /\ Len(k[n + 1]) = Len(k[n]) + 1 /\ Len(k[n]) \in Nat
          /\ \A i \in 1 .. Len(k[n]) : k[n + 1][i] = k[n][i]
          /\ k[n + 1][Len(k[n]) + 1] = list[n + 1]
      BY <2>1, <2>2, <3>1, AppendProperties
    <3>4. ASSUME NEW a \in 1 .. Len(k[n + 1]), NEW b \in 1 .. Len(k[n + 1]), a < b
          PROVE  \E x, y \in 1 .. n + 1 :
                   x < y /\ k[n + 1][a] = list[x] /\ k[n + 1][b] = list[y]
      <4>1. a \in 1 .. Len(k[n]) /\ k[n + 1][a] = k[n][a]
        BY <3>3, <3>4
      <4>2. CASE b \in 1 .. Len(k[n])
        <5>1. PICK x, y \in 1 .. n : x < y /\ k[n][a] = list[x] /\ k[n][b] = list[y]
          BY <2>1, <3>4, <4>1, <4>2
        <5> QED BY <2>3, <3>3, <4>1, <4>2, <5>1
      <4>3. CASE b \notin 1 .. Len(k[n])
        <5>1. k[n + 1][b] = list[n + 1]
          BY <3>3, <4>3
        <5>2. k[n][a] \in From(n)
          <6>1. ToSet(k[n]) = {k[n][i] : i \in 1 .. Len(k[n])}
            BY <2>1, ToSetIs
          <6> HIDE DEF From, Ordered
          <6> QED BY <2>1, <4>1, <6>1
        <5>3. PICK x \in 1 .. n : k[n][a] = list[x]
          BY <5>2
        <5>4. x < n + 1 /\ x \in 1 .. n + 1 /\ n + 1 \in 1 .. n + 1
          OBVIOUS
        <5> QED BY <4>1, <5>1, <5>3, <5>4
      <4> QED BY <4>2, <4>3
    <3>5. Ordered(n + 1)
      BY <3>4
    <3>6. From(n + 1) = From(n) \cup {list[n + 1]}
      BY <2>4, <2>6
    <3> HIDE DEF From, Ordered
    <3> QED BY <2>1, <3>2, <3>5, <3>6
  <2> QED BY <2>5, <2>6
<1>5. Len(list) \in S
  <2> HIDE DEF S
  <2> QED BY <1>2, <1>3, <1>4, SetInduction
<1>6. From(Len(list)) = ToSet(list) \cap set
  BY ToSetIs
<1>7. /\ Kept(list, set) \in Seq(T)
      /\ ToSet(Kept(list, set)) = From(Len(list))
      /\ Ordered(Len(list))
  <2> HIDE DEF From, Ordered
  <2> QED BY <1>1, <1>2, <1>5
<1> QED BY <1>1, <1>6, <1>7 DEF InOrder

\* FlattenSeq, sequence by sequence.
FlattenTrace(T, seqs, k) ==
  /\ k[1] = seqs[1]
  /\ \A i \in 1 .. Len(seqs) : k[i] \in Seq(T)
  /\ \A i \in 2 .. Len(seqs) : k[i] = k[i - 1] \o seqs[i]
  /\ FlattenSeq(seqs) = k[Len(seqs)]

LEMMA FlattenRounds ==
  ASSUME NEW T, NEW seqs \in Seq(Seq(T)), Len(seqs) # 0
  PROVE  \E k : FlattenTrace(T, seqs, k)
<1> DEFINE D == 1 .. Len(seqs)
           V == Seq(T)
           rank == [i \in D |-> i]
           Body(f, i) == IF i = 1 THEN seqs[i] ELSE f[i - 1] \o seqs[i]
           Step == [z \in D \X [D -> V] |-> Body(z[2], z[1])]
           Eqn(f) == f = [i \in D |-> Body(f, i)]
<1>1. Len(seqs) \in Nat /\ \A i \in D : seqs[i] \in V
  OBVIOUS
<1>2. ASSUME NEW f, NEW i \in D, i # 1 => f[i - 1] \in V PROVE Body(f, i) \in V
  <2>1. CASE i = 1
    BY <1>1, <2>1
  <2>2. CASE i # 1
    BY <1>1, <1>2, <2>2, ConcatProperties
  <2> QED BY <2>1, <2>2
<1>3. Recursion(D, V, Len(seqs), rank, Step)
  <2>1. V # {} /\ Len(seqs) \in Nat /\ rank \in [D -> 0 .. Len(seqs)]
    BY <1>1, EmptySeq
  <2>2. \A f \in [D -> V], i \in D : Body(f, i) \in V
    <3> HIDE DEF Body, V
    <3> SUFFICES ASSUME NEW f \in [D -> V], NEW i \in D PROVE Body(f, i) \in V
      OBVIOUS
    <3>1. i # 1 => i - 1 \in D
      BY <1>1
    <3>2. i # 1 => f[i - 1] \in V
      <4> HIDE DEF D
      <4> QED BY <3>1
    <3> QED BY <1>2, <3>2
  <2>3. Step \in [D \X [D -> V] -> V]
    <3> HIDE DEF Body, V, D
    <3> QED BY <2>2
  <2>4. ASSUME NEW x \in D, NEW f \in [D -> V], NEW g \in [D -> V],
               \A y \in D : rank[y] < rank[x] => f[y] = g[y]
        PROVE  Step[<<x, f>>] = Step[<<x, g>>]
    <3>1. x # 1 => f[x - 1] = g[x - 1]
      BY <1>1, <2>4
    <3>2. Body(f, x) = Body(g, x)
      BY <3>1
    <3> HIDE DEF Body, V, D
    <3> QED BY <3>2
  <2> HIDE DEF rank, Step, D, V
  <2> QED BY <2>1, <2>3, <2>4 DEF Recursion
<1>4. PICK f \in [D -> V] : \A i \in D : f[i] = Step[<<i, f>>]
  <2> HIDE DEF D, V, rank, Step
  <2> QED BY <1>3, RecursionExists
<1>5. Eqn(f)
  <2>1. \A i \in D : Step[<<i, f>>] = Body(f, i)
    <3> HIDE DEF Body, D, V
    <3> QED OBVIOUS
  <2> HIDE DEF Body, D, V, Step
  <2> QED BY <1>4, <2>1
<1> DEFINE c == CHOOSE v : Eqn(v)
<1>6. Eqn(c)
  <2> HIDE DEF Eqn
  <2> QED BY <1>5
<1>7. FlattenSeq(seqs) = c[Len(seqs)]
  BY <1>1 DEF FlattenSeq
<1> HIDE DEF c
<1>8. \A i \in D : c[i] = Body(c, i)
  <2> HIDE DEF Body
  <2> QED BY <1>6
<1>9. \A i \in D : c[i] \in V
  <2> DEFINE S == {n \in Nat : n \in D => c[n] \in V}
  <2>1. 0 \in S
    BY <1>1
  <2>2. ASSUME NEW n \in Nat, n \in S PROVE n + 1 \in S
    <3> SUFFICES ASSUME n + 1 \in D PROVE c[n + 1] \in V
      OBVIOUS
    <3>1. n + 1 # 1 => c[n + 1 - 1] \in V
      BY <1>1, <2>2
    <3>2. Body(c, n + 1) \in V
      <4> HIDE DEF Body, D, V
      <4> QED BY <1>2, <3>1
    <3> QED BY <1>8, <3>2
  <2>3. \A n \in D : n \in Nat /\ n \in S
    <3>1. D \subseteq Nat
      BY <1>1
    <3> HIDE DEF S, D, V, Body
    <3> QED BY <2>1, <2>2, <3>1, SetInduction
  <2> HIDE DEF D, V
  <2> QED BY <2>3
<1>10. c[1] = seqs[1] /\ \A i \in 2 .. Len(seqs) : c[i] = c[i - 1] \o seqs[i]
  <2>1. 1 \in D /\ \A i \in 2 .. Len(seqs) : i \in D /\ i # 1
    BY <1>1
  <2> HIDE DEF D
  <2> QED BY <1>8, <2>1
<1>11. FlattenTrace(T, seqs, c)
  BY <1>7, <1>9, <1>10 DEF FlattenTrace
<1> QED BY <1>11

\* The elements of a concatenation are those of its parts.
LEMMA FlattenElements ==
  ASSUME NEW T, NEW seqs \in Seq(Seq(T))
  PROVE  /\ FlattenSeq(seqs) \in Seq(T)
         /\ ToSet(FlattenSeq(seqs)) = UNION {ToSet(seqs[i]) : i \in 1 .. Len(seqs)}
<1>1. Len(seqs) \in Nat /\ \A i \in 1 .. Len(seqs) : seqs[i] \in Seq(T)
  OBVIOUS
<1>2. CASE Len(seqs) = 0
  <2>1. FlattenSeq(seqs) = << >>
    BY <1>2, EmptySeq DEF FlattenSeq
  <2>2. ToSet(<< >>) = {} /\ << >> \in Seq(T)
    BY DEF ToSet
  <2> QED BY <1>2, <2>1, <2>2
<1>3. CASE Len(seqs) # 0
  <2>0. PICK k : FlattenTrace(T, seqs, k)
    BY <1>3, FlattenRounds
  <2>1. /\ k[1] = seqs[1] /\ FlattenSeq(seqs) = k[Len(seqs)]
        /\ \A i \in 1 .. Len(seqs) : k[i] \in Seq(T)
    BY <2>0 DEF FlattenTrace
  <2> DEFINE U(n) == UNION {ToSet(seqs[i]) : i \in 1 .. n}
             S == {n \in Nat : n \in 1 .. Len(seqs) => ToSet(k[n]) = U(n)}
  <2>2. 0 \in S
    OBVIOUS
  <2>3. ASSUME NEW n \in Nat, n \in S PROVE n + 1 \in S
    <3> SUFFICES ASSUME n + 1 \in 1 .. Len(seqs) PROVE ToSet(k[n + 1]) = U(n + 1)
      OBVIOUS
    <3>1. 1 .. n + 1 = (1 .. n) \cup {n + 1}
      OBVIOUS
    <3>2. U(n + 1) = U(n) \cup ToSet(seqs[n + 1])
      BY <3>1
    <3>3. CASE n = 0
      <4>1. U(n) = {}
        BY <3>3
      <4> QED BY <2>1, <3>2, <3>3, <4>1
    <3>4. CASE n # 0
      <4>1. n \in 1 .. Len(seqs) /\ n + 1 \in 2 .. Len(seqs) /\ n + 1 - 1 = n
        BY <1>1, <3>4
      <4>2. k[n + 1] = k[n] \o seqs[n + 1]
        <5>1. PICK i \in 2 .. Len(seqs) : i = n + 1 /\ i - 1 = n
          BY <4>1
        <5>2. k[i] = k[i - 1] \o seqs[i]
          BY <2>0 DEF FlattenTrace
        <5> QED BY <5>1, <5>2
      <4>3. k[n] \in Seq(T) /\ seqs[n + 1] \in Seq(T)
        BY <1>1, <2>1, <4>1
      <4>5. ToSet(k[n + 1]) = ToSet(k[n]) \cup ToSet(seqs[n + 1])
        BY <4>2, <4>3, ToSetConcat
      <4>4. ToSet(k[n]) = U(n)
        BY <2>3, <4>1
      <4> HIDE DEF U
      <4> QED BY <3>2, <4>4, <4>5
    <3> QED BY <3>3, <3>4
  <2>4. Len(seqs) \in S
    <3> HIDE DEF S
    <3> QED BY <1>1, <2>2, <2>3, SetInduction
  <2>5. Len(seqs) \in 1 .. Len(seqs)
    BY <1>1, <1>3
  <2>6. ToSet(k[Len(seqs)]) = U(Len(seqs))
    <3> HIDE DEF U
    <3> QED BY <2>4, <2>5
  <2> QED BY <2>1, <2>5, <2>6
<1> QED BY <1>2, <1>3

-----------------------------------------------------------------------------
(* The search in the trie.                                                 *)

\* The nodes of a trie: the path to a node consists of nodes, and nothing is
\* below a '#'.
TrieShape(L, nodes) ==
  /\ {"+", "#"} \subseteq L
  /\ nodes \subseteq Seq(L)
  /\ << >> \in nodes
  /\ \A p \in nodes : WellFormed(p) /\ Prefixes(p) \subseteq nodes

\* The nodes the search can be at, and one call of match_recursive, f being
\* what the calls below it collect.
Reach(nodes, topic) == {q \in nodes : Len(q) <= Len(topic)}

HashChild(nodes, p) == IF Append(p, "#") \in nodes THEN <<Append(p, "#")>> ELSE << >>

Down(nodes, f, p, level) == IF Append(p, level) \in nodes THEN f[Append(p, level)] ELSE << >>

Exact(nodes, topic, f, p) ==
  IF topic[Len(p) + 1] \in {"+", "#"} THEN << >> ELSE Down(nodes, f, p, topic[Len(p) + 1])

VisitStep(nodes, topic, f, p) ==
  HashChild(nodes, p) \o
    IF Len(p) = Len(topic) THEN <<p>>
    ELSE Exact(nodes, topic, f, p) \o Down(nodes, f, p, "+")

\* A call returns nodes when the calls below it do; what they are.
LEMMA VisitStepNodes ==
  ASSUME NEW L, NEW nodes, TrieShape(L, nodes), NEW topic \in Seq(L), NEW f,
         NEW p \in Reach(nodes, topic),
         \A q \in Reach(nodes, topic) : Len(q) > Len(p) => f[q] \in Seq(nodes)
  PROVE  /\ VisitStep(nodes, topic, f, p) \in Seq(nodes)
         /\ ToSet(VisitStep(nodes, topic, f, p)) =
              ToSet(HashChild(nodes, p)) \cup
                IF Len(p) = Len(topic) THEN {p}
                ELSE ToSet(Exact(nodes, topic, f, p)) \cup ToSet(Down(nodes, f, p, "+"))
<1>1. p \in nodes /\ p \in Seq(L) /\ Len(p) \in Nat /\ Len(topic) \in Nat /\ Len(p) <= Len(topic)
  BY DEF TrieShape, Reach
<1>2. HashChild(nodes, p) \in Seq(nodes)
  BY DEF HashChild
<1>3. << >> \in Seq(nodes) /\ <<p>> \in Seq(nodes) /\ ToSet(<<p>>) = {p}
  <2>1. <<p>> \in Seq(nodes) /\ Len(<<p>>) = 1 /\ <<p>>[1] = p
    BY <1>1
  <2>2. ToSet(<<p>>) = {<<p>>[i] : i \in 1 .. 1}
    BY <2>1, ToSetIs
  <2> QED BY <2>1, <2>2, EmptySeq
<1>4. ASSUME NEW level \in L, Len(p) # Len(topic) PROVE Down(nodes, f, p, level) \in Seq(nodes)
  <2>1. Len(Append(p, level)) = Len(p) + 1
    BY <1>1, AppendProperties
  <2>2. CASE Append(p, level) \in nodes
    <3>1. Append(p, level) \in Reach(nodes, topic) /\ Len(Append(p, level)) > Len(p)
      <4>1. PICK q : q = Append(p, level)
        OBVIOUS
      <4>2. q \in nodes /\ Len(q) = Len(p) + 1
        BY <2>1, <2>2, <4>1
      <4>3. Len(q) <= Len(topic) /\ Len(q) > Len(p)
        BY <1>1, <1>4, <4>2
      <4> QED BY <4>1, <4>2, <4>3 DEF Reach
    <3> QED BY <2>2, <3>1 DEF Down
  <2> QED BY <1>3, <2>2 DEF Down
<1>5. CASE Len(p) = Len(topic)
  <2>1. VisitStep(nodes, topic, f, p) = HashChild(nodes, p) \o <<p>>
    BY <1>5 DEF VisitStep
  <2>2. /\ HashChild(nodes, p) \o <<p>> \in Seq(nodes)
        /\ ToSet(HashChild(nodes, p) \o <<p>>) = ToSet(HashChild(nodes, p)) \cup ToSet(<<p>>)
    BY <1>2, <1>3, ToSetConcat, ZenonT(60)
  <2> QED BY <1>3, <1>5, <2>1, <2>2, Zenon
<1>6. CASE Len(p) # Len(topic)
  <2>1. topic[Len(p) + 1] \in L
    BY <1>1, <1>6
  <2>2. Exact(nodes, topic, f, p) \in Seq(nodes) /\ Down(nodes, f, p, "+") \in Seq(nodes)
    <3>1. "+" \in L
      BY DEF TrieShape
    <3>2. Down(nodes, f, p, topic[Len(p) + 1]) \in Seq(nodes)
      BY <1>4, <1>6, <2>1, Zenon
    <3>3. Down(nodes, f, p, "+") \in Seq(nodes)
      BY <1>4, <1>6, <3>1, Zenon
    <3> QED BY <1>3, <3>2, <3>3, Zenon DEF Exact
  <2> DEFINE rest == Exact(nodes, topic, f, p) \o Down(nodes, f, p, "+")
  <2>3. /\ rest \in Seq(nodes)
        /\ ToSet(rest) = ToSet(Exact(nodes, topic, f, p)) \cup ToSet(Down(nodes, f, p, "+"))
    BY <2>2, ToSetConcat
  <2>4. VisitStep(nodes, topic, f, p) = HashChild(nodes, p) \o rest
    BY <1>6 DEF VisitStep
  <2> HIDE DEF rest
  <2>5. /\ HashChild(nodes, p) \o rest \in Seq(nodes)
        /\ ToSet(HashChild(nodes, p) \o rest) = ToSet(HashChild(nodes, p)) \cup ToSet(rest)
    BY <1>2, <2>3, ToSetConcat
  <2> QED BY <1>6, <2>3, <2>4, <2>5
<1> QED BY <1>5, <1>6

VisitTrace(nodes, topic, v) ==
  /\ v \in [Reach(nodes, topic) -> Seq(nodes)]
  /\ \A p \in Reach(nodes, topic) : v[p] = VisitStep(nodes, topic, v, p)

LEMMA VisitRounds ==
  ASSUME NEW L, NEW trie, TrieShape(L, trie.nodes), NEW topic \in Seq(L)
  PROVE  \E v : VisitTrace(trie.nodes, topic, v) /\ Visited(trie, topic) = v[<< >>]
<1> DEFINE N == trie.nodes
           D == Reach(N, topic)
           V == Seq(N)
           rank == [p \in D |-> Len(topic) - Len(p)]
           Step == [z \in D \X [D -> V] |-> VisitStep(N, topic, z[2], z[1])]
           Eqn(v) == v = [p \in D |-> VisitStep(N, topic, v, p)]
<1>1. Len(topic) \in Nat /\ \A p \in D : p \in N /\ p \in Seq(L) /\ Len(p) \in 0 .. Len(topic)
  BY DEF TrieShape, Reach
<1>2. Recursion(D, V, Len(topic), rank, Step)
  <2>1. V # {} /\ rank \in [D -> 0 .. Len(topic)]
    <3>1. \A p \in D : Len(topic) - Len(p) \in 0 .. Len(topic)
      BY <1>1
    <3> HIDE DEF D, N
    <3> QED BY <3>1, EmptySeq
  <2>2. Step \in [D \X [D -> V] -> V]
    <3>1. \A f \in [D -> V], p \in D : VisitStep(N, topic, f, p) \in V
      <4> SUFFICES ASSUME NEW f \in [D -> V], NEW p \in D PROVE VisitStep(N, topic, f, p) \in V
        OBVIOUS
      <4>1. \A q \in D : f[q] \in V
        OBVIOUS
      <4> QED BY <4>1, VisitStepNodes
    <3> HIDE DEF D, V, N
    <3> QED BY <3>1
  <2>3. ASSUME NEW p \in D, NEW f \in [D -> V], NEW g \in [D -> V],
               \A q \in D : rank[q] < rank[p] => f[q] = g[q]
        PROVE  Step[<<p, f>>] = Step[<<p, g>>]
    <3>1. ASSUME NEW level \in L, Len(p) # Len(topic)
          PROVE  Down(N, f, p, level) = Down(N, g, p, level)
      <4>1. Len(Append(p, level)) = Len(p) + 1
        BY <1>1, AppendProperties
      <4>2. Append(p, level) \in N =>
              Append(p, level) \in D /\ rank[Append(p, level)] < rank[p]
        BY <1>1, <3>1, <4>1 DEF Reach
      <4> HIDE DEF D, N, rank
      <4> QED BY <2>3, <4>2 DEF Down
    <3>2. Len(p) # Len(topic) => topic[Len(p) + 1] \in L
      BY <1>1
    <3>3. Len(p) # Len(topic) => Exact(N, topic, f, p) = Exact(N, topic, g, p)
      BY <3>1, <3>2 DEF Exact
    <3>4. VisitStep(N, topic, f, p) = VisitStep(N, topic, g, p)
      <4>1. CASE Len(p) = Len(topic)
        BY <4>1, Zenon DEF VisitStep
      <4>2. CASE Len(p) # Len(topic)
        <5>1. Down(N, f, p, "+") = Down(N, g, p, "+")
          <6>1. "+" \in L
            BY DEF TrieShape
          <6> QED BY <3>1, <4>2, <6>1, Zenon
        <5> QED BY <3>3, <4>2, <5>1, Zenon DEF VisitStep
      <4> QED BY <4>1, <4>2
    <3> HIDE DEF D, V, N
    <3> QED BY <3>4
  <2> HIDE DEF D, V, rank, Step
  <2> QED BY <1>1, <2>1, <2>2, <2>3 DEF Recursion
<1>3. PICK f \in [D -> V] : \A p \in D : f[p] = Step[<<p, f>>]
  <2> HIDE DEF D, V, rank, Step
  <2> QED BY <1>2, RecursionExists
<1>4. Eqn(f)
  <2> HIDE DEF D, V, N
  <2> QED BY <1>3
<1> DEFINE c == CHOOSE v : Eqn(v)
<1>5. Eqn(c)
  <2> HIDE DEF Eqn
  <2> QED BY <1>4
<1>6. Visited(trie, topic) = c[<< >>]
  BY DEF Visited, VisitStep, HashChild, Exact, Down, Reach
<1> HIDE DEF c
<1>7. \A p \in D : c[p] = VisitStep(N, topic, c, p)
  <2> HIDE DEF D, N
  <2> QED BY <1>5
<1>8. \A p \in D : c[p] \in V
  <2> DEFINE S == {n \in Nat : \A p \in D : Len(topic) - Len(p) < n => c[p] \in V}
  <2>1. 0 \in S
    BY <1>1
  <2>2. ASSUME NEW n \in Nat, n \in S PROVE n + 1 \in S
    <3> SUFFICES ASSUME NEW p \in D, Len(topic) - Len(p) < n + 1 PROVE c[p] \in V
      OBVIOUS
    <3>1. \A q \in D : Len(q) > Len(p) => Len(topic) - Len(q) < n
      BY <1>1
    <3>2. \A q \in D : Len(q) > Len(p) => c[q] \in V
      <4> HIDE DEF D, V
      <4> QED BY <2>2, <3>1
    <3>3. VisitStep(N, topic, c, p) \in V
      BY <3>2, VisitStepNodes
    <3> QED BY <1>7, <3>3
  <2>3. Len(topic) + 1 \in S
    <3> HIDE DEF S
    <3> QED BY <1>1, <2>1, <2>2, SetInduction
  <2> HIDE DEF D, V
  <2> QED BY <1>1, <2>3
<1>9. VisitTrace(N, topic, c)
  <2> HIDE DEF D, V, N
  <2>1. c \in [D -> V]
    BY <1>5, <1>8
  <2> QED BY <1>7, <2>1 DEF D, V, VisitTrace
<1> QED BY <1>6, <1>9

\* Prefixes, level by level.
LEMMA PrefixLevels ==
  ASSUME NEW L, NEW p \in Seq(L), NEW q \in Seq(L)
  PROVE  IsPrefix(p, q) <=> Len(p) <= Len(q) /\ \A i \in 1 .. Len(p) : p[i] = q[i]
<1>1. Len(p) \in Nat /\ Len(q) \in Nat
  OBVIOUS
<1> SUFFICES ASSUME Len(p) <= Len(q)
             PROVE  SubSeq(p, 1, Len(p)) = SubSeq(q, 1, Len(p)) <=> \A i \in 1 .. Len(p) : p[i] = q[i]
  BY DEF IsPrefix
<1> DEFINE P == SubSeq(p, 1, Len(p))
           Q == SubSeq(q, 1, Len(p))
<1>2. /\ P \in Seq(L) /\ Len(P) = Len(p) /\ \A i \in 1 .. Len(p) : P[i] = p[i]
      /\ Q \in Seq(L) /\ Len(Q) = Len(p) /\ \A i \in 1 .. Len(p) : Q[i] = q[i]
  BY <1>1
<1> HIDE DEF P, Q
<1>3. ASSUME \A i \in 1 .. Len(p) : p[i] = q[i] PROVE P = Q
  BY <1>2, <1>3, SeqEqual
<1>4. ASSUME P = Q PROVE \A i \in 1 .. Len(p) : p[i] = q[i]
  BY <1>2, <1>4
<1> QED BY <1>3, <1>4 DEF P, Q

\* The next node on the way from p down to q.
LEMMA NextOnPath ==
  ASSUME NEW L, NEW p \in Seq(L), NEW q \in Seq(L), IsPrefix(p, q), Len(p) # Len(q)
  PROVE  LET c == Append(p, q[Len(p) + 1]) IN
         /\ c \in Seq(L) /\ c \in Prefixes(q) /\ IsPrefix(c, q) /\ Len(c) = Len(p) + 1
         /\ \A i \in 1 .. Len(p) : c[i] = p[i]
         /\ c[Len(p) + 1] = q[Len(p) + 1]
<1> DEFINE c == Append(p, q[Len(p) + 1])
           d == SubSeq(q, 1, Len(p) + 1)
<1>1. /\ Len(p) \in Nat /\ Len(q) \in Nat /\ Len(p) + 1 <= Len(q)
      /\ \A i \in 1 .. Len(p) : p[i] = q[i]
      /\ q[Len(p) + 1] \in L
  BY PrefixLevels
<1>2. /\ c \in Seq(L) /\ Len(c) = Len(p) + 1 /\ \A i \in 1 .. Len(p) : c[i] = p[i]
      /\ c[Len(p) + 1] = q[Len(p) + 1]
  BY <1>1, AppendProperties
<1>3. d \in Seq(L) /\ Len(d) = Len(p) + 1 /\ \A i \in 1 .. Len(p) + 1 : d[i] = q[i]
  BY <1>1
<1>4. d \in Prefixes(q)
  BY <1>1 DEF Prefixes
<1> HIDE DEF c, d
<1>5. \A i \in 1 .. Len(p) + 1 : c[i] = q[i]
  BY <1>1, <1>2
<1>6. c = d
  BY <1>2, <1>3, <1>5, SeqEqual
<1>7. IsPrefix(c, q)
  BY <1>1, <1>2, <1>5, PrefixLevels
<1> QED BY <1>2, <1>4, <1>6, <1>7 DEF c

\* The node q is at or below p and its levels below p match the topic.
Fits(q, topic, i) == q[i] = "+" \/ q[i] = topic[i]
Continues(p, q, topic) ==
  /\ IsPrefix(p, q)
  /\ IF Len(q) > 0 /\ q[Len(q)] = "#"
     THEN Len(q) - 1 <= Len(topic) /\ \A i \in Len(p) + 1 .. Len(q) - 1 : Fits(q, topic, i)
     ELSE Len(q) = Len(topic) /\ \A i \in Len(p) + 1 .. Len(q) : Fits(q, topic, i)

NoHash(p) == \A i \in 1 .. Len(p) : p[i] # "#"

\* A child of a node above which there is no '#'.
LEMMA ChildFacts ==
  ASSUME NEW L, NEW p \in Seq(L), NEW level \in L
  PROVE  LET c == Append(p, level) IN
         /\ c \in Seq(L) /\ Len(c) = Len(p) + 1 /\ Len(p) \in Nat /\ IsPrefix(p, c)
         /\ \A i \in 1 .. Len(p) : c[i] = p[i]
         /\ c[Len(p) + 1] = level
         /\ NoHash(p) /\ level # "#" => NoHash(c)
<1> DEFINE c == Append(p, level)
<1>1. /\ c \in Seq(L) /\ Len(c) = Len(p) + 1 /\ Len(p) \in Nat
      /\ \A i \in 1 .. Len(p) : c[i] = p[i]
      /\ c[Len(p) + 1] = level
  BY AppendProperties
<1> HIDE DEF c
<1>2. IsPrefix(p, c)
  BY <1>1, PrefixLevels
<1>3. NoHash(p) /\ level # "#" => NoHash(c)
  <2> SUFFICES ASSUME NoHash(p), level # "#", NEW i \in 1 .. Len(c) PROVE c[i] # "#"
    BY DEF NoHash
  <2>1. CASE i \in 1 .. Len(p)
    BY <1>1, <2>1 DEF NoHash
  <2>2. CASE i \notin 1 .. Len(p)
    BY <1>1, <2>2
  <2> QED BY <2>1, <2>2
<1> QED BY <1>1, <1>2, <1>3 DEF c

\* Nothing is below a '#'.
LEMMA HashIsLeaf ==
  ASSUME NEW L, NEW p \in Seq(L), NEW q \in Seq(L), WellFormed(q),
         IsPrefix(p, q), Len(p) # Len(q), q[Len(p) + 1] = "#"
  PROVE  q = Append(p, "#")
<1>1. Len(p) \in Nat /\ Len(q) \in Nat /\ Len(p) + 1 <= Len(q)
  BY PrefixLevels
<1>2. Len(q) = Len(p) + 1
  <2> SUFFICES ASSUME Len(p) + 1 < Len(q) PROVE FALSE
    BY <1>1
  <2>1. Len(p) + 1 \in 1 .. Len(q) - 1
    BY <1>1
  <2> QED BY <2>1 DEF WellFormed
<1> DEFINE c == Append(p, q[Len(p) + 1])
<1>3. c \in Seq(L) /\ IsPrefix(c, q) /\ Len(c) = Len(p) + 1
  BY NextOnPath
<1> HIDE DEF c
<1>4. \A i \in 1 .. Len(c) : c[i] = q[i]
  BY <1>3, PrefixLevels
<1>5. c = q
  BY <1>2, <1>3, <1>4, SeqEqual
<1> QED BY <1>5 DEF c

\* At the end of the topic the search is at the node itself or at its '#'.
LEMMA ContinuesAtEnd ==
  ASSUME NEW L, NEW nodes, TrieShape(L, nodes), NEW topic \in Seq(L),
         NEW p \in nodes, Len(p) = Len(topic), NoHash(p), NEW q \in nodes
  PROVE  Continues(p, q, topic) <=> q = p \/ q = Append(p, "#")
<1>1. /\ p \in Seq(L) /\ q \in Seq(L) /\ WellFormed(q) /\ "#" \in L
      /\ Len(p) \in Nat /\ Len(q) \in Nat /\ Len(topic) \in Nat
  BY DEF TrieShape
<1>2. ASSUME Continues(p, q, topic), Len(q) = Len(p) PROVE q = p
  <2>1. \A i \in 1 .. Len(p) : p[i] = q[i]
    BY <1>1, <1>2, PrefixLevels DEF Continues
  <2> QED BY <1>1, <1>2, <2>1, SeqEqual
<1>3. ASSUME Continues(p, q, topic), Len(q) # Len(p) PROVE q = Append(p, "#")
  <2>1. IsPrefix(p, q) /\ Len(p) <= Len(q)
    BY <1>1, <1>3, PrefixLevels DEF Continues
  <2>2. Len(q) > 0 /\ q[Len(q)] = "#" /\ Len(q) = Len(p) + 1
    BY <1>1, <1>3, <2>1 DEF Continues
  <2> QED BY <1>1, <1>3, <2>1, <2>2, HashIsLeaf
<1>4. ASSUME q = p PROVE Continues(p, q, topic)
  <2>1. IsPrefix(p, p)
    BY <1>1, PrefixLevels
  <2>2. ~ (Len(q) > 0 /\ q[Len(q)] = "#")
    BY <1>1, <1>4 DEF NoHash
  <2>3. \A i \in Len(p) + 1 .. Len(q) : Fits(q, topic, i)
    BY <1>1, <1>4
  <2> QED BY <1>4, <2>1, <2>2, <2>3 DEF Continues
<1>5. ASSUME q = Append(p, "#") PROVE Continues(p, q, topic)
  <2>1. Len(q) = Len(p) + 1 /\ q[Len(p) + 1] = "#" /\ IsPrefix(p, q)
    BY <1>1, <1>5, ChildFacts
  <2>2. Len(q) > 0 /\ q[Len(q)] = "#" /\ Len(q) - 1 <= Len(topic)
    BY <1>1, <2>1
  <2>3. \A i \in Len(p) + 1 .. Len(q) - 1 : Fits(q, topic, i)
    BY <1>1, <2>1
  <2> QED BY <2>1, <2>2, <2>3 DEF Continues
<1> QED BY <1>2, <1>3, <1>4, <1>5

\* Before the end it goes on below the '#', the exact and the '+' child.
LEMMA ContinuesBelow ==
  ASSUME NEW L, NEW nodes, TrieShape(L, nodes), NEW topic \in Seq(L),
         NEW p \in nodes, Len(p) < Len(topic), NoHash(p), NEW q \in nodes
  PROVE  Continues(p, q, topic) <=>
           \/ q = Append(p, "#")
           \/ \E level \in {"+", topic[Len(p) + 1]} \ {"#"} :
                Append(p, level) \in nodes /\ Continues(Append(p, level), q, topic)
<1>1. /\ p \in Seq(L) /\ q \in Seq(L) /\ WellFormed(q) /\ "#" \in L /\ "+" \in L
      /\ Len(p) \in Nat /\ Len(q) \in Nat /\ Len(topic) \in Nat
      /\ topic[Len(p) + 1] \in L
  BY DEF TrieShape
<1>2. ASSUME Continues(p, q, topic), q # Append(p, "#")
      PROVE  \E level \in {"+", topic[Len(p) + 1]} \ {"#"} :
               Append(p, level) \in nodes /\ Continues(Append(p, level), q, topic)
  <2>1. IsPrefix(p, q) /\ Len(p) <= Len(q) /\ \A i \in 1 .. Len(p) : p[i] = q[i]
    BY <1>1, <1>2, PrefixLevels DEF Continues
  <2>2. Len(q) # Len(p)
    <3> SUFFICES ASSUME Len(q) = Len(p) PROVE FALSE
      OBVIOUS
    <3>1. ~ (Len(q) > 0 /\ q[Len(q)] = "#")
      BY <1>1, <2>1 DEF NoHash
    <3> QED BY <1>1, <1>2, <3>1 DEF Continues
  <2> DEFINE level == q[Len(p) + 1]
             c == Append(p, level)
  <2>3. level # "#"
    BY <1>1, <1>2, <2>1, <2>2, HashIsLeaf
  <2>4. c \in Prefixes(q) /\ IsPrefix(c, q) /\ Len(c) = Len(p) + 1
    BY <1>1, <2>1, <2>2, NextOnPath
  <2>5. c \in nodes
    BY <2>4 DEF TrieShape
  <2>6. Fits(q, topic, Len(p) + 1)
    <3>1. CASE Len(q) > 0 /\ q[Len(q)] = "#"
      <4>1. Len(q) # Len(p) + 1
        BY <2>3, <3>1
      <4>2. Len(p) + 1 \in Len(p) + 1 .. Len(q) - 1
        BY <1>1, <2>1, <2>2, <4>1
      <4> QED BY <1>2, <3>1, <4>2 DEF Continues
    <3>2. CASE ~ (Len(q) > 0 /\ q[Len(q)] = "#")
      <4>1. Len(p) + 1 \in Len(p) + 1 .. Len(q)
        BY <1>1, <2>1, <2>2
      <4> QED BY <1>2, <3>2, <4>1 DEF Continues
    <3> QED BY <3>1, <3>2
  <2>7. level \in {"+", topic[Len(p) + 1]} \ {"#"}
    BY <2>3, <2>6 DEF Fits
  <2> HIDE DEF c
  <2>8. Continues(c, q, topic)
    <3>1. \A n \in Nat : \A i \in Len(c) + 1 .. n : i \in Len(p) + 1 .. n
      BY <1>1, <2>4
    <3>2. Len(q) - 1 \in Nat
      BY <1>1, <2>1, <2>2
    <3> QED BY <1>1, <1>2, <2>4, <3>1, <3>2 DEF Continues
  <2> QED BY <2>5, <2>7, <2>8 DEF c
<1>3. ASSUME q = Append(p, "#") PROVE Continues(p, q, topic)
  <2>1. Len(q) = Len(p) + 1 /\ q[Len(p) + 1] = "#" /\ IsPrefix(p, q)
    BY <1>1, <1>3, ChildFacts
  <2>2. Len(q) > 0 /\ q[Len(q)] = "#" /\ Len(q) - 1 <= Len(topic)
    BY <1>1, <2>1
  <2>3. \A i \in Len(p) + 1 .. Len(q) - 1 : Fits(q, topic, i)
    BY <1>1, <2>1
  <2> QED BY <2>1, <2>2, <2>3 DEF Continues
<1>4. ASSUME NEW level \in {"+", topic[Len(p) + 1]} \ {"#"},
             Append(p, level) \in nodes, Continues(Append(p, level), q, topic)
      PROVE  Continues(p, q, topic)
  <2> DEFINE c == Append(p, level)
  <2>1. /\ c \in Seq(L) /\ Len(c) = Len(p) + 1 /\ c[Len(p) + 1] = level
        /\ \A i \in 1 .. Len(p) : c[i] = p[i]
    BY <1>1, ChildFacts
  <2> HIDE DEF c
  <2>2. Continues(c, q, topic)
    BY <1>4 DEF c
  <2>3. Len(c) <= Len(q) /\ \A i \in 1 .. Len(c) : c[i] = q[i]
    BY <1>1, <2>1, <2>2, PrefixLevels DEF Continues
  <2>4. IsPrefix(p, q)
    <3>1. Len(p) <= Len(q) /\ \A i \in 1 .. Len(p) : p[i] = q[i]
      BY <1>1, <2>1, <2>3
    <3> QED BY <1>1, <3>1, PrefixLevels
  <2>5. Fits(q, topic, Len(p) + 1)
    <3>1. q[Len(p) + 1] = level
      BY <1>1, <2>1, <2>3
    <3> QED BY <3>1 DEF Fits
  <2>6. \A n \in Nat : \A i \in Len(p) + 1 .. n : i = Len(p) + 1 \/ i \in Len(c) + 1 .. n
    BY <1>1, <2>1
  <2>7. Len(q) - 1 \in Nat
    BY <1>1, <2>1, <2>3
  <2> QED BY <1>1, <2>2, <2>4, <2>5, <2>6, <2>7 DEF Continues
<1> QED BY <1>2, <1>3, <1>4

\* No element occurs twice.
Distinct(s) == \A i, j \in 1 .. Len(s) : s[i] = s[j] => i = j

LEMMA DistinctConcat ==
  ASSUME NEW T, NEW s \in Seq(T), NEW t \in Seq(T), Distinct(s), Distinct(t),
         ToSet(s) \cap ToSet(t) = {}
  PROVE  Distinct(s \o t)
<1> DEFINE u == s \o t
<1>1. /\ Len(u) = Len(s) + Len(t) /\ Len(s) \in Nat /\ Len(t) \in Nat
      /\ \A i \in 1 .. Len(s) + Len(t) : u[i] = IF i <= Len(s) THEN s[i] ELSE t[i - Len(s)]
  BY ConcatProperties
<1> HIDE DEF u
<1>2. /\ ToSet(s) = {s[i] : i \in 1 .. Len(s)}
      /\ ToSet(t) = {t[i] : i \in 1 .. Len(t)}
  BY ToSetIs
<1>3. ASSUME NEW i \in 1 .. Len(u), NEW j \in 1 .. Len(u), u[i] = u[j] PROVE i = j
  <2>1. ASSUME NEW k \in 1 .. Len(u), k <= Len(s) PROVE k \in 1 .. Len(s) /\ u[k] = s[k]
    BY <1>1, <2>1
  <2>2. ASSUME NEW k \in 1 .. Len(u), ~ (k <= Len(s))
        PROVE  k - Len(s) \in 1 .. Len(t) /\ u[k] = t[k - Len(s)]
    BY <1>1, <2>2
  <2>3. CASE i <= Len(s) /\ j <= Len(s)
    <3>1. i \in 1 .. Len(s) /\ j \in 1 .. Len(s) /\ s[i] = s[j]
      BY <1>3, <2>1, <2>3
    <3> QED BY <3>1 DEF Distinct
  <2>4. CASE ~ (i <= Len(s)) /\ ~ (j <= Len(s))
    <3>1. i - Len(s) \in 1 .. Len(t) /\ j - Len(s) \in 1 .. Len(t) /\ t[i - Len(s)] = t[j - Len(s)]
      BY <1>3, <2>2, <2>4
    <3>2. i - Len(s) = j - Len(s)
      <4>1. PICK a, b \in 1 .. Len(t) : a = i - Len(s) /\ b = j - Len(s)
        BY <3>1
      <4> QED BY <3>1, <4>1 DEF Distinct
    <3> QED BY <1>1, <3>2
  <2>5. ASSUME NEW k \in 1 .. Len(u), NEW m \in 1 .. Len(u), k <= Len(s), ~ (m <= Len(s)), u[k] = u[m]
        PROVE  FALSE
    <3>1. u[k] \in ToSet(s)
      BY <1>2, <2>1, <2>5
    <3>2. u[m] \in ToSet(t)
      BY <1>2, <2>2, <2>5
    <3> QED BY <2>5, <3>1, <3>2
  <2> QED BY <1>3, <2>3, <2>4, <2>5
<1>4. Distinct(u)
  BY <1>3 DEF Distinct
<1> QED BY <1>4 DEF u

\* What the search collects at a node above which there is no '#', given
\* what it collects below: all the nodes that continue, each once.
CollectedAt(nodes, topic, p, s) ==
  /\ ToSet(s) = {q \in nodes : Continues(p, q, topic)}
  /\ Distinct(s)

LEMMA VisitStepCollects ==
  ASSUME NEW L, NEW nodes, TrieShape(L, nodes), NEW topic \in Seq(L), NEW v,
         VisitTrace(nodes, topic, v),
         NEW p \in Reach(nodes, topic), NoHash(p),
         \A q \in Reach(nodes, topic) :
           Len(q) > Len(p) /\ NoHash(q) => CollectedAt(nodes, topic, q, v[q])
  PROVE  CollectedAt(nodes, topic, p, v[p])
<1> DEFINE hash == HashChild(nodes, p)
           exact == Exact(nodes, topic, v, p)
           plus == Down(nodes, v, p, "+")
           seg == topic[Len(p) + 1]
<1>1. /\ p \in nodes /\ p \in Seq(L) /\ Len(p) \in Nat /\ Len(topic) \in Nat /\ Len(p) <= Len(topic)
      /\ "+" \in L /\ "#" \in L
  BY DEF TrieShape, Reach
<1>2. \A q \in Reach(nodes, topic) : v[q] \in Seq(nodes)
  BY DEF VisitTrace
<1>3. v[p] = VisitStep(nodes, topic, v, p)
  BY DEF VisitTrace
<1>4. ToSet(v[p]) = ToSet(hash) \cup IF Len(p) = Len(topic) THEN {p} ELSE ToSet(exact) \cup ToSet(plus)
  BY <1>2, <1>3, VisitStepNodes
<1>5. hash \in Seq(nodes) /\ ToSet(hash) = {q \in nodes : q = Append(p, "#")} /\ Distinct(hash)
  <2>1. CASE Append(p, "#") \in nodes
    <3>1. hash = <<Append(p, "#")>>
      BY <2>1 DEF HashChild
    <3>2. PICK h \in nodes : h = Append(p, "#")
      BY <2>1
    <3>3. <<h>> \in Seq(nodes) /\ Len(<<h>>) = 1 /\ <<h>>[1] = h
      OBVIOUS
    <3>4. ToSet(<<h>>) = {<<h>>[i] : i \in 1 .. 1}
      BY <3>3, ToSetIs
    <3>5. ToSet(<<h>>) = {h}
      BY <3>3, <3>4
    <3>6. Distinct(<<h>>)
      BY <3>3 DEF Distinct
    <3> QED BY <3>1, <3>2, <3>3, <3>5, <3>6
  <2>2. CASE Append(p, "#") \notin nodes
    <3>1. hash = << >>
      BY <2>2 DEF HashChild
    <3>2. ToSet(<< >>) = {} /\ << >> \in Seq(nodes)
      BY DEF ToSet
    <3>3. Distinct(<< >>)
      BY DEF Distinct
    <3> QED BY <2>2, <3>1, <3>2, <3>3
  <2> QED BY <2>1, <2>2
<1>6. CASE Len(p) = Len(topic)
  <2>1. \A q \in nodes : Continues(p, q, topic) <=> q = p \/ q = Append(p, "#")
    BY <1>1, <1>6, ContinuesAtEnd
  <2>2. ToSet(v[p]) = {q \in nodes : Continues(p, q, topic)}
    BY <1>1, <1>4, <1>5, <1>6, <2>1
  <2>3. v[p] = hash \o <<p>>
    BY <1>3, <1>6 DEF VisitStep
  <2>4. <<p>> \in Seq(nodes) /\ Len(<<p>>) = 1 /\ <<p>>[1] = p
    BY <1>1
  <2>5. Distinct(<<p>>)
    BY <2>4 DEF Distinct
  <2>6. ToSet(<<p>>) = {p}
    <3>1. ToSet(<<p>>) = {<<p>>[i] : i \in 1 .. 1}
      BY <2>4, ToSetIs
    <3> QED BY <2>4, <3>1
  <2>7. p # Append(p, "#")
    <3>1. Len(Append(p, "#")) = Len(p) + 1
      BY <1>1, ChildFacts
    <3> QED BY <1>1, <3>1
  <2>8. ToSet(hash) \cap ToSet(<<p>>) = {}
    BY <1>5, <2>6, <2>7
  <2>9. Distinct(v[p])
    <3> HIDE DEF hash
    <3> QED BY <1>5, <2>3, <2>4, <2>5, <2>8, DistinctConcat
  <2> QED BY <2>2, <2>9 DEF CollectedAt
<1>7. CASE Len(p) # Len(topic)
  <2>1. Len(p) < Len(topic) /\ seg \in L
    BY <1>1, <1>7
  <2> DEFINE Via(level) == {q \in nodes : Append(p, level) \in nodes /\ Continues(Append(p, level), q, topic)}
  <2>2. ASSUME NEW level \in L, level # "#"
        PROVE  /\ Down(nodes, v, p, level) \in Seq(nodes)
               /\ ToSet(Down(nodes, v, p, level)) = Via(level)
               /\ Distinct(Down(nodes, v, p, level))
    <3>1. CASE Append(p, level) \in nodes
      <4>1. PICK c : c = Append(p, level)
        OBVIOUS
      <4>2. c \in nodes /\ Len(c) = Len(p) + 1 /\ NoHash(c)
        BY <1>1, <2>2, <3>1, <4>1, ChildFacts
      <4>3. c \in Reach(nodes, topic) /\ Len(c) > Len(p)
        BY <1>1, <2>1, <4>2 DEF Reach
      <4>4. CollectedAt(nodes, topic, c, v[c]) /\ v[c] \in Seq(nodes)
        BY <1>2, <4>2, <4>3
      <4>5. Down(nodes, v, p, level) = v[c]
        BY <3>1, <4>1 DEF Down
      <4> QED BY <3>1, <4>1, <4>4, <4>5, Zenon DEF CollectedAt
    <3>2. CASE Append(p, level) \notin nodes
      <4>1. Down(nodes, v, p, level) = << >>
        BY <3>2 DEF Down
      <4>2. ToSet(<< >>) = {} /\ << >> \in Seq(nodes)
        BY DEF ToSet
      <4>3. Distinct(<< >>)
        BY DEF Distinct
      <4>4. Via(level) = {}
        BY <3>2
      <4> HIDE DEF Via
      <4> QED BY <4>1, <4>2, <4>3, <4>4
    <3> QED BY <3>1, <3>2
  <2>3. ASSUME NEW level \in L, NEW q \in Via(level) PROVE q[Len(p) + 1] = level /\ Len(q) >= Len(p) + 1
    <3>1. Append(p, level) \in nodes /\ Continues(Append(p, level), q, topic) /\ q \in nodes
      BY <2>3
    <3>2. PICK c : c = Append(p, level)
      OBVIOUS
    <3>3. c \in Seq(L) /\ Len(c) = Len(p) + 1 /\ c[Len(p) + 1] = level
      BY <1>1, <3>2, ChildFacts
    <3>4. q \in Seq(L) /\ IsPrefix(c, q)
      BY <3>1, <3>2 DEF TrieShape, Continues
    <3>5. Len(c) <= Len(q) /\ \A i \in 1 .. Len(c) : c[i] = q[i]
      BY <3>3, <3>4, PrefixLevels
    <3>6. Len(p) + 1 \in 1 .. Len(c) /\ Len(q) \in Nat
      BY <1>1, <3>3, <3>4
    <3> QED BY <1>1, <3>3, <3>5, <3>6
  <2>4. /\ plus \in Seq(nodes) /\ ToSet(plus) = Via("+") /\ Distinct(plus)
    <3>1. "+" # "#"
      OBVIOUS
    <3> HIDE DEF Via
    <3> QED BY <1>1, <2>2, <3>1, Zenon
  <2>5. /\ exact \in Seq(nodes) /\ Distinct(exact)
        /\ ToSet(exact) = IF seg \in {"+", "#"} THEN {} ELSE Via(seg)
    <3>1. CASE seg \in {"+", "#"}
      <4>1. exact = << >>
        BY <3>1 DEF Exact
      <4>2. ToSet(<< >>) = {} /\ << >> \in Seq(nodes)
        BY DEF ToSet
      <4>3. Distinct(<< >>)
        BY DEF Distinct
      <4> HIDE DEF exact, seg, Via
      <4> QED BY <3>1, <4>1, <4>2, <4>3
    <3>2. CASE seg \notin {"+", "#"}
      <4>1. exact = Down(nodes, v, p, seg)
        BY <3>2 DEF Exact
      <4> HIDE DEF exact, seg, Via
      <4> QED BY <2>1, <2>2, <3>2, <4>1
    <3> QED BY <3>1, <3>2
  <2>6. \A q \in nodes : Continues(p, q, topic) <=>
                           q = Append(p, "#") \/ \E level \in {"+", seg} \ {"#"} : q \in Via(level)
    <3> SUFFICES ASSUME NEW q \in nodes
                 PROVE  Continues(p, q, topic) <=>
                          q = Append(p, "#") \/ \E level \in {"+", seg} \ {"#"} : q \in Via(level)
      OBVIOUS
    <3>1. Continues(p, q, topic) <=>
           \/ q = Append(p, "#")
           \/ \E level \in {"+", topic[Len(p) + 1]} \ {"#"} :
                Append(p, level) \in nodes /\ Continues(Append(p, level), q, topic)
      BY <1>1, <2>1, ContinuesBelow
    <3> QED BY <3>1
  <2>7. ToSet(v[p]) = {q \in nodes : Continues(p, q, topic)}
    <3>1. \A level : Via(level) \subseteq nodes
      OBVIOUS
    <3> HIDE DEF Via, hash, exact, plus, seg
    <3>2. {q \in nodes : Continues(p, q, topic)} = ToSet(hash) \cup ToSet(exact) \cup ToSet(plus)
      BY <1>5, <2>4, <2>5, <2>6, <3>1, ZenonT(60)
    <3> QED BY <1>4, <1>7, <3>2
  <2>8. ToSet(exact) \cap ToSet(plus) = {}
    <3> SUFFICES ASSUME NEW q \in ToSet(exact), q \in ToSet(plus) PROVE FALSE
      OBVIOUS
    <3>1. seg # "+" /\ q \in Via(seg) /\ q \in Via("+")
      BY <2>4, <2>5
    <3> HIDE DEF Via
    <3> QED BY <1>1, <2>1, <2>3, <3>1
  <2> DEFINE rest == exact \o plus
  <2>9. rest \in Seq(nodes) /\ ToSet(rest) = ToSet(exact) \cup ToSet(plus) /\ Distinct(rest)
    <3> HIDE DEF exact, plus
    <3> QED BY <2>4, <2>5, <2>8, ToSetConcat, DistinctConcat
  <2>10. ToSet(hash) \cap ToSet(rest) = {}
    <3> SUFFICES ASSUME NEW q \in ToSet(hash), q \in ToSet(rest) PROVE FALSE
      OBVIOUS
    <3>1. q[Len(p) + 1] = "#"
      BY <1>1, <1>5, ChildFacts
    <3>2. \E level \in L \ {"#"} : q \in Via(level)
      <4>1. q \in ToSet(exact) => seg \notin {"+", "#"} /\ q \in Via(seg)
        BY <2>5
      <4>2. "+" # "#"
        OBVIOUS
      <4> HIDE DEF exact, plus, seg, Via, rest
      <4> QED BY <1>1, <2>1, <2>4, <2>9, <4>1, <4>2
    <3> HIDE DEF Via
    <3> QED BY <2>3, <3>1, <3>2
  <2>11. v[p] = hash \o rest
    BY <1>3, <1>7 DEF VisitStep
  <2>12. Distinct(v[p])
    <3> HIDE DEF hash, rest
    <3> QED BY <1>5, <2>9, <2>10, <2>11, DistinctConcat
  <2> QED BY <2>7, <2>12 DEF CollectedAt
<1> QED BY <1>6, <1>7

\* match_recursive meets exactly the nodes that match the topic, each once.
LEMMA VisitedMatches ==
  ASSUME NEW L, NEW trie, TrieShape(L, trie.nodes), NEW topic \in Seq(L)
  PROVE  /\ Visited(trie, topic) \in Seq(trie.nodes)
         /\ ToSet(Visited(trie, topic)) = {q \in trie.nodes : Matches(q, topic)}
         /\ Distinct(Visited(trie, topic))
<1> DEFINE N == trie.nodes
           D == Reach(N, topic)
<1>1. PICK v : VisitTrace(N, topic, v) /\ Visited(trie, topic) = v[<< >>]
  BY VisitRounds
<1>2. /\ Len(topic) \in Nat /\ N \subseteq Seq(L)
      /\ \A p \in D : p \in N /\ Len(p) \in 0 .. Len(topic)
  BY DEF TrieShape, Reach
<1> DEFINE S == {n \in Nat : \A p \in D : Len(topic) - Len(p) < n /\ NoHash(p)
                                            => CollectedAt(N, topic, p, v[p])}
<1>3. 0 \in S
  BY <1>2
<1>4. ASSUME NEW n \in Nat, n \in S PROVE n + 1 \in S
  <2> SUFFICES ASSUME NEW p \in D, Len(topic) - Len(p) < n + 1, NoHash(p)
               PROVE  CollectedAt(N, topic, p, v[p])
    OBVIOUS
  <2>1. \A q \in D : Len(q) > Len(p) => Len(topic) - Len(q) < n
    BY <1>2
  <2>2. \A q \in D : Len(q) > Len(p) /\ NoHash(q) => CollectedAt(N, topic, q, v[q])
    <3> HIDE DEF D, N
    <3> QED BY <1>4, <2>1
  <2> QED BY <1>1, <2>2, VisitStepCollects
<1>5. Len(topic) + 1 \in S
  <2> HIDE DEF S
  <2> QED BY <1>2, <1>3, <1>4, SetInduction
<1>6. << >> \in D /\ Len(<< >>) = 0
  BY <1>2 DEF Reach, TrieShape
<1>7. NoHash(<< >>)
  BY DEF NoHash
<1>8. CollectedAt(N, topic, << >>, v[<< >>])
  <2>1. Len(topic) - 0 < Len(topic) + 1
    BY <1>2
  <2> HIDE DEF D, N
  <2> QED BY <1>5, <1>6, <1>7, <2>1
<1>9. \A q \in N : Continues(<< >>, q, topic) <=> Matches(q, topic)
  <2> SUFFICES ASSUME NEW q \in N PROVE Continues(<< >>, q, topic) <=> Matches(q, topic)
    OBVIOUS
  <2>1. q \in Seq(L) /\ Len(q) \in Nat /\ << >> \in Seq(L)
    BY <1>2
  <2>2. IsPrefix(<< >>, q)
    <3>1. PICK e \in Seq(L) : e = << >> /\ Len(e) = 0
      BY <1>6, <2>1
    <3>2. Len(e) <= Len(q) /\ \A i \in 1 .. Len(e) : e[i] = q[i]
      BY <2>1, <3>1
    <3>3. IsPrefix(e, q)
      BY <2>1, <3>2, PrefixLevels
    <3> QED BY <3>1, <3>3
  <2>3. 0 + 1 = 1
    OBVIOUS
  <2> QED BY <1>6, <2>2, <2>3 DEF Continues, Matches, LevelsMatch, Fits
<1>10. v[<< >>] \in Seq(N)
  <2> HIDE DEF D
  <2> QED BY <1>1, <1>6 DEF VisitTrace, D
<1> QED BY <1>1, <1>8, <1>9, <1>10 DEF CollectedAt

-----------------------------------------------------------------------------
(* Filters and the paths they stand for.                                   *)

LEMMA ParseFacts ==
  ASSUME NEW L, NEW topic_filter \in Seq(L)
  PROVE  LET parsed == parse_shared_subscription(topic_filter) IN
         /\ parsed.filter \in Seq(L)
         /\ parsed.group = << >> \/ (parsed.group # << >> /\ parsed.group[1] \in L
                                       /\ parsed.group = <<parsed.group[1]>>)
<1>1. CASE Len(topic_filter) >= 3 /\ topic_filter[1] = "$share"
  <2>1. Len(topic_filter) \in Nat /\ \A i \in 1 .. Len(topic_filter) : topic_filter[i] \in L
    OBVIOUS
  <2>2. SubSeq(topic_filter, 3, Len(topic_filter)) \in Seq(L)
    BY <1>1, <2>1, SubSeqProperties
  <2>3. topic_filter[2] \in L
    BY <1>1, <2>1
  <2> QED BY <1>1, <2>2, <2>3 DEF parse_shared_subscription
<1>2. CASE ~ (Len(topic_filter) >= 3 /\ topic_filter[1] = "$share")
  BY <1>2 DEF parse_shared_subscription
<1> QED BY <1>1, <1>2

LEMMA PrefixesFacts ==
  ASSUME NEW L, NEW p \in Seq(L)
  PROVE  /\ \A q : q \in Prefixes(p) <=> q \in Seq(L) /\ IsPrefix(q, p)
         /\ p \in Prefixes(p) /\ << >> \in Prefixes(p)
         /\ \A q \in Prefixes(p) : WellFormed(p) => WellFormed(q)
         /\ \A q \in Prefixes(p) : Prefixes(q) \subseteq Prefixes(p)
<1>1. Len(p) \in Nat
  OBVIOUS
<1>2. ASSUME NEW n \in 0 .. Len(p)
      PROVE  LET q == SubSeq(p, 1, n) IN
             q \in Seq(L) /\ Len(q) = n /\ \A i \in 1 .. n : q[i] = p[i]
  BY <1>1
<1>3. ASSUME NEW q \in Prefixes(p) PROVE q \in Seq(L) /\ IsPrefix(q, p)
  <2>1. PICK n \in 0 .. Len(p) : q = SubSeq(p, 1, n)
    BY DEF Prefixes
  <2>2. q \in Seq(L) /\ Len(q) = n /\ \A i \in 1 .. n : q[i] = p[i]
    BY <1>2, <2>1
  <2>3. Len(q) <= Len(p) /\ \A i \in 1 .. Len(q) : q[i] = p[i]
    BY <1>1, <2>2
  <2> QED BY <2>2, <2>3, PrefixLevels
<1>4. ASSUME NEW q \in Seq(L), IsPrefix(q, p) PROVE q \in Prefixes(p)
  <2>1. Len(q) <= Len(p) /\ \A i \in 1 .. Len(q) : q[i] = p[i]
    BY <1>4, PrefixLevels
  <2>2. Len(q) \in 0 .. Len(p)
    BY <1>1, <2>1
  <2> DEFINE r == SubSeq(p, 1, Len(q))
  <2>3. r \in Seq(L) /\ Len(r) = Len(q) /\ \A i \in 1 .. Len(q) : r[i] = p[i]
    BY <1>2, <2>2
  <2>4. r \in Prefixes(p)
    BY <2>2 DEF Prefixes
  <2> HIDE DEF r
  <2>5. \A i \in 1 .. Len(q) : r[i] = q[i]
    BY <2>1, <2>3
  <2>6. r = q
    BY <2>3, <2>5, SeqEqual
  <2> QED BY <2>4, <2>6
<1>5. p \in Prefixes(p)
  <2>1. IsPrefix(p, p)
    BY <1>1, PrefixLevels
  <2> QED BY <1>4, <2>1
<1>6. << >> \in Prefixes(p)
  <2>1. PICK e \in Seq(L) : e = << >> /\ Len(e) = 0
    BY EmptySeq
  <2>2. Len(e) <= Len(p) /\ \A i \in 1 .. Len(e) : e[i] = p[i]
    BY <1>1, <2>1
  <2>3. IsPrefix(e, p)
    BY <2>2, PrefixLevels
  <2> QED BY <1>4, <2>1, <2>3
<1>7. ASSUME NEW q \in Prefixes(p), WellFormed(p) PROVE WellFormed(q)
  <2>1. q \in Seq(L) /\ Len(q) <= Len(p) /\ \A i \in 1 .. Len(q) : q[i] = p[i]
    BY <1>3, PrefixLevels
  <2> QED BY <1>1, <1>7, <2>1 DEF WellFormed
<1>8. ASSUME NEW q \in Prefixes(p), NEW r \in Prefixes(q) PROVE r \in Prefixes(p)
  <2>1. q \in Seq(L) /\ Len(q) <= Len(p) /\ \A i \in 1 .. Len(q) : q[i] = p[i]
    BY <1>3, PrefixLevels
  <2>2. r \in Seq(L) /\ IsPrefix(r, q)
    <3>1. PICK n \in 0 .. Len(q) : r = SubSeq(q, 1, n)
      BY DEF Prefixes
    <3>2. r \in Seq(L) /\ Len(r) = n /\ \A i \in 1 .. n : r[i] = q[i]
      BY <2>1, <3>1
    <3>3. Len(r) <= Len(q) /\ \A i \in 1 .. Len(r) : r[i] = q[i]
      BY <2>1, <3>2
    <3> QED BY <2>1, <3>2, <3>3, PrefixLevels
  <2>3. Len(r) <= Len(q) /\ \A i \in 1 .. Len(r) : r[i] = q[i]
    BY <2>1, <2>2, PrefixLevels
  <2>4. Len(r) <= Len(p) /\ \A i \in 1 .. Len(r) : r[i] = p[i]
    BY <1>1, <2>1, <2>2, <2>3
  <2>5. IsPrefix(r, p)
    BY <2>2, <2>4, PrefixLevels
  <2> QED BY <1>4, <2>2, <2>5
<1> QED BY <1>3, <1>4, <1>5, <1>6, <1>7, <1>8

\* subscribe stops at the first '#', so what it walks is well formed.
LEMMA WalkedFacts ==
  ASSUME NEW L, NEW filter \in Seq(L)
  PROVE  /\ Walked(filter) \in Prefixes(filter)
         /\ Walked(filter) \in Seq(L)
         /\ WellFormed(Walked(filter))
         /\ \/ Walked(filter) = filter
            \/ Walked(filter) # << >> /\ Walked(filter)[Len(Walked(filter))] = "#"
         /\ WellFormed(filter) => Walked(filter) = filter
<1>1. Len(filter) \in Nat /\ ToSet(filter) = {filter[i] : i \in 1 .. Len(filter)}
  BY ToSetIs
<1>2. CASE "#" \notin ToSet(filter)
  <2>1. Walked(filter) = filter
    BY <1>2 DEF Walked
  <2>2. WellFormed(filter)
    BY <1>1, <1>2 DEF WellFormed
  <2> QED BY <2>1, <2>2, PrefixesFacts
<1>3. CASE "#" \in ToSet(filter)
  <2> DEFINE I == {i \in 1 .. Len(filter) : filter[i] = "#"}
             m == Min(I)
             w == SubSeq(filter, 1, m)
  <2>1. I # {} /\ I \subseteq Nat
    BY <1>1, <1>3
  <2>2. m \in I /\ \A i \in I : m <= i
    <3>1. \E i \in I : \A j \in I : i <= j
      <4> HIDE DEF I
      <4> QED BY <2>1, LeastElement
    <3> HIDE DEF I
    <3> QED BY <3>1 DEF Min
  <2>3. Walked(filter) = w
    <3>1. SelectInSeq(filter, LAMBDA level : level = "#") = m
      BY <2>1 DEF SelectInSeq
    <3> QED BY <1>3, <3>1 DEF Walked
  <2>4. m \in 1 .. Len(filter) /\ filter[m] = "#" /\ \A i \in 1 .. Len(filter) : filter[i] = "#" => m <= i
    BY <2>2
  <2> HIDE DEF m
  <2>5. w \in Seq(L) /\ Len(w) = m /\ \A i \in 1 .. m : w[i] = filter[i]
    BY <1>1, <2>4
  <2>6. w \in Prefixes(filter)
    BY <1>1, <2>4 DEF Prefixes
  <2> HIDE DEF w
  <2>7. w # << >> /\ w[Len(w)] = "#"
    <3>1. Len(w) # 0 /\ w[Len(w)] = "#"
      BY <2>4, <2>5
    <3> QED BY <3>1, EmptySeq
  <2>8. WellFormed(w)
    BY <1>1, <2>4, <2>5 DEF WellFormed
  <2>9. WellFormed(filter) => w = filter
    <3> SUFFICES ASSUME WellFormed(filter) PROVE w = filter
      OBVIOUS
    <3>1. m = Len(filter)
      BY <1>1, <2>4 DEF WellFormed
    <3>2. Len(w) = Len(filter) /\ \A i \in 1 .. Len(w) : w[i] = filter[i]
      BY <2>5, <3>1
    <3> QED BY <2>5, <3>2, SeqEqual
  <2> QED BY <2>3, <2>5, <2>6, <2>7, <2>8, <2>9
<1> QED BY <1>2, <1>3

-----------------------------------------------------------------------------
(* The operations keep the trie in order.                                  *)

\* A member's entry in a group.
Entry(C, I) == [client : C, info : I]

\* A list of members: not empty, each client once.
Members(C, I, list) ==
  /\ list \in Seq(Entry(C, I)) /\ list # << >>
  /\ \A i, j \in 1 .. Len(list) : list[i].client = list[j].client => i = j

\* Every entry is at a node, and a client has one at a node, and one in a
\* group.
GoodTrie(L, C, I, t) ==
  /\ t = [nodes |-> t.nodes, subs |-> t.subs, shared |-> t.shared]
  /\ TrieShape(L, t.nodes)
  /\ t.subs \subseteq [node : t.nodes, client : C, info : I]
  /\ \A r, s \in t.subs : r.node = s.node /\ r.client = s.client => r = s
  /\ t.shared = [k \in DOMAIN t.shared |-> t.shared[k]]
  /\ DOMAIN t.shared \subseteq t.nodes \X L
  /\ \A k \in DOMAIN t.shared : Members(C, I, t.shared[k])

LEMMA EmptyTrieGood ==
  ASSUME NEW L, {"+", "#"} \subseteq L, NEW C, NEW I
  PROVE  GoodTrie(L, C, I, EmptyTrie)
<1> DEFINE none == << >>
<1>1. DOMAIN none = {} /\ none = [k \in DOMAIN none |-> none[k]]
  OBVIOUS
<1>2. /\ EmptyTrie.nodes = {none} /\ EmptyTrie.subs = {} /\ EmptyTrie.shared = none
      /\ EmptyTrie = [nodes |-> EmptyTrie.nodes, subs |-> EmptyTrie.subs, shared |-> EmptyTrie.shared]
  BY DEF EmptyTrie
<1>3. TrieShape(L, {none})
  <2>1. none \in Seq(L) /\ Len(none) = 0
    OBVIOUS
  <2>2. WellFormed(none)
    BY <2>1 DEF WellFormed
  <2>3. Prefixes(none) \subseteq {none}
    <3>1. \A q \in Prefixes(none) : q \in Seq(L) /\ Len(q) = 0
      <4> SUFFICES ASSUME NEW q \in Prefixes(none) PROVE q \in Seq(L) /\ Len(q) = 0
        OBVIOUS
      <4>1. q \in Seq(L) /\ IsPrefix(q, none)
        BY <2>1, PrefixesFacts
      <4>2. Len(q) <= Len(none)
        BY <4>1 DEF IsPrefix
      <4> QED BY <2>1, <4>1, <4>2
    <3> QED BY <3>1, EmptySeq
  <2> QED BY <2>1, <2>2, <2>3 DEF TrieShape
<1> HIDE DEF none
<1> QED BY <1>1, <1>2, <1>3 DEF GoodTrie

\* The retain of a group: the other members, each once.
LEMMA OthersFacts ==
  ASSUME NEW C, NEW I, NEW list \in Seq(Entry(C, I)), NEW client \in C,
         \A i, j \in 1 .. Len(list) : list[i].client = list[j].client => i = j
  PROVE  LET left == Others(list, client) IN
         /\ left \in Seq(Entry(C, I))
         /\ ToSet(left) = {e \in ToSet(list) : e.client # client}
         /\ \A i, j \in 1 .. Len(left) : left[i].client = left[j].client => i = j
<1> DEFINE set == {s \in ToSet(list) : s.client # client}
           left == Kept(list, set)
           E == Entry(C, I)
<1>1. /\ left \in Seq(E) /\ ToSet(left) = ToSet(list) \cap set
      /\ \A a, b \in 1 .. Len(left) :
           a < b => \E x, y \in 1 .. Len(list) : x < y /\ left[a] = list[x] /\ left[b] = list[y]
  <2> HIDE DEF E, set
  <2> QED BY KeptElements DEF E, InOrder
<1>2. Len(left) \in Nat /\ Len(list) \in Nat
  <2> HIDE DEF E, left
  <2> QED BY <1>1
<1> HIDE DEF left
<1>3. ASSUME NEW a \in 1 .. Len(left), NEW b \in 1 .. Len(left), a < b
      PROVE  left[a].client # left[b].client
  <2>1. PICK x, y \in 1 .. Len(list) : x < y /\ left[a] = list[x] /\ left[b] = list[y]
    BY <1>1, <1>3
  <2> QED BY <1>2, <2>1
<1>4. \A i, j \in 1 .. Len(left) : left[i].client = left[j].client => i = j
  <2> SUFFICES ASSUME NEW i \in 1 .. Len(left), NEW j \in 1 .. Len(left), i # j
               PROVE  left[i].client # left[j].client
    OBVIOUS
  <2>1. i < j \/ j < i
    BY <1>2
  <2> QED BY <1>3, <2>1
<1>5. Others(list, client) = left
  BY DEF Others, left
<1> QED BY <1>1, <1>4, <1>5

\* The path of a filter added to the nodes.
LEMMA PathCreated ==
  ASSUME NEW L, NEW nodes, TrieShape(L, nodes), NEW filter \in Seq(L)
  PROVE  TrieShape(L, nodes \cup Prefixes(Walked(filter)))
<1> DEFINE w == Walked(filter)
<1>1. w \in Seq(L) /\ WellFormed(w)
  BY WalkedFacts
<1> HIDE DEF w
<1>2. /\ \A q \in Prefixes(w) : q \in Seq(L) /\ WellFormed(q) /\ Prefixes(q) \subseteq Prefixes(w)
  BY <1>1, PrefixesFacts
<1>3. TrieShape(L, nodes \cup Prefixes(w))
  BY <1>2 DEF TrieShape
<1> QED BY <1>3 DEF w

\* What subscribe changes: the entry of the client at the node, or in the
\* group at the node.
SubscribeNode(f) == Walked(parse_shared_subscription(f).filter)
SubscribeGroup(f) == parse_shared_subscription(f).group

Subscribed(t, u, client, f, info) ==
  LET n == SubscribeNode(f)
      g == SubscribeGroup(f)
      key == <<n, g[1]>>
      e == [client |-> client, info |-> info]
  IN
  /\ u.nodes = t.nodes \cup Prefixes(n)
  /\ g = << >> =>
       /\ u.shared = t.shared
       /\ u.subs = {s \in t.subs : ~ (s.node = n /\ s.client = client)}
                     \cup {[node |-> n, client |-> client, info |-> info]}
  /\ g # << >> =>
       /\ u.subs = t.subs
       /\ DOMAIN u.shared = DOMAIN t.shared \cup {key}
       /\ \A k \in DOMAIN t.shared : k # key => u.shared[k] = t.shared[k]
       /\ ToSet(u.shared[key]) = {e} \cup
            IF key \in DOMAIN t.shared
            THEN {d \in ToSet(t.shared[key]) : d.client # client} ELSE {}

LEMMA SubscribeFacts ==
  ASSUME NEW L, NEW C, NEW I, NEW t, GoodTrie(L, C, I, t),
         NEW client \in C, NEW f \in Seq(L), NEW info \in I
  PROVE  /\ GoodTrie(L, C, I, subscribe(t, client, f, info))
         /\ Subscribed(t, subscribe(t, client, f, info), client, f, info)
<1> DEFINE u == subscribe(t, client, f, info)
           n == SubscribeNode(f)
           g == SubscribeGroup(f)
           key == <<n, g[1]>>
           e == [client |-> client, info |-> info]
           created == t.nodes \cup Prefixes(n)
<1>1. parse_shared_subscription(f).filter \in Seq(L)
  BY ParseFacts
<1>2. TrieShape(L, created) /\ n \in created
  <2>1. n \in Seq(L) /\ n \in Prefixes(n)
    BY <1>1, WalkedFacts, PrefixesFacts DEF SubscribeNode
  <2> QED BY <1>1, <2>1, PathCreated DEF SubscribeNode, GoodTrie
<1>3. CASE g = << >>
  <2> DEFINE new == [node |-> n, client |-> client, info |-> info]
             subs == {s \in t.subs : ~ (s.node = n /\ s.client = client)} \cup {new}
  <2>1. u = [t EXCEPT !.nodes = created, !.subs = subs]
    BY <1>3 DEF subscribe, SubscribeNode, SubscribeGroup
  <2> HIDE DEF u, created, n
  <2>2. /\ u = [nodes |-> created, subs |-> subs, shared |-> t.shared]
    BY <2>1 DEF GoodTrie
  <2>3. u.nodes = created /\ u.subs = subs /\ u.shared = t.shared
        /\ u = [nodes |-> u.nodes, subs |-> u.subs, shared |-> u.shared]
    BY <2>2
  <2>4. t.nodes \subseteq created
    BY DEF created
  <2>5. subs \subseteq [node : created, client : C, info : I]
    <3>1. new \in [node : created, client : C, info : I]
      BY <1>2
    <3>2. t.subs \subseteq [node : created, client : C, info : I]
      BY <2>4 DEF GoodTrie
    <3> QED BY <3>1, <3>2
  <2>6. \A r, s \in subs : r.node = s.node /\ r.client = s.client => r = s
    BY DEF GoodTrie
  <2>7. DOMAIN t.shared \subseteq created \X L
    BY <2>4 DEF GoodTrie
  <2> HIDE DEF subs
  <2>8. GoodTrie(L, C, I, u)
    BY <1>2, <2>3, <2>5, <2>6, <2>7 DEF GoodTrie
  <2> QED BY <1>3, <2>3, <2>8 DEF u, created, n, subs, Subscribed
<1>4. CASE g # << >>
  <2> DEFINE list == IF key \in DOMAIN t.shared THEN t.shared[key] ELSE << >>
             left == Others(list, client)
             new == Append(left, e)
             shared == Insert(t.shared, key, new)
             E == Entry(C, I)
  <2>1. u = [t EXCEPT !.nodes = created, !.shared = shared]
    BY <1>4 DEF subscribe, SubscribeNode, SubscribeGroup
  <2>2. g[1] \in L
    BY <1>4, ParseFacts DEF SubscribeGroup
  <2> HIDE DEF u, created, n, g
  <2>3. u = [nodes |-> created, subs |-> t.subs, shared |-> shared]
    BY <2>1 DEF GoodTrie
  <2> HIDE DEF shared
  <2>4. u.nodes = created /\ u.subs = t.subs /\ u.shared = shared
        /\ u = [nodes |-> u.nodes, subs |-> u.subs, shared |-> u.shared]
    BY <2>3
  <2>5. t.nodes \subseteq created
    BY DEF created
  <2>6. /\ list \in Seq(E)
        /\ \A i, j \in 1 .. Len(list) : list[i].client = list[j].client => i = j
    <3>1. CASE key \in DOMAIN t.shared
      BY <3>1 DEF GoodTrie, Members
    <3>2. CASE key \notin DOMAIN t.shared
      BY <3>2
    <3> QED BY <3>1, <3>2
  <2>7. /\ left \in Seq(E)
        /\ ToSet(left) = {d \in ToSet(list) : d.client # client}
        /\ \A i, j \in 1 .. Len(left) : left[i].client = left[j].client => i = j
    <3> HIDE DEF list
    <3> QED BY <2>6, OthersFacts
  <2> HIDE DEF left
  <2>8. e \in E /\ e.client = client
    BY DEF Entry
  <2>9. /\ new \in Seq(E) /\ new # << >> /\ ToSet(new) = ToSet(left) \cup {e}
        /\ Len(new) = Len(left) + 1 /\ Len(left) \in Nat
        /\ \A i \in 1 .. Len(left) : new[i] = left[i]
        /\ new[Len(left) + 1] = e
    <3> HIDE DEF e, E
    <3> QED BY <2>7, <2>8, AppendProperties, ToSetAppend
  <2>10. Members(C, I, new)
    <3>1. ASSUME NEW i \in 1 .. Len(left) PROVE left[i].client # client
      <4>1. left[i] \in ToSet(left)
        <5>1. ToSet(left) = {left[j] : j \in 1 .. Len(left)}
          <6> HIDE DEF E, list
          <6> QED BY <2>7, ToSetIs
        <5> QED BY <5>1
      <4> QED BY <2>7, <4>1
    <3> HIDE DEF new, e
    <3>2. ASSUME NEW i \in 1 .. Len(new), NEW j \in 1 .. Len(new), new[i].client = new[j].client
          PROVE  i = j
      <4>1. i \in 1 .. Len(left) \/ i = Len(left) + 1
        BY <2>9
      <4>2. j \in 1 .. Len(left) \/ j = Len(left) + 1
        BY <2>9
      <4>3. CASE i \in 1 .. Len(left) /\ j \in 1 .. Len(left)
        BY <2>7, <2>9, <3>2, <4>3
      <4>4. CASE i \in 1 .. Len(left) /\ j = Len(left) + 1
        BY <2>8, <2>9, <3>1, <3>2, <4>4
      <4>5. CASE j \in 1 .. Len(left) /\ i = Len(left) + 1
        BY <2>8, <2>9, <3>1, <3>2, <4>5
      <4> QED BY <4>1, <4>2, <4>3, <4>4, <4>5
    <3> QED BY <2>9, <3>2 DEF Members
  <2> HIDE DEF new, list, e
  <2>11. /\ DOMAIN shared = DOMAIN t.shared \cup {key}
         /\ shared[key] = new
         /\ \A k \in DOMAIN t.shared : k # key => shared[k] = t.shared[k]
         /\ shared = [k \in DOMAIN shared |-> shared[k]]
    BY DEF shared, Insert
  <2>12. key \in created \X L
    BY <1>2, <2>2
  <2> HIDE DEF key
  <2>13. DOMAIN shared \subseteq created \X L
    BY <2>5, <2>11, <2>12 DEF GoodTrie
  <2>14. \A k \in DOMAIN shared : Members(C, I, shared[k])
    BY <2>10, <2>11 DEF GoodTrie
  <2>15. t.subs \subseteq [node : created, client : C, info : I]
    BY <2>5 DEF GoodTrie
  <2>16. GoodTrie(L, C, I, u)
    <3>1. TrieShape(L, u.nodes)
      BY <1>2, <2>4
    <3>2. u.subs \subseteq [node : u.nodes, client : C, info : I]
      BY <2>4, <2>15
    <3>3. \A r, s \in u.subs : r.node = s.node /\ r.client = s.client => r = s
      BY <2>4 DEF GoodTrie
    <3>4. DOMAIN u.shared \subseteq u.nodes \X L
      BY <2>4, <2>13
    <3>5. \A k \in DOMAIN u.shared : Members(C, I, u.shared[k])
      BY <2>4, <2>14
    <3>6. u.shared = [k \in DOMAIN u.shared |-> u.shared[k]]
      BY <2>4, <2>11
    <3> QED BY <2>4, <3>1, <3>2, <3>3, <3>4, <3>5, <3>6, Zenon DEF GoodTrie
  <2>17. ToSet(new) = {e} \cup
           IF key \in DOMAIN t.shared
           THEN {d \in ToSet(t.shared[key]) : d.client # client} ELSE {}
    <3>1. CASE key \in DOMAIN t.shared
      BY <2>7, <2>9, <3>1 DEF list
    <3>2. CASE key \notin DOMAIN t.shared
      <4>1. list = << >> /\ ToSet(<< >>) = {}
        BY <3>2 DEF list, ToSet
      <4> QED BY <2>7, <2>9, <3>2, <4>1
    <3> QED BY <3>1, <3>2
  <2> QED BY <1>4, <2>4, <2>11, <2>16, <2>17 DEF u, created, n, g, key, e, Subscribed
<1> QED BY <1>3, <1>4

\* Nothing is lost when all of the list is in the set.
LEMMA KeptAll ==
  ASSUME NEW T, NEW list \in Seq(T), NEW set, ToSet(list) \subseteq set
  PROVE  Kept(list, set) = list
<1>0. PICK k : KeptTrace(T, list, set, k)
  BY KeptRounds
<1>1. /\ k[0] = << >> /\ Kept(list, set) = k[Len(list)]
      /\ \A i \in 0 .. Len(list) : k[i] \in Seq(T)
  BY <1>0 DEF KeptTrace
<1>2. /\ Len(list) \in Nat /\ ToSet(list) = {list[i] : i \in 1 .. Len(list)}
      /\ \A i \in 1 .. Len(list) : list[i] \in T
  BY ToSetIs
<1>3. \A i \in 1 .. Len(list) : k[i] = Append(k[i - 1], list[i])
  BY <1>0, <1>2 DEF KeptTrace
<1> DEFINE S == {n \in Nat : n <= Len(list) => Len(k[n]) = n /\ \A i \in 1 .. n : k[n][i] = list[i]}
<1>4. 0 \in S
  BY <1>1
<1>5. ASSUME NEW n \in Nat, n \in S PROVE n + 1 \in S
  <2> SUFFICES ASSUME n + 1 <= Len(list)
               PROVE  Len(k[n + 1]) = n + 1 /\ \A i \in 1 .. n + 1 : k[n + 1][i] = list[i]
    OBVIOUS
  <2>1. Len(k[n]) = n /\ (\A i \in 1 .. n : k[n][i] = list[i]) /\ k[n] \in Seq(T)
    BY <1>1, <1>2, <1>5
  <2>2. PICK m \in 1 .. Len(list) : m = n + 1 /\ m - 1 = n
    BY <1>2
  <2>3. k[m] = Append(k[n], list[m]) /\ list[m] \in T
    BY <1>2, <1>3, <2>2
  <2>4. /\ Len(k[m]) = n + 1 /\ k[m][n + 1] = list[m]
        /\ \A i \in 1 .. n : k[m][i] = list[i]
    BY <2>1, <2>3, AppendProperties
  <2> QED BY <2>2, <2>4
<1>6. Len(list) \in S
  <2> HIDE DEF S
  <2> QED BY <1>2, <1>4, <1>5, SetInduction
<1>7. Len(k[Len(list)]) = Len(list) /\ \A i \in 1 .. Len(list) : k[Len(list)][i] = list[i]
  BY <1>2, <1>6
<1>8. k[Len(list)] \in Seq(T)
  BY <1>1, <1>2
<1>9. k[Len(list)] = list
  BY <1>7, <1>8, SeqEqual
<1> QED BY <1>1, <1>9

\* The leaf of unsubscribe_recursive: the entry goes, and nothing else.
ListAt(t, key) == IF key \in DOMAIN t.shared THEN ToSet(t.shared[key]) ELSE {}

Removed(t, u, client, path, group) ==
  LET key == <<path, group[1]>> IN
  /\ u.nodes = t.nodes
  /\ group = << >> =>
       /\ u.shared = t.shared
       /\ u.subs = {s \in t.subs : ~ (s.node = path /\ s.client = client)}
       /\ u # t <=> \E s \in t.subs : s.node = path /\ s.client = client
  /\ group # << >> =>
       /\ u.subs = t.subs
       /\ \A k : k # key => (k \in DOMAIN u.shared <=> k \in DOMAIN t.shared)
       /\ \A k \in DOMAIN t.shared : k # key => u.shared[k] = t.shared[k]
       /\ ListAt(u, key) = {d \in ListAt(t, key) : d.client # client}
       /\ u # t <=> \E d \in ListAt(t, key) : d.client = client

LEMMA RemoveFacts ==
  ASSUME NEW L, NEW C, NEW I, NEW t, GoodTrie(L, C, I, t),
         NEW client \in C, NEW path \in Seq(L), NEW group
  PROVE  /\ GoodTrie(L, C, I, RemoveEntry(t, client, path, group))
         /\ Removed(t, RemoveEntry(t, client, path, group), client, path, group)
<1> DEFINE u == RemoveEntry(t, client, path, group)
           key == <<path, group[1]>>
           E == Entry(C, I)
<1>1. CASE group = << >>
  <2> DEFINE subs == {s \in t.subs : ~ (s.node = path /\ s.client = client)}
  <2>1. u = [t EXCEPT !.subs = subs]
    BY <1>1 DEF RemoveEntry
  <2> HIDE DEF u
  <2>2. u = [nodes |-> t.nodes, subs |-> subs, shared |-> t.shared]
    BY <2>1 DEF GoodTrie
  <2>3. u.nodes = t.nodes /\ u.subs = subs /\ u.shared = t.shared
        /\ u = [nodes |-> u.nodes, subs |-> u.subs, shared |-> u.shared]
    BY <2>2
  <2>4. GoodTrie(L, C, I, u)
    BY <2>3 DEF GoodTrie
  <2>5. u # t <=> \E s \in t.subs : s.node = path /\ s.client = client
    <3>1. u = t <=> subs = t.subs
      <4> HIDE DEF subs
      <4> QED BY <2>2 DEF GoodTrie
    <3> QED BY <3>1
  <2> QED BY <1>1, <2>3, <2>4, <2>5 DEF u, Removed
<1>2. CASE group # << >> /\ key \notin DOMAIN t.shared
  <2>1. u = t
    BY <1>2 DEF RemoveEntry
  <2> HIDE DEF u, key
  <2>2. ListAt(t, key) = {}
    BY <1>2 DEF ListAt
  <2>3. Removed(t, t, client, path, group)
    BY <1>2, <2>2 DEF Removed, key
  <2> QED BY <2>1, <2>3 DEF u
<1>3. CASE group # << >> /\ key \in DOMAIN t.shared
  <2> DEFINE list == t.shared[key]
             left == Others(list, client)
             shared == IF left = << >> THEN Without(t.shared, {key})
                       ELSE [t.shared EXCEPT ![key] = left]
  <2>1. u = [t EXCEPT !.shared = shared]
    BY <1>3 DEF RemoveEntry
  <2> HIDE DEF u, shared
  <2>2. u = [nodes |-> t.nodes, subs |-> t.subs, shared |-> shared]
    BY <2>1 DEF GoodTrie
  <2>3. u.nodes = t.nodes /\ u.subs = t.subs /\ u.shared = shared
        /\ u = [nodes |-> u.nodes, subs |-> u.subs, shared |-> u.shared]
    BY <2>2
  <2> HIDE DEF key, E
  <2>4. /\ list \in Seq(E) /\ list # << >>
        /\ \A i, j \in 1 .. Len(list) : list[i].client = list[j].client => i = j
    BY <1>3 DEF GoodTrie, Members, E
  <2> HIDE DEF list
  <2>5. /\ left \in Seq(E)
        /\ ToSet(left) = {d \in ToSet(list) : d.client # client}
        /\ \A i, j \in 1 .. Len(left) : left[i].client = left[j].client => i = j
    BY <2>4, OthersFacts DEF E
  <2>6. (\A d \in ToSet(list) : d.client # client) => left = list
    <3> DEFINE set == {s \in ToSet(list) : s.client # client}
    <3>1. left = Kept(list, set)
      BY DEF Others
    <3>2. ASSUME ToSet(list) \subseteq set PROVE Kept(list, set) = list
      <4> HIDE DEF set
      <4> QED BY <2>4, <3>2, KeptAll
    <3> QED BY <3>1, <3>2
  <2> HIDE DEF left
  <2>7. /\ DOMAIN shared = IF left = << >> THEN DOMAIN t.shared \ {key} ELSE DOMAIN t.shared
        /\ left # << >> => shared[key] = left
        /\ \A k \in DOMAIN t.shared : k # key => shared[k] = t.shared[k]
        /\ shared = [k \in DOMAIN shared |-> shared[k]]
    BY <1>3 DEF shared, Without
  <2>8. left # << >> => Members(C, I, left)
    BY <2>5 DEF Members, E
  <2>9. GoodTrie(L, C, I, u)
    <3>1. DOMAIN shared \subseteq t.nodes \X L
      BY <2>7 DEF GoodTrie
    <3>2. \A k \in DOMAIN shared : Members(C, I, shared[k])
      BY <2>7, <2>8 DEF GoodTrie
    <3>3. TrieShape(L, u.nodes)
      BY <2>3 DEF GoodTrie
    <3>4. u.subs \subseteq [node : u.nodes, client : C, info : I]
      BY <2>3 DEF GoodTrie
    <3>5. \A r, s \in u.subs : r.node = s.node /\ r.client = s.client => r = s
      BY <2>3 DEF GoodTrie
    <3>6. /\ DOMAIN u.shared \subseteq u.nodes \X L
          /\ \A k \in DOMAIN u.shared : Members(C, I, u.shared[k])
          /\ u.shared = [k \in DOMAIN u.shared |-> u.shared[k]]
      BY <2>3, <2>7, <3>1, <3>2
    <3> QED BY <2>3, <3>3, <3>4, <3>5, <3>6, Zenon DEF GoodTrie
  <2>10. (IF key \in DOMAIN shared THEN ToSet(shared[key]) ELSE {}) =
           {d \in ToSet(list) : d.client # client}
    <3>1. CASE left = << >>
      <4>1. ToSet(left) = {}
        BY <3>1 DEF ToSet
      <4> QED BY <2>5, <2>7, <3>1, <4>1
    <3>2. CASE left # << >>
      BY <1>3, <2>5, <2>7, <3>2
    <3> QED BY <3>1, <3>2
  <2>11. u # t <=> \E d \in ToSet(list) : d.client = client
    <3>1. u = t <=> shared = t.shared
      BY <2>2 DEF GoodTrie
    <3>2. ASSUME NEW d \in ToSet(list), d.client = client PROVE shared # t.shared
      <4>1. ToSet(left) # ToSet(list)
        BY <2>5, <3>2
      <4> QED BY <1>3, <2>7, <4>1 DEF list
    <3>3. ASSUME \A d \in ToSet(list) : d.client # client PROVE shared = t.shared
      <4>1. left = list
        BY <2>6, <3>3
      <4>2. DOMAIN shared = DOMAIN t.shared /\ \A k \in DOMAIN shared : shared[k] = t.shared[k]
        BY <2>4, <2>7, <4>1 DEF list
      <4>3. t.shared = [k \in DOMAIN t.shared |-> t.shared[k]]
        BY DEF GoodTrie
      <4> QED BY <2>7, <4>2, <4>3
    <3> QED BY <3>1, <3>2, <3>3
  <2>12. \A k : k # key => (k \in DOMAIN u.shared <=> k \in DOMAIN t.shared)
    BY <2>3, <2>7
  <2>13. \A k \in DOMAIN t.shared : k # key => u.shared[k] = t.shared[k]
    BY <2>3, <2>7
  <2>14. ListAt(t, key) = ToSet(list) /\ ListAt(u, key) = {d \in ToSet(list) : d.client # client}
    BY <1>3, <2>3, <2>10 DEF ListAt, list
  <2>15. Removed(t, u, client, path, group)
    BY <1>3, <2>3, <2>11, <2>12, <2>13, <2>14 DEF key, Removed
  <2> QED BY <2>9, <2>15 DEF u
<1> QED BY <1>1, <1>2, <1>3

-----------------------------------------------------------------------------
(* Pruning.                                                                *)

Below(t, p) == \E q \in t.nodes : IsPrefix(p, q) /\ Occupied(t, q)

NoDead(t) == \A p \in t.nodes \ { << >> } : Below(t, p)

LEMMA PrefixOrder ==
  ASSUME NEW L, NEW p \in Seq(L), NEW q \in Seq(L), NEW r \in Seq(L)
  PROVE  /\ IsPrefix(p, p)
         /\ IsPrefix(p, q) /\ IsPrefix(q, r) => IsPrefix(p, r)
<1>1. IsPrefix(p, p)
  BY PrefixLevels
<1>2. ASSUME IsPrefix(p, q), IsPrefix(q, r) PROVE IsPrefix(p, r)
  <2>1. /\ Len(p) <= Len(q) /\ \A i \in 1 .. Len(p) : p[i] = q[i]
        /\ Len(q) <= Len(r) /\ \A i \in 1 .. Len(q) : q[i] = r[i]
        /\ Len(p) \in Nat /\ Len(q) \in Nat /\ Len(r) \in Nat
    BY <1>2, PrefixLevels
  <2>2. Len(p) <= Len(r) /\ \A i \in 1 .. Len(p) : p[i] = r[i]
    BY <2>1
  <2> QED BY <2>2, PrefixLevels
<1> QED BY <1>1, <1>2

\* Pruning drops only nodes without an entry at or below them, and then the
\* trie is in order still.
Pruned(t, u, path) ==
  /\ u.subs = t.subs /\ u.shared = t.shared /\ u.nodes \subseteq t.nodes
  /\ \A q \in t.nodes : Occupied(t, q) => q \in u.nodes
  /\ \A p \in u.nodes : p = << >> \/ ~ IsPrefix(p, path) \/
       \E q \in t.nodes : IsPrefix(p, q) /\ (~ IsPrefix(q, path) \/ Occupied(t, q))

LEMMA PruneFacts ==
  ASSUME NEW L, NEW C, NEW I, NEW t, GoodTrie(L, C, I, t), NEW path \in Seq(L)
  PROVE  /\ GoodTrie(L, C, I, Prune(t, path))
         /\ Pruned(t, Prune(t, path), path)
<1> DEFINE Dead(p) == \A q \in t.nodes :
                        IsPrefix(p, q) => IsPrefix(q, path) /\ ~ Occupied(t, q)
           nodes == {p \in t.nodes : p = << >> \/ ~ IsPrefix(p, path) \/ ~ Dead(p)}
           u == Prune(t, path)
<1>1. u = [t EXCEPT !.nodes = nodes]
  BY DEF Prune
<1>2. t.nodes \subseteq Seq(L)
  BY DEF GoodTrie, TrieShape
<1>3. \A q \in t.nodes : Occupied(t, q) => q \in nodes
  <2> SUFFICES ASSUME NEW q \in t.nodes, Occupied(t, q) PROVE ~ Dead(q)
    OBVIOUS
  <2>1. IsPrefix(q, q)
    BY <1>2, PrefixOrder
  <2> QED BY <2>1
<1>4. ASSUME NEW p \in nodes, NEW r \in Prefixes(p) PROVE r \in nodes
  <2>1. r \in t.nodes /\ p \in t.nodes /\ r \in Seq(L) /\ p \in Seq(L) /\ IsPrefix(r, p)
    <3>1. p \in t.nodes /\ p \in Seq(L)
      BY <1>2
    <3> QED BY <3>1, PrefixesFacts DEF GoodTrie, TrieShape
  <2> SUFFICES ASSUME r # << >>, IsPrefix(r, path), Dead(r) PROVE FALSE
    BY <2>1
  <2>2. Dead(p)
    <3> SUFFICES ASSUME NEW q \in t.nodes, IsPrefix(p, q)
                 PROVE  IsPrefix(q, path) /\ ~ Occupied(t, q)
      OBVIOUS
    <3>1. IsPrefix(r, q)
      BY <1>2, <2>1, PrefixOrder
    <3> QED BY <3>1
  <2>3. IsPrefix(p, path)
    BY <2>1
  <2>4. p = << >>
    BY <2>2, <2>3
  <2>5. r = << >>
    <3>1. Len(r) <= Len(p) /\ Len(p) = 0
      BY <2>1, <2>4 DEF IsPrefix
    <3>2. Len(r) = 0
      BY <2>1, <3>1
    <3> QED BY <2>1, <3>2, EmptySeq
  <2> QED BY <2>5
<1>5. TrieShape(L, nodes)
  <2>1. << >> \in nodes
    BY DEF GoodTrie, TrieShape
  <2>2. nodes \subseteq t.nodes
    OBVIOUS
  <2> HIDE DEF nodes
  <2> QED BY <1>4, <2>1, <2>2 DEF GoodTrie, TrieShape
<1>6. \A p \in nodes : p = << >> \/ ~ IsPrefix(p, path) \/
        \E q \in t.nodes : IsPrefix(p, q) /\ (~ IsPrefix(q, path) \/ Occupied(t, q))
  OBVIOUS
<1>7. nodes \subseteq t.nodes
  OBVIOUS
<1> HIDE DEF u, nodes, Dead
<1>8. u = [nodes |-> nodes, subs |-> t.subs, shared |-> t.shared]
  BY <1>1 DEF GoodTrie
<1>9. u.nodes = nodes /\ u.subs = t.subs /\ u.shared = t.shared
      /\ u = [nodes |-> u.nodes, subs |-> u.subs, shared |-> u.shared]
  BY <1>8
<1>10. \A s \in t.subs : s.node \in nodes
  <2> SUFFICES ASSUME NEW s \in t.subs PROVE s.node \in nodes
    OBVIOUS
  <2>1. s.node \in t.nodes
    BY DEF GoodTrie
  <2>2. Occupied(t, s.node)
    BY DEF Occupied
  <2> QED BY <1>3, <2>1, <2>2
<1>11. t.subs \subseteq [node : nodes, client : C, info : I]
  <2> SUFFICES ASSUME NEW s \in t.subs PROVE s \in [node : nodes, client : C, info : I]
    OBVIOUS
  <2>1. s \in [node : t.nodes, client : C, info : I]
    BY DEF GoodTrie
  <2> QED BY <1>10, <2>1
<1>12. DOMAIN t.shared \subseteq nodes \X L
  <2> SUFFICES ASSUME NEW k \in DOMAIN t.shared PROVE k \in nodes \X L
    OBVIOUS
  <2>1. k \in t.nodes \X L
    BY DEF GoodTrie
  <2>2. Occupied(t, k[1]) /\ k[1] \in t.nodes
    BY <2>1 DEF Occupied
  <2> QED BY <1>3, <2>1, <2>2
<1>13. GoodTrie(L, C, I, u)
  <2>1. \A r, s \in u.subs : r.node = s.node /\ r.client = s.client => r = s
    BY <1>9 DEF GoodTrie
  <2>2. u.shared = [k \in DOMAIN u.shared |-> u.shared[k]]
    BY <1>9 DEF GoodTrie
  <2>3. \A k \in DOMAIN u.shared : Members(C, I, u.shared[k])
    BY <1>9 DEF GoodTrie
  <2>4. TrieShape(L, u.nodes) /\ u.subs \subseteq [node : u.nodes, client : C, info : I]
        /\ DOMAIN u.shared \subseteq u.nodes \X L
    BY <1>5, <1>9, <1>11, <1>12
  <2> QED BY <1>9, <2>1, <2>2, <2>3, <2>4, Zenon DEF GoodTrie
<1> QED BY <1>3, <1>6, <1>7, <1>9, <1>13 DEF u, Pruned

-----------------------------------------------------------------------------
(* What match_topic returns.                                               *)

Positions(s, e) == {i \in 1 .. Len(s) : s[i] = e}

\* Where an element is in a concatenation whose second part has it at most
\* once.
LEMMA ConcatPositions ==
  ASSUME NEW T, NEW s \in Seq(T), NEW t \in Seq(T), NEW e,
         IsFiniteSet(Positions(s, e)),
         \A a, b \in Positions(t, e) : a = b
  PROVE  /\ IsFiniteSet(Positions(s \o t, e))
         /\ Cardinality(Positions(s \o t, e)) =
              Cardinality(Positions(s, e)) + IF e \in ToSet(t) THEN 1 ELSE 0
<1> DEFINE u == s \o t
<1>1. /\ Len(u) = Len(s) + Len(t) /\ Len(s) \in Nat /\ Len(t) \in Nat
      /\ \A i \in 1 .. Len(s) + Len(t) : u[i] = IF i <= Len(s) THEN s[i] ELSE t[i - Len(s)]
  BY ConcatProperties
<1> HIDE DEF u
<1>2. ToSet(t) = {t[i] : i \in 1 .. Len(t)}
  BY ToSetIs
<1>3. Cardinality(Positions(s, e)) \in Nat
  BY FS_CardinalityType
<1>4. \A j \in 1 .. Len(u) : ~ (j <= Len(s)) => j - Len(s) \in 1 .. Len(t)
  BY <1>1
<1>5. \A j \in Positions(s, e) : j \in Positions(u, e)
  BY <1>1 DEF Positions
<1>6. \A j \in Positions(u, e) : j <= Len(s) => j \in Positions(s, e)
  BY <1>1 DEF Positions
<1>7. \A j \in Positions(u, e) : ~ (j <= Len(s)) => j - Len(s) \in Positions(t, e)
  BY <1>1, <1>4 DEF Positions
<1>8. CASE e \notin ToSet(t)
  <2>1. Positions(t, e) = {}
    BY <1>2, <1>8 DEF Positions
  <2>2. Positions(u, e) = Positions(s, e)
    BY <1>5, <1>6, <1>7, <2>1
  <2> QED BY <1>3, <1>8, <2>2 DEF u
<1>9. CASE e \in ToSet(t)
  <2>1. PICK a \in 1 .. Len(t) : t[a] = e
    BY <1>2, <1>9
  <2>2. a \in Positions(t, e)
    BY <2>1 DEF Positions
  <2>3. PICK j : j = Len(s) + a
    OBVIOUS
  <2>4. j \in 1 .. Len(u) /\ ~ (j <= Len(s)) /\ j - Len(s) = a
    BY <1>1, <2>3
  <2>5. j \in Positions(u, e)
    BY <1>1, <2>1, <2>4 DEF Positions
  <2>6. j \notin Positions(s, e)
    BY <2>4 DEF Positions
  <2>7. \A i \in Positions(u, e) : ~ (i <= Len(s)) => i = j
    <3> SUFFICES ASSUME NEW i \in Positions(u, e), ~ (i <= Len(s)) PROVE i = j
      OBVIOUS
    <3>1. i - Len(s) = a
      BY <1>7, <2>2
    <3>2. i \in Nat
      BY <1>1 DEF Positions
    <3> QED BY <1>1, <2>3, <3>1, <3>2
  <2>8. Positions(u, e) = Positions(s, e) \cup {j}
    BY <1>5, <1>6, <2>5, <2>7
  <2>9. /\ IsFiniteSet(Positions(s, e) \cup {j})
        /\ Cardinality(Positions(s, e) \cup {j}) = Cardinality(Positions(s, e)) + 1
    BY <2>6, FS_AddElement
  <2> QED BY <1>9, <2>8, <2>9 DEF u
<1> QED BY <1>8, <1>9

\* An element that no part has twice is in a concatenation as often as there
\* are parts that have it.
LEMMA FlattenCount ==
  ASSUME NEW T, NEW seqs \in Seq(Seq(T)), NEW e,
         \A i \in 1 .. Len(seqs) : \A a, b \in Positions(seqs[i], e) : a = b
  PROVE  LET parts == {i \in 1 .. Len(seqs) : e \in ToSet(seqs[i])} IN
         IsFiniteSet(parts) /\ Cardinality(Positions(FlattenSeq(seqs), e)) = Cardinality(parts)
<1> DEFINE B(n) == {i \in 1 .. n : e \in ToSet(seqs[i])}
<1>1. Len(seqs) \in Nat /\ \A i \in 1 .. Len(seqs) : seqs[i] \in Seq(T)
  OBVIOUS
<1>2. IsFiniteSet({}) /\ Cardinality({}) = 0
  BY FS_EmptySet
<1>3. << >> \in Seq(T) /\ Positions(<< >>, e) = {}
  BY DEF Positions
<1>4. B(0) = {}
  OBVIOUS
<1>5. CASE Len(seqs) = 0
  <2>1. FlattenSeq(seqs) = << >>
    BY <1>5, EmptySeq DEF FlattenSeq
  <2>2. B(Len(seqs)) = {}
    BY <1>5
  <2> QED BY <1>2, <1>3, <2>1, <2>2
<1>6. CASE Len(seqs) # 0
  <2>0. PICK k : FlattenTrace(T, seqs, k)
    BY <1>6, FlattenRounds
  <2>1. /\ k[1] = seqs[1] /\ FlattenSeq(seqs) = k[Len(seqs)]
        /\ \A i \in 1 .. Len(seqs) : k[i] \in Seq(T)
    BY <2>0 DEF FlattenTrace
  <2> DEFINE Same(n, r) == /\ IsFiniteSet(B(n)) /\ IsFiniteSet(Positions(r, e))
                           /\ Cardinality(Positions(r, e)) = Cardinality(B(n))
             S == {n \in Nat : n \in 1 .. Len(seqs) => Same(n, k[n])}
  <2>2. 0 \in S
    OBVIOUS
  <2>3. ASSUME NEW n \in Nat, n \in S PROVE n + 1 \in S
    <3> SUFFICES ASSUME n + 1 \in 1 .. Len(seqs) PROVE Same(n + 1, k[n + 1])
      OBVIOUS
    <3> DEFINE s == seqs[n + 1]
    <3>1. s \in Seq(T) /\ \A a, b \in Positions(s, e) : a = b
      BY <1>1
    <3>2. PICK r \in Seq(T) : k[n + 1] = r \o s /\ Same(n, r)
      <4>1. CASE n = 0
        <5>1. k[n + 1] = << >> \o s
          <6>1. k[1] \in Seq(T) /\ k[1] = seqs[1]
            BY <1>1, <1>6, <2>1
          <6>2. n + 1 = 1
            BY <4>1
          <6>3. << >> \o seqs[1] = seqs[1]
            BY <6>1, ConcatEmptySeq
          <6> QED BY <6>1, <6>2, <6>3
        <5>2. Same(n, << >>)
          BY <1>2, <1>3, <1>4, <4>1
        <5> HIDE DEF Same, s
        <5> QED BY <1>3, <5>1, <5>2
      <4>2. CASE n # 0
        <5>1. n \in 1 .. Len(seqs) /\ n + 1 \in 2 .. Len(seqs) /\ n + 1 - 1 = n
          BY <1>1, <4>2
        <5>2. PICK i \in 2 .. Len(seqs) : i = n + 1 /\ i - 1 = n
          BY <5>1
        <5>3. k[i] = k[i - 1] \o seqs[i]
          BY <2>0 DEF FlattenTrace
        <5>4. k[n + 1] = k[n] \o s
          BY <5>2, <5>3
        <5>5. Same(n, k[n])
          <6> HIDE DEF Same
          <6> QED BY <2>3, <5>1
        <5>6. k[n] \in Seq(T)
          BY <2>1, <5>1
        <5> HIDE DEF Same, s
        <5> QED BY <5>4, <5>5, <5>6
      <4> QED BY <4>1, <4>2
    <3> HIDE DEF s
    <3>3. /\ IsFiniteSet(Positions(r \o s, e))
          /\ Cardinality(Positions(r \o s, e)) =
               Cardinality(Positions(r, e)) + IF e \in ToSet(s) THEN 1 ELSE 0
      <4> HIDE DEF B
      <4> QED BY <3>1, <3>2, ConcatPositions
    <3>4. B(n + 1) = IF e \in ToSet(s) THEN B(n) \cup {n + 1} ELSE B(n)
      <4>1. 1 .. n + 1 = (1 .. n) \cup {n + 1}
        OBVIOUS
      <4> QED BY <4>1 DEF s
    <3>5. n + 1 \notin B(n)
      OBVIOUS
    <3> HIDE DEF B
    <3>6. Cardinality(B(n)) \in Nat
      BY <3>2, FS_CardinalityType
    <3>7. /\ IsFiniteSet(B(n + 1))
          /\ Cardinality(B(n + 1)) = Cardinality(B(n)) + IF e \in ToSet(s) THEN 1 ELSE 0
      <4>1. IsFiniteSet(B(n))
        BY <3>2
      <4>2. PICK b : b = B(n) /\ IsFiniteSet(b) /\ n + 1 \notin b
        BY <3>5, <4>1
      <4>3. IsFiniteSet(b \cup {n + 1}) /\ Cardinality(b \cup {n + 1}) = Cardinality(b) + 1
        BY <4>2, FS_AddElement
      <4>4. CASE e \in ToSet(s)
        BY <3>4, <4>2, <4>3, <4>4
      <4>5. CASE e \notin ToSet(s)
        BY <3>4, <3>6, <4>1, <4>5
      <4> QED BY <4>4, <4>5
    <3> QED BY <3>2, <3>3, <3>7
  <2>4. Len(seqs) \in S
    <3> HIDE DEF S
    <3> QED BY <1>1, <2>2, <2>3, SetInduction
  <2>5. Len(seqs) \in 1 .. Len(seqs)
    BY <1>1, <1>6
  <2>6. Same(Len(seqs), k[Len(seqs)])
    <3> HIDE DEF Same
    <3> QED BY <2>4, <2>5
  <2> QED BY <2>1, <2>6
<1> QED BY <1>5, <1>6

\* What match_topic returns for a trie in order: each entry of a node that
\* matches is in one of the sets of normal, with others of that node only,
\* and a member's entry is in its group's list once for every node that
\* matches and has it.
Holders(t, topic, g, e) == {p \in t.nodes : Matches(p, topic) /\ e \in ListAt(t, <<p, g>>)}

Matched(E, t, topic, m) ==
  /\ m = [normal |-> m.normal, shared |-> m.shared]
  /\ m.normal \in Seq(SUBSET t.subs) /\ {} \notin ToSet(m.normal)
  /\ UNION ToSet(m.normal) = {s \in t.subs : Matches(s.node, topic)}
  /\ \A s : \A i, j \in 1 .. Len(m.normal) : s \in m.normal[i] /\ s \in m.normal[j] => i = j
  /\ \A i \in 1 .. Len(m.normal) : \A r, s \in m.normal[i] : r.node = s.node
  /\ m.shared = [g \in DOMAIN m.shared |-> m.shared[g]]
  /\ DOMAIN m.shared = {k[2] : k \in {h \in DOMAIN t.shared : Matches(h[1], topic)}}
  /\ \A g \in DOMAIN m.shared :
       /\ m.shared[g] \in Seq(E)
       /\ \A e : /\ e \in ToSet(m.shared[g]) <=> Holders(t, topic, g, e) # {}
                 /\ IsFiniteSet(Holders(t, topic, g, e))
                 /\ Cardinality(Positions(m.shared[g], e)) = Cardinality(Holders(t, topic, g, e))

LEMMA MatchFacts ==
  ASSUME NEW L, NEW C, NEW I, NEW t, GoodTrie(L, C, I, t), NEW topic \in Seq(L)
  PROVE  Matched(Entry(C, I), t, topic, match_topic(t, topic))
<1> DEFINE v == Visited(t, topic)
           E == Entry(C, I)
           at(i) == {s \in t.subs : s.node = v[i]}
           entries == [i \in DOMAIN v |-> at(i)]
           full == ToSet(entries) \ {{}}
           normal == Kept(entries, full)
           list(p, g) == IF <<p, g>> \in DOMAIN t.shared THEN t.shared[<<p, g>>] ELSE << >>
           parts(g) == [i \in DOMAIN v |-> list(v[i], g)]
           groups == {k[2] : k \in {h \in DOMAIN t.shared : h[1] \in ToSet(v)}}
           shared == [g \in groups |-> FlattenSeq(parts(g))]
           m == match_topic(t, topic)
<1>1. m = [normal |-> normal, shared |-> shared]
  BY DEF match_topic
<1>2. TrieShape(L, t.nodes)
  BY DEF GoodTrie
<1>3. v \in Seq(t.nodes) /\ ToSet(v) = {q \in t.nodes : Matches(q, topic)} /\ Distinct(v)
  BY <1>2, VisitedMatches
<1> HIDE DEF v
<1>4. Len(v) \in Nat /\ DOMAIN v = 1 .. Len(v) /\ ToSet(v) = {v[i] : i \in 1 .. Len(v)}
  BY <1>3, ToSetIs
<1>5. \A i \in 1 .. Len(v) : v[i] \in t.nodes /\ Matches(v[i], topic)
  BY <1>3, <1>4
<1>6. \A q \in t.nodes : Matches(q, topic) => \E i \in 1 .. Len(v) : v[i] = q
  BY <1>3, <1>4
<1>7. entries \in Seq(SUBSET t.subs) /\ Len(entries) = Len(v)
      /\ \A i \in 1 .. Len(v) : entries[i] = at(i)
  BY <1>4
<1> HIDE DEF entries
<1>8. ToSet(entries) = {entries[i] : i \in 1 .. Len(v)}
  BY <1>7, ToSetIs
<1>9. /\ normal \in Seq(SUBSET t.subs)
      /\ ToSet(normal) = full
      /\ \A a, b \in 1 .. Len(normal) :
           a < b => \E x, y \in 1 .. Len(v) : x < y /\ normal[a] = entries[x] /\ normal[b] = entries[y]
  <2>1. ToSet(entries) \cap full = full
    OBVIOUS
  <2> HIDE DEF full
  <2>2. entries \in Seq(SUBSET t.subs) /\ Len(entries) = Len(v)
    BY <1>7
  <2>3. /\ normal \in Seq(SUBSET t.subs)
        /\ ToSet(normal) = ToSet(entries) \cap full
        /\ \A a, b \in 1 .. Len(normal) :
             a < b => \E x, y \in 1 .. Len(entries) :
                        x < y /\ normal[a] = entries[x] /\ normal[b] = entries[y]
    <3>1. PICK T : T = SUBSET t.subs /\ entries \in Seq(T)
      BY <2>2
    <3>2. normal \in Seq(T)
      BY <3>1, KeptElements, Zenon
    <3>3. ToSet(normal) = ToSet(entries) \cap full
      BY <3>1, KeptElements, Zenon
    <3>4. InOrder(normal, entries)
      BY <3>1, KeptElements, Zenon
    <3> HIDE DEF normal
    <3> QED BY <3>1, <3>2, <3>3, <3>4 DEF InOrder
  <2> HIDE DEF normal
  <2> QED BY <2>1, <2>2, <2>3
<1> HIDE DEF normal
<1>10. UNION ToSet(normal) = {s \in t.subs : Matches(s.node, topic)}
  <2>1. \A s \in t.subs : s.node \in t.nodes
    BY DEF GoodTrie
  <2>2. ASSUME NEW s \in t.subs, Matches(s.node, topic) PROVE s \in UNION full
    <3>1. PICK i \in 1 .. Len(v) : v[i] = s.node
      BY <1>6, <2>1, <2>2
    <3>2. s \in entries[i] /\ entries[i] \in ToSet(entries)
      BY <1>7, <1>8, <3>1
    <3> QED BY <3>2
  <2>3. ASSUME NEW s \in UNION full PROVE s \in t.subs /\ Matches(s.node, topic)
    <3>1. PICK i \in 1 .. Len(v) : s \in entries[i]
      BY <1>8
    <3> QED BY <1>5, <1>7, <3>1
  <2> HIDE DEF full
  <2> QED BY <1>9, <2>2, <2>3
<1>11. ASSUME NEW s, NEW i \in 1 .. Len(normal), NEW j \in 1 .. Len(normal),
              s \in normal[i], s \in normal[j]
       PROVE  i = j
  <2>1. ASSUME NEW a \in 1 .. Len(normal), NEW b \in 1 .. Len(normal), a < b,
               s \in normal[a], s \in normal[b]
        PROVE  FALSE
    <3>1. PICK x, y \in 1 .. Len(v) : x < y /\ normal[a] = entries[x] /\ normal[b] = entries[y]
      BY <1>9, <2>1
    <3>2. v[x] = s.node /\ v[y] = s.node
      BY <1>7, <2>1, <3>1
    <3>3. x = y
      BY <1>3, <3>2 DEF Distinct
    <3> QED BY <3>1, <3>3
  <2>2. i \in Nat /\ j \in Nat
    BY <1>9
  <2>3. CASE i < j
    BY <1>11, <2>1, <2>3
  <2>4. CASE j < i
    BY <1>11, <2>1, <2>4
  <2> QED BY <2>2, <2>3, <2>4
<1>12. {} \notin ToSet(normal)
  BY <1>9
<1>13. groups = {k[2] : k \in {h \in DOMAIN t.shared : Matches(h[1], topic)}}
  <2>1. \A h \in DOMAIN t.shared : h[1] \in t.nodes
    BY DEF GoodTrie
  <2>2. \A h \in DOMAIN t.shared : h[1] \in ToSet(v) <=> Matches(h[1], topic)
    BY <1>3, <2>1
  <2> QED BY <2>2
<1>14. ASSUME NEW g
       PROVE  /\ FlattenSeq(parts(g)) \in Seq(E)
              /\ \A e : /\ e \in ToSet(FlattenSeq(parts(g))) <=> Holders(t, topic, g, e) # {}
                        /\ IsFiniteSet(Holders(t, topic, g, e))
                        /\ Cardinality(Positions(FlattenSeq(parts(g)), e)) =
                             Cardinality(Holders(t, topic, g, e))
  <2> DEFINE P == parts(g)
  <2>1. \A p : list(p, g) \in Seq(E) /\ (\A a, b \in 1 .. Len(list(p, g)) :
                      list(p, g)[a] = list(p, g)[b] => a = b)
    <3> SUFFICES ASSUME NEW p
                 PROVE  list(p, g) \in Seq(E) /\ (\A a, b \in 1 .. Len(list(p, g)) :
                            list(p, g)[a] = list(p, g)[b] => a = b)
      OBVIOUS
    <3>1. CASE <<p, g>> \in DOMAIN t.shared
      <4>1. PICK l : l = t.shared[<<p, g>>] /\ Members(C, I, l)
        BY <3>1 DEF GoodTrie
      <4> QED BY <3>1, <4>1 DEF Members
    <3>2. CASE <<p, g>> \notin DOMAIN t.shared
      BY <3>2
    <3> QED BY <3>1, <3>2
  <2>2. \A p : ToSet(list(p, g)) = ListAt(t, <<p, g>>)
    <3> SUFFICES ASSUME NEW p PROVE ToSet(list(p, g)) = ListAt(t, <<p, g>>)
      OBVIOUS
    <3>1. ToSet(<< >>) = {}
      BY DEF ToSet
    <3> QED BY <3>1 DEF ListAt
  <2> HIDE DEF list
  <2>3. P \in Seq(Seq(E)) /\ Len(P) = Len(v) /\ \A i \in 1 .. Len(v) : P[i] = list(v[i], g)
    BY <1>4, <2>1
  <2> HIDE DEF P
  <2>4. /\ FlattenSeq(P) \in Seq(E)
        /\ ToSet(FlattenSeq(P)) = UNION {ToSet(P[i]) : i \in 1 .. Len(v)}
    BY <2>3, FlattenElements
  <2>5. ASSUME NEW e
        PROVE  /\ e \in ToSet(FlattenSeq(P)) <=> Holders(t, topic, g, e) # {}
               /\ IsFiniteSet(Holders(t, topic, g, e))
               /\ Cardinality(Positions(FlattenSeq(P), e)) = Cardinality(Holders(t, topic, g, e))
    <3> DEFINE has == {i \in 1 .. Len(v) : e \in ToSet(P[i])}
               h == Holders(t, topic, g, e)
               f == [i \in has |-> v[i]]
    <3>1. \A i \in 1 .. Len(v) : ToSet(P[i]) = ListAt(t, <<v[i], g>>)
      BY <2>2, <2>3
    <3>2. \A i \in has : v[i] \in h
      BY <1>5, <3>1 DEF Holders
    <3>3. \A p \in h : \E i \in has : v[i] = p
      BY <1>6, <3>1 DEF Holders
    <3>4. /\ IsFiniteSet(has)
          /\ Cardinality(Positions(FlattenSeq(P), e)) = Cardinality(has)
      <4>1. \A i \in 1 .. Len(P) : \A a, b \in Positions(P[i], e) : a = b
        BY <2>1, <2>3 DEF Positions
      <4>2. LET s == {i \in 1 .. Len(P) : e \in ToSet(P[i])} IN
            IsFiniteSet(s) /\ Cardinality(Positions(FlattenSeq(P), e)) = Cardinality(s)
        BY <2>3, <4>1, FlattenCount
      <4> QED BY <2>3, <4>2
    <3>5. e \in ToSet(FlattenSeq(P)) <=> h # {}
      <4>1. e \in ToSet(FlattenSeq(P)) <=> has # {}
        BY <2>4
      <4> HIDE DEF has, h
      <4> QED BY <3>2, <3>3, <4>1
    <3>6. ExistsBijection(has, h)
      <4>1. \A i, j \in has : v[i] = v[j] => i = j
        BY <1>3 DEF Distinct
      <4> HIDE DEF has, h
      <4>2. f \in Bijection(has, h)
        BY <3>2, <3>3, <4>1 DEF Bijection, Injection, Surjection, IsInjective
      <4> QED BY <4>2 DEF ExistsBijection
    <3> HIDE DEF has, h
    <3>7. IsFiniteSet(h) /\ Cardinality(h) = Cardinality(has)
      BY <3>4, <3>6, FS_Bijection
    <3> QED BY <3>4, <3>5, <3>7 DEF h
  <2> QED BY <2>4, <2>5 DEF P
<1> HIDE DEF groups, parts
<1>15. /\ shared = [g \in DOMAIN shared |-> shared[g]] /\ DOMAIN shared = groups
       /\ \A g \in groups : shared[g] = FlattenSeq(parts(g))
  OBVIOUS
<1> HIDE DEF shared
<1>16. m.normal = normal /\ m.shared = shared /\ m = [normal |-> m.normal, shared |-> m.shared]
  BY <1>1
<1> HIDE DEF m
<1>17. ASSUME NEW g \in DOMAIN m.shared
       PROVE  /\ m.shared[g] \in Seq(E)
              /\ \A e : /\ e \in ToSet(m.shared[g]) <=> Holders(t, topic, g, e) # {}
                        /\ IsFiniteSet(Holders(t, topic, g, e))
                        /\ Cardinality(Positions(m.shared[g], e)) =
                             Cardinality(Holders(t, topic, g, e))
  BY <1>14, <1>15, <1>16
<1>18. \A i \in 1 .. Len(m.normal) : \A r, s \in m.normal[i] : r.node = s.node
  <2> SUFFICES ASSUME NEW i \in 1 .. Len(normal), NEW r \in normal[i], NEW s \in normal[i]
               PROVE  r.node = s.node
    BY <1>16
  <2> HIDE DEF full
  <2>1. normal \in Seq(SUBSET t.subs) /\ ToSet(normal) = full
    BY <1>9
  <2>2. ToSet(normal) = {normal[j] : j \in 1 .. Len(normal)}
    BY <2>1, ToSetIs
  <2>3. normal[i] \in ToSet(entries)
    BY <2>1, <2>2 DEF full
  <2>4. PICK x \in 1 .. Len(v) : normal[i] = entries[x]
    BY <1>8, <2>3
  <2> QED BY <1>7, <2>4
<1>19. Matched(E, t, topic, m)
  BY <1>9, <1>10, <1>11, <1>12, <1>13, <1>15, <1>16, <1>17, <1>18, Zenon DEF Matched
<1> QED BY <1>19 DEF m, E

-----------------------------------------------------------------------------
(* Sums.                                                                   *)

\* The groups of G whose choice is in S.
ChosenBy(G, choice, S) == {g \in G : choice[g] \in S}

\* The sum over S of how many have chosen an element is how many have chosen
\* one of S.
LEMMA SumOfChosen ==
  ASSUME NEW G, IsFiniteSet(G), NEW choice, NEW S, IsFiniteSet(S), NEW f,
         f = [x \in S |-> Cardinality(ChosenBy(G, choice, {x}))]
  PROVE  SumFunction(f) = Cardinality(ChosenBy(G, choice, S))
<1> DEFINE D == SUBSET S
           pick(s) == CHOOSE x \in s : TRUE
           Body(h, s) == IF s = {} THEN 0 ELSE f[pick(s)] + h[s \ {pick(s)}]
           Eqn(h) == h = [s \in D |-> Body(h, s)]
           rank == [s \in D |-> Cardinality(s)]
           Step == [z \in D \X [D -> Nat] |-> Body(z[2], z[1])]
           size(s) == Cardinality(ChosenBy(G, choice, s))
<1>1. /\ DOMAIN f = S /\ \A x \in S : f[x] = size({x})
      /\ \A s : IsFiniteSet(ChosenBy(G, choice, s)) /\ size(s) \in Nat
  <2>1. ASSUME NEW s PROVE IsFiniteSet(ChosenBy(G, choice, s)) /\ size(s) \in Nat
    <3>1. PICK A : A = ChosenBy(G, choice, s) /\ A \in SUBSET G
      BY DEF ChosenBy
    <3>2. IsFiniteSet(A)
      BY <3>1, FS_Subset
    <3>3. Cardinality(A) \in Nat
      BY <3>2, FS_CardinalityType
    <3> QED BY <3>1, <3>2, <3>3
  <2> QED BY <2>1
<1>2. \A s \in D : IsFiniteSet(s) /\ Cardinality(s) \in 0 .. Cardinality(S) /\ Cardinality(S) \in Nat
  <2>1. Cardinality(S) \in Nat
    BY FS_CardinalityType
  <2>2. ASSUME NEW s \in D PROVE IsFiniteSet(s) /\ Cardinality(s) \in 0 .. Cardinality(S)
    <3>1. IsFiniteSet(s) /\ Cardinality(s) <= Cardinality(S)
      BY FS_Subset
    <3>2. Cardinality(s) \in Nat
      BY <3>1, FS_CardinalityType
    <3> QED BY <2>1, <3>1, <3>2
  <2> QED BY <2>1, <2>2
<1>3. ASSUME NEW s \in D, s # {}
      PROVE  /\ pick(s) \in s /\ s \ {pick(s)} \in D
             /\ Cardinality(s \ {pick(s)}) = Cardinality(s) - 1
  <2>1. PICK x : x = pick(s)
    OBVIOUS
  <2>2. x \in s
    BY <1>3, <2>1
  <2>3. s \ {x} \in D /\ IsFiniteSet(s)
    BY <1>2
  <2>4. Cardinality(s \ {x}) = Cardinality(s) - 1
    BY <2>2, <2>3, FS_RemoveElement
  <2> HIDE DEF pick
  <2> QED BY <2>1, <2>2, <2>3, <2>4
<1>4. \E h : Eqn(h)
  <2>1. Recursion(D, Nat, Cardinality(S), rank, Step)
    <3>1. Nat # {} /\ Cardinality(S) \in Nat /\ rank \in [D -> 0 .. Cardinality(S)]
      BY <1>2
    <3>2. ASSUME NEW h \in [D -> Nat], NEW s \in D PROVE Body(h, s) \in Nat
      <4>1. CASE s = {}
        BY <4>1
      <4>2. CASE s # {}
        <5>1. f[pick(s)] \in Nat /\ h[s \ {pick(s)}] \in Nat
          <6> HIDE DEF pick
          <6> QED BY <1>1, <1>3, <4>2
        <5> HIDE DEF pick
        <5> QED BY <4>2, <5>1
      <4> QED BY <4>1, <4>2
    <3>3. Step \in [D \X [D -> Nat] -> Nat]
      <4> HIDE DEF Body, D
      <4> QED BY <3>2
    <3>4. ASSUME NEW x \in D, NEW h \in [D -> Nat], NEW k \in [D -> Nat],
                 \A y \in D : rank[y] < rank[x] => h[y] = k[y]
          PROVE  Step[<<x, h>>] = Step[<<x, k>>]
      <4>1. x # {} => h[x \ {pick(x)}] = k[x \ {pick(x)}]
        <5> HIDE DEF pick
        <5> SUFFICES ASSUME x # {} PROVE h[x \ {pick(x)}] = k[x \ {pick(x)}]
          OBVIOUS
        <5>1. PICK y : y = x \ {pick(x)} /\ y \in D /\ Cardinality(y) = Cardinality(x) - 1
          BY <1>3
        <5>2. rank[y] = Cardinality(y) /\ rank[x] = Cardinality(x) /\ Cardinality(x) \in Nat
          BY <1>2, <5>1
        <5>3. rank[y] < rank[x]
          BY <5>1, <5>2
        <5> QED BY <3>4, <5>1, <5>3
      <4>2. Body(h, x) = Body(k, x)
        <5> HIDE DEF pick
        <5> QED BY <4>1
      <4>3. \A j \in [D -> Nat] : Step[<<x, j>>] = Body(j, x)
        <5> HIDE DEF Body, D
        <5> QED OBVIOUS
      <4> QED BY <4>2, <4>3
    <3> HIDE DEF D, rank, Step
    <3> QED BY <3>1, <3>3, <3>4 DEF Recursion
  <2>2. PICK h \in [D -> Nat] : \A s \in D : h[s] = Step[<<s, h>>]
    <3> HIDE DEF D, rank, Step
    <3> QED BY <2>1, RecursionExists
  <2>3. \A s \in D : h[s] = Body(h, s)
    <3> HIDE DEF Body, D
    <3> QED BY <2>2
  <2> HIDE DEF Body, D
  <2> QED BY <2>2, <2>3
<1> DEFINE iter == CHOOSE h : Eqn(h)
<1>5. SumFunction(f) = iter[S]
  BY <1>1 DEF SumFunction, SumFunctionOnSet, FoldFunctionOnSet, MapThenFoldSet
<1>6. Eqn(iter)
  BY <1>4
<1> HIDE DEF iter
<1>7. \A s \in D : iter[s] = Body(iter, s)
  <2> HIDE DEF Body, D
  <2> QED BY <1>6
<1> DEFINE N == {n \in Nat : \A s \in D : Cardinality(s) = n => iter[s] = size(s)}
<1>8. 0 \in N
  <2>1. ASSUME NEW s \in D, Cardinality(s) = 0 PROVE iter[s] = size(s)
    <3>1. s = {}
      BY <1>2, <2>1, FS_EmptySet
    <3>2. ChosenBy(G, choice, {}) = {} /\ Cardinality({}) = 0
      BY FS_EmptySet DEF ChosenBy
    <3> QED BY <1>7, <3>1, <3>2
  <2> QED BY <2>1
<1>9. ASSUME NEW n \in Nat, n \in N PROVE n + 1 \in N
  <2>1. ASSUME NEW s \in D, Cardinality(s) = n + 1 PROVE iter[s] = size(s)
    <3>1. s # {}
      BY <2>1, FS_EmptySet
    <3>2. PICK x, r : x = pick(s) /\ r = s \ {x}
      OBVIOUS
    <3>3. x \in s /\ r \in D /\ Cardinality(r) = n
      BY <1>3, <2>1, <3>1, <3>2
    <3>4. iter[s] = f[x] + iter[r]
      <4> HIDE DEF pick
      <4> QED BY <1>7, <3>1, <3>2
    <3>5. iter[r] = size(r) /\ f[x] = size({x})
      BY <1>1, <1>9, <3>3
    <3>6. /\ ChosenBy(G, choice, s) = ChosenBy(G, choice, r) \cup ChosenBy(G, choice, {x})
          /\ ChosenBy(G, choice, r) \cap ChosenBy(G, choice, {x}) = {}
      BY <3>2, <3>3 DEF ChosenBy
    <3>7. size(s) = size(r) + size({x})
      <4>1. PICK A, B : A = ChosenBy(G, choice, r) /\ B = ChosenBy(G, choice, {x})
        OBVIOUS
      <4>2. IsFiniteSet(A) /\ IsFiniteSet(B) /\ Cardinality(A) \in Nat /\ Cardinality(B) \in Nat
        BY <1>1, <4>1
      <4>3. Cardinality(A \cup B) = Cardinality(A) + Cardinality(B) - Cardinality(A \cap B)
        BY <4>2, FS_Union
      <4>4. Cardinality(A \cap B) = 0
        BY <3>6, <4>1, FS_EmptySet
      <4> QED BY <3>6, <4>1, <4>2, <4>3, <4>4
    <3> HIDE DEF size
    <3> QED BY <1>1, <3>4, <3>5, <3>7
  <2> QED BY <2>1
<1>10. Nat \subseteq N
  <2> HIDE DEF N
  <2> QED BY <1>8, <1>9, SetInduction
<1>11. S \in D /\ Cardinality(S) \in N
  BY <1>2, <1>10
<1> QED BY <1>5, <1>11

-----------------------------------------------------------------------------
(* What is left of the list of subscribers.                                *)

\* None of the sets has two entries of one client.
OneEach(list) == \A i \in 1 .. Len(list) : \A r, s \in list[i] : r.client = s.client => r = s

\* How far from the end of the list are the sets with an entry of the client.
Left(list, client) ==
  {d \in 0 .. Len(list) - 1 : \E s \in list[Len(list) - d] : s.client = client}

\* Where in the list are the sets with an entry of the client.
Having(list, client) == {i \in 1 .. Len(list) : \E s \in list[i] : s.client = client}

LEMMA LeftAtFirst ==
  ASSUME NEW S, NEW list \in Seq(S), NEW client
  PROVE  /\ IsFiniteSet(Left(list, client)) /\ Cardinality(Left(list, client)) \in Nat
         /\ Cardinality(Left(list, client)) = Cardinality(Having(list, client))
<1> DEFINE with == {i \in 1 .. Len(list) : \E s \in list[i] : s.client = client}
           left == Left(list, client)
           f == [i \in with |-> Len(list) - i]
<1>1. PICK n \in Nat : n = Len(list)
  OBVIOUS
<1>2. IsFiniteSet(with)
  <2>1. with \in SUBSET (1 .. n) /\ IsFiniteSet(1 .. n)
    BY <1>1, FS_Interval
  <2> QED BY <2>1, FS_Subset
<1>3. left = {d \in 0 .. n - 1 : \E s \in list[n - d] : s.client = client}
  BY <1>1 DEF Left
<1>4. with = {i \in 1 .. n : \E s \in list[i] : s.client = client} /\ f = [i \in with |-> n - i]
  BY <1>1
<1> HIDE DEF with, left, f
<1>5. \A i \in with : i \in 1 .. n /\ n - i \in left
  <2> SUFFICES ASSUME NEW i \in with PROVE i \in 1 .. n /\ n - i \in left
    OBVIOUS
  <2>1. i \in 1 .. n /\ \E s \in list[i] : s.client = client
    BY <1>4
  <2>2. n - (n - i) = i /\ n - i \in 0 .. n - 1
    BY <2>1
  <2> QED BY <1>3, <2>1, <2>2
<1>6. \A d \in left : d \in 0 .. n - 1 /\ n - d \in with
  <2> SUFFICES ASSUME NEW d \in left PROVE d \in 0 .. n - 1 /\ n - d \in with
    OBVIOUS
  <2>1. d \in 0 .. n - 1 /\ \E s \in list[n - d] : s.client = client
    BY <1>3
  <2>2. n - d \in 1 .. n
    BY <2>1
  <2> QED BY <1>4, <2>1, <2>2
<1>7. f \in Bijection(with, left)
  <2>1. f \in [with -> left]
    BY <1>4, <1>5
  <2>2. \A i, j \in with : f[i] = f[j] => i = j
    BY <1>4, <1>5
  <2>3. \A d \in left : \E i \in with : f[i] = d
    <3> SUFFICES ASSUME NEW d \in left PROVE \E i \in with : f[i] = d
      OBVIOUS
    <3>1. n - d \in with /\ n - (n - d) = d
      BY <1>6
    <3>2. f[n - d] = d
      BY <1>4, <3>1
    <3> QED BY <3>1, <3>2
  <2> QED BY <2>1, <2>2, <2>3 DEF Bijection, Injection, Surjection, IsInjective
<1>8. IsFiniteSet(left) /\ Cardinality(left) = Cardinality(with)
  BY <1>2, <1>7, FS_Bijection DEF ExistsBijection
<1>9. Cardinality(left) \in Nat
  BY <1>8, FS_CardinalityType
<1> QED BY <1>8, <1>9 DEF with, left, Having

\* The list after one round of the loop over it.
Rest(list, sub) ==
  LET left == Head(list) \ {sub} IN IF left = {} THEN Tail(list) ELSE <<left>> \o Tail(list)

\* One round of the loop takes one entry off the first set.
LEMMA LeftStep ==
  ASSUME NEW S, NEW list \in Seq(SUBSET S), list # << >>, OneEach(list), NEW sub \in Head(list),
         NEW rest, rest = Rest(list, sub)
  PROVE  /\ OneEach(rest)
         /\ \A client : client # sub.client => Left(rest, client) = Left(list, client)
         /\ Cardinality(Left(list, sub.client)) = Cardinality(Left(rest, sub.client)) + 1
<1>1. PICK n, first, tail, left :
        /\ n \in Nat /\ n = Len(list) /\ n > 0 /\ first = Head(list) /\ tail = Tail(list)
        /\ left = first \ {sub}
  <2>1. Len(list) \in Nat /\ Len(list) > 0
    BY EmptySeq
  <2> QED BY <2>1
<1>2. /\ first = list[1] /\ tail \in Seq(SUBSET S) /\ Len(tail) = n - 1
      /\ \A i \in 1 .. n - 1 : tail[i] = list[i + 1]
  BY <1>1
<1>3. first \subseteq S /\ left \in SUBSET S
  <2>1. list[1] \in SUBSET S
    BY <1>1
  <2> QED BY <1>1, <1>2, <2>1
<1>4. PICK m \in Nat :
        /\ m = Len(rest)
        /\ \A d \in 0 .. n - 2 : d < m /\ rest[m - d] = list[n - d]
        /\ \/ left = {} /\ m = n - 1
           \/ left # {} /\ m = n /\ rest[1] = left
  <2> DEFINE P(k) == /\ k = Len(rest)
                     /\ \A d \in 0 .. n - 2 : d < k /\ rest[k - d] = list[n - d]
                     /\ \/ left = {} /\ k = n - 1
                        \/ left # {} /\ k = n /\ rest[1] = left
  <2>0. n - 1 \in Nat /\ \A d \in 0 .. n - 2 : d < n - 1 /\ d < n
    BY <1>1
  <2>1. CASE left = {}
    <3>1. rest = tail
      BY <1>1, <2>1 DEF Rest
    <3>2. \A d \in 0 .. n - 2 : tail[(n - 1) - d] = list[n - d]
      <4> SUFFICES ASSUME NEW d \in 0 .. n - 2 PROVE tail[(n - 1) - d] = list[n - d]
        OBVIOUS
      <4>1. (n - 1) - d \in 1 .. n - 1 /\ ((n - 1) - d) + 1 = n - d
        BY <1>1
      <4> QED BY <1>2, <4>1
    <3>3. Len(rest) = n - 1 /\ \A d \in 0 .. n - 2 : rest[(n - 1) - d] = list[n - d]
      BY <1>2, <3>1, <3>2
    <3>4. P(n - 1)
      BY <2>0, <2>1, <3>3
    <3> QED BY <2>0, <3>4
  <2>2. CASE left # {}
    <3>1. rest = <<left>> \o tail
      BY <1>1, <2>2 DEF Rest
    <3>2. PICK one : one = <<left>> /\ one \in Seq(SUBSET S) /\ Len(one) = 1 /\ one[1] = left
      <4>1. PICK T : T = SUBSET S /\ left \in T
        BY <1>3
      <4>2. <<left>> \in Seq(T) /\ Len(<<left>>) = 1 /\ <<left>>[1] = left
        BY <4>1
      <4> QED BY <4>1, <4>2
    <3>3. Len(rest) = n /\ rest[1] = left /\ \A i \in 2 .. n : rest[i] = tail[i - 1]
      <4>1. /\ Len(one \o tail) = Len(one) + Len(tail)
            /\ \A i \in 1 .. Len(one) + Len(tail) :
                 (one \o tail)[i] = IF i <= Len(one) THEN one[i] ELSE tail[i - Len(one)]
        BY <1>2, <3>2, ConcatProperties
      <4>2. rest = one \o tail
        BY <3>1, <3>2
      <4> HIDE DEF Left
      <4> QED BY <1>1, <1>2, <3>2, <4>1, <4>2
    <3>4. \A d \in 0 .. n - 2 : rest[n - d] = list[n - d]
      <4> SUFFICES ASSUME NEW d \in 0 .. n - 2 PROVE rest[n - d] = list[n - d]
        OBVIOUS
      <4>1. n - d \in 2 .. n /\ (n - d) - 1 \in 1 .. n - 1 /\ ((n - d) - 1) + 1 = n - d
        BY <1>1
      <4>2. rest[n - d] = tail[(n - d) - 1]
        BY <3>3, <4>1
      <4> QED BY <1>2, <4>1, <4>2
    <3>5. P(n)
      BY <2>0, <2>2, <3>3, <3>4
    <3> QED BY <1>1, <3>5
  <2> QED BY <2>1, <2>2
<1>5. ASSUME NEW client
      PROVE  /\ \A d \in 0 .. n - 2 : d \in Left(rest, client) <=> d \in Left(list, client)
             /\ n - 1 \in Left(list, client) <=> \E s \in first : s.client = client
             /\ n - 1 \in Left(rest, client) <=> \E s \in left : s.client = client
             /\ Left(rest, client) \subseteq 0 .. n - 1 /\ Left(list, client) \subseteq 0 .. n - 1
  <2>1. Left(list, client) = {d \in 0 .. n - 1 : \E s \in list[n - d] : s.client = client}
    BY <1>1 DEF Left
  <2>2. Left(rest, client) = {d \in 0 .. m - 1 : \E s \in rest[m - d] : s.client = client}
    BY <1>4 DEF Left
  <2>3. ASSUME NEW d \in 0 .. n - 2
        PROVE  d \in Left(rest, client) <=> d \in Left(list, client)
    <3>1. d < m /\ rest[m - d] = list[n - d]
      BY <1>4
    <3>2. d \in 0 .. m - 1 /\ d \in 0 .. n - 1
      BY <1>1, <1>4, <3>1
    <3> QED BY <2>1, <2>2, <3>1, <3>2
  <2>4. n - 1 \in 0 .. n - 1 /\ n - (n - 1) = 1
    BY <1>1
  <2>5. n - 1 \in Left(list, client) <=> \E s \in first : s.client = client
    BY <1>2, <2>1, <2>4
  <2>6. n - 1 \in Left(rest, client) <=> \E s \in left : s.client = client
    <3>1. CASE left = {} /\ m = n - 1
      <4>1. n - 1 \notin 0 .. m - 1
        BY <1>1, <3>1
      <4> QED BY <2>2, <3>1, <4>1
    <3>2. CASE m = n /\ rest[1] = left
      BY <2>2, <2>4, <3>2
    <3> QED BY <1>4, <3>1, <3>2
  <2>7. Left(rest, client) \subseteq 0 .. n - 1 /\ Left(list, client) \subseteq 0 .. n - 1
    <3>1. 0 .. m - 1 \subseteq 0 .. n - 1
      <4>1. m = n \/ m = n - 1
        BY <1>4
      <4> QED BY <4>1
    <3> QED BY <2>1, <2>2, <3>1
  <2> QED BY <2>3, <2>5, <2>6, <2>7
<1>6. OneEach(rest)
  <2> SUFFICES ASSUME NEW i \in 1 .. m, NEW r \in rest[i], NEW s \in rest[i], r.client = s.client
               PROVE  r = s
    BY <1>4 DEF OneEach
  <2>1. \A j \in 1 .. n : \A x, y \in list[j] : x.client = y.client => x = y
    BY <1>1 DEF OneEach
  <2>2. \E j \in 1 .. n : rest[i] \subseteq list[j]
    <3>1. CASE m - i \in 0 .. n - 2
      <4>1. PICK d \in 0 .. n - 2 : d = m - i
        BY <3>1
      <4>2. m - d = i /\ n - d \in 1 .. n
        BY <1>1, <4>1
      <4>3. rest[m - d] = list[n - d]
        BY <1>4
      <4> QED BY <4>2, <4>3
    <3>2. CASE m - i \notin 0 .. n - 2
      <4>1. m = n /\ i = 1 /\ rest[1] = left
        BY <1>1, <1>4, <3>2
      <4>2. 1 \in 1 .. n /\ left \subseteq list[1]
        BY <1>1, <1>2
      <4> QED BY <4>1, <4>2
    <3> QED BY <3>1, <3>2
  <2> QED BY <2>1, <2>2
<1>7. ASSUME NEW client, client # sub.client PROVE Left(rest, client) = Left(list, client)
  <2>1. (\E s \in first : s.client = client) <=> (\E s \in left : s.client = client)
    BY <1>1, <1>7
  <2>2. \A d \in 0 .. n - 1 : d \in 0 .. n - 2 \/ d = n - 1
    BY <1>1
  <2>3. ASSUME NEW d \in 0 .. n - 1 PROVE d \in Left(rest, client) <=> d \in Left(list, client)
    <3>1. CASE d \in 0 .. n - 2
      BY <1>5, <3>1
    <3>2. CASE d = n - 1
      BY <1>5, <2>1, <3>2
    <3> QED BY <2>2, <3>1, <3>2
  <2>4. Left(rest, client) \subseteq 0 .. n - 1 /\ Left(list, client) \subseteq 0 .. n - 1
    BY <1>5
  <2> QED BY <2>3, <2>4
<1>8. Cardinality(Left(list, sub.client)) = Cardinality(Left(rest, sub.client)) + 1
  <2>1. PICK A, B : A = Left(rest, sub.client) /\ B = Left(list, sub.client)
    OBVIOUS
  <2>2. n - 1 \in B
    BY <1>1, <1>5, <2>1
  <2>3. n - 1 \notin A
    <3>1. ASSUME NEW s \in left, s.client = sub.client PROVE FALSE
      <4>1. 1 \in 1 .. n /\ s \in list[1] /\ sub \in list[1] /\ s # sub
        BY <1>1, <1>2, <3>1
      <4> QED BY <1>1, <3>1, <4>1 DEF OneEach
    <3> QED BY <1>5, <2>1, <3>1
  <2>4. B = A \cup {n - 1}
    <3>1. \A d \in 0 .. n - 1 : d \in 0 .. n - 2 \/ d = n - 1
      BY <1>1
    <3>2. A \subseteq 0 .. n - 1 /\ B \subseteq 0 .. n - 1
      BY <1>5, <2>1
    <3>3. \A d \in 0 .. n - 2 : d \in A <=> d \in B
      BY <1>5, <2>1
    <3> QED BY <2>2, <3>1, <3>2, <3>3
  <2>5. IsFiniteSet(A) /\ Cardinality(A) \in Nat
    <3>1. IsFiniteSet(0 .. n - 1)
      BY <1>1, FS_Interval
    <3>2. A \in SUBSET (0 .. n - 1)
      BY <1>5, <2>1
    <3> QED BY <3>1, <3>2, FS_Subset, FS_CardinalityType
  <2>6. Cardinality(B) = Cardinality(A) + 1
    BY <2>3, <2>4, <2>5, FS_AddElement
  <2> QED BY <2>1, <2>6
<1> QED BY <1>6, <1>7, <1>8
=============================================================================
