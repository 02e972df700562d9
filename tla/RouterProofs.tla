---------------------------- MODULE RouterProofs ----------------------------
(***************************************************************************)
(* The router is right for any clients, filters and topics, after any      *)
(* sequence of subscribe, unsubscribe and match_topic.                     *)
(***************************************************************************)
EXTENDS RouterSystem, RouterLemmas

\* The inductive invariant: the trie is in order and has no dead branch.
RouterInv == GoodTrie(Levels, Clients, Infos, trie) /\ NoDead(trie)

LEMMA LevelsFacts == {"+", "#"} \subseteq Levels
BY DEF Levels

\* A new subscription leaves every occupied node occupied, and occupies the
\* end of the path it creates.
LEMMA SubscribeInv ==
  ASSUME RouterInv, NEW client \in Clients, NEW f \in Filters, NEW info \in Infos,
         Subscribe(client, f, info)
  PROVE  RouterInv'
<1> DEFINE u == subscribe(trie, client, f, info)
           n == SubscribeNode(f)
           g == SubscribeGroup(f)
<1>1. f \in Seq(Levels)
  BY RouterAssumption
<1>2. trie' = u
  BY DEF Subscribe
<1>0. GoodTrie(Levels, Clients, Infos, u) /\ Subscribed(trie, u, client, f, info)
  BY <1>1, SubscribeFacts, Zenon DEF RouterInv
<1> HIDE DEF u
<1>3. u.nodes = trie.nodes \cup Prefixes(n)
  BY <1>0 DEF Subscribed
<1>4. \A q : Occupied(trie, q) \/ q = n => Occupied(u, q)
  <2>1. CASE g = << >>
    <3>1. /\ u.shared = trie.shared
          /\ u.subs = {s \in trie.subs : ~ (s.node = n /\ s.client = client)}
                        \cup {[node |-> n, client |-> client, info |-> info]}
      BY <1>0, <2>1 DEF Subscribed
    <3> HIDE DEF n
    <3>2. \E s \in u.subs : s.node = n
      <4>1. PICK new : new = [node |-> n, client |-> client, info |-> info]
        OBVIOUS
      <4>2. new.node = n /\ new \in u.subs
        BY <3>1, <4>1
      <4> QED BY <4>2
    <3>3. \A s \in trie.subs : \E r \in u.subs : r.node = s.node
      BY <3>1, <3>2
    <3> QED BY <3>1, <3>2, <3>3 DEF Occupied
  <2>2. CASE g # << >>
    <3>1. u.subs = trie.subs /\ DOMAIN u.shared = DOMAIN trie.shared \cup {<<n, g[1]>>}
      BY <1>0, <2>2 DEF Subscribed
    <3> HIDE DEF n, g
    <3>2. <<n, g[1]>>[1] = n
      OBVIOUS
    <3> QED BY <3>1, <3>2 DEF Occupied
  <2> QED BY <2>1, <2>2
<1>5. n \in Seq(Levels) /\ n \in u.nodes
  <2>1. n \in Seq(Levels)
    BY <1>1, ParseFacts, WalkedFacts DEF SubscribeNode
  <2> QED BY <1>3, <2>1, PrefixesFacts
<1> HIDE DEF n, g
<1>6. NoDead(u)
  <2> SUFFICES ASSUME NEW p \in u.nodes, p # << >> PROVE Below(u, p)
    BY DEF NoDead
  <2>1. CASE p \in trie.nodes
    BY <1>3, <1>4, <2>1 DEF RouterInv, NoDead, Below
  <2>2. CASE p \in Prefixes(n)
    <3>1. IsPrefix(p, n)
      BY <1>5, <2>2, PrefixesFacts
    <3> QED BY <1>4, <1>5, <3>1 DEF Below
  <2> QED BY <1>3, <2>1, <2>2
<1> QED BY <1>0, <1>2, <1>6 DEF RouterInv

\* A withdrawal empties at most the end of its path; the nodes of the path
\* that have nothing left at or below them are pruned.
LEMMA UnsubscribeInv ==
  ASSUME RouterInv, NEW client \in Clients, NEW f \in Filters, Unsubscribe(client, f)
  PROVE  RouterInv'
<1> DEFINE path == parse_shared_subscription(f).filter
           group == parse_shared_subscription(f).group
           left == RemoveEntry(trie, client, path, group)
           u == Prune(left, path)
<1>1. f \in Seq(Levels)
  BY RouterAssumption
<1>2. path \in Seq(Levels)
  BY <1>1, ParseFacts
<1>3. trie' = u
  BY DEF Unsubscribe, unsubscribe
<1>0. GoodTrie(Levels, Clients, Infos, left) /\ Removed(trie, left, client, path, group)
  <2> HIDE DEF path, group
  <2> QED BY <1>2, RemoveFacts, Zenon DEF RouterInv
<1> HIDE DEF left, path, group
<1>4. left.nodes = trie.nodes
  BY <1>0 DEF Removed
<1>5. \A q : Occupied(trie, q) /\ q # path => Occupied(left, q)
  <2> SUFFICES ASSUME NEW q, q # path, Occupied(trie, q) PROVE Occupied(left, q)
    OBVIOUS
  <2>1. CASE group = << >>
    <3>1. /\ left.shared = trie.shared
          /\ left.subs = {s \in trie.subs : ~ (s.node = path /\ s.client = client)}
      BY <1>0, <2>1 DEF Removed
    <3> QED BY <3>1 DEF Occupied
  <2>2. CASE group # << >>
    <3>1. /\ left.subs = trie.subs
          /\ \A k : k # <<path, group[1]>> => (k \in DOMAIN left.shared <=> k \in DOMAIN trie.shared)
      BY <1>0, <2>2 DEF Removed
    <3>2. ASSUME NEW k \in DOMAIN trie.shared, k[1] = q PROVE k \in DOMAIN left.shared
      BY <3>1, <3>2
    <3> QED BY <3>1, <3>2 DEF Occupied
  <2> QED BY <2>1, <2>2
<1>6. /\ GoodTrie(Levels, Clients, Infos, u) /\ u.subs = left.subs /\ u.shared = left.shared
      /\ u.nodes \subseteq trie.nodes
      /\ \A q \in trie.nodes : Occupied(left, q) => q \in u.nodes
      /\ \A p \in u.nodes : p = << >> \/ ~ IsPrefix(p, path) \/
           \E q \in trie.nodes : IsPrefix(p, q) /\ (~ IsPrefix(q, path) \/ Occupied(left, q))
  <2>1. GoodTrie(Levels, Clients, Infos, u) /\ Pruned(left, u, path)
    BY <1>0, <1>2, PruneFacts, Zenon
  <2> HIDE DEF u
  <2> QED BY <1>4, <2>1 DEF Pruned
<1>7. trie.nodes \subseteq Seq(Levels)
  BY DEF RouterInv, GoodTrie, TrieShape
<1> HIDE DEF u
<1>8. \A q : Occupied(left, q) => Occupied(u, q)
  BY <1>6 DEF Occupied
<1>9. ASSUME NEW q \in trie.nodes, ~ IsPrefix(q, path)
      PROVE  \E r \in u.nodes : IsPrefix(q, r) /\ Occupied(u, r)
  <2>1. q # << >>
    <3>1. IsPrefix(<< >>, path)
      BY <1>2, PrefixesFacts
    <3> QED BY <1>9, <3>1
  <2>2. PICK r \in trie.nodes : IsPrefix(q, r) /\ Occupied(trie, r)
    BY <2>1 DEF RouterInv, NoDead, Below
  <2>3. r # path
    BY <1>9, <2>2
  <2> QED BY <1>5, <1>6, <1>8, <2>2, <2>3
<1>10. NoDead(u)
  <2> SUFFICES ASSUME NEW p \in u.nodes, p # << >> PROVE Below(u, p)
    BY DEF NoDead
  <2>1. p \in trie.nodes /\ p \in Seq(Levels)
    BY <1>6, <1>7
  <2>2. CASE ~ IsPrefix(p, path)
    BY <1>9, <2>1, <2>2 DEF Below
  <2>3. CASE IsPrefix(p, path)
    <3>1. PICK q \in trie.nodes : IsPrefix(p, q) /\ (~ IsPrefix(q, path) \/ Occupied(left, q))
      BY <1>6, <2>3
    <3>2. CASE Occupied(left, q)
      BY <1>6, <1>8, <3>1, <3>2 DEF Below
    <3>3. CASE ~ IsPrefix(q, path)
      <4>1. PICK r \in u.nodes : IsPrefix(q, r) /\ Occupied(u, r)
        BY <1>9, <3>3
      <4>2. r \in Seq(Levels) /\ q \in Seq(Levels)
        BY <1>6, <1>7
      <4>3. IsPrefix(p, r)
        BY <2>1, <3>1, <4>1, <4>2, PrefixOrder
      <4> QED BY <4>1, <4>3 DEF Below
    <3> QED BY <3>1, <3>2, <3>3
  <2> QED BY <2>2, <2>3
<1> QED BY <1>3, <1>6, <1>10 DEF RouterInv

LEMMA RouterInitInv == ASSUME Init PROVE RouterInv
<1>1. GoodTrie(Levels, Clients, Infos, EmptyTrie)
  BY LevelsFacts, EmptyTrieGood
<1>2. NoDead(EmptyTrie)
  BY DEF NoDead, EmptyTrie
<1> QED BY <1>1, <1>2 DEF Init, RouterInv

LEMMA RouterNextInv == ASSUME RouterInv, [Next]_vars PROVE RouterInv'
<1>1. CASE UNCHANGED trie
  BY <1>1 DEF RouterInv
<1> QED BY <1>1, SubscribeInv, UnsubscribeInv DEF Next, Match, vars

\* The inductive invariant holds at all times.
THEOREM RouterInvariance == Spec => []RouterInv
<1>1. Init => RouterInv
  BY RouterInitInv
<1>2. RouterInv /\ [Next]_vars => RouterInv'
  BY RouterNextInv
<1> QED BY <1>1, <1>2, PTL DEF Spec

\* Every entry is at a node that can be reached, and a member is in a group
\* once, whatever was subscribed and withdrawn before (TopicRouter).
THEOREM RouterTypeCorrect == Spec => []TypeOK
<1>1. RouterInv => TypeOK
  <2> SUFFICES ASSUME RouterInv PROVE TypeOK
    OBVIOUS
  <2>1. << >> \in trie.nodes /\ \A p \in trie.nodes : Prefixes(p) \subseteq trie.nodes
    BY DEF RouterInv, GoodTrie, TrieShape
  <2>2. \A s \in trie.subs : s.node \in trie.nodes /\ s.client \in Clients /\ s.info \in Infos
    BY DEF RouterInv, GoodTrie
  <2>3. ASSUME NEW k \in DOMAIN trie.shared
        PROVE  /\ k[1] \in trie.nodes
               /\ \A i, j \in DOMAIN trie.shared[k] :
                    trie.shared[k][i].client = trie.shared[k][j].client => i = j
    <3>1. k \in trie.nodes \X Levels /\ Members(Clients, Infos, trie.shared[k])
      BY DEF RouterInv, GoodTrie
    <3>2. DOMAIN trie.shared[k] = 1 .. Len(trie.shared[k])
      BY <3>1 DEF Members
    <3> QED BY <3>1, <3>2 DEF Members
  <2> QED BY <2>1, <2>2, <2>3 DEF TypeOK
<1> QED BY <1>1, RouterInvariance, PTL

\* No node and no group is kept for filters nobody subscribes to any more
\* (the pruning of unsubscribe_recursive).
THEOREM NoDeadBranchesEver == Spec => []NoDeadBranches
<1>1. RouterInv => NoDeadBranches
  BY DEF RouterInv, NoDead, Below, NoDeadBranches, GoodTrie, Members
<1> QED BY <1>1, RouterInvariance, PTL

\* The two matchers of the program agree on every subscription that is held,
\* for every topic: the search of the trie meets its node exactly when the
\* loop of topic_matches_acl_filter accepts the filter.
THEOREM MatchersAgree == Spec => []RouterAgreesWithAcl
<1>1. RouterInv => RouterAgreesWithAcl
  <2> SUFFICES ASSUME RouterInv, NEW t \in Topics, NEW r \in TrieRows
               PROVE  (r.filter \in ToSet(Visited(trie, t))) <=> topic_matches_acl_filter(t, r.filter)
    BY DEF RouterAgreesWithAcl
  <2>1. t \in Seq(Levels) /\ TrieShape(Levels, trie.nodes)
    BY RouterAssumption DEF RouterInv, GoodTrie
  <2>2. r.filter \in trie.nodes
    <3>1. CASE \E s \in trie.subs : r.filter = s.node
      BY <3>1 DEF RouterInv, GoodTrie
    <3>2. CASE \E k \in DOMAIN trie.shared : r.filter = k[1]
      BY <3>2 DEF RouterInv, GoodTrie
    <3> QED BY <3>1, <3>2 DEF TrieRows
  <2>3. r.filter \in Seq(Levels) /\ WellFormed(r.filter)
    BY <2>1, <2>2 DEF TrieShape
  <2>4. topic_matches_acl_filter(t, r.filter) <=> Matches(r.filter, t)
    BY <2>1, <2>3, AclMatches
  <2>5. ToSet(Visited(trie, t)) = {q \in trie.nodes : Matches(q, t)}
    BY <2>1, VisitedMatches
  <2> QED BY <2>2, <2>4, <2>5
<1> QED BY <1>1, RouterInvariance, PTL

-----------------------------------------------------------------------------
(* The refinement of SubscriptionTable.                                    *)

LEMMA TableMatches == ASSUME NEW f, NEW t PROVE Table!Matches(f, t) = Matches(f, t)
BY DEF Table!Matches, Matches, Table!LevelsMatch, LevelsMatch

LEMMA TableParse ==
  ASSUME NEW f PROVE Table!parse_shared_subscription(f) = parse_shared_subscription(f)
BY DEF Table!parse_shared_subscription, parse_shared_subscription

LEMMA TableWellFormed == ASSUME NEW f PROVE Table!WellFormed(f) = WellFormed(f)
BY DEF Table!WellFormed, WellFormed

LEMMA TableCardinality == ASSUME NEW S PROVE Table!Cardinality(S) = Cardinality(S)
BY DEF Table!Cardinality, Cardinality

\* The filter a request stands for in the table is the path subscribe walks:
\* no other prefix of it ends with its only '#'.
LEMMA EffectiveIsWalked ==
  ASSUME NEW L, NEW filter \in Seq(L)
  PROVE  Table!Effective(filter) = Walked(filter)
<1> DEFINE S == {SubSeq(filter, 1, n) : n \in 0 .. Len(filter)}
           Q(p) == WellFormed(p) /\ (p = filter \/ (p # << >> /\ p[Len(p)] = "#"))
           w == Walked(filter)
<1>1. w \in S /\ Q(w)
  <2>1. Prefixes(filter) = S
    BY DEF Prefixes
  <2> QED BY <2>1, WalkedFacts
<1>2. Len(filter) \in Nat
  OBVIOUS
<1>3. ASSUME NEW n \in 0 .. Len(filter)
      PROVE  /\ SubSeq(filter, 1, n) \in Seq(L) /\ Len(SubSeq(filter, 1, n)) = n
             /\ \A i \in 1 .. n : SubSeq(filter, 1, n)[i] = filter[i]
  OBVIOUS
<1>4. ASSUME NEW n \in 0 .. Len(filter), NEW m \in 0 .. Len(filter), n < m,
             Q(SubSeq(filter, 1, n)), Q(SubSeq(filter, 1, m))
      PROVE  FALSE
  <2>1. PICK p : p = SubSeq(filter, 1, n) /\ p \in Seq(L) /\ Len(p) = n
                 /\ \A i \in 1 .. n : p[i] = filter[i]
    BY <1>3
  <2>2. PICK q : q = SubSeq(filter, 1, m) /\ Len(q) = m /\ \A i \in 1 .. m : q[i] = filter[i]
    BY <1>3
  <2>3. p # filter
    BY <1>2, <1>4, <2>1
  <2>4. p # << >> /\ p[n] = "#"
    BY <1>4, <2>1, <2>3
  <2>5. n # 0
    BY <2>1, <2>4
  <2>6. n \in 1 .. n /\ n \in 1 .. m /\ n \in 1 .. m - 1
    BY <1>2, <1>4, <2>5
  <2>7. q[n] = "#"
    BY <2>1, <2>2, <2>4, <2>6
  <2>8. WellFormed(q)
    BY <1>4, <2>2
  <2> QED BY <2>2, <2>6, <2>7, <2>8 DEF WellFormed
<1> HIDE DEF Q, w
<1>5. ASSUME NEW p \in S, Q(p) PROVE p = w
  <2>1. PICK n \in 0 .. Len(filter) : p = SubSeq(filter, 1, n)
    OBVIOUS
  <2>2. PICK m \in 0 .. Len(filter) : w = SubSeq(filter, 1, m)
    BY <1>1
  <2>3. ~ (n < m)
    BY <1>1, <1>4, <1>5, <2>1, <2>2
  <2>4. ~ (m < n)
    BY <1>1, <1>4, <1>5, <2>1, <2>2
  <2>5. n = m
    BY <1>2, <2>3, <2>4
  <2> QED BY <2>1, <2>2, <2>5
<1> HIDE DEF S
<1>6. (CHOOSE p \in S : Q(p)) = w
  <2>1. (CHOOSE p \in S : Q(p)) \in S /\ Q(CHOOSE p \in S : Q(p))
    BY <1>1, Zenon
  <2> QED BY <1>5, <2>1
<1>7. Table!Effective(filter) = CHOOSE p \in S : Q(p)
  <2>1. Table!Effective(filter) =
          CHOOSE p \in S : WellFormed(p) /\ (p = filter \/ (p # << >> /\ p[Len(p)] = "#"))
    BY TableWellFormed, Zenon DEF Table!Effective, S
  <2> QED BY <2>1 DEF Q
<1> QED BY <1>6, <1>7 DEF w

\* The rows a trie stands for.
Plain(s) == [client |-> s.client, group |-> << >>, filter |-> s.node, info |-> s.info]

Grouped(p, g, e) == [client |-> e.client, group |-> <<g>>, filter |-> p, info |-> e.info]

Rows(t) ==
  {Plain(s) : s \in t.subs}
  \cup
  UNION {{Grouped(k[1], k[2], e) : e \in ToSet(t.shared[k])} : k \in DOMAIN t.shared}

IsRow(t, r) ==
  \/ \E s \in t.subs : r = Plain(s)
  \/ \E p \in t.nodes, g \in Levels : \E e \in ListAt(t, <<p, g>>) : r = Grouped(p, g, e)

LEMMA RowFacts ==
  ASSUME NEW t, GoodTrie(Levels, Clients, Infos, t)
  PROVE  /\ \A r : r \in Rows(t) <=> IsRow(t, r)
         /\ \A p, g : \A e \in ListAt(t, <<p, g>>) :
              p \in t.nodes /\ g \in Levels /\ e \in Entry(Clients, Infos)
<1>1. ASSUME NEW p, NEW g, NEW e \in ListAt(t, <<p, g>>)
      PROVE  /\ p \in t.nodes /\ g \in Levels /\ e \in Entry(Clients, Infos)
             /\ <<p, g>> \in DOMAIN t.shared /\ e \in ToSet(t.shared[<<p, g>>])
  <2>1. <<p, g>> \in DOMAIN t.shared /\ e \in ToSet(t.shared[<<p, g>>])
    BY <1>1 DEF ListAt
  <2>2. <<p, g>> \in t.nodes \X Levels
    BY <2>1 DEF GoodTrie
  <2>3. PICK l : l = t.shared[<<p, g>>] /\ Members(Clients, Infos, l)
    BY <2>1 DEF GoodTrie
  <2>4. l \in Seq(Entry(Clients, Infos)) /\ e \in ToSet(l)
    BY <2>1, <2>3 DEF Members
  <2>5. e \in Entry(Clients, Infos)
    BY <2>4, ToSetIs
  <2> QED BY <2>1, <2>2, <2>5
<1>2. ASSUME NEW k \in DOMAIN t.shared
      PROVE  k[1] \in t.nodes /\ k[2] \in Levels /\ ToSet(t.shared[k]) = ListAt(t, <<k[1], k[2]>>)
  <2>1. k \in t.nodes \X Levels
    BY DEF GoodTrie
  <2>2. k = <<k[1], k[2]>> /\ k[1] \in t.nodes /\ k[2] \in Levels
    BY <2>1
  <2> QED BY <2>2, Zenon DEF ListAt
<1>3. ASSUME NEW r, r \in Rows(t) PROVE IsRow(t, r)
  <2>1. CASE \E s \in t.subs : r = Plain(s)
    BY <2>1 DEF IsRow
  <2>2. CASE \E k \in DOMAIN t.shared : \E e \in ToSet(t.shared[k]) : r = Grouped(k[1], k[2], e)
    BY <1>2, <2>2 DEF IsRow
  <2> QED BY <1>3, <2>1, <2>2 DEF Rows
<1>4. ASSUME NEW r, IsRow(t, r) PROVE r \in Rows(t)
  <2>1. CASE \E s \in t.subs : r = Plain(s)
    BY <2>1 DEF Rows
  <2>2. CASE \E p \in t.nodes, g \in Levels : \E e \in ListAt(t, <<p, g>>) : r = Grouped(p, g, e)
    <3>1. PICK p \in t.nodes, g \in Levels : \E e \in ListAt(t, <<p, g>>) : r = Grouped(p, g, e)
      BY <2>2
    <3>2. PICK e \in ListAt(t, <<p, g>>) : r = Grouped(p, g, e)
      BY <3>1
    <3>3. PICK k \in DOMAIN t.shared : k = <<p, g>> /\ e \in ToSet(t.shared[k])
      BY <1>1
    <3>4. k[1] = p /\ k[2] = g
      BY <3>3
    <3>5. r = Grouped(k[1], k[2], e)
      BY <3>2, <3>4
    <3> QED BY <3>3, <3>5 DEF Rows
  <2> QED BY <1>4, <2>1, <2>2 DEF IsRow
<1> QED BY <1>1, <1>3, <1>4

LEMMA RowFields ==
  /\ \A s : /\ Plain(s).client = s.client /\ Plain(s).group = << >>
            /\ Plain(s).filter = s.node /\ Plain(s).info = s.info
  /\ \A p, g, e : /\ Grouped(p, g, e).client = e.client /\ Grouped(p, g, e).group = <<g>>
                  /\ Grouped(p, g, e).filter = p /\ Grouped(p, g, e).info = e.info
BY DEF Plain, Grouped

LEMMA SubscribeSimulates ==
  ASSUME RouterInv, NEW client \in Clients, NEW f \in Filters, NEW info \in Infos,
         Subscribe(client, f, info)
  PROVE  Table!Subscribe(client, f, info)
<1> DEFINE u == subscribe(trie, client, f, info)
           n == SubscribeNode(f)
           g == SubscribeGroup(f)
           row == [client |-> client, group |-> g, filter |-> n, info |-> info]
           Same(r) == r.client = client /\ r.group = g /\ r.filter = n
<1>1. f \in Seq(Levels)
  BY RouterAssumption
<1>2. trie' = u /\ reply' = [op |-> "subscribed"]
  BY DEF Subscribe
<1>3. GoodTrie(Levels, Clients, Infos, u) /\ Subscribed(trie, u, client, f, info)
  BY <1>1, SubscribeFacts, Zenon DEF RouterInv
<1>4. /\ g = << >> \/ (g # << >> /\ g = <<g[1]>> /\ g[1] \in Levels)
      /\ n \in Seq(Levels)
  BY <1>1, ParseFacts, WalkedFacts DEF SubscribeGroup, SubscribeNode
<1>5. GoodTrie(Levels, Clients, Infos, trie)
  BY DEF RouterInv
<1>6. Table!Row(client, f, info) = row
  <2>1. parse_shared_subscription(f).filter \in Seq(Levels)
    BY <1>1, ParseFacts
  <2>2. Table!Effective(parse_shared_subscription(f).filter) = n
    BY <2>1, EffectiveIsWalked, Zenon DEF SubscribeNode
  <2> QED BY <2>2, TableParse, Zenon DEF Table!Row, SubscribeGroup
<1>7. /\ u.nodes = trie.nodes \cup Prefixes(n) /\ n \in u.nodes
  BY <1>3, <1>4, PrefixesFacts DEF Subscribed
<1>8. ASSUME g = << >> PROVE Rows(u) = {r \in Rows(trie) : ~ Same(r)} \cup {row}
  <2>1. /\ u.shared = trie.shared
        /\ u.subs = {s \in trie.subs : ~ (s.node = n /\ s.client = client)}
                      \cup {[node |-> n, client |-> client, info |-> info]}
    BY <1>3, <1>8 DEF Subscribed
  <2>2. \A k : ListAt(u, k) = ListAt(trie, k)
    BY <2>1 DEF ListAt
  <2>3. PICK new : /\ new = [node |-> n, client |-> client, info |-> info]
                   /\ new \in u.subs /\ Plain(new) = row
    BY <1>8, <2>1 DEF Plain
  <2> HIDE DEF u, n, g, row
  <2>4. ASSUME NEW r, IsRow(u, r) PROVE r = row \/ (IsRow(trie, r) /\ ~ Same(r))
    <3>1. ASSUME NEW s \in u.subs, r = Plain(s) PROVE r = row \/ (IsRow(trie, r) /\ ~ Same(r))
      <4>1. CASE s = new
        BY <2>3, <3>1, <4>1
      <4>2. CASE s \in trie.subs /\ ~ (s.node = n /\ s.client = client)
        BY <3>1, <4>2, RowFields DEF IsRow
      <4> QED BY <2>1, <2>3, <4>1, <4>2
    <3>2. ASSUME NEW p \in u.nodes, NEW h \in Levels, NEW e \in ListAt(u, <<p, h>>), r = Grouped(p, h, e)
          PROVE  IsRow(trie, r) /\ ~ Same(r)
      <4>1. e \in ListAt(trie, <<p, h>>) /\ p \in trie.nodes
        BY <1>5, <2>2, RowFacts
      <4>2. r.group = <<h>> /\ <<h>> # << >>
        BY <3>2, RowFields
      <4>3. IsRow(trie, r)
        BY <3>2, <4>1 DEF IsRow
      <4> QED BY <1>8, <4>2, <4>3
    <3> QED BY <2>4, <3>1, <3>2 DEF IsRow
  <2>5. IsRow(u, row)
    BY <2>3 DEF IsRow
  <2>6. ASSUME NEW r, IsRow(trie, r), ~ Same(r) PROVE IsRow(u, r)
    <3>1. ASSUME NEW s \in trie.subs, r = Plain(s) PROVE IsRow(u, r)
      <4>1. ~ (s.node = n /\ s.client = client)
        BY <1>8, <2>6, <3>1, RowFields
      <4> QED BY <2>1, <3>1, <4>1 DEF IsRow
    <3>2. ASSUME NEW p \in trie.nodes, NEW h \in Levels, NEW e \in ListAt(trie, <<p, h>>), r = Grouped(p, h, e)
          PROVE  IsRow(u, r)
      BY <1>7, <2>2, <3>2 DEF IsRow
    <3> QED BY <2>6, <3>1, <3>2 DEF IsRow
  <2>7. Rows(u) = {r \in Rows(trie) : ~ Same(r)} \cup {row}
    BY <1>3, <1>5, <2>4, <2>5, <2>6, RowFacts
  <2> QED BY <2>7
<1>9. ASSUME g # << >> PROVE Rows(u) = {r \in Rows(trie) : ~ Same(r)} \cup {row}
  <2> DEFINE key == <<n, g[1]>>
             e0 == [client |-> client, info |-> info]
  <2>1. /\ u.subs = trie.subs
        /\ DOMAIN u.shared = DOMAIN trie.shared \cup {key}
        /\ \A k \in DOMAIN trie.shared : k # key => u.shared[k] = trie.shared[k]
        /\ ToSet(u.shared[key]) = {e0} \cup
             IF key \in DOMAIN trie.shared
             THEN {d \in ToSet(trie.shared[key]) : d.client # client} ELSE {}
    BY <1>3, <1>9 DEF Subscribed
  <2>2. /\ \A k : k # key => ListAt(u, k) = ListAt(trie, k)
        /\ ListAt(u, key) = {e0} \cup {d \in ListAt(trie, key) : d.client # client}
    <3> HIDE DEF u, key, e0
    <3> QED BY <2>1 DEF ListAt
  <2>3. g = <<g[1]>> /\ g[1] \in Levels
    BY <1>4, <1>9
  <2>4. Grouped(n, g[1], e0) = row
    BY <2>3 DEF Grouped
  <2>5. \A p, h : <<p, h>> = key <=> p = n /\ h = g[1]
    OBVIOUS
  <2>6. \A h : <<h>> = g <=> h = g[1]
    BY <2>3
  <2> HIDE DEF u, n, g, row, key, e0
  <2>7. ASSUME NEW r, IsRow(u, r) PROVE r = row \/ (IsRow(trie, r) /\ ~ Same(r))
    <3>1. ASSUME NEW s \in u.subs, r = Plain(s) PROVE IsRow(trie, r) /\ ~ Same(r)
      BY <1>9, <2>1, <3>1, RowFields DEF IsRow
    <3>2. ASSUME NEW p \in u.nodes, NEW h \in Levels, NEW e \in ListAt(u, <<p, h>>), r = Grouped(p, h, e)
          PROVE  r = row \/ (IsRow(trie, r) /\ ~ Same(r))
      <4>1. CASE <<p, h>> # key
        <5>1. e \in ListAt(trie, <<p, h>>) /\ p \in trie.nodes
          BY <1>5, <2>2, <4>1, RowFacts
        <5>2. ~ (p = n /\ h = g[1])
          BY <2>5, <4>1
        <5>3. ~ Same(r)
          BY <2>6, <3>2, <5>2, RowFields
        <5> QED BY <3>2, <5>1, <5>3 DEF IsRow
      <4>2. CASE <<p, h>> = key
        <5>1. p = n /\ h = g[1] /\ e \in {e0} \cup {d \in ListAt(trie, key) : d.client # client}
          BY <2>2, <2>5, <4>2
        <5>2. CASE e = e0
          BY <2>4, <3>2, <5>1, <5>2
        <5>3. CASE e \in ListAt(trie, key) /\ e.client # client
          <6>1. e \in ListAt(trie, <<p, h>>) /\ p \in trie.nodes
            BY <1>5, <4>2, <5>3, RowFacts
          <6> QED BY <3>2, <5>3, <6>1, RowFields DEF IsRow
        <5> QED BY <5>1, <5>2, <5>3
      <4> QED BY <4>1, <4>2
    <3> QED BY <2>7, <3>1, <3>2 DEF IsRow
  <2>8. IsRow(u, row)
    <3>1. e0 \in ListAt(u, <<n, g[1]>>)
      BY <2>2, <2>5
    <3> QED BY <1>7, <2>3, <2>4, <3>1 DEF IsRow
  <2>9. ASSUME NEW r, IsRow(trie, r), ~ Same(r) PROVE IsRow(u, r)
    <3>1. ASSUME NEW s \in trie.subs, r = Plain(s) PROVE IsRow(u, r)
      BY <2>1, <3>1 DEF IsRow
    <3>2. ASSUME NEW p \in trie.nodes, NEW h \in Levels, NEW e \in ListAt(trie, <<p, h>>), r = Grouped(p, h, e)
          PROVE  IsRow(u, r)
      <4>1. <<p, h>> = key => e.client # client
        <5>1. r.client = e.client /\ r.group = <<h>> /\ r.filter = p
          BY <3>2, RowFields
        <5> QED BY <2>5, <2>6, <2>9, <5>1
      <4>2. e \in ListAt(u, <<p, h>>)
        BY <2>2, <4>1
      <4> QED BY <1>7, <3>2, <4>2 DEF IsRow
    <3> QED BY <2>9, <3>1, <3>2 DEF IsRow
  <2>10. Rows(u) = {r \in Rows(trie) : ~ Same(r)} \cup {row}
    BY <1>3, <1>5, <2>7, <2>8, <2>9, RowFacts
  <2> QED BY <2>10
<1>10. Rows(u) = {r \in Rows(trie) : ~ Same(r)} \cup {row}
  BY <1>8, <1>9
<1>11. TrieRows = Rows(trie) /\ TrieRows' = Rows(trie')
  BY DEF TrieRows, Rows, Plain, Grouped
<1>12. TableAnswer' = [op |-> "subscribed"]
  BY <1>2 DEF TableAnswer
<1>13. \A r : Table!SameKey(r, row) <=> Same(r)
  BY DEF Table!SameKey
<1> HIDE DEF u, row, Same
<1>14. TrieRows' = {r \in TrieRows : ~ Table!SameKey(r, row)} \cup {row}
  BY <1>2, <1>10, <1>11, <1>13
<1> QED BY <1>6, <1>12, <1>14, Zenon DEF Table!Subscribe

LEMMA UnsubscribeSimulates ==
  ASSUME RouterInv, NEW client \in Clients, NEW f \in Filters, Unsubscribe(client, f)
  PROVE  Table!Unsubscribe(client, f)
<1> DEFINE n == parse_shared_subscription(f).filter
           g == parse_shared_subscription(f).group
           left == RemoveEntry(trie, client, n, g)
           u == Prune(left, n)
           Same(r) == r.client = client /\ r.group = g /\ r.filter = n
           gone == {r \in Rows(trie) : Same(r)}
<1>1. f \in Seq(Levels)
  BY RouterAssumption
<1>2. /\ trie' = u
      /\ reply' = [op |-> "unsubscribed", client |-> client, filter |-> f, removed |-> left # trie]
  BY DEF Unsubscribe, unsubscribe
<1>3. /\ g = << >> \/ (g # << >> /\ g = <<g[1]>> /\ g[1] \in Levels)
      /\ n \in Seq(Levels)
  BY <1>1, ParseFacts
<1>4. GoodTrie(Levels, Clients, Infos, left) /\ Removed(trie, left, client, n, g)
  <2> HIDE DEF n, g
  <2> QED BY <1>3, RemoveFacts, Zenon DEF RouterInv
<1>5. GoodTrie(Levels, Clients, Infos, trie)
  BY DEF RouterInv
<1> HIDE DEF n, g, left
<1>6. left.nodes = trie.nodes
  BY <1>4 DEF Removed
<1>7. GoodTrie(Levels, Clients, Infos, u) /\ u.subs = left.subs /\ u.shared = left.shared
  <2>1. GoodTrie(Levels, Clients, Infos, u) /\ Pruned(left, u, n)
    BY <1>3, <1>4, PruneFacts, Zenon
  <2> HIDE DEF u
  <2> QED BY <2>1 DEF Pruned
<1> HIDE DEF u
<1>8. Rows(u) = Rows(left)
  BY <1>7 DEF Rows
<1>9. ASSUME g = << >> PROVE Rows(left) = Rows(trie) \ gone /\ (left # trie <=> gone # {})
  <2>1. /\ left.shared = trie.shared
        /\ left.subs = {s \in trie.subs : ~ (s.node = n /\ s.client = client)}
        /\ left # trie <=> \E s \in trie.subs : s.node = n /\ s.client = client
    BY <1>4, <1>9 DEF Removed
  <2>2. \A k : ListAt(left, k) = ListAt(trie, k)
    BY <2>1 DEF ListAt
  <2>3. ASSUME NEW r PROVE IsRow(left, r) <=> IsRow(trie, r) /\ ~ Same(r)
    <3>1. (\E s \in left.subs : r = Plain(s)) <=> (\E s \in trie.subs : r = Plain(s)) /\ ~ Same(r)
      BY <1>9, <2>1, RowFields
    <3>2. ASSUME NEW p, NEW h, NEW e, r = Grouped(p, h, e) PROVE ~ Same(r)
      BY <1>9, <3>2, RowFields
    <3> QED BY <1>6, <2>2, <3>1, <3>2 DEF IsRow
  <2>4. (\E s \in trie.subs : s.node = n /\ s.client = client) <=> \E r \in Rows(trie) : Same(r)
    <3>1. ASSUME NEW s \in trie.subs, s.node = n, s.client = client
          PROVE  \E r \in Rows(trie) : Same(r)
      <4>1. Plain(s) \in Rows(trie)
        BY DEF Rows
      <4> QED BY <1>9, <3>1, <4>1, RowFields
    <3>2. ASSUME NEW r \in Rows(trie), Same(r)
          PROVE  \E s \in trie.subs : s.node = n /\ s.client = client
      <4>1. IsRow(trie, r)
        BY <1>5, RowFacts
      <4>2. PICK s \in trie.subs : r = Plain(s)
        <5>1. ASSUME NEW p, NEW h, NEW e, r = Grouped(p, h, e) PROVE FALSE
          <6>1. r.group = <<h>> /\ <<h>> # << >>
            BY <5>1, RowFields
          <6> QED BY <1>9, <3>2, <6>1
        <5> QED BY <4>1, <5>1 DEF IsRow
      <4> QED BY <3>2, <4>2, RowFields
    <3> QED BY <3>1, <3>2
  <2>5. Rows(left) = Rows(trie) \ gone
    BY <1>4, <1>5, <2>3, RowFacts
  <2> QED BY <2>1, <2>4, <2>5
<1>10. ASSUME g # << >> PROVE Rows(left) = Rows(trie) \ gone /\ (left # trie <=> gone # {})
  <2> DEFINE key == <<n, g[1]>>
  <2>1. /\ left.subs = trie.subs
        /\ \A k : k # key => (k \in DOMAIN left.shared <=> k \in DOMAIN trie.shared)
        /\ \A k \in DOMAIN trie.shared : k # key => left.shared[k] = trie.shared[k]
        /\ ListAt(left, key) = {d \in ListAt(trie, key) : d.client # client}
        /\ left # trie <=> \E d \in ListAt(trie, key) : d.client = client
    BY <1>4, <1>10 DEF Removed
  <2>2. g = <<g[1]>> /\ g[1] \in Levels /\ \A p, h : <<p, h>> = key <=> p = n /\ <<h>> = g
    BY <1>3, <1>10
  <2> HIDE DEF key
  <2>3. \A k : k # key => ListAt(left, k) = ListAt(trie, k)
    BY <2>1 DEF ListAt
  <2>4. ASSUME NEW p, NEW h, NEW e
        PROVE  e \in ListAt(left, <<p, h>>) <=>
                 e \in ListAt(trie, <<p, h>>) /\ ~ Same(Grouped(p, h, e))
    <3>1. PICK r : /\ r = Grouped(p, h, e) /\ r.client = e.client /\ r.group = <<h>>
                   /\ r.filter = p
      BY RowFields
    <3>2. Same(r) <=> <<p, h>> = key /\ e.client = client
      BY <2>2, <3>1
    <3>3. CASE <<p, h>> # key
      BY <2>3, <3>1, <3>2, <3>3
    <3>4. CASE <<p, h>> = key
      <4>1. e \in ListAt(left, <<p, h>>) <=> e \in ListAt(trie, <<p, h>>) /\ e.client # client
        BY <2>1, <3>4
      <4> QED BY <3>1, <3>2, <3>4, <4>1
    <3> QED BY <3>3, <3>4
  <2>5. ASSUME NEW s PROVE ~ Same(Plain(s))
    BY <1>10, RowFields
  <2>6. ASSUME NEW r PROVE IsRow(left, r) <=> IsRow(trie, r) /\ ~ Same(r)
    <3> HIDE DEF Same
    <3> QED BY <1>6, <2>1, <2>4, <2>5, ZenonT(60) DEF IsRow
  <2>7. (\E d \in ListAt(trie, key) : d.client = client) <=> \E r \in Rows(trie) : Same(r)
    <3>1. ASSUME NEW d \in ListAt(trie, key), d.client = client
          PROVE  \E r \in Rows(trie) : Same(r)
      <4>1. key = <<n, g[1]>> /\ d \in ListAt(trie, <<n, g[1]>>)
        BY DEF key
      <4>2. n \in trie.nodes
        BY <1>5, <4>1, RowFacts
      <4>3. IsRow(trie, Grouped(n, g[1], d))
        BY <2>2, <4>1, <4>2 DEF IsRow
      <4>4. Grouped(n, g[1], d) \in Rows(trie)
        BY <1>5, <4>3, RowFacts
      <4> QED BY <2>2, <3>1, <4>4, RowFields
    <3>2. ASSUME NEW r \in Rows(trie), Same(r)
          PROVE  \E d \in ListAt(trie, key) : d.client = client
      <4>1. IsRow(trie, r)
        BY <1>5, RowFacts
      <4>2. PICK p \in trie.nodes, h \in Levels : \E e \in ListAt(trie, <<p, h>>) : r = Grouped(p, h, e)
        BY <1>10, <3>2, <4>1, RowFields DEF IsRow
      <4>3. PICK e \in ListAt(trie, <<p, h>>) : r = Grouped(p, h, e)
        BY <4>2
      <4>4. <<p, h>> = key /\ e.client = client
        <5>1. r.client = e.client /\ r.group = <<h>> /\ r.filter = p
          BY <4>3, RowFields
        <5> QED BY <2>2, <3>2, <5>1
      <4> QED BY <4>3, <4>4
    <3> QED BY <3>1, <3>2
  <2>8. Rows(left) = Rows(trie) \ gone
    BY <1>4, <1>5, <2>6, RowFacts
  <2> QED BY <2>1, <2>7, <2>8
<1>11. Rows(u) = Rows(trie) \ gone /\ (left # trie <=> gone # {})
  BY <1>8, <1>9, <1>10
<1>12. TrieRows = Rows(trie) /\ TrieRows' = Rows(trie')
  BY DEF TrieRows, Rows, Plain, Grouped
<1>13. (left # trie) = (gone # {})
  BY <1>11
<1>14. TableAnswer' = [op |-> "unsubscribed", client |-> client, filter |-> f, removed |-> gone # {}]
  <2>1. reply'.op = "unsubscribed"
    BY <1>2
  <2>2. TableAnswer' = reply'
    BY <2>1 DEF TableAnswer
  <2> HIDE DEF gone
  <2> QED BY <1>2, <1>13, <2>2, Zenon
<1>15. Table!parse_shared_subscription(f).filter = n /\ Table!parse_shared_subscription(f).group = g
  BY TableParse, Zenon DEF n, g
<1> QED BY <1>2, <1>11, <1>12, <1>14, <1>15, Zenon DEF Table!Unsubscribe

\* The members of a group that match are as many rows as there are nodes
\* that match and hold the entry.
LEMMA HitsAreHolders ==
  ASSUME NEW t, GoodTrie(Levels, Clients, Infos, t), NEW topic, NEW g, NEW e,
         IsFiniteSet(Holders(t, topic, g, e))
  PROVE  LET hits == {r \in Rows(t) : /\ r.group = <<g>> /\ Matches(r.filter, topic)
                                      /\ [client |-> r.client, info |-> r.info] = e}
         IN  /\ Cardinality(hits) = Cardinality(Holders(t, topic, g, e))
             /\ hits # {} <=> Holders(t, topic, g, e) # {}
<1> DEFINE H == Holders(t, topic, g, e)
           hits == {r \in Rows(t) : /\ r.group = <<g>> /\ Matches(r.filter, topic)
                                    /\ [client |-> r.client, info |-> r.info] = e}
           b == [p \in H |-> Grouped(p, g, e)]
<1>1. ASSUME NEW p \in H PROVE Grouped(p, g, e) \in hits
  <2>1. p \in t.nodes /\ Matches(p, topic) /\ e \in ListAt(t, <<p, g>>)
    BY DEF Holders
  <2>2. g \in Levels /\ e \in Entry(Clients, Infos)
    BY <2>1, RowFacts
  <2>3. IsRow(t, Grouped(p, g, e))
    BY <2>1, <2>2 DEF IsRow
  <2>4. PICK r : r = Grouped(p, g, e) /\ r \in Rows(t)
    BY <2>3, RowFacts
  <2>5. r.group = <<g>> /\ r.filter = p /\ r.client = e.client /\ r.info = e.info
    BY <2>4, RowFields
  <2>6. [client |-> r.client, info |-> r.info] = e
    BY <2>2, <2>5 DEF Entry
  <2> QED BY <2>1, <2>4, <2>5, <2>6
<1>2. ASSUME NEW r \in hits PROVE r.filter \in H /\ r = Grouped(r.filter, g, e)
  <2>1. IsRow(t, r) /\ r.group = <<g>> /\ Matches(r.filter, topic)
        /\ [client |-> r.client, info |-> r.info] = e
    BY RowFacts
  <2>2. ASSUME NEW s, r = Plain(s) PROVE FALSE
    <3>1. r.group = << >>
      BY <2>2, RowFields
    <3>2. r.group = <<g>> /\ <<g>> # << >>
      BY <2>1
    <3> QED BY <3>1, <3>2
  <2>3. PICK p \in t.nodes, h \in Levels : \E d \in ListAt(t, <<p, h>>) : r = Grouped(p, h, d)
    BY <2>1, <2>2 DEF IsRow
  <2>4. PICK d \in ListAt(t, <<p, h>>) : r = Grouped(p, h, d)
    BY <2>3
  <2>5. r.group = <<h>> /\ r.filter = p /\ r.client = d.client /\ r.info = d.info
    BY <2>4, RowFields
  <2>6. h = g
    BY <2>1, <2>5
  <2>7. d \in Entry(Clients, Infos)
    BY RowFacts
  <2>8. d = e
    BY <2>1, <2>5, <2>7 DEF Entry
  <2> QED BY <2>1, <2>4, <2>5, <2>6, <2>8 DEF Holders
<1>3. \A p, q : Grouped(p, g, e) = Grouped(q, g, e) => p = q
  BY RowFields
<1> HIDE DEF H, hits
<1>4. b \in Bijection(H, hits)
  BY <1>1, <1>2, <1>3 DEF Bijection, Injection, Surjection, IsInjective
<1>5. Cardinality(hits) = Cardinality(H)
  BY <1>4, FS_Bijection DEF ExistsBijection, H
<1> QED BY <1>1, <1>2, <1>5 DEF H, hits

LEMMA MatchSimulates ==
  ASSUME RouterInv, NEW topic \in Topics, Match(topic)
  PROVE  Table!Match(topic)
<1> DEFINE m == match_topic(trie, topic)
           E == Entry(Clients, Infos)
           R == Rows(trie)
           hit(group) == {r \in R : r.group = group /\ Matches(r.filter, topic)}
           groups == {r.group[1] : r \in {q \in R : q.group # << >>}}
           heard == {h \in groups : hit(<<h>>) # {}}
           entry(r) == [client |-> r.client, info |-> r.info]
           full(r) == [node |-> r.filter, client |-> r.client, info |-> r.info]
           count(g, e) == Cardinality({r \in hit(<<g>>) : entry(r) = e})
<1>1. topic \in Seq(Levels) /\ GoodTrie(Levels, Clients, Infos, trie)
  BY RouterAssumption DEF RouterInv
<1>2. reply' = [op |-> "matched", topic |-> topic, route |-> m] /\ trie' = trie
  BY DEF Match
<1>3. Matched(E, trie, topic, m)
  BY <1>1, MatchFacts, Zenon
<1> HIDE DEF m, E
<1>4. /\ m.normal \in Seq(SUBSET trie.subs)
      /\ UNION ToSet(m.normal) = {s \in trie.subs : Matches(s.node, topic)}
      /\ \A s : \A i, j \in 1 .. Len(m.normal) : s \in m.normal[i] /\ s \in m.normal[j] => i = j
  BY <1>3 DEF Matched
<1>5. {s \in trie.subs : Matches(s.node, topic)} = {full(r) : r \in hit(<< >>)}
  <2>1. ASSUME NEW s \in trie.subs, Matches(s.node, topic)
        PROVE  Plain(s) \in hit(<< >>) /\ s = full(Plain(s))
    <3>1. IsRow(trie, Plain(s))
      BY DEF IsRow
    <3>2. Plain(s) \in R
      BY <1>1, <3>1, RowFacts
    <3>3. s \in [node : trie.nodes, client : Clients, info : Infos]
      BY <1>1 DEF GoodTrie
    <3>4. s = full(Plain(s))
      BY <3>3, RowFields
    <3> QED BY <2>1, <3>2, <3>4, RowFields
  <2>2. ASSUME NEW r \in hit(<< >>) PROVE full(r) \in trie.subs /\ Matches(full(r).node, topic)
    <3>1. IsRow(trie, r) /\ r.group = << >> /\ Matches(r.filter, topic)
      BY <1>1, RowFacts
    <3>2. ASSUME NEW p, NEW h, NEW e, r = Grouped(p, h, e) PROVE FALSE
      <4>1. r.group = <<h>> /\ <<h>> # << >>
        BY <3>2, RowFields
      <4> QED BY <3>1, <4>1
    <3>3. PICK s \in trie.subs : r = Plain(s)
      BY <3>1, <3>2 DEF IsRow
    <3>4. s \in [node : trie.nodes, client : Clients, info : Infos]
      BY <1>1 DEF GoodTrie
    <3>5. r.client = s.client /\ r.filter = s.node /\ r.info = s.info
      BY <3>3, RowFields
    <3>6. full(r) = s
      BY <3>4, <3>5
    <3> QED BY <3>1, <3>5, <3>6
  <2> HIDE DEF hit, full
  <2> QED BY <2>1, <2>2
<1>6. NormalBag(m.normal) = Table!SetToBag({full(r) : r \in hit(<< >>)})
  <2> DEFINE S == {full(r) : r \in hit(<< >>)}
             where(s) == {i \in DOMAIN m.normal : s \in m.normal[i]}
  <2>1. UNION ToSet(m.normal) = S
    BY <1>4, <1>5
  <2>2. DOMAIN m.normal = 1 .. Len(m.normal) /\ ToSet(m.normal) = {m.normal[i] : i \in 1 .. Len(m.normal)}
    BY <1>4, ToSetIs
  <2> HIDE DEF S
  <2>3. ASSUME NEW s \in S PROVE Cardinality(where(s)) = 1
    <3>1. PICK i \in 1 .. Len(m.normal) : s \in m.normal[i]
      BY <2>1, <2>2
    <3>2. where(s) = {i}
      BY <1>4, <2>2, <3>1
    <3> HIDE DEF where
    <3> QED BY <3>2, FS_Singleton
  <2>4. NormalBag(m.normal) = [s \in S |-> Cardinality(where(s))]
    BY <2>1, Zenon DEF NormalBag
  <2> HIDE DEF where
  <2>5. NormalBag(m.normal) = [s \in S |-> 1]
    BY <2>3, <2>4
  <2> QED BY <2>5, Zenon DEF Table!SetToBag, S
<1>7. ASSUME NEW g \in DOMAIN m.shared
      PROVE  /\ m.shared[g] \in Seq(E)
             /\ \A e : e \in ToSet(m.shared[g]) <=> Holders(trie, topic, g, e) # {}
             /\ \A e : Cardinality(Positions(m.shared[g], e)) = count(g, e)
             /\ \A e : Holders(trie, topic, g, e) # {} <=> \E r \in hit(<<g>>) : entry(r) = e
  <2>1. /\ m.shared[g] \in Seq(E)
        /\ \A e : e \in ToSet(m.shared[g]) <=> Holders(trie, topic, g, e) # {}
    BY <1>3 DEF Matched
  <2>2. ASSUME NEW e
        PROVE  /\ Cardinality(Positions(m.shared[g], e)) = count(g, e)
               /\ Holders(trie, topic, g, e) # {} <=> \E r \in hit(<<g>>) : entry(r) = e
    <3>1. /\ IsFiniteSet(Holders(trie, topic, g, e))
          /\ Cardinality(Positions(m.shared[g], e)) = Cardinality(Holders(trie, topic, g, e))
      BY <1>3 DEF Matched
    <3> DEFINE hits == {r \in R : /\ r.group = <<g>> /\ Matches(r.filter, topic)
                                  /\ [client |-> r.client, info |-> r.info] = e}
    <3>2. /\ Cardinality(hits) = Cardinality(Holders(trie, topic, g, e))
          /\ hits # {} <=> Holders(trie, topic, g, e) # {}
      BY <1>1, <3>1, HitsAreHolders
    <3>3. hits = {r \in hit(<<g>>) : entry(r) = e}
      OBVIOUS
    <3> HIDE DEF hits, hit, entry
    <3> QED BY <3>1, <3>2, <3>3
  <2> QED BY <2>1, <2>2
<1>8. DOMAIN m.shared = heard
  <2>1. DOMAIN m.shared = {k[2] : k \in {h \in DOMAIN trie.shared : Matches(h[1], topic)}}
    BY <1>3 DEF Matched
  <2>2. ASSUME NEW k \in DOMAIN trie.shared, Matches(k[1], topic) PROVE k[2] \in heard
    <3>1. k = <<k[1], k[2]>> /\ k[1] \in trie.nodes /\ k[2] \in Levels
      <4>1. k \in trie.nodes \X Levels
        BY <1>1 DEF GoodTrie
      <4> QED BY <4>1
    <3>2. PICK l : l = trie.shared[k] /\ Members(Clients, Infos, l)
      BY <1>1 DEF GoodTrie
    <3>3. l \in Seq(Entry(Clients, Infos)) /\ l # << >>
      BY <3>2 DEF Members
    <3>4. PICK e : e \in ToSet(l)
      <4>1. 1 \in 1 .. Len(l)
        BY <3>3
      <4>2. ToSet(l) = {l[i] : i \in 1 .. Len(l)}
        BY <3>3, ToSetIs
      <4>3. l[1] \in ToSet(l)
        BY <4>1, <4>2
      <4> QED BY <4>3
    <3>5. PICK p, g : p = k[1] /\ g = k[2]
      OBVIOUS
    <3>6. e \in ListAt(trie, <<p, g>>)
      BY <3>1, <3>2, <3>4, <3>5, Zenon DEF ListAt
    <3>7. IsRow(trie, Grouped(p, g, e))
      BY <3>1, <3>5, <3>6 DEF IsRow
    <3>8. PICK r : r = Grouped(p, g, e) /\ r \in R
      BY <1>1, <3>7, RowFacts
    <3>9. r.group = <<g>> /\ r.filter = p
      BY <3>8, RowFields
    <3>10. r \in hit(<<g>>)
      BY <2>2, <3>5, <3>8, <3>9
    <3>11. g \in groups
      <4>1. r.group # << >> /\ r.group[1] = g
        BY <3>9
      <4> QED BY <3>8, <4>1
    <3> QED BY <3>5, <3>10, <3>11
  <2>3. ASSUME NEW g \in heard
        PROVE  \E k \in DOMAIN trie.shared : k[2] = g /\ Matches(k[1], topic)
    <3>1. PICK r \in R : r.group = <<g>> /\ Matches(r.filter, topic)
      OBVIOUS
    <3>2. IsRow(trie, r)
      BY <1>1, RowFacts
    <3>3. ASSUME NEW s, r = Plain(s) PROVE FALSE
      <4>1. r.group = << >>
        BY <3>3, RowFields
      <4> QED BY <3>1, <4>1
    <3>4. PICK p \in trie.nodes, h \in Levels : \E e \in ListAt(trie, <<p, h>>) : r = Grouped(p, h, e)
      BY <3>2, <3>3 DEF IsRow
    <3>5. PICK e \in ListAt(trie, <<p, h>>) : r = Grouped(p, h, e)
      BY <3>4
    <3>6. r.group = <<h>> /\ r.filter = p
      BY <3>5, RowFields
    <3>7. h = g
      BY <3>1, <3>6
    <3>8. <<p, h>> \in DOMAIN trie.shared
      BY <3>5 DEF ListAt
    <3>9. PICK k \in DOMAIN trie.shared : k = <<p, h>>
      BY <3>8
    <3>10. k[1] = p /\ k[2] = g
      BY <3>7, <3>9
    <3> QED BY <3>1, <3>6, <3>10
  <2> HIDE DEF heard
  <2> QED BY <2>1, <2>2, <2>3
<1>9. ASSUME NEW g \in heard
      PROVE  ToBag(m.shared[g]) = [e \in {entry(r) : r \in hit(<<g>>)} |-> count(g, e)]
  <2>1. PICK l : l = m.shared[g] /\ l \in Seq(E)
    BY <1>7, <1>8
  <2>2. DOMAIN l = 1 .. Len(l) /\ ToSet(l) = {l[i] : i \in 1 .. Len(l)}
    BY <2>1, ToSetIs
  <2>3. Range(l) = ToSet(l)
    BY <2>2 DEF Range
  <2> DEFINE S == {entry(r) : r \in hit(<<g>>)}
  <2>4. ToSet(l) = S
    <3>1. \A e : e \in ToSet(l) <=> \E r \in hit(<<g>>) : entry(r) = e
      BY <1>7, <1>8, <2>1
    <3> HIDE DEF hit, entry
    <3> QED BY <3>1
  <2>5. \A e : {i \in DOMAIN l : l[i] = e} = Positions(l, e)
    BY <2>2 DEF Positions
  <2>6. \A e : Cardinality(Positions(l, e)) = count(g, e)
    BY <1>7, <1>8, <2>1
  <2> HIDE DEF S, count
  <2>7. ToBag(l) = [e \in S |-> Cardinality({i \in DOMAIN l : l[i] = e})]
    BY <2>3, <2>4, Zenon DEF ToBag
  <2>8. ToBag(l) = [e \in S |-> count(g, e)]
    BY <2>5, <2>6, <2>7
  <2> QED BY <2>1, <2>8 DEF S
<1>10. [g \in DOMAIN m.shared |-> ToBag(m.shared[g])]
         = [g \in heard |-> [e \in {entry(r) : r \in hit(<<g>>)} |-> count(g, e)]]
  <2> HIDE DEF heard, hit, entry, count
  <2> QED BY <1>8, <1>9
<1>11. TrieRows = R /\ TrieRows' = TrieRows
  BY <1>2 DEF TrieRows, Rows, Plain, Grouped
<1>12. TableAnswer' =
         [op |-> "matched", topic |-> topic,
          normal |-> Table!SetToBag({full(r) : r \in hit(<< >>)}),
          shared |-> [g \in heard |-> [e \in {entry(r) : r \in hit(<<g>>)} |-> count(g, e)]]]
  <2>1. reply'.op = "matched" /\ reply'.topic = topic /\ reply'.route = m
    BY <1>2
  <2>2. NormalBag(reply'.route.normal) = NormalBag(m.normal)
    BY <2>1
  <2>3. TableAnswer' =
          [op |-> "matched", topic |-> topic,
           normal |-> NormalBag(m.normal),
           shared |-> [g \in DOMAIN m.shared |-> ToBag(m.shared[g])]]
    BY <2>1, Zenon DEF TableAnswer
  <2> HIDE DEF heard, hit, entry, count, full
  <2> QED BY <1>6, <1>10, <2>3, Zenon
<1>13. \A f : Table!Matches(f, topic) = Matches(f, topic)
  BY TableMatches
<1>14. \A S : Table!Cardinality(S) = Cardinality(S)
  BY TableCardinality
<1> HIDE DEF R
<1> QED BY <1>11, <1>12, <1>13, <1>14, Zenon DEF Table!Match

\* The trie implements the flat table: each subscription is kept once for a
\* client, a group and a filter until it is withdrawn, unsubscribe reports
\* exactly whether it removed something, and match_topic returns every
\* subscription that matches, each once.
THEOREM RouterRefinesTable == Spec => ImplementsTable
<1>1. Init => Table!Init
  <2> SUFFICES ASSUME Init PROVE Table!Init
    OBVIOUS
  <2>1. trie.subs = {} /\ DOMAIN trie.shared = {} /\ reply.op # "matched" /\ reply = [op |-> "none"]
    BY DEF Init, EmptyTrie
  <2>2. TrieRows = {} /\ TableAnswer = reply
    BY <2>1 DEF TrieRows, TableAnswer
  <2> QED BY <2>1, <2>2 DEF Table!Init
<1>2. RouterInv /\ [Next]_vars => [Table!Next]_(Table!vars)
  <2> SUFFICES ASSUME RouterInv, [Next]_vars PROVE [Table!Next]_(Table!vars)
    OBVIOUS
  <2>1. CASE UNCHANGED vars
    BY <2>1 DEF vars, Table!vars, TrieRows, TableAnswer
  <2>2. ASSUME NEW c \in Clients, NEW f \in Filters, NEW i \in Infos, Subscribe(c, f, i)
        PROVE  Table!Next
    BY <2>2, SubscribeSimulates, Zenon DEF Table!Next
  <2>3. ASSUME NEW c \in Clients, NEW f \in Filters, Unsubscribe(c, f) PROVE Table!Next
    BY <2>3, UnsubscribeSimulates, Zenon DEF Table!Next
  <2>4. ASSUME NEW t \in Topics, Match(t) PROVE Table!Next
    BY <2>4, MatchSimulates, Zenon DEF Table!Next
  <2> QED BY <2>1, <2>2, <2>3, <2>4 DEF Next
<1> QED BY <1>1, <1>2, RouterInvariance, PTL DEF Spec, ImplementsTable, Table!Spec
=============================================================================
