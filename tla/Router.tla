------------------------------- MODULE Router -------------------------------
(***************************************************************************)
(* router.rs: the subscription trie, as operators on a value               *)
(*                                                                         *)
(*   nodes   the paths from the root at which a TrieNode exists.  A level  *)
(*           "+" of a path is a plus_child, "#" a hash_child, any other    *)
(*           level an entry of children;                                   *)
(*   subs    the entries of all the subscriptions maps, one for each node  *)
(*           and client;                                                   *)
(*   shared  the shared_subscriptions maps: for a node and a group the     *)
(*           list of its members, in order.                                *)
(*                                                                         *)
(* info stands for a subscription's qos and subscription_identifier.  All  *)
(* the operations run under the router's one RwLock, so each is atomic.    *)
(***************************************************************************)
EXTENDS Topics, SequencesExt, Maps

\* TopicRouter::new
EmptyTrie == [nodes |-> { << >> }, subs |-> {}, shared |-> << >>]

\* The node itself has an entry in one of its two maps.
Occupied(trie, node) ==
  \/ \E s \in trie.subs : s.node = node
  \/ \E k \in DOMAIN trie.shared : k[1] = node

\* The segments the loop of subscribe walks: it breaks at the first '#'.
Walked(filter) ==
  IF "#" \in ToSet(filter)
  THEN SubSeq(filter, 1, SelectInSeq(filter, LAMBDA level : level = "#"))
  ELSE filter

\* Vec::retain: the elements of the list that are in the set, in order.
\* kept[i] is what the first i of them leave.
Kept(list, set) ==
  LET kept[i \in 0 .. Len(list)] ==
        IF i = 0 THEN << >>
        ELSE IF list[i] \in set THEN Append(kept[i - 1], list[i]) ELSE kept[i - 1]
  IN  kept[Len(list)]

\* Faulty version: the member's earlier entry is kept.
Others_KeepsAll(list, client) == list

\* list.retain(|s| s.client_id != client_id)
Others(list, client) == Kept(list, {s \in ToSet(list) : s.client # client})

\* TopicRouter::subscribe creates the missing nodes of the path; a client
\* has one entry at a node, and one in a group, which moves to its end.
subscribe(trie, client, topic_filter, info) ==
  LET parsed  == parse_shared_subscription(topic_filter)
      node    == Walked(parsed.filter)
      created == trie.nodes \cup Prefixes(node)
      entry   == [client |-> client, info |-> info]
  IN  IF parsed.group = << >>
      THEN [trie EXCEPT
              !.nodes = created,
              !.subs  = {s \in @ : ~ (s.node = node /\ s.client = client)}
                          \cup {[node |-> node, client |-> client, info |-> info]}]
      ELSE LET key  == <<node, parsed.group[1]>>
               list == IF key \in DOMAIN trie.shared THEN trie.shared[key] ELSE << >>
           IN  [trie EXCEPT
                  !.nodes  = created,
                  !.shared = Insert(@, key, Append(Others(list, client), entry))]

\* The leaf of unsubscribe_recursive: the entry goes, and a group whose
\* list has become empty goes with it.
RemoveEntry(trie, client, node, group) ==
  IF group = << >>
  THEN [trie EXCEPT !.subs = {s \in @ : ~ (s.node = node /\ s.client = client)}]
  ELSE LET key == <<node, group[1]>> IN
       IF key \notin DOMAIN trie.shared THEN trie
       ELSE LET left == Others(trie.shared[key], client) IN
            [trie EXCEPT !.shared =
               IF left = << >>
               THEN Without(@, {key})
               ELSE [@ EXCEPT ![key] = left]]

\* Faulty version: nothing is pruned.
Prune_Never(trie, path) == trie

\* On the way back every node of the path that is_empty (no child, no entry)
\* is dropped from its parent: so are the nodes of the path below which
\* nothing is left but other such nodes.
Prune(trie, path) ==
  LET dead(p) == \A q \in trie.nodes :
                   IsPrefix(p, q) => IsPrefix(q, path) /\ ~ Occupied(trie, q)
  IN  [trie EXCEPT !.nodes =
         {p \in @ : p = << >> \/ ~ IsPrefix(p, path) \/ ~ dead(p)}]

\* TopicRouter::unsubscribe.  Unlike subscribe it walks every segment, also
\* the ones after a '#', so it finds nothing where subscribe stopped early.
unsubscribe(trie, client, topic_filter) ==
  LET parsed == parse_shared_subscription(topic_filter)
      path   == parsed.filter
      left   == RemoveEntry(trie, client, path, parsed.group)
  IN  [trie |-> Prune(left, path), removed |-> left # trie]

\* Faulty version: a '#' child is looked at only while levels are left.
Visited_NoParent(trie, topic) ==
  LET child(p, level) == Append(p, level)
      visit[p \in {q \in trie.nodes : Len(q) <= Len(topic)}] ==
        LET seg == topic[Len(p) + 1]
            down(level) ==
              IF child(p, level) \in trie.nodes THEN visit[child(p, level)] ELSE << >>
        IN  IF Len(p) = Len(topic) THEN <<p>>
            ELSE (IF child(p, "#") \in trie.nodes THEN <<child(p, "#")>> ELSE << >>)
                   \o (IF seg \in {"+", "#"} THEN << >> ELSE down(seg)) \o down("+")
  IN  visit[<< >>]

\* match_recursive: the nodes whose entries are collected, in the order in
\* which the search meets them: the '#' child first; at the end of the topic
\* the node itself; else below the exact child and then below the '+' child.
\* A level "+" or "#" of a topic is never a key of children.
Visited(trie, topic) ==
  LET child(p, level) == Append(p, level)
      visit[p \in {q \in trie.nodes : Len(q) <= Len(topic)}] ==
        LET seg  == topic[Len(p) + 1]
            hash == IF child(p, "#") \in trie.nodes THEN <<child(p, "#")>> ELSE << >>
            down(level) ==
              IF child(p, level) \in trie.nodes THEN visit[child(p, level)] ELSE << >>
        IN  hash \o
            IF Len(p) = Len(topic) THEN <<p>>
            ELSE (IF seg \in {"+", "#"} THEN << >> ELSE down(seg)) \o down("+")
  IN  visit[<< >>]

\* collect_node_subscriptions and match_topic.  normal lists for each node
\* visited that has some its entries (a HashMap: in no particular order);
\* shared concatenates, group by group, the lists of the nodes visited.
match_topic(trie, topic) ==
  LET visited    == Visited(trie, topic)
      groups     == {k[2] : k \in {h \in DOMAIN trie.shared : h[1] \in ToSet(visited)}}
      list(p, g) == IF <<p, g>> \in DOMAIN trie.shared THEN trie.shared[<<p, g>>] ELSE << >>
      entries    == [i \in DOMAIN visited |-> {s \in trie.subs : s.node = visited[i]}]
  IN  [normal |-> Kept(entries, ToSet(entries) \ {{}}),
       shared |-> [g \in groups |->
                     FlattenSeq([i \in DOMAIN visited |-> list(visited[i], g)])]]
=============================================================================
