---------------------------- MODULE RouterSystem ----------------------------
(***************************************************************************)
(* A TopicRouter in use: subscribe, unsubscribe and match_topic in any     *)
(* order, on behalf of any client.  The router's RwLock makes each call    *)
(* one step.  The module checks the trie against the table of              *)
(* SubscriptionTable and against the access-control matcher of config.rs.  *)
(***************************************************************************)
EXTENDS Router, FiniteSets

CONSTANTS Clients,      \* client identifiers
          Filters,      \* topic filters clients may ask for
          Topics,       \* topic names messages may be published on
          Infos         \* qos and subscription identifier of a subscription

\* Filters and topics are sequences of levels.
Levels == {"+", "#"} \cup UNION {ToSet(s) : s \in Filters \cup Topics}

ASSUME RouterAssumption == Filters \subseteq Seq(Levels) /\ Topics \subseteq Seq(Levels)

VARIABLES trie,         \* the trie under the root lock
          reply         \* the last call and what it returned to its caller

vars == <<trie, reply>>

Init == trie = EmptyTrie /\ reply = [op |-> "none"]

Subscribe(client, topic_filter, info) ==
  /\ trie' = subscribe(trie, client, topic_filter, info)
  /\ reply' = [op |-> "subscribed"]

Unsubscribe(client, topic_filter) ==
  LET result == unsubscribe(trie, client, topic_filter) IN
  /\ trie' = result.trie
  /\ reply' = [op |-> "unsubscribed", client |-> client, filter |-> topic_filter,
               removed |-> result.removed]

Match(topic) ==
  /\ reply' = [op |-> "matched", topic |-> topic, route |-> match_topic(trie, topic)]
  /\ UNCHANGED trie

Next ==
  \/ \E c \in Clients, f \in Filters, i \in Infos : Subscribe(c, f, i)
  \/ \E c \in Clients, f \in Filters : Unsubscribe(c, f)
  \/ \E t \in Topics : Match(t)

Spec == Init /\ [][Next]_vars

-----------------------------------------------------------------------------
(* The table the trie stands for.                                          *)

TrieRows ==
  {[client |-> s.client, group |-> << >>, filter |-> s.node, info |-> s.info]
     : s \in trie.subs}
  \cup
  UNION {{[client |-> e.client, group |-> <<k[2]>>, filter |-> k[1], info |-> e.info]
            : e \in ToSet(trie.shared[k])} : k \in DOMAIN trie.shared}

\* How often each entry was pushed to route.normal and to a group's list.
NormalBag(normal) ==
  [s \in UNION ToSet(normal) |-> Cardinality({i \in DOMAIN normal : s \in normal[i]})]

TableAnswer ==
  IF reply.op = "matched"
  THEN [op |-> "matched", topic |-> reply.topic,
        normal |-> NormalBag(reply.route.normal),
        shared |-> [g \in DOMAIN reply.route.shared |-> ToBag(reply.route.shared[g])]]
  ELSE reply

Table == INSTANCE SubscriptionTable WITH table <- TrieRows, answer <- TableAnswer

\* The trie implements the flat table: a subscription is kept once per
\* client, group and filter until it is withdrawn, unsubscribe reports
\* exactly whether it removed something, and match_topic delivers each
\* matching subscription exactly once (TopicRouter::subscribe, unsubscribe,
\* match_topic).
ImplementsTable == Table!Spec

\* No memory is held for filters nobody subscribes to any more: below every
\* node but the root some entry is left, and no group has an empty list
\* (the pruning of unsubscribe_recursive).
NoDeadBranches ==
  /\ \A p \in trie.nodes \ { << >> } :
       \E q \in trie.nodes : IsPrefix(p, q) /\ Occupied(trie, q)
  /\ \A k \in DOMAIN trie.shared : trie.shared[k] # << >>

\* The program has two independent matchers.  For every subscription held
\* they agree: match_topic visits its node exactly when
\* topic_matches_acl_filter says that the topic matches the filter.
RouterAgreesWithAcl ==
  \A t \in Topics, r \in TrieRows :
    (r.filter \in ToSet(Visited(trie, t))) <=> topic_matches_acl_filter(t, r.filter)

\* A member of a shared group is in its list once, whatever the order of
\* subscriptions and withdrawals (the retain before the push), and every
\* entry sits at a node reachable from the root.
TypeOK ==
  /\ << >> \in trie.nodes
  /\ \A p \in trie.nodes : Prefixes(p) \subseteq trie.nodes
  /\ \A s \in trie.subs : s.node \in trie.nodes /\ s.client \in Clients /\ s.info \in Infos
  /\ \A k \in DOMAIN trie.shared :
       /\ k[1] \in trie.nodes
       /\ \A i, j \in DOMAIN trie.shared[k] :
            trie.shared[k][i].client = trie.shared[k][j].client => i = j
=============================================================================
