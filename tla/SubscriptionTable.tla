------------------------- MODULE SubscriptionTable --------------------------
(***************************************************************************)
(* What the router promises, with no trie: a table with at most one row    *)
(* for a client, a group and a filter.  A topic is matched by looking at   *)
(* every row, each of which contributes exactly once.                      *)
(***************************************************************************)
EXTENDS Topics, FiniteSets, Bags

CONSTANTS Clients,      \* client identifiers
          Filters,      \* topic filters clients may ask for
          Topics,       \* topic names messages may be published on
          Infos         \* qos and subscription identifier of a subscription

VARIABLES table,        \* a set of [client, group, filter, info]
          answer        \* the last operation and its result

vars == <<table, answer>>

\* The filter a request stands for: whatever follows a '#' is ignored.
Effective(filter) ==
  CHOOSE p \in {SubSeq(filter, 1, n) : n \in 0 .. Len(filter)} :
    /\ WellFormed(p)
    /\ p = filter \/ (p # << >> /\ p[Len(p)] = "#")

Row(client, topic_filter, info) ==
  LET parsed == parse_shared_subscription(topic_filter) IN
  [client |-> client, group |-> parsed.group,
   filter |-> Effective(parsed.filter), info |-> info]

SameKey(r, s) == r.client = s.client /\ r.group = s.group /\ r.filter = s.filter

Init == table = {} /\ answer = [op |-> "none"]

Subscribe(client, topic_filter, info) ==
  LET row == Row(client, topic_filter, info) IN
  /\ table' = {r \in table : ~ SameKey(r, row)} \cup {row}
  /\ answer' = [op |-> "subscribed"]

\* Only a well-formed filter can be withdrawn.
Unsubscribe(client, topic_filter) ==
  LET parsed == parse_shared_subscription(topic_filter)
      gone   == {r \in table : /\ r.client = client
                               /\ r.group = parsed.group
                               /\ r.filter = parsed.filter}
  IN  /\ table' = table \ gone
      /\ answer' = [op |-> "unsubscribed", client |-> client, filter |-> topic_filter,
                    removed |-> gone # {}]

\* The rows that match, without a group and group by group.
Match(topic) ==
  LET hit(group) == {r \in table : r.group = group /\ Matches(r.filter, topic)}
      groups     == {r.group[1] : r \in {q \in table : q.group # << >>}}
  IN  /\ answer' =
           [op |-> "matched", topic |-> topic,
            normal |-> SetToBag({[node |-> r.filter, client |-> r.client, info |-> r.info]
                                   : r \in hit(<< >>)}),
            shared |->
              [g \in {h \in groups : hit(<<h>>) # {}} |->
                 LET entry(r)  == [client |-> r.client, info |-> r.info]
                     entries   == {entry(r) : r \in hit(<<g>>)}
                 IN  [e \in entries |-> Cardinality({r \in hit(<<g>>) : entry(r) = e})]]]
      /\ UNCHANGED table

Next ==
  \/ \E c \in Clients, f \in Filters, i \in Infos : Subscribe(c, f, i)
  \/ \E c \in Clients, f \in Filters : Unsubscribe(c, f)
  \/ \E t \in Topics : Match(t)

Spec == Init /\ [][Next]_vars
=============================================================================
