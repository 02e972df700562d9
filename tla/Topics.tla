------------------------------- MODULE Topics -------------------------------
(***************************************************************************)
(* Topic names and topic filters.  The broker only ever looks at a topic   *)
(* or a filter through split('/'), so both are sequences of levels here:   *)
(* "sensor/+/cpu" is <<"sensor", "+", "cpu">> and the empty string is      *)
(* << "" >>.  An Option<&str> is a sequence of at most one element.        *)
(***************************************************************************)
EXTENDS Naturals, Sequences

\* router.rs, parse_shared_subscription: "$share/group/filter" is split in
\* three; "$share/group" has only two parts and stays an ordinary filter.
parse_shared_subscription(topic_filter) ==
  IF Len(topic_filter) >= 3 /\ topic_filter[1] = "$share"
  THEN [group  |-> <<topic_filter[2]>>,
        filter |-> SubSeq(topic_filter, 3, Len(topic_filter))]
  ELSE [group  |-> << >>, filter |-> topic_filter]

\* Faulty version: '#' does not match the parent level.
topic_matches_acl_filter_NoParent(topic, filter) ==
  LET walk[i \in 1 .. Len(filter) + 1] ==
        IF i > Len(filter)
        THEN i = Len(topic) + 1
        ELSE /\ i <= Len(topic)
             /\ \/ filter[i] = "#"
                \/ filter[i] \in {"+", topic[i]} /\ walk[i + 1]
  IN  walk[1]

\* config.rs, topic_matches_acl_filter: the while loop over the levels of
\* the filter, walk[i] being what it returns from its i-th round on.
topic_matches_acl_filter(topic, filter) ==
  LET walk[i \in 1 .. Len(filter) + 1] ==
        IF i > Len(filter)
        THEN i = Len(topic) + 1
        ELSE \/ filter[i] = "#"
             \/ /\ i <= Len(topic)
                /\ filter[i] = "+" \/ filter[i] = topic[i]
                /\ walk[i + 1]
  IN  walk[1]

-----------------------------------------------------------------------------
(* The reference the two matchers of the program are compared with.        *)

\* MQTT: '#' is allowed only as the last level of a filter.
WellFormed(filter) == \A i \in 1 .. Len(filter) - 1 : filter[i] # "#"

\* The first k levels of a filter match those of a topic one by one.
LevelsMatch(filter, topic, k) ==
  \A i \in 1 .. k : filter[i] = "+" \/ filter[i] = topic[i]

\* A filter without a final '#' matches topics of its own length, one with
\* it every topic that has the levels before the '#' (the parent included).
Matches(filter, topic) ==
  LET n == Len(filter) IN
  IF n > 0 /\ filter[n] = "#"
  THEN n - 1 <= Len(topic) /\ LevelsMatch(filter, topic, n - 1)
  ELSE n = Len(topic) /\ LevelsMatch(filter, topic, n)
=============================================================================
