----------------------------- MODULE RouterTests ----------------------------
(***************************************************************************)
(* The unit tests of router.rs and config.rs as assumptions, which TLC     *)
(* evaluates before every run of the broker: the operators the broker is   *)
(* built from do what the repository's tests ask of the code.              *)
(***************************************************************************)
EXTENDS Router

Names(set) == {s.client : s \in set}
Normal(trie0, t) == UNION {Names(x) : x \in ToSet(match_topic(trie0, t).normal)}

\* router.rs, mod tests.
ASSUME ExactMatches ==
  LET r == subscribe(subscribe(EmptyTrie, "c1", <<"sensor", "temp">>, 1),
                     "c2", <<"sensor", "humi">>, 0)
  IN  Normal(r, <<"sensor", "temp">>) = {"c1"} /\ Normal(r, <<"sensor", "humi">>) = {"c2"}

ASSUME PlusWildcard ==
  LET r == subscribe(EmptyTrie, "c1", <<"sensor", "+", "cpu">>, 1)
  IN  /\ Normal(r, <<"sensor", "opi", "cpu">>) = {"c1"}
      /\ Normal(r, <<"sensor", "opi", "gpu", "cpu">>) = {}

ASSUME HashWildcard ==
  LET r == subscribe(EmptyTrie, "c1", <<"sensor", "#">>, 2)
  IN  \A t \in { <<"sensor">>, <<"sensor", "temp">>, <<"sensor", "humi", "status", "err">> } :
        Normal(r, t) = {"c1"}

ASSUME SharedSubscriptions ==
  LET share == <<"$share", "workers", "job", "+">>
      r == subscribe(subscribe(subscribe(EmptyTrie, "c1", share, 1), "c2", share, 1),
                     "c3", <<"job", "+">>, 0)
      m == match_topic(r, <<"job", "compile">>)
  IN  /\ Normal(r, <<"job", "compile">>) = {"c3"}
      /\ Names(ToSet(m.shared["workers"])) = {"c1", "c2"}

ASSUME UnsubscribeTest ==
  LET r == subscribe(EmptyTrie, "c1", <<"sensor", "temp">>, 1)
      u == unsubscribe(r, "c1", <<"sensor", "temp">>)
  IN  u.removed /\ u.trie = EmptyTrie /\ ~ unsubscribe(u.trie, "c1", <<"sensor", "temp">>).removed

\* "$share/g" has two parts only and is an ordinary filter.
ASSUME ShareWithoutFilter ==
  Normal(subscribe(EmptyTrie, "c1", <<"$share", "g">>, 0), <<"$share", "g">>) = {"c1"}

\* config.rs, test_topic_matches_acl_filter.
ASSUME AclFilter ==
  /\ topic_matches_acl_filter(<<"a", "b", "c">>, <<"a", "b", "c">>)
  /\ ~ topic_matches_acl_filter(<<"a", "b", "c">>, <<"a", "b", "d">>)
  /\ topic_matches_acl_filter(<<"s", "t">>, <<"s", "+">>)
  /\ topic_matches_acl_filter(<<"s", "t", "cpu">>, <<"s", "+", "cpu">>)
  /\ ~ topic_matches_acl_filter(<<"s", "t", "cpu">>, <<"s", "+">>)
  /\ topic_matches_acl_filter(<<"s", "t", "cpu">>, <<"s", "#">>)
  /\ topic_matches_acl_filter(<<"s">>, <<"s", "#">>)
  /\ topic_matches_acl_filter(<<"a", "b", "c", "d", "e">>, <<"#">>)
=============================================================================
