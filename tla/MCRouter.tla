------------------------------ MODULE MCRouter ------------------------------
(* RouterSystem on a small instance.                                       *)
EXTENDS RouterSystem

MCFilters ==
  { <<"a", "#">>, <<"a", "#", "b">>,
    <<"$share", "g", "a", "b">>, <<"$share", "g", "+", "b">> }

MCTopics == { <<"a">>, <<"a", "b">>, <<"+", "b">>, <<"b", "b", "a">> }
=============================================================================
