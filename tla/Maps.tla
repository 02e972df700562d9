-------------------------------- MODULE Maps --------------------------------
(* The std HashMap, and a table with a primary key: a function whose       *)
(* domain is the set of keys present.                                      *)

\* HashMap::insert, INSERT OR REPLACE: an old value of the key is replaced.
Insert(map, key, value) ==
  [k \in DOMAIN map \cup {key} |-> IF k = key THEN value ELSE map[k]]

\* HashMap::remove, DELETE ... WHERE: keys that are absent do not matter.
Without(map, keys) == [k \in DOMAIN map \ keys |-> map[k]]
=============================================================================
