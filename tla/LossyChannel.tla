---------------------------- MODULE LossyChannel ----------------------------
(***************************************************************************)
(* What the bridge promises for each direction: messages, numbered as they *)
(* are published, arrive in that order and at most once.  Any of them may  *)
(* be missing.                                                             *)
(***************************************************************************)
EXTENDS Naturals, Sequences

VARIABLES
  published,  \* how many messages were published
  received    \* the numbers of those that arrived, in order of arrival

vars == <<published, received>>

Increasing(s) == \A i, j \in DOMAIN s : i < j => s[i] < s[j]

Init == published = 0 /\ received = << >>

Publish == published' = published + 1 /\ UNCHANGED received

Receive ==
  /\ Len(received') >= Len(received) /\ SubSeq(received', 1, Len(received)) = received
  /\ Increasing(received')
  /\ \A i \in DOMAIN received' : received'[i] \in 1 .. published
  /\ UNCHANGED published

Next == Publish \/ Receive

Spec == Init /\ [][Next]_vars
=============================================================================
