---------------------------- MODULE PacketStream ----------------------------
(***************************************************************************)
(* What a connection promises for the packets its client sends: they are   *)
(* handled in the order of sending, each one at most once and as it was    *)
(* sent, however the network cuts the bytes into pieces, until the         *)
(* connection ends.  Nothing is promised about an item that is not a       *)
(* packet; it is handled as something, or ends the connection.             *)
(***************************************************************************)
EXTENDS Sequences, Naturals

VARIABLES
  script,   \* what the client sends; an item means one packet, or nothing
  log,      \* the packets that were handled
  open

vars == <<script, log, open>>

Init == log = << >> /\ open = TRUE

Handle ==
  /\ open /\ Len(log) < Len(script)
  /\ Len(log') = Len(log) + 1
  /\ SubSeq(log', 1, Len(log)) = log
  /\ LET means == script[Len(log')].means
     IN  means # << >> => log'[Len(log')] = means[1]
  /\ open' \in BOOLEAN
  /\ UNCHANGED script

Close == open /\ open' = FALSE /\ UNCHANGED <<script, log>>

Next == Handle \/ Close

Spec == Init /\ [][Next]_vars
=============================================================================
