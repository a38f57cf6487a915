----------------------------- MODULE MCAlertApi -----------------------------
(***************************************************************************)
(* The alert server as a store that is trimmed from more than three alerts *)
(* to two, and two streams with queues of two.                             *)
(***************************************************************************)
EXTENDS AlertApi

MCScores == {60}
MCUpdates == {[learning_mode |-> FALSE, suspicion_threshold |-> 50]}

\* Bound: streams and processes are alike, so the first comes first.
MCInOrder ==
    /\ stream[2] # "off" => stream[1] # "off"
    /\ processes # << >> => 1 \in DOMAIN processes
=============================================================================
