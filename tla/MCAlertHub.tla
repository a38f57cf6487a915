------------------------------ MODULE MCAlertHub ------------------------------
(***************************************************************************)
(* The hub with two streams, one request of each kind, and a store that is *)
(* trimmed from two alerts to one.                                         *)
(***************************************************************************)
EXTENDS AlertHub

MCPercent == {2}
=============================================================================
