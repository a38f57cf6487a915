---------------------------- MODULE MCKernelHooks ----------------------------
(***************************************************************************)
(* Three CPUs and three processes on a map of two elements and a ring that *)
(* is full when every CPU has a record in it: five records are enough for  *)
(* a misdirected addition, which takes an address that three threads of a  *)
(* process have made stale and two of another process have reused.         *)
(***************************************************************************)
EXTENDS KernelHooks

\* Bound: processes are alike, so they submit their first records in order.
MCInOrder ==
    \A p \in Pids : p > 1 /\ recorded[p] > 0 => recorded[p - 1] > 0
=============================================================================
