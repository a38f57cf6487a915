----------------------------- MODULE RecordQueue -----------------------------
(***************************************************************************)
(* What the loader takes the ring buffer for (Loader!Syscall and           *)
(* Loader!ReadEvent): a bounded queue to which a system call adds its      *)
(* record in one step, and whose first record can always be taken.         *)
(***************************************************************************)
EXTENDS Integers, Sequences

CONSTANTS Pids, RingCap

VARIABLES
    queue,         \* the processes whose records wait, in order
    taken          \* records taken so far

Init == queue = << >> /\ taken = 0

Put(pid) ==
    /\ Len(queue) < RingCap
    /\ queue' = Append(queue, pid)
    /\ UNCHANGED taken

Take ==
    /\ queue # << >>
    /\ queue' = Tail(queue)
    /\ taken' = taken + 1

Next == Take \/ \E pid \in Pids : Put(pid)

SafeSpec == Init /\ [][Next]_<<queue, taken>>

Spec == SafeSpec /\ WF_<<queue, taken>>(Take)
=============================================================================
