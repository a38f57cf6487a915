------------------------------ MODULE MCLoader ------------------------------
(***************************************************************************)
(* The loader on one pid that is used twice, with a POST that disarms it   *)
(* or, besides, sends it back to learning.                                 *)
(***************************************************************************)
EXTENDS Loader

\* A connection whose padding reads 4444 (a kill verdict) and a ptrace (an
\* alert, until the score reaches the threshold).
Cleared == [c \in Cells |-> 0]
Dirty == [Cleared EXCEPT !["at44"] = 4444]
MCSamples ==
    UNION {{Submit(TcpConnectWrites(pid, 443, TRUE, Dirty), Dirty),
            Submit(PtraceWrites(pid, 7, Cleared), Cleared)} : pid \in Pids}

MCFilenames == {}
Armed == [learning |-> FALSE, autoKill |-> TRUE]
Disarmed == [LoadConfig(Armed) EXCEPT !.autoKill = FALSE]
MCConfigFiles == {Armed}
MCBodies == {Disarmed, [Disarmed EXCEPT !.learning = TRUE]}
=============================================================================
