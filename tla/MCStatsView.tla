---------------------------- MODULE MCStatsView ----------------------------
(***************************************************************************)
(* A process that executes as root and connects and another that attaches  *)
(* to a third, seen while learning and after a POST that ends it.          *)
(***************************************************************************)
EXTENDS StatsView

Cleared == [c \in Cells |-> 0]
MCSamples ==
    {Submit(ExecveWrites(1, 1, 0, NoName), Cleared),
     Submit(TcpConnectWrites(1, 6668, TRUE, Cleared), Cleared),
     Submit(PtraceWrites(2, 7, Cleared), Cleared)}
MCFilenames == {}
MCConfigFiles == {[learning |-> TRUE]}
MCBodies == {[LoadConfig(<< >>) EXCEPT !.learning = FALSE]}
=============================================================================
