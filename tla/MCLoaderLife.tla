----------------------------- MODULE MCLoaderLife -----------------------------
(***************************************************************************)
(* Two lives of a loader that may attach a program of each kind: one that  *)
(* submits connections, which get a kill verdict, and one that submits     *)
(* nothing.                                                                *)
(***************************************************************************)
EXTENDS LoaderLife

Cleared == [c \in Cells |-> 0]
Dirty == [Cleared EXCEPT !["at44"] = 4444]
MCSamples == {Submit(TcpConnectWrites(pid, 443, TRUE, Dirty), Dirty) : pid \in Pids}
MCFilenames == {}
Armed == [learning |-> FALSE, autoKill |-> TRUE]
MCConfigFiles == {Armed}
MCBodies == {[LoadConfig(Armed) EXCEPT !.learning = TRUE]}
=============================================================================
