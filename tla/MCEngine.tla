------------------------------ MODULE MCEngine ------------------------------
(***************************************************************************)
(* The engine on small sets of records, POST bodies and config files.      *)
(***************************************************************************)
EXTENDS Engine

CONSTANTS ssh, miner   \* an executable of the allow list, and another one

MCFilenames == {ssh, miner}

\* Ring memory: cleared, and with leftovers where a connection has its result
\* and its padding.
Cleared == [c \in Cells |-> 0]
Dirty(ret, pad) == [Cleared EXCEPT !["ret"] = ret, !["at44"] = pad]

Execs(pid) ==
    {Submit(ExecveWrites(pid, pid, 0, ssh), Cleared),
     Submit(ExecveWrites(pid, pid, 1000, miner), Cleared)}
Opens(pid) == {Submit(OpenatWrites(pid, miner), Cleared)}
Connects(pid) ==
    {Submit(TcpConnectWrites(pid, port, TRUE, Cleared), Cleared) :
        port \in {443, 6668}}
StaleConnects(pid) ==
    {Submit(TcpConnectWrites(pid, 443, TRUE, m), m) : m \in {Dirty(1, 4444)}}
Others(pid) ==
    {Submit(MmapWrites(pid), Cleared),
     Submit(PtraceWrites(pid, 7, Cleared), Cleared)}

\* The run on the rules leaves out openat, which no rule can match, and the
\* run on POSTs connections other than over dirty ring memory.
MCSamples ==
    UNION {Execs(pid) \cup Connects(pid) \cup Others(pid) : pid \in Pids}
MCPostSamples ==
    UNION {Execs(pid) \cup Opens(pid) \cup StaleConnects(pid) \cup Others(pid) :
              pid \in Pids}

\* A connection to port 4444 in a record whose padding is zero.
MCBadPortSamples ==
    {Submit(TcpConnectWrites(pid, 4444, TRUE, Cleared), Cleared) : pid \in Pids}

\* The shipped file, and one that learns for one second.
Shipped == [learning |-> FALSE, threshold |-> 100, maxConns |-> 50,
            windowSec |-> 3600, allowed |-> {ssh}]
Calibrating == [learning |-> TRUE, windowSec |-> 1, allowed |-> {ssh}]
MCShipped == {Shipped}
MCConfigFiles == {Shipped, Calibrating}

\* POSTs that name one field only, to learn and to enforce.
MCBodies == {[learning |-> TRUE], [threshold |-> 50]}
=============================================================================
