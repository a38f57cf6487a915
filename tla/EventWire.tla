------------------------------ MODULE EventWire ------------------------------
(***************************************************************************)
(* The record a kernel hook submits to the ring buffer (struct event_t,    *)
(* bpf/common.h) and the Event the loader makes of it (parseEvent,         *)
(* loader/event_processor.go).                                             *)
(*                                                                         *)
(* A record is a function from the places of the struct that some rule     *)
(* depends on to their contents.  The header fields keep their names;      *)
(* "at40", "at44" and "at56" are places of the union, named by their       *)
(* offset: 40 begins the file name, 44 is padding that the loader reads    *)
(* as the port, and 56 is where the compiler puts net.port.  A hook writes *)
(* some of the places; bpf_ringbuf_reserve does not clear the others, which*)
(* keep whatever an earlier record left there.                             *)
(***************************************************************************)
EXTENDS Integers

CONSTANTS
    Word,      \* the number of values of a 32-bit word (2^32 in the code)
    NoName     \* the empty file name

ASSUME WordAssumption == Word \in Nat /\ Word > 65535

EVENT_EXECVE    == 1
EVENT_OPEN      == 2
EVENT_CONNECT   == 3
EVENT_MMAP_EXEC == 5
EVENT_FORK      == 6
EVENT_PTRACE    == 8

Cells == {"pid", "ppid", "uid", "ret", "type", "at40", "at44", "at56"}

\* The ports the hook tcp_connect flags, and whether an address is external.
KernelBadPorts == {4444, 5555, 6666, 6667, 6668, 6669, 7777, 8443, 10000,
                   31337, 4443}

-----------------------------------------------------------------------------
(* What each hook writes into the record it reserved. *)

ExecveWrites(pid, tid, uid, filename) ==
    [pid |-> pid, ppid |-> tid, uid |-> uid, type |-> EVENT_EXECVE,
     at40 |-> filename]

OpenatWrites(pid, filename) ==
    [pid |-> pid, type |-> EVENT_OPEN, at40 |-> filename]

TcpConnectWrites(pid, port, external, stale) ==
    [pid |-> pid, type |-> EVENT_CONNECT, at56 |-> port,
     ret |-> IF external /\ port \in KernelBadPorts THEN 1 ELSE stale.ret]

UdpSendWrites(pid, large, stale) ==
    [pid |-> pid, type |-> EVENT_CONNECT, at56 |-> 53,
     ret |-> IF large THEN 1 ELSE stale.ret]

CloneWrites(pid, tid) ==
    [pid |-> pid, ppid |-> tid, type |-> EVENT_FORK]

MmapWrites(pid) ==
    [pid |-> pid, type |-> EVENT_MMAP_EXEC]

PtraceWrites(pid, target, stale) ==
    [pid |-> pid, type |-> EVENT_PTRACE,
     ret |-> IF target # stale.ppid THEN target ELSE stale.ret]

\* The submitted record: what the hook wrote over the stale ring memory.
Submit(writes, stale) ==
    [c \in Cells |-> IF c \in DOMAIN writes THEN writes[c] ELSE stale[c]]

-----------------------------------------------------------------------------
(* The loader's reading of a record. *)

\* int(binary.LittleEndian.Uint32(..)): a negative int of the C struct comes
\* out as a large positive Go int.
U32(x) == x % Word

EventData(raw) ==
    CASE raw.type \in {EVENT_EXECVE, EVENT_OPEN} -> [filename |-> raw.at40]
      [] raw.type = EVENT_CONNECT -> [port |-> raw.at44]
      [] raw.type = EVENT_PTRACE -> [target_pid |-> U32(raw.ret)]
      [] OTHER -> << >>

\* The nil for a record that is too short is left out: a hook reserves all of
\* sizeof(struct event_t).
ParseEvent(raw) ==
    [pid  |-> raw.pid,
     uid  |-> raw.uid,
     ret  |-> U32(raw.ret),
     type |-> raw.type,
     data |-> EventData(raw)]

\* evt.Data[k].(int) and .(string) yield the zero value when the key is absent.
DataInt(evt, k) == IF k \in DOMAIN evt.data THEN evt.data[k] ELSE 0
DataString(evt, k) == IF k \in DOMAIN evt.data THEN evt.data[k] ELSE NoName
=============================================================================
