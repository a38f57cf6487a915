----------------------------- MODULE KernelHooks -----------------------------
(***************************************************************************)
(* The BPF programs (bpf/beacon_guard.bpf.c) running at the same time on   *)
(* several CPUs: each reserves a record in the ring buffer, raises the     *)
(* kernel's suspicion score of its process where it has a reason to, and   *)
(* submits the record.  A CPU runs one of them at a time, to its end; the  *)
(* threads of one process, which share a pid, may be on different CPUs.    *)
(* What the records contain is EventWire's.                                *)
(*                                                                         *)
(* suspicion_map is a preallocated hash map of the kernel.  A lookup       *)
(* answers the address of an element, which the hook goes on to read and   *)
(* to write without a lock.  An update of a key that is there puts the     *)
(* CPU's spare element in place of the old one, which becomes the spare:   *)
(* the address another CPU holds may by then be that of another process.   *)
(***************************************************************************)
EXTENDS Integers, Sequences, FiniteSets, FiniteSetsExt, SequencesExt

CONSTANTS
    Cpus,
    Pids,
    Watched,       \* the hooks that are attached
    RingCap,       \* records the ring buffer holds (2^24 bytes / 368)
    MapCap,        \* elements of suspicion_map (65536)
    MaxRecords     \* bound: records reserved in a behaviour

\* What each hook may add to the score.  kprobe_ptrace compares the target
\* with a field of the record it has not written, so it may do either.
Raises ==
    [execve |-> {0}, openat |-> {0, 10}, tcp_connect |-> {0, 60},
     udp_send |-> {0, 30}, clone |-> {0}, mmap_exec |-> {20}, ptrace |-> {0, 50}]

ASSUME HooksAssumption ==
    /\ IsFiniteSet(Cpus)
    /\ Watched \subseteq DOMAIN Raises
    /\ {RingCap, MapCap, MaxRecords} \subseteq Nat /\ RingCap > 0

VARIABLES
    hook,          \* what each CPU is at
    ring,          \* records reserved and not read: their numbers, submitted or not
    reserved,      \* records reserved so far
    read,          \* records the loader has read
    element,       \* suspicion_map: the element of each pid in it
    value,         \* the memory of the elements
    free,          \* elements no pid has had yet
    spare,         \* the spare element of each CPU
    recorded,      \* for each pid, the raises its records stand for
    overlapped     \* pids of which two hooks ran at a time

ringVars == <<ring, reserved, read>>
mapVars == <<element, value, free, spare>>
ghostVars == <<recorded, overlapped>>
vars == <<hook, ringVars, mapVars, ghostVars>>

NoHook == [at |-> "idle", pid |-> 0, raise |-> 0, record |-> 0, elem |-> 0, score |-> 0]

Elements == 1..(MapCap + Cardinality(Cpus))

Init ==
    /\ hook = [c \in Cpus |-> NoHook]
    /\ ring = << >>
    /\ reserved = 0
    /\ read = 0
    /\ element = << >>
    /\ value = [e \in Elements |-> 0]
    /\ spare = CHOOSE s \in [Cpus -> (MapCap + 1)..(MapCap + Cardinality(Cpus))] :
                  IsInjective(s)
    /\ free = 1..MapCap
    /\ recorded = [p \in Pids |-> 0]
    /\ overlapped = {}

At(c, at) == hook[c].at = at
Running(p) == {c \in Cpus : hook[c].at # "idle" /\ hook[c].pid = p}

-----------------------------------------------------------------------------
\* A hook begins: bpf_ringbuf_reserve.  When it fails the hook returns at
\* once, and the system call leaves no trace.
Reserve(c, p, r) ==
    /\ At(c, "idle")
    /\ reserved < MaxRecords
    /\ Len(ring) < RingCap
    /\ reserved' = reserved + 1
    /\ ring' = Append(ring, [n |-> reserved', pid |-> p, ready |-> FALSE])
    /\ hook' = [hook EXCEPT ![c] = [NoHook EXCEPT
                   !.at = IF r = 0 THEN "submit" ELSE "lookup",
                   !.pid = p, !.raise = r, !.record = reserved']]
    /\ recorded' = [recorded EXCEPT ![p] = @ + r]
    /\ overlapped' = IF Running(p) = {} THEN overlapped ELSE overlapped \cup {p}
    /\ UNCHANGED <<read, mapVars>>

\* score = bpf_map_lookup_elem(&suspicion_map, &pid)
Lookup(c) ==
    /\ At(c, "lookup")
    /\ hook' = [hook EXCEPT ![c] =
                   IF @.pid \in DOMAIN element
                   THEN [@ EXCEPT !.at = "load", !.elem = element[hook[c].pid]]
                   ELSE [@ EXCEPT !.at = "insert"]]
    /\ UNCHANGED <<ringVars, mapVars, ghostVars>>

\* Free elements are alike.
SomeFree == CHOOSE e \in free : TRUE

\* Slip: the old element is left where others may get it.
UpdateElemLeaking(c, p, v) ==
    \E e \in IF free = {} THEN {spare[c]} ELSE {SomeFree} :
       /\ element' = [q \in DOMAIN element \cup {p} |-> IF q = p THEN e ELSE element[q]]
       /\ value' = [value EXCEPT ![e] = v]
       /\ free' = free \ {e}
       /\ UNCHANGED spare

\* bpf_map_update_elem(.., BPF_ANY), in the kernel: one step under the lock of
\* the bucket.  A map that is full refuses a new key.
UpdateElem(c, p, v) ==
    IF p \in DOMAIN element
    THEN /\ element' = [element EXCEPT ![p] = spare[c]]
         /\ spare' = [spare EXCEPT ![c] = element[p]]
         /\ value' = [value EXCEPT ![spare[c]] = v]
         /\ UNCHANGED free
    ELSE IF free = {} THEN UNCHANGED mapVars
    ELSE /\ element' = [q \in DOMAIN element \cup {p} |->
                           IF q = p THEN SomeFree ELSE element[q]]
         /\ value' = [value EXCEPT ![SomeFree] = v]
         /\ free' = free \ {SomeFree}
         /\ UNCHANGED spare

\* Slip: the score is entered and then raised as well.
InsertAndRaise(c) ==
    /\ At(c, "insert")
    /\ UpdateElem(c, hook[c].pid, hook[c].raise)
    /\ hook' = [hook EXCEPT ![c].at = "lookup"]
    /\ UNCHANGED <<ringVars, ghostVars>>

\* "if (!score) { u32 init = 10; bpf_map_update_elem(..); }", whose answer is
\* not looked at.
Insert(c) ==
    /\ At(c, "insert")
    /\ UpdateElem(c, hook[c].pid, hook[c].raise)
    /\ hook' = [hook EXCEPT ![c].at = "submit"]
    /\ UNCHANGED <<ringVars, ghostVars>>

\* "*score += 10" reads the element and writes it.
Load(c) ==
    /\ At(c, "load")
    /\ hook' = [hook EXCEPT ![c].at = "store", ![c].score = value[hook[c].elem]]
    /\ UNCHANGED <<ringVars, mapVars, ghostVars>>

Store(c) ==
    /\ At(c, "store")
    /\ value' = [value EXCEPT ![hook[c].elem] = hook[c].score + hook[c].raise]
    /\ hook' = [hook EXCEPT ![c].at = "submit"]
    /\ UNCHANGED <<ringVars, element, free, spare, ghostVars>>

\* Slip: a hook with nothing to raise returns without its record.
SubmitRaised(c) ==
    /\ At(c, "submit")
    /\ ring' = [i \in DOMAIN ring |->
                   IF ring[i].n = hook[c].record /\ hook[c].raise > 0
                   THEN [ring[i] EXCEPT !.ready = TRUE] ELSE ring[i]]
    /\ hook' = [hook EXCEPT ![c] = NoHook]
    /\ UNCHANGED <<reserved, read, mapVars, ghostVars>>

\* bpf_ringbuf_submit(evt, 0), and the hook returns.
Submit(c) ==
    /\ At(c, "submit")
    /\ ring' = [i \in DOMAIN ring |->
                   IF ring[i].n = hook[c].record
                   THEN [ring[i] EXCEPT !.ready = TRUE] ELSE ring[i]]
    /\ hook' = [hook EXCEPT ![c] = NoHook]
    /\ UNCHANGED <<reserved, read, mapVars, ghostVars>>

\* reader.Read: the records come in the order of their reservation, so one
\* that is not submitted holds up those behind it.
ReadRecord ==
    /\ ring # << >>
    /\ Head(ring).ready
    /\ ring' = Tail(ring)
    /\ read' = read + 1
    /\ UNCHANGED <<hook, reserved, mapVars, ghostVars>>

-----------------------------------------------------------------------------
HookStep(c) == Lookup(c) \/ Insert(c) \/ Load(c) \/ Store(c) \/ Submit(c)

Next ==
    \/ \E c \in Cpus, p \in Pids, h \in Watched :
          \E r \in Raises[h] : Reserve(c, p, r)
    \/ \E c \in Cpus : HookStep(c)
    \/ ReadRecord

\* A BPF program runs to its end, and the loader's loop reads on.
Spec ==
    /\ Init /\ [][Next]_vars
    /\ WF_vars(ReadRecord) /\ \A c \in Cpus : WF_vars(HookStep(c))

-----------------------------------------------------------------------------
(* Properties. *)

\* The variables have their types; an element is free, a spare or one pid's.
TypeOK ==
    /\ DOMAIN element \subseteq Pids
    /\ Len(ring) <= RingCap
    /\ value \in [Elements -> Nat]
    /\ IsInjective(element) /\ IsInjective(spare)
    /\ {Range(element), Range(spare), free} \subseteq SUBSET Elements
    /\ Range(element) \cap Range(spare) = {}
    /\ Range(element) \cap free = {} /\ Range(spare) \cap free = {}
    /\ \A c \in Cpus : hook[c].pid \in Pids \cup {0}

\* What the running hooks of p have still to add.
Owed(p) ==
    LET owing == {c \in Running(p) : ~At(c, "submit")}
    IN  SumFunction([c \in owing |-> hook[c].raise])

\* The score of a process whose hooks never overlap is what its records stand
\* for, no more and no less: a system call the full ring missed raises nothing,
\* and the lost and misdirected additions of other processes, whose threads
\* race, do not reach it.  Only a map that is full has no score for it.
SoloScoreIsExact ==
    \A p \in Pids \ overlapped :
       IF p \in DOMAIN element
       THEN value[element[p]] + Owed(p) = recorded[p]
       ELSE recorded[p] = Owed(p) \/ free = {}

\* With reservation and submission apart, and a record in the way of those
\* behind it, the ring still implements the queue the loader relies on, whose
\* records are all taken.
Queue == INSTANCE RecordQueue WITH
             queue <- [i \in DOMAIN ring |-> ring[i].pid],
             taken <- read

ImplementsQueue == Queue!Spec
=============================================================================
