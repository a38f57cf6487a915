----------------------------- MODULE LoaderLife -----------------------------
(***************************************************************************)
(* The life of the loader process (loader/main.go): it loads its           *)
(* configuration, attaches the BPF programs one by one, starts its         *)
(* goroutines, runs until a signal or a fatal error ends it, and is        *)
(* started again (docker-compose.yml: restart: unless-stopped).  Loader    *)
(* models what happens while it runs.  All it knows is lost when it ends;  *)
(* the processes it watches, and those it has killed, are not.             *)
(***************************************************************************)
EXTENDS Loader

CONSTANTS
    Attachable,    \* the programs the kernel lets the loader attach
    MaxLives       \* bound: times the loader is started

VARIABLES
    phase,         \* "down", "attaching", "running" or "stopping"
    at,            \* the attachment main is at
    attached,      \* links: the programs attached
    life           \* times the loader was started

lifeVars == <<phase, at, attached, life>>

\* The table "attachments", with the types of the records each submits.
Attachments == <<
    [name |-> "tracepoint_execve", types |-> {EVENT_EXECVE}],
    [name |-> "tracepoint_execve_exit", types |-> {}],
    [name |-> "tracepoint_openat", types |-> {EVENT_OPEN}],
    [name |-> "tracepoint_clone", types |-> {EVENT_FORK}],
    [name |-> "tracepoint_exit", types |-> {}],
    [name |-> "kprobe_tcp_connect", types |-> {EVENT_CONNECT}],
    [name |-> "kprobe_udp_send", types |-> {EVENT_CONNECT}],
    [name |-> "kprobe_mmap_exec", types |-> {EVENT_MMAP_EXEC}],
    [name |-> "kprobe_ptrace", types |-> {EVENT_PTRACE}] >>

Programs == {Attachments[i].name : i \in DOMAIN Attachments}
Submitted == UNION {Attachments[i].types :
                       i \in {j \in DOMAIN Attachments : Attachments[j].name \in attached}}

ASSUME LifeAssumption == Attachable \subseteq Programs /\ MaxLives \in Nat

LifeInit ==
    /\ LoaderInit
    /\ phase = "down"
    /\ at = 1
    /\ attached = {}
    /\ life = 0

-----------------------------------------------------------------------------
(* main *)

\* loadConfig and NewCollection, which makes the ring.  A start that fails,
\* on a file that is not JSON or an object that does not load, leaves no trace.
Begin ==
    /\ phase = "down"
    /\ life < MaxLives
    /\ life' = life + 1
    /\ phase' = "attaching"
    /\ config' \in {LoadConfig(file) : file \in ConfigFiles}
    /\ UNCHANGED <<engineVars, post, posts, loaderVars, at, attached>>

\* A program that cannot be attached is skipped.
Attach ==
    /\ phase = "attaching"
    /\ at \in DOMAIN Attachments
    /\ at' = at + 1
    /\ LET name == Attachments[at].name
       IN  attached' \in IF name \in Attachable THEN {attached, attached \cup {name}}
                         ELSE {attached}
    /\ UNCHANGED <<allVars, phase, life>>

\* Slip: the processor is not started when a program was skipped.
LaunchComplete ==
    /\ phase = "attaching"
    /\ at \notin DOMAIN Attachments
    /\ attached = Programs
    /\ phase' = "running"
    /\ UNCHANGED <<allVars, at, attached, life>>

\* Slip: main does not look whether anything was attached.
LaunchAnyway ==
    /\ phase = "attaching"
    /\ at \notin DOMAIN Attachments
    /\ phase' = "running"
    /\ UNCHANGED <<allVars, at, attached, life>>

\* The goroutines are started; with them the loader is "loaded and monitoring".
Launch ==
    /\ phase = "attaching"
    /\ at \notin DOMAIN Attachments
    /\ attached # {}
    /\ phase' = "running"
    /\ UNCHANGED <<allVars, at, attached, life>>

\* The process ends: the kernel closes its links and its maps.
Die ==
    /\ phase' = "down" /\ at' = 1 /\ attached' = {}
    /\ post' = [h \in Posters |-> NoPost]
    /\ profiles' = << >> /\ processed' = 0 /\ step' = "idle" /\ sample' = None
    /\ anomaly' = None /\ ring' = << >> /\ owner' = 0 /\ acting' = "no"
    /\ alertChan' = << >> /\ stored' = 0 /\ dropped' = 0 /\ detected' = 0
    /\ processesKilled' = 0 /\ lateKills' = 0
    /\ UNCHANGED <<config, now, posts, process, flagged, signalled, life>>

\* log.Fatal("No programs could be attached")
NothingAttached ==
    /\ phase = "attaching"
    /\ at \notin DOMAIN Attachments
    /\ attached = {}
    /\ Die

\* A SIGKILL, a signal before signal.Notify, or a log.Fatal of a goroutine:
\* the API port is taken, the reader cannot be made.
Fatal == phase # "down" /\ Die

\* "<-sig": SIGINT or SIGTERM.
Signalled ==
    /\ phase = "running"
    /\ phase' = "stopping"
    /\ UNCHANGED <<allVars, at, attached, life>>

\* "for _, l := range links { l.Close() }", in the order of the list, while
\* the goroutines go on.
CloseLink ==
    /\ phase = "stopping"
    /\ \E i \in DOMAIN Attachments :
          /\ Attachments[i].name \in attached
          /\ \A j \in 1..(i - 1) : Attachments[j].name \notin attached
          /\ attached' = attached \ {Attachments[i].name}
    /\ UNCHANGED <<allVars, phase, at, life>>

\* Slip: main waits for the alert channel to be empty.
ExitDrained == phase = "stopping" /\ attached = {} /\ alertChan = << >> /\ Die

\* main returns, and no goroutine is waited for.
ExitMain == phase = "stopping" /\ attached = {} /\ Die

-----------------------------------------------------------------------------
Alive == phase \in {"running", "stopping"}

\* The hooks that are attached submit records, also before the loader reads.
WatchedCall ==
    /\ \E raw \in Samples : raw.type \in Submitted /\ Syscall(raw)
    /\ UNCHANGED lifeVars

Processes == (\E pid \in Pids : Exit(pid) \/ Reuse(pid)) /\ UNCHANGED lifeVars

LiveLoop == Alive /\ EventLoop /\ UNCHANGED lifeVars
LiveServer == Alive /\ (ConsumeAlert \/ LoaderConfig) /\ UNCHANGED lifeVars
LifeTick == LoaderTick /\ UNCHANGED lifeVars

Main == Attach \/ Launch \/ NothingAttached \/ CloseLink \/ ExitMain

LifeNext ==
    \/ Begin \/ Main \/ Signalled \/ Fatal
    \/ WatchedCall \/ Processes
    \/ LiveLoop \/ LiveServer \/ LifeTick

\* main and the event goroutine go on while they can; nothing is assumed of
\* the alert consumer, of signals or of whoever starts the loader again.
LifeSpec ==
    /\ LifeInit /\ [][LifeNext]_<<allVars, lifeVars>>
    /\ WF_<<allVars, lifeVars>>(Main) /\ WF_<<allVars, lifeVars>>(LiveLoop)

-----------------------------------------------------------------------------
(* Properties. *)

\* The variables have their types; a loader that is not running has read
\* nothing, and one that is down holds nothing.
LifeTypeOK ==
    /\ LoaderTypeOK
    /\ phase \in {"down", "attaching", "running", "stopping"}
    /\ at \in 1..(Len(Attachments) + 1)
    /\ attached \subseteq Attachable
    /\ phase = "running" => attached # {}
    /\ ~Alive => processed = 0 /\ step = "idle" /\ profiles = << >>
    /\ phase = "down" => attached = {} /\ ring = << >>

\* Records submitted while main is still attaching are not forgotten: they are
\* read once the loop runs, whatever programs were skipped.
BacklogIsRead ==
    phase = "attaching" /\ ring # << >>
    ~> (ring = << >> /\ step = "idle") \/ phase = "down"

\* A signal ends the loader: main waits for no goroutine, channel or lock.
SignalEnds == phase = "stopping" ~> phase = "down"
=============================================================================
