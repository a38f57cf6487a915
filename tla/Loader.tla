------------------------------- MODULE Loader -------------------------------
(***************************************************************************)
(* The event goroutine of the loader and what surrounds it: the ring       *)
(* buffer the hooks fill, the processes whose pids the events carry, the   *)
(* loop of EventProcessor.Start with handleAnomaly and killProcess, and    *)
(* alertChan with its consumer.  Engine models the Analyze call in the     *)
(* middle of the loop, SharedConfig the POSTs that change AutoKill while   *)
(* the loop runs.                                                          *)
(*                                                                         *)
(* A pid is reused by the kernel: a process is a pid with a generation.    *)
(* The loader sees pids only.                                              *)
(***************************************************************************)
EXTENDS Engine

CONSTANTS
    RingCap,       \* records the ring buffer holds (2^24 bytes in the code)
    ChanCap,       \* alerts alertChan buffers (1000 in the code)
    MaxGen         \* bound: processes that get the same pid

ASSUME LoaderAssumption ==
    /\ RingCap \in Nat \ {0}
    /\ ChanCap \in Nat \ {0}
    /\ MaxGen \in Nat

VARIABLES
    process,       \* the process that has each pid: its generation, is it alive
    ring,          \* records submitted and not read, with their submitter
    owner,         \* the generation that submitted the sample
    acting,        \* where handleAnomaly is
    alertChan,     \* alerts sent and not received
    detected,      \* stats.AnomaliesDetected
    processesKilled, \* stats.ProcessesKilled
    stored,        \* alerts the consumer received
    dropped,       \* alerts sendToAPI discarded
    flagged,       \* processes that submitted an event some rule matched
    signalled,     \* processes a SIGKILL reached
    lateKills      \* SIGKILLs since AutoKill was last on

alertVars == <<alertChan, stored, dropped>>
killVars == <<processesKilled, signalled, lateKills>>
loaderVars == <<process, ring, owner, acting, detected, flagged, alertVars,
                killVars>>
allVars == <<vars, loaderVars>>

Process(pid) == <<pid, process[pid].gen>>

-----------------------------------------------------------------------------
LoaderInit ==
    /\ EngineInit
    /\ ConfigInit
    /\ process = [pid \in Pids |-> [gen |-> 0, alive |-> TRUE]]
    /\ ring = << >>
    /\ owner = 0
    /\ acting = "no"
    /\ alertChan = << >>
    /\ detected = 0
    /\ processesKilled = 0
    /\ stored = 0
    /\ dropped = 0
    /\ flagged = {}
    /\ signalled = {}
    /\ lateKills = 0

\* A process makes a system call some hook watches.  When the ring is full the
\* reservation fails and the hook returns without a record.
Syscall(raw) ==
    /\ process[raw.pid].alive
    /\ processed + Len(ring) < MaxEvents
    /\ Len(ring) < RingCap
    /\ ring' = Append(ring, [raw |-> raw, gen |-> process[raw.pid].gen])
    /\ UNCHANGED <<vars, process, owner, acting, detected, flagged, alertVars,
                   killVars>>

\* A process exits of its own accord; later the kernel gives its pid away.
Exit(pid) ==
    /\ process[pid].alive
    /\ process' = [process EXCEPT ![pid].alive = FALSE]
    /\ UNCHANGED <<vars, ring, owner, acting, detected, flagged, alertVars,
                   killVars>>

Reuse(pid) ==
    /\ ~process[pid].alive
    /\ process[pid].gen < MaxGen
    /\ process' = [process EXCEPT ![pid] = [gen |-> @.gen + 1, alive |-> TRUE]]
    /\ UNCHANGED <<vars, ring, owner, acting, detected, flagged, alertVars,
                   killVars>>

-----------------------------------------------------------------------------
(* The event goroutine. *)

\* reader.Read, EventsProcessed++, parseEvent, and Analyze up to its reading
\* of LearningMode.  The loop goes on without Analyze when the read fails, and
\* when a record is empty or short, which none of the ring's records is: these
\* are left out.
ReadEvent ==
    /\ ring # << >>
    /\ Observe(Head(ring).raw)
    /\ owner' = Head(ring).gen
    /\ ring' = Tail(ring)
    /\ UNCHANGED <<process, acting, detected, flagged, alertVars, killVars>>

AnalyzeMatch ==
    /\ RuleMatches
    /\ flagged' = flagged \cup {<<sample.pid, owner>>}
    /\ UNCHANGED <<process, ring, owner, acting, detected, alertVars, killVars>>

AnalyzeOther ==
    /\ EndLearning \/ NoRuleMatches \/ Escalate
    /\ UNCHANGED loaderVars

NothingFound ==
    /\ anomaly = None
    /\ Return
    /\ UNCHANGED loaderVars

Alert == [pid |-> sample.pid, rule |-> anomaly.rule, action |-> anomaly.action]

\* Slip: only an alert that was sent is counted.
ReportIfSent ==
    /\ step = "return" /\ anomaly # None /\ acting = "no"
    /\ acting' = "decide"
    /\ IF Len(alertChan) < ChanCap
       THEN /\ alertChan' = Append(alertChan, Alert)
            /\ detected' = detected + 1
       ELSE UNCHANGED <<alertChan, detected>>
    /\ UNCHANGED <<vars, process, ring, owner, flagged, stored, dropped, killVars>>

\* Slip: a send that waits for room.
ReportWaiting ==
    /\ step = "return" /\ anomaly # None /\ acting = "no"
    /\ Len(alertChan) < ChanCap
    /\ acting' = "decide"
    /\ detected' = detected + 1
    /\ alertChan' = Append(alertChan, Alert)
    /\ UNCHANGED <<vars, process, ring, owner, flagged, stored, dropped, killVars>>

\* AnomaliesDetected++ and, in handleAnomaly, sendToAPI: a send that does not
\* wait, so an alert that finds the channel full is gone.
ReportAnomaly ==
    /\ step = "return"
    /\ anomaly # None
    /\ acting = "no"
    /\ acting' = "decide"
    /\ detected' = detected + 1
    /\ IF Len(alertChan) < ChanCap
       THEN alertChan' = Append(alertChan, Alert) /\ UNCHANGED dropped
       ELSE dropped' = dropped + 1 /\ UNCHANGED alertChan
    /\ UNCHANGED <<vars, process, ring, owner, flagged, stored, killVars>>

\* Slip: AutoKill is not looked at.
KillAlways ==
    /\ acting = "decide"
    /\ anomaly.action = "kill"
    /\ acting' = "kill"
    /\ processesKilled' = processesKilled + 1
    /\ UNCHANGED <<vars, process, ring, owner, detected, flagged, alertVars,
                   signalled, lateKills>>

\* Slip: the process is killed before its alert is sent.
KillFirst ==
    /\ step = "return" /\ anomaly # None /\ acting = "no"
    /\ config.autoKill
    /\ anomaly.action = "kill"
    /\ acting' = "kill"
    /\ processesKilled' = processesKilled + 1
    /\ UNCHANGED <<vars, process, ring, owner, detected, flagged, alertVars,
                   signalled, lateKills>>

\* "if ep.config.AutoKill && anomaly.Action == "kill"".
DecideToKill ==
    /\ acting = "decide"
    /\ config.autoKill
    /\ anomaly.action = "kill"
    /\ acting' = "kill"
    /\ processesKilled' = processesKilled + 1
    /\ UNCHANGED <<vars, process, ring, owner, detected, flagged, alertVars,
                   signalled, lateKills>>

\* Slip: the condition is not the negation of the other branch's.
SpareAnyone ==
    /\ acting = "decide"
    /\ acting' = "no"
    /\ Return
    /\ UNCHANGED <<process, ring, owner, detected, flagged, alertVars, killVars>>

DecideToSpare ==
    /\ acting = "decide"
    /\ ~(config.autoKill /\ anomaly.action = "kill")
    /\ acting' = "no"
    /\ Return
    /\ UNCHANGED <<process, ring, owner, detected, flagged, alertVars, killVars>>

\* Slip: the goroutine goes on before the signal is sent.
KillInBackground ==
    /\ acting = "kill"
    /\ Return
    /\ UNCHANGED loaderVars

\* killProcess: SIGKILL for whoever has the pid now; the error for a pid
\* nobody has is ignored.
KillProcess ==
    /\ acting = "kill"
    /\ acting' = "no"
    /\ Return
    /\ lateKills' = IF config.autoKill THEN 0 ELSE lateKills + 1
    /\ IF process[sample.pid].alive
       THEN /\ process' = [process EXCEPT ![sample.pid].alive = FALSE]
            /\ signalled' = signalled \cup {Process(sample.pid)}
       ELSE UNCHANGED <<process, signalled>>
    /\ UNCHANGED <<ring, owner, detected, flagged, alertVars, processesKilled>>

-----------------------------------------------------------------------------
\* "for alert := range alertChan { s.AddAlert(alert) }".
ConsumeAlert ==
    /\ alertChan # << >>
    /\ alertChan' = Tail(alertChan)
    /\ stored' = stored + 1
    /\ UNCHANGED <<vars, process, ring, owner, acting, detected, flagged,
                   dropped, killVars>>

\* A POST; AutoKill switched on starts the count of late kills again.
LoaderConfig ==
    /\ EngineConfig
    /\ lateKills' = IF config'.autoKill THEN 0 ELSE lateKills
    /\ UNCHANGED <<process, ring, owner, acting, detected, flagged, alertVars,
                   processesKilled, signalled>>

LoaderTick == Tick /\ UNCHANGED loaderVars

EventLoop ==
    \/ ReadEvent
    \/ AnalyzeMatch
    \/ AnalyzeOther
    \/ NothingFound
    \/ ReportAnomaly
    \/ DecideToKill
    \/ DecideToSpare
    \/ KillProcess

LoaderNext ==
    \/ \E raw \in Samples : Syscall(raw)
    \/ \E pid \in Pids : Exit(pid) \/ Reuse(pid)
    \/ EventLoop
    \/ ConsumeAlert
    \/ LoaderConfig
    \/ LoaderTick

LoaderSafe == LoaderInit /\ [][LoaderNext]_allVars

\* The Go scheduler runs the event goroutine whenever it can go on.  Nothing
\* is assumed of the consumer, of the processes or of the POSTs.
LoaderSpec == LoaderSafe /\ WF_allVars(EventLoop)

-----------------------------------------------------------------------------
(* Properties. *)

Handling == acting # "no"

\* The loader's variables have their types; handleAnomaly runs only on an
\* anomaly Analyze returned.
LoaderTypeOK ==
    /\ TypeOK
    /\ process \in [Pids -> [gen : 0..MaxGen, alive : BOOLEAN]]
    /\ ring \in Seq([raw : Samples, gen : 0..MaxGen]) /\ Len(ring) <= RingCap
    /\ owner \in 0..MaxGen
    /\ acting \in {"no", "decide", "kill"}
    /\ Handling => step = "return" /\ anomaly # None
    /\ alertChan \in Seq([pid : Pids, rule : RuleNames,
                          action : {"alert", "block", "kill"}])
    /\ Len(alertChan) <= ChanCap
    /\ {detected, processesKilled, stored, dropped, lateKills} \subseteq Nat
    /\ flagged \cup signalled \subseteq Pids \X (0..MaxGen)

\* Every anomaly in a profile has been counted and handed over exactly once,
\* but for the one in flight: detected are as many as the consumer received,
\* the channel holds and the full channel turned away.
AnomalyAccounting ==
    LET inProfiles == SumFunction([pid \in DOMAIN profiles |->
                                      Len(profiles[pid].anomalies)])
        inFlight == IF anomaly # None /\ ~Handling THEN 1 ELSE 0
    IN  /\ inProfiles = detected + inFlight
        /\ detected = stored + Len(alertChan) + dropped

\* The switch works: once AutoKill is off at most one more SIGKILL is sent,
\* the one already decided.
DisarmStopsKills == lateKills <= 1

\* A SIGKILL goes to a pid only after an anomaly of that pid was recorded and
\* offered to the alert channel; it reaches the process that was flagged or,
\* when that one is gone, a later owner of its pid, and no process else.
KillsAreReported ==
    /\ processesKilled <= detected
    /\ \A who \in signalled :
          /\ who[1] \in DOMAIN profiles /\ profiles[who[1]].anomalies # << >>
          /\ \E gen \in 0..who[2] : <<who[1], gen>> \in flagged

\* The event goroutine always gets back to an empty ring: it never waits for
\* the alert consumer, for a POST or for the process it kills.
RingDrains == []<>(ring = << >> /\ step = "idle")

\* A kill verdict returned while AutoKill is on is carried out, unless AutoKill
\* is switched off first.
VerdictIsExecuted ==
    \A pid \in Pids :
       (step = "return" /\ sample.pid = pid /\ anomaly # None
          /\ anomaly.action = "kill" /\ config.autoKill)
       ~> (~process[pid].alive \/ ~config.autoKill
             \/ \E gen \in 0..MaxGen : <<pid, gen>> \in signalled)

\* README: "automatically terminate compromised processes": a process a
\* SIGKILL reached has itself done something a rule matched.
OnlyFlaggedAreKilled == signalled \subseteq flagged
=============================================================================
