------------------------------- MODULE Engine -------------------------------
(***************************************************************************)
(* The behavioural engine (loader/engine.go): Engine.Analyze, which keeps  *)
(* one profile per pid and judges each event against the built-in rules.   *)
(*                                                                         *)
(* Analyze holds e.mu throughout but reads the shared Config without it.   *)
(* It is cut where a POST can come between two of its reads:               *)
(*    Observe   update the profile, read LearningMode and the window;      *)
(*    RunRules  try the rules in order and record the first anomaly;       *)
(*    Escalate  compare the score with SuspicionThreshold;                 *)
(*    Return    hand the anomaly, or nil, to the event loop.               *)
(***************************************************************************)
EXTENDS EventWire, SharedConfig, Sequences, FiniteSets, FiniteSetsExt

CONSTANTS
    Pids,          \* process ids
    Samples,       \* raw records the hooks may submit
    BeaconMin,     \* connections beaconing_detected needs (5 in the code)
    RapidMin,      \* connections rapid_succession_connections needs (10)
    MassMin,       \* opened files mass_file_deletion needs (20)
    None,          \* nil
    MaxEvents,     \* bound: events analysed in a behaviour
    MaxTime        \* bound: seconds the clock advances

ASSUME EngineAssumption ==
    /\ \A raw \in Samples : raw.pid \in Pids /\ raw.ret \in Int
    /\ {BeaconMin, RapidMin, MassMin} \subseteq Nat
    /\ BeaconMin >= 4
    /\ {MaxEvents, MaxTime} \subseteq Nat

VARIABLES
    profiles,      \* e.profiles: one entry per pid ever seen
    now,           \* the clock, in seconds
    processed,     \* stats.EventsProcessed
    step,          \* where the event goroutine is in Analyze
    sample,        \* the record Analyze was called for
    anomaly        \* the *Anomaly Analyze is about to return

engineVars == <<profiles, now, processed, step, sample, anomaly>>
vars == <<engineVars, configVars>>

-----------------------------------------------------------------------------
(* The rules, in registration order. *)

Rule(name, score, action) == [rule |-> name, score |-> score, action |-> action]

Rules == <<
    Rule("unexpected_binary", 60, "alert"),
    Rule("process_running_as_root", 40, "alert"),
    Rule("beaconing_detected", 90, "kill"),
    Rule("reverse_shell_port", 100, "kill"),
    Rule("dns_tunneling", 70, "alert"),
    Rule("rapid_succession_connections", 65, "alert"),
    Rule("mass_file_deletion", 95, "kill"),
    Rule("sensitive_file_write", 85, "block"),
    Rule("executable_mmap", 30, "alert"),
    Rule("ptrace_attachment", 60, "alert") >>

BadPorts == {4444, 5555, 6666, 6667, 7777, 8443, 10000, 31337, 4443}

\* The rules on execve.  "listed" is the answer of the search of
\* AllowedExecutables.
UnexpectedBinary(evt, p, listed) ==
    /\ evt.type = EVENT_EXECVE
    /\ DataString(evt, "filename") # NoName
    /\ p.state = "baseline"
    /\ ~listed
    /\ p.execCount > 1

\* Slip: the comparison takes in a third execve.
RootThrice(evt, p) ==
    evt.type = EVENT_EXECVE /\ evt.uid = 0 /\ p.execCount <= 3

RunningAsRoot(evt, p) ==
    /\ evt.type = EVENT_EXECVE
    /\ evt.uid = 0
    /\ p.execCount < 3

\* Seconds between successive connections.
Intervals(conns) == [i \in 1..(Len(conns) - 1) |-> conns[i + 1] - conns[i]]

\* Slip: the variance of a sample, divided by n - 1.
PeriodicSample(ivs) ==
    LET n == Len(ivs)
        S == SumFunction(ivs)
        Q == SumFunction([i \in DOMAIN ivs |-> ivs[i] * ivs[i]])
    IN  S > n /\ 5 * (n * Q - S * S) < (n - 1) * S

\* mean > 1 and variance < 0.2 * mean, multiplied out: with n intervals of
\* sum S and sum of squares Q, mean = S/n and variance = (n*Q - S*S)/(n*n).
Periodic(ivs) ==
    LET n == Len(ivs)
        S == SumFunction(ivs)
        Q == SumFunction([i \in DOMAIN ivs |-> ivs[i] * ivs[i]])
    IN  S > n /\ 5 * (n * Q - S * S) < n * S

Beaconing(evt, p) ==
    /\ evt.type = EVENT_CONNECT
    /\ Len(p.connections) >= BeaconMin
    /\ Periodic(Intervals(p.connections))

ReverseShellPort(evt) ==
    /\ evt.type = EVENT_CONNECT
    /\ DataInt(evt, "port") \in BadPorts

DnsTunneling(evt) ==
    /\ evt.type = EVENT_CONNECT
    /\ DataInt(evt, "port") = 53
    /\ DataInt(evt, "ret") = 1

\* Connections counted back from the last while younger than 5 seconds.
Recent(conns, t) ==
    Cardinality({i \in DOMAIN conns : \A j \in i..Len(conns) : t - conns[j] < 5})

RapidConnections(evt, p, maxConns, t) ==
    /\ evt.type = EVENT_CONNECT
    /\ Len(p.connections) >= RapidMin
    /\ Recent(p.connections, t) >= maxConns \div 12

MassDeletion(evt, p) ==
    /\ evt.type = EVENT_OPEN
    /\ evt.ret = -2
    /\ p.fileWriteCount >= MassMin

SensitiveWrite(evt) ==
    /\ evt.type = EVENT_OPEN
    /\ DataInt(evt, "ret") = -1

Alerted(p, name) == \E i \in DOMAIN p.anomalies : p.anomalies[i].rule = name

\* Slip: no rate limit.
MmapUnlimited(evt, p) ==
    evt.type = EVENT_MMAP_EXEC /\ p.suspicionScore >= 50

\* Slip: no look at the score.
MmapUnsuspected(evt, p) ==
    evt.type = EVENT_MMAP_EXEC /\ ~Alerted(p, "executable_mmap")

ExecutableMmap(evt, p) ==
    /\ evt.type = EVENT_MMAP_EXEC
    /\ p.suspicionScore >= 50
    /\ ~Alerted(p, "executable_mmap")

PtraceAttachment(evt) == evt.type = EVENT_PTRACE

\* rule.Match(event, profile, baseline) # nil.
Matches(name, evt, p, listed) ==
    CASE name = "unexpected_binary" -> UnexpectedBinary(evt, p, listed)
      [] name = "process_running_as_root" -> RunningAsRoot(evt, p)
      [] name = "beaconing_detected" -> Beaconing(evt, p)
      [] name = "reverse_shell_port" -> ReverseShellPort(evt)
      [] name = "dns_tunneling" -> DnsTunneling(evt)
      [] name = "rapid_succession_connections" ->
            RapidConnections(evt, p, config.maxConns, now)
      [] name = "mass_file_deletion" -> MassDeletion(evt, p)
      [] name = "sensitive_file_write" -> SensitiveWrite(evt)
      [] name = "executable_mmap" -> ExecutableMmap(evt, p)
      [] name = "ptrace_attachment" -> PtraceAttachment(evt)

Hits(evt, p, listed) ==
    {i \in DOMAIN Rules : Matches(Rules[i].rule, evt, p, listed)}

-----------------------------------------------------------------------------
(* Profiles. *)

\* "flaggedConns" is history, not a field of the code: the connections that
\* added 20 to the score.  No action reads it.
NewProfile ==
    [firstSeen |-> now, state |-> "learning", suspicionScore |-> 0,
     execCount |-> 0, fileWriteCount |-> 0, connections |-> << >>,
     flaggedConns |-> 0, anomalies |-> << >>]

\* "Get or create process profile".
ProfileOf(pid) == IF pid \in DOMAIN profiles THEN profiles[pid] ELSE NewProfile

SetProfile(pid, p) ==
    profiles' = [q \in DOMAIN profiles \cup {pid} |->
                    IF q = pid THEN p ELSE profiles[q]]

\* "Update profile based on event type".
Updated(p, evt) ==
    CASE evt.type = EVENT_EXECVE -> [p EXCEPT !.execCount = @ + 1]
      [] evt.type = EVENT_OPEN -> [p EXCEPT !.fileWriteCount = @ + 1]
      [] evt.type = EVENT_CONNECT ->
            [p EXCEPT !.suspicionScore = @ + (IF evt.ret = 1 THEN 20 ELSE 0),
                      !.flaggedConns = @ + (IF evt.ret = 1 THEN 1 ELSE 0),
                      !.connections = Append(@, now)]
      [] OTHER -> p

\* Slip: an anomaly the profile already holds is scored but not recorded.
RecordedOnce(p, a) ==
    [p EXCEPT !.suspicionScore = @ + a.score,
              !.anomalies = IF Alerted(p, a.rule) THEN @ ELSE Append(@, a)]

\* "Aggregate suspicion score", and the copy kept in the profile.
Recorded(p, a) ==
    [p EXCEPT !.suspicionScore = @ + a.score,
              !.anomalies = Append(@, a)]

Evt == ParseEvent(sample)

-----------------------------------------------------------------------------
EngineInit ==
    /\ profiles = << >>
    /\ now = 0
    /\ processed = 0
    /\ step = "idle"
    /\ sample = None
    /\ anomaly = None

\* Slip: enforcement does not set the state.
ObserveUnmarked(raw) ==
    LET evt == ParseEvent(raw)
    IN  /\ step = "idle"
        /\ processed < MaxEvents
        /\ processed' = processed + 1
        /\ sample' = raw
        /\ step' = IF config.learning THEN "window" ELSE "rules"
        /\ SetProfile(evt.pid, Updated(ProfileOf(evt.pid), evt))
        /\ UNCHANGED <<now, anomaly, configVars>>

\* The event loop reads a record and calls Analyze, which updates the profile
\* and reads LearningMode.
Observe(raw) ==
    LET evt == ParseEvent(raw)
        p   == Updated(ProfileOf(evt.pid), evt)
    IN  /\ step = "idle"
        /\ processed < MaxEvents
        /\ processed' = processed + 1
        /\ sample' = raw
        /\ IF config.learning
           THEN step' = "window" /\ SetProfile(evt.pid, p)
           ELSE step' = "rules"
                /\ SetProfile(evt.pid, [p EXCEPT !.state = "baseline"])
        /\ UNCHANGED <<now, anomaly, configVars>>

\* Slip: a process inside its window is put back to learning.
RestartLearning ==
    LET p == profiles[Evt.pid]
        over == now - p.firstSeen > config.windowSec
    IN  /\ step = "window"
        /\ step' = "return"
        /\ SetProfile(Evt.pid,
              [p EXCEPT !.state = IF over THEN "baseline" ELSE "learning"])
        /\ UNCHANGED <<now, processed, sample, anomaly, configVars>>

\* "Learning mode: just observe".
EndLearning ==
    LET p == profiles[Evt.pid]
    IN  /\ step = "window"
        /\ step' = "return"
        /\ IF now - p.firstSeen > config.windowSec
           THEN SetProfile(Evt.pid, [p EXCEPT !.state = "baseline"])
           ELSE UNCHANGED profiles
        /\ UNCHANGED <<now, processed, sample, anomaly, configVars>>

\* The first rule that matches is recorded in the profile as it was declared.
RuleMatches ==
    /\ step = "rules"
    /\ step' = "escalate"
    /\ \E listed \in AllowedAnswers(DataString(Evt, "filename")) :
          LET p    == profiles[Evt.pid]
              hits == Hits(Evt, p, listed)
              a    == Rules[Min(hits)]
          IN  /\ hits # {}
              /\ anomaly' = a
              /\ SetProfile(Evt.pid, Recorded(p, a))
    /\ UNCHANGED <<now, processed, sample, configVars>>

NoRuleMatches ==
    /\ step = "rules"
    /\ step' = "return"
    /\ \E listed \in AllowedAnswers(DataString(Evt, "filename")) :
          Hits(Evt, profiles[Evt.pid], listed) = {}
    /\ UNCHANGED <<profiles, now, processed, sample, anomaly, configVars>>

\* "Escalate action based on total score".
Escalate ==
    /\ step = "escalate"
    /\ step' = "return"
    /\ anomaly' = IF profiles[Evt.pid].suspicionScore >= config.threshold
                  THEN [anomaly EXCEPT !.action = "kill"]
                  ELSE anomaly
    /\ UNCHANGED <<profiles, now, processed, sample, configVars>>

\* Slip: the anomaly of one event is still there for the next.
ReturnKeeping ==
    /\ step = "return"
    /\ step' = "idle"
    /\ sample' = None
    /\ UNCHANGED <<profiles, now, processed, anomaly, configVars>>

\* The event loop is done with the result and reads the ring again.
Return ==
    /\ step = "return"
    /\ step' = "idle"
    /\ sample' = None
    /\ anomaly' = None
    /\ UNCHANGED <<profiles, now, processed, configVars>>

\* A second passes.  Escalate and Return do not look at the clock: a second
\* that ends before them is the same as one that ends after them.
Tick ==
    /\ step \in {"idle", "window", "rules"}
    /\ now < MaxTime
    /\ now' = now + 1
    /\ UNCHANGED <<profiles, processed, step, sample, anomaly, configVars>>

EngineConfig == ConfigNext /\ UNCHANGED engineVars

EngineNext ==
    \/ \E raw \in Samples : Observe(raw)
    \/ EndLearning
    \/ RuleMatches
    \/ NoRuleMatches
    \/ Escalate
    \/ Return
    \/ Tick
    \/ EngineConfig

\* main loads the configuration and creates the engine on it.
EngineStart == EngineInit /\ ConfigInit

EngineSpec == EngineStart /\ [][EngineNext]_vars

-----------------------------------------------------------------------------
(* Properties. *)

RuleNames == {Rules[i].rule : i \in DOMAIN Rules}

AnomalyType ==
    [rule : RuleNames, score : Nat, action : {"alert", "block", "kill"}]

\* nil is neither an anomaly nor a record.
ASSUME NoneAssumption == None \notin AnomalyType /\ None \notin Samples

Profile ==
    [firstSeen : Nat, state : {"learning", "baseline"}, suspicionScore : Nat,
     execCount : Nat, fileWriteCount : Nat, connections : Seq(Nat),
     flaggedConns : Nat, anomalies : Seq(AnomalyType)]

\* Every variable has its type; while Analyze runs, the pid of its event has
\* a profile, and an anomaly exists only from its match to its return.
TypeOK ==
    /\ ConfigTypeOK
    /\ DOMAIN profiles \subseteq Pids
    /\ \A pid \in DOMAIN profiles : profiles[pid] \in Profile
    /\ now \in 0..MaxTime
    /\ processed \in 0..MaxEvents
    /\ step \in {"idle", "window", "rules", "escalate", "return"}
    /\ IF step = "idle"
       THEN sample = None
       ELSE sample \in Samples /\ sample.pid \in DOMAIN profiles
    /\ step = "escalate" => anomaly \in AnomalyType
    /\ step = "return" => anomaly \in AnomalyType \cup {None}
    /\ step \in {"idle", "window", "rules"} => anomaly = None

\* "Rate limit: at most 1 alert per process" (executable_mmap): however a
\* process's events alternate, its profile never holds two such anomalies.
MmapAlertOnce ==
    \A pid \in DOMAIN profiles :
       LET as == profiles[pid].anomalies
       IN  \A i, j \in DOMAIN as :
              as[i].rule = "executable_mmap" /\ as[j].rule = "executable_mmap"
              => i = j

ScoreOf(as) == SumFunction([i \in DOMAIN as |-> as[i].score])

\* What a profile's score stands for.
Evidence(p) == ScoreOf(p.anomalies) + 20 * p.flaggedConns

\* SuspicionScore is the scores of the recorded anomalies plus 20 for each
\* flagged connection: no anomaly is recorded without being scored, scored
\* twice or scored without being recorded, and nothing else adds to it.
ScoreExplained ==
    \A pid \in DOMAIN profiles :
       profiles[pid].suspicionScore = Evidence(profiles[pid])

\* "Only alert if process already has suspicion score (combined with other bad
\* behavior)": whenever an executable_mmap anomaly is recorded, the anomalies
\* and flagged connections recorded before it are worth 50 or more.
MmapNeedsSuspicion ==
    [][\A pid \in DOMAIN profiles :
          LET p == profiles[pid]
              q == profiles'[pid]
          IN  Len(q.anomalies) > Len(p.anomalies)
                 /\ q.anomalies[Len(q.anomalies)].rule = "executable_mmap"
              => Evidence(p) >= 50]_vars

Count(as, name) == Cardinality({i \in DOMAIN as : as[i].rule = name})

\* Each execve raises at most one of the two exec anomalies, the first execve
\* of a profile is never "unexpected", and root alone is reported twice at most.
ExecAlertBudget ==
    \A pid \in DOMAIN profiles :
       LET p == profiles[pid]
           unexpected == Count(p.anomalies, "unexpected_binary")
           root == Count(p.anomalies, "process_running_as_root")
       IN  /\ root <= 2
           /\ unexpected > 0 => unexpected < p.execCount
           /\ root + unexpected <= p.execCount

\* A profile still in the state "learning" has never been judged: it holds no
\* anomaly, whatever POSTs switched LearningMode on and off.
LearningIsUnjudged ==
    \A pid \in DOMAIN profiles :
       profiles[pid].state = "learning" => profiles[pid].anomalies = << >>

\* What the engine has learnt of a pid is never taken back: its profile stays,
\* its score and counts do not fall, its anomalies are kept in order and it
\* does not return to the state "learning".
HistoryIsKept ==
    [][\A pid \in DOMAIN profiles :
          LET p == profiles[pid]
              q == profiles'[pid]
          IN  /\ pid \in DOMAIN profiles'
              /\ q.suspicionScore >= p.suspicionScore
              /\ q.execCount >= p.execCount
              /\ q.fileWriteCount >= p.fileWriteCount
              /\ Len(q.connections) >= Len(p.connections)
              /\ Len(q.anomalies) >= Len(p.anomalies)
              /\ \A i \in DOMAIN p.anomalies : q.anomalies[i] = p.anomalies[i]
              /\ p.state = "baseline" => q.state = "baseline"]_vars

\* Connections at regular intervals, as whole seconds see them: any two gaps of
\* the profile differ by one second at most, and not all are of one or less.
Regular(conns) ==
    LET gaps == Intervals(conns)
    IN  /\ Len(conns) >= BeaconMin
        /\ \A i, j \in DOMAIN gaps : gaps[i] <= gaps[j] + 1
        /\ \E i \in DOMAIN gaps : gaps[i] > 1

\* The rule beaconing_detected: "Process connecting to external IPs at regular
\* intervals".  When a process all of whose connections so far are at regular
\* intervals connects and the rules run, the verdict is that rule's, however
\* the longer and shorter gaps are mixed.  (One early gap that differs by more
\* stays in the average for ever: then the rule may be silent.)
PeriodicIsCaught ==
    [][step = "rules" /\ step' # "rules" /\ Evt.type = EVENT_CONNECT
          /\ Regular(profiles[Evt.pid].connections)
       => anomaly' # None /\ anomaly'.rule = "beaconing_detected"]_vars

\* The rule reverse_shell_port: "Connection to known reverse shell / C2 port".
\* A connection to such a port, once the rules run, is flagged.
BadPortIsFlagged ==
    [][step = "rules" /\ step' # "rules" /\ Evt.type = EVENT_CONNECT
          /\ sample.at56 \in BadPorts
       => anomaly' # None]_vars
=============================================================================
