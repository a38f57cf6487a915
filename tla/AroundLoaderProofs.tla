------------------------- MODULE AroundLoaderProofs -------------------------
(***************************************************************************)
(* Theorems about what surrounds the loader's loop: LoaderLife, in which   *)
(* the process ends and is started again, and StatsView, whose handlers    *)
(* read what the loop writes.  Either way the loop's own steps are those   *)
(* of Loader, of which LoaderProofs has proved what is used here.          *)
(***************************************************************************)
EXTENDS LoaderLife, StatsView, LoaderProofs

-----------------------------------------------------------------------------
(* The life of the loader. *)

\* The steps of a life that are steps of the loader while main waits.
Inside == WatchedCall \/ Processes \/ LiveLoop \/ LiveServer \/ LifeTick

\* The steps of main that leave the loader's variables alone.
Outside == Attach \/ Launch \/ CloseLink \/ Signalled

LEMMA LifeSteps ==
  ASSUME [LifeNext]_<<allVars, lifeVars>>
  PROVE  \/ Begin
         \/ Die
         \/ UNCHANGED allVars /\ (Outside \/ UNCHANGED lifeVars)
         \/ Inside /\ UNCHANGED lifeVars /\ [LoaderNext]_allVars
<1>1. CASE WatchedCall
  BY <1>1 DEF WatchedCall, LoaderNext, Inside
<1>2. CASE Processes
  BY <1>2 DEF Processes, LoaderNext, Inside
<1>3. CASE LiveLoop \/ LiveServer \/ LifeTick
  BY <1>3 DEF LiveLoop, LiveServer, LifeTick, LoaderNext, Inside
<1>4. CASE Main \/ Signalled \/ Fatal
  BY <1>4 DEF Main, NothingAttached, ExitMain, Fatal, Outside, Attach, Launch,
              CloseLink, Signalled
<1>5. CASE UNCHANGED <<allVars, lifeVars>>
  BY <1>5
<1> QED BY <1>1, <1>2, <1>3, <1>4, <1>5 DEF LifeNext

LEMMA NineAttachments == Len(Attachments) = 9 /\ DOMAIN Attachments = 1..9
  BY DEF Attachments

\* What a process that ends leaves behind.
LEMMA DieFacts ==
  ASSUME LoaderTypeOK, Die
  PROVE  /\ LoaderTypeOK'
         /\ phase' = "down" /\ at' = 1 /\ attached' = {}
         /\ profiles' = << >> /\ processed' = 0 /\ step' = "idle"
         /\ anomaly' = None /\ ring' = << >>
<1>1. ConfigTypeOK'
  <2>1. NoPost \in [new : Config, left : SUBSET Fields]
    BY DEF NoPost, ZeroConfig, Config
  <2>2. post' \in [Posters -> [new : Config, left : SUBSET Fields]]
    BY <2>1 DEF Die
  <2> QED BY <2>2 DEF Die, LoaderTypeOK, TypeOK, ConfigTypeOK
<1>2. DOMAIN profiles' = {}
  BY EmptySeq DEF Die
<1>3. TypeOK'
  BY <1>1, <1>2, EngineAssumption DEF Die, LoaderTypeOK, TypeOK
<1>4. /\ Len(ring') = 0 /\ Len(alertChan') = 0
      /\ ring' \in Seq([raw : Samples, gen : 0..MaxGen])
      /\ alertChan' \in Seq([pid : Pids, rule : RuleNames,
                             action : {"alert", "block", "kill"}])
  BY EmptySeq DEF Die
<1> QED BY <1>3, <1>4, LoaderAssumption DEF Die, LoaderTypeOK, Handling

LEMMA LifeTypeStep ==
  ASSUME LifeTypeOK, [LifeNext]_<<allVars, lifeVars>>
  PROVE  LifeTypeOK'
<1>0. /\ LoaderTypeOK
      /\ phase \in {"down", "attaching", "running", "stopping"}
      /\ at \in 1..10 /\ attached \subseteq Attachable
      /\ phase = "running" => attached # {}
      /\ ~Alive => processed = 0 /\ step = "idle" /\ profiles = << >>
      /\ phase = "down" => attached = {} /\ ring = << >>
  BY NineAttachments DEF LifeTypeOK
<1>1. CASE Begin
  <2>1. config' \in Config
    BY <1>1, ConfigAssumption DEF Begin
  <2>2. TypeOK'
    BY <1>0, <1>1, <2>1 DEF Begin, LoaderTypeOK, TypeOK, ConfigTypeOK, engineVars
  <2>3. LoaderTypeOK'
    BY <1>0, <1>1, <2>2 DEF Begin, LoaderTypeOK, Handling, engineVars, loaderVars,
                            alertVars, killVars
  <2> QED BY <1>0, <1>1, <2>3, NineAttachments
          DEF Begin, LifeTypeOK, Alive, engineVars, loaderVars
<1>2. CASE Die
  BY <1>0, <1>2, DieFacts, NineAttachments DEF LifeTypeOK, Alive
<1>3. CASE UNCHANGED allVars /\ (Outside \/ UNCHANGED lifeVars)
  <2>1. LoaderTypeOK'
    BY <1>0, <1>3, LoaderTypeStep
  <2>2. UNCHANGED <<processed, step, profiles, ring>>
    BY <1>3 DEF allVars, vars, engineVars, loaderVars
  <2>3. CASE Attach
    <3>1. /\ phase = "attaching" /\ phase' = phase
          /\ at \in 1..9 /\ at' = at + 1 /\ attached' \subseteq Attachable
      BY <1>0, <2>3, NineAttachments DEF Attach
    <3> QED BY <1>0, <2>1, <2>2, <3>1, NineAttachments DEF LifeTypeOK, Alive
  <2>4. CASE Launch \/ Signalled
    BY <1>0, <2>1, <2>2, <2>4, NineAttachments
    DEF Launch, Signalled, LifeTypeOK, Alive
  <2>5. CASE CloseLink
    <3>1. phase = "stopping" /\ phase' = phase /\ at' = at /\ attached' \subseteq attached
      BY <2>5 DEF CloseLink
    <3> QED BY <1>0, <2>1, <2>2, <3>1, NineAttachments DEF LifeTypeOK, Alive
  <2>6. CASE UNCHANGED lifeVars
    BY <1>0, <2>1, <2>2, <2>6, NineAttachments DEF LifeTypeOK, Alive, lifeVars
  <2> QED BY <1>3, <2>3, <2>4, <2>5, <2>6 DEF Outside
<1>4. CASE Inside /\ UNCHANGED lifeVars /\ [LoaderNext]_allVars
  <2>1. LoaderTypeOK'
    BY <1>0, <1>4, LoaderTypeStep
  <2>2. UNCHANGED <<phase, at, attached>>
    BY <1>4 DEF lifeVars
  \* Nobody but a loader that runs reads the ring and writes a profile ...
  <2>3. ~Alive => UNCHANGED <<processed, step, profiles>>
    BY <1>4 DEF Inside, WatchedCall, Processes, LiveLoop, LiveServer, LifeTick,
       LoaderTick, Tick, Syscall, Exit, Reuse, vars, engineVars
  \* ... and no record is submitted by a program that is not attached.
  <2>4. phase = "down" => ring' = ring
    <3>1. attached = {} => Submitted = {}
      BY DEF Submitted
    <3> QED BY <1>0, <1>4, <3>1
            DEF Inside, WatchedCall, Processes, LiveLoop, LiveServer, LifeTick,
                Alive, LoaderTick, Exit, Reuse, loaderVars
  <2> QED BY <1>0, <2>1, <2>2, <2>3, <2>4, NineAttachments DEF LifeTypeOK, Alive
<1> QED BY <1>1, <1>2, <1>3, <1>4, LifeSteps

\* Starting, stopping and dying keep every variable in its type; a loader that
\* is not running has read nothing, and one that is down holds nothing.
THEOREM LifeTypeCorrect == LifeSpec => []LifeTypeOK
<1>1. LifeInit => LifeTypeOK
  BY LoaderTypeInit, NineAttachments, EmptySeq
  DEF LifeInit, LoaderInit, EngineInit, LifeTypeOK, Alive
<1>2. LifeTypeOK /\ [LifeNext]_<<allVars, lifeVars>> => LifeTypeOK'
  BY LifeTypeStep
<1> QED BY <1>1, <1>2, PTL DEF LifeSpec

-----------------------------------------------------------------------------
(* What of Loader holds in every life. *)

\* What KillsDecided needs of a start: nobody was killed late before it.
NoneLate == phase = "down" => lateKills = 0

LEMMA LifeAccountsStep ==
  ASSUME LifeTypeOK, Accounted, KillsDecided, NoneLate,
         [LifeNext]_<<allVars, lifeVars>>
  PROVE  Accounted' /\ KillsDecided' /\ NoneLate'
<1>0. LoaderTypeOK
  BY DEF LifeTypeOK
<1>1. CASE Begin
  <2>1. UNCHANGED <<profiles, anomaly, acting, detected, stored, alertChan, dropped,
                    lateKills, processesKilled>>
    BY <1>1 DEF Begin, engineVars, loaderVars, alertVars, killVars
  <2>2. phase = "down" /\ phase' # "down"
    BY <1>1 DEF Begin
  <2> QED BY <2>1, <2>2 DEF Accounted, InFlight, Handling, KillsDecided, NoneLate
<1>2. CASE Die
  <2>1. /\ profiles' = << >> /\ anomaly' = None /\ acting' = "no"
        /\ alertChan' = << >> /\ stored' = 0 /\ dropped' = 0 /\ detected' = 0
        /\ processesKilled' = 0 /\ lateKills' = 0
    BY <1>2 DEF Die
  <2>2. Accounted'
    BY <2>1, HeldOfNone, EmptySeq DEF Accounted, InFlight, Handling
  <2> QED BY <2>1, <2>2 DEF KillsDecided, NoneLate
<1>3. CASE UNCHANGED allVars /\ (Outside \/ UNCHANGED lifeVars)
  <2>1. UNCHANGED lateKills /\ (phase' = "down" => phase = "down")
    BY <1>3 DEF allVars, loaderVars, killVars, Outside, Attach, Launch, CloseLink,
                Signalled, lifeVars
  <2> QED BY <1>0, <1>3, <2>1, AccountedStep, KillsDecidedStep DEF NoneLate
<1>4. CASE Inside /\ UNCHANGED lifeVars /\ [LoaderNext]_allVars
  <2>1. phase' = phase
    BY <1>4 DEF lifeVars
  \* Only a loader that runs kills, or is told not to.
  <2>2. phase = "down" => lateKills' = lateKills
    BY <1>4 DEF Inside, WatchedCall, Processes, LiveLoop, LiveServer, LifeTick, Alive,
                LoaderTick, Syscall, Exit, Reuse, loaderVars, killVars
  <2> QED BY <1>0, <1>4, <2>1, <2>2, AccountedStep, KillsDecidedStep DEF NoneLate
<1> QED BY <1>1, <1>2, <1>3, <1>4, LifeSteps

\* The counters and the switch are right in every life of the loader, wherever
\* the one before it was cut off: no anomaly of a former life is counted in this
\* one, and no kill of a former one counts as late.
THEOREM EveryLifeAccounts == LifeSpec => [](AnomalyAccounting /\ DisarmStopsKills)
<1>1. LifeInit => Accounted /\ KillsDecided /\ NoneLate
  BY AccountedInit DEF LifeInit, LoaderInit, KillsDecided, NoneLate
<1>2. LifeTypeOK /\ (Accounted /\ KillsDecided /\ NoneLate)
      /\ [LifeNext]_<<allVars, lifeVars>>
      => (Accounted /\ KillsDecided /\ NoneLate)'
  BY LifeAccountsStep
<1>3. Accounted /\ KillsDecided /\ NoneLate => AnomalyAccounting /\ DisarmStopsKills
  BY DEF Accounted, AnomalyAccounting, InFlight, Held, KillsDecided, DisarmStopsKills
<1> QED BY <1>1, <1>2, <1>3, LifeTypeCorrect, PTL DEF LifeSpec

-----------------------------------------------------------------------------
(* What the handlers read. *)

\* The profile q is p, or p later on, as far as a row shows it.
Later(p, q) ==
    p \in Profile /\ q \in Profile /\ \A i \in 1..6 : Row(p)[i] <= Row(q)[i]

\* The profiles qs are the profiles ps, or those later on.
Since(ps, qs) == \A pid \in DOMAIN ps : pid \in DOMAIN qs /\ Later(ps[pid], qs[pid])

Suspect(p) == p.anomalies # << >>

\* Where the handler of GET /api/v1/processes puts its rows together, and where
\* either handler reads profiles without the lock.
InRows == view.at \in {"rows", "row", "processes"}
Reading == view.at \in {"rows", "row", "processes", "count", "stats"}

ViewShape ==
    /\ view = [at |-> view.at, left |-> view.left, total |-> view.total,
               alerts |-> view.alerts, withAlerts |-> view.withAlerts,
               rows |-> view.rows, pid |-> view.pid]
    /\ start = [profiles |-> start.profiles, lengths |-> start.lengths]
    /\ view.left \subseteq DOMAIN profiles
    /\ view.withAlerts \in Nat
    /\ view.at \notin {"count", "stats"} => view.withAlerts = 0
    /\ view.at = "row" =>
          view.pid \in DOMAIN view.rows \cap DOMAIN profiles
    /\ ~InRows => DOMAIN view.rows = {}

\* The profiles of the request and those of before Analyze are earlier ones;
\* what the handler may read without the lock is not older than its request.
Pasts ==
    /\ Since(start.profiles, profiles)
    /\ Since(prior, profiles)
    /\ Unlocked => prior = << >>
    /\ Reading => \A pid \in DOMAIN start.profiles \cap DOMAIN prior :
                     Later(start.profiles[pid], prior[pid])

\* The lengths the store had; the suspects of the request that are no longer
\* left to count were counted, and those counted are suspects now.
Figures ==
    /\ kept \in Nat /\ kept <= stored
    /\ view.at # "no" => kept \in start.lengths
    /\ view.at \in {"alerts", "GetProfiles", "count", "stats"} =>
          view.total \in Cardinality(DOMAIN start.profiles)..Cardinality(DOMAIN profiles)
    /\ view.at \in {"GetProfiles", "count", "stats"} => view.alerts \in start.lengths
    /\ view.at \in {"count", "stats"} =>
          /\ Cardinality(Suspects(start.profiles) \ view.left) <= view.withAlerts
          /\ view.withAlerts <= Cardinality(Suspects(profiles) \ view.left)
    /\ view.at = "stats" => view.left = {}

\* The row that is being read.
Open(pid) == view.at = "row" /\ view.pid = pid

\* What was read of a row is not ahead of the profile, and not behind that of
\* the request.
RowRead(row, pid) ==
    /\ row \in Seq(Nat) /\ Len(row) <= 6
    /\ IF Open(pid) THEN Len(row) < 6 ELSE Len(row) = 6
    /\ \A i \in 1..Len(row) :
          /\ row[i] <= Row(profiles[pid])[i]
          /\ pid \in DOMAIN start.profiles => Row(start.profiles[pid])[i] <= row[i]

RowsRead ==
    InRows =>
       /\ DOMAIN start.profiles \subseteq view.left \cup DOMAIN view.rows
       /\ view.at = "processes" => view.left = {}
       /\ \A pid \in DOMAIN view.rows :
             pid \in DOMAIN profiles /\ RowRead(view.rows[pid], pid)

\* Once alerts were counted there is a suspect; until one is counted, one that
\* looks like it whenever it is read is left to count.
SuspectsLeft ==
    view.alerts > 0 =>
       /\ view.at = "GetProfiles" =>
             \E pid \in DOMAIN profiles : Suspect(profiles[pid])
       /\ view.at = "count" /\ view.withAlerts = 0 =>
             \E pid \in view.left :
                /\ Suspect(profiles[pid])
                /\ pid \in DOMAIN prior => Suspect(prior[pid])
       /\ view.at = "stats" => view.withAlerts > 0

ViewInv ==
    /\ LoaderTypeOK /\ Accounted
    /\ ViewShape /\ Pasts /\ Figures /\ RowsRead /\ SuspectsLeft

LEMMA RowNumbers ==
  ASSUME NEW p \in Profile
  PROVE  /\ \A i \in 1..6 : Row(p)[i] \in Nat
         /\ Row(p)[6] = Len(p.anomalies) /\ Len(p.anomalies) \in Nat
         /\ Suspect(p) <=> Row(p)[6] > 0
<1>1. /\ p.anomalies \in Seq(AnomalyType) /\ p.connections \in Seq(Nat)
      /\ p.execCount \in Nat /\ p.fileWriteCount \in Nat /\ p.suspicionScore \in Nat
  BY DEF Profile
<1>2. Len(p.anomalies) \in Nat /\ Len(p.connections) \in Nat
  BY <1>1, LenProperties
<1>3. /\ Row(p)[1] = p.execCount /\ Row(p)[2] = Len(p.connections)
      /\ Row(p)[3] = p.fileWriteCount /\ Row(p)[4] = p.suspicionScore
      /\ Row(p)[5] = IF p.state = "baseline" THEN 1 ELSE 0
      /\ Row(p)[6] = Len(p.anomalies)
  BY DEF Row
<1>4. Suspect(p) <=> Len(p.anomalies) > 0
  BY <1>1, <1>2, EmptySeq DEF Suspect
<1>5. ASSUME NEW i \in 1..6 PROVE Row(p)[i] \in Nat
  <2>1. i \in {1, 2, 3, 4, 5, 6}
    OBVIOUS
  <2> QED BY <1>1, <1>2, <1>3, <2>1
<1> QED BY <1>2, <1>3, <1>4, <1>5

LEMMA LaterSelf == \A p \in Profile : Later(p, p)
<1> SUFFICES ASSUME NEW p \in Profile PROVE Later(p, p)
  OBVIOUS
<1>1. \A i \in 1..6 : Row(p)[i] \in Nat
  BY RowNumbers
<1> QED BY <1>1 DEF Later

LEMMA LaterTransitive ==
  ASSUME NEW p, NEW q, NEW r, Later(p, q), Later(q, r)
  PROVE  Later(p, r)
<1>1. p \in Profile /\ q \in Profile /\ r \in Profile
  BY DEF Later
<1>2. \A i \in 1..6 : Row(p)[i] \in Nat /\ Row(q)[i] \in Nat /\ Row(r)[i] \in Nat
  BY <1>1, RowNumbers
<1>3. \A i \in 1..6 : Row(p)[i] <= Row(q)[i] /\ Row(q)[i] <= Row(r)[i]
  BY DEF Later
<1>4. \A i \in 1..6 : Row(p)[i] <= Row(r)[i]
  BY <1>2, <1>3
<1> QED BY <1>1, <1>4 DEF Later

LEMMA SinceTransitive ==
  ASSUME NEW ps, NEW qs, NEW rs, Since(ps, qs), Since(qs, rs)
  PROVE  Since(ps, rs)
  BY LaterTransitive DEF Since

\* A suspect stays one.
LEMMA LaterSuspect ==
  ASSUME NEW p, NEW q, Later(p, q), Suspect(p)
  PROVE  Suspect(q)
<1>1. p \in Profile /\ q \in Profile /\ Row(p)[6] <= Row(q)[6]
  BY DEF Later
<1>2. Row(p)[6] \in Nat /\ Row(q)[6] \in Nat /\ Row(p)[6] > 0
  BY <1>1, RowNumbers
<1>3. Row(q)[6] > 0
  BY <1>1, <1>2
<1> QED BY <1>1, <1>3, RowNumbers

LEMMA SinceSuspects ==
  ASSUME NEW ps, NEW qs, Since(ps, qs)
  PROVE  Suspects(ps) \subseteq Suspects(qs)
<1> SUFFICES ASSUME NEW pid \in Suspects(ps) PROVE pid \in Suspects(qs)
  OBVIOUS
<1>1. pid \in DOMAIN ps /\ Suspect(ps[pid])
  BY DEF Suspects, Suspect
<1>2. pid \in DOMAIN qs /\ Later(ps[pid], qs[pid])
  BY <1>1 DEF Since
<1> QED BY <1>1, <1>2, LaterSuspect DEF Suspects, Suspect

\* What Grows says of two profiles is what Later says of their rows.
LEMMA GrowsLater ==
  ASSUME NEW p \in Profile, NEW q \in Profile, Grows(p, q)
  PROVE  Later(p, q)
<1>1. /\ p.execCount \in Nat /\ q.execCount \in Nat
      /\ p.fileWriteCount \in Nat /\ q.fileWriteCount \in Nat
      /\ p.suspicionScore \in Nat /\ q.suspicionScore \in Nat
      /\ p.connections \in Seq(Nat) /\ q.connections \in Seq(Nat)
      /\ p.anomalies \in Seq(AnomalyType) /\ q.anomalies \in Seq(AnomalyType)
  BY DEF Profile
<1>2. /\ Len(p.connections) \in Nat /\ Len(q.connections) \in Nat
      /\ Len(p.anomalies) \in Nat /\ Len(q.anomalies) \in Nat
  BY <1>1, LenProperties
<1>3. ASSUME NEW i \in 1..6 PROVE Row(p)[i] <= Row(q)[i]
  <2>1. CASE i = 1
    BY <1>1, <2>1 DEF Row, Grows
  <2>2. CASE i = 2
    BY <1>2, <2>2 DEF Row, Grows
  <2>3. CASE i = 3
    BY <1>1, <2>3 DEF Row, Grows
  <2>4. CASE i = 4
    BY <1>1, <2>4 DEF Row, Grows
  <2>5. CASE i = 5
    BY <2>5 DEF Row, Grows
  <2>6. CASE i = 6
    BY <1>2, <2>6 DEF Row, Grows
  <2> QED BY <2>1, <2>2, <2>3, <2>4, <2>5, <2>6
<1> QED BY <1>3 DEF Later

\* What a step of the loader does to what the handlers look at.
LEMMA LoopSince ==
  ASSUME LoaderTypeOK, [LoaderNext]_allVars
  PROVE  Since(profiles, profiles') /\ stored \in Nat /\ stored' \in {stored, stored + 1}
<1>1. TypeOK /\ TypeOK' /\ [EngineNext]_vars /\ stored \in Nat
  BY EngineStep, TypeStep DEF LoaderTypeOK
<1>2. ASSUME NEW pid \in DOMAIN profiles
      PROVE  pid \in DOMAIN profiles' /\ Later(profiles[pid], profiles'[pid])
  <2>1. pid \in DOMAIN profiles' /\ Grows(profiles[pid], profiles'[pid])
    BY <1>1, ProfilesGrow
  <2>2. profiles[pid] \in Profile /\ profiles'[pid] \in Profile
    BY <1>1, <2>1 DEF TypeOK
  <2> QED BY <2>1, <2>2, GrowsLater
<1>3. stored' \in {stored, stored + 1}
  BY DEF LoaderNext, EventLoop, Syscall, Exit, Reuse, ReadEvent, AnalyzeMatch,
         AnalyzeOther, NothingFound, ReportAnomaly, DecideToKill, DecideToSpare,
         KillProcess, ConsumeAlert, LoaderConfig, LoaderTick, allVars, loaderVars,
         alertVars
<1> QED BY <1>1, <1>2, <1>3 DEF Since

\* An alert that was stored is of an anomaly in some profile.
LEMMA StoredHasSuspect ==
  ASSUME LoaderTypeOK, Accounted, stored > 0
  PROVE  \E pid \in DOMAIN profiles : Suspect(profiles[pid])
<1> DEFINE S == DOMAIN profiles
           f == Held(profiles)
<1>1. /\ IsFiniteSet(S) /\ \A pid \in S : profiles[pid] \in Profile
      /\ SumFunction(f) = detected + InFlight
      /\ detected = stored + Len(alertChan) + dropped
      /\ stored \in Nat /\ dropped \in Nat /\ Len(alertChan) \in Nat
  BY LenProperties DEF LoaderTypeOK, TypeOK, Accounted
<1>2. SumFunction(f) > 0
  <2>1. InFlight \in {0, 1}
    BY DEF InFlight
  <2> HIDE DEF f
  <2> QED BY <1>1, <2>1
<1>3. ASSUME \A pid \in S : ~Suspect(profiles[pid]) PROVE FALSE
  <2>1. \A pid \in S : f[pid] = 0
    <3> SUFFICES ASSUME NEW pid \in S PROVE f[pid] = 0
      OBVIOUS
    <3>1. profiles[pid].anomalies = << >>
      BY <1>3 DEF Suspect
    <3> QED BY <3>1, EmptySeq DEF Held
  <2>2. DOMAIN f = S
    BY DEF Held
  <2>3. Cardinality(S) \in Nat
    BY <1>1, FS_CardinalityType
  <2> HIDE DEF f, S
  <2>4. SumFunctionOnSet(f, S) = Cardinality(S) * 0
    BY <1>1, <2>1, SumOfEqual
  <2>5. SumFunction(f) = 0
    BY <2>2, <2>3, <2>4 DEF SumFunction
  <2> QED BY <1>2, <2>5
<1> QED BY <1>3

\* What a handler may find of a profile is not later than the profile, not
\* earlier than the request, and of a suspect.
LEMMA SeenFacts ==
  ASSUME LoaderTypeOK, Pasts, NEW pid \in DOMAIN profiles, NEW p \in Seen(pid)
  PROVE  /\ Later(p, profiles[pid])
         /\ p = profiles[pid] \/ (pid \in DOMAIN prior /\ p = prior[pid])
         /\ Reading /\ pid \in DOMAIN start.profiles => Later(start.profiles[pid], p)
<1>1. profiles[pid] \in Profile
  BY DEF LoaderTypeOK, TypeOK
<1>2. p = profiles[pid] \/ (pid \in DOMAIN prior /\ p = prior[pid])
  BY DEF Seen
<1>3. CASE p = profiles[pid]
  BY <1>1, <1>2, <1>3, LaterSelf DEF Pasts, Since
<1>4. CASE pid \in DOMAIN prior /\ p = prior[pid]
  BY <1>2, <1>4 DEF Pasts, Since
<1> QED BY <1>2, <1>3, <1>4

LEMMA SuspectsFinite ==
  ASSUME NEW ps, IsFiniteSet(DOMAIN ps), NEW left
  PROVE  /\ IsFiniteSet(Suspects(ps) \ left)
         /\ Cardinality(Suspects(ps) \ left) \in Nat
<1>1. Suspects(ps) \ left \in SUBSET DOMAIN ps
  BY DEF Suspects
<1> QED BY <1>1, FS_Subset, FS_CardinalityType

-----------------------------------------------------------------------------
(* The steps of the loop, seen from a handler. *)

LoopStep ==
    /\ [LoaderNext]_allVars
    /\ UNCHANGED view
    /\ StoreAlert
    /\ \E ls : /\ start' = [profiles |-> start.profiles, lengths |-> ls]
               /\ start.lengths \subseteq ls
               /\ view.at # "no" => kept' \in ls
    /\ \/ Unlocked' /\ prior' = << >>
       \/ ~Unlocked' /\ prior' = profiles
       \/ ~Unlocked' /\ ~Unlocked /\ prior' = prior
       \/ UNCHANGED <<prior, step, profiles>>

LEMMA ViewSteps ==
  ASSUME ViewInv, [ViewNext]_<<allVars, viewVars>>
  PROVE  LoopStep \/ (Handler /\ UNCHANGED <<allVars, kept, prior>>)
<1>0. start = [profiles |-> start.profiles, lengths |-> start.lengths]
      /\ (view.at # "no" => kept \in start.lengths)
  BY DEF ViewInv, ViewShape, Figures
<1>1. CASE UNCHANGED <<allVars, viewVars>>
  <2>1. UNCHANGED <<view, kept, start, prior, step, profiles, stored>>
    BY <1>1 DEF allVars, vars, engineVars, loaderVars, alertVars, viewVars
  <2>2. StoreAlert
    BY <2>1 DEF StoreAlert
  <2>3. \E ls : /\ start' = [profiles |-> start.profiles, lengths |-> ls]
                /\ start.lengths \subseteq ls
                /\ view.at # "no" => kept' \in ls
    BY <1>0, <2>1
  <2> QED BY <1>1, <2>1, <2>2, <2>3 DEF LoopStep
<1>2. CASE /\ LoaderNext
           /\ UNCHANGED view
           /\ StoreAlert
           /\ start' = IF view.at = "no" THEN start
                       ELSE [start EXCEPT !.lengths = @ \cup {kept'}]
           /\ prior' = IF Unlocked' THEN << >> ELSE IF Unlocked THEN profiles ELSE prior
  <2>1. \E ls : /\ start' = [profiles |-> start.profiles, lengths |-> ls]
                /\ start.lengths \subseteq ls
                /\ view.at # "no" => kept' \in ls
    <3>1. CASE view.at = "no"
      BY <1>0, <1>2, <3>1
    <3>2. CASE view.at # "no"
      <4> DEFINE ls == start.lengths \cup {kept'}
      <4>1. start' = [start EXCEPT !.lengths = ls]
        BY <1>2, <3>2
      <4>2. start.lengths \subseteq ls /\ kept' \in ls
        OBVIOUS
      <4> HIDE DEF ls
      <4>3. start' = [profiles |-> start.profiles, lengths |-> ls]
        BY <1>0, <4>1
      <4> QED BY <4>2, <4>3
    <3> QED BY <3>1, <3>2
  <2> QED BY <1>2, <2>1 DEF LoopStep
<1> QED BY <1>1, <1>2 DEF ViewNext

\* The request's profiles stay, the lengths since then grow.
LEMMA LoopStart ==
  ASSUME LoaderTypeOK, LoopStep
  PROVE  /\ Since(profiles, profiles') /\ UNCHANGED view
         /\ start'.profiles = start.profiles
         /\ start.lengths \subseteq start'.lengths
         /\ view.at # "no" => kept' \in start'.lengths
         /\ start' = [profiles |-> start'.profiles, lengths |-> start'.lengths]
<1>1. PICK ls : /\ start' = [profiles |-> start.profiles, lengths |-> ls]
               /\ start.lengths \subseteq ls
               /\ view.at # "no" => kept' \in ls
  BY DEF LoopStep
<1> QED BY <1>1, LoopSince DEF LoopStep

LEMMA PastsLoop ==
  ASSUME LoaderTypeOK, Pasts, LoopStep
  PROVE  Pasts'
<1>1. Since(profiles, profiles') /\ UNCHANGED view /\ start'.profiles = start.profiles
  BY LoopStart
<1>2. Since(start.profiles, profiles')
  BY <1>1, SinceTransitive DEF Pasts
<1>3. CASE prior' = << >>
  <2>1. DOMAIN prior' = {}
    BY <1>3, EmptySeq
  <2> QED BY <1>1, <1>2, <1>3, <2>1 DEF Pasts, Since, Reading
<1>4. CASE prior' = profiles /\ ~Unlocked'
  BY <1>1, <1>2, <1>4 DEF Pasts, Since, Reading
<1>5. CASE prior' = prior /\ (~Unlocked' \/ UNCHANGED <<step, profiles>>)
  <2>1. Since(prior', profiles')
    BY <1>1, <1>5, SinceTransitive DEF Pasts
  <2>2. Unlocked' => prior' = << >>
    BY <1>5 DEF Pasts, Unlocked
  <2>3. Reading' = Reading
    BY <1>1 DEF Reading
  <2> QED BY <1>1, <1>2, <1>5, <2>1, <2>2, <2>3 DEF Pasts
<1> QED BY <1>3, <1>4, <1>5 DEF LoopStep

\* The cut never leaves more alerts than were received.
LEMMA StoreBounded ==
  ASSUME kept \in Nat, stored \in Nat, kept <= stored,
         stored' \in {stored, stored + 1}, StoreAlert
  PROVE  kept' \in Nat /\ kept' <= stored'
<1>1. StoreMax \in Nat /\ StoreKeep \in Nat /\ StoreKeep <= StoreMax
  BY StoreAssumption
<1>2. CASE stored' = stored
  BY <1>2 DEF StoreAlert
<1>3. CASE stored' = stored + 1 /\ stored' # stored
  BY <1>1, <1>3 DEF StoreAlert
<1> QED BY <1>2, <1>3

LEMMA FiguresLoop ==
  ASSUME LoaderTypeOK, Accounted, Accounted', ViewShape, Pasts, Figures, LoopStep
  PROVE  Figures'
<1>1. /\ Since(profiles, profiles') /\ UNCHANGED view
      /\ start'.profiles = start.profiles /\ start.lengths \subseteq start'.lengths
      /\ view.at # "no" => kept' \in start'.lengths
  BY LoopStart
<1>2. kept' \in Nat /\ kept' <= stored'
  BY LoopSince, StoreBounded DEF LoopStep, Figures
<1>3. /\ DOMAIN start.profiles \subseteq DOMAIN profiles
      /\ DOMAIN profiles \subseteq DOMAIN profiles'
      /\ IsFiniteSet(DOMAIN profiles) /\ IsFiniteSet(DOMAIN profiles')
  BY <1>1 DEF Since, Pasts, Accounted
<1> DEFINE m == Cardinality(DOMAIN start.profiles)
           n == Cardinality(DOMAIN profiles)
           k == Cardinality(DOMAIN profiles')
           S == Suspects(profiles) \ view.left
           T == Suspects(profiles') \ view.left
<1>4. m \in Nat /\ n \in Nat /\ k \in Nat /\ n <= k
  BY <1>3, FS_Subset, FS_CardinalityType
<1>5. \A t \in m..n : t \in m..k
  <2> HIDE DEF m, n, k
  <2> QED BY <1>4
<1>6. Cardinality(S) \in Nat /\ Cardinality(T) \in Nat /\ Cardinality(S) <= Cardinality(T)
  <2>1. S \subseteq T
    BY <1>1, SinceSuspects
  <2>2. IsFiniteSet(S) /\ IsFiniteSet(T)
    BY <1>3, SuspectsFinite
  <2> HIDE DEF S, T
  <2> QED BY <2>1, <2>2, FS_Subset, FS_CardinalityType
<1>7. view.withAlerts <= Cardinality(S) => view.withAlerts <= Cardinality(T)
  <2>1. view.withAlerts \in Nat
    BY DEF ViewShape
  <2> HIDE DEF S, T
  <2> QED BY <1>6, <2>1
<1> QED BY <1>1, <1>2, <1>5, <1>7 DEF Figures

LEMMA RowsLoop ==
  ASSUME LoaderTypeOK, RowsRead, LoopStep
  PROVE  RowsRead'
<1>1. Since(profiles, profiles') /\ UNCHANGED view /\ start'.profiles = start.profiles
  BY LoopStart
<1>2. ASSUME InRows, NEW pid \in DOMAIN view.rows
      PROVE  pid \in DOMAIN profiles' /\ RowRead(view.rows[pid], pid)'
  <2> DEFINE row == view.rows[pid]
             p == profiles[pid]
             q == profiles'[pid]
  <2>1. /\ pid \in DOMAIN profiles /\ RowRead(row, pid)
        /\ pid \in DOMAIN profiles' /\ Later(p, q)
    BY <1>1, <1>2 DEF RowsRead, Since
  <2>2. \A i \in 1..6 : Row(p)[i] \in Nat /\ Row(q)[i] \in Nat /\ Row(p)[i] <= Row(q)[i]
    BY <2>1, RowNumbers DEF Later
  <2>3. \A i \in 1..Len(row) : i \in 1..6 /\ row[i] \in Nat /\ row[i] <= Row(p)[i]
    <3>1. row \in Seq(Nat) /\ Len(row) <= 6 /\ Len(row) \in Nat
      BY <2>1, LenProperties DEF RowRead
    <3> HIDE DEF row
    <3> QED BY <2>1, <3>1, ElementOfSeq DEF RowRead
  <2>4. \A i \in 1..Len(row) : row[i] <= Row(q)[i]
    <3> SUFFICES ASSUME NEW i \in 1..Len(row) PROVE row[i] <= Row(q)[i]
      OBVIOUS
    <3>1. i \in 1..6 /\ row[i] \in Nat /\ row[i] <= Row(p)[i]
      BY <2>3
    <3>2. Row(p)[i] \in Nat /\ Row(q)[i] \in Nat /\ Row(p)[i] <= Row(q)[i]
      BY <2>2, <3>1
    <3> HIDE DEF row, p, q
    <3> QED BY <3>1, <3>2
  <2>5. Open(pid)' = Open(pid) /\ view'.rows[pid] = row
    BY <1>1 DEF Open
  <2> QED BY <1>1, <2>1, <2>4, <2>5 DEF RowRead
<1> QED BY <1>1, <1>2 DEF RowsRead, InRows

LEMMA SuspectsLoop ==
  ASSUME LoaderTypeOK, ViewShape, SuspectsLeft, LoopStep
  PROVE  SuspectsLeft'
<1>1. Since(profiles, profiles') /\ UNCHANGED view
  BY LoopStart
<1>2. ASSUME NEW pid \in DOMAIN profiles, Suspect(profiles[pid])
      PROVE  pid \in DOMAIN profiles' /\ Suspect(profiles'[pid])
  BY <1>1, <1>2, LaterSuspect DEF Since
<1>3. ASSUME NEW pid \in DOMAIN profiles, Suspect(profiles[pid]),
             pid \in DOMAIN prior => Suspect(prior[pid])
      PROVE  pid \in DOMAIN prior' => Suspect(prior'[pid])
  <2>1. prior' = << >> => DOMAIN prior' = {}
    BY EmptySeq
  <2>2. prior' = << >> \/ prior' = profiles \/ prior' = prior
    BY DEF LoopStep
  <2> QED BY <1>3, <2>1, <2>2
<1>4. ASSUME view.alerts > 0, view.at = "GetProfiles"
      PROVE  \E pid \in DOMAIN profiles' : Suspect(profiles'[pid])
  BY <1>2, <1>4 DEF SuspectsLeft
<1>5. ASSUME view.alerts > 0, view.at = "count", view.withAlerts = 0
      PROVE  \E pid \in view.left :
                Suspect(profiles'[pid]) /\ (pid \in DOMAIN prior' => Suspect(prior'[pid]))
  <2>1. PICK pid \in view.left :
           Suspect(profiles[pid]) /\ (pid \in DOMAIN prior => Suspect(prior[pid]))
    BY <1>5 DEF SuspectsLeft
  <2>2. pid \in DOMAIN profiles
    BY DEF ViewShape
  <2> QED BY <1>2, <1>3, <2>1, <2>2
<1> QED BY <1>1, <1>4, <1>5 DEF SuspectsLeft, Suspect

LEMMA ViewInvLoop ==
  ASSUME ViewInv, LoopStep
  PROVE  ViewInv'
<1>1. LoaderTypeOK' /\ Accounted'
  BY LoaderTypeStep, AccountedStep DEF ViewInv, LoopStep
<1>2. ViewShape'
  <2>1. /\ DOMAIN profiles \subseteq DOMAIN profiles' /\ UNCHANGED view
        /\ start' = [profiles |-> start'.profiles, lengths |-> start'.lengths]
    BY LoopStart DEF ViewInv, Since
  <2> QED BY <2>1 DEF ViewInv, ViewShape, InRows
<1> QED BY <1>1, <1>2, PastsLoop, FiguresLoop, RowsLoop, SuspectsLoop DEF ViewInv

-----------------------------------------------------------------------------
(* The steps of the handlers. *)

\* What no step of a handler touches.
LEMMA Untouched ==
  ASSUME ViewInv, UNCHANGED <<allVars, kept, prior>>
  PROVE  /\ LoaderTypeOK' /\ Accounted' /\ UNCHANGED <<profiles, stored, kept, step, prior>>
         /\ Unlocked' = Unlocked /\ kept \in Nat /\ kept <= stored
         /\ \A pid \in DOMAIN profiles : profiles[pid] \in Profile
         /\ LoaderTypeOK /\ Accounted /\ ViewShape /\ Pasts /\ Figures
         /\ RowsRead /\ SuspectsLeft
<1>1. LoaderTypeOK' /\ Accounted'
  BY LoaderTypeStep, AccountedStep DEF ViewInv
<1>2. UNCHANGED <<profiles, stored, kept, step, prior>>
  BY DEF allVars, vars, engineVars, loaderVars, alertVars
<1>3. Unlocked' = Unlocked
  BY <1>2 DEF Unlocked
<1>4. \A pid \in DOMAIN profiles : profiles[pid] \in Profile
  BY DEF ViewInv, LoaderTypeOK, TypeOK
<1> QED BY <1>1, <1>2, <1>3, <1>4 DEF ViewInv, Figures

LEMMA RequestStep ==
  ASSUME ViewInv, UNCHANGED <<allVars, kept, prior>>, Request
  PROVE  ViewInv'
<1>1. PICK where :
         /\ where \in {"GetStats", "GetRows"}
         /\ start' = [profiles |-> profiles, lengths |-> {kept}]
         /\ view.at = "no"
         /\ view' = [at |-> where, left |-> view.left, total |-> view.total,
                     alerts |-> view.alerts, withAlerts |-> view.withAlerts,
                     rows |-> view.rows, pid |-> view.pid]
  BY Zenon DEF Request, Goes, ViewInv, ViewShape
<1>2. /\ LoaderTypeOK' /\ Accounted' /\ UNCHANGED <<profiles, stored, kept, step, prior>>
      /\ Unlocked' = Unlocked /\ kept \in Nat /\ kept <= stored
      /\ \A pid \in DOMAIN profiles : profiles[pid] \in Profile
      /\ ViewShape /\ Pasts
  BY Untouched
<1>3. start'.profiles = profiles /\ start'.lengths = {kept}
      /\ start' = [profiles |-> start'.profiles, lengths |-> start'.lengths]
  BY <1>1
<1>4. view'.at \in {"GetStats", "GetRows"}
  BY <1>1
<1>5. ViewShape'
  BY <1>1, <1>2, <1>3, <1>4 DEF ViewShape, InRows
<1>6. Pasts'
  <2>1. Since(profiles, profiles)
    BY <1>2, LaterSelf DEF Since
  <2> QED BY <1>2, <1>3, <1>4, <2>1 DEF Pasts, Reading
<1>7. RowsRead' /\ SuspectsLeft'
  BY <1>4 DEF RowsRead, InRows, SuspectsLeft
<1>8. Figures'
  BY <1>2, <1>3, <1>4 DEF Figures
<1> QED BY <1>2, <1>5, <1>6, <1>7, <1>8 DEF ViewInv

LEMMA StatsSteps ==
  ASSUME ViewInv, UNCHANGED <<allVars, kept, prior>>,
         GetStats \/ CountAlerts \/ GetProfiles \/ Answer \/ Done
  PROVE  ViewInv'
<1>2. /\ LoaderTypeOK' /\ Accounted' /\ UNCHANGED <<profiles, stored, kept, step, prior>>
      /\ Unlocked' = Unlocked /\ kept \in Nat /\ kept <= stored
      /\ \A pid \in DOMAIN profiles : profiles[pid] \in Profile
      /\ LoaderTypeOK /\ Accounted
      /\ ViewShape /\ Pasts /\ Figures /\ RowsRead /\ SuspectsLeft
  BY Untouched
<1> DEFINE n == Cardinality(DOMAIN profiles)
           m == Cardinality(DOMAIN start.profiles)
<1>3. n \in Nat /\ m \in Nat /\ m <= n
  <2>1. DOMAIN start.profiles \subseteq DOMAIN profiles
    BY <1>2 DEF Pasts, Since
  <2> QED BY <1>2, <2>1, FS_Subset, FS_CardinalityType DEF Accounted
<1>5. ASSUME ~Reading', UNCHANGED start PROVE Pasts'
  BY <1>2, <1>5 DEF Pasts
<1>6. CASE GetStats
  <2>0. view.at = "GetStats" /\ UNCHANGED start
    BY <1>6 DEF GetStats
  <2>1. view' = [at |-> "alerts", left |-> view.left, total |-> n,
                 alerts |-> view.alerts, withAlerts |-> view.withAlerts,
                 rows |-> view.rows, pid |-> view.pid]
    BY <1>2, <1>6 DEF GetStats, ViewShape
  <2>2. ~InRows' /\ ~Reading'
    BY <2>1 DEF InRows, Reading
  <2> HIDE DEF n, m
  <2>3. ViewShape' /\ RowsRead' /\ SuspectsLeft'
    BY <1>2, <2>0, <2>1, <2>2 DEF ViewShape, RowsRead, SuspectsLeft, InRows
  <2>4. view'.total \in m..n
    BY <1>3, <2>1
  <2>5. Figures'
    BY <1>2, <2>0, <2>1, <2>4 DEF Figures, n, m
  <2> QED BY <1>2, <1>5, <2>0, <2>2, <2>3, <2>5 DEF ViewInv
<1>7. CASE CountAlerts
  <2>1. /\ view.at = "alerts" /\ UNCHANGED start
        /\ view' = [at |-> "GetProfiles", left |-> view.left, total |-> view.total,
                    alerts |-> kept, withAlerts |-> view.withAlerts,
                    rows |-> view.rows, pid |-> view.pid]
    BY <1>2, <1>7 DEF CountAlerts, ViewShape
  <2>2. ~InRows' /\ ~Reading'
    BY <2>1 DEF InRows, Reading
  <2>3. ViewShape' /\ RowsRead'
    BY <1>2, <2>1, <2>2 DEF ViewShape, RowsRead, InRows
  <2>4. SuspectsLeft'
    <3>1. kept > 0 => \E pid \in DOMAIN profiles : Suspect(profiles[pid])
      <4>1. stored \in Nat
        BY <1>2 DEF LoaderTypeOK
      <4>2. kept > 0 => stored > 0
        BY <1>2, <4>1
      <4> QED BY <1>2, <4>2, StoredHasSuspect
    <3> QED BY <1>2, <2>1, <3>1 DEF SuspectsLeft, Suspect
  <2>5. Figures'
    BY <1>2, <2>1 DEF Figures
  <2> QED BY <1>2, <1>5, <2>1, <2>2, <2>3, <2>4, <2>5 DEF ViewInv
<1>8. CASE GetProfiles
  <2>1. /\ view.at \in {"GetProfiles", "GetRows"} /\ Unlocked /\ UNCHANGED start
        /\ view' = [at |-> IF view.at = "GetProfiles" THEN "count" ELSE "rows",
                    left |-> DOMAIN profiles, total |-> view.total,
                    alerts |-> view.alerts, withAlerts |-> view.withAlerts,
                    rows |-> view.rows, pid |-> view.pid]
    BY <1>2, <1>8 DEF GetProfiles, ViewShape
  <2>2. ViewShape'
    BY <1>2, <2>1 DEF ViewShape, InRows
  <2>3. DOMAIN prior = {}
    <3>1. prior = << >>
      BY <1>2, <2>1 DEF Pasts
    <3> QED BY <3>1, EmptySeq
  <2>4. Pasts'
    BY <1>2, <2>1, <2>3 DEF Pasts
  <2>5. SuspectsLeft'
    BY <1>2, <2>1, <2>3 DEF SuspectsLeft, Suspect
  <2>6. DOMAIN start.profiles \subseteq DOMAIN profiles
    BY <1>2 DEF Pasts, Since
  <2>7. RowsRead'
    <3>1. DOMAIN view.rows = {}
      BY <1>2, <2>1 DEF ViewShape, InRows
    <3>2. view'.rows = view.rows /\ view'.left = DOMAIN profiles /\ view'.at # "processes"
      BY <2>1
    <3> QED BY <1>2, <2>1, <2>6, <3>1, <3>2 DEF RowsRead
  <2>8. Figures'
    <3>1. /\ Suspects(start.profiles) \ DOMAIN profiles = {}
          /\ Suspects(profiles) \ DOMAIN profiles = {}
      BY <2>6 DEF Suspects
    <3>2. /\ view'.at \in {"count", "rows"} /\ view'.left = DOMAIN profiles
          /\ view'.withAlerts = 0 /\ view'.total = view.total
          /\ view'.alerts = view.alerts
          /\ view'.at = "count" => view.at = "GetProfiles"
      BY <1>2, <2>1 DEF ViewShape
    <3>3. /\ Cardinality(Suspects(start.profiles) \ view'.left) = 0
          /\ Cardinality(Suspects(profiles) \ view'.left) = 0
      BY <3>1, <3>2, FS_EmptySet
    <3>4. /\ Cardinality(Suspects(start.profiles) \ view'.left) <= view'.withAlerts
          /\ view'.withAlerts <= Cardinality(Suspects(profiles) \ view'.left)
      BY <3>2, <3>3
    <3>5. start' = start /\ profiles' = profiles /\ view'.at \notin {"no", "stats"}
      BY <1>2, <2>1, <3>2
    <3>6. /\ view'.at = "count" =>
             view'.alerts \in start.lengths
             /\ view'.total \in Cardinality(DOMAIN start.profiles)..Cardinality(DOMAIN profiles)
          /\ kept \in start.lengths
      BY <1>2, <2>1, <3>2 DEF Figures
    <3> QED BY <1>2, <3>2, <3>4, <3>5, <3>6 DEF Figures
  <2> QED BY <1>2, <2>2, <2>4, <2>5, <2>7, <2>8 DEF ViewInv
<1>9. CASE Answer
  <2>1. /\ view.at \in {"count", "rows"} /\ view.left = {} /\ UNCHANGED start
        /\ view' = [at |-> IF view.at = "count" THEN "stats" ELSE "processes",
                    left |-> view.left, total |-> view.total,
                    alerts |-> view.alerts, withAlerts |-> view.withAlerts,
                    rows |-> view.rows, pid |-> view.pid]
    BY <1>2, <1>9 DEF Answer, ViewShape
  <2>2. InRows' = InRows /\ Reading' = Reading
    BY <2>1 DEF InRows, Reading
  <2>3. ViewShape' /\ Figures' /\ Pasts'
    BY <1>2, <2>1, <2>2 DEF ViewShape, Figures, Pasts, InRows
  <2>4. SuspectsLeft'
    <3>1. view.alerts > 0 /\ view.at = "count" => view.withAlerts # 0
      BY <1>2, <2>1 DEF SuspectsLeft
    <3>2. view.withAlerts \in Nat
      BY <1>2 DEF ViewShape
    <3> QED BY <2>1, <3>1, <3>2 DEF SuspectsLeft
  <2>5. RowsRead'
    BY <1>2, <2>1, <2>2 DEF RowsRead, InRows, RowRead, Open
  <2> QED BY <1>2, <2>3, <2>4, <2>5 DEF ViewInv
<1>10. CASE Done
  <2>1. view' = NoView /\ start' = NoStart
    BY <1>10 DEF Done
  <2>2. ~InRows' /\ ~Reading' /\ DOMAIN view'.rows = {} /\ DOMAIN start'.profiles = {}
    BY <2>1, EmptySeq DEF NoView, NoStart, InRows, Reading
  <2>3. ViewShape' /\ Figures' /\ RowsRead' /\ SuspectsLeft'
    BY <1>2, <2>1, <2>2
    DEF ViewShape, Figures, RowsRead, SuspectsLeft, NoView, NoStart
  <2>4. Pasts'
    BY <1>2, <2>2 DEF Pasts, Since
  <2> QED BY <1>2, <2>3, <2>4 DEF ViewInv
<1> QED BY <1>6, <1>7, <1>8, <1>9, <1>10

\* What counting pid, as one of p, does to the suspects no longer left to count.
LEMMA CountedSuspects ==
  ASSUME NEW ps, IsFiniteSet(DOMAIN ps), NEW left, NEW pid \in left
  PROVE  Cardinality(Suspects(ps) \ (left \ {pid}))
            = Cardinality(Suspects(ps) \ left) + (IF pid \in Suspects(ps) THEN 1 ELSE 0)
<1> DEFINE S == Suspects(ps) \ left
           T == Suspects(ps) \ (left \ {pid})
<1>1. IsFiniteSet(S) /\ Cardinality(S) \in Nat
  BY SuspectsFinite
<1>2. pid \notin S /\ T = IF pid \in Suspects(ps) THEN S \cup {pid} ELSE S
  OBVIOUS
<1> HIDE DEF S, T
<1>3. Cardinality(S \cup {pid}) = Cardinality(S) + 1
  BY <1>1, <1>2, FS_AddElement
<1>4. Cardinality(T) = Cardinality(S) + (IF pid \in Suspects(ps) THEN 1 ELSE 0)
  BY <1>1, <1>2, <1>3
<1> QED BY <1>4 DEF S, T

LEMMA CountProfileStep ==
  ASSUME ViewInv, UNCHANGED <<allVars, kept, prior>>, NEW pid, CountProfile(pid)
  PROVE  ViewInv'
<1>1. /\ LoaderTypeOK' /\ Accounted' /\ UNCHANGED <<profiles, stored, kept, step, prior>>
      /\ Unlocked' = Unlocked /\ LoaderTypeOK /\ Accounted /\ ViewShape /\ Pasts
      /\ Figures /\ SuspectsLeft /\ start' = start
  BY Untouched DEF CountProfile
<1>2. pid \in DOMAIN profiles /\ pid \in view.left /\ view.at = "count"
  BY <1>1 DEF CountProfile, ViewShape
<1>3. PICK p \in Seen(pid) :
         view' = [view EXCEPT !.left = @ \ {pid},
                     !.withAlerts = IF p.anomalies # << >> THEN @ + 1 ELSE @]
  BY DEF CountProfile
<1>4. view' = [at |-> "count", left |-> view.left \ {pid}, total |-> view.total,
               alerts |-> view.alerts,
               withAlerts |-> IF Suspect(p) THEN view.withAlerts + 1
                              ELSE view.withAlerts,
               rows |-> view.rows, pid |-> view.pid]
  BY <1>1, <1>2, <1>3 DEF ViewShape, Suspect
<1>5. view.withAlerts \in Nat /\ view'.withAlerts \in Nat
      /\ (Suspect(p) => view'.withAlerts # 0)
      /\ (view'.withAlerts = 0 => view.withAlerts = 0)
  <2>1. view.withAlerts \in Nat
    BY <1>1 DEF ViewShape
  <2> QED BY <1>4, <2>1
<1>6. /\ Later(p, profiles[pid])
      /\ p = profiles[pid] \/ (pid \in DOMAIN prior /\ p = prior[pid])
      /\ pid \in DOMAIN start.profiles => Later(start.profiles[pid], p)
  BY <1>1, <1>2, <1>3, SeenFacts DEF Reading
<1>7. /\ Cardinality(Suspects(start.profiles) \ (view.left \ {pid})) <= view'.withAlerts
      /\ view'.withAlerts <= Cardinality(Suspects(profiles) \ (view.left \ {pid}))
  <2>1. IsFiniteSet(DOMAIN profiles) /\ IsFiniteSet(DOMAIN start.profiles)
    <3>1. DOMAIN start.profiles \subseteq DOMAIN profiles
      BY <1>1 DEF Pasts, Since
    <3> QED BY <1>1, <3>1, FS_Subset DEF Accounted
  <2>2. Suspect(p) => pid \in Suspects(profiles)
    BY <1>2, <1>6, LaterSuspect DEF Suspects, Suspect
  <2>3. pid \in Suspects(start.profiles) => Suspect(p)
    BY <1>6, LaterSuspect DEF Suspects, Suspect
  <2> DEFINE s == Cardinality(Suspects(start.profiles) \ view.left)
             t == Cardinality(Suspects(profiles) \ view.left)
             s1 == Cardinality(Suspects(start.profiles) \ (view.left \ {pid}))
             t1 == Cardinality(Suspects(profiles) \ (view.left \ {pid}))
             w == view.withAlerts
             w1 == view'.withAlerts
  <2>4. s \in Nat /\ t \in Nat
    BY <2>1, SuspectsFinite
  <2>5. /\ s1 = s + (IF pid \in Suspects(start.profiles) THEN 1 ELSE 0)
        /\ t1 = t + (IF pid \in Suspects(profiles) THEN 1 ELSE 0)
    BY <1>2, <2>1, CountedSuspects
  <2>6. s <= w /\ w <= t
    BY <1>1, <1>2 DEF Figures
  <2>7. w1 = (IF Suspect(p) THEN w + 1 ELSE w) /\ w \in Nat
    BY <1>4, <1>5
  <2> HIDE DEF s, t, s1, t1, w, w1
  <2>8. s1 <= w1 /\ w1 <= t1
    BY <2>2, <2>3, <2>4, <2>5, <2>6, <2>7
  <2> QED BY <2>8 DEF s1, t1, w1
<1>8. ViewShape' /\ Figures' /\ Pasts' /\ RowsRead'
  <2>1. view'.at = "count" /\ view'.rows = view.rows /\ view'.left = view.left \ {pid}
        /\ view'.alerts = view.alerts /\ view'.total = view.total
    BY <1>4
  <2>2. ~InRows /\ ~InRows' /\ Reading /\ Reading'
    BY <1>2, <2>1 DEF InRows, Reading
  <2>3. ViewShape'
    BY <1>1, <1>4, <1>5, <2>1, <2>2 DEF ViewShape
  <2>4. Figures'
    BY <1>1, <1>2, <1>7, <2>1 DEF Figures
  <2> QED BY <1>1, <2>2, <2>3, <2>4 DEF Pasts, RowsRead
<1>9. SuspectsLeft'
  <2>1. SUFFICES ASSUME view.alerts > 0, view'.withAlerts = 0
                 PROVE  \E q \in view'.left :
                           /\ Suspect(profiles[q])
                           /\ q \in DOMAIN prior => Suspect(prior[q])
    BY <1>1, <1>4 DEF SuspectsLeft, Suspect
  <2>2. PICK q \in view.left :
           Suspect(profiles[q]) /\ (q \in DOMAIN prior => Suspect(prior[q]))
    BY <1>1, <1>2, <1>5, <2>1 DEF SuspectsLeft
  <2>3. CASE q = pid
    <3>1. Suspect(p)
      BY <1>6, <2>2, <2>3
    <3> QED BY <1>5, <2>1, <3>1
  <2> QED BY <1>4, <2>2, <2>3
<1> QED BY <1>1, <1>8, <1>9 DEF ViewInv

LEMMA BeginRowStep ==
  ASSUME ViewInv, UNCHANGED <<allVars, kept, prior>>, NEW pid, BeginRow(pid)
  PROVE  ViewInv'
<1>1. /\ LoaderTypeOK' /\ Accounted' /\ UNCHANGED <<profiles, stored, kept, step, prior>>
      /\ Unlocked' = Unlocked /\ LoaderTypeOK /\ ViewShape /\ Pasts /\ Figures
      /\ RowsRead /\ start' = start
  BY Untouched DEF BeginRow
<1>2. pid \in DOMAIN profiles /\ view.at = "rows" /\ pid \in view.left
  BY <1>1 DEF BeginRow, ViewShape
<1>0. PICK rows : rows = [q \in DOMAIN view.rows \cup {pid} |->
                            IF q = pid THEN << >> ELSE view.rows[q]]
  OBVIOUS
<1>3. view' = [view EXCEPT !.at = "row", !.left = @ \ {pid}, !.pid = pid,
                           !.rows = rows]
  BY <1>0 DEF BeginRow
<1>4. /\ DOMAIN rows = DOMAIN view.rows \cup {pid} /\ rows[pid] = << >>
      /\ \A q \in DOMAIN view.rows \ {pid} : rows[q] = view.rows[q]
  BY <1>0
<1>5. view' = [at |-> "row", left |-> view.left \ {pid}, total |-> view.total,
               alerts |-> view.alerts, withAlerts |-> view.withAlerts,
               rows |-> rows, pid |-> pid]
  BY <1>1, <1>3 DEF ViewShape
<1>6. /\ view'.at = "row" /\ view'.left = view.left \ {pid} /\ view'.rows = rows
      /\ view'.pid = pid /\ view'.alerts = view.alerts
      /\ view'.withAlerts = view.withAlerts
  BY <1>5
<1>7. InRows /\ InRows' /\ Reading /\ Reading'
  BY <1>2, <1>6 DEF InRows, Reading
<1>8. ViewShape'
  BY <1>1, <1>2, <1>4, <1>5, <1>6, <1>7 DEF ViewShape
<1>9. Figures' /\ Pasts' /\ SuspectsLeft'
  BY <1>1, <1>2, <1>6, <1>7 DEF Figures, Pasts, SuspectsLeft
<1>10. RowsRead'
  <2>1. DOMAIN start.profiles \subseteq view'.left \cup DOMAIN rows
    BY <1>1, <1>4, <1>6, <1>7 DEF RowsRead
  <2>2. ASSUME NEW q \in DOMAIN rows
        PROVE  q \in DOMAIN profiles /\ RowRead(rows[q], q)'
    <3>1. CASE q = pid
      <4>1. << >> \in Seq(Nat) /\ Len(<< >>) = 0
        BY EmptySeq
      <4>2. Open(pid)'
        BY <1>6 DEF Open
      <4> QED BY <1>2, <1>4, <3>1, <4>1, <4>2 DEF RowRead
    <3>2. CASE q # pid
      <4>1. q \in DOMAIN view.rows /\ rows[q] = view.rows[q]
        BY <1>4, <3>2
      <4>2. ~Open(q) /\ ~Open(q)'
        BY <1>2, <1>6, <3>2 DEF Open
      <4> QED BY <1>1, <1>7, <1>4, <3>2, <4>1, <4>2 DEF RowsRead, RowRead
    <3> QED BY <3>1, <3>2
  <2> QED BY <1>1, <1>6, <2>1, <2>2 DEF RowsRead
<1> QED BY <1>1, <1>8, <1>9, <1>10 DEF ViewInv

\* One more field of the row under way is read: those before it stay.
LEMMA ReadFieldStep ==
  ASSUME ViewInv, UNCHANGED <<allVars, kept, prior>>, ReadField
  PROVE  ViewInv'
<1>0. PICK me, old : me = view.pid /\ old = view.rows[me]
  OBVIOUS
<1> DEFINE n == Len(old)
           i == n + 1
<1>1. /\ LoaderTypeOK' /\ Accounted' /\ UNCHANGED <<profiles, stored, kept, step, prior>>
      /\ Unlocked' = Unlocked /\ LoaderTypeOK /\ ViewShape /\ Pasts /\ Figures
      /\ RowsRead /\ start' = start
  BY Untouched DEF ReadField
<1>2. view.at = "row"
  BY DEF ReadField
<1>3. InRows /\ Reading /\ me \in DOMAIN profiles /\ me \in DOMAIN view.rows /\ Open(me)
  BY <1>0, <1>1, <1>2 DEF InRows, Reading, ViewShape, Open
<1>4. /\ old = view.rows[me]
      /\ old \in Seq(Nat) /\ n \in Nat /\ n < 6
      /\ \A k \in 1..n :
            /\ old[k] <= Row(profiles[me])[k]
            /\ me \in DOMAIN start.profiles => Row(start.profiles[me])[k] <= old[k]
  <2>1. RowRead(old, me)
    BY <1>0, <1>1, <1>3 DEF RowsRead
  <2> QED BY <1>0, <1>3, <2>1, LenProperties DEF RowRead
<1>5. i \in 1..6
  <2>1. n \in Nat /\ n < 6
    BY <1>4
  <2> HIDE DEF n
  <2> QED BY <2>1
<1>6. PICK p \in Seen(me) :
         view' = [view EXCEPT !.at = IF i = 6 THEN "rows" ELSE "row",
                              !.pid = IF i = 6 THEN None ELSE @,
                              !.rows[me] = Append(old, Row(p)[i])]
  BY <1>0 DEF ReadField
<1>7. /\ Row(p)[i] \in Nat /\ Row(p)[i] <= Row(profiles[me])[i]
      /\ me \in DOMAIN start.profiles => Row(start.profiles[me])[i] <= Row(p)[i]
  <2>1. /\ Later(p, profiles[me])
        /\ me \in DOMAIN start.profiles => Later(start.profiles[me], p)
    BY <1>1, <1>3, <1>6, SeenFacts
  <2>2. Row(p)[i] \in Nat
    BY <1>5, <2>1, RowNumbers DEF Later
  <2> QED BY <1>5, <2>1, <2>2 DEF Later
<1>20. PICK row : row = Append(old, Row(p)[i])
  OBVIOUS
<1>21. PICK rows : rows = [view.rows EXCEPT ![me] = row]
  OBVIOUS
<1> DEFINE at1 == IF i = 6 THEN "rows" ELSE "row"
           pid1 == IF i = 6 THEN None ELSE me
<1>8. /\ row \in Seq(Nat) /\ Len(row) = i
      /\ \A k \in 1..n : row[k] = old[k]
      /\ row[i] = Row(p)[i]
  <2> DEFINE v == Row(p)[i]
  <2>1. v \in Nat
    BY <1>7
  <2> HIDE DEF v
  <2>2. /\ Append(old, v) \in Seq(Nat) /\ Len(Append(old, v)) = n + 1
        /\ \A k \in 1..n : Append(old, v)[k] = old[k]
        /\ Append(old, v)[n + 1] = v
    BY <1>4, <2>1, AppendProperties
  <2> QED BY <1>20, <2>2 DEF v
<1>9. view' = [at |-> at1, left |-> view.left, total |-> view.total,
               alerts |-> view.alerts, withAlerts |-> view.withAlerts,
               rows |-> rows, pid |-> pid1]
  <2>1. view' = [view EXCEPT !.at = at1, !.pid = pid1, !.rows = rows]
    BY <1>0, <1>6, <1>20, <1>21
  <2> HIDE DEF at1, pid1
  <2> QED BY <1>1, <2>1 DEF ViewShape
<1>10. /\ DOMAIN rows = DOMAIN view.rows /\ rows[me] = row
       /\ \A q \in DOMAIN view.rows \ {me} : rows[q] = view.rows[q]
  BY <1>3, <1>21
<1>11. at1 \in {"rows", "row"} /\ (at1 = "row" => pid1 = me /\ i # 6)
       /\ (i = 6 => at1 = "rows")
  OBVIOUS
<1> HIDE DEF at1, pid1, n, i
<1>12. view'.at = at1 /\ view'.left = view.left /\ view'.rows = rows
       /\ view'.pid = pid1 /\ view'.alerts = view.alerts
       /\ view'.withAlerts = view.withAlerts
  BY <1>9
<1>13. InRows' /\ Reading'
  BY <1>11, <1>12 DEF InRows, Reading
<1>14. ViewShape'
  BY <1>1, <1>2, <1>3, <1>9, <1>10, <1>11, <1>12, <1>13 DEF ViewShape
<1>15. Figures' /\ Pasts' /\ SuspectsLeft'
  BY <1>1, <1>2, <1>3, <1>11, <1>12, <1>13 DEF Figures, Pasts, SuspectsLeft
<1>16. RowRead(row, me)'
  <2>1. \A k \in 1..Len(row) : k \in 1..n \/ k = i
    BY <1>4, <1>8 DEF i
  <2>2. Open(me)' <=> i # 6
    BY <1>11, <1>12 DEF Open, at1, pid1
  <2>3. Len(row) <= 6 /\ (IF Open(me)' THEN Len(row) < 6 ELSE Len(row) = 6)
    BY <1>5, <1>8, <2>2
  <2>4. \A k \in 1..Len(row) :
           /\ row[k] <= Row(profiles[me])[k]
           /\ me \in DOMAIN start.profiles => Row(start.profiles[me])[k] <= row[k]
    BY <1>4, <1>7, <1>8, <2>1
  <2> QED BY <1>1, <1>8, <2>3, <2>4 DEF RowRead
<1>17. RowsRead'
  <2>1. DOMAIN start.profiles \subseteq view.left \cup DOMAIN rows
    BY <1>1, <1>3, <1>10 DEF RowsRead
  <2>2. ASSUME NEW q \in DOMAIN rows
        PROVE  q \in DOMAIN profiles /\ RowRead(rows[q], q)'
    <3>1. CASE q = me
      BY <1>3, <1>10, <1>16, <3>1
    <3>2. CASE q # me
      <4>1. q \in DOMAIN view.rows /\ rows[q] = view.rows[q]
        BY <1>10, <3>2
      <4>2. ~Open(q) /\ ~Open(q)'
        BY <1>0, <1>11, <1>12, <3>2 DEF Open
      <4> QED BY <1>1, <1>3, <4>1, <4>2 DEF RowsRead, RowRead
    <3> QED BY <3>1, <3>2
  <2> QED BY <1>1, <1>11, <1>12, <2>1, <2>2 DEF RowsRead
<1> QED BY <1>1, <1>14, <1>15, <1>17 DEF ViewInv

LEMMA ViewInvStep ==
  ASSUME ViewInv, [ViewNext]_<<allVars, viewVars>>
  PROVE  ViewInv'
<1>1. CASE LoopStep
  BY <1>1, ViewInvLoop
<1>2. CASE Handler /\ UNCHANGED <<allVars, kept, prior>>
  BY <1>2, RequestStep, StatsSteps, CountProfileStep, BeginRowStep, ReadFieldStep
  DEF Handler
<1> QED BY <1>1, <1>2, ViewSteps

LEMMA ViewInvInit == ViewInit => ViewInv
<1> SUFFICES ASSUME ViewInit PROVE ViewInv
  OBVIOUS
<1>1. LoaderTypeOK /\ Accounted
  BY LoaderTypeInit, AccountedInit DEF ViewInit
<1>2. /\ view = NoView /\ start = NoStart /\ kept = 0
      /\ prior = << >> /\ stored = 0
  BY DEF ViewInit, LoaderInit
<1>3. DOMAIN prior = {} /\ DOMAIN view.rows = {} /\ DOMAIN start.profiles = {}
  BY <1>2, EmptySeq DEF NoView, NoStart
<1>4. ~InRows /\ ~Reading /\ view.at = "no"
  BY <1>2 DEF NoView, InRows, Reading
<1>5. ViewShape
  BY <1>2, <1>3, <1>4 DEF ViewShape, NoView, NoStart
<1>6. Pasts /\ Figures /\ RowsRead /\ SuspectsLeft
  BY <1>2, <1>3, <1>4 DEF Pasts, Since, Figures, RowsRead, SuspectsLeft
<1> QED BY <1>1, <1>5, <1>6 DEF ViewInv

\* The inductive invariant of the handlers: what they have read is not older than
\* the request and not ahead of the profiles, and a suspect is left to count.
THEOREM ViewInvariant == ViewSpec => []ViewInv
<1>1. ViewInv /\ [ViewNext]_<<allVars, viewVars>> => ViewInv'
  BY ViewInvStep
<1> QED BY <1>1, ViewInvInit, PTL DEF ViewSpec

\* Though GetProfiles hands out pointers that are read without the lock, each of
\* the figures modelled, total, total_with_alerts and six fields of every row,
\* lies between the request and the answer; the number of alerts is one the
\* store had since the request, however AddAlert cut it.
THEOREM FiguresCurrent == ViewSpec => []FiguresAreCurrent
<1>1. ViewInv => FiguresAreCurrent
  <2> SUFFICES ASSUME ViewInv PROVE FiguresAreCurrent
    OBVIOUS
  <2>1. ASSUME view.at = "stats"
        PROVE  /\ view.alerts \in start.lengths
               /\ view.total \in
                     Cardinality(DOMAIN start.profiles)..Cardinality(DOMAIN profiles)
               /\ view.withAlerts \in
                     Cardinality(Suspects(start.profiles))..Cardinality(Suspects(profiles))
    <3>1. /\ view.alerts \in start.lengths
          /\ view.total \in
                Cardinality(DOMAIN start.profiles)..Cardinality(DOMAIN profiles)
          /\ Cardinality(Suspects(start.profiles) \ view.left) <= view.withAlerts
          /\ view.withAlerts <= Cardinality(Suspects(profiles) \ view.left)
          /\ view.left = {}
      BY <2>1 DEF ViewInv, Figures
    <3>2. /\ Suspects(start.profiles) \ {} = Suspects(start.profiles)
          /\ Suspects(profiles) \ {} = Suspects(profiles)
      OBVIOUS
    <3>3. IsFiniteSet(DOMAIN profiles) /\ IsFiniteSet(DOMAIN start.profiles)
      <4>1. DOMAIN start.profiles \subseteq DOMAIN profiles
        BY DEF ViewInv, Pasts, Since
      <4> QED BY <4>1, FS_Subset DEF ViewInv, Accounted
    <3>4. /\ Cardinality(Suspects(start.profiles)) \in Nat
          /\ Cardinality(Suspects(profiles)) \in Nat
      BY <3>2, <3>3, SuspectsFinite
    <3>5. view.withAlerts \in Nat
      BY DEF ViewInv, ViewShape
    <3> QED BY <3>1, <3>2, <3>4, <3>5
  <2>2. ASSUME view.at = "processes"
        PROVE  /\ DOMAIN start.profiles \subseteq DOMAIN view.rows
               /\ \A pid \in DOMAIN start.profiles :
                     /\ pid \in DOMAIN profiles /\ RowRead(view.rows[pid], pid)
                     /\ Later(start.profiles[pid], profiles[pid])
    BY <2>2 DEF ViewInv, RowsRead, InRows, Pasts, Since
  <2>3. ASSUME view.at = "processes", NEW pid \in DOMAIN start.profiles, NEW i \in 1..6
        PROVE  view.rows[pid][i] \in Row(start.profiles[pid])[i]..Row(profiles[pid])[i]
    <3> DEFINE row == view.rows[pid]
    <3>1. row \in Seq(Nat) /\ Len(row) = 6
      BY <2>2, <2>3 DEF RowRead, Open
    <3>2. row[i] \in Nat
      BY <3>1, ElementOfSeq
    <3>3. row[i] <= Row(profiles[pid])[i] /\ Row(start.profiles[pid])[i] <= row[i]
      BY <2>2, <2>3, <3>1 DEF RowRead
    <3>4. Row(profiles[pid])[i] \in Nat /\ Row(start.profiles[pid])[i] \in Nat
      BY <2>2, <2>3, RowNumbers DEF Later
    <3> HIDE DEF row
    <3>5. row[i] \in Row(start.profiles[pid])[i]..Row(profiles[pid])[i]
      BY <3>2, <3>3, <3>4
    <3> QED BY <3>5 DEF row
  <2> QED BY <2>1, <2>2, <2>3 DEF FiguresAreCurrent
<1> QED BY <1>1, ViewInvariant, PTL

\* The order in which handleStats reads, the alerts before the profiles, is
\* enough: alerts in the answer never come without a process to show for them.
THEOREM AlertsComeWithSuspects == ViewSpec => []AlertsHaveSuspects
<1>1. ViewInv => AlertsHaveSuspects
  BY DEF ViewInv, SuspectsLeft, AlertsHaveSuspects
<1> QED BY <1>1, ViewInvariant, PTL

\* The handlers disturb nothing: with them, too, the loader makes steps of Loader
\* and no others.
THEOREM ViewRunsLoader == ViewSpec => LoaderSafe
<1>1. ViewInit => LoaderInit
  BY DEF ViewInit
<1>2. [ViewNext]_<<allVars, viewVars>> => [LoaderNext]_allVars
  BY DEF ViewNext
<1> QED BY <1>1, <1>2, PTL DEF ViewSpec, LoaderSafe
=============================================================================
