---------------------------- MODULE LoaderProofs ----------------------------
(***************************************************************************)
(* Theorems about Loader, for any pids, records and POSTs, any capacities  *)
(* of the ring and of alertChan and any number of processes with one pid.  *)
(* The loop's steps are steps of the engine, or leave it alone, so what    *)
(* EngineProofs proves of the engine holds in the loader.                  *)
(***************************************************************************)
EXTENDS Loader, EngineProofs

-----------------------------------------------------------------------------
(* The loader implements the engine. *)

LEMMA HeadOfRing ==
  ASSUME LoaderTypeOK, ring # << >>
  PROVE  Head(ring).raw \in Samples /\ Head(ring).gen \in 0..MaxGen
<1>1. Head(ring) \in [raw : Samples, gen : 0..MaxGen]
  BY HeadTailProperties DEF LoaderTypeOK
<1> QED BY <1>1

LEMMA EngineStep == LoaderTypeOK /\ [LoaderNext]_allVars => [EngineNext]_vars
<1> SUFFICES ASSUME LoaderTypeOK, [LoaderNext]_allVars PROVE [EngineNext]_vars
  OBVIOUS
<1>1. CASE ReadEvent
  BY <1>1, HeadOfRing DEF ReadEvent, EngineNext
<1>2. CASE AnalyzeMatch \/ AnalyzeOther \/ NothingFound
  BY <1>2 DEF AnalyzeMatch, AnalyzeOther, NothingFound, EngineNext
<1>3. CASE ReportAnomaly \/ DecideToKill \/ ConsumeAlert
  BY <1>3 DEF ReportAnomaly, DecideToKill, ConsumeAlert
<1>4. CASE DecideToSpare \/ KillProcess
  BY <1>4 DEF DecideToSpare, KillProcess, EngineNext
<1>5. CASE LoaderConfig \/ LoaderTick
  BY <1>5 DEF LoaderConfig, LoaderTick, EngineNext
<1>6. ASSUME NEW raw \in Samples, Syscall(raw) PROVE UNCHANGED vars
  BY <1>6 DEF Syscall
<1>7. ASSUME NEW pid \in Pids, Exit(pid) \/ Reuse(pid) PROVE UNCHANGED vars
  BY <1>7 DEF Exit, Reuse
<1>8. CASE UNCHANGED allVars
  BY <1>8 DEF allVars
<1> QED BY <1>1, <1>2, <1>3, <1>4, <1>5, <1>6, <1>7, <1>8 DEF LoaderNext, EventLoop

-----------------------------------------------------------------------------
(* Type correctness. *)

LEMMA LoaderTypeInit == LoaderInit => LoaderTypeOK
<1> SUFFICES ASSUME LoaderInit PROVE LoaderTypeOK
  OBVIOUS
<1>1. TypeOK
  BY TypeInit DEF LoaderInit, EngineStart
<1>2. process \in [Pids -> [gen : 0..MaxGen, alive : BOOLEAN]] /\ owner \in 0..MaxGen
  BY LoaderAssumption DEF LoaderInit
<1> QED BY <1>1, <1>2, EmptySeq, LoaderAssumption DEF LoaderInit, LoaderTypeOK, Handling

\* The types of what Engine does not know.
LoaderTypes ==
    /\ process \in [Pids -> [gen : 0..MaxGen, alive : BOOLEAN]]
    /\ ring \in Seq([raw : Samples, gen : 0..MaxGen]) /\ Len(ring) <= RingCap
    /\ owner \in 0..MaxGen
    /\ acting \in {"no", "decide", "kill"}
    /\ Handling => step = "return" /\ anomaly # None
    /\ alertChan \in Seq([pid : Pids, rule : RuleNames,
                          action : {"alert", "block", "kill"}])
    /\ Len(alertChan) <= ChanCap
    /\ {detected, processesKilled, stored, dropped, lateKills} \subseteq Nat
    /\ flagged \cup signalled \subseteq Pids \X (0..MaxGen)

LEMMA AlertType ==
  ASSUME TypeOK, step = "return", anomaly # None
  PROVE  /\ Alert \in [pid : Pids, rule : RuleNames,
                       action : {"alert", "block", "kill"}]
         /\ anomaly \in AnomalyType /\ sample \in Samples /\ sample.pid \in Pids
<1>1. anomaly \in AnomalyType /\ sample \in Samples /\ sample.pid \in Pids
  BY EngineAssumption DEF TypeOK
<1> QED BY <1>1 DEF Alert, AnomalyType

LEMMA LoaderTypeStep == LoaderTypeOK /\ [LoaderNext]_allVars => LoaderTypeOK'
<1> SUFFICES ASSUME LoaderTypeOK, [LoaderNext]_allVars PROVE LoaderTypeOK'
  OBVIOUS
<1>0. TypeOK /\ TypeOK' /\ LoaderTypes
  BY EngineStep, TypeStep DEF LoaderTypeOK, LoaderTypes
<1> SUFFICES LoaderTypes'
  BY <1>0 DEF LoaderTypeOK, LoaderTypes
<1>1. ASSUME NEW raw \in Samples, Syscall(raw) PROVE LoaderTypes'
  <2> DEFINE rec == [raw |-> raw, gen |-> process[raw.pid].gen]
             Rec == [raw : Samples, gen : 0..MaxGen]
  <2>1. rec \in Rec
    BY <1>0, EngineAssumption DEF LoaderTypes
  <2>2. ring \in Seq(Rec) /\ ring' = Append(ring, rec) /\ Len(ring) < RingCap
    BY <1>0, <1>1 DEF LoaderTypes, Syscall
  <2> HIDE DEF rec, Rec
  <2>3. ring' \in Seq(Rec) /\ Len(ring') = Len(ring) + 1 /\ Len(ring) \in Nat
    BY <2>1, <2>2, AppendProperties, LenProperties
  <2>4. Len(ring') <= RingCap
    BY <2>2, <2>3, LoaderAssumption
  <2> QED BY <1>0, <1>1, <2>3, <2>4
          DEF Syscall, LoaderTypes, Handling, Rec, vars, engineVars, alertVars,
              killVars
<1>2. ASSUME NEW pid \in Pids, Exit(pid) \/ Reuse(pid) PROVE LoaderTypes'
  <2> DEFINE Typed == [Pids -> [gen : 0..MaxGen, alive : BOOLEAN]]
  <2>1. ASSUME Exit(pid) PROVE process' \in Typed
    BY <1>0, <2>1 DEF LoaderTypes, Exit
  <2>2. ASSUME Reuse(pid) PROVE process' \in Typed
    <3>1. process[pid].gen \in 0..MaxGen /\ process[pid].gen < MaxGen
      BY <1>0, <2>2 DEF LoaderTypes, Reuse
    <3>2. process[pid].gen + 1 \in 0..MaxGen
      BY <3>1, LoaderAssumption
    <3> QED BY <1>0, <2>2, <3>2 DEF LoaderTypes, Reuse
  <2>3. process' \in [Pids -> [gen : 0..MaxGen, alive : BOOLEAN]]
    BY <1>2, <2>1, <2>2
  <2> QED BY <1>0, <1>2, <2>3 DEF Exit, Reuse, LoaderTypes, Handling, vars,
                                  engineVars, alertVars, killVars
<1>3. CASE ReadEvent
  <2>1. ring # << >> /\ ring' = Tail(ring) /\ owner' = Head(ring).gen
    BY <1>3 DEF ReadEvent
  <2>2. /\ ring' \in Seq([raw : Samples, gen : 0..MaxGen])
        /\ Len(ring') = Len(ring) - 1 /\ Len(ring) \in Nat
    BY <1>0, <2>1, HeadTailProperties, LenProperties DEF LoaderTypes
  <2>3. Len(ring') <= RingCap /\ owner' \in 0..MaxGen
    BY <1>0, <2>1, <2>2, HeadOfRing, LoaderAssumption DEF LoaderTypes
  <2>4. step = "idle"
    BY <1>3 DEF ReadEvent, Observe
  <2> QED BY <1>0, <1>3, <2>2, <2>3, <2>4
          DEF ReadEvent, LoaderTypes, Handling, alertVars, killVars
<1>4. CASE AnalyzeMatch
  <2>1. step = "rules"
    BY <1>4 DEF AnalyzeMatch, RuleMatches
  <2>2. sample.pid \in Pids
    BY <1>0, <2>1, EngineAssumption DEF TypeOK
  <2> QED BY <1>0, <1>4, <2>1, <2>2
          DEF AnalyzeMatch, LoaderTypes, Handling, alertVars, killVars
<1>5. CASE AnalyzeOther \/ NothingFound
  <2>1. acting = "no" \/ step = "return"
    BY <1>0 DEF LoaderTypes, Handling
  <2>2. acting = "no"
    BY <1>0, <1>5, <2>1 DEF AnalyzeOther, NothingFound, EndLearning, NoRuleMatches,
                            Escalate, LoaderTypes, Handling
  <2> QED BY <1>0, <1>5, <2>2 DEF AnalyzeOther, NothingFound, LoaderTypes,
                                 Handling, loaderVars, alertVars, killVars
<1>6. CASE ReportAnomaly
  <2> DEFINE A == [pid : Pids, rule : RuleNames, action : {"alert", "block", "kill"}]
  <2>1. step = "return" /\ anomaly # None /\ acting' = "decide"
    BY <1>6 DEF ReportAnomaly
  <2>2. Alert \in A /\ alertChan \in Seq(A)
    BY <1>0, <2>1, AlertType DEF LoaderTypes
  <2> HIDE DEF A
  <2>3. /\ Append(alertChan, Alert) \in Seq(A)
        /\ Len(Append(alertChan, Alert)) = Len(alertChan) + 1
        /\ Len(alertChan) \in Nat
    BY <2>2, AppendProperties, LenProperties
  <2>4. detected \in Nat /\ dropped \in Nat /\ Len(alertChan) <= ChanCap
    BY <1>0 DEF LoaderTypes
  <2>5. /\ detected' = detected + 1
        /\ \/ /\ Len(alertChan) < ChanCap /\ alertChan' = Append(alertChan, Alert)
              /\ dropped' = dropped
           \/ alertChan' = alertChan /\ dropped' = dropped + 1
    BY <1>6 DEF ReportAnomaly
  <2>6. alertChan' \in Seq(A) /\ Len(alertChan') <= ChanCap
    BY <2>2, <2>3, <2>4, <2>5, LoaderAssumption
  <2>7. detected' \in Nat /\ dropped' \in Nat
    BY <2>4, <2>5
  <2> QED BY <1>0, <1>6, <2>1, <2>6, <2>7
          DEF ReportAnomaly, LoaderTypes, Handling, A, vars, engineVars, killVars
<1>7. CASE DecideToKill
  <2>1. step = "return" /\ anomaly # None
    BY <1>0, <1>7 DEF DecideToKill, LoaderTypes, Handling
  <2>2. processesKilled' \in Nat
    BY <1>0, <1>7 DEF DecideToKill, LoaderTypes
  <2> QED BY <1>0, <1>7, <2>1, <2>2
          DEF DecideToKill, LoaderTypes, Handling, vars, engineVars, alertVars
<1>8. CASE DecideToSpare
  BY <1>0, <1>8 DEF DecideToSpare, LoaderTypes, Handling, alertVars, killVars
<1>9. CASE KillProcess
  <2>1. step = "return" /\ anomaly # None
    BY <1>0, <1>9 DEF KillProcess, LoaderTypes, Handling
  <2>2. sample.pid \in Pids
    BY <1>0, <2>1, AlertType
  <2>3. process' \in [Pids -> [gen : 0..MaxGen, alive : BOOLEAN]]
    BY <1>0, <1>9 DEF KillProcess, LoaderTypes
  <2>4. Process(sample.pid) \in Pids \X (0..MaxGen)
    BY <1>0, <2>2 DEF Process, LoaderTypes
  <2>5. signalled' \subseteq Pids \X (0..MaxGen) /\ lateKills' \in Nat
    BY <1>0, <1>9, <2>4 DEF KillProcess, LoaderTypes
  <2> QED BY <1>0, <1>9, <2>3, <2>5
          DEF KillProcess, LoaderTypes, Handling, alertVars
<1>10. CASE ConsumeAlert
  <2> DEFINE A == [pid : Pids, rule : RuleNames, action : {"alert", "block", "kill"}]
  <2>1. alertChan # << >> /\ alertChan' = Tail(alertChan) /\ alertChan \in Seq(A)
    BY <1>0, <1>10 DEF ConsumeAlert, LoaderTypes
  <2> HIDE DEF A
  <2>2. /\ alertChan' \in Seq(A) /\ Len(alertChan') = Len(alertChan) - 1
        /\ Len(alertChan) \in Nat
    BY <2>1, HeadTailProperties, LenProperties
  <2>3. Len(alertChan') <= ChanCap /\ stored' \in Nat
    BY <1>0, <1>10, <2>2, LoaderAssumption DEF ConsumeAlert, LoaderTypes
  <2> QED BY <1>0, <1>10, <2>2, <2>3
          DEF ConsumeAlert, LoaderTypes, Handling, A, vars, engineVars, killVars
<1>11. CASE LoaderConfig
  BY <1>0, <1>11 DEF LoaderConfig, EngineConfig, engineVars, LoaderTypes,
                     Handling, alertVars
<1>12. CASE LoaderTick \/ UNCHANGED allVars
  <2>1. UNCHANGED <<step, anomaly, loaderVars>>
    BY <1>12 DEF LoaderTick, Tick, allVars, vars, engineVars
  <2> QED BY <1>0, <2>1 DEF LoaderTypes, Handling, loaderVars, alertVars, killVars
<1> QED BY <1>1, <1>2, <1>3, <1>4, <1>5, <1>6, <1>7, <1>8, <1>9, <1>10, <1>11, <1>12
        DEF LoaderNext, EventLoop

\* The loop, the processes, the consumer and the POSTs keep every variable in
\* its type, and handleAnomaly runs only on an anomaly Analyze returned.
THEOREM LoaderTypeCorrect == LoaderSafe => []LoaderTypeOK
  BY LoaderTypeInit, LoaderTypeStep, PTL DEF LoaderSafe

\* Whatever the loop, the kill switch and the consumer do between and after the
\* steps of Analyze, the engine in the loader behaves as the engine on its own:
\* each theorem of EngineProofs holds of it.
THEOREM LoaderRunsEngine == LoaderSafe => EngineSpec
<1>1. LoaderInit => EngineStart
  BY DEF LoaderInit, EngineStart
<1> QED BY <1>1, EngineStep, LoaderTypeCorrect, PTL DEF LoaderSafe, EngineSpec

-----------------------------------------------------------------------------
(* Every anomaly is counted. *)

\* How many anomalies each of the profiles ps holds.
Held(ps) == [pid \in DOMAIN ps |-> Len(ps[pid].anomalies)]

InFlight == IF anomaly # None /\ ~Handling THEN 1 ELSE 0

Accounted ==
    /\ IsFiniteSet(DOMAIN profiles)
    /\ SumFunction(Held(profiles)) = detected + InFlight
    /\ detected = stored + Len(alertChan) + dropped

\* A profile that is set to hold k anomalies more adds k to the sum.
LEMMA HeldSet ==
  ASSUME ProfilesTyped, IsFiniteSet(DOMAIN profiles), NEW pid, NEW q \in Profile,
         SetProfile(pid, q), NEW k \in Nat,
         Len(q.anomalies) = Len(ProfileOf(pid).anomalies) + k
  PROVE  /\ IsFiniteSet(DOMAIN profiles')
         /\ SumFunction(Held(profiles')) = SumFunction(Held(profiles)) + k
<1> DEFINE f == Held(profiles)
           g == Held(profiles')
           S == DOMAIN profiles
<1>1. /\ DOMAIN profiles' = S \cup {pid} /\ profiles'[pid] = q
      /\ \A p \in S : p # pid => profiles'[p] = profiles[p]
  BY SetProfileFacts
<1>2. /\ DOMAIN f = S /\ DOMAIN g = S \cup {pid}
      /\ \A p \in S : f[p] = Len(profiles[p].anomalies)
      /\ g[pid] = Len(q.anomalies)
      /\ \A p \in S \ {pid} : g[p] = f[p]
  BY <1>1 DEF Held
<1>3. \A p \in Profile : Len(p.anomalies) \in Nat
  BY LenProperties DEF Profile
<1>4. /\ \A p \in S : f[p] \in Int
      /\ \A p \in S \cup {pid} : g[p] \in Int
  BY <1>2, <1>3 DEF ProfilesTyped
<1>5. IsFiniteSet(S \cup {pid})
  BY FS_AddElement
<1>6. /\ SumFunction(f) = SumFunctionOnSet(f, S)
      /\ SumFunction(g) = SumFunctionOnSet(g, S \cup {pid})
  BY <1>2 DEF SumFunction
<1>7. SumFunctionOnSet(f, S) \in Int
  BY <1>4, SumOfInts
<1> HIDE DEF f, g, S
<1>8. CASE pid \in S
  <2>1. S \cup {pid} = S
    BY <1>8
  <2>2. SumFunctionOnSet(g, S) = SumFunctionOnSet(f, S) - f[pid] + g[pid]
    BY <1>2, <1>4, <1>8, SumOfChanged DEF S
  <2>3. g[pid] = f[pid] + k
    BY <1>2, <1>8 DEF ProfileOf, S
  <2>4. f[pid] \in Int
    BY <1>4, <1>8
  <2>5. SumFunction(g) = SumFunctionOnSet(g, S)
    BY <1>6, <2>1, Zenon
  <2>6. SumFunction(g) = SumFunction(f) + k
    BY <1>6, <1>7, <2>2, <2>3, <2>4, <2>5
  <2> QED BY <1>1, <1>5, <2>6 DEF f, g, S
<1>9. CASE pid \notin S
  <2>1. SumFunctionOnSet(g, S \cup {pid}) = SumFunctionOnSet(f, S) + g[pid]
    BY <1>2, <1>4, <1>9, SumOfExtended DEF S
  <2>2. g[pid] = k
    <3>1. ProfileOf(pid).anomalies = << >>
      BY <1>9 DEF ProfileOf, NewProfile, S
    <3>2. Len(<< >>) = 0
      BY EmptySeq
    <3> QED BY <1>2, <3>1, <3>2
  <2> QED BY <1>1, <1>5, <1>6, <2>1, <2>2 DEF f, g
<1> QED BY <1>8, <1>9

\* An escalated anomaly is still one.
LEMMA EscalateFacts ==
  ASSUME TypeOK, Escalate
  PROVE  /\ step = "escalate" /\ step' = "return"
         /\ anomaly \in AnomalyType /\ anomaly' \in AnomalyType
         /\ UNCHANGED <<profiles, now, processed, sample, configVars>>
<1>1. anomaly \in AnomalyType
  BY DEF Escalate, TypeOK
<1>2. [anomaly EXCEPT !.action = "kill"] \in AnomalyType
  BY <1>1 DEF AnomalyType
<1> QED BY <1>1, <1>2 DEF Escalate

LEMMA HeldOfNone ==
  SumFunction(Held(<< >>)) = 0 /\ IsFiniteSet(DOMAIN << >>)
<1>1. DOMAIN << >> = {}
  BY EmptySeq
<1>2. DOMAIN Held(<< >>) = {}
  BY <1>1 DEF Held
<1> QED BY <1>1, <1>2, SumOfNone, FS_EmptySet DEF SumFunction

LEMMA AccountedInit == LoaderInit => Accounted
<1> SUFFICES ASSUME LoaderInit PROVE Accounted
  OBVIOUS
<1>1. profiles = << >> /\ anomaly = None /\ alertChan = << >>
      /\ detected = 0 /\ stored = 0 /\ dropped = 0
  BY DEF LoaderInit, EngineInit
<1> QED BY <1>1, HeldOfNone, EmptySeq DEF Accounted, InFlight

LEMMA AccountedStep ==
  ASSUME LoaderTypeOK, Accounted, [LoaderNext]_allVars
  PROVE  Accounted'
<1> DEFINE total == SumFunction(Held(profiles))
<1>0. /\ TypeOK /\ ProfilesTyped /\ IsFiniteSet(DOMAIN profiles)
      /\ total = detected + InFlight
      /\ detected = stored + Len(alertChan) + dropped
      /\ detected \in Nat /\ stored \in Nat /\ dropped \in Nat
      /\ Len(alertChan) \in Nat
  BY LenProperties DEF LoaderTypeOK, TypeOK, ProfilesTyped, Accounted
<1>1. UNCHANGED profiles
      => /\ IsFiniteSet(DOMAIN profiles') /\ total' = total
  BY <1>0
<1>2. UNCHANGED <<anomaly, acting>> => InFlight' = InFlight
  BY DEF InFlight, Handling
<1>3. ASSUME total' = total, InFlight' = InFlight, IsFiniteSet(DOMAIN profiles'),
             UNCHANGED <<detected, stored, alertChan, dropped>>
      PROVE  Accounted'
  BY <1>0, <1>3 DEF Accounted
<1> SUFFICES Accounted'
  OBVIOUS
<1>4. CASE ReadEvent
  <2>1. ring # << >> /\ Observe(Head(ring).raw) /\ Head(ring).raw \in Samples
    BY <1>4, HeadOfRing DEF ReadEvent
  <2>2. PICK q \in Profile :
           /\ SetProfile(Head(ring).raw.pid, q)
           /\ q.anomalies = ProfileOf(Head(ring).raw.pid).anomalies
    BY <1>0, <2>1, ObserveFacts
  <2>3. q.anomalies \in Seq(AnomalyType)
    BY DEF Profile
  <2>4. Len(q.anomalies) = Len(ProfileOf(Head(ring).raw.pid).anomalies) + 0
    BY <2>2, <2>3, LenProperties
  <2>5. IsFiniteSet(DOMAIN profiles') /\ total' = total + 0
    BY <1>0, <2>2, <2>4, HeldSet
  <2>6. UNCHANGED <<anomaly, acting, detected, stored, alertChan, dropped>>
    BY <1>4 DEF ReadEvent, Observe, alertVars
  <2>7. total' = total
    BY <1>0, <2>5 DEF InFlight
  <2> QED BY <1>2, <1>3, <2>5, <2>6, <2>7
<1>5. CASE AnalyzeMatch
  <2>1. RuleMatches /\ UNCHANGED <<acting, detected, stored, alertChan, dropped>>
    BY <1>5 DEF AnalyzeMatch, alertVars
  <2> DEFINE p == profiles[sample.pid]
  <2>2. /\ step = "rules" /\ sample.pid \in DOMAIN profiles /\ p \in Profile
    BY <1>0, <2>1, RuleMatchesFacts
  <2>3. PICK a \in AnomalyType :
           anomaly' = a /\ SetProfile(sample.pid, Recorded(p, a))
    BY <1>0, <2>1, RuleMatchesFacts
  <2>4. ProfileOf(sample.pid) = p
    BY <2>2 DEF ProfileOf
  <2> HIDE DEF p
  <2>5. /\ Recorded(p, a) \in Profile
        /\ Recorded(p, a).anomalies = Append(p.anomalies, a)
        /\ Len(Append(p.anomalies, a)) = Len(p.anomalies) + 1
    BY <2>2, RecordedProfile DEF Recorded, Profile
  <2>6. IsFiniteSet(DOMAIN profiles') /\ total' = total + 1
    BY <1>0, <2>3, <2>4, <2>5, HeldSet
  <2>7. anomaly = None /\ acting = "no"
    BY <2>2 DEF LoaderTypeOK, TypeOK, Handling
  <2>8. InFlight = 0 /\ InFlight' = 1
    BY <2>1, <2>3, <2>7, NoneAssumption DEF InFlight, Handling
  <2> QED BY <1>0, <2>1, <2>6, <2>8 DEF Accounted
<1>6. CASE AnalyzeOther
  <2>1. UNCHANGED <<acting, detected, stored, alertChan, dropped>>
    BY <1>6 DEF AnalyzeOther, loaderVars, alertVars
  <2>2. CASE EndLearning
    <3>1. UNCHANGED anomaly
      BY <2>2 DEF EndLearning
    <3>2. CASE UNCHANGED profiles
      BY <1>1, <1>2, <1>3, <2>1, <3>1, <3>2
    <3>3. CASE \E q \in Profile : /\ SetProfile(sample.pid, q)
                                  /\ q.anomalies = profiles[sample.pid].anomalies
      <4>1. PICK q \in Profile : /\ SetProfile(sample.pid, q)
                                 /\ q.anomalies = profiles[sample.pid].anomalies
        BY <3>3
      <4>2. sample.pid \in DOMAIN profiles
        BY <1>0, <2>2 DEF EndLearning, TypeOK
      <4>3. q.anomalies \in Seq(AnomalyType)
        BY DEF Profile
      <4>4. Len(q.anomalies) = Len(ProfileOf(sample.pid).anomalies) + 0
        BY <4>1, <4>2, <4>3, LenProperties DEF ProfileOf
      <4>5. IsFiniteSet(DOMAIN profiles') /\ total' = total + 0
        BY <1>0, <4>1, <4>4, HeldSet
      <4>6. total' = total
        BY <1>0, <4>5 DEF InFlight
      <4> QED BY <1>2, <1>3, <2>1, <3>1, <4>5, <4>6
    <3> QED BY <1>0, <2>2, <3>2, <3>3, EndLearningFacts
  <2>3. CASE NoRuleMatches
    BY <1>1, <1>2, <1>3, <2>1, <2>3 DEF NoRuleMatches
  <2>4. CASE Escalate
    <3>1. /\ anomaly \in AnomalyType /\ anomaly' \in AnomalyType
          /\ UNCHANGED profiles
      BY <1>0, <2>4, EscalateFacts
    <3>2. InFlight' = InFlight
      BY <2>1, <3>1, NoneAssumption DEF InFlight, Handling
    <3> QED BY <1>1, <1>3, <2>1, <3>1, <3>2
  <2> QED BY <1>6, <2>2, <2>3, <2>4 DEF AnalyzeOther
<1>7. CASE NothingFound \/ DecideToSpare \/ KillProcess
  <2>1. anomaly' = None /\ UNCHANGED <<profiles, detected, stored, alertChan, dropped>>
    BY <1>7 DEF NothingFound, DecideToSpare, KillProcess, Return, loaderVars,
                alertVars
  <2>2. InFlight = 0 /\ InFlight' = 0
    BY <1>7, <2>1 DEF NothingFound, DecideToSpare, KillProcess, InFlight, Handling
  <2> QED BY <1>1, <1>3, <2>1, <2>2
<1>8. CASE ReportAnomaly
  <2>1. /\ UNCHANGED <<profiles, anomaly, stored>> /\ detected' = detected + 1
        /\ acting = "no" /\ acting' = "decide" /\ anomaly # None
        /\ \/ alertChan' = Append(alertChan, Alert) /\ dropped' = dropped
           \/ alertChan' = alertChan /\ dropped' = dropped + 1
    BY <1>8 DEF ReportAnomaly, vars, engineVars
  <2>2. InFlight = 1 /\ InFlight' = 0
    BY <2>1 DEF InFlight, Handling
  <2>3. Len(Append(alertChan, Alert)) = Len(alertChan) + 1
    <3> DEFINE A == [pid : Pids, rule : RuleNames,
                     action : {"alert", "block", "kill"}]
    <3>1. alertChan \in Seq(A) /\ Alert \in A
      BY <1>0, <1>8, AlertType DEF ReportAnomaly, LoaderTypeOK
    <3> HIDE DEF A
    <3> QED BY <3>1, AppendProperties
  <2>4. detected' = stored' + Len(alertChan') + dropped'
    BY <1>0, <2>1, <2>3
  <2> QED BY <1>0, <1>1, <2>1, <2>2, <2>4 DEF Accounted
<1>9. CASE DecideToKill
  <2>1. /\ acting = "decide" /\ acting' = "kill"
        /\ UNCHANGED <<profiles, detected, stored, alertChan, dropped>>
    BY <1>9 DEF DecideToKill, vars, engineVars, alertVars
  <2> QED BY <1>1, <1>3, <2>1 DEF InFlight, Handling
<1>10. CASE ConsumeAlert
  <2>1. /\ UNCHANGED <<profiles, anomaly, acting, detected, dropped>>
        /\ alertChan # << >> /\ alertChan' = Tail(alertChan)
        /\ stored' = stored + 1
    BY <1>10 DEF ConsumeAlert, vars, engineVars
  <2>2. Len(Tail(alertChan)) = Len(alertChan) - 1
    BY <2>1, HeadTailProperties DEF LoaderTypeOK
  <2> QED BY <1>0, <1>1, <1>2, <2>1, <2>2 DEF Accounted
<1>11. ASSUME NEW raw \in Samples, Syscall(raw) PROVE Accounted'
  BY <1>1, <1>2, <1>3, <1>11 DEF Syscall, vars, engineVars, alertVars
<1>12. ASSUME NEW pid \in Pids, Exit(pid) \/ Reuse(pid) PROVE Accounted'
  BY <1>1, <1>2, <1>3, <1>12 DEF Exit, Reuse, vars, engineVars, alertVars
<1>13. CASE LoaderConfig \/ LoaderTick \/ UNCHANGED allVars
  <2>1. UNCHANGED <<profiles, anomaly, acting, detected, stored, alertChan, dropped>>
    BY <1>13 DEF LoaderConfig, EngineConfig, LoaderTick, Tick, allVars, vars,
                 engineVars, loaderVars, alertVars
  <2> QED BY <1>1, <1>2, <1>3, <2>1
<1> QED BY <1>4, <1>5, <1>6, <1>7, <1>8, <1>9, <1>10, <1>11, <1>12, <1>13
        DEF LoaderNext, EventLoop

LEMMA AccountedAlways == LoaderSafe => []Accounted
<1>1. LoaderTypeOK /\ Accounted /\ [LoaderNext]_allVars => Accounted'
  BY AccountedStep
<1> QED BY <1>1, AccountedInit, LoaderTypeCorrect, PTL DEF LoaderSafe

\* No anomaly is lost between the engine, the counter and the alert channel,
\* however full the channel and whatever the consumer does.
THEOREM AnomaliesAccounted == LoaderSafe => []AnomalyAccounting
<1>1. Accounted => AnomalyAccounting
  BY DEF Accounted, AnomalyAccounting, InFlight, Held
<1> QED BY <1>1, AccountedAlways, PTL

-----------------------------------------------------------------------------
(* The kill switch. *)

\* A kill that is decided was decided with AutoKill on, so none is late yet;
\* only a handled anomaly is killed for, and each is counted first.
KillsDecided ==
    /\ lateKills <= 1
    /\ lateKills > 0 => ~config.autoKill /\ acting # "kill"
    /\ processesKilled + (IF acting = "decide" THEN 1 ELSE 0) <= detected

LEMMA KillsDecidedStep ==
  ASSUME LoaderTypeOK, KillsDecided, [LoaderNext]_allVars
  PROVE  KillsDecided'
<1>0. /\ lateKills \in Nat /\ processesKilled \in Nat /\ detected \in Nat
      /\ acting \in {"no", "decide", "kill"} /\ config.autoKill \in BOOLEAN
  BY DEF LoaderTypeOK, TypeOK, ConfigTypeOK, Config
<1>1. ASSUME UNCHANGED <<config, acting, lateKills, processesKilled, detected>>
      PROVE  KillsDecided'
  BY <1>1 DEF KillsDecided
<1> SUFFICES KillsDecided'
  OBVIOUS
<1>2. CASE ReadEvent
  BY <1>1, <1>2 DEF ReadEvent, Observe, configVars, killVars
<1>3. CASE AnalyzeMatch
  BY <1>1, <1>3 DEF AnalyzeMatch, RuleMatches, configVars, killVars
<1>4. CASE AnalyzeOther \/ NothingFound
  BY <1>1, <1>4 DEF AnalyzeOther, NothingFound, EndLearning, NoRuleMatches,
                    Escalate, Return, configVars, loaderVars, killVars
<1>5. CASE ReportAnomaly
  <2>1. /\ acting = "no" /\ acting' = "decide" /\ detected' = detected + 1
        /\ UNCHANGED <<config, lateKills, processesKilled>>
    BY <1>5 DEF ReportAnomaly, vars, configVars, killVars
  <2> QED BY <1>0, <2>1 DEF KillsDecided
<1>6. CASE DecideToKill
  <2>1. /\ acting = "decide" /\ acting' = "kill" /\ config.autoKill
        /\ processesKilled' = processesKilled + 1
        /\ UNCHANGED <<config, lateKills, detected>>
    BY <1>6 DEF DecideToKill, vars, configVars
  <2> QED BY <1>0, <2>1 DEF KillsDecided
<1>7. CASE DecideToSpare
  <2>1. /\ acting = "decide" /\ acting' = "no"
        /\ UNCHANGED <<config, lateKills, processesKilled, detected>>
    BY <1>7 DEF DecideToSpare, Return, configVars, killVars
  <2> QED BY <1>0, <2>1 DEF KillsDecided
<1>8. CASE KillProcess
  <2>1. /\ acting = "kill" /\ acting' = "no"
        /\ lateKills' = IF config.autoKill THEN 0 ELSE lateKills + 1
        /\ UNCHANGED <<config, processesKilled, detected>>
    BY <1>8 DEF KillProcess, Return, configVars
  <2>2. lateKills = 0
    BY <1>0, <2>1 DEF KillsDecided
  <2> QED BY <1>0, <2>1, <2>2 DEF KillsDecided
<1>9. CASE LoaderConfig
  <2>1. /\ lateKills' = IF config'.autoKill THEN 0 ELSE lateKills
        /\ UNCHANGED <<acting, processesKilled, detected>>
    BY <1>9 DEF LoaderConfig
  <2> QED BY <1>0, <2>1 DEF KillsDecided
<1>10. CASE ConsumeAlert \/ LoaderTick \/ UNCHANGED allVars
  BY <1>1, <1>10 DEF ConsumeAlert, LoaderTick, Tick, allVars, vars, configVars,
                     loaderVars, killVars
<1>11. ASSUME NEW raw \in Samples, Syscall(raw) PROVE KillsDecided'
  BY <1>1, <1>11 DEF Syscall, vars, configVars, killVars
<1>12. ASSUME NEW pid \in Pids, Exit(pid) \/ Reuse(pid) PROVE KillsDecided'
  BY <1>1, <1>12 DEF Exit, Reuse, vars, configVars, killVars
<1> QED BY <1>2, <1>3, <1>4, <1>5, <1>6, <1>7, <1>8, <1>9, <1>10, <1>11, <1>12
        DEF LoaderNext, EventLoop

LEMMA KillsDecidedAlways == LoaderSafe => []KillsDecided
<1>1. LoaderInit => KillsDecided
  BY DEF LoaderInit, KillsDecided
<1>2. LoaderTypeOK /\ KillsDecided /\ [LoaderNext]_allVars => KillsDecided'
  BY KillsDecidedStep
<1> QED BY <1>1, <1>2, LoaderTypeCorrect, PTL DEF LoaderSafe

\* AutoKill switched off while the loop handles an anomaly lets one SIGKILL
\* more through, never two, whatever is queued in the ring.
THEOREM DisarmingWorks == LoaderSafe => []DisarmStopsKills
<1>1. KillsDecided => DisarmStopsKills
  BY DEF KillsDecided, DisarmStopsKills
<1> QED BY <1>1, KillsDecidedAlways, PTL

-----------------------------------------------------------------------------
(* Who is killed. *)

\* A record is not younger than the process that has its pid.
OwnersExist ==
    /\ \A i \in 1..Len(ring) : ring[i].gen <= process[ring[i].raw.pid].gen
    /\ step # "idle" => owner <= process[sample.pid].gen

\* An anomaly in flight is in its profile, and its process is flagged.
FlaggedFirst ==
    anomaly # None => /\ <<sample.pid, owner>> \in flagged
                      /\ sample.pid \in DOMAIN profiles
                      /\ Len(profiles[sample.pid].anomalies) > 0

\* Who was killed has a record, and it or a process that had its pid before is
\* flagged.
KilledWereFlagged ==
    \A who \in signalled :
       /\ who[1] \in DOMAIN profiles /\ Len(profiles[who[1]].anomalies) > 0
       /\ \E gen \in 0..who[2] : <<who[1], gen>> \in flagged

LEMMA OwnersExistStep ==
  ASSUME LoaderTypeOK, OwnersExist, [LoaderNext]_allVars
  PROVE  OwnersExist'
<1> DEFINE Rec == [raw : Samples, gen : 0..MaxGen]
<1>0. /\ TypeOK /\ ring \in Seq(Rec) /\ Len(ring) \in Nat
      /\ process \in [Pids -> [gen : 0..MaxGen, alive : BOOLEAN]]
      /\ \A i \in 1..Len(ring) : ring[i] \in Rec /\ ring[i].raw.pid \in Pids
      /\ step # "idle" => sample.pid \in Pids
      /\ owner \in 0..MaxGen
  <2>1. TypeOK /\ ring \in Seq(Rec) /\ owner \in 0..MaxGen
        /\ process \in [Pids -> [gen : 0..MaxGen, alive : BOOLEAN]]
    BY DEF LoaderTypeOK
  <2>2. step # "idle" => sample.pid \in Pids
    BY <2>1, EngineAssumption DEF TypeOK
  <2> HIDE DEF Rec
  <2>3. Len(ring) \in Nat /\ \A i \in 1..Len(ring) : ring[i] \in Rec
    BY <2>1, LenProperties, ElementOfSeq
  <2>4. \A r \in Rec : r.raw.pid \in Pids
    BY EngineAssumption DEF Rec
  <2> QED BY <2>1, <2>2, <2>3, <2>4
\* A process that has a pid is followed by younger ones only.
<1>1. \A pid \in Pids :
         /\ process[pid].gen \in Nat /\ process'[pid].gen \in Nat
         /\ process'[pid].gen >= process[pid].gen
  <2>1. LoaderTypeOK'
    BY LoaderTypeStep
  <2>2. process' \in [Pids -> [gen : 0..MaxGen, alive : BOOLEAN]]
    BY <2>1 DEF LoaderTypeOK
  <2> SUFFICES ASSUME NEW pid \in Pids PROVE process'[pid].gen >= process[pid].gen
    BY <1>0, <2>2, LoaderAssumption
  <2>3. process[pid].gen \in Nat
    BY <1>0
  <2>4. ASSUME NEW p \in Pids, Exit(p) PROVE process'[pid].gen >= process[pid].gen
    BY <1>0, <2>3, <2>4 DEF Exit
  <2>5. ASSUME NEW p \in Pids, Reuse(p) PROVE process'[pid].gen >= process[pid].gen
    BY <1>0, <2>3, <2>5 DEF Reuse
  <2>6. CASE KillProcess
    <3>1. \/ process' = process
          \/ process' = [process EXCEPT ![sample.pid].alive = FALSE]
      BY <2>6 DEF KillProcess
    <3> QED BY <1>0, <2>3, <3>1
  <2>7. CASE \/ \E raw \in Samples : Syscall(raw)
             \/ ReadEvent \/ AnalyzeMatch \/ AnalyzeOther \/ NothingFound
             \/ ReportAnomaly \/ DecideToKill \/ DecideToSpare
             \/ ConsumeAlert \/ LoaderConfig \/ LoaderTick \/ UNCHANGED allVars
    <3>1. process' = process
      BY <2>7 DEF Syscall, ReadEvent, AnalyzeMatch, AnalyzeOther, NothingFound,
                  ReportAnomaly, DecideToKill, DecideToSpare, ConsumeAlert,
                  LoaderConfig, LoaderTick, allVars, loaderVars
    <3> QED BY <2>3, <3>1
  <2> QED BY <2>4, <2>5, <2>6, <2>7 DEF LoaderNext, EventLoop
<1> HIDE DEF Rec
<1>2. ASSUME UNCHANGED ring, step' # "idle" => step # "idle" /\ UNCHANGED <<sample, owner>>
      PROVE  OwnersExist'
  <2>1. \A i \in 1..Len(ring) : ring[i].gen <= process'[ring[i].raw.pid].gen
    <3> SUFFICES ASSUME NEW i \in 1..Len(ring)
                 PROVE  ring[i].gen <= process'[ring[i].raw.pid].gen
      OBVIOUS
    <3>1. ring[i].gen \in Nat /\ ring[i].raw.pid \in Pids
      BY <1>0, LoaderAssumption DEF Rec
    <3>2. ring[i].gen <= process[ring[i].raw.pid].gen
      BY DEF OwnersExist
    <3> QED BY <1>1, <3>1, <3>2
  <2>2. step' # "idle" => owner <= process'[sample.pid].gen
    <3> SUFFICES ASSUME step' # "idle" PROVE owner <= process'[sample.pid].gen
      OBVIOUS
    <3>1. owner <= process[sample.pid].gen /\ sample.pid \in Pids /\ owner \in Nat
      BY <1>0, <1>2, LoaderAssumption DEF OwnersExist
    <3> QED BY <1>1, <3>1
  <2> QED BY <1>2, <2>1, <2>2 DEF OwnersExist
<1> SUFFICES OwnersExist'
  OBVIOUS
<1>3. ASSUME NEW raw \in Samples, Syscall(raw) PROVE OwnersExist'
  <2> DEFINE r == [raw |-> raw, gen |-> process[raw.pid].gen]
             n == Len(ring)
  <2>1. /\ ring' = Append(ring, r) /\ UNCHANGED <<process, owner, step, sample>>
    BY <1>3 DEF Syscall, vars, engineVars
  <2>2. r \in Rec /\ r.gen = process[r.raw.pid].gen
    BY <1>0, EngineAssumption DEF Rec
  <2>3. r.gen <= process[r.raw.pid].gen
    BY <1>0, <1>1, <2>2, EngineAssumption
  <2> HIDE DEF r, n
  <2>4. /\ Len(ring') = n + 1 /\ ring'[n + 1] = r
        /\ \A i \in 1..n : ring'[i] = ring[i]
    BY <1>0, <2>1, <2>2, AppendProperties DEF n
  <2>5. \A i \in 1..Len(ring') : i \in 1..n \/ i = n + 1
    BY <1>0, <2>4 DEF n
  <2>6. \A i \in 1..n : ring[i].gen <= process[ring[i].raw.pid].gen
    BY DEF OwnersExist, n
  <2>7. \A i \in 1..Len(ring') : ring'[i].gen <= process'[ring'[i].raw.pid].gen
    BY <2>1, <2>3, <2>4, <2>5, <2>6
  <2> QED BY <2>1, <2>7 DEF OwnersExist
<1>4. CASE ReadEvent
  <2>1. /\ ring # << >> /\ ring' = Tail(ring) /\ owner' = Head(ring).gen
        /\ sample' = Head(ring).raw /\ process' = process
    BY <1>4 DEF ReadEvent, Observe
  <2>2. /\ Head(ring) = ring[1] /\ Len(ring) >= 1
        /\ Len(ring') = Len(ring) - 1
        /\ \A i \in 1..Len(ring') : ring'[i] = ring[i + 1]
    BY <1>0, <2>1, HeadTailProperties, EmptySeq
  <2>3. owner' <= process'[sample'.pid].gen
    BY <1>0, <2>1, <2>2 DEF OwnersExist
  <2>4. \A i \in 1..Len(ring') : ring'[i].gen <= process'[ring'[i].raw.pid].gen
    <3> SUFFICES ASSUME NEW i \in 1..Len(ring')
                 PROVE  ring'[i].gen <= process'[ring'[i].raw.pid].gen
      OBVIOUS
    <3>1. i + 1 \in 1..Len(ring)
      BY <1>0, <2>2
    <3> QED BY <2>1, <2>2, <3>1 DEF OwnersExist
  <2> QED BY <2>3, <2>4 DEF OwnersExist
<1>5. CASE AnalyzeMatch \/ AnalyzeOther
  BY <1>2, <1>5 DEF AnalyzeMatch, AnalyzeOther, RuleMatches, EndLearning,
                    NoRuleMatches, Escalate, loaderVars
<1>6. CASE NothingFound \/ DecideToSpare \/ KillProcess
  BY <1>2, <1>6 DEF NothingFound, DecideToSpare, KillProcess, Return, loaderVars
<1>7. CASE \/ ReportAnomaly \/ DecideToKill \/ ConsumeAlert \/ LoaderConfig
           \/ LoaderTick \/ UNCHANGED allVars
  BY <1>2, <1>7 DEF ReportAnomaly, DecideToKill, ConsumeAlert, LoaderConfig,
                    LoaderTick, EngineConfig, Tick, allVars, loaderVars, vars,
                    engineVars
<1>8. ASSUME NEW pid \in Pids, Exit(pid) \/ Reuse(pid) PROVE OwnersExist'
  BY <1>2, <1>8 DEF Exit, Reuse, vars, engineVars
<1> QED BY <1>3, <1>4, <1>5, <1>6, <1>7, <1>8 DEF LoaderNext, EventLoop

\* Profiles are kept and their anomalies as well.
LEMMA AnomaliesKept ==
  ASSUME LoaderTypeOK, [LoaderNext]_allVars, NEW pid \in DOMAIN profiles,
         Len(profiles[pid].anomalies) > 0
  PROVE  pid \in DOMAIN profiles' /\ Len(profiles'[pid].anomalies) > 0
<1>1. TypeOK /\ TypeOK' /\ [EngineNext]_vars
  BY EngineStep, TypeStep DEF LoaderTypeOK
<1>2. pid \in DOMAIN profiles' /\ Grows(profiles[pid], profiles'[pid])
  BY <1>1, ProfilesGrow
<1>3. profiles[pid] \in Profile /\ profiles'[pid] \in Profile
  BY <1>1, <1>2 DEF TypeOK
<1>4. \A p \in Profile : Len(p.anomalies) \in Nat
  BY LenProperties DEF Profile
<1> QED BY <1>2, <1>3, <1>4 DEF Grows

LEMMA FlaggedFirstStep ==
  ASSUME LoaderTypeOK, FlaggedFirst, [LoaderNext]_allVars
  PROVE  FlaggedFirst'
<1>0. TypeOK
  BY DEF LoaderTypeOK
\* An anomaly that stays in flight keeps what is said of it.
<1>1. ASSUME anomaly # None, UNCHANGED <<sample, owner>>, flagged \subseteq flagged'
      PROVE  FlaggedFirst'
  BY <1>1, AnomaliesKept DEF FlaggedFirst
<1>2. ASSUME UNCHANGED <<anomaly, sample, owner>>, flagged \subseteq flagged'
      PROVE  FlaggedFirst'
  BY <1>1, <1>2 DEF FlaggedFirst
<1> SUFFICES FlaggedFirst'
  OBVIOUS
<1>3. CASE ReadEvent
  <2>1. anomaly' = anomaly /\ step = "idle"
    BY <1>3 DEF ReadEvent, Observe
  <2>2. anomaly' = None
    BY <1>0, <2>1 DEF TypeOK
  <2> QED BY <2>2 DEF FlaggedFirst
<1>4. CASE AnalyzeMatch
  <2>1. /\ UNCHANGED <<sample, owner>>
        /\ flagged' = flagged \cup {<<sample.pid, owner>>}
        /\ sample.pid \in DOMAIN profiles /\ profiles[sample.pid] \in Profile
    BY <1>0, <1>4, RuleMatchesFacts DEF AnalyzeMatch
  <2>2. PICK a \in AnomalyType :
           SetProfile(sample.pid, Recorded(profiles[sample.pid], a))
    BY <1>0, <1>4, RuleMatchesFacts DEF AnalyzeMatch
  <2> DEFINE p == profiles[sample.pid]
  <2>3. profiles'[sample.pid] = Recorded(p, a) /\ sample.pid \in DOMAIN profiles'
    BY <2>2, SetProfileFacts
  <2> HIDE DEF p
  <2>4. /\ Recorded(p, a).anomalies = Append(p.anomalies, a)
        /\ Len(Append(p.anomalies, a)) = Len(p.anomalies) + 1
        /\ Len(p.anomalies) \in Nat
    BY <2>1, RecordedProfile DEF Recorded, Profile, p
  <2> QED BY <2>1, <2>3, <2>4 DEF FlaggedFirst
<1>5. CASE AnalyzeOther
  <2>1. UNCHANGED <<sample, owner, flagged>>
    BY <1>5 DEF AnalyzeOther, EndLearning, NoRuleMatches, Escalate, loaderVars
  <2>2. UNCHANGED anomaly \/ anomaly # None
    BY <1>0, <1>5, EscalateFacts, NoneAssumption
    DEF AnalyzeOther, EndLearning, NoRuleMatches
  <2> QED BY <1>1, <1>2, <2>1, <2>2
<1>6. CASE NothingFound \/ DecideToSpare \/ KillProcess
  <2>1. anomaly' = None
    BY <1>6 DEF NothingFound, DecideToSpare, KillProcess, Return
  <2> QED BY <2>1 DEF FlaggedFirst
<1>7. CASE \/ ReportAnomaly \/ DecideToKill \/ ConsumeAlert \/ LoaderConfig
           \/ LoaderTick \/ UNCHANGED allVars
  BY <1>2, <1>7 DEF ReportAnomaly, DecideToKill, ConsumeAlert, LoaderConfig,
                    LoaderTick, EngineConfig, Tick, allVars, loaderVars, vars,
                    engineVars
<1>8. ASSUME NEW raw \in Samples, Syscall(raw) PROVE FlaggedFirst'
  BY <1>2, <1>8 DEF Syscall, vars, engineVars
<1>9. ASSUME NEW pid \in Pids, Exit(pid) \/ Reuse(pid) PROVE FlaggedFirst'
  BY <1>2, <1>9 DEF Exit, Reuse, vars, engineVars
<1> QED BY <1>3, <1>4, <1>5, <1>6, <1>7, <1>8, <1>9 DEF LoaderNext, EventLoop

LEMMA KilledWereFlaggedStep ==
  ASSUME LoaderTypeOK, OwnersExist, FlaggedFirst, KilledWereFlagged,
         [LoaderNext]_allVars
  PROVE  KilledWereFlagged'
<1>1. flagged \subseteq flagged'
  BY DEF LoaderNext, EventLoop, Syscall, Exit, Reuse, ReadEvent, AnalyzeMatch,
         AnalyzeOther, NothingFound, ReportAnomaly, DecideToKill, DecideToSpare,
         KillProcess, ConsumeAlert, LoaderConfig, LoaderTick, allVars, loaderVars
<1>2. ASSUME NEW who \in signalled
      PROVE  /\ who[1] \in DOMAIN profiles' /\ Len(profiles'[who[1]].anomalies) > 0
             /\ \E gen \in 0..who[2] : <<who[1], gen>> \in flagged'
  BY <1>1, AnomaliesKept DEF KilledWereFlagged
<1>3. CASE KillProcess
  <2> DEFINE who == Process(sample.pid)
  <2>1. /\ signalled' \subseteq signalled \cup {who}
        /\ UNCHANGED profiles /\ acting = "kill" /\ step = "return"
    BY <1>3 DEF KillProcess, Return
  <2>2. anomaly # None
    BY <2>1 DEF LoaderTypeOK, Handling
  <2>3. who[1] = sample.pid /\ who[2] = process[sample.pid].gen
    BY DEF Process
  <2>4. owner \in 0..who[2]
    <3>1. sample.pid \in Pids /\ owner \in 0..MaxGen
      BY <2>1, EngineAssumption DEF LoaderTypeOK, TypeOK
    <3>2. process[sample.pid].gen \in 0..MaxGen
      BY <3>1 DEF LoaderTypeOK
    <3> QED BY <2>1, <2>3, <3>1, <3>2, LoaderAssumption DEF OwnersExist
  <2> HIDE DEF who
  <2>5. /\ who[1] \in DOMAIN profiles' /\ Len(profiles'[who[1]].anomalies) > 0
        /\ \E gen \in 0..who[2] : <<who[1], gen>> \in flagged'
    BY <1>1, <2>1, <2>2, <2>3, <2>4 DEF FlaggedFirst
  <2> QED BY <1>2, <2>1, <2>5 DEF KilledWereFlagged
<1>4. CASE ~KillProcess
  <2>1. signalled' = signalled
    BY <1>4 DEF LoaderNext, EventLoop, Syscall, Exit, Reuse, ReadEvent,
       AnalyzeMatch, AnalyzeOther, NothingFound, ReportAnomaly, DecideToKill,
       DecideToSpare, ConsumeAlert, LoaderConfig, LoaderTick, allVars,
       loaderVars, killVars
  <2> QED BY <1>2, <2>1 DEF KilledWereFlagged
<1> QED BY <1>3, <1>4

LoaderInv == LoaderTypeOK /\ OwnersExist /\ FlaggedFirst /\ KilledWereFlagged

\* The inductive invariant behind who is killed.
THEOREM LoaderInvariant == LoaderSafe => []LoaderInv
<1>1. LoaderInit => OwnersExist /\ FlaggedFirst /\ KilledWereFlagged
  BY EmptySeq DEF LoaderInit, EngineInit, OwnersExist, FlaggedFirst, KilledWereFlagged
<1>2. LoaderInv /\ [LoaderNext]_allVars => LoaderInv'
  BY LoaderTypeStep, OwnersExistStep, FlaggedFirstStep, KilledWereFlaggedStep
  DEF LoaderInv
<1> QED BY <1>1, <1>2, LoaderTypeInit, PTL DEF LoaderSafe, LoaderInv

\* A SIGKILL goes to nobody whose pid has no recorded and counted anomaly, in
\* any interleaving of the loop with exits, reuse of pids and POSTs.
THEOREM KillsReported == LoaderSafe => []KillsAreReported
<1>1. LoaderInv /\ KillsDecided => KillsAreReported
  <2> SUFFICES ASSUME LoaderInv, KillsDecided PROVE KillsAreReported
    OBVIOUS
  <2>1. processesKilled <= detected
    BY DEF LoaderInv, LoaderTypeOK, KillsDecided
  <2>2. ASSUME NEW who \in signalled
        PROVE  profiles[who[1]].anomalies # << >>
    BY EmptySeq DEF LoaderInv, KilledWereFlagged
  <2> QED BY <2>1, <2>2 DEF LoaderInv, KilledWereFlagged, KillsAreReported
<1> QED BY <1>1, LoaderInvariant, KillsDecidedAlways, PTL
=============================================================================
