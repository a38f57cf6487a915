---------------------------- MODULE EngineProofs ----------------------------
(***************************************************************************)
(* Theorems about Engine, for any pids, records, POST bodies and files,    *)
(* any number of posters, and any bounds.                                  *)
(***************************************************************************)
EXTENDS Engine, Sums, SequenceTheorems

-----------------------------------------------------------------------------
(* The shared Config. *)

LEMMA ConfigTypeInit == ConfigInit => ConfigTypeOK
<1> SUFFICES ASSUME ConfigInit PROVE ConfigTypeOK
  OBVIOUS
<1>1. config \in Config
  BY ConfigAssumption DEF ConfigInit
<1>2. ZeroConfig \in Config
  BY DEF ZeroConfig, Config
<1>3. post \in [Posters -> [new : Config, left : SUBSET Fields]]
  BY <1>2 DEF ConfigInit, NoPost
<1> QED BY <1>1, <1>3, ConfigAssumption DEF ConfigInit, ConfigTypeOK

\* One field of a Config replaced by that of another gives a Config.
LEMMA CopyFieldType ==
  ASSUME NEW c \in Config, NEW d \in Config, NEW f \in Fields
  PROVE  [c EXCEPT ![f] = d[f]] \in Config
<1>1. CASE f = "learning"
  BY <1>1 DEF Config
<1>2. CASE f = "threshold"
  BY <1>2 DEF Config
<1>3. CASE f = "autoKill"
  BY <1>3 DEF Config
<1>4. CASE f = "windowSec"
  BY <1>4 DEF Config
<1>5. CASE f = "maxConns"
  BY <1>5 DEF Config
<1>6. CASE f = "allowed"
  BY <1>6 DEF Config
<1> QED BY <1>1, <1>2, <1>3, <1>4, <1>5, <1>6 DEF Fields

LEMMA ConfigTypeStep ==
  ASSUME ConfigTypeOK, ConfigNext
  PROVE  ConfigTypeOK'
<1>0. NoPost \in [new : Config, left : SUBSET Fields]
  BY DEF NoPost, ZeroConfig, Config
<1>1. ASSUME NEW h \in Posters, NEW body \in Bodies, PostConfig(h, body)
      PROVE  ConfigTypeOK'
  <2> DEFINE new == DecodeBody(body)
             left == {f \in Fields : new[f] # config[f] \/ Posters # {h}}
  <2>1. new \in Config /\ left \in SUBSET Fields
    BY ConfigAssumption
  <2>2. /\ posts < MaxPosts /\ posts' = posts + 1 /\ config' = config
        /\ post' = [post EXCEPT ![h] = IF left = {} THEN NoPost
                                      ELSE [new |-> new, left |-> left]]
    BY <1>1 DEF PostConfig
  <2> HIDE DEF new, left
  <2>3. post' \in [Posters -> [new : Config, left : SUBSET Fields]]
    BY <1>0, <2>1, <2>2 DEF ConfigTypeOK
  <2>4. posts' \in 0..MaxPosts
    BY <2>2, ConfigAssumption DEF ConfigTypeOK
  <2> QED BY <2>2, <2>3, <2>4 DEF ConfigTypeOK
<1>2. ASSUME NEW h \in Posters, NEW f \in Fields, CopyField(h, f)
      PROVE  ConfigTypeOK'
  <2>1. post[h].new \in Config /\ post[h].left \in SUBSET Fields
    BY DEF ConfigTypeOK
  <2>2. config' \in Config
    BY <1>2, <2>1, CopyFieldType DEF CopyField, ConfigTypeOK
  <2>3. [post[h] EXCEPT !.left = post[h].left \ {f}]
           \in [new : Config, left : SUBSET Fields]
    BY DEF ConfigTypeOK
  <2>4. post' \in [Posters -> [new : Config, left : SUBSET Fields]]
    BY <1>0, <1>2, <2>3 DEF CopyField, ConfigTypeOK
  <2> QED BY <1>2, <2>2, <2>4 DEF CopyField, ConfigTypeOK
<1> QED BY <1>1, <1>2 DEF ConfigNext

-----------------------------------------------------------------------------
(* The rules. *)

LEMMA MinIsLeast ==
  ASSUME NEW S \in SUBSET Nat, S # {}
  PROVE  Min(S) \in S /\ \A y \in S : Min(S) <= y
<1>1. PICK x \in S : \A y \in S : ~(<<y, x>> \in OpToRel(<, Nat))
  BY NatLessThanWellFounded, WFMin
<1>2. \A y \in S : x <= y
  <2> SUFFICES ASSUME NEW y \in S PROVE x <= y
    OBVIOUS
  <2>1. x \in Nat /\ y \in Nat
    OBVIOUS
  <2>2. ~(y < x)
    BY <1>1, <2>1 DEF OpToRel
  <2> QED BY <2>1, <2>2
<1> QED BY <1>2 DEF Min

LEMMA RulesAreTyped ==
  /\ DOMAIN Rules = 1..10
  /\ \A i \in 1..10 : Rules[i] \in AnomalyType
<1>1. DOMAIN Rules = 1..10
  BY DEF Rules
<1>2. \A i \in 1..10 : Rules[i].rule \in RuleNames
  BY <1>1 DEF RuleNames
<1>3. /\ Rules[1] = Rule("unexpected_binary", 60, "alert")
      /\ Rules[2] = Rule("process_running_as_root", 40, "alert")
      /\ Rules[3] = Rule("beaconing_detected", 90, "kill")
      /\ Rules[4] = Rule("reverse_shell_port", 100, "kill")
      /\ Rules[5] = Rule("dns_tunneling", 70, "alert")
      /\ Rules[6] = Rule("rapid_succession_connections", 65, "alert")
      /\ Rules[7] = Rule("mass_file_deletion", 95, "kill")
      /\ Rules[8] = Rule("sensitive_file_write", 85, "block")
      /\ Rules[9] = Rule("executable_mmap", 30, "alert")
      /\ Rules[10] = Rule("ptrace_attachment", 60, "alert")
  BY DEF Rules
<1>4. \A i \in 1..10 :
         /\ Rules[i] = [rule |-> Rules[i].rule, score |-> Rules[i].score,
                        action |-> Rules[i].action]
         /\ Rules[i].score \in Nat
         /\ Rules[i].action \in {"alert", "block", "kill"}
  BY <1>3 DEF Rule
<1> QED BY <1>1, <1>2, <1>4 DEF AnomalyType

-----------------------------------------------------------------------------
(* Profiles. *)

\* An event changes the counts of a profile only, and never lowers them.
LEMMA UpdatedProfile ==
  ASSUME NEW p \in Profile, NEW evt, now \in Nat
  PROVE  /\ Updated(p, evt) \in Profile
         /\ Updated(p, evt).state = p.state
         /\ Updated(p, evt).firstSeen = p.firstSeen
         /\ Updated(p, evt).anomalies = p.anomalies
         /\ Updated(p, evt).suspicionScore >= p.suspicionScore
         /\ Updated(p, evt).execCount >= p.execCount
         /\ Updated(p, evt).fileWriteCount >= p.fileWriteCount
         /\ Len(Updated(p, evt).connections) >= Len(p.connections)
<1> DEFINE c == Append(p.connections, now)
<1>1. /\ p.connections \in Seq(Nat)
      /\ p.execCount \in Nat /\ p.fileWriteCount \in Nat
      /\ p.suspicionScore \in Nat
  BY DEF Profile
<1>2. c \in Seq(Nat) /\ Len(c) = Len(p.connections) + 1
  BY <1>1, AppendProperties
<1>3. Len(p.connections) \in Nat
  BY <1>1, LenProperties
<1>4. CASE evt.type = EVENT_EXECVE
  <2> DEFINE n == p.execCount + 1
  <2>1. n \in Nat /\ n >= p.execCount
    BY <1>1
  <2>2. Updated(p, evt) = [p EXCEPT !.execCount = n]
    BY <1>4 DEF Updated, EVENT_OPEN, EVENT_EXECVE, EVENT_CONNECT
  <2> HIDE DEF n
  <2>3. [p EXCEPT !.execCount = n] \in Profile
    BY <2>1 DEF Profile
  <2> QED BY <1>1, <1>3, <2>1, <2>2, <2>3 DEF Profile
<1>5. CASE evt.type = EVENT_OPEN
  <2> DEFINE n == p.fileWriteCount + 1
  <2>1. n \in Nat /\ n >= p.fileWriteCount
    BY <1>1
  <2>2. Updated(p, evt) = [p EXCEPT !.fileWriteCount = n]
    BY <1>5 DEF Updated, EVENT_OPEN, EVENT_EXECVE, EVENT_CONNECT
  <2> HIDE DEF n
  <2>3. [p EXCEPT !.fileWriteCount = n] \in Profile
    BY <2>1 DEF Profile
  <2> QED BY <1>1, <1>3, <2>1, <2>2, <2>3 DEF Profile
<1>6. CASE evt.type = EVENT_CONNECT
  <2> DEFINE n == p.suspicionScore + (IF evt.ret = 1 THEN 20 ELSE 0)
             m == p.flaggedConns + (IF evt.ret = 1 THEN 1 ELSE 0)
  <2>1. n \in Nat /\ n >= p.suspicionScore /\ m \in Nat
    BY <1>1 DEF Profile
  <2>2. Updated(p, evt) = [p EXCEPT !.suspicionScore = n, !.flaggedConns = m,
                                    !.connections = c]
    BY <1>6 DEF Updated, EVENT_OPEN, EVENT_EXECVE, EVENT_CONNECT
  <2> HIDE DEF c, n, m
  <2>3. [p EXCEPT !.suspicionScore = n, !.flaggedConns = m, !.connections = c]
           \in Profile
    BY <1>2, <2>1 DEF Profile
  <2> DEFINE u == Updated(p, evt)
  <2> HIDE DEF u
  <2>4. /\ u.state = p.state /\ u.firstSeen = p.firstSeen
        /\ u.anomalies = p.anomalies /\ u.suspicionScore = n
        /\ u.execCount = p.execCount /\ u.fileWriteCount = p.fileWriteCount
        /\ u.connections = c
    BY <2>2 DEF Profile, u
  <2>5. Len(c) >= Len(p.connections)
    BY <1>2, <1>3 DEF c
  <2> QED BY <1>1, <2>1, <2>2, <2>3, <2>4, <2>5 DEF u
<1>7. CASE evt.type \notin {EVENT_EXECVE, EVENT_OPEN, EVENT_CONNECT}
  BY <1>1, <1>3, <1>7 DEF Updated
<1> QED BY <1>4, <1>5, <1>6, <1>7

\* Recording an anomaly scores it and puts it after those of before.
LEMMA RecordedProfile ==
  ASSUME NEW p \in Profile, NEW a \in AnomalyType
  PROVE  /\ Recorded(p, a) \in Profile
         /\ Recorded(p, a) =
               [p EXCEPT !.suspicionScore = p.suspicionScore + a.score,
                         !.anomalies = Append(p.anomalies, a)]
         /\ p.anomalies \in Seq(AnomalyType)
         /\ Len(p.anomalies) \in Nat
         /\ Len(Append(p.anomalies, a)) = Len(p.anomalies) + 1
         /\ \A i \in 1..Len(p.anomalies) :
               Append(p.anomalies, a)[i] = p.anomalies[i]
         /\ Append(p.anomalies, a)[Len(p.anomalies) + 1] = a
         /\ p.suspicionScore \in Nat /\ a.score \in Nat
<1> DEFINE s == Append(p.anomalies, a)
<1>1. /\ p.anomalies \in Seq(AnomalyType)
      /\ p.suspicionScore \in Nat /\ a.score \in Nat
  BY DEF Profile, AnomalyType
<1>2. /\ s \in Seq(AnomalyType)
      /\ Len(s) = Len(p.anomalies) + 1
      /\ \A i \in 1..Len(p.anomalies) : s[i] = p.anomalies[i]
      /\ s[Len(p.anomalies) + 1] = a
  BY <1>1, AppendProperties
<1>3. Recorded(p, a) = [p EXCEPT !.suspicionScore = p.suspicionScore + a.score,
                                 !.anomalies = s]
  BY DEF Recorded
<1> DEFINE n == p.suspicionScore + a.score
<1> HIDE DEF s
<1>4. Recorded(p, a) \in Profile
  <2>1. n \in Nat
    BY <1>1
  <2>2. Recorded(p, a) = [p EXCEPT !.suspicionScore = n, !.anomalies = s]
    BY <1>3
  <2> HIDE DEF n
  <2> QED BY <1>2, <2>1, <2>2 DEF Profile
<1>5. Len(p.anomalies) \in Nat
  BY <1>1, LenProperties
<1> QED BY <1>1, <1>2, <1>3, <1>4, <1>5 DEF s

LEMMA NewProfileType ==
  ASSUME now \in Nat
  PROVE  NewProfile \in Profile
<1>1. << >> \in Seq(Nat) /\ << >> \in Seq(AnomalyType)
  BY EmptySeq
<1> QED BY <1>1 DEF NewProfile, Profile

LEMMA EvtFields == Evt.pid = sample.pid
  BY DEF Evt, ParseEvent

LEMMA SetProfileFacts ==
  ASSUME NEW pid, NEW p, SetProfile(pid, p)
  PROVE  /\ DOMAIN profiles' = DOMAIN profiles \cup {pid}
         /\ profiles'[pid] = p
         /\ \A q \in DOMAIN profiles : q # pid => profiles'[q] = profiles[q]
  BY DEF SetProfile

\* What q has learnt includes what p had.
Grows(p, q) ==
    /\ q.suspicionScore >= p.suspicionScore
    /\ q.execCount >= p.execCount
    /\ q.fileWriteCount >= p.fileWriteCount
    /\ Len(q.connections) >= Len(p.connections)
    /\ Len(q.anomalies) >= Len(p.anomalies)
    /\ \A i \in DOMAIN p.anomalies : q.anomalies[i] = p.anomalies[i]
    /\ p.state = "baseline" => q.state = "baseline"

LEMMA GrowsSelf ==
  ASSUME NEW p \in Profile
  PROVE  Grows(p, p)
<1>1. /\ p.suspicionScore \in Nat /\ p.execCount \in Nat
      /\ p.fileWriteCount \in Nat
      /\ p.connections \in Seq(Nat) /\ p.anomalies \in Seq(AnomalyType)
  BY DEF Profile
<1>2. Len(p.connections) \in Nat /\ Len(p.anomalies) \in Nat
  BY <1>1, LenProperties
<1> QED BY <1>1, <1>2 DEF Grows

-----------------------------------------------------------------------------
(* What each step does. *)

\* The profile of the event's pid is there, and was updated; the rules run on a
\* profile in the state "baseline".
LEMMA ObserveFacts ==
  ASSUME TypeOK, NEW raw \in Samples, Observe(raw)
  PROVE  /\ step = "idle" /\ step' \in {"window", "rules"} /\ sample' = raw
         /\ processed' = processed + 1 /\ processed < MaxEvents
         /\ UNCHANGED <<now, anomaly, configVars>>
         /\ \E q \in Profile :
               /\ SetProfile(raw.pid, q)
               /\ Grows(ProfileOf(raw.pid), q)
               /\ q.anomalies = ProfileOf(raw.pid).anomalies
               /\ q.state = "learning" => ProfileOf(raw.pid).state = "learning"
               /\ step' = "rules" => q.state = "baseline"
<1> DEFINE evt == ParseEvent(raw)
           p == ProfileOf(raw.pid)
           u == Updated(p, evt)
           b == [u EXCEPT !.state = "baseline"]
<1>0. evt.pid = raw.pid
  BY DEF ParseEvent
<1>1. /\ step = "idle" /\ processed < MaxEvents
      /\ processed' = processed + 1 /\ sample' = raw
      /\ \/ step' = "window" /\ SetProfile(raw.pid, u)
         \/ step' = "rules" /\ SetProfile(raw.pid, b)
      /\ UNCHANGED <<now, anomaly, configVars>>
  BY <1>0 DEF Observe
<1>2. now \in Nat
  BY EngineAssumption DEF TypeOK
<1>3. p \in Profile
  BY <1>2, NewProfileType DEF ProfileOf, TypeOK
<1> HIDE DEF evt, p
<1>4. /\ u \in Profile /\ u.state = p.state /\ u.anomalies = p.anomalies
      /\ u.suspicionScore >= p.suspicionScore
      /\ u.execCount >= p.execCount
      /\ u.fileWriteCount >= p.fileWriteCount
      /\ Len(u.connections) >= Len(p.connections)
  BY <1>2, <1>3, UpdatedProfile
<1>5. Len(p.anomalies) >= Len(p.anomalies)
  BY <1>3, GrowsSelf DEF Grows
<1>6. Grows(p, u)
  BY <1>4, <1>5 DEF Grows
<1> HIDE DEF u
<1>7. b \in Profile
  BY <1>4 DEF Profile
<1>8. /\ b.state = "baseline" /\ b.anomalies = u.anomalies
      /\ b.suspicionScore = u.suspicionScore
      /\ b.execCount = u.execCount
      /\ b.fileWriteCount = u.fileWriteCount
      /\ b.connections = u.connections
  BY <1>4 DEF Profile
<1>9. Grows(p, b)
  BY <1>4, <1>5, <1>8 DEF Grows
<1> HIDE DEF b
<1>10. CASE step' = "window" /\ SetProfile(raw.pid, u)
  BY <1>1, <1>4, <1>6, <1>10 DEF p
<1>11. CASE step' = "rules" /\ SetProfile(raw.pid, b)
  BY <1>1, <1>4, <1>7, <1>8, <1>9, <1>11 DEF p
<1> QED BY <1>1, <1>10, <1>11

\* EndLearning changes a profile's state only, to "baseline".
LEMMA EndLearningFacts ==
  ASSUME TypeOK, EndLearning
  PROVE  /\ step = "window" /\ step' = "return"
         /\ UNCHANGED <<now, processed, sample, anomaly, configVars>>
         /\ \/ UNCHANGED profiles
            \/ \E q \in Profile :
                  /\ SetProfile(sample.pid, q)
                  /\ Grows(profiles[sample.pid], q)
                  /\ q.anomalies = profiles[sample.pid].anomalies
                  /\ q.suspicionScore = profiles[sample.pid].suspicionScore
                  /\ q.flaggedConns = profiles[sample.pid].flaggedConns
                  /\ q.execCount = profiles[sample.pid].execCount
                  /\ q.fileWriteCount = profiles[sample.pid].fileWriteCount
                  /\ q.connections = profiles[sample.pid].connections
                  /\ q.state = "baseline"
<1> DEFINE p == profiles[sample.pid]
           b == [p EXCEPT !.state = "baseline"]
<1>1. /\ step = "window" /\ step' = "return"
      /\ UNCHANGED <<now, processed, sample, anomaly, configVars>>
      /\ UNCHANGED profiles \/ SetProfile(sample.pid, b)
  BY EvtFields DEF EndLearning
<1>2. p \in Profile
  BY <1>1 DEF TypeOK
<1> HIDE DEF p
<1>3. /\ b \in Profile /\ b.state = "baseline" /\ b.anomalies = p.anomalies
      /\ b.suspicionScore = p.suspicionScore
      /\ b.flaggedConns = p.flaggedConns
      /\ b.execCount = p.execCount
      /\ b.fileWriteCount = p.fileWriteCount
      /\ b.connections = p.connections
  BY <1>2 DEF Profile
<1>4. Grows(p, b)
  BY <1>2, <1>3, GrowsSelf DEF Grows
<1> HIDE DEF b
<1> QED BY <1>1, <1>3, <1>4 DEF p

\* One anomaly of the rule that matched is recorded in the profile.
LEMMA RuleMatchesFacts ==
  ASSUME TypeOK, RuleMatches
  PROVE  /\ step = "rules" /\ step' = "escalate"
         /\ sample.pid \in DOMAIN profiles
         /\ profiles[sample.pid] \in Profile
         /\ UNCHANGED <<now, processed, sample, configVars>>
         /\ \E a \in AnomalyType :
               /\ anomaly' = a
               /\ SetProfile(sample.pid, Recorded(profiles[sample.pid], a))
               /\ \E listed \in BOOLEAN :
                     Matches(a.rule, Evt, profiles[sample.pid], listed)
<1> DEFINE p == profiles[sample.pid]
<1>1. /\ step = "rules" /\ step' = "escalate"
      /\ UNCHANGED <<now, processed, sample, configVars>>
  BY DEF RuleMatches
<1>2. sample.pid \in DOMAIN profiles /\ p \in Profile
  BY <1>1 DEF TypeOK
<1>3. PICK listed \in BOOLEAN :
         /\ Hits(Evt, p, listed) # {}
         /\ anomaly' = Rules[Min(Hits(Evt, p, listed))]
         /\ SetProfile(sample.pid,
                       Recorded(p, Rules[Min(Hits(Evt, p, listed))]))
  <2>1. \A filename : AllowedAnswers(filename) \subseteq BOOLEAN
    BY DEF AllowedAnswers
  <2> QED BY <2>1, EvtFields DEF RuleMatches
<1> DEFINE hits == Hits(Evt, p, listed)
           i == Min(hits)
<1>4. hits \in SUBSET Nat /\ hits \in SUBSET (1..10)
  BY RulesAreTyped DEF Hits
<1>5. i \in hits
  BY <1>3, <1>4, MinIsLeast
<1>6. i \in 1..10 /\ Matches(Rules[i].rule, Evt, p, listed)
  BY <1>4, <1>5 DEF Hits
<1>7. Rules[i] \in AnomalyType
  BY <1>6, RulesAreTyped
<1> HIDE DEF p, i
<1> QED BY <1>1, <1>2, <1>3, <1>6, <1>7 DEF p, i

\* What the rules with a condition on the profile have seen in it.
LEMMA MatchedProfile ==
  ASSUME NEW name, NEW evt, NEW p, NEW listed, Matches(name, evt, p, listed)
  PROVE  /\ name = "executable_mmap" =>
               p.suspicionScore >= 50 /\ ~Alerted(p, "executable_mmap")
         /\ name = "unexpected_binary" =>
               evt.type = EVENT_EXECVE /\ p.execCount > 1
         /\ name = "process_running_as_root" =>
               evt.type = EVENT_EXECVE /\ p.execCount < 3
<1>1. name = "executable_mmap" => ExecutableMmap(evt, p)
  BY DEF Matches
<1>2. name = "unexpected_binary" => UnexpectedBinary(evt, p, listed)
  BY DEF Matches
<1>3. name = "process_running_as_root" => RunningAsRoot(evt, p)
  BY DEF Matches
<1> QED BY <1>1, <1>2, <1>3 DEF ExecutableMmap, UnexpectedBinary, RunningAsRoot

-----------------------------------------------------------------------------
(* Type correctness. *)

ProfilesTyped ==
    /\ DOMAIN profiles \subseteq Pids
    /\ \A pid \in DOMAIN profiles : profiles[pid] \in Profile

LEMMA SetProfileType ==
  ASSUME ProfilesTyped, NEW pid \in Pids, NEW p \in Profile, SetProfile(pid, p)
  PROVE  ProfilesTyped' /\ DOMAIN profiles \cup {pid} = DOMAIN profiles'
  BY SetProfileFacts DEF ProfilesTyped

LEMMA TypeInit == EngineStart => TypeOK
<1> SUFFICES ASSUME EngineInit, ConfigInit PROVE TypeOK
  BY DEF EngineStart
<1>1. DOMAIN profiles = {}
  BY EmptySeq DEF EngineInit
<1> QED BY <1>1, ConfigTypeInit, EngineAssumption DEF EngineInit, TypeOK

LEMMA TypeStep == TypeOK /\ [EngineNext]_vars => TypeOK'
<1> SUFFICES ASSUME TypeOK, [EngineNext]_vars PROVE TypeOK'
  OBVIOUS
<1>0. ProfilesTyped /\ \A raw \in Samples : raw.pid \in Pids
  BY EngineAssumption DEF TypeOK, ProfilesTyped
<1>1. UNCHANGED configVars => ConfigTypeOK'
  BY DEF TypeOK, ConfigTypeOK, configVars
<1>2. ASSUME NEW raw \in Samples, Observe(raw)
      PROVE  TypeOK'
  <2>1. /\ step = "idle" /\ step' \in {"window", "rules"} /\ sample' = raw
        /\ processed' = processed + 1 /\ processed < MaxEvents
        /\ UNCHANGED <<now, anomaly, configVars>>
    BY <1>2, ObserveFacts
  <2>2. PICK q \in Profile : SetProfile(raw.pid, q)
    BY <1>2, ObserveFacts
  <2>3. ProfilesTyped' /\ raw.pid \in DOMAIN profiles'
    BY <1>0, <2>2, SetProfileType
  <2>4. processed' \in 0..MaxEvents
    BY <2>1, EngineAssumption DEF TypeOK
  <2>5. anomaly = None
    BY <2>1 DEF TypeOK
  <2> QED BY <1>1, <2>1, <2>3, <2>4, <2>5 DEF TypeOK, ProfilesTyped
<1>3. CASE EndLearning
  <2>1. /\ step = "window" /\ step' = "return"
        /\ UNCHANGED <<now, processed, sample, anomaly, configVars>>
        /\ \/ UNCHANGED profiles
           \/ \E q \in Profile : SetProfile(sample.pid, q)
    BY <1>3, EndLearningFacts
  <2>2. sample \in Samples /\ sample.pid \in DOMAIN profiles
    BY <2>1 DEF TypeOK
  <2>3. ProfilesTyped' /\ sample.pid \in DOMAIN profiles'
    BY <1>0, <2>1, <2>2, SetProfileType DEF ProfilesTyped
  <2> QED BY <1>1, <2>1, <2>2, <2>3 DEF TypeOK, ProfilesTyped
<1>4. CASE RuleMatches
  <2>1. /\ step = "rules" /\ step' = "escalate"
        /\ UNCHANGED <<now, processed, sample, configVars>>
        /\ profiles[sample.pid] \in Profile
    BY <1>4, RuleMatchesFacts
  <2>2. PICK a \in AnomalyType :
           /\ anomaly' = a
           /\ SetProfile(sample.pid, Recorded(profiles[sample.pid], a))
    BY <1>4, RuleMatchesFacts
  <2>3. sample \in Samples /\ sample.pid \in DOMAIN profiles
    BY <2>1 DEF TypeOK
  <2>4. Recorded(profiles[sample.pid], a) \in Profile
    BY <2>1, RecordedProfile
  <2>5. ProfilesTyped' /\ sample.pid \in DOMAIN profiles'
    BY <1>0, <2>2, <2>3, <2>4, SetProfileType
  <2> QED BY <1>1, <2>1, <2>2, <2>3, <2>5 DEF TypeOK, ProfilesTyped
<1>5. CASE NoRuleMatches
  BY <1>1, <1>5 DEF NoRuleMatches, TypeOK
<1>6. CASE Escalate
  <2>1. anomaly \in AnomalyType
    BY <1>6 DEF Escalate, TypeOK
  <2>2. [anomaly EXCEPT !.action = "kill"] \in AnomalyType
    BY <2>1 DEF AnomalyType
  <2>3. anomaly' \in AnomalyType
    BY <1>6, <2>1, <2>2 DEF Escalate
  <2> QED BY <1>1, <1>6, <2>3 DEF Escalate, TypeOK
<1>7. CASE Return
  BY <1>1, <1>7 DEF Return, TypeOK
<1>8. CASE Tick
  <2>1. now' \in 0..MaxTime
    BY <1>8, EngineAssumption DEF Tick, TypeOK
  <2> QED BY <1>1, <1>8, <2>1 DEF Tick, TypeOK
<1>9. CASE EngineConfig
  BY <1>9, ConfigTypeStep DEF EngineConfig, TypeOK, engineVars
<1>10. CASE UNCHANGED vars
  BY <1>1, <1>10 DEF vars, engineVars, TypeOK
<1> QED BY <1>2, <1>3, <1>4, <1>5, <1>6, <1>7, <1>8, <1>9, <1>10 DEF EngineNext

\* Analyze, handleConfig and loadConfig keep every variable in its type, for
\* any records, bodies and number of posters.
THEOREM EngineTypeCorrect == EngineSpec => []TypeOK
  BY TypeInit, TypeStep, PTL DEF EngineSpec

-----------------------------------------------------------------------------
(* What the profiles remember. *)

\* Every step keeps each profile, and lets it grow.
LEMMA ProfilesGrow ==
  ASSUME TypeOK, [EngineNext]_vars, NEW pid \in DOMAIN profiles
  PROVE  pid \in DOMAIN profiles' /\ Grows(profiles[pid], profiles'[pid])
<1>0. profiles[pid] \in Profile
  BY DEF TypeOK
<1>1. UNCHANGED profiles => Grows(profiles[pid], profiles'[pid])
  BY <1>0, GrowsSelf
<1>2. ASSUME NEW raw \in Samples, Observe(raw)
      PROVE  pid \in DOMAIN profiles' /\ Grows(profiles[pid], profiles'[pid])
  <2>1. PICK q \in Profile : SetProfile(raw.pid, q) /\ Grows(ProfileOf(raw.pid), q)
    BY <1>2, ObserveFacts
  <2>2. CASE pid = raw.pid
    BY <2>1, <2>2, SetProfileFacts DEF ProfileOf
  <2>3. CASE pid # raw.pid
    <3>1. pid \in DOMAIN profiles' /\ profiles'[pid] = profiles[pid]
      BY <2>1, <2>3, SetProfileFacts
    <3> QED BY <1>0, <3>1, GrowsSelf
  <2> QED BY <2>2, <2>3
<1>3. CASE EndLearning
  <2>1. CASE UNCHANGED profiles
    BY <1>1, <2>1
  <2>2. ASSUME NEW q \in Profile, SetProfile(sample.pid, q),
               Grows(profiles[sample.pid], q)
        PROVE  pid \in DOMAIN profiles' /\ Grows(profiles[pid], profiles'[pid])
    <3>1. CASE pid = sample.pid
      BY <2>2, <3>1, SetProfileFacts
    <3>2. CASE pid # sample.pid
      <4>1. pid \in DOMAIN profiles' /\ profiles'[pid] = profiles[pid]
        BY <2>2, <3>2, SetProfileFacts
      <4> QED BY <1>0, <4>1, GrowsSelf
    <3> QED BY <3>1, <3>2
  <2> QED BY <1>3, <2>1, <2>2, EndLearningFacts
<1>4. CASE RuleMatches
  <2>1. PICK a \in AnomalyType :
           SetProfile(sample.pid, Recorded(profiles[sample.pid], a))
    BY <1>4, RuleMatchesFacts
  <2>2. CASE pid = sample.pid
    <3> DEFINE p == profiles[pid]
               s == Append(p.anomalies, a)
    <3>1. profiles'[pid] = Recorded(p, a) /\ pid \in DOMAIN profiles'
      BY <2>1, <2>2, SetProfileFacts
    <3>2. /\ Recorded(p, a) = [p EXCEPT !.suspicionScore = p.suspicionScore + a.score,
                                        !.anomalies = s]
          /\ Len(p.anomalies) \in Nat /\ Len(s) = Len(p.anomalies) + 1
          /\ \A i \in 1..Len(p.anomalies) : s[i] = p.anomalies[i]
          /\ p.suspicionScore \in Nat /\ a.score \in Nat
          /\ p.anomalies \in Seq(AnomalyType)
      BY <1>0, RecordedProfile
    <3>3. DOMAIN p.anomalies = 1..Len(p.anomalies)
      BY <3>2, LenProperties
    <3>4. Grows(p, p)
      BY <1>0, GrowsSelf
    <3> HIDE DEF p, s
    <3>5. p \in Profile
      BY <1>0 DEF p
    <3>6. /\ Recorded(p, a).suspicionScore = p.suspicionScore + a.score
          /\ Recorded(p, a).anomalies = s
          /\ Recorded(p, a).execCount = p.execCount
          /\ Recorded(p, a).fileWriteCount = p.fileWriteCount
          /\ Recorded(p, a).connections = p.connections
          /\ Recorded(p, a).state = p.state
      BY <3>2, <3>5 DEF Profile
    <3>7. Grows(p, Recorded(p, a))
      BY <3>2, <3>3, <3>4, <3>6 DEF Grows
    <3> QED BY <3>1, <3>7 DEF p
  <2>3. CASE pid # sample.pid
    <3>1. pid \in DOMAIN profiles' /\ profiles'[pid] = profiles[pid]
      BY <2>1, <2>3, SetProfileFacts
    <3> QED BY <1>0, <3>1, GrowsSelf
  <2> QED BY <2>2, <2>3
<1>5. CASE NoRuleMatches \/ Escalate \/ Return \/ Tick
  BY <1>1, <1>5 DEF NoRuleMatches, Escalate, Return, Tick
<1>6. CASE EngineConfig
  BY <1>1, <1>6 DEF EngineConfig, engineVars
<1>7. CASE UNCHANGED vars
  BY <1>1, <1>7 DEF vars, engineVars
<1> QED BY <1>2, <1>3, <1>4, <1>5, <1>6, <1>7 DEF EngineNext

\* Nothing Analyze learnt of a pid is taken back, whatever POSTs do.
THEOREM HistoryKept == EngineSpec => HistoryIsKept
<1> DEFINE Kept == \A pid \in DOMAIN profiles :
                      /\ pid \in DOMAIN profiles'
                      /\ Grows(profiles[pid], profiles'[pid])
<1>1. TypeOK /\ [EngineNext]_vars => Kept
  BY ProfilesGrow
<1>2. Kept => [\A pid \in DOMAIN profiles :
                  LET p == profiles[pid]
                      q == profiles'[pid]
                  IN  /\ pid \in DOMAIN profiles'
                      /\ q.suspicionScore >= p.suspicionScore
                      /\ q.execCount >= p.execCount
                      /\ q.fileWriteCount >= p.fileWriteCount
                      /\ Len(q.connections) >= Len(p.connections)
                      /\ Len(q.anomalies) >= Len(p.anomalies)
                      /\ \A i \in DOMAIN p.anomalies :
                            q.anomalies[i] = p.anomalies[i]
                      /\ p.state = "baseline" => q.state = "baseline"]_vars
  BY DEF Grows
<1> QED BY <1>1, <1>2, EngineTypeCorrect, PTL DEF EngineSpec, HistoryIsKept

-----------------------------------------------------------------------------
(* Verdicts: at most one executable_mmap each, and none while learning. *)

MmapOnce(as) ==
    \A i, j \in DOMAIN as :
       as[i].rule = "executable_mmap" /\ as[j].rule = "executable_mmap" => i = j

Unjudged(p) == p.state = "learning" => p.anomalies = << >>

\* The rules run on a profile that has left the state "learning".
RulesNeedBaseline == step = "rules" => profiles[sample.pid].state = "baseline"

ProfilesJudged ==
    \A pid \in DOMAIN profiles :
       MmapOnce(profiles[pid].anomalies) /\ Unjudged(profiles[pid])

EngineInv == TypeOK /\ ProfilesJudged /\ RulesNeedBaseline

\* An anomaly joins those of its profile; an executable_mmap only if none of
\* them is one.
LEMMA RecordedOnceMore ==
  ASSUME NEW p \in Profile, NEW a \in AnomalyType, MmapOnce(p.anomalies),
         a.rule = "executable_mmap" => ~Alerted(p, "executable_mmap")
  PROVE  MmapOnce(Recorded(p, a).anomalies)
<1> DEFINE as == p.anomalies
           s == Append(as, a)
           n == Len(as)
<1>1. /\ as \in Seq(AnomalyType) /\ n \in Nat
      /\ Len(s) = n + 1
      /\ \A i \in 1..n : s[i] = as[i]
      /\ s[n + 1] = a
      /\ Recorded(p, a) = [p EXCEPT !.suspicionScore = p.suspicionScore + a.score,
                                    !.anomalies = s]
      /\ Recorded(p, a).anomalies = s
  <2>1. /\ as \in Seq(AnomalyType) /\ n \in Nat
        /\ Len(s) = n + 1
        /\ \A i \in 1..n : s[i] = as[i]
        /\ s[n + 1] = a
        /\ Recorded(p, a) = [p EXCEPT !.suspicionScore = p.suspicionScore + a.score,
                                      !.anomalies = s]
    BY RecordedProfile
  <2> HIDE DEF s
  <2>2. Recorded(p, a).anomalies = s
    BY <2>1 DEF Profile
  <2> QED BY <2>1, <2>2
<1>2. DOMAIN as = 1..n /\ DOMAIN s = 1..(n + 1)
  <2>1. s \in Seq(AnomalyType)
    BY <1>1, AppendProperties
  <2> QED BY <1>1, <2>1, LenProperties
<1>3. a.rule = "executable_mmap" =>
         \A i \in 1..n : as[i].rule # "executable_mmap"
  BY <1>2 DEF Alerted
<1>4. \A i, j \in 1..n :
         as[i].rule = "executable_mmap" /\ as[j].rule = "executable_mmap"
         => i = j
  BY <1>2 DEF MmapOnce
<1> HIDE DEF as, s, n
<1>5. ASSUME NEW i \in 1..(n + 1), NEW j \in 1..(n + 1),
             s[i].rule = "executable_mmap", s[j].rule = "executable_mmap"
      PROVE  i = j
  <2>1. (i \in 1..n \/ i = n + 1) /\ (j \in 1..n \/ j = n + 1)
    BY <1>1
  <2>2. CASE i \in 1..n /\ j \in 1..n
    BY <1>1, <1>4, <1>5, <2>2
  <2>3. CASE i \in 1..n /\ j = n + 1
    BY <1>1, <1>3, <1>5, <2>3
  <2>4. CASE i = n + 1 /\ j \in 1..n
    BY <1>1, <1>3, <1>5, <2>4
  <2> QED BY <2>1, <2>2, <2>3, <2>4
<1>6. MmapOnce(s)
  BY <1>2, <1>5 DEF MmapOnce
<1> QED BY <1>1, <1>6

LEMMA InvInit == EngineStart => EngineInv
<1> SUFFICES ASSUME EngineInit, ConfigInit PROVE EngineInv
  BY DEF EngineStart
<1>1. DOMAIN profiles = {}
  BY EmptySeq DEF EngineInit
<1> QED BY <1>1, TypeInit
    DEF EngineStart, EngineInit, EngineInv, ProfilesJudged, RulesNeedBaseline

\* One profile replaced by a judged one leaves all of them judged.
LEMMA SetProfileJudged ==
  ASSUME ProfilesJudged, NEW pid, NEW p, SetProfile(pid, p),
         MmapOnce(p.anomalies), Unjudged(p)
  PROVE  ProfilesJudged'
<1>1. /\ DOMAIN profiles' = DOMAIN profiles \cup {pid}
      /\ profiles'[pid] = p
      /\ \A q \in DOMAIN profiles : q # pid => profiles'[q] = profiles[q]
  BY SetProfileFacts
<1> QED BY <1>1 DEF ProfilesJudged, MmapOnce, Unjudged

LEMMA InvStep == EngineInv /\ [EngineNext]_vars => EngineInv'
<1> SUFFICES ASSUME EngineInv, [EngineNext]_vars PROVE EngineInv'
  OBVIOUS
<1>0. TypeOK /\ ProfilesJudged /\ RulesNeedBaseline /\ TypeOK'
  BY TypeStep DEF EngineInv
<1>1. UNCHANGED profiles => ProfilesJudged'
  BY <1>0 DEF ProfilesJudged
<1>2. ASSUME NEW raw \in Samples, Observe(raw)
      PROVE  ProfilesJudged' /\ RulesNeedBaseline'
  <2>1. /\ step = "idle" /\ sample' = raw
        /\ step' \in {"window", "rules"}
    BY <1>0, <1>2, ObserveFacts
  <2>2. PICK q \in Profile :
           /\ SetProfile(raw.pid, q)
           /\ q.anomalies = ProfileOf(raw.pid).anomalies
           /\ q.state = "learning" => ProfileOf(raw.pid).state = "learning"
           /\ step' = "rules" => q.state = "baseline"
    BY <1>0, <1>2, ObserveFacts
  <2>3. MmapOnce(ProfileOf(raw.pid).anomalies) /\ Unjudged(ProfileOf(raw.pid))
    <3>1. CASE raw.pid \in DOMAIN profiles
      BY <1>0, <3>1 DEF ProfileOf, ProfilesJudged
    <3>2. CASE raw.pid \notin DOMAIN profiles
      <4>1. ProfileOf(raw.pid).anomalies = << >>
        BY <3>2 DEF ProfileOf, NewProfile
      <4>2. DOMAIN << >> = {}
        BY EmptySeq
      <4> QED BY <4>1, <4>2 DEF MmapOnce, Unjudged
    <3> QED BY <3>1, <3>2
  <2>4. MmapOnce(q.anomalies) /\ Unjudged(q)
    BY <2>2, <2>3 DEF Unjudged
  <2>5. ProfilesJudged'
    BY <1>0, <2>2, <2>4, SetProfileJudged
  <2>6. RulesNeedBaseline'
    <3>1. profiles'[raw.pid] = q
      BY <2>2, SetProfileFacts
    <3> QED BY <2>1, <2>2, <3>1 DEF RulesNeedBaseline
  <2> QED BY <2>5, <2>6
<1>3. CASE EndLearning
  <2>1. step' = "return"
    BY <1>0, <1>3, EndLearningFacts
  <2>2. ASSUME NEW q \in Profile, SetProfile(sample.pid, q),
               q.anomalies = profiles[sample.pid].anomalies,
               q.state = "baseline"
        PROVE  ProfilesJudged'
    <3>1. sample.pid \in DOMAIN profiles
      BY <1>0, <1>3 DEF EndLearning, TypeOK
    <3>2. MmapOnce(q.anomalies) /\ Unjudged(q)
      BY <1>0, <2>2, <3>1 DEF ProfilesJudged, Unjudged
    <3> QED BY <1>0, <2>2, <3>2, SetProfileJudged
  <2>3. ProfilesJudged'
    BY <1>0, <1>1, <1>3, <2>2, EndLearningFacts
  <2> QED BY <1>0, <2>1, <2>3 DEF EngineInv, RulesNeedBaseline
<1>4. CASE RuleMatches
  <2> DEFINE p == profiles[sample.pid]
  <2>1. /\ step = "rules" /\ step' = "escalate"
        /\ sample.pid \in DOMAIN profiles /\ p \in Profile
    BY <1>0, <1>4, RuleMatchesFacts
  <2>2. PICK a \in AnomalyType :
           /\ SetProfile(sample.pid, Recorded(p, a))
           /\ \E listed \in BOOLEAN : Matches(a.rule, Evt, p, listed)
    BY <1>0, <1>4, RuleMatchesFacts
  <2>3. MmapOnce(p.anomalies) /\ p.state = "baseline"
    BY <1>0, <2>1 DEF ProfilesJudged, RulesNeedBaseline
  <2> HIDE DEF p
  <2>4. MmapOnce(Recorded(p, a).anomalies)
    BY <2>1, <2>2, <2>3, MatchedProfile, RecordedOnceMore
  <2>5. Recorded(p, a).state = "baseline"
    BY <2>1, <2>3 DEF Recorded, Profile
  <2>6. Unjudged(Recorded(p, a))
    BY <2>5 DEF Unjudged
  <2>7. ProfilesJudged'
    BY <1>0, <2>2, <2>4, <2>6, SetProfileJudged
  <2> QED BY <1>0, <2>1, <2>7 DEF EngineInv, RulesNeedBaseline
<1>5. CASE NoRuleMatches \/ Escalate \/ Return
  BY <1>0, <1>1, <1>5
  DEF NoRuleMatches, Escalate, Return, EngineInv, RulesNeedBaseline
<1>6. CASE Tick
  BY <1>0, <1>1, <1>6 DEF EngineInv, Tick, RulesNeedBaseline
<1>7. CASE EngineConfig
  BY <1>0, <1>1, <1>7 DEF EngineInv, EngineConfig, engineVars, RulesNeedBaseline
<1>8. CASE UNCHANGED vars
  BY <1>0, <1>1, <1>8 DEF EngineInv, vars, engineVars, RulesNeedBaseline
<1> QED BY <1>0, <1>2, <1>3, <1>4, <1>5, <1>6, <1>7, <1>8
    DEF EngineNext, EngineInv

\* The inductive invariant of the engine.
THEOREM EngineInvariant == EngineSpec => []EngineInv
  BY InvInit, InvStep, PTL DEF EngineSpec

\* The look back through profile.Anomalies keeps executable_mmap to one anomaly
\* per profile, whatever other rules the process sets off in between.
THEOREM MmapAlertsOnce == EngineSpec => []MmapAlertOnce
<1>1. EngineInv => MmapAlertOnce
  BY DEF EngineInv, ProfilesJudged, MmapOnce, MmapAlertOnce
<1> QED BY <1>1, EngineInvariant, PTL

\* Analyze judges no profile that is still in the state "learning", whenever
\* and however often POSTs switch LearningMode.
THEOREM LearningUnjudged == EngineSpec => []LearningIsUnjudged
<1>1. EngineInv => LearningIsUnjudged
  BY DEF EngineInv, ProfilesJudged, Unjudged, LearningIsUnjudged
<1> QED BY <1>1, EngineInvariant, PTL

-----------------------------------------------------------------------------
(* What the scores and the counts of a profile stand for. *)

\* ScoreExplained and ExecAlertBudget, for one profile.
Explained(p) == p.suspicionScore = Evidence(p)

\* The exec anomalies a profile may hold after n execves.
Budget(as, n) ==
    LET unexpected == Count(as, "unexpected_binary")
        root == Count(as, "process_running_as_root")
    IN  /\ root <= 2
        /\ unexpected > 0 => unexpected < n
        /\ root + unexpected <= n

Sound(p) == Explained(p) /\ Budget(p.anomalies, p.execCount)

ProfilesSound == \A pid \in DOMAIN profiles : Sound(profiles[pid])

\* The execve the rules look at has been counted and has raised nothing yet.
ExecUnspent ==
    step = "rules" /\ sample.type = EVENT_EXECVE =>
       Budget(profiles[sample.pid].anomalies, profiles[sample.pid].execCount - 1)

ScoresInv == TypeOK /\ ProfilesSound /\ ExecUnspent

Score(as) == [i \in DOMAIN as |-> as[i].score]

LEMMA ScoreOfNone == ScoreOf(<< >>) = 0
<1>1. DOMAIN Score(<< >>) = {}
  BY EmptySeq DEF Score
<1>2. ScoreOf(<< >>) = SumFunctionOnSet(Score(<< >>), DOMAIN Score(<< >>))
  BY DEF ScoreOf, SumFunction, Score
<1> QED BY <1>1, <1>2, SumOfNone

LEMMA ScoreOfInt ==
  ASSUME NEW S, NEW list \in Seq(S), \A x \in S : x.score \in Int
  PROVE  ScoreOf(list) \in Int
<1>1. /\ DOMAIN Score(list) = 1..Len(list) /\ Len(list) \in Nat
      /\ \A i \in 1..Len(list) : Score(list)[i] \in Int
  <2>1. DOMAIN list = 1..Len(list) /\ Len(list) \in Nat
    BY LenProperties
  <2>2. \A i \in 1..Len(list) : list[i] \in S
    BY ElementOfSeq
  <2> QED BY <2>1, <2>2 DEF Score
<1>2. IsFiniteSet(1..Len(list))
  BY <1>1, FS_Interval
<1>3. ScoreOf(list) = SumFunctionOnSet(Score(list), 1..Len(list))
  BY <1>1 DEF ScoreOf, SumFunction, Score
<1> QED BY <1>1, <1>2, <1>3, SumOfInts

LEMMA ScoreOfAppend ==
  ASSUME NEW S, NEW list \in Seq(S), NEW a \in S,
         \A x \in S : x.score \in Int
  PROVE  ScoreOf(Append(list, a)) = ScoreOf(list) + a.score
<1> DEFINE s == Append(list, a)
           n == Len(list)
<1>1. /\ s \in Seq(S) /\ Len(s) = n + 1
      /\ \A i \in 1..n : s[i] = list[i]
      /\ s[n + 1] = a
  BY AppendProperties
<1>2. n \in Nat /\ DOMAIN list = 1..n
  BY LenProperties
<1> HIDE DEF s, n
<1>3. DOMAIN s = 1..(n + 1) /\ 1..(n + 1) = (1..n) \cup {n + 1} /\ n + 1 \notin 1..n
  BY <1>1, <1>2, LenProperties
<1>4. \A i \in 1..n : Score(list)[i] \in Int /\ Score(list)[i] = Score(s)[i]
  <2>1. \A i \in 1..n : list[i] \in S
    BY <1>2, ElementOfSeq DEF n
  <2>2. \A i \in 1..n : i \in 1..(n + 1)
    BY <1>2
  <2> QED BY <1>1, <1>2, <1>3, <2>1, <2>2 DEF Score
<1>5. Score(s)[n + 1] = a.score /\ a.score \in Int
  <2>1. n + 1 \in 1..(n + 1)
    BY <1>2
  <2> QED BY <1>1, <1>3, <2>1 DEF Score
<1>6. IsFiniteSet(1..n)
  BY <1>2, FS_Interval
<1>7. SumFunctionOnSet(Score(s), (1..n) \cup {n + 1})
         = SumFunctionOnSet(Score(list), 1..n) + Score(s)[n + 1]
  <2> DEFINE I == 1..n
             m == n + 1
             f == Score(list)
             g == Score(s)
  <2>1. IsFiniteSet(I) /\ m \notin I /\ g[m] \in Int
    BY <1>3, <1>5, <1>6
  <2>2. \A i \in I : f[i] \in Int /\ f[i] = g[i]
    BY <1>4
  <2> HIDE DEF I, m, f, g
  <2>3. SumFunctionOnSet(g, I \cup {m}) = SumFunctionOnSet(f, I) + g[m]
    BY <2>1, <2>2, SumOfExtended
  <2> QED BY <2>3 DEF I, m, f, g
<1>8. ScoreOf(s) = SumFunctionOnSet(Score(s), 1..(n + 1))
  BY <1>3 DEF ScoreOf, SumFunction, Score
<1>9. ScoreOf(list) = SumFunctionOnSet(Score(list), 1..n)
  BY <1>2 DEF ScoreOf, SumFunction, Score
<1> QED BY <1>3, <1>5, <1>7, <1>8, <1>9 DEF s

\* One more anomaly of a rule, or none.
LEMMA CountOfAppend ==
  ASSUME NEW S, NEW list \in Seq(S), NEW a \in S, NEW name
  PROVE  /\ Count(list, name) \in Nat
         /\ Count(Append(list, a), name)
               = Count(list, name) + (IF a.rule = name THEN 1 ELSE 0)
<1> DEFINE s == Append(list, a)
           n == Len(list)
           In(q) == {i \in DOMAIN q : q[i].rule = name}
<1>1. /\ s \in Seq(S) /\ Len(s) = n + 1
      /\ \A i \in 1..n : s[i] = list[i]
      /\ s[n + 1] = a
  BY AppendProperties
<1>2. n \in Nat /\ DOMAIN list = 1..n
  BY LenProperties
<1> HIDE DEF s, n
<1>3. DOMAIN s = (1..n) \cup {n + 1} /\ n + 1 \notin 1..n
  BY <1>1, <1>2, LenProperties
<1>4. In(s) = IF a.rule = name THEN In(list) \cup {n + 1} ELSE In(list)
  BY <1>1, <1>2, <1>3
<1>5. IsFiniteSet(In(list)) /\ n + 1 \notin In(list)
  <2>1. IsFiniteSet(1..n)
    BY <1>2, FS_Interval
  <2>2. In(list) \in SUBSET (1..n)
    BY <1>2
  <2> HIDE DEF In
  <2> QED BY <1>3, <2>1, <2>2, FS_Subset
<1>6. Count(list, name) = Cardinality(In(list)) /\ Count(s, name) = Cardinality(In(s))
  BY DEF Count
<1> DEFINE m == n + 1
           I == In(list)
<1> HIDE DEF In, m, I
<1>7. /\ Cardinality(I) \in Nat
      /\ Cardinality(I \cup {m}) = Cardinality(I) + 1
  BY <1>5, FS_AddElement, FS_CardinalityType DEF m, I
<1> QED BY <1>4, <1>6, <1>7 DEF s, m, I

LEMMA CountOfNone ==
  ASSUME NEW name
  PROVE  Count(<< >>, name) = 0
<1>1. {i \in DOMAIN << >> : << >>[i].rule = name} = {}
  BY EmptySeq
<1> QED BY <1>1, FS_EmptySet DEF Count

LEMMA CountType ==
  ASSUME NEW S, NEW list \in Seq(S), NEW name
  PROVE  Count(list, name) \in Nat
<1> DEFINE n == Len(list)
           In == {i \in DOMAIN list : list[i].rule = name}
<1>1. n \in Nat /\ DOMAIN list = 1..n
  BY LenProperties
<1>2. In \in SUBSET (1..n)
  BY <1>1
<1>3. Count(list, name) = Cardinality(In)
  BY DEF Count
<1> HIDE DEF n, In
<1>4. IsFiniteSet(1..n)
  BY <1>1, FS_Interval
<1>5. IsFiniteSet(In)
  BY <1>2, <1>4, FS_Subset
<1> QED BY <1>3, <1>5, FS_CardinalityType

LEMMA NewProfileSound == Sound(NewProfile)
<1>1. /\ NewProfile.anomalies = << >> /\ NewProfile.flaggedConns = 0
      /\ NewProfile.suspicionScore = 0 /\ NewProfile.execCount = 0
  BY DEF NewProfile
<1>2. Explained(NewProfile)
  BY <1>1, ScoreOfNone DEF Explained, Evidence
<1>3. Budget(<< >>, 0)
  BY CountOfNone DEF Budget
<1> QED BY <1>1, <1>2, <1>3 DEF Sound

\* A profile whose anomalies stay, with d more flagged connections
\* and perhaps one more execve, remains sound.
LEMMA SoundLater ==
  ASSUME NEW p \in Profile, Sound(p), NEW q \in Profile, NEW d \in {0, 1},
         q.anomalies = p.anomalies,
         q.suspicionScore = p.suspicionScore + 20 * d,
         q.flaggedConns = p.flaggedConns + d,
         q.execCount \in {p.execCount, p.execCount + 1}
  PROVE  Sound(q)
<1>1. /\ p.anomalies \in Seq(AnomalyType) /\ p.suspicionScore \in Nat
      /\ p.execCount \in Nat /\ p.flaggedConns \in Nat
  BY DEF Profile
<1>2. \A x \in AnomalyType : x.score \in Int
  BY DEF AnomalyType
<1>3. ScoreOf(p.anomalies) \in Int
  BY <1>1, <1>2, ScoreOfInt
<1>4. Explained(q)
  <2>1. p.suspicionScore = ScoreOf(p.anomalies) + 20 * p.flaggedConns
    BY DEF Sound, Explained, Evidence
  <2>2. q.suspicionScore = ScoreOf(p.anomalies) + 20 * (p.flaggedConns + d)
    BY <1>1, <1>3, <2>1
  <2> QED BY <2>2 DEF Explained, Evidence
<1>5. Budget(q.anomalies, q.execCount)
  <2>1. Budget(p.anomalies, p.execCount)
    BY DEF Sound
  <2>2. /\ Count(p.anomalies, "unexpected_binary") \in Nat
        /\ Count(p.anomalies, "process_running_as_root") \in Nat
    BY <1>1, CountType
  <2> QED BY <1>1, <2>1, <2>2 DEF Budget
<1> QED BY <1>4, <1>5 DEF Sound

\* Recording what a rule found keeps a profile sound, provided the execve it
\* was found at is not yet spent.
LEMMA SoundRecorded ==
  ASSUME NEW p \in Profile, Sound(p), NEW a \in AnomalyType, NEW evt,
         NEW listed, Matches(a.rule, evt, p, listed),
         evt.type = EVENT_EXECVE => Budget(p.anomalies, p.execCount - 1)
  PROVE  Sound(Recorded(p, a))
<1> DEFINE q == Recorded(p, a)
           old == p.anomalies
           new == Append(old, a)
           n == Len(old)
<1>1. /\ q \in Profile /\ q.anomalies = new
      /\ q.suspicionScore = p.suspicionScore + a.score
      /\ q.flaggedConns = p.flaggedConns /\ q.execCount = p.execCount
  <2>1. q = [p EXCEPT !.suspicionScore = p.suspicionScore + a.score,
                      !.anomalies = new]
    BY RecordedProfile
  <2>2. q \in Profile
    BY RecordedProfile
  <2> HIDE DEF new
  <2> QED BY <2>1, <2>2 DEF Profile
<1>2. /\ old \in Seq(AnomalyType) /\ n \in Nat /\ DOMAIN old = 1..n
      /\ p.suspicionScore \in Nat /\ a.score \in Nat /\ p.execCount \in Nat
  <2>1. old \in Seq(AnomalyType)
    BY RecordedProfile
  <2> QED BY <2>1, LenProperties, RecordedProfile DEF Profile
<1>3. /\ new \in Seq(AnomalyType) /\ DOMAIN new = 1..(n + 1)
      /\ \A i \in 1..n : new[i] = old[i]
      /\ new[n + 1] = a
  <2>1. new \in Seq(AnomalyType)
    BY <1>2, AppendProperties
  <2>2. Len(new) = n + 1
    BY RecordedProfile
  <2>3. DOMAIN new = 1..Len(new)
    BY <2>1, LenProperties
  <2> QED BY <2>1, <2>2, <2>3, RecordedProfile
<1>4. \A x \in AnomalyType : x.score \in Int
  BY DEF AnomalyType
<1>5. ScoreOf(new) = ScoreOf(old) + a.score /\ ScoreOf(old) \in Int
  BY <1>2, <1>4, ScoreOfAppend, ScoreOfInt
<1> HIDE DEF q, old, new, n
<1>6. Explained(q)
  <2>1. p.suspicionScore = ScoreOf(old) + 20 * p.flaggedConns
    BY DEF Sound, Explained, Evidence, old
  <2>2. p.flaggedConns \in Nat
    BY DEF Profile
  <2>3. q.suspicionScore = ScoreOf(new) + 20 * p.flaggedConns
    BY <1>1, <1>2, <1>5, <2>1, <2>2
  <2> QED BY <1>1, <2>3 DEF Explained, Evidence
<1>7. Budget(new, p.execCount)
  <2> DEFINE U(as) == Count(as, "unexpected_binary")
             R(as) == Count(as, "process_running_as_root")
             u == IF a.rule = "unexpected_binary" THEN 1 ELSE 0
             r == IF a.rule = "process_running_as_root" THEN 1 ELSE 0
  <2>1. /\ U(old) \in Nat /\ R(old) \in Nat
        /\ U(new) = U(old) + u /\ R(new) = R(old) + r
    BY <1>2, CountType, CountOfAppend DEF new
  <2> HIDE DEF U, R
  <2>2. Budget(old, p.execCount)
    BY DEF Sound, old
  <2>3. CASE u = 1
    <3>1. Budget(old, p.execCount - 1) /\ p.execCount > 1 /\ r = 0
      BY <2>3, MatchedProfile DEF old
    <3> QED BY <1>2, <2>1, <2>3, <3>1 DEF Budget, U, R
  <2>4. CASE r = 1
    <3>1. Budget(old, p.execCount - 1) /\ p.execCount < 3 /\ u = 0
      BY <2>4, MatchedProfile DEF old
    <3> QED BY <1>2, <2>1, <2>4, <3>1 DEF Budget, U, R
  <2>5. CASE u = 0 /\ r = 0
    BY <2>1, <2>2, <2>5 DEF Budget, U, R
  <2> QED BY <2>3, <2>4, <2>5
<1> QED BY <1>1, <1>6, <1>7 DEF Sound, q

\* An event adds 20 to the score for a flagged connection or nothing, and
\* counts an execve.
LEMMA UpdatedScore ==
  ASSUME NEW p \in Profile, NEW evt, now \in Nat
  PROVE  /\ \E d \in {0, 1} :
               /\ Updated(p, evt).suspicionScore = p.suspicionScore + 20 * d
               /\ Updated(p, evt).flaggedConns = p.flaggedConns + d
         /\ Updated(p, evt).execCount =
               p.execCount + (IF evt.type = EVENT_EXECVE THEN 1 ELSE 0)
<1> DEFINE u == Updated(p, evt)
<1>1. /\ p.suspicionScore \in Nat /\ p.flaggedConns \in Nat
      /\ p.execCount \in Nat
  BY DEF Profile
<1>2. CASE evt.type = EVENT_CONNECT
  <2> DEFINE c == Append(p.connections, now)
             d == IF evt.ret = 1 THEN 1 ELSE 0
  <2>1. u = [p EXCEPT !.suspicionScore = @ + (IF evt.ret = 1 THEN 20 ELSE 0),
                      !.flaggedConns = @ + d,
                      !.connections = c]
    BY <1>2 DEF Updated, EVENT_OPEN, EVENT_EXECVE, EVENT_CONNECT
  <2> HIDE DEF c, u
  <2>2. /\ u.suspicionScore = p.suspicionScore + (IF evt.ret = 1 THEN 20 ELSE 0)
        /\ u.flaggedConns = p.flaggedConns + d /\ u.execCount = p.execCount
    BY <2>1 DEF Profile
  <2>3. u.suspicionScore = p.suspicionScore + 20 * d
    BY <1>1, <2>2
  <2>4. d \in {0, 1}
    OBVIOUS
  <2>5. u.execCount = p.execCount + (IF evt.type = EVENT_EXECVE THEN 1 ELSE 0)
    BY <1>1, <1>2, <2>2 DEF EVENT_CONNECT, EVENT_EXECVE
  <2> HIDE DEF d
  <2> QED BY <2>2, <2>3, <2>4, <2>5 DEF u
<1>3. CASE evt.type # EVENT_CONNECT
  <2>1. \/ u = [p EXCEPT !.execCount = @ + (IF evt.type = EVENT_EXECVE THEN 1 ELSE 0)]
        \/ /\ u = [p EXCEPT !.fileWriteCount = @ + 1]
           /\ evt.type # EVENT_EXECVE
    <3>1. CASE evt.type = EVENT_EXECVE
      BY <3>1 DEF Updated, EVENT_OPEN, EVENT_EXECVE, EVENT_CONNECT
    <3>2. CASE evt.type = EVENT_OPEN
      BY <3>2 DEF Updated, EVENT_OPEN, EVENT_EXECVE, EVENT_CONNECT
    <3>3. CASE evt.type \notin {EVENT_EXECVE, EVENT_OPEN}
      <4>1. u = p
        BY <1>3, <3>3 DEF Updated
      <4>2. p = [p EXCEPT !.execCount = @ + 0]
        BY <1>1 DEF Profile
      <4> HIDE DEF u
      <4> QED BY <3>3, <4>1, <4>2
    <3> QED BY <3>1, <3>2, <3>3
  <2> HIDE DEF u
  <2>2. /\ u.suspicionScore = p.suspicionScore
        /\ u.flaggedConns = p.flaggedConns
        /\ u.execCount = p.execCount + (IF evt.type = EVENT_EXECVE THEN 1 ELSE 0)
    BY <1>1, <2>1 DEF Profile
  <2>3. /\ u.suspicionScore = p.suspicionScore + 20 * 0
        /\ u.flaggedConns = p.flaggedConns + 0
    BY <1>1, <2>2
  <2> QED BY <2>2, <2>3 DEF u
<1> QED BY <1>2, <1>3

\* Observe, as far as the scores are concerned.
LEMMA ObserveScores ==
  ASSUME TypeOK, NEW raw \in Samples, Observe(raw)
  PROVE  \E q \in Profile, d \in {0, 1} :
            LET p == ProfileOf(raw.pid)
            IN  /\ SetProfile(raw.pid, q)
                /\ q.anomalies = p.anomalies
                /\ q.suspicionScore = p.suspicionScore + 20 * d
                /\ q.flaggedConns = p.flaggedConns + d
                /\ q.execCount = p.execCount
                                    + (IF raw.type = EVENT_EXECVE THEN 1 ELSE 0)
<1> DEFINE evt == ParseEvent(raw)
           p == ProfileOf(raw.pid)
           u == Updated(p, evt)
           b == [u EXCEPT !.state = "baseline"]
<1>0. evt.pid = raw.pid /\ evt.type = raw.type
  BY DEF ParseEvent
<1>1. SetProfile(raw.pid, u) \/ SetProfile(raw.pid, b)
  BY <1>0 DEF Observe
<1>2. now \in Nat
  BY EngineAssumption DEF TypeOK
<1>3. p \in Profile
  BY <1>2, NewProfileType DEF ProfileOf, TypeOK
<1> HIDE DEF evt, p
<1>4. u \in Profile /\ u.anomalies = p.anomalies
  BY <1>2, <1>3, UpdatedProfile
<1>5. PICK d \in {0, 1} :
         /\ u.suspicionScore = p.suspicionScore + 20 * d
         /\ u.flaggedConns = p.flaggedConns + d
         /\ u.execCount = p.execCount + (IF evt.type = EVENT_EXECVE THEN 1 ELSE 0)
  BY <1>2, <1>3, UpdatedScore
<1> HIDE DEF u
<1>6. /\ b \in Profile /\ b.anomalies = u.anomalies
      /\ b.suspicionScore = u.suspicionScore /\ b.execCount = u.execCount
      /\ b.flaggedConns = u.flaggedConns
  BY <1>4 DEF Profile
<1> HIDE DEF b
<1>7. CASE SetProfile(raw.pid, u)
  BY <1>0, <1>4, <1>5, <1>7 DEF p
<1>8. CASE SetProfile(raw.pid, b)
  BY <1>0, <1>4, <1>5, <1>6, <1>8 DEF p
<1> QED BY <1>1, <1>7, <1>8

LEMMA SetProfileSound ==
  ASSUME ProfilesSound, NEW pid, NEW p, SetProfile(pid, p), Sound(p)
  PROVE  ProfilesSound'
<1>1. /\ DOMAIN profiles' = DOMAIN profiles \cup {pid}
      /\ profiles'[pid] = p
      /\ \A q \in DOMAIN profiles : q # pid => profiles'[q] = profiles[q]
  BY SetProfileFacts
<1>2. \A q \in DOMAIN profiles : Sound(profiles[q])
  BY DEF ProfilesSound
<1>3. SUFFICES ASSUME NEW q \in DOMAIN profiles' PROVE Sound(profiles'[q])
  BY DEF ProfilesSound, Sound, Explained, Evidence, Budget, Count, ScoreOf
<1> QED BY <1>1, <1>2

LEMMA ScoresInit == EngineStart => ScoresInv
<1> SUFFICES ASSUME EngineInit, ConfigInit PROVE ScoresInv
  BY DEF EngineStart
<1>1. DOMAIN profiles = {}
  BY EmptySeq DEF EngineInit
<1> QED BY <1>1, TypeInit
    DEF EngineStart, EngineInit, ScoresInv, ProfilesSound, ExecUnspent

LEMMA ScoresStep == ScoresInv /\ [EngineNext]_vars => ScoresInv'
<1> SUFFICES ASSUME ScoresInv, [EngineNext]_vars PROVE ScoresInv'
  OBVIOUS
<1>0. TypeOK /\ ProfilesSound /\ ExecUnspent /\ TypeOK'
  BY TypeStep DEF ScoresInv
<1>1. UNCHANGED profiles => ProfilesSound'
  BY <1>0 DEF ProfilesSound, Sound, Explained, Evidence, Budget, Count, ScoreOf
<1>2. ASSUME NEW raw \in Samples, Observe(raw)
      PROVE  ProfilesSound' /\ ExecUnspent'
  <2> DEFINE p == ProfileOf(raw.pid)
  <2>1. sample' = raw /\ now \in Nat
    BY <1>0, <1>2, EngineAssumption DEF Observe, TypeOK
  <2>2. p \in Profile
    BY <1>0, <2>1, NewProfileType DEF ProfileOf, TypeOK
  <2>3. Sound(p)
    BY <1>0, NewProfileSound DEF ProfileOf, ProfilesSound
  <2> HIDE DEF p
  <2>4. PICK q \in Profile, d \in {0, 1} :
           /\ SetProfile(raw.pid, q)
           /\ q.anomalies = p.anomalies
           /\ q.suspicionScore = p.suspicionScore + 20 * d
           /\ q.flaggedConns = p.flaggedConns + d
           /\ q.execCount = p.execCount + (IF raw.type = EVENT_EXECVE THEN 1 ELSE 0)
    BY <1>0, <1>2, ObserveScores DEF p
  <2>5. p.execCount \in Nat
    BY <2>2 DEF Profile
  <2>6. q.execCount \in {p.execCount, p.execCount + 1}
    BY <2>4, <2>5
  <2>7. Sound(q)
    BY <2>2, <2>3, <2>4, <2>6, SoundLater
  <2>8. ProfilesSound'
    BY <1>0, <2>4, <2>7, SetProfileSound
  <2>9. ExecUnspent'
    <3>1. profiles'[raw.pid] = q
      BY <2>4, SetProfileFacts
    <3>2. raw.type = EVENT_EXECVE => q.execCount - 1 = p.execCount
      BY <2>4, <2>5
    <3>3. Budget(p.anomalies, p.execCount)
      BY <2>3 DEF Sound
    <3>4. raw.type = EVENT_EXECVE => Budget(q.anomalies, q.execCount - 1)
      BY <2>4, <3>2, <3>3
    <3> QED BY <2>1, <3>1, <3>4 DEF ExecUnspent, Budget, Count
  <2> QED BY <2>8, <2>9
<1>3. CASE EndLearning
  <2>1. step' = "return"
    BY <1>0, <1>3, EndLearningFacts
  <2>2. ASSUME NEW q \in Profile, SetProfile(sample.pid, q),
               q.anomalies = profiles[sample.pid].anomalies,
               q.suspicionScore = profiles[sample.pid].suspicionScore,
               q.execCount = profiles[sample.pid].execCount,
               q.flaggedConns = profiles[sample.pid].flaggedConns
        PROVE  ProfilesSound'
    <3>1. sample.pid \in DOMAIN profiles
      BY <1>0, <1>3 DEF EndLearning, TypeOK
    <3>2. Sound(profiles[sample.pid])
      BY <1>0, <3>1 DEF ProfilesSound
    <3>3. Sound(q)
      BY <2>2, <3>2 DEF Sound, Explained, Evidence
    <3> QED BY <1>0, <2>2, <3>3, SetProfileSound
  <2>3. ProfilesSound'
    BY <1>0, <1>1, <1>3, <2>2, EndLearningFacts
  <2> QED BY <1>0, <2>1, <2>3 DEF ScoresInv, ExecUnspent
<1>4. CASE RuleMatches
  <2> DEFINE p == profiles[sample.pid]
  <2>1. /\ step = "rules" /\ step' = "escalate"
        /\ sample.pid \in DOMAIN profiles /\ p \in Profile
    BY <1>0, <1>4, RuleMatchesFacts
  <2>2. PICK a \in AnomalyType :
           /\ SetProfile(sample.pid, Recorded(p, a))
           /\ \E listed \in BOOLEAN : Matches(a.rule, Evt, p, listed)
    BY <1>0, <1>4, RuleMatchesFacts
  <2>3. PICK listed \in BOOLEAN : Matches(a.rule, Evt, p, listed)
    BY <2>2
  <2>4. Sound(p)
    BY <1>0, <2>1 DEF ProfilesSound
  <2>5. Evt.type = EVENT_EXECVE => Budget(p.anomalies, p.execCount - 1)
    BY <1>0, <2>1 DEF ExecUnspent, Evt, ParseEvent
  <2> HIDE DEF p
  <2>6. Sound(Recorded(p, a))
    BY <2>1, <2>3, <2>4, <2>5, SoundRecorded
  <2>7. ProfilesSound'
    BY <1>0, <2>2, <2>6, SetProfileSound
  <2> QED BY <1>0, <2>1, <2>7 DEF ScoresInv, ExecUnspent
<1>5. CASE NoRuleMatches \/ Escalate \/ Return
  <2>1. step' # "rules" /\ UNCHANGED profiles
    BY <1>5 DEF NoRuleMatches, Escalate, Return
  <2> QED BY <1>0, <1>1, <2>1 DEF ScoresInv, ExecUnspent
<1>6. CASE Tick \/ EngineConfig \/ UNCHANGED vars
  <2>1. UNCHANGED <<profiles, step, sample>>
    BY <1>6 DEF Tick, EngineConfig, vars, engineVars
  <2> QED BY <1>0, <1>1, <2>1 DEF ScoresInv, ExecUnspent, Budget, Count
<1> QED BY <1>0, <1>2, <1>3, <1>4, <1>5, <1>6 DEF EngineNext, ScoresInv

\* The inductive invariant behind the scores and the counts.
THEOREM ScoresInvariant == EngineSpec => []ScoresInv
  BY ScoresInit, ScoresStep, PTL DEF EngineSpec

\* No anomaly is recorded without being scored, scored twice, or scored without
\* being recorded, through any learning, enforcing and reconfiguring.
THEOREM ScoresAreExplained == EngineSpec => []ScoreExplained
<1>1. ScoresInv => ScoreExplained
  BY DEF ScoresInv, ProfilesSound, Sound, Explained, ScoreExplained
<1> QED BY <1>1, ScoresInvariant, PTL

\* Only RuleMatches adds an anomaly to a profile.
LEMMA NewAnomaly ==
  ASSUME TypeOK, [EngineNext]_vars, NEW pid \in DOMAIN profiles,
         Len(profiles'[pid].anomalies) > Len(profiles[pid].anomalies)
  PROVE  RuleMatches /\ pid = sample.pid
<1> DEFINE as == profiles[pid].anomalies
<1>1. Len(as) \in Nat
  <2>1. as \in Seq(AnomalyType)
    BY DEF TypeOK, Profile
  <2> QED BY <2>1, LenProperties
<1>2. profiles'[pid].anomalies # as
  BY <1>1
<1>3. ~UNCHANGED profiles
  BY <1>2
<1>4. ~\E raw \in Samples : Observe(raw)
  <2>1. SUFFICES ASSUME NEW raw \in Samples, Observe(raw) PROVE FALSE
    OBVIOUS
  <2>2. PICK q \in Profile : /\ SetProfile(raw.pid, q)
                             /\ q.anomalies = ProfileOf(raw.pid).anomalies
    BY <2>1, ObserveFacts
  <2> QED BY <1>2, <2>2, SetProfileFacts DEF ProfileOf
<1>5. ~EndLearning
  <2>1. SUFFICES ASSUME EndLearning PROVE FALSE
    OBVIOUS
  <2>2. PICK q \in Profile : /\ SetProfile(sample.pid, q)
                             /\ q.anomalies = profiles[sample.pid].anomalies
    BY <1>3, <2>1, EndLearningFacts
  <2> QED BY <1>2, <2>2, SetProfileFacts
<1>6. RuleMatches
  BY <1>3, <1>4, <1>5 DEF EngineNext, NoRuleMatches, Escalate, Return, Tick,
                          EngineConfig, engineVars, vars
<1>7. PICK a \in AnomalyType :
         SetProfile(sample.pid, Recorded(profiles[sample.pid], a))
  BY <1>6, RuleMatchesFacts
<1> QED BY <1>2, <1>6, <1>7, SetProfileFacts

\* An executable_mmap anomaly is never the first sign of a process: what was
\* recorded before it, flagged connections included, was worth 50 or more.
THEOREM MmapIsCorroborated == EngineSpec => MmapNeedsSuspicion
<1> DEFINE Corroborated ==
      \A pid \in DOMAIN profiles :
         LET p == profiles[pid]
             q == profiles'[pid]
         IN  Len(q.anomalies) > Len(p.anomalies)
                /\ q.anomalies[Len(q.anomalies)].rule = "executable_mmap"
             => Evidence(p) >= 50
<1>1. ScoresInv /\ [EngineNext]_vars => [Corroborated]_vars
  <2> SUFFICES ASSUME ScoresInv, [EngineNext]_vars, NEW pid \in DOMAIN profiles,
                      Len(profiles'[pid].anomalies) > Len(profiles[pid].anomalies),
                      profiles'[pid].anomalies[Len(profiles'[pid].anomalies)].rule
                         = "executable_mmap"
               PROVE  Evidence(profiles[pid]) >= 50
    OBVIOUS
  <2> DEFINE p == profiles[pid]
  <2>1. TypeOK /\ p \in Profile /\ p.suspicionScore = Evidence(p)
    BY DEF ScoresInv, TypeOK, ProfilesSound, Sound, Explained
  <2>2. RuleMatches /\ pid = sample.pid
    BY <2>1, NewAnomaly
  <2>3. PICK a \in AnomalyType :
           /\ SetProfile(pid, Recorded(p, a))
           /\ \E listed \in BOOLEAN : Matches(a.rule, Evt, p, listed)
    BY <2>1, <2>2, RuleMatchesFacts
  <2>4. profiles'[pid] = Recorded(p, a)
    BY <2>3, SetProfileFacts
  <2> DEFINE s == Append(p.anomalies, a)
  <2>5. /\ Len(s) = Len(p.anomalies) + 1
        /\ s[Len(p.anomalies) + 1] = a
        /\ Recorded(p, a) = [p EXCEPT !.suspicionScore = p.suspicionScore + a.score,
                                      !.anomalies = s]
    BY <2>1, RecordedProfile
  <2> HIDE DEF p, s
  <2>6. Recorded(p, a).anomalies = s
    BY <2>1, <2>5 DEF Profile
  <2>7. a.rule = "executable_mmap"
    BY <2>4, <2>5, <2>6
  <2>8. p.suspicionScore >= 50
    BY <2>3, <2>7, MatchedProfile
  <2> QED BY <2>1, <2>8 DEF p
<1> QED BY <1>1, ScoresInvariant, PTL DEF EngineSpec, MmapNeedsSuspicion

\* An execve raises at most one of the two exec anomalies, and the counts in
\* their conditions bound how many a profile gets.
THEOREM ExecAlertsBounded == EngineSpec => []ExecAlertBudget
<1>1. ScoresInv => ExecAlertBudget
  BY DEF ScoresInv, ProfilesSound, Sound, Budget, ExecAlertBudget
<1> QED BY <1>1, ScoresInvariant, PTL

-----------------------------------------------------------------------------
(* Beaconing. *)

\* Of m + k numbers, k are d and m are d + 1: five times the square of their
\* number by their variance is less than the square by their mean.
LEMMA NeighboursVary ==
  ASSUME NEW m \in Nat, NEW k \in Nat, NEW d \in Nat, m + k > 0, d >= 1
  PROVE  5 * (m * k) < (m + k) * ((m + k) * d + m)
<1> DEFINE x == m * m
           y == m * k
           z == k * k
           n == m + k
<1>1. x \in Nat /\ y \in Nat /\ z \in Nat /\ n \in Nat
  OBVIOUS
<1>2. n * n = x + 2 * y + z /\ n * m = x + y
  OBVIOUS
<1>3. n * (n * d) >= n * n
  <2> HIDE DEF n
  <2>1. \A u, v \in Nat : u >= v => n * u >= n * v
    BY <1>1
  <2>2. n * d \in Nat /\ n * d >= n
    BY <1>1
  <2> QED BY <1>1, <2>1, <2>2
<1>4. n * (n * d + m) = n * (n * d) + n * m /\ n * (n * d) \in Nat
  <2> HIDE DEF n
  <2> QED BY <1>1
<1>5. 2 * x - 2 * y + z > 0
  <2>1. (m - k) * (m - k) >= 0
    <3>1. \A i \in Int : i * i >= 0
      OBVIOUS
    <3> QED BY <3>1
  <2>2. (m - k) * (m - k) = x - 2 * y + z
    OBVIOUS
  <2>3. CASE m > 0
    <3>1. x > 0
      BY <2>3
    <3> HIDE DEF x, y, z
    <3> QED BY <1>1, <2>1, <2>2, <3>1
  <2>4. CASE m = 0
    <3>1. x = 0 /\ y = 0
      BY <2>4
    <3>2. z > 0
      BY <2>4
    <3> QED BY <3>1, <3>2
  <2> QED BY <2>3, <2>4
<1> HIDE DEF x, z, n
<1>6. 5 * y < n * (n * d + m)
  <2> HIDE DEF y
  <2> DEFINE A == n * (n * d)
             B == n * n
             C == n * m
             D == n * (n * d + m)
  <2>1. A \in Nat /\ B \in Int /\ C \in Int /\ D = A + C /\ A >= B
        /\ B = x + 2 * y + z /\ C = x + y
    BY <1>1, <1>2, <1>3, <1>4
  <2> HIDE DEF A, B, C, D
  <2>2. 5 * y < D
    BY <1>1, <1>5, <2>1
  <2> QED BY <2>2 DEF D
<1> QED BY <1>6 DEF n

\* With S the sum of those numbers and Q that of their squares.
LEMMA NeighboursSpread ==
  ASSUME NEW m \in Nat, NEW k \in Nat, NEW d \in Nat, NEW n \in Nat, n = m + k,
         NEW S \in Int, NEW Q \in Int,
         S = n * d + m, Q = (2 * d + 1) * S - (d * (d + 1)) * n
  PROVE  n * Q - S * S = m * k
<1>1. Q = d * S + (d + 1) * m
  OBVIOUS
<1>2. n * Q = n * (d * S) + n * ((d + 1) * m)
  BY <1>1
<1>3. S * S = (n * d) * S + m * S /\ m * S = m * (n * d) + m * m
  OBVIOUS
<1>4. (n * d) * S = n * (d * S) /\ n * ((d + 1) * m) = m * (n * d) + m * n
  OBVIOUS
<1>5. m * n = m * m + m * k
  OBVIOUS
<1> QED BY <1>2, <1>3, <1>4, <1>5

\* The gaps are d or d + 1, d the least of them.
LEMMA RegularIsPeriodic ==
  ASSUME NEW conns \in Seq(Nat), Regular(conns)
  PROVE  Periodic(Intervals(conns))
<1> DEFINE n == Len(conns) - 1
           I == 1..n
           gaps == Intervals(conns)
           squares == [i \in DOMAIN gaps |-> gaps[i] * gaps[i]]
           S == SumFunction(gaps)
           Q == SumFunction(squares)
           values == {gaps[i] : i \in I}
           d == Min(values)
<1>1. Len(conns) \in Nat /\ n \in Nat /\ n >= 3
  BY LenProperties, EngineAssumption DEF Regular
<1>2. DOMAIN gaps = I /\ Len(gaps) = n
  BY <1>1 DEF Intervals
<1>3. \A i \in I : gaps[i] \in Int
  <2> SUFFICES ASSUME NEW i \in I PROVE gaps[i] \in Int
    OBVIOUS
  <2>1. i \in 1..Len(conns) /\ i + 1 \in 1..Len(conns)
    BY <1>1
  <2>2. conns[i] \in Nat /\ conns[i + 1] \in Nat
    BY <2>1, ElementOfSeq
  <2>3. gaps[i] = conns[i + 1] - conns[i]
    BY DEF Intervals
  <2> HIDE DEF gaps
  <2> QED BY <2>2, <2>3
<1>4. PICK wide \in I : gaps[wide] > 1
  BY <1>2 DEF Regular
<1>5. \A i, j \in I : gaps[i] <= gaps[j] + 1
  BY <1>2 DEF Regular
<1> HIDE DEF gaps
<1>6. \A i \in I : gaps[i] \in Nat /\ gaps[i] >= 1
  <2> HIDE DEF I
  <2> QED BY <1>3, <1>4, <1>5
<1>7. /\ d \in Nat /\ d >= 1
      /\ \A i \in I : gaps[i] = d \/ gaps[i] = d + 1
  <2>1. values \in SUBSET Nat /\ values # {}
    BY <1>4, <1>6
  <2> HIDE DEF values
  <2>2. d \in values /\ \A y \in values : d <= y
    BY <2>1, MinIsLeast
  <2>3. PICK low \in I : d = gaps[low]
    BY <2>2 DEF values
  <2>4. \A i \in I : d <= gaps[i]
    BY <2>2 DEF values
  <2> HIDE DEF d, I
  <2> QED BY <1>5, <1>6, <2>3, <2>4
<1>8. IsFiniteSet(I) /\ Cardinality(I) = n
  BY <1>1, FS_Interval
<1>9. DOMAIN squares = I /\ \A i \in I : squares[i] = gaps[i] * gaps[i]
  BY <1>2
<1>10. S = SumFunctionOnSet(gaps, I) /\ Q = SumFunctionOnSet(squares, I)
  BY <1>2, <1>9 DEF SumFunction
<1> HIDE DEF I, n, squares, S, Q, values, d
<1>11. S \in Int
  BY <1>3, <1>8, <1>10, SumOfInts
<1>12. Q = (2 * d + 1) * S + (0 - d * (d + 1)) * n
  <2> DEFINE a == 2 * d + 1
             c == 0 - d * (d + 1)
  <2>1. a \in Int /\ c \in Int
    BY <1>7
  <2>2. \A i \in I : squares[i] = a * gaps[i] + c
    <3> SUFFICES ASSUME NEW i \in I PROVE squares[i] = a * gaps[i] + c
      OBVIOUS
    <3>1. CASE gaps[i] = d
      <4>1. d * d = (2 * d + 1) * d + (0 - d * (d + 1))
        BY <1>7
      <4> QED BY <1>9, <3>1, <4>1
    <3>2. CASE gaps[i] = d + 1
      <4>1. (d + 1) * (d + 1) = (2 * d + 1) * (d + 1) + (0 - d * (d + 1))
        BY <1>7
      <4> QED BY <1>9, <3>2, <4>1
    <3> QED BY <1>7, <3>1, <3>2
  <2> HIDE DEF a, c
  <2>3. Q = a * S + c * n
    <3>1. Linear(gaps, squares, I, a, c)
      BY <1>3, <2>2 DEF Linear
    <3>2. SumFunctionOnSet(squares, I)
             = a * SumFunctionOnSet(gaps, I) + c * Cardinality(I)
      BY <1>8, <2>1, <3>1, SumLinear
    <3> QED BY <1>8, <1>10, <3>2
  <2> QED BY <2>3 DEF a, c
<1>13. S - d * n \in Nat
  <2> DEFINE e == [i \in I |-> gaps[i] - d]
  <2>1. \A i \in I : e[i] \in Nat /\ e[i] = 1 * gaps[i] + (0 - d)
    <3> SUFFICES ASSUME NEW i \in I
                 PROVE  e[i] \in Nat /\ e[i] = 1 * gaps[i] + (0 - d)
      OBVIOUS
    <3>1. e[i] = gaps[i] - d
      OBVIOUS
    <3>2. d \in Nat /\ gaps[i] \in Nat /\ gaps[i] >= d
      BY <1>6, <1>7
    <3> HIDE DEF e
    <3> QED BY <3>1, <3>2
  <2> HIDE DEF e
  <2>2. SumFunctionOnSet(e, I) \in Nat
    BY <1>8, <2>1, SumOfNats
  <2>3. SumFunctionOnSet(e, I) = 1 * S + (0 - d) * n
    <3>1. 1 \in Int /\ 0 - d \in Int
      BY <1>7
    <3>2. Linear(gaps, e, I, 1, 0 - d)
      BY <1>3, <2>1 DEF Linear
    <3>3. SumFunctionOnSet(e, I)
             = 1 * SumFunctionOnSet(gaps, I) + (0 - d) * Cardinality(I)
      BY <1>8, <3>1, <3>2, SumLinear
    <3> QED BY <1>8, <1>10, <3>3
  <2>4. 1 * S + (0 - d) * n = S - d * n
    BY <1>1, <1>7, <1>11
  <2> QED BY <2>2, <2>3, <2>4
<1>14. (d + 1) * n - S \in Nat
  <2> DEFINE e == [i \in I |-> (d + 1) - gaps[i]]
  <2>1. \A i \in I : e[i] \in Nat /\ e[i] = (0 - 1) * gaps[i] + (d + 1)
    BY <1>6, <1>7
  <2> HIDE DEF e
  <2>2. SumFunctionOnSet(e, I) \in Nat
    BY <1>8, <2>1, SumOfNats
  <2>3. SumFunctionOnSet(e, I) = (0 - 1) * S + (d + 1) * n
    <3>1. 0 - 1 \in Int /\ d + 1 \in Int
      BY <1>7
    <3>2. Linear(gaps, e, I, 0 - 1, d + 1)
      BY <1>3, <2>1 DEF Linear
    <3>3. SumFunctionOnSet(e, I)
             = (0 - 1) * SumFunctionOnSet(gaps, I) + (d + 1) * Cardinality(I)
      BY <1>8, <3>1, <3>2, SumLinear
    <3> QED BY <1>8, <1>10, <3>3
  <2>4. (0 - 1) * S + (d + 1) * n = (d + 1) * n - S
    BY <1>1, <1>7, <1>11
  <2> QED BY <2>2, <2>3, <2>4
<1>15. S > n
  <2> DEFINE e == [i \in I |-> gaps[i] - 1]
  <2>1. /\ \A i \in I : e[i] \in Nat /\ e[i] = 1 * gaps[i] + (0 - 1)
        /\ e[wide] >= 1
    BY <1>4, <1>6
  <2> HIDE DEF e
  <2>2. SumFunctionOnSet(e, I) \in Nat /\ e[wide] <= SumFunctionOnSet(e, I)
    BY <1>8, <2>1, SumOfNats
  <2>3. SumFunctionOnSet(e, I) = 1 * S + (0 - 1) * n
    <3>1. 1 \in Int /\ 0 - 1 \in Int
      OBVIOUS
    <3>2. Linear(gaps, e, I, 1, 0 - 1)
      BY <1>3, <2>1 DEF Linear
    <3>3. SumFunctionOnSet(e, I)
             = 1 * SumFunctionOnSet(gaps, I) + (0 - 1) * Cardinality(I)
      BY <1>8, <3>1, <3>2, SumLinear
    <3> QED BY <1>8, <1>10, <3>3
  <2> QED BY <1>1, <1>11, <2>1, <2>2, <2>3
<1>16. 5 * (n * Q - S * S) < n * S
  <2> DEFINE m == S - d * n
             k == (d + 1) * n - S
  <2>1. m \in Nat /\ k \in Nat
    BY <1>13, <1>14
  <2>2. n = m + k /\ S = n * d + m
    BY <1>1, <1>7, <1>11
  <2>3. Q = (2 * d + 1) * S - (d * (d + 1)) * n /\ Q \in Int
    <3>1. /\ \A i, j \in Int : (0 - i) * j = 0 - i * j /\ i * j \in Int
          /\ \A i, j \in Int : i + (0 - j) = i - j /\ i - j \in Int
      OBVIOUS
    <3>2. d * (d + 1) \in Int /\ 2 * d + 1 \in Int
      BY <1>7
    <3> QED BY <1>1, <1>11, <1>12, <3>1, <3>2
  <2> HIDE DEF m, k
  <2>4. n * Q - S * S = m * k
    BY <1>1, <1>7, <1>11, <2>1, <2>2, <2>3, NeighboursSpread
  <2>5. 5 * (m * k) < (m + k) * ((m + k) * d + m)
    BY <1>1, <1>7, <2>1, <2>2, NeighboursVary
  <2> QED BY <2>2, <2>4, <2>5
<1> QED BY <1>2, <1>15, <1>16 DEF Periodic, S, Q, squares, gaps

\* A connection of a process whose connections are regular matches the third
\* rule and neither of those before it.
LEMMA RegularMatchesThird ==
  ASSUME NEW p \in Profile, NEW listed, NEW evt,
         evt.type = EVENT_CONNECT, Regular(p.connections)
  PROVE  /\ Hits(evt, p, listed) # {}
         /\ Rules[Min(Hits(evt, p, listed))].rule = "beaconing_detected"
<1> DEFINE hits == Hits(evt, p, listed)
           i == Min(hits)
<1>1. p.connections \in Seq(Nat)
  BY DEF Profile
<1>2. Beaconing(evt, p)
  BY <1>1, RegularIsPeriodic DEF Beaconing, Regular
<1>3. /\ DOMAIN Rules = 1..10
      /\ Rules[1].rule = "unexpected_binary"
      /\ Rules[2].rule = "process_running_as_root"
      /\ Rules[3].rule = "beaconing_detected"
  BY RulesAreTyped DEF Rules, Rule
<1>4. Matches("beaconing_detected", evt, p, listed)
  BY <1>2 DEF Matches
<1>5. /\ ~Matches("unexpected_binary", evt, p, listed)
      /\ ~Matches("process_running_as_root", evt, p, listed)
  BY DEF Matches, UnexpectedBinary, RunningAsRoot, EVENT_CONNECT, EVENT_EXECVE
<1>6. 3 \in hits /\ 1 \notin hits /\ 2 \notin hits /\ hits \in SUBSET (1..10)
  BY <1>3, <1>4, <1>5 DEF Hits
<1> HIDE DEF hits
<1>7. i \in hits /\ i <= 3
  BY <1>6, MinIsLeast
<1> HIDE DEF i
<1>8. i = 3
  BY <1>6, <1>7
<1> QED BY <1>3, <1>6, <1>8 DEF hits, i

\* The verdict on a process whose connections so far all came at a regular pace,
\* gaps of one length or of two that differ by a second, is the beacon rule's,
\* whichever records, files and POSTs came before.
THEOREM PeriodicCaught == EngineSpec => PeriodicIsCaught
<1> DEFINE Caught ==
      step = "rules" /\ step' # "rules" /\ Evt.type = EVENT_CONNECT
         /\ Regular(profiles[Evt.pid].connections)
      => anomaly' # None /\ anomaly'.rule = "beaconing_detected"
<1>1. TypeOK /\ [EngineNext]_vars => [Caught]_vars
  <2> SUFFICES ASSUME TypeOK, [EngineNext]_vars, step = "rules", step' # "rules",
                      Evt.type = EVENT_CONNECT,
                      Regular(profiles[Evt.pid].connections)
               PROVE  anomaly' # None /\ anomaly'.rule = "beaconing_detected"
    OBVIOUS
  <2> DEFINE p == profiles[Evt.pid]
  <2>1. p \in Profile
    BY EvtFields DEF TypeOK
  <2>2. ~UNCHANGED vars
    BY DEF vars, engineVars
  <2>3. RuleMatches \/ NoRuleMatches
    BY <2>2 DEF EngineNext, Observe, EndLearning, Escalate, Return, Tick,
                EngineConfig, engineVars
  <2>4. ~NoRuleMatches
    BY <2>1, RegularMatchesThird DEF NoRuleMatches
  <2>5. PICK listed : anomaly' = Rules[Min(Hits(Evt, p, listed))]
    BY <2>3, <2>4 DEF RuleMatches
  <2>6. anomaly'.rule = "beaconing_detected"
    BY <2>1, <2>5, RegularMatchesThird
  <2>7. PICK a \in AnomalyType : anomaly' = a
    BY <2>3, <2>4, RuleMatchesFacts
  <2> QED BY <2>6, <2>7, NoneAssumption
<1> QED BY <1>1, EngineTypeCorrect, PTL DEF EngineSpec, PeriodicIsCaught

-----------------------------------------------------------------------------
(* Rules no record can match. *)

\* Of the ten rules these three ask for what parseEvent never makes: a ret of
\* -2, which comes out unsigned, and a ret among the data, where none is put.
SilentRules == {"dns_tunneling", "mass_file_deletion", "sensitive_file_write"}

Silent(as) == \A i \in DOMAIN as : as[i].rule \notin SilentRules

ProfilesSilent == \A pid \in DOMAIN profiles : Silent(profiles[pid].anomalies)

\* The anomaly that is on its way is none of theirs.
AnomalySilent == anomaly # None => anomaly.rule \notin SilentRules

LEMMA SilentDoNotMatch ==
  ASSUME NEW raw \in Samples, NEW name \in SilentRules, NEW p, NEW listed
  PROVE  ~Matches(name, ParseEvent(raw), p, listed)
<1> DEFINE evt == ParseEvent(raw)
<1>1. evt.ret # -2
  <2>1. raw.ret \in Int /\ Word \in Nat /\ Word > 0
    BY EngineAssumption, WordAssumption
  <2>2. raw.ret % Word \in 0..(Word - 1)
    BY <2>1
  <2> QED BY <2>1, <2>2 DEF ParseEvent, U32
<1>2. DataInt(evt, "ret") = 0
  <2>1. "ret" \notin DOMAIN EventData(raw)
    BY EmptySeq DEF EventData
  <2> QED BY <2>1 DEF ParseEvent, DataInt
<1>3. CASE name = "dns_tunneling"
  BY <1>2, <1>3 DEF Matches, DnsTunneling
<1>4. CASE name = "mass_file_deletion"
  BY <1>1, <1>4 DEF Matches, MassDeletion
<1>5. CASE name = "sensitive_file_write"
  BY <1>2, <1>5 DEF Matches, SensitiveWrite
<1> QED BY <1>3, <1>4, <1>5 DEF SilentRules

LEMMA SetProfileSilent ==
  ASSUME ProfilesSilent, NEW pid, NEW q, SetProfile(pid, q), Silent(q.anomalies)
  PROVE  ProfilesSilent'
  BY SetProfileFacts DEF ProfilesSilent

LEMMA SilentStep ==
  ASSUME TypeOK, ProfilesSilent, AnomalySilent, [EngineNext]_vars
  PROVE  ProfilesSilent' /\ AnomalySilent'
<1>1. ASSUME NEW raw \in Samples, Observe(raw)
      PROVE  ProfilesSilent' /\ AnomalySilent'
  <2>1. UNCHANGED anomaly
    BY <1>1, ObserveFacts
  <2>2. PICK q \in Profile : /\ SetProfile(raw.pid, q)
                             /\ q.anomalies = ProfileOf(raw.pid).anomalies
    BY <1>1, ObserveFacts
  <2>3. Silent(ProfileOf(raw.pid).anomalies)
    BY EmptySeq DEF ProfileOf, NewProfile, ProfilesSilent, Silent
  <2> QED BY <2>1, <2>2, <2>3, SetProfileSilent DEF AnomalySilent
<1>2. CASE EndLearning
  <2>1. sample.pid \in DOMAIN profiles /\ UNCHANGED anomaly
    BY <1>2 DEF EndLearning, TypeOK
  <2>2. Silent(profiles[sample.pid].anomalies)
    BY <2>1 DEF ProfilesSilent
  <2> QED BY <1>2, <2>1, <2>2, EndLearningFacts, SetProfileSilent
          DEF ProfilesSilent, AnomalySilent
<1>3. CASE RuleMatches
  <2> DEFINE p == profiles[sample.pid]
  <2>1. sample \in Samples /\ sample.pid \in DOMAIN profiles /\ p \in Profile
    BY <1>3, RuleMatchesFacts DEF TypeOK
  <2>2. PICK a \in AnomalyType :
           /\ anomaly' = a
           /\ SetProfile(sample.pid, Recorded(p, a))
           /\ \E listed \in BOOLEAN : Matches(a.rule, Evt, p, listed)
    BY <1>3, RuleMatchesFacts
  <2>3. a.rule \notin SilentRules
    BY <2>1, <2>2, SilentDoNotMatch DEF Evt
  <2>4. Silent(p.anomalies)
    BY <2>1 DEF ProfilesSilent
  <2>5. Recorded(p, a).anomalies = Append(p.anomalies, a)
    BY <2>1 DEF Recorded, Profile
  <2>6. p.anomalies \in Seq(AnomalyType)
    BY <2>1 DEF Profile
  <2> HIDE DEF p
  <2>7. Silent(Append(p.anomalies, a))
    BY <2>3, <2>4, <2>6, AppendProperties DEF Silent
  <2> QED BY <2>2, <2>3, <2>5, <2>7, SetProfileSilent DEF AnomalySilent
<1>4. CASE Escalate
  <2>1. UNCHANGED profiles
    BY <1>4 DEF Escalate
  <2>2. anomaly \in AnomalyType
    BY <1>4 DEF Escalate, TypeOK
  <2>3. anomaly'.rule = anomaly.rule
    BY <1>4, <2>2 DEF Escalate, AnomalyType
  <2> QED BY <2>1, <2>2, <2>3, NoneAssumption DEF ProfilesSilent, AnomalySilent
<1>5. CASE NoRuleMatches \/ Return \/ Tick \/ EngineConfig \/ UNCHANGED vars
  <2>1. UNCHANGED profiles /\ (anomaly' = None \/ UNCHANGED anomaly)
    BY <1>5 DEF NoRuleMatches, Return, Tick, EngineConfig, vars, engineVars
  <2> QED BY <2>1 DEF ProfilesSilent, AnomalySilent
<1> QED BY <1>1, <1>2, <1>3, <1>4, <1>5 DEF EngineNext

\* Whatever the hooks submit, however stale its places, and however long the
\* loader runs, it neither records nor reports a DNS tunnel, a mass deletion or a
\* sensitive write: MatchFunc of these rules asks for what parseEvent never makes.
THEOREM SilentRulesNeverFire == EngineSpec => [](ProfilesSilent /\ AnomalySilent)
<1>1. EngineStart => ProfilesSilent /\ AnomalySilent
  BY EmptySeq DEF EngineStart, EngineInit, ProfilesSilent, AnomalySilent
<1>2. TypeOK /\ (ProfilesSilent /\ AnomalySilent) /\ [EngineNext]_vars
      => (ProfilesSilent /\ AnomalySilent)'
  BY SilentStep
<1> QED BY <1>1, <1>2, EngineTypeCorrect, PTL DEF EngineSpec
=============================================================================
