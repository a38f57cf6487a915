--------------------------- MODULE AlertApiProofs ---------------------------
(***************************************************************************)
(* Theorems about AlertApi, for any streams, processes, scores and updates *)
(* and any sizes of the store and of the queues.                           *)
(***************************************************************************)
EXTENDS AlertApi, Sums, SequenceTheorems

Row == [n : 1..MaxAlerts, id : 1..(StoreMax + 1), pid : Pids]
Entry == [count : 1..MaxAlerts, score : Int,
          state : {"learning", "baseline", "anomalous"}]

-----------------------------------------------------------------------------
(* The steps of POST /api/v1/alerts. *)

LEMMA NumbersAreNat ==
  /\ StoreMax \in Nat /\ TrimBy \in Nat /\ QueueCap \in Nat /\ MaxAlerts \in Nat
  /\ TrimBy >= 1 /\ TrimBy <= StoreMax
  BY ApiAssumption

\* The store after an alert is what it was with the alert at the end, less the
\* first TrimBy where it was full.
LEMMA TrimFacts ==
  ASSUME NEW S, NEW list \in Seq(S), NEW a \in S, Len(list) <= StoreMax
  PROVE  \E cut \in {0, TrimBy} :
            LET s == Trim(Append(list, a))
            IN  /\ s \in Seq(S)
                /\ cut = TrimBy <=> Len(list) = StoreMax
                /\ Len(s) = Len(list) + 1 - cut
                /\ Len(s) \in Nat \ {0}
                /\ \A i \in 1..(Len(s) - 1) : i + cut \in 1..Len(list)
                                              /\ s[i] = list[i + cut]
                /\ s[Len(s)] = a
<1> DEFINE t == Append(list, a)
           n == Len(list)
           s == Trim(t)
<1>1. /\ t \in Seq(S) /\ Len(t) = n + 1
      /\ \A i \in 1..n : t[i] = list[i]
      /\ t[n + 1] = a
  BY AppendProperties
<1>2. n \in Nat /\ n <= StoreMax
  BY LenProperties
<1>3. \A i \in 1..(n + 1) : t[i] \in S
  BY <1>1, ElementOfSeq
<1> HIDE DEF t, n, s
<1>4. CASE n = StoreMax
  <2>1. s = SubSeq(t, TrimBy + 1, n + 1)
    BY <1>1, <1>2, <1>4, NumbersAreNat DEF Trim, s
  <2>2. /\ s \in Seq(S) /\ Len(s) = n + 1 - TrimBy
        /\ \A i \in 1..(n + 1 - TrimBy) : s[i] = t[i + TrimBy]
    <3>1. \A i \in (TrimBy + 1)..(n + 1) : t[i] \in S
      BY <1>3, NumbersAreNat
    <3> DEFINE m == TrimBy + 1
               k == n + 1
    <3>2. m \in Int /\ k \in Int /\ m <= k
      BY <1>2, <1>4, NumbersAreNat
    <3> DEFINE w == n + 1 - TrimBy
    <3>3. k - m + 1 = w /\ \A i \in 1..w : m + i - 1 = i + TrimBy
      BY <1>2, NumbersAreNat
    <3> HIDE DEF m, k, w
    <3>4. \A i \in m..k : t[i] \in S
      BY <3>1 DEF m, k
    <3>5. s = SubSeq(t, m, k)
      BY <2>1 DEF m, k
    <3>6. /\ s \in Seq(S) /\ Len(s) = k - m + 1
          /\ \A i \in 1..(k - m + 1) : s[i] = t[m + i - 1]
      BY <3>2, <3>4, <3>5, SubSeqProperties
    <3>7. \A i \in 1..w : s[i] = t[i + TrimBy]
      BY <3>3, <3>6
    <3> QED BY <3>3, <3>6, <3>7 DEF w

  <2>3. \A i \in 1..(n - TrimBy) : i + TrimBy \in 1..n /\ s[i] = list[i + TrimBy]
    BY <1>1, <1>2, <2>2, NumbersAreNat
  <2>4. s[n + 1 - TrimBy] = a
    BY <1>1, <1>2, <1>4, <2>2, NumbersAreNat
  <2>5. /\ Len(s) - 1 = n - TrimBy /\ Len(s) \in Nat \ {0}
    BY <1>2, <1>4, <2>2, NumbersAreNat
  <2>6. TrimBy \in {0, TrimBy} /\ n = Len(list) /\ s = Trim(Append(list, a))
    BY DEF n, s, t
  <2> QED BY <1>4, <2>2, <2>3, <2>4, <2>5, <2>6
<1>5. CASE n # StoreMax
  <2>1. s = t
    BY <1>1, <1>2, <1>5, NumbersAreNat DEF Trim, s
  <2>2. 0 # TrimBy /\ \A i \in 1..n : i + 0 = i
    BY NumbersAreNat
  <2>3. Len(s) = n + 1 - 0 /\ Len(s) - 1 = n /\ Len(s) \in Nat \ {0}
    BY <1>1, <1>2, <2>1
  <2>4. n = Len(list) /\ s = Trim(Append(list, a))
    BY DEF n, s, t
  <2> QED BY <1>1, <1>5, <2>1, <2>2, <2>3, <2>4
<1> QED BY <1>4, <1>5

-----------------------------------------------------------------------------
(* The store and the processes. *)

\* How many alerts each of the processes ps has had.
Counts(ps) == [pid \in DOMAIN ps |-> ps[pid].count]

\* Between an alert's number and its id are whole trims; so also between the
\* number of alerts posted and the length of the store.
StoreInv ==
    /\ posted \in 0..MaxAlerts
    /\ alerts \in Seq(Row)
    /\ StoreIsLatest
    /\ \E k \in Nat : posted = Len(alerts) + k * TrimBy
    /\ \A i \in 1..Len(alerts) :
          \E k \in Nat : alerts[i].n = alerts[i].id + k * TrimBy

ProcessInv ==
    /\ DOMAIN processes \subseteq Pids
    /\ \A pid \in DOMAIN processes : processes[pid] \in Entry
    /\ IsFiniteSet(DOMAIN processes)
    /\ config \in [learning_mode : BOOLEAN, suspicion_threshold : Int]

LEMMA StoreInit == Init => StoreInv /\ ProcessInv
<1> SUFFICES ASSUME Init PROVE StoreInv /\ ProcessInv
  OBVIOUS
<1>1. /\ alerts \in Seq(Row) /\ Len(alerts) = 0 /\ DOMAIN alerts = {}
      /\ DOMAIN processes = {} /\ posted = 0
  BY EmptySeq DEF Init
<1>2. DOMAIN Counts(processes) = {}
  BY <1>1 DEF Counts
<1>3. SumFunction(Counts(processes)) = 0
  BY <1>2, SumOfNone DEF SumFunction
<1>4. StoreIsLatest
  BY <1>1, <1>3, NumbersAreNat DEF StoreIsLatest, Counts
<1>5. posted = Len(alerts) + 0 * TrimBy
  BY <1>1, NumbersAreNat
<1>6. StoreInv
  BY <1>1, <1>4, <1>5, NumbersAreNat DEF StoreInv
<1>7. ProcessInv
  BY <1>1, FS_EmptySet DEF Init, ProcessInv
<1> QED BY <1>6, <1>7

\* The process an alert is about is counted one alert more, and judged.
LEMMA PostProcess ==
  ASSUME StoreInv, ProcessInv, NEW pid \in Pids, NEW score \in Scores,
         PostAlert(pid, score)
  PROVE  /\ ProcessInv'
         /\ DOMAIN processes' = DOMAIN processes \cup {pid}
         /\ SumFunction(Counts(processes')) = SumFunction(Counts(processes)) + 1
<1> DEFINE p == ProcessOf(pid)
           e == [p EXCEPT !.count = p.count + 1, !.score = p.score + score]
           f == Counts(processes)
           g == Counts(processes')
           S == DOMAIN processes
<1>1. /\ posted < MaxAlerts /\ config' = config
      /\ processes' = [q \in S \cup {pid} |->
                          IF q = pid THEN Judged(e) ELSE processes[q]]
  BY DEF PostAlert
<1>2. /\ p \in [count : 0..MaxAlerts, score : Int,
                state : {"learning", "baseline", "anomalous"}]
      /\ pid \in S => p = processes[pid]
      /\ pid \notin S => p.count = 0
  BY NumbersAreNat DEF ProcessOf, ProcessInv, Entry
<1>3. posted = SumFunction(f)
  BY DEF StoreInv, StoreIsLatest, Counts
<1>4. /\ DOMAIN f = S /\ \A q \in S : f[q] = processes[q].count
      /\ IsFiniteSet(S) /\ \A q \in S : f[q] \in Nat
  BY NumbersAreNat DEF Counts, ProcessInv, Entry
<1>5. posted = SumFunctionOnSet(f, S)
  BY <1>3, <1>4 DEF SumFunction
<1> HIDE DEF f
<1>6. /\ \A q \in S : f[q] <= posted
      /\ SumFunctionOnSet(f, S) \in Nat
  BY <1>4, <1>5, SumOfNats
<1>7. p.count < MaxAlerts
  <2>1. pid \in S => p.count <= posted
    BY <1>2, <1>4, <1>6
  <2> QED BY <1>1, <1>2, <2>1, NumbersAreNat DEF StoreInv
<1> HIDE DEF p
<1>8. p.count + 1 \in 1..MaxAlerts /\ p.score + score \in Int
  BY <1>2, <1>7, ApiAssumption, NumbersAreNat
<1>9. e \in Entry /\ e.count = p.count + 1
  <2>1. \A n \in 1..MaxAlerts, w \in Int :
           /\ [p EXCEPT !.count = n, !.score = w] \in Entry
           /\ [p EXCEPT !.count = n, !.score = w].count = n
    BY <1>2 DEF Entry
  <2> QED BY <1>8, <2>1

<1> HIDE DEF e
<1>10. Judged(e) \in Entry /\ Judged(e).count = p.count + 1
  BY <1>9 DEF Judged, Entry
<1>11. /\ DOMAIN processes' = S \cup {pid} /\ processes'[pid] = Judged(e)
       /\ \A q \in S : q # pid => processes'[q] = processes[q]
  BY <1>1
<1>12. IsFiniteSet(S \cup {pid})
  BY <1>4, FS_AddElement
<1>13. ProcessInv'
  BY <1>1, <1>10, <1>11, <1>12 DEF ProcessInv
<1>14. /\ DOMAIN g = S \cup {pid} /\ g[pid] = p.count + 1
       /\ \A q \in S \ {pid} : g[q] = f[q]
  BY <1>4, <1>10, <1>11 DEF Counts
<1> HIDE DEF g
<1>15. SumFunction(g) = SumFunctionOnSet(g, S \cup {pid})
  BY <1>14 DEF SumFunction
<1>16. p.count \in Nat
  BY <1>2, NumbersAreNat
<1>17. SumFunction(g) = SumFunction(f) + 1
  <2> HIDE DEF S
  <2>1. CASE pid \in S
    <3>1. \A q \in S : f[q] \in Int /\ g[q] \in Int
      BY <1>4, <1>14, <1>16
    <3>2. SumFunctionOnSet(g, S) = SumFunctionOnSet(f, S) - f[pid] + g[pid]
      BY <1>4, <1>14, <2>1, <3>1, SumOfChanged
    <3>3. S \cup {pid} = S
      BY <2>1
    <3>4. SumFunction(g) = SumFunctionOnSet(g, S)
      BY <1>15, <3>3, Zenon
    <3>5. g[pid] = f[pid] + 1 /\ f[pid] \in Nat
      BY <1>2, <1>4, <1>14, <2>1
    <3> QED BY <1>3, <1>5, <1>6, <3>2, <3>4, <3>5
  <2>2. CASE pid \notin S
    <3>1. g[pid] = 1
      BY <1>2, <1>14, <2>2
    <3>2. \A q \in S : f[q] \in Int /\ f[q] = g[q]
      BY <1>4, <1>14, <2>2
    <3>3. SumFunctionOnSet(g, S \cup {pid}) = SumFunctionOnSet(f, S) + g[pid]
      BY <1>4, <2>2, <3>1, <3>2, SumOfExtended
    <3> QED BY <1>3, <1>5, <1>15, <3>1, <3>3
  <2> QED BY <2>1, <2>2
<1> QED BY <1>11, <1>13, <1>17 DEF f, g, S

\* The new alert is at the end of the store under the next number, and the
\* trim leaves no fewer alerts than StoreIsLatest says.
LEMMA PostStore ==
  ASSUME StoreInv, ProcessInv, NEW pid \in Pids, NEW score \in Scores,
         PostAlert(pid, score)
  PROVE  StoreInv'
<1> DEFINE a == [n |-> posted + 1, id |-> Len(alerts) + 1, pid |-> pid]
           m == Len(alerts)
           l == Len(alerts')
<1>1. /\ posted < MaxAlerts /\ posted' = posted + 1
      /\ alerts' = Trim(Append(alerts, a))
  BY DEF PostAlert, NextId
<1>2. /\ posted \in Nat /\ posted' \in 1..MaxAlerts /\ m \in Nat /\ m <= StoreMax
      /\ m >= (IF posted <= StoreMax THEN posted ELSE StoreMax + 1 - TrimBy)
  BY <1>1, LenProperties, NumbersAreNat DEF StoreInv, StoreIsLatest
<1>3. a \in Row
  BY <1>1, <1>2, NumbersAreNat DEF Row
<1>4. PICK cut \in {0, TrimBy} :
         /\ alerts' \in Seq(Row)
         /\ cut = TrimBy <=> m = StoreMax
         /\ l = m + 1 - cut /\ l \in Nat \ {0}
         /\ \A i \in 1..(l - 1) : i + cut \in 1..m /\ alerts'[i] = alerts[i + cut]
         /\ alerts'[l] = a
  BY <1>1, <1>2, <1>3, TrimFacts DEF StoreInv
<1>5. PICK k \in Nat : posted = m + k * TrimBy
  BY DEF StoreInv
<1>6. k * TrimBy \in Nat /\ m <= posted
  BY <1>2, <1>5, NumbersAreNat
<1>7. /\ DOMAIN alerts = 1..m /\ DOMAIN alerts' = 1..l
      /\ \A i \in 1..m : /\ alerts[i].n = posted - m + i
                         /\ alerts[i].pid \in DOMAIN processes
                         /\ \E j \in Nat : alerts[i].n = alerts[i].id + j * TrimBy
  BY <1>4, LenProperties DEF StoreInv, StoreIsLatest
<1>8. /\ DOMAIN processes' = DOMAIN processes \cup {pid}
      /\ SumFunction(Counts(processes')) = SumFunction(Counts(processes)) + 1
  BY PostProcess
<1>9. posted' = SumFunction(Counts(processes'))
  BY <1>1, <1>8 DEF StoreInv, StoreIsLatest, Counts
<1>10. /\ a.n = posted + 1 /\ a.id = m + 1 /\ a.pid = pid
  OBVIOUS
<1> HIDE DEF a, m, l
<1>11. \A i \in 1..l : i \in 1..(l - 1) \/ i = l
  BY <1>4
<1>12. ASSUME NEW i \in 1..l
       PROVE  /\ alerts'[i].n = posted' - l + i
              /\ alerts'[i].pid \in DOMAIN processes'
              /\ \E j \in Nat : alerts'[i].n = alerts'[i].id + j * TrimBy
  <2>1. CASE i \in 1..(l - 1)
    <3>1. i + cut \in 1..m /\ alerts'[i] = alerts[i + cut]
      BY <1>4, <2>1
    <3>2. posted - m + (i + cut) = posted' - l + i
      BY <1>1, <1>2, <1>4, NumbersAreNat
    <3> QED BY <1>7, <1>8, <3>1, <3>2
  <2>2. CASE i = l
    <3>1. posted + 1 = posted' - l + i
      BY <1>1, <1>2, <1>4, <2>2
    <3>2. posted + 1 = (m + 1) + k * TrimBy
      BY <1>2, <1>5, <1>6
    <3> QED BY <1>4, <1>8, <1>10, <2>2, <3>1, <3>2
  <2> QED BY <1>11, <2>1, <2>2
<1>13. l <= StoreMax
       /\ l >= (IF posted' <= StoreMax THEN posted' ELSE StoreMax + 1 - TrimBy)
  BY <1>1, <1>2, <1>4, <1>6, NumbersAreNat
<1>14. \E j \in Nat : posted' = l + j * TrimBy
  <2>1. CASE cut = 0
    <3>1. posted' = l + k * TrimBy
      BY <1>1, <1>2, <1>4, <1>5, <1>6, <2>1
    <3> QED BY <3>1
  <2>2. CASE cut = TrimBy
    <3>1. (k + 1) * TrimBy = k * TrimBy + TrimBy
      BY NumbersAreNat
    <3>2. posted' = l + (k + 1) * TrimBy
      BY <1>1, <1>2, <1>4, <1>5, <1>6, <2>2, <3>1, NumbersAreNat
    <3> QED BY <3>2
  <2> QED BY <2>1, <2>2
<1>15. StoreIsLatest'
  BY <1>7, <1>9, <1>12, <1>13 DEF StoreIsLatest, Counts, l
<1>16. posted' \in 0..MaxAlerts
  BY <1>2, NumbersAreNat
<1> QED BY <1>4, <1>12, <1>14, <1>15, <1>16 DEF StoreInv, l

LEMMA UpdateConfigType ==
  ASSUME ProcessInv, NEW u \in Updates, UpdateConfig(u)
  PROVE  ProcessInv'
<1>1. config' = [f \in {"learning_mode", "suspicion_threshold"} |->
                    IF f \in DOMAIN u THEN u[f] ELSE config[f]]
      /\ processes' = processes
  BY DEF UpdateConfig, ProcessInv, storeVars
<1>2. /\ "learning_mode" \in DOMAIN u => u["learning_mode"] \in BOOLEAN
      /\ "suspicion_threshold" \in DOMAIN u => u["suspicion_threshold"] \in Int
  BY ApiAssumption
<1>3. config' \in [learning_mode : BOOLEAN, suspicion_threshold : Int]
  BY <1>1, <1>2 DEF ProcessInv
<1> QED BY <1>1, <1>3 DEF ProcessInv

LEMMA StoreStep ==
  ASSUME StoreInv, ProcessInv, [Next]_vars
  PROVE  StoreInv' /\ ProcessInv'
<1>1. ASSUME NEW pid \in Pids, NEW score \in Scores, PostAlert(pid, score)
      PROVE  StoreInv' /\ ProcessInv'
  BY <1>1, PostStore, PostProcess
<1>2. ASSUME UNCHANGED storeVars
      PROVE  StoreInv'
  BY <1>2 DEF storeVars, StoreInv, StoreIsLatest
<1>3. ASSUME NEW u \in Updates, UpdateConfig(u)
      PROVE  StoreInv' /\ ProcessInv'
  BY <1>2, <1>3, UpdateConfigType DEF UpdateConfig
<1>4. CASE \/ \E c \in Streams : Subscribe(c) \/ Yield(c) \/ Disconnect(c) \/ Close(c)
           \/ UNCHANGED vars
  <2>1. UNCHANGED <<storeVars, config>>
    BY <1>4 DEF Subscribe, Yield, Disconnect, Close, vars
  <2>2. ProcessInv'
    BY <2>1 DEF storeVars, ProcessInv
  <2> QED BY <1>2, <2>1, <2>2
<1> QED BY <1>1, <1>3, <1>4 DEF Next

\* The inductive invariant of the store and of the processes: numbers and ids
\* differ by whole trims, and every alert posted was counted for its process.
THEOREM StoreInvariant == Spec => [](StoreInv /\ ProcessInv)
<1>1. StoreInv /\ ProcessInv /\ [Next]_vars => (StoreInv /\ ProcessInv)'
  BY StoreStep
<1> QED BY <1>1, StoreInit, PTL DEF Spec

\* The store holds the latest alerts, in order and without a gap, and the
\* processes account for every alert ever posted, whatever was trimmed.
THEOREM StoreKeepsLatest == Spec => []StoreIsLatest
<1>1. StoreInv /\ ProcessInv => StoreIsLatest
  BY DEF StoreInv
<1> QED BY <1>1, StoreInvariant, PTL

\* Ids repeat in the store only TrimBy places apart or more.
THEOREM IdsDiffer == Spec => []RecentIdsDiffer
<1>1. StoreInv => RecentIdsDiffer
  <2> SUFFICES ASSUME StoreInv, NEW i \in DOMAIN alerts, NEW j \in DOMAIN alerts,
                      i < j, j - i < TrimBy, alerts[i].id = alerts[j].id
               PROVE  FALSE
    BY DEF RecentIdsDiffer
  <2>1. DOMAIN alerts = 1..Len(alerts) /\ Len(alerts) \in Nat
    BY LenProperties DEF StoreInv
  <2>2. alerts[i] \in Row /\ posted \in Nat
    BY <2>1, ElementOfSeq, NumbersAreNat DEF StoreInv
  <2>3. alerts[i].id \in Int
    BY <2>2 DEF Row
  <2>4. alerts[j].n = alerts[i].n + (j - i) /\ alerts[i].n \in Int
    BY <2>1, <2>2 DEF StoreInv, StoreIsLatest
  <2>5. PICK k \in Nat : alerts[i].n = alerts[i].id + k * TrimBy
    BY <2>1 DEF StoreInv
  <2>6. PICK l \in Nat : alerts[j].n = alerts[j].id + l * TrimBy
    BY <2>1 DEF StoreInv
  <2>7. k * TrimBy \in Int /\ l * TrimBy \in Int
    BY NumbersAreNat
  <2>8. l * TrimBy - k * TrimBy = j - i
    BY <2>1, <2>3, <2>4, <2>5, <2>6, <2>7
  <2>9. l * TrimBy - k * TrimBy > 0 /\ l * TrimBy - k * TrimBy < TrimBy
    BY <2>1, <2>8
  <2>10. l <= k \/ l >= k + 1
    OBVIOUS
  <2>11. CASE l <= k
    <3>1. l * TrimBy <= k * TrimBy
      BY <2>11, NumbersAreNat
    <3> QED BY <2>7, <2>9, <3>1
  <2>12. CASE l >= k + 1
    <3>1. l * TrimBy >= (k + 1) * TrimBy
      BY <2>12, NumbersAreNat
    <3>2. (k + 1) * TrimBy = k * TrimBy + TrimBy
      BY NumbersAreNat
    <3> QED BY <2>7, <2>9, <3>1, <3>2, NumbersAreNat
  <2> QED BY <2>10, <2>11, <2>12
<1> QED BY <1>1, StoreInvariant, PTL

-----------------------------------------------------------------------------
(* The streams. *)

StreamType ==
    /\ stream \in [Streams -> {"off", "serving", "gone", "closed"}]
    /\ subscribers \subseteq {c \in Streams : stream[c] \in {"serving", "gone"}}
    /\ queue \in [Streams -> Seq(1..MaxAlerts)]
    /\ sent \in [Streams -> Seq(1..MaxAlerts)]
    /\ base \in [Streams -> 0..MaxAlerts]

\* What c was sent and has queued are numbered from base[c] + 1 on.
Contiguous(c) ==
    /\ Len(queue[c]) <= QueueCap
    /\ \A i \in 1..Len(sent[c]) : sent[c][i] = base[c] + i
    /\ \A i \in 1..Len(queue[c]) : queue[c][i] = base[c] + Len(sent[c]) + i
    /\ base[c] + Len(sent[c]) + Len(queue[c]) <= posted
    /\ c \in subscribers => base[c] + Len(sent[c]) + Len(queue[c]) = posted
    /\ stream[c] = "off" => queue[c] = << >> /\ sent[c] = << >>

StreamInv == StreamType /\ \A c \in Streams : Contiguous(c)

LEMMA StreamInit == Init => StreamInv
<1> SUFFICES ASSUME Init PROVE StreamInv
  OBVIOUS
<1>1. << >> \in Seq(1..MaxAlerts) /\ Len(<< >>) = 0
  BY EmptySeq
<1>2. StreamType
  BY <1>1, NumbersAreNat DEF Init, StreamType
<1>3. \A c \in Streams : Contiguous(c)
  BY <1>1, NumbersAreNat DEF Init, Contiguous
<1> QED BY <1>2, <1>3 DEF StreamInv

\* The lengths and numbers of a stream are natural numbers.
LEMMA StreamNats ==
  ASSUME StreamType, NEW c \in Streams
  PROVE  /\ queue[c] \in Seq(1..MaxAlerts) /\ Len(queue[c]) \in Nat
         /\ sent[c] \in Seq(1..MaxAlerts) /\ Len(sent[c]) \in Nat
         /\ base[c] \in Nat
<1>1. queue[c] \in Seq(1..MaxAlerts) /\ sent[c] \in Seq(1..MaxAlerts)
      /\ base[c] \in Nat
  BY NumbersAreNat DEF StreamType
<1> QED BY <1>1, LenProperties

\* An alert goes to every subscriber with room in its queue; the others leave
\* the list.
LEMMA PostStream ==
  ASSUME StreamInv, posted \in Nat,
         NEW pid \in Pids, NEW score \in Scores, PostAlert(pid, score)
  PROVE  StreamInv'
<1>1. /\ posted < MaxAlerts /\ posted' = posted + 1
      /\ queue' = [c \in Streams |-> IF c \in subscribers \ Full
                                     THEN Append(queue[c], posted + 1) ELSE queue[c]]
      /\ subscribers' = subscribers \ Full
      /\ UNCHANGED <<stream, sent, base>>
  BY DEF PostAlert, Broadcast
<1>2. StreamType
  BY DEF StreamInv
<1>3. posted + 1 \in 1..MaxAlerts
  BY <1>1, NumbersAreNat
<1>4. ASSUME NEW c \in Streams, c \in subscribers \ Full
      PROVE  /\ queue'[c] \in Seq(1..MaxAlerts)
             /\ Len(queue'[c]) = Len(queue[c]) + 1
             /\ \A i \in 1..Len(queue[c]) : queue'[c][i] = queue[c][i]
             /\ queue'[c][Len(queue[c]) + 1] = posted + 1
             /\ Len(queue[c]) < QueueCap
  <2>1. queue[c] \in Seq(1..MaxAlerts) /\ Len(queue[c]) \in Nat
    BY <1>2, StreamNats
  <2>2. queue'[c] = Append(queue[c], posted + 1)
    BY <1>1, <1>4
  <2>3. Len(queue[c]) < QueueCap
    BY <1>4, <2>1, NumbersAreNat DEF Full
  <2> QED BY <1>3, <2>1, <2>2, <2>3, AppendProperties
<1>5. StreamType'
  <2>1. \A c \in Streams : queue'[c] \in Seq(1..MaxAlerts)
    BY <1>1, <1>2, <1>4, StreamNats
  <2>2. queue' \in [Streams -> Seq(1..MaxAlerts)]
    BY <1>1, <2>1
  <2> QED BY <1>1, <1>2, <2>2 DEF StreamType
<1>6. ASSUME NEW c \in Streams PROVE Contiguous(c)'
  <2>1. /\ Contiguous(c) /\ Len(queue[c]) \in Nat /\ Len(sent[c]) \in Nat
        /\ base[c] \in Nat /\ queue[c] \in Seq(1..MaxAlerts)
    BY <1>2, StreamNats DEF StreamInv
  <2>2. CASE c \in subscribers \ Full
    <3> DEFINE q == queue[c]
               r == queue'[c]
               n == Len(q)
    <3>1. /\ Len(r) = n + 1 /\ n < QueueCap /\ r[n + 1] = posted + 1
          /\ \A i \in 1..n : r[i] = q[i]
      BY <1>4, <2>2
    <3>2. base[c] + Len(sent[c]) + n = posted /\ n \in Nat
      BY <2>1, <2>2 DEF Contiguous
    <3>3. \A i \in 1..n : q[i] = base[c] + Len(sent[c]) + i
      BY <2>1 DEF Contiguous
    <3>4. stream[c] # "off"
      BY <1>2, <2>2 DEF StreamType
    <3>5. \A i \in 1..Len(sent[c]) : sent[c][i] = base[c] + i
      BY <2>1 DEF Contiguous
    <3> HIDE DEF q, r, n
    <3>6. \A i \in 1..(n + 1) : r[i] = base[c] + Len(sent[c]) + i
      <4> SUFFICES ASSUME NEW i \in 1..(n + 1)
                   PROVE  r[i] = base[c] + Len(sent[c]) + i
        OBVIOUS
      <4>1. CASE i \in 1..n
        BY <3>1, <3>3, <4>1
      <4>2. CASE i = n + 1
        BY <2>1, <3>1, <3>2, <4>2
      <4> QED BY <3>2, <4>1, <4>2
    <3>7. base[c] + Len(sent[c]) + (n + 1) = posted + 1
      <4>1. \A b, k, l \in Int : b + k + (l + 1) = (b + k + l) + 1
        OBVIOUS
      <4>2. base[c] \in Int /\ Len(sent[c]) \in Int /\ n \in Int
        BY <2>1, <3>2
      <4> QED BY <3>2, <4>1, <4>2
    <3>8. n + 1 <= QueueCap
      BY <3>1, <3>2, NumbersAreNat
    <3> QED BY <1>1, <3>1, <3>4, <3>5, <3>6, <3>7, <3>8 DEF Contiguous, r
  <2>3. CASE c \notin subscribers \ Full
    <3>1. queue'[c] = queue[c] /\ c \notin subscribers'
      BY <1>1, <2>3
    <3> QED BY <1>1, <2>1, <3>1 DEF Contiguous
  <2> QED BY <2>2, <2>3
<1> QED BY <1>5, <1>6 DEF StreamInv

LEMMA SubscribeStream ==
  ASSUME StreamInv, posted \in 0..MaxAlerts, NEW c \in Streams, Subscribe(c)
  PROVE  StreamInv'
<1>1. /\ stream[c] = "off"
      /\ stream' = [stream EXCEPT ![c] = "serving"]
      /\ subscribers' = subscribers \cup {c}
      /\ base' = [base EXCEPT ![c] = posted]
      /\ UNCHANGED <<posted, queue, sent>>
  BY DEF Subscribe, storeVars
<1>2. StreamType'
  BY <1>1 DEF StreamInv, StreamType
<1>3. ASSUME NEW d \in Streams PROVE Contiguous(d)'
  <2>1. CASE d = c
    <3>1. queue[c] = << >> /\ sent[c] = << >> /\ Len(<< >>) = 0
      BY <1>1, EmptySeq DEF StreamInv, Contiguous
    <3>2. base'[c] = posted /\ stream'[c] = "serving" /\ posted \in Nat
      BY <1>1, NumbersAreNat DEF StreamInv, StreamType
    <3> QED BY <1>1, <2>1, <3>1, <3>2, NumbersAreNat DEF Contiguous
  <2>2. CASE d # c
    <3>1. base'[d] = base[d] /\ stream'[d] = stream[d]
          /\ (d \in subscribers' <=> d \in subscribers)
      BY <1>1, <2>2 DEF StreamInv, StreamType
    <3> QED BY <1>1, <3>1 DEF StreamInv, Contiguous
  <2> QED BY <2>1, <2>2
<1> QED BY <1>2, <1>3 DEF StreamInv

LEMMA YieldFacts ==
  ASSUME StreamInv, NEW c \in Streams, Yield(c)
  PROVE  /\ stream[c] = "serving"
         /\ sent' = [sent EXCEPT ![c] = Append(sent[c], Head(queue[c]))]
         /\ queue' = [queue EXCEPT ![c] = Tail(queue[c])]
         /\ UNCHANGED <<posted, subscribers, stream, base>>
         /\ Head(queue[c]) = base[c] + Len(sent[c]) + 1
         /\ Head(queue[c]) \in 1..MaxAlerts /\ Len(queue[c]) >= 1
<1>1. queue[c] \in Seq(1..MaxAlerts) /\ queue[c] # << >> /\ Len(queue[c]) \in Nat
  BY StreamNats DEF StreamInv, Yield
<1>2. Len(queue[c]) >= 1 /\ Head(queue[c]) = queue[c][1]
  BY <1>1, EmptySeq
<1>3. Head(queue[c]) \in 1..MaxAlerts
  BY <1>1, HeadTailProperties
<1>4. queue[c][1] = base[c] + Len(sent[c]) + 1
  BY <1>1, <1>2 DEF StreamInv, Contiguous
<1> QED BY <1>2, <1>3, <1>4 DEF Yield, storeVars

LEMMA YieldStream ==
  ASSUME StreamInv, NEW c \in Streams, Yield(c)
  PROVE  StreamInv'
<1> DEFINE q == queue[c]
           s == sent[c]
           n == Len(q)
           k == Len(s)
<1>1. /\ stream[c] = "serving"
      /\ sent' = [sent EXCEPT ![c] = Append(s, Head(q))]
      /\ queue' = [queue EXCEPT ![c] = Tail(q)]
      /\ UNCHANGED <<posted, subscribers, stream, base>>
      /\ Head(q) = base[c] + k + 1
      /\ Head(q) \in 1..MaxAlerts /\ n >= 1
  BY YieldFacts
<1>2. q \in Seq(1..MaxAlerts) /\ s \in Seq(1..MaxAlerts) /\ n \in Nat /\ k \in Nat
      /\ base[c] \in Nat /\ q # << >>
  BY StreamNats DEF StreamInv, Yield
<1> HIDE DEF q, s
<1>3. /\ Tail(q) \in Seq(1..MaxAlerts) /\ Len(Tail(q)) = n - 1
      /\ \A i \in 1..(n - 1) : Tail(q)[i] = q[i + 1]
  BY <1>2, HeadTailProperties
<1>4. /\ Append(s, Head(q)) \in Seq(1..MaxAlerts)
      /\ Len(Append(s, Head(q))) = k + 1
      /\ \A i \in 1..k : Append(s, Head(q))[i] = s[i]
      /\ Append(s, Head(q))[k + 1] = Head(q)
  BY <1>1, <1>2, AppendProperties
<1>5. StreamType'
  BY <1>1, <1>3, <1>4 DEF StreamInv, StreamType
<1>6. /\ sent'[c] = Append(s, Head(q)) /\ queue'[c] = Tail(q)
      /\ \A d \in Streams : d # c => sent'[d] = sent[d] /\ queue'[d] = queue[d]
  BY <1>1 DEF StreamInv, StreamType
<1>7. n \in Int /\ k \in Int /\ base[c] \in Int
  BY <1>2
<1>8. Contiguous(c)'
  <2>1. /\ n <= QueueCap
        /\ \A i \in 1..k : s[i] = base[c] + i
        /\ \A i \in 1..n : q[i] = base[c] + k + i
        /\ base[c] + k + n <= posted
        /\ c \in subscribers => base[c] + k + n = posted
    BY DEF StreamInv, Contiguous, q, s
  <2> DEFINE t == Append(s, Head(q))
             r == Tail(q)
  <2> HIDE DEF k, n
  <2>2. \A i \in 1..(k + 1) : t[i] = base[c] + i
    <3> SUFFICES ASSUME NEW i \in 1..(k + 1) PROVE t[i] = base[c] + i
      OBVIOUS
    <3>1. CASE i \in 1..k
      BY <1>4, <2>1, <3>1
    <3>2. CASE i = k + 1
      <4>1. t[i] = base[c] + k + 1
        BY <1>1, <1>4, <3>2
      <4> HIDE DEF t
      <4> QED BY <1>7, <3>2, <4>1
    <3>3. i \in 1..k \/ i = k + 1
      BY <1>7
    <3> QED BY <3>1, <3>2, <3>3
  <2>3. \A i \in 1..(n - 1) : r[i] = base[c] + (k + 1) + i
    <3> SUFFICES ASSUME NEW i \in 1..(n - 1) PROVE r[i] = base[c] + (k + 1) + i
      OBVIOUS
    <3>1. r[i] = q[i + 1]
      BY <1>3
    <3>2. i + 1 \in 1..n /\ i \in Int
      BY <1>7
    <3>3. r[i] = base[c] + k + (i + 1)
      BY <2>1, <3>1, <3>2
    <3> HIDE DEF r
    <3> QED BY <1>7, <3>2, <3>3
  <2>4. base[c] + (k + 1) + (n - 1) = base[c] + k + n /\ n - 1 <= QueueCap
    BY <1>7, <2>1, NumbersAreNat
  <2> HIDE DEF t, r
  <2>5. /\ sent'[c] = t /\ queue'[c] = r /\ Len(t) = k + 1 /\ Len(r) = n - 1
    BY <1>3, <1>4, <1>6 DEF t, r, k, n
  <2> QED BY <1>1, <2>1, <2>2, <2>3, <2>4, <2>5 DEF Contiguous
<1>9. ASSUME NEW d \in Streams, d # c PROVE Contiguous(d)'
  BY <1>1, <1>6, <1>9 DEF StreamInv, Contiguous
<1> QED BY <1>5, <1>8, <1>9 DEF StreamInv

LEMMA LeaveStream ==
  ASSUME StreamInv, NEW c \in Streams, Disconnect(c) \/ Close(c)
  PROVE  StreamInv'
<1>1. /\ stream[c] \in {"serving", "gone"}
      /\ \/ stream' = [stream EXCEPT ![c] = "gone"] /\ subscribers' = subscribers
         \/ stream' = [stream EXCEPT ![c] = "closed"]
            /\ subscribers' = subscribers \ {c}
      /\ UNCHANGED <<posted, queue, sent, base>>
  BY DEF Disconnect, Close, storeVars
<1>2. StreamType'
  BY <1>1 DEF StreamInv, StreamType
<1>3. \A d \in Streams : stream'[d] = "off" => stream[d] = "off"
  BY <1>1 DEF StreamInv, StreamType
<1>4. subscribers' \subseteq subscribers
  BY <1>1
<1>5. \A d \in Streams : Contiguous(d)'
  BY <1>1, <1>3, <1>4 DEF StreamInv, Contiguous
<1> QED BY <1>2, <1>5 DEF StreamInv

LEMMA StreamStep ==
  ASSUME StreamInv, posted \in 0..MaxAlerts, [Next]_vars
  PROVE  StreamInv'
<1>1. ASSUME NEW pid \in Pids, NEW score \in Scores, PostAlert(pid, score)
      PROVE  StreamInv'
  BY <1>1, PostStream, NumbersAreNat
<1>2. ASSUME NEW c \in Streams, Subscribe(c) \/ Yield(c) \/ Disconnect(c) \/ Close(c)
      PROVE  StreamInv'
  BY <1>2, SubscribeStream, YieldStream, LeaveStream
<1>3. CASE (\E u \in Updates : UpdateConfig(u)) \/ UNCHANGED vars
  <2>1. UNCHANGED <<posted, subscribers, stream, queue, sent, base>>
    BY <1>3 DEF UpdateConfig, vars, storeVars, streamVars
  <2> QED BY <2>1 DEF StreamInv, StreamType, Contiguous
<1> QED BY <1>1, <1>2, <1>3 DEF Next

ApiInv == StoreInv /\ ProcessInv /\ StreamInv

\* The inductive invariant of the alert server.
THEOREM ApiInvariant == Spec => []ApiInv
<1>1. Init => ApiInv
  BY StoreInit, StreamInit DEF ApiInv
<1>2. ApiInv /\ [Next]_vars => ApiInv'
  BY StoreStep, StreamStep DEF ApiInv, StoreInv
<1> QED BY <1>1, <1>2, PTL DEF Spec

\* The handlers keep every variable in its type; only open streams are on the
\* list of subscribers, and no queue is longer than its bound.
THEOREM ApiTypeCorrect == Spec => []TypeOK
<1>1. ApiInv => TypeOK
  BY DEF ApiInv, StoreInv, ProcessInv, StreamInv, StreamType, Contiguous, TypeOK,
         Row, Entry
<1> QED BY <1>1, ApiInvariant, PTL

\* A stream never misses, repeats or reorders an alert while it is on the list.
THEOREM StreamsAreContiguous == Spec => []StreamIsContiguous
<1>1. ApiInv => StreamIsContiguous
  <2> SUFFICES ASSUME ApiInv, NEW c \in Streams
               PROVE  /\ \A i \in DOMAIN Pipeline(c) : Pipeline(c)[i] = base[c] + i
                      /\ c \in subscribers => base[c] + Len(Pipeline(c)) = posted
    BY DEF StreamIsContiguous
  <2> DEFINE s == sent[c]
             q == queue[c]
             k == Len(s)
             n == Len(q)
  <2>1. /\ s \in Seq(1..MaxAlerts) /\ q \in Seq(1..MaxAlerts)
        /\ k \in Nat /\ n \in Nat /\ base[c] \in Nat
    BY StreamNats DEF ApiInv, StreamInv
  <2>2. /\ \A i \in 1..k : s[i] = base[c] + i
        /\ \A i \in 1..n : q[i] = base[c] + k + i
        /\ c \in subscribers => base[c] + k + n = posted
    BY DEF ApiInv, StreamInv, Contiguous
  <2>3. Pipeline(c) = s \o q
    BY DEF Pipeline
  <2> HIDE DEF s, q
  <2>4. /\ s \o q \in Seq(1..MaxAlerts) /\ Len(s \o q) = k + n
        /\ \A i \in 1..(k + n) : (s \o q)[i] = IF i <= k THEN s[i] ELSE q[i - k]
    BY <2>1, ConcatProperties
  <2>5. DOMAIN (s \o q) = 1..(k + n)
    BY <2>4, LenProperties
  <2> HIDE DEF k, n
  <2>6. ASSUME NEW i \in 1..(k + n) PROVE (s \o q)[i] = base[c] + i
    <3>1. CASE i <= k
      <4>1. i \in 1..k
        BY <2>1, <3>1
      <4> QED BY <2>2, <2>4, <3>1, <4>1
    <3>2. CASE i > k
      <4>1. i - k \in 1..n /\ ~(i <= k)
        BY <2>1, <3>2
      <4>2. (s \o q)[i] = base[c] + k + (i - k)
        BY <2>2, <2>4, <4>1
      <4> QED BY <2>1, <4>2
    <3>3. i \in Int /\ k \in Int
      BY <2>1
    <3>4. i <= k \/ i > k
      BY <3>3
    <3> QED BY <3>1, <3>2, <3>4
  <2>7.
 base[c] + (k + n) = base[c] + k + n
    BY <2>1
  <2> QED BY <2>2, <2>3, <2>4, <2>5, <2>6, <2>7
<1> QED BY <1>1, ApiInvariant, PTL

\* A stream loses its place for its own slowness or at its client's leaving,
\* never for another's.
THEOREM LateAreDropped == Spec => OnlyLateAreDropped
<1> DEFINE Dropped == \A c \in subscribers \ subscribers' :
                         stream[c] = "gone" \/ Len(queue[c]) = QueueCap
<1>1. ApiInv /\ [Next]_vars => Dropped
  <2> SUFFICES ASSUME ApiInv, [Next]_vars, NEW c \in subscribers, c \notin subscribers'
               PROVE  stream[c] = "gone" \/ Len(queue[c]) = QueueCap
    OBVIOUS
  <2>1. c \in Streams /\ Len(queue[c]) \in Nat /\ Len(queue[c]) <= QueueCap
    BY StreamNats DEF ApiInv, StreamInv, StreamType, Contiguous
  <2>2. ASSUME NEW pid \in Pids, NEW score \in Scores, PostAlert(pid, score)
        PROVE  Len(queue[c]) = QueueCap
    <3>1. c \in Full
      BY <2>2 DEF PostAlert, Broadcast
    <3> QED BY <2>1, <3>1, NumbersAreNat DEF Full
  <2>3. ASSUME NEW d \in Streams, Close(d) PROVE stream[c] = "gone"
    BY <2>3 DEF Close
  <2>4. CASE \/ \E u \in Updates : UpdateConfig(u)
             \/ \E d \in Streams : Subscribe(d) \/ Yield(d) \/ Disconnect(d)
             \/ UNCHANGED vars
    BY <2>4 DEF UpdateConfig, Subscribe, Yield, Disconnect, vars, streamVars
  <2> QED BY <2>2, <2>3, <2>4 DEF Next
<1>2. Dropped => [Dropped]_vars
  OBVIOUS
<1> QED BY <1>1, <1>2, ApiInvariant, PTL DEF Spec, OnlyLateAreDropped

-----------------------------------------------------------------------------
(* The feed. *)

phases == [c \in Streams |-> Phase(c)]

\* What is yielded was posted after the stream subscribed and after all that
\* was yielded before.
LEMMA YieldShows ==
  ASSUME StreamInv, posted \in Nat, NEW c \in Streams, Yield(c)
  PROVE  Feed!Show(c)
<1> DEFINE n == Head(queue[c])
<1>1. /\ stream[c] = "serving"
      /\ sent' = [sent EXCEPT ![c] = Append(sent[c], n)]
      /\ UNCHANGED <<posted, stream, base>>
      /\ n = base[c] + Len(sent[c]) + 1 /\ Len(queue[c]) >= 1
  BY YieldFacts
<1>2. /\ base[c] \in Nat /\ Len(sent[c]) \in Nat /\ Len(queue[c]) \in Nat
      /\ sent[c] \in Seq(1..MaxAlerts)
  BY StreamNats DEF StreamInv
<1>3. /\ base[c] + Len(sent[c]) + Len(queue[c]) <= posted
      /\ \A i \in 1..Len(sent[c]) : sent[c][i] = base[c] + i
  BY DEF StreamInv, Contiguous
<1> HIDE DEF n
<1>4. n \in (base[c] + 1)..posted
  <2>1. \A b, k, l, p \in Nat :
           l >= 1 /\ b + k + l <= p => b + k + 1 \in (b + 1)..p
    OBVIOUS
  <2> QED BY <1>1, <1>2, <1>3, <2>1
<1>5. \A i \in DOMAIN sent[c] : sent[c][i] < n
  <2>1. DOMAIN sent[c] = 1..Len(sent[c])
    BY <1>2, LenProperties
  <2> SUFFICES ASSUME NEW i \in 1..Len(sent[c]) PROVE sent[c][i] < n
    BY <2>1
  <2>2. sent[c][i] = base[c] + i
    BY <1>3
  <2> QED BY <1>1, <1>2, <2>2
<1>6. phases[c] = "on" /\ phases' = phases
  BY <1>1 DEF phases, Phase
<1> QED BY <1>1, <1>4, <1>5, <1>6 DEF Feed!Show, phases

LEMMA FeedStep == ApiInv /\ [Next]_vars => [Feed!Next]_Feed!feedVars
<1> SUFFICES ASSUME ApiInv, [Next]_vars PROVE [Feed!Next]_Feed!feedVars
  OBVIOUS
<1>0. StreamInv /\ StreamType /\ posted \in Nat
  BY NumbersAreNat DEF ApiInv, StreamInv, StoreInv
<1>1. ASSUME NEW pid \in Pids, NEW score \in Scores, PostAlert(pid, score)
      PROVE  Feed!Publish
  <2>1. posted' = posted + 1 /\ UNCHANGED <<stream, sent, base>>
    BY <1>1 DEF PostAlert
  <2>2. phases' = phases
    BY <2>1 DEF phases, Phase
  <2> QED BY <2>1, <2>2 DEF Feed!Publish, phases
<1>2. ASSUME NEW c \in Streams, Subscribe(c) PROVE Feed!Subscribe(c)
  <2>1. /\ stream[c] = "off" /\ stream' = [stream EXCEPT ![c] = "serving"]
        /\ base' = [base EXCEPT ![c] = posted]
        /\ UNCHANGED <<posted, sent>>
    BY <1>2 DEF Subscribe, storeVars
  <2>2. phases[c] = "off"
    BY <2>1 DEF phases, Phase
  <2>3. phases' = [phases EXCEPT ![c] = "on"]
    BY <1>0, <2>1 DEF phases, Phase, StreamType
  <2> QED BY <2>1, <2>2, <2>3 DEF Feed!Subscribe, phases
<1>3. ASSUME NEW c \in Streams, Disconnect(c) PROVE Feed!Close(c)
  <2>1. /\ stream[c] = "serving" /\ stream' = [stream EXCEPT ![c] = "gone"]
        /\ UNCHANGED <<posted, sent, base>>
    BY <1>3 DEF Disconnect, storeVars
  <2>2. phases[c] = "on"
    BY <2>1 DEF phases, Phase
  <2>3. phases' = [phases EXCEPT ![c] = "closed"]
    BY <1>0, <2>1 DEF phases, Phase, StreamType
  <2> QED BY <2>1, <2>2, <2>3 DEF Feed!Close, phases
<1>4. CASE \/ \E c \in Streams : Close(c)
           \/ \E u \in Updates : UpdateConfig(u)
           \/ UNCHANGED vars
  <2>1. UNCHANGED <<posted, sent, base>>
    BY <1>4 DEF Close, UpdateConfig, vars, storeVars, streamVars
  <2>2. \A d \in Streams : Phase(d)' = Phase(d)
    BY <1>0, <1>4
       DEF Close, UpdateConfig, vars, storeVars, streamVars, Phase, StreamType
  <2>3. phases' = phases
    BY <2>2 DEF phases
  <2> QED BY <2>1, <2>3 DEF Feed!feedVars, phases
<1> QED BY <1>0, <1>1, <1>2, <1>3, <1>4, YieldShows DEF Next, Feed!Next

\* The Python server is a feed: what it streams is what a subscriber of either
\* server may rely on.
THEOREM ApiImplementsFeed == Spec => ImplementsFeed
<1>1. Init => Feed!Init
  <2> SUFFICES ASSUME Init PROVE Feed!Init
    OBVIOUS
  <2>1. phases = [c \in Streams |-> "off"]
    BY DEF Init, phases, Phase
  <2> QED BY <2>1 DEF Init, Feed!Init, phases
<1>2. ApiInv /\ [Next]_vars => [Feed!Next]_Feed!feedVars
  BY FeedStep
<1> QED BY <1>1, <1>2, ApiInvariant, PTL DEF Spec, ImplementsFeed, Feed!Spec
=============================================================================
