--------------------------- MODULE DashboardProofs ---------------------------
(***************************************************************************)
(* Proofs about Dashboard: the rows of the page are in order whatever the  *)
(* order in which the answer to its load and the events of its successive  *)
(* connections are applied, for any limits and any number of connections.  *)
(***************************************************************************)
EXTENDS Dashboard, SequenceTheorems, TLAPS

-----------------------------------------------------------------------------
(* The inductive invariant. *)

PageRow == [id : Nat, via : {"event", "load"}]

\* The feed as a connection knows it.
FeedInv ==
    /\ published \in Nat
    /\ phase \in [Subscribers -> {"off", "on", "closed"}]
    /\ from \in [Subscribers -> Nat]
    /\ seen \in [Subscribers -> Seq(Nat)]
    /\ \A s, t \in Subscribers : phase[s] = "on" /\ phase[t] = "on" => s = t

\* The rows of the load come first, without a gap, and those of events rise.
Ordered(rows) ==
    \A i, j \in 1..Len(rows) : i < j =>
       /\ rows[i].via = rows[j].via => rows[i].id < rows[j].id
       /\ rows[j].via = "load" => /\ rows[i].via = "load"
                                  /\ rows[j].id = rows[i].id + (j - i)

\* A connection that is open has shown the rows of events that were published
\* after it subscribed.
EventRows ==
    \A i \in 1..Len(shown) : shown[i].via = "event" =>
       /\ shown[i].id <= published
       /\ \A s \in Subscribers : phase[s] = "on" =>
             \/ shown[i].id <= from[s]
             \/ \E k \in 1..Len(seen[s]) : seen[s][k] = shown[i].id

LoadInv ==
    /\ loaded \in Seq(Nat) /\ Len(loaded) <= FetchLimit
    /\ \A i, j \in 1..Len(loaded) : loaded[j] = loaded[i] + (j - i)

PageInv ==
    /\ shown \in Seq(PageRow)
    /\ Len(shown) <= ShownMax \/ Len(shown) <= FetchLimit
    /\ Ordered(shown)

DashboardInv == FeedInv /\ LoadInv /\ PageInv /\ EventRows

-----------------------------------------------------------------------------
(* Rows. *)

LEMMA LimitsAreNat == FetchLimit \in Nat /\ ShownMax \in Nat /\ ShownMax > 0
  BY DashboardAssumption

\* The latest rows are rows, in the order they had.
LEMMA LatestRows ==
  ASSUME NEW rows \in Seq(PageRow), NEW n \in Nat, n <= Len(rows), Ordered(rows)
  PROVE  /\ Latest(rows, n) \in Seq(PageRow) /\ Len(Latest(rows, n)) = n
         /\ Ordered(Latest(rows, n))
         /\ \A i \in 1..n : \E j \in 1..Len(rows) : Latest(rows, n)[i] = rows[j]
<1> DEFINE l == Len(rows)
           m == l - n + 1
           s == Latest(rows, n)
<1>1. l \in Nat
  BY LenProperties
<1> HIDE DEF l
<1>2. m \in Int /\ m >= 1 /\ l - m + 1 = n /\ (m <= l <=> n >= 1)
  BY <1>1 DEF l
<1>3. \A i \in m..l : rows[i] \in PageRow
  BY <1>1, <1>2, ElementOfSeq DEF l
<1>4. s = SubSeq(rows, m, l)
  BY DEF Latest, l
<1> HIDE DEF m, s
<1>5. /\ s \in Seq(PageRow) /\ Len(s) = n
      /\ \A i \in 1..n : s[i] = rows[m + i - 1]
  BY <1>1, <1>2, <1>3, <1>4, SubSeqProperties
<1>6. \A i \in 1..n : m + i - 1 \in 1..l
  BY <1>1, <1>2
<1>7. Ordered(s)
  <2> SUFFICES ASSUME NEW i \in 1..n, NEW j \in 1..n, i < j
               PROVE  /\ s[i].via = s[j].via => s[i].id < s[j].id
                      /\ s[j].via = "load" => /\ s[i].via = "load"
                                              /\ s[j].id = s[i].id + (j - i)
    BY <1>5 DEF Ordered
  <2> DEFINE a == m + i - 1
             b == m + j - 1
  <2>1. a \in 1..l /\ b \in 1..l /\ a < b /\ b - a = j - i
    BY <1>1, <1>2, <1>6
  <2>2. s[i] = rows[a] /\ s[j] = rows[b]
    BY <1>5
  <2> HIDE DEF a, b
  <2> QED BY <2>1, <2>2 DEF Ordered, l
<1> QED BY <1>5, <1>6, <1>7 DEF s, l

\* A row of an event later than those there is put after them.
LEMMA RowAppended ==
  ASSUME NEW rows \in Seq(PageRow), Ordered(rows), NEW id \in Nat,
         \A i \in 1..Len(rows) : rows[i].via = "event" => rows[i].id < id
  PROVE  Ordered(Append(rows, Row(id, "event")))
<1> DEFINE r == Row(id, "event")
           s == Append(rows, r)
           l == Len(rows)
<1>1. r \in PageRow /\ r.id = id /\ r.via = "event"
  BY DEF Row, PageRow
<1> HIDE DEF r
<1>2. l \in Nat /\ Len(s) = l + 1 /\ s[l + 1] = r /\ \A i \in 1..l : s[i] = rows[i]
  BY <1>1, LenProperties, AppendProperties
<1>3. \A i \in 1..l : rows[i] \in PageRow
  BY ElementOfSeq
<1> HIDE DEF s, l
<1>4. ASSUME NEW i \in 1..(l + 1), NEW j \in 1..(l + 1), i < j
      PROVE  /\ s[i].via = s[j].via => s[i].id < s[j].id
             /\ s[j].via = "load" => /\ s[i].via = "load"
                                     /\ s[j].id = s[i].id + (j - i)
  <2>1. i \in 1..l /\ s[i] = rows[i]
    BY <1>2, <1>4
  <2>2. CASE j \in 1..l
    BY <1>2, <1>4, <2>1, <2>2 DEF Ordered, l
  <2>3. CASE j = l + 1
    BY <1>1, <1>2, <2>1, <2>3 DEF l
  <2>4. j \in 1..l \/ j = l + 1
    BY <1>2
  <2> QED BY <2>2, <2>3, <2>4
<1> QED BY <1>2, <1>4 DEF Ordered, s, r

\* What WithAlert makes of the rows of a page.
LEMMA WithAlertRows ==
  ASSUME PageInv, NEW id \in Nat,
         \A i \in 1..Len(shown) : shown[i].via = "event" => shown[i].id < id
  PROVE  LET s == WithAlert(shown, Row(id, "event"))
         IN  /\ s \in Seq(PageRow) /\ Ordered(s)
             /\ Len(s) <= ShownMax
             /\ \A i \in 1..Len(s) :
                   \/ s[i] = Row(id, "event")
                   \/ \E j \in 1..Len(shown) : s[i] = shown[j]
<1> DEFINE rows == IF Len(shown) < ShownMax THEN shown ELSE Latest(shown, ShownMax - 1)
           r == Row(id, "event")
           s == Append(rows, r)
<1>1. Len(shown) \in Nat /\ shown \in Seq(PageRow) /\ Ordered(shown)
  BY LenProperties DEF PageInv
<1>2. /\ rows \in Seq(PageRow) /\ Ordered(rows) /\ Len(rows) + 1 <= ShownMax
      /\ \A i \in 1..Len(rows) : \E j \in 1..Len(shown) : rows[i] = shown[j]
  <2>1. CASE Len(shown) < ShownMax
    BY <1>1, <2>1, LimitsAreNat
  <2>2. CASE ~(Len(shown) < ShownMax)
    <3>1. ShownMax - 1 \in Nat /\ ShownMax - 1 <= Len(shown)
      BY <1>1, <2>2, LimitsAreNat
    <3> DEFINE n == ShownMax - 1
    <3>2. rows = Latest(shown, n) /\ n + 1 = ShownMax
      BY <2>2, LimitsAreNat
    <3> HIDE DEF n, rows
    <3>3. n \in Nat /\ n <= Len(shown)
      BY <3>1 DEF n
    <3>4. /\ rows \in Seq(PageRow) /\ Ordered(rows) /\ Len(rows) = n
          /\ \A i \in 1..n : \E j \in 1..Len(shown) : rows[i] = shown[j]
      BY <1>1, <3>2, <3>3, LatestRows
    <3> QED BY <3>2, <3>3, <3>4, LimitsAreNat
  <2> QED BY <2>1, <2>2
<1> HIDE DEF rows
<1>3. Ordered(s)
  <2>1. \A i \in 1..Len(rows) : rows[i].via = "event" => rows[i].id < id
    BY <1>2
  <2> QED BY <1>2, <2>1, RowAppended
<1>4. r \in PageRow
  BY DEF Row, PageRow
<1> HIDE DEF r
<1>5. /\ s \in Seq(PageRow) /\ Len(s) = Len(rows) + 1 /\ Len(rows) \in Nat
      /\ \A i \in 1..Len(rows) : s[i] = rows[i]
      /\ s[Len(rows) + 1] = r
  BY <1>2, <1>4, LenProperties, AppendProperties
<1>6. \A i \in 1..Len(s) : s[i] = r \/ \E j \in 1..Len(shown) : s[i] = shown[j]
  <2> HIDE DEF s
  <2> SUFFICES ASSUME NEW i \in 1..(Len(rows) + 1)
               PROVE  s[i] = r \/ \E j \in 1..Len(shown) : s[i] = shown[j]
    BY <1>5
  <2>1. i \in 1..Len(rows) \/ i = Len(rows) + 1
    BY <1>5
  <2> QED BY <1>2, <1>5, <2>1
<1>7. Len(s) <= ShownMax
  BY <1>2, <1>5
<1>8. WithAlert(shown, r) = s
  BY DEF WithAlert, rows
<1> QED BY <1>3, <1>5, <1>6, <1>7, <1>8 DEF r

-----------------------------------------------------------------------------
(* The steps of the page. *)

LEMMA DashboardStart == DashboardInit => DashboardInv
<1> SUFFICES ASSUME DashboardInit PROVE DashboardInv
  OBVIOUS
<1>1. /\ << >> \in Seq(Nat) /\ << >> \in Seq(PageRow) /\ Len(<< >>) = 0
  BY EmptySeq
<1>2. FeedInv
  BY <1>1 DEF DashboardInit, Init, FeedInv
<1>3. LoadInv /\ PageInv /\ EventRows
  BY <1>1, LimitsAreNat DEF DashboardInit, LoadInv, PageInv, EventRows, Ordered
<1> QED BY <1>2, <1>3 DEF DashboardInv

LEMMA ShownRows ==
  ASSUME PageInv
  PROVE  \A i \in 1..Len(shown) : shown[i] \in PageRow /\ shown[i].id \in Nat
<1>1. \A i \in 1..Len(shown) : shown[i] \in PageRow
  BY ElementOfSeq DEF PageInv
<1> QED BY <1>1 DEF PageRow

LEMMA PostStep ==
  ASSUME DashboardInv, Post
  PROVE  DashboardInv'
<1>1. /\ published' = published + 1 /\ published \in Nat
      /\ UNCHANGED <<phase, from, seen, shown, loaded>>
  BY DEF Post, Publish, pageVars, fetchVars, DashboardInv, FeedInv
<1>2. FeedInv' /\ LoadInv' /\ PageInv'
  BY <1>1 DEF DashboardInv, FeedInv, LoadInv, PageInv, Ordered
<1>3. \A i \in 1..Len(shown) : shown[i].id \in Nat
  BY ShownRows DEF DashboardInv
<1>4. EventRows'
  BY <1>1, <1>3 DEF DashboardInv, EventRows
<1> QED BY <1>2, <1>4 DEF DashboardInv

\* A connection starts where the feed is, beyond every row there is.
LEMMA ConnectStep ==
  ASSUME DashboardInv, NEW s \in Subscribers, Connect(s)
  PROVE  DashboardInv'
<1>1. /\ \A t \in Subscribers : phase[t] # "on"
      /\ phase' = [phase EXCEPT ![s] = "on"]
      /\ from' = [from EXCEPT ![s] = published]
      /\ UNCHANGED <<published, seen, shown, loaded>>
  BY DEF Connect, Subscribe, fetchVars
<1>2. FeedInv' /\ LoadInv' /\ PageInv'
  BY <1>1 DEF DashboardInv, FeedInv, LoadInv, PageInv, Ordered
<1>3. \A t \in Subscribers : phase'[t] = "on" => t = s
  BY <1>1 DEF DashboardInv, FeedInv
<1>4. from'[s] = published
  BY <1>1 DEF DashboardInv, FeedInv
<1>5. EventRows'
  BY <1>1, <1>3, <1>4 DEF DashboardInv, EventRows
<1> QED BY <1>2, <1>5 DEF DashboardInv

\* What is shown next is later than every row of an event, of this connection
\* or of one before it.
LEMMA HandleStep ==
  ASSUME DashboardInv, NEW s \in Subscribers, HandleEvent(s)
  PROVE  DashboardInv'
<1>1. PICK id \in (from[s] + 1)..published :
         /\ \A i \in DOMAIN seen[s] : seen[s][i] < id
         /\ seen' = [seen EXCEPT ![s] = Append(seen[s], id)]
  BY DEF HandleEvent, Show
<1>2. /\ phase[s] = "on" /\ UNCHANGED <<published, phase, from, loaded>>
      /\ shown' = WithAlert(shown, Row(Last(seen'[s]), "event")) \/ shown' = shown
  BY DEF HandleEvent, Show, fetchVars
<1>3. /\ published \in Nat /\ from[s] \in Nat /\ seen[s] \in Seq(Nat)
      /\ id \in Nat /\ from[s] < id /\ id <= published
  <2>1. published \in Nat /\ from[s] \in Nat /\ seen[s] \in Seq(Nat)
    BY DEF DashboardInv, FeedInv
  <2> QED BY <2>1
<1>4. /\ seen'[s] \in Seq(Nat) /\ Len(seen'[s]) = Len(seen[s]) + 1
      /\ Len(seen[s]) \in Nat /\ seen'[s][Len(seen[s]) + 1] = id
      /\ \A k \in 1..Len(seen[s]) : seen'[s][k] = seen[s][k]
  <2>1. seen'[s] = Append(seen[s], id)
    BY <1>1 DEF DashboardInv, FeedInv
  <2> QED BY <1>3, <2>1, AppendProperties, LenProperties
<1>5. Last(seen'[s]) = id
  BY <1>4 DEF Last
<1>6. FeedInv' /\ LoadInv'
  <2>1. seen' \in [Subscribers -> Seq(Nat)]
    BY <1>1, <1>4 DEF DashboardInv, FeedInv
  <2> QED BY <1>2, <2>1 DEF DashboardInv, FeedInv, LoadInv
<1>7. \A i \in 1..Len(shown) : shown[i] \in PageRow /\ shown[i].id \in Nat
  BY ShownRows DEF DashboardInv
<1>8. ASSUME NEW i \in 1..Len(shown), shown[i].via = "event" PROVE shown[i].id < id
  <2>1. shown[i].id <= from[s] \/ \E k \in 1..Len(seen[s]) : seen[s][k] = shown[i].id
    BY <1>2, <1>8 DEF DashboardInv, EventRows
  <2>2. DOMAIN seen[s] = 1..Len(seen[s])
    BY <1>3, LenProperties
  <2>3. CASE shown[i].id <= from[s]
    BY <1>3, <1>7, <2>3
  <2>4. CASE \E k \in 1..Len(seen[s]) : seen[s][k] = shown[i].id
    BY <1>1, <2>2, <2>4
  <2> QED BY <2>1, <2>3, <2>4
<1> DEFINE r == Row(id, "event")
<1>9. /\ PageInv'
      /\ \A i \in 1..Len(shown') :
            shown'[i] = r \/ \E j \in 1..Len(shown) : shown'[i] = shown[j]
  <2>1. CASE shown' = shown
    BY <2>1 DEF DashboardInv, PageInv, Ordered
  <2>2. CASE shown' = WithAlert(shown, r)
    <3>1. /\ shown' \in Seq(PageRow) /\ Ordered(shown') /\ Len(shown') <= ShownMax
          /\ \A i \in 1..Len(shown') :
                shown'[i] = r \/ \E j \in 1..Len(shown) : shown'[i] = shown[j]
      BY <1>3, <1>8, <2>2, WithAlertRows DEF DashboardInv
    <3> QED BY <3>1 DEF PageInv, Ordered
  <2> QED BY <1>2, <1>5, <2>1, <2>2
<1>10. ASSUME NEW t \in Subscribers, phase[t] = "on"
       PROVE  t = s /\ from'[t] = from[s]
  BY <1>2, <1>10 DEF DashboardInv, FeedInv
<1>11. EventRows'
  <2> SUFFICES ASSUME NEW i \in 1..Len(shown'), shown'[i].via = "event"
               PROVE  /\ shown'[i].id <= published
                      /\ \A t \in Subscribers : phase[t] = "on" =>
                            \/ shown'[i].id <= from'[t]
                            \/ \E k \in 1..Len(seen'[t]) : seen'[t][k] = shown'[i].id
    BY <1>2 DEF EventRows
  <2>1. CASE shown'[i] = r
    <3>1. shown'[i].id = id
      BY <2>1 DEF Row
    <3>2. Len(seen[s]) + 1 \in 1..Len(seen'[s])
      BY <1>4
    <3> QED BY <1>3, <1>4, <1>10, <3>1, <3>2
  <2>2. ASSUME NEW j \in 1..Len(shown), shown'[i] = shown[j]
        PROVE  /\ shown'[i].id <= published
               /\ \A t \in Subscribers : phase[t] = "on" =>
                     \/ shown'[i].id <= from'[t]
                     \/ \E k \in 1..Len(seen'[t]) : seen'[t][k] = shown'[i].id
    <3>1. /\ shown[j].id <= published
          /\ \/ shown[j].id <= from[s]
             \/ \E k \in 1..Len(seen[s]) : seen[s][k] = shown[j].id
      BY <1>2, <2>2 DEF DashboardInv, EventRows
    <3>2. \A k \in 1..Len(seen[s]) : k \in 1..Len(seen'[s])
      BY <1>4
    <3> QED BY <1>4, <1>10, <2>2, <3>1, <3>2
  <2> QED BY <1>9, <2>1, <2>2
<1> QED BY <1>6, <1>9, <1>11 DEF DashboardInv

LEMMA BreakStep ==
  ASSUME DashboardInv, NEW s \in Subscribers, ConnectionBreaks(s)
  PROVE  DashboardInv'
<1>1. /\ phase' = [phase EXCEPT ![s] = "closed"]
      /\ UNCHANGED <<published, from, seen, shown, loaded>>
  BY DEF ConnectionBreaks, Close, fetchVars
<1>2. \A t \in Subscribers : phase'[t] = "on" => phase[t] = "on"
  BY <1>1 DEF DashboardInv, FeedInv
<1>3. FeedInv' /\ LoadInv' /\ PageInv'
  BY <1>1 DEF DashboardInv, FeedInv, LoadInv, PageInv, Ordered
<1>4. EventRows'
  BY <1>1, <1>2 DEF DashboardInv, EventRows
<1> QED BY <1>3, <1>4 DEF DashboardInv

\* The answer to the load is the latest alerts there are.
LEMMA AnsweredStep ==
  ASSUME DashboardInv, LoadAnswered
  PROVE  DashboardInv'
<1> DEFINE first == IF published > FetchLimit THEN published - FetchLimit ELSE 0
           n == published - first
<1>1. /\ loaded' = [i \in 1..n |-> first + i]
      /\ UNCHANGED <<published, phase, from, seen, shown>>
  BY DEF LoadAnswered, feedVars, pageVars
<1>2. n \in Nat /\ first \in Nat /\ n <= FetchLimit
  BY LimitsAreNat DEF DashboardInv, FeedInv
<1> HIDE DEF first, n
<1>3. loaded' \in [1..n -> Nat]
  BY <1>1, <1>2
<1>4. loaded' \in Seq(Nat) /\ Len(loaded') = n
  <2>1. loaded' \in Seq(Nat)
    BY <1>2, <1>3, SeqDef
  <2>2. DOMAIN loaded' = 1..n /\ DOMAIN loaded' = 1..Len(loaded') /\ Len(loaded') \in Nat
    BY <1>3, <2>1, LenProperties
  <2>3. Len(loaded') = n
    BY <1>2, <2>2
  <2> QED BY <2>1, <2>3
<1>5. LoadInv'
  BY <1>1, <1>2, <1>4 DEF LoadInv
<1>6. FeedInv' /\ PageInv' /\ EventRows'
  BY <1>1 DEF DashboardInv, FeedInv, PageInv, Ordered, EventRows
<1> QED BY <1>5, <1>6 DEF DashboardInv

LEMMA AppliedStep ==
  ASSUME DashboardInv, LoadApplied
  PROVE  DashboardInv'
<1> DEFINE n == Len(loaded)
<1>1. /\ shown' = [i \in DOMAIN loaded |-> Row(loaded[i], "load")]
      /\ loaded' = << >>
      /\ UNCHANGED <<published, phase, from, seen>>
  BY DEF LoadApplied, feedVars
<1>2. /\ n \in Nat /\ DOMAIN loaded = 1..n /\ n <= FetchLimit
      /\ \A i \in 1..n : loaded[i] \in Nat
      /\ \A i, j \in 1..n : loaded[j] = loaded[i] + (j - i)
  BY LenProperties, ElementOfSeq DEF DashboardInv, LoadInv
<1> HIDE DEF n
<1>3. \A i \in 1..n : shown'[i] = Row(loaded[i], "load")
  BY <1>1, <1>2
<1>4. \A i \in 1..n : /\ shown'[i] \in PageRow
                      /\ shown'[i].id = loaded[i] /\ shown'[i].via = "load"
  <2>1. \A id \in Nat : /\ Row(id, "load") \in PageRow
                        /\ Row(id, "load").id = id /\ Row(id, "load").via = "load"
    BY DEF Row, PageRow
  <2> QED BY <1>2, <1>3, <2>1
<1>5. shown' \in Seq(PageRow) /\ Len(shown') = n
  <2>1. shown' \in [1..n -> PageRow]
    BY <1>1, <1>2, <1>4
  <2>2. shown' \in Seq(PageRow)
    BY <1>2, <2>1, SeqDef
  <2>3. DOMAIN shown' = 1..n /\ DOMAIN shown' = 1..Len(shown') /\ Len(shown') \in Nat
    BY <2>1, <2>2, LenProperties
  <2>4. Len(shown') = n
    BY <1>2, <2>3
  <2> QED BY <2>2, <2>4
<1>6. Ordered(shown)'
  <2> SUFFICES ASSUME NEW i \in 1..n, NEW j \in 1..n, i < j
               PROVE  /\ shown'[i].via = shown'[j].via => shown'[i].id < shown'[j].id
                      /\ shown'[j].via = "load" =>
                            /\ shown'[i].via = "load"
                            /\ shown'[j].id = shown'[i].id + (j - i)
    BY <1>5 DEF Ordered
  <2>1. loaded[j] = loaded[i] + (j - i) /\ loaded[i] \in Nat /\ loaded[j] \in Nat
    BY <1>2
  <2>2. loaded[i] < loaded[j]
    BY <1>2, <2>1
  <2> QED BY <1>4, <2>1, <2>2
<1>7. PageInv' /\ EventRows'
  BY <1>2, <1>4, <1>5, <1>6 DEF PageInv, EventRows
<1>8. FeedInv' /\ LoadInv'
  BY <1>1, EmptySeq, LimitsAreNat DEF DashboardInv, FeedInv, LoadInv
<1> QED BY <1>7, <1>8 DEF DashboardInv

LEMMA DashboardStep == DashboardInv /\ [DashboardNext]_vars => DashboardInv'
<1> SUFFICES ASSUME DashboardInv, [DashboardNext]_vars PROVE DashboardInv'
  OBVIOUS
<1>1. ASSUME NEW s \in Subscribers,
             Connect(s) \/ HandleEvent(s) \/ ConnectionBreaks(s)
      PROVE  DashboardInv'
  BY <1>1, ConnectStep, HandleStep, BreakStep
<1>2. CASE LoadFails
  <2>1. loaded' = << >> /\ UNCHANGED <<published, phase, from, seen, shown>>
    BY <1>2 DEF LoadFails, feedVars, pageVars
  <2>2. LoadInv'
    BY <2>1, EmptySeq, LimitsAreNat DEF LoadInv
  <2> QED BY <2>1, <2>2 DEF DashboardInv, FeedInv, PageInv, Ordered, EventRows
<1>3. CASE \/ \E f \in Fetches :
                 StatsAsked(f) \/ StatsAnswered(f) \/ StatsApplied(f) \/ StatsFail(f)
           \/ UNCHANGED vars
  <2>1. UNCHANGED <<published, phase, from, seen, shown, loaded>>
    BY <1>3 DEF StatsAsked, StatsAnswered, StatsApplied, StatsFail, feedVars, pageVars,
                fetchVars, vars
  <2> QED BY <2>1 DEF DashboardInv, FeedInv, LoadInv, PageInv, Ordered, EventRows
<1> QED BY <1>1, <1>2, <1>3, PostStep, AnsweredStep, AppliedStep
        DEF DashboardNext, PageStep

\* The inductive invariant of the page.
THEOREM DashboardInvariant == DashboardSpec => []DashboardInv
  BY DashboardStart, DashboardStep, PTL DEF DashboardSpec

\* An alert is on the page at most twice, once as a row of the load and once as
\* one of the stream, and both kinds are in order.
THEOREM RowsStayOrdered == DashboardSpec => []RowsAreOrdered
<1>1. DashboardInv => RowsAreOrdered
  <2> SUFFICES ASSUME DashboardInv PROVE RowsAreOrdered
    OBVIOUS
  <2>1. DOMAIN shown = 1..Len(shown)
    BY LenProperties DEF DashboardInv, PageInv
  <2> QED BY <2>1 DEF RowsAreOrdered, DashboardInv, PageInv, Ordered
<1> QED BY <1>1, DashboardInvariant, PTL
=============================================================================
