------------------------------ MODULE StatsView ------------------------------
(***************************************************************************)
(* What GET /api/v1/stats and GET /api/v1/processes answer while the event *)
(* goroutine goes on (handleStats and handleProcesses of                   *)
(* loader/api_server.go, GetStats and GetProfiles of loader/engine.go).    *)
(*                                                                         *)
(* GetStats and GetProfiles hold e.mu, which Analyze holds throughout, but *)
(* GetProfiles answers pointers: the handlers read the profiles after they *)
(* have released it, while Analyze may be writing to them.  Such a read,   *)
(* a data race, finds what was there before Analyze or what is there now.  *)
(* Both are whole: a number is one word, and the two words of the string   *)
(* State are a length, which "learning" and "baseline" share, and a text.  *)
(***************************************************************************)
EXTENDS Loader

CONSTANTS
    StoreMax,      \* alerts the store holds before it is cut (10000 in the code)
    StoreKeep      \* the latest of them, kept by the cut (5000)

ASSUME StoreAssumption ==
    StoreMax \in Nat /\ StoreKeep \in 1..StoreMax

VARIABLES
    view,          \* what the handler is at, with what it has read so far
    kept,          \* len(s.alerts)
    start,         \* the profiles when the request came, the lengths since then
    prior          \* the profiles when Analyze took e.mu, while it has it

viewVars == <<view, kept, start, prior>>

\* Analyze is not running.
Unlocked == step \in {"idle", "return"}

NoView == [at |-> "no", left |-> {}, total |-> 0, alerts |-> 0,
           withAlerts |-> 0, rows |-> << >>, pid |-> None]
NoStart == [profiles |-> << >>, lengths |-> {}]

ViewInit ==
    /\ LoaderInit
    /\ view = NoView
    /\ kept = 0
    /\ start = NoStart
    /\ prior = << >>

\* What a read of the profile of pid without the lock may find.
Seen(pid) ==
    {profiles[pid]} \cup
    IF ~Unlocked /\ sample.pid = pid /\ pid \in DOMAIN prior THEN {prior[pid]} ELSE {}

Goes(from, to) == view.at = from /\ view' = [view EXCEPT !.at = to]

Request ==
    /\ Goes("no", "GetStats") \/ Goes("no", "GetRows")
    /\ start' = [profiles |-> profiles, lengths |-> {kept}]

-----------------------------------------------------------------------------
(* handleStats *)

\* Slip: only processes that have left learning are counted.
BaselineStats ==
    /\ view.at = "GetStats"
    /\ Unlocked
    /\ view' = [view EXCEPT !.at = "alerts", !.total =
          Cardinality({pid \in DOMAIN profiles : profiles[pid].state = "baseline"})]
    /\ UNCHANGED start

GetStats ==
    /\ view.at = "GetStats"
    /\ Unlocked
    /\ view' = [view EXCEPT !.at = "alerts", !.total = Cardinality(DOMAIN profiles)]
    /\ UNCHANGED start

\* "alertCount := len(s.alerts)", under s.mu.
CountAlerts ==
    /\ view.at = "alerts"
    /\ view' = [view EXCEPT !.at = "GetProfiles", !.alerts = kept]
    /\ UNCHANGED start

\* GetProfiles, for either handler.
GetProfiles ==
    /\ view.at \in {"GetProfiles", "GetRows"}
    /\ Unlocked
    /\ view' = [view EXCEPT !.at = IF @ = "GetProfiles" THEN "count" ELSE "rows",
                            !.left = DOMAIN profiles]
    /\ UNCHANGED start

\* "if len(p.Anomalies) > 0 { withAlerts++ }"
CountProfile(pid) ==
    /\ view.at = "count"
    /\ pid \in view.left
    /\ \E p \in Seen(pid) :
          view' = [view EXCEPT !.left = @ \ {pid},
              !.withAlerts = IF p.anomalies # << >> THEN @ + 1 ELSE @]
    /\ UNCHANGED start

-----------------------------------------------------------------------------
(* handleProcesses *)

\* The fields of a row that change, in the order they are read: exec_count,
\* network_conn_count, file_write_count, suspicion_score, state (0 for
\* "learning", 1 for "baseline") and anomaly_count.  last_seen, whose words may
\* be of two times, is left out.
Row(p) ==
    <<p.execCount, Len(p.connections), p.fileWriteCount, p.suspicionScore,
      IF p.state = "baseline" THEN 1 ELSE 0, Len(p.anomalies)>>

BeginRow(pid) ==
    /\ view.at = "rows"
    /\ pid \in view.left
    /\ view' = [view EXCEPT !.at = "row", !.left = @ \ {pid}, !.pid = pid,
              !.rows = [q \in DOMAIN @ \cup {pid} |->
                           IF q = pid THEN << >> ELSE view.rows[q]]]
    /\ UNCHANGED start

\* The next field is read; with the sixth the row is done.
ReadField ==
    LET i == Len(view.rows[view.pid]) + 1
    IN  /\ view.at = "row"
        /\ \E p \in Seen(view.pid) :
              view' = [view EXCEPT !.at = IF i = 6 THEN "rows" ELSE "row",
                                   !.pid = IF i = 6 THEN None ELSE @,
                                   !.rows[view.pid] = Append(@, Row(p)[i])]
        /\ UNCHANGED start

-----------------------------------------------------------------------------
\* Slip: the alerts are counted where the answer is put together.
AnswerLate ==
    /\ view.at \in {"count", "rows"} /\ view.left = {}
    /\ view' = [view EXCEPT !.at = IF @ = "count" THEN "stats" ELSE "processes",
                            !.alerts = kept]
    /\ UNCHANGED start

Answer ==
    /\ view.at \in {"count", "rows"} /\ view.left = {}
    /\ view' = [view EXCEPT !.at = IF @ = "count" THEN "stats" ELSE "processes"]
    /\ UNCHANGED start

\* The answer is sent; another request may come.
Done ==
    /\ view.at \in {"stats", "processes"}
    /\ view' = NoView
    /\ start' = NoStart

Handler ==
    \/ Request \/ GetStats \/ CountAlerts \/ GetProfiles
    \/ \E pid \in Pids : CountProfile(pid) \/ BeginRow(pid)
    \/ ReadField \/ Answer \/ Done

\* AddAlert, when the consumer has received an alert: append, and cut.
StoreAlert ==
    kept' = IF stored' = stored THEN kept
            ELSE IF kept + 1 > StoreMax THEN StoreKeep ELSE kept + 1

ViewNext ==
    \/ Handler /\ UNCHANGED <<allVars, kept, prior>>
    \/ /\ LoaderNext
       /\ UNCHANGED view
       /\ StoreAlert
       /\ start' = IF view.at = "no" THEN start
                   ELSE [start EXCEPT !.lengths = @ \cup {kept'}]
       /\ prior' = IF Unlocked' THEN << >> ELSE IF Unlocked THEN profiles ELSE prior

ViewSpec == ViewInit /\ [][ViewNext]_<<allVars, viewVars>>

-----------------------------------------------------------------------------
(* Properties. *)

Suspects(ps) == {pid \in DOMAIN ps : ps[pid].anomalies # << >>}

\* The figures are not of one moment, but none is made up or out of date.  The
\* alerts are as many as the store held at some moment of the request, though
\* a cut may have come between; each other figure modelled, in the statistics
\* or in a row, is between what it was when the request came and what it is at
\* the answer.
FiguresAreCurrent ==
    /\ view.at = "stats" =>
          /\ view.alerts \in start.lengths
          /\ view.total \in Cardinality(DOMAIN start.profiles)..Cardinality(DOMAIN profiles)
          /\ view.withAlerts \in
                Cardinality(Suspects(start.profiles))..Cardinality(Suspects(profiles))
    /\ view.at = "processes" =>
          /\ DOMAIN start.profiles \subseteq DOMAIN view.rows
          /\ \A pid \in DOMAIN start.profiles, i \in 1..6 :
                view.rows[pid][i] \in Row(start.profiles[pid])[i]..Row(profiles[pid])[i]

\* An anomaly is in its profile before its alert is stored, and the statistics
\* count the alerts before the profiles: an answer with alerts has a suspicious
\* process to show for them.
AlertsHaveSuspects ==
    view.at = "stats" /\ view.alerts > 0 => view.withAlerts > 0
=============================================================================
