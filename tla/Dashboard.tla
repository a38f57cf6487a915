------------------------------ MODULE Dashboard ------------------------------
(***************************************************************************)
(* The page of the dashboard (frontend/src/App.js) and the server it       *)
(* talks to, of which it sees a feed: AlertFeed, what both servers         *)
(* implement.  The page fetches the alerts once and the statistics again   *)
(* and again, and listens to the stream; the answers to its fetches and    *)
(* the events of the stream come over different connections, so in any     *)
(* order.  A connection of its EventSource is a subscriber of the feed;    *)
(* the browser opens the next one when a connection breaks.                *)
(*                                                                         *)
(* An event is sent by the server and handled by the page in one step: one *)
(* on its way is one the server has not sent.                              *)
(***************************************************************************)
EXTENDS AlertFeed, FiniteSets, SequencesExt

CONSTANTS
    Fetches,       \* requests of the statistics that may be open at a time
    FetchLimit,    \* alerts a GET of /api/v1/alerts answers (Python 200, Go 100)
    ShownMax,      \* rows the page keeps (300)
    MaxAlerts      \* bound: alerts published; fewer than a server trims at

ASSUME DashboardAssumption ==
    /\ {FetchLimit, ShownMax, MaxAlerts} \subseteq Nat
    /\ ShownMax > 0
    /\ Subscribers \subseteq Nat

VARIABLES
    named,         \* the server names its events "alert", as one of the two does
    shown,         \* alerts: the rows of the page, each with its source
    total,         \* stats.alerts.total
    connected,     \* the page says LIVE
    load,          \* where the fetch of the alerts is
    loaded,        \* its answer, until it is applied
    fetch,         \* where each fetch of the statistics is
    answer         \* its answer, until it is applied

pageVars == <<shown, total, connected>>
fetchVars == <<load, loaded, fetch, answer>>
vars == <<named, feedVars, pageVars, fetchVars>>

DashboardInit ==
    /\ Init
    /\ named \in BOOLEAN
    /\ shown = << >>
    /\ total = 0
    /\ connected = FALSE
    /\ load = "asked"
    /\ loaded = << >>
    /\ fetch = [f \in Fetches |-> "no"]
    /\ answer = [f \in Fetches |-> 0]

Row(id, via) == [id |-> id, via |-> via]

\* The last n members of a sequence: slice(-n).
Latest(s, n) == SubSeq(s, Len(s) - n + 1, Len(s))

Post ==
    /\ published < MaxAlerts
    /\ Publish
    /\ UNCHANGED <<pageVars, fetchVars>>

-----------------------------------------------------------------------------
(* The EventSource. *)

\* Connections are made one after the other.  The server that does not name
\* its events does not send its headers before the first of them either.
Connect(s) ==
    /\ \A other \in Subscribers : phase[other] # "on"
    /\ \A other \in Subscribers : other < s => phase[other] = "closed"
    /\ Subscribe(s)
    /\ connected' = named
    /\ UNCHANGED <<shown, total, fetchVars>>

\* Slip: a row is never dropped.
ShownAll(rows, row) == Append(rows, row)

\* "[...prev.slice(-299), alert]"
WithAlert(rows, row) ==
    Append(IF Len(rows) < ShownMax THEN rows ELSE Latest(rows, ShownMax - 1), row)

\* The listener is one for events named "alert"; others pass it by.
HandleEvent(s) ==
    /\ Show(s)
    /\ connected' = TRUE
    /\ IF named
       THEN /\ shown' = WithAlert(shown, Row(Last(seen'[s]), "event"))
            /\ total' = total + 1
       ELSE UNCHANGED <<shown, total>>
    /\ UNCHANGED fetchVars

ConnectionBreaks(s) ==
    /\ Close(s)
    /\ connected' = FALSE
    /\ UNCHANGED <<shown, total, fetchVars>>

-----------------------------------------------------------------------------
(* The fetches.  One that fails changes nothing: there is no catch. *)

LoadAnswered ==
    /\ load = "asked"
    /\ load' = "answered"
    /\ LET first == IF published > FetchLimit THEN published - FetchLimit ELSE 0
       IN  loaded' = [i \in 1..(published - first) |-> first + i]
    /\ UNCHANGED <<feedVars, pageVars, fetch, answer>>

\* Slip: the answer is added to the rows.
LoadAppended ==
    /\ load = "answered"
    /\ load' = "over"
    /\ shown' = shown \o [i \in DOMAIN loaded |-> Row(loaded[i], "load")]
    /\ loaded' = << >>
    /\ UNCHANGED <<feedVars, total, connected, fetch, answer>>

\* "then(setAlerts)": the answer takes the place of all rows.
LoadApplied ==
    /\ load = "answered"
    /\ load' = "over"
    /\ shown' = [i \in DOMAIN loaded |-> Row(loaded[i], "load")]
    /\ loaded' = << >>
    /\ UNCHANGED <<feedVars, total, connected, fetch, answer>>

LoadFails ==
    /\ load \in {"asked", "answered"}
    /\ load' = "over"
    /\ loaded' = << >>
    /\ UNCHANGED <<feedVars, pageVars, fetch, answer>>

FetchIs(f, from_, to) == fetch[f] = from_ /\ fetch' = [fetch EXCEPT ![f] = to]

\* The first fetch, and every one of the interval of 5 seconds, which does not
\* ask whether the one before it is over.
StatsAsked(f) ==
    /\ FetchIs(f, "no", "asked")
    /\ UNCHANGED <<feedVars, pageVars, load, loaded, answer>>

StatsAnswered(f) ==
    /\ FetchIs(f, "asked", "answered")
    /\ answer' = [answer EXCEPT ![f] = published]
    /\ UNCHANGED <<feedVars, pageVars, load, loaded>>

\* Slip: the number never goes down.
StatsRaised(f) ==
    /\ FetchIs(f, "answered", "no")
    /\ total' = IF answer[f] > total THEN answer[f] ELSE total
    /\ answer' = [answer EXCEPT ![f] = 0]
    /\ UNCHANGED <<feedVars, shown, connected, load, loaded>>

\* "then(setStats)": also over the events handled since the answer was made.
StatsApplied(f) ==
    /\ FetchIs(f, "answered", "no")
    /\ total' = answer[f]
    /\ answer' = [answer EXCEPT ![f] = 0]
    /\ UNCHANGED <<feedVars, shown, connected, load, loaded>>

StatsFail(f) ==
    /\ \E at \in {"asked", "answered"} : FetchIs(f, at, "no")
    /\ answer' = [answer EXCEPT ![f] = 0]
    /\ UNCHANGED <<feedVars, pageVars, load, loaded>>

-----------------------------------------------------------------------------
PageStep ==
    \/ Post
    \/ \E s \in Subscribers : Connect(s) \/ HandleEvent(s) \/ ConnectionBreaks(s)
    \/ LoadAnswered \/ LoadApplied \/ LoadFails
    \/ \E f \in Fetches :
          StatsAsked(f) \/ StatsAnswered(f) \/ StatsApplied(f) \/ StatsFail(f)

DashboardNext == PageStep /\ UNCHANGED named

DashboardSpec == DashboardInit /\ [][DashboardNext]_vars

\* The interval goes on, and not every fetch fails.
FairDashboard ==
    DashboardSpec
    /\ \A f \in Fetches : /\ WF_vars(StatsAsked(f) /\ UNCHANGED named)
                          /\ SF_vars(StatsAnswered(f) /\ UNCHANGED named)
                          /\ SF_vars(StatsApplied(f) /\ UNCHANGED named)

-----------------------------------------------------------------------------
(* Properties. *)

\* The load may come after events and events after the load, over several
\* connections.  The rows of the load are always first, without a gap, and
\* those of events are in order and none twice: so an alert is on the page at
\* most twice, and then as a row of the load and as one of the stream.  The
\* page keeps ShownMax rows, which the load alone may exceed.
RowsAreOrdered ==
    /\ Len(shown) <= ShownMax \/ Len(shown) <= FetchLimit
    /\ \A i, j \in DOMAIN shown : i < j =>
          /\ shown[i].via = shown[j].via => shown[i].id < shown[j].id
          /\ shown[j].via = "load" => /\ shown[i].via = "load"
                                      /\ shown[j].id = shown[i].id + (j - i)

\* Answers that overtake each other, and events counted on top of an answer
\* that had counted them, put the total wrong in both directions.  Once no more
\* alerts are posted it becomes right and stays so.
TotalConverges == <>[](total = published)
=============================================================================
