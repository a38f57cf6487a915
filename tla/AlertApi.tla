------------------------------ MODULE AlertApi ------------------------------
(***************************************************************************)
(* The Python alert server (api/main.py): alerts posted to it are stored,  *)
(* counted per process and pushed to the subscribers of its stream.        *)
(*                                                                         *)
(* It is one asyncio event loop.  A handler without an await runs from its *)
(* first line to its last undisturbed, so POST /api/v1/alerts and POST     *)
(* /api/v1/config are one step each; a stream is cut where its generator   *)
(* awaits.  Alerts are numbered as they are posted; the id the server      *)
(* gives out is another number.  A stream is one request.                  *)
(***************************************************************************)
EXTENDS Integers, Sequences, FiniteSets, FiniteSetsExt, SequencesExt

CONSTANTS
    Streams,       \* requests of /api/v1/alerts/stream
    Pids,          \* processes alerts are about
    Scores,        \* scores of posted alerts
    Updates,       \* bodies of POST /api/v1/config: the fields they name
    StoreMax,      \* alerts kept before trimming (10000)
    TrimBy,        \* alerts removed by trimming (5000)
    QueueCap,      \* messages a subscriber's queue holds (500)
    MaxAlerts      \* bound: alerts posted in a behaviour

ASSUME ApiAssumption ==
    /\ {StoreMax, TrimBy, QueueCap, MaxAlerts} \subseteq Nat
    /\ 0 < TrimBy /\ TrimBy <= StoreMax
    /\ Scores \subseteq Int
    /\ \A u \in Updates : \A f \in DOMAIN u :
          \/ f = "learning_mode" /\ u[f] \in BOOLEAN
          \/ f = "suspicion_threshold" /\ u[f] \in Int

VARIABLES
    posted,        \* alerts posted so far
    alerts,        \* the store
    processes,     \* what is kept of each pid an alert was about
    config,        \* the fields of the configuration an alert is judged by
    subscribers,   \* the streams on the list alerts are pushed to
    stream,        \* where each stream request is
    queue,         \* its asyncio.Queue
    sent,          \* the alerts its generator has yielded to the client
    base           \* the value of posted when it subscribed

storeVars == <<posted, alerts, processes>>
streamVars == <<subscribers, stream, queue, sent, base>>
vars == <<storeVars, config, streamVars>>

Init ==
    /\ posted = 0
    /\ alerts = << >>
    /\ processes = << >>
    /\ config = [learning_mode |-> TRUE, suspicion_threshold |-> 100]
    /\ subscribers = {}
    /\ stream = [c \in Streams |-> "off"]
    /\ queue = [c \in Streams |-> << >>]
    /\ sent = [c \in Streams |-> << >>]
    /\ base = [c \in Streams |-> 0]

-----------------------------------------------------------------------------
(* POST /api/v1/alerts *)

\* Slip: the count starts again with each alert.
CountAfresh(pid) == [count |-> 0, score |-> 0, state |-> "learning"]

ProcessOf(pid) ==
    IF pid \in DOMAIN processes THEN processes[pid]
    ELSE [count |-> 0, score |-> 0, state |-> "learning"]

Judged(p) ==
    [p EXCEPT !.state =
        IF config.learning_mode THEN "learning"
        ELSE IF p.score >= config.suspicion_threshold THEN "anomalous"
        ELSE "baseline"]

\* Slip: the newest alerts are removed.
TrimNewest(s) == IF Len(s) > StoreMax THEN SubSeq(s, 1, Len(s) - TrimBy) ELSE s

\* "if len(alerts) > 10000: alerts[:5000] = []"
Trim(s) == IF Len(s) > StoreMax THEN SubSeq(s, TrimBy + 1, Len(s)) ELSE s

\* Slip: ids do not go beyond the room of the store.
IdByRoom == IF Len(alerts) < StoreMax THEN Len(alerts) + 1 ELSE StoreMax

\* entry["id"] = len(alerts) + 1
NextId == Len(alerts) + 1

Full == {c \in Streams : Len(queue[c]) >= QueueCap}

\* Slip: a full queue is taken off the list inside the loop over the list,
\* which passes over its successor.
BroadcastRemoving(n) ==
    \E passed \in SUBSET (subscribers \ Full) :
       /\ passed # {} => subscribers \cap Full # {}
       /\ queue' = [c \in Streams |-> IF c \in subscribers \ (Full \cup passed)
                                      THEN Append(queue[c], n) ELSE queue[c]]
       /\ subscribers' = subscribers \ Full

\* put_nowait to every subscriber, in any order; those whose queue is full
\* leave the list.
Broadcast(n) ==
    /\ queue' = [c \in Streams |-> IF c \in subscribers \ Full
                                   THEN Append(queue[c], n) ELSE queue[c]]
    /\ subscribers' = subscribers \ Full

PostAlert(pid, score) ==
    LET p == ProcessOf(pid)
    IN  /\ posted < MaxAlerts
        /\ posted' = posted + 1
        /\ processes' = [q \in DOMAIN processes \cup {pid} |->
               IF q = pid
               THEN Judged([p EXCEPT !.count = @ + 1, !.score = @ + score])
               ELSE processes[q]]
        /\ alerts' = Trim(Append(alerts, [n |-> posted', id |-> NextId, pid |-> pid]))
        /\ Broadcast(posted')
        /\ UNCHANGED <<config, stream, sent, base>>

\* POST /api/v1/config: fields that are not named keep their value, and no
\* process is judged again.
UpdateConfig(u) ==
    /\ config' = [f \in DOMAIN config |-> IF f \in DOMAIN u THEN u[f] ELSE config[f]]
    /\ UNCHANGED <<storeVars, streamVars>>

-----------------------------------------------------------------------------
(* GET /api/v1/alerts/stream *)

Subscribe(c) ==
    /\ stream[c] = "off"
    /\ stream' = [stream EXCEPT ![c] = "serving"]
    /\ subscribers' = subscribers \cup {c}
    /\ base' = [base EXCEPT ![c] = posted]
    /\ UNCHANGED <<storeVars, config, queue, sent>>

\* Slip: what is yielded is the last message put in.
YieldLatest(c) ==
    /\ stream[c] = "serving"
    /\ queue[c] # << >>
    /\ sent' = [sent EXCEPT ![c] = Append(@, Last(queue[c]))]
    /\ queue' = [queue EXCEPT ![c] = Front(@)]
    /\ UNCHANGED <<storeVars, config, subscribers, stream, base>>

\* Slip: the messages that wait are dropped but for the last.
YieldOnlyLatest(c) ==
    /\ stream[c] = "serving"
    /\ queue[c] # << >>
    /\ sent' = [sent EXCEPT ![c] = Append(@, Last(queue[c]))]
    /\ queue' = [queue EXCEPT ![c] = << >>]
    /\ UNCHANGED <<storeVars, config, subscribers, stream, base>>

\* queue.get() answers and the message is yielded.  A queue that stays empty
\* for 30 seconds makes a "ping" instead, which changes nothing.
Yield(c) ==
    /\ stream[c] = "serving"
    /\ queue[c] # << >>
    /\ sent' = [sent EXCEPT ![c] = Append(@, Head(queue[c]))]
    /\ queue' = [queue EXCEPT ![c] = Tail(@)]
    /\ UNCHANGED <<storeVars, config, subscribers, stream, base>>

\* The client goes away; the generator learns of it at an await.
Disconnect(c) ==
    /\ stream[c] = "serving"
    /\ stream' = [stream EXCEPT ![c] = "gone"]
    /\ UNCHANGED <<storeVars, config, subscribers, queue, sent, base>>

\* Slip: the clean-up is not in a "finally".
CloseKeeping(c) ==
    /\ stream[c] = "gone"
    /\ stream' = [stream EXCEPT ![c] = "closed"]
    /\ UNCHANGED <<storeVars, config, subscribers, queue, sent, base>>

\* Slip: the first queue of the list is removed, whose ever it is.
CloseFirst(c) ==
    /\ stream[c] = "gone"
    /\ stream' = [stream EXCEPT ![c] = "closed"]
    /\ \E first \in subscribers : subscribers' = subscribers \ {first}
    /\ UNCHANGED <<storeVars, config, queue, sent, base>>

\* "finally: if queue in subscribers: subscribers.remove(queue)"
Close(c) ==
    /\ stream[c] = "gone"
    /\ stream' = [stream EXCEPT ![c] = "closed"]
    /\ subscribers' = subscribers \ {c}
    /\ UNCHANGED <<storeVars, config, queue, sent, base>>

-----------------------------------------------------------------------------
Next ==
    \/ \E pid \in Pids, score \in Scores : PostAlert(pid, score)
    \/ \E u \in Updates : UpdateConfig(u)
    \/ \E c \in Streams : Subscribe(c) \/ Yield(c) \/ Disconnect(c) \/ Close(c)

Spec == Init /\ [][Next]_vars

\* The event loop gets round to every generator that can go on.
FairSpec == Spec /\ \A c \in Streams : WF_vars(Yield(c)) /\ WF_vars(Close(c))

-----------------------------------------------------------------------------
(* Properties. *)

\* The variables have their types; only streams that were opened and not
\* closed are on the list.
TypeOK ==
    /\ posted \in 0..MaxAlerts
    /\ alerts \in Seq([n : 1..MaxAlerts, id : 1..(StoreMax + 1), pid : Pids])
    /\ DOMAIN processes \subseteq Pids
    /\ \A pid \in DOMAIN processes :
          processes[pid] \in [count : 1..MaxAlerts, score : Int,
                              state : {"learning", "baseline", "anomalous"}]
    /\ config \in [learning_mode : BOOLEAN, suspicion_threshold : Int]
    /\ stream \in [Streams -> {"off", "serving", "gone", "closed"}]
    /\ subscribers \subseteq {c \in Streams : stream[c] \in {"serving", "gone"}}
    /\ queue \in [Streams -> Seq(1..MaxAlerts)]
    /\ sent \in [Streams -> Seq(1..MaxAlerts)]
    /\ \A c \in Streams : Len(queue[c]) <= QueueCap
    /\ base \in [Streams -> 0..MaxAlerts]

\* The store is the latest alerts without a gap, and a trim leaves all but
\* the oldest TrimBy of them; the processes account for every alert posted,
\* also for those the store has lost.
StoreIsLatest ==
    /\ Len(alerts) <= StoreMax
    /\ Len(alerts) >= (IF posted <= StoreMax THEN posted ELSE StoreMax + 1 - TrimBy)
    /\ \A i \in DOMAIN alerts :
          alerts[i].n = posted - Len(alerts) + i /\ alerts[i].pid \in DOMAIN processes
    /\ posted = SumFunction([pid \in DOMAIN processes |-> processes[pid].count])

\* Ids start again after a trim, so the store holds some twice.  The latest
\* TrimBy alerts still have different ones, which is what a list of fewer rows
\* keyed by id (AlertFeed.js) needs.
RecentIdsDiffer ==
    \A i, j \in DOMAIN alerts :
       i < j /\ j - i < TrimBy => alerts[i].id # alerts[j].id

Pipeline(c) == sent[c] \o queue[c]

\* What a stream was sent and has queued are the alerts posted since it
\* subscribed, none missing and none twice; while it is on the list there is
\* none besides.
StreamIsContiguous ==
    \A c \in Streams :
       /\ \A i \in DOMAIN Pipeline(c) : Pipeline(c)[i] = base[c] + i
       /\ c \in subscribers => base[c] + Len(Pipeline(c)) = posted

\* A stream is taken off the list only when its queue was full or its client
\* is gone: a slow subscriber costs no other one its place.
OnlyLateAreDropped ==
    [][\A c \in subscribers \ subscribers' :
          stream
[c] = "gone" \/ Len(queue[c]) = QueueCap]_vars

\* An alert in a queue is sent unless the client goes away.
QueuedIsSent ==
    \A c \in Streams, n \in 1..MaxAlerts :
       n \in Range(queue[c]) ~> (n \in Range(sent[c]) \/ stream[c] # "serving")

Phase(c) ==
    CASE stream[c] = "off" -> "off"
      [] stream[c] = "serving" -> "on"
      [] OTHER -> "closed"

\* The server implements the feed its subscribers rely on.
Feed == INSTANCE AlertFeed WITH
            Subscribers <- Streams,
            published <- posted,
            phase <- [c \in Streams |-> Phase(c)],
            from <- base,
            seen <- sent

ImplementsFeed == Feed!Spec
=============================================================================
