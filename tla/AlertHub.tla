------------------------------ MODULE AlertHub ------------------------------
(***************************************************************************)
(* The loader's API server as the keeper and distributor of alerts         *)
(* (loader/api_server.go): the goroutine that receives from alertChan and  *)
(* calls AddAlert, the handlers that read the alerts (GET /api/v1/alerts   *)
(* and /api/v1/stats), and the server-sent-event streams (handleSSE).      *)
(*                                                                         *)
(* Alerts are numbered in the order alertChan accepted them.  A stream is  *)
(* one request: it is opened, registered, served and closed once.          *)
(*                                                                         *)
(* s.mu is a sync.RWMutex.  A writer first announces itself, which makes   *)
(* later readers wait, then waits for the readers inside; unlocking lets   *)
(* the waiting readers in before the next writer.  What a writer does      *)
(* while it holds the lock is one step with its unlocking.                 *)
(***************************************************************************)
EXTENDS Integers, Sequences, FiniteSets, SequencesExt

CONSTANTS
    Streams,       \* requests of /api/v1/alerts/stream
    AlertReaders,  \* requests of /api/v1/alerts
    StatsReaders,  \* requests of /api/v1/stats
    Percent,       \* the alerts whose JSON contains a "%"
    ChanCap,       \* alerts alertChan buffers (1000)
    ClientCap,     \* messages a client channel buffers (100)
    StoreMax,      \* alerts kept before trimming (10000)
    StoreKeep,     \* alerts kept by trimming (5000)
    Hub,           \* the consumer goroutine
    None,          \* no writer has announced itself
    MaxAlerts      \* bound: alerts accepted in a behaviour

ASSUME HubAssumption ==
    /\ {ChanCap, ClientCap, StoreMax, StoreKeep, MaxAlerts} \subseteq Nat
    /\ 0 < StoreKeep /\ StoreKeep <= StoreMax
    /\ Hub \notin Streams /\ None \notin Streams \cup {Hub}

VARIABLES
    accepted,      \* alerts alertChan has accepted
    alertChan,     \* accepted, not yet received
    consumer,      \* where the consumer is: "receive", "lock", "send"
    cur,           \* the alert it is at
    targets,       \* the clients it has yet to send cur to
    added,         \* alerts appended to s.alerts so far
    alerts,        \* s.alerts
    writer,        \* the goroutine that has announced itself to s.mu
    reader,        \* where each GET request is: "out", "wait", "in"
    clients,       \* s.clients
    stream,        \* where each stream request is
    ch,            \* its channel
    sent,          \* what has been written to its connection
    base,          \* the value of added when it was registered
    lost           \* the alerts its full channel turned away

storeVars == <<added, alerts>>
consumerVars == <<consumer, cur, targets>>
lockVars == <<writer, reader>>
streamVars == <<clients, stream, ch, sent, base, lost>>
vars == <<accepted, alertChan, consumerVars, storeVars, lockVars, streamVars>>

Readers == AlertReaders \cup StatsReaders
Writers == Streams \cup {Hub}

-----------------------------------------------------------------------------
Init ==
    /\ accepted = 0
    /\ alertChan = << >>
    /\ consumer = "receive"
    /\ cur = 0
    /\ targets = {}
    /\ added = 0
    /\ alerts = << >>
    /\ writer = None
    /\ reader = [r \in Readers |-> "out"]
    /\ clients = {}
    /\ stream = [c \in Streams |-> "off"]
    /\ ch = [c \in Streams |-> << >>]
    /\ sent = [c \in Streams |-> << >>]
    /\ base = [c \in Streams |-> 0]
    /\ lost = [c \in Streams |-> {}]

\* sendToAPI, in the event goroutine.  An alert that finds alertChan full is
\* dropped there and has no number.
Accept ==
    /\ accepted < MaxAlerts
    /\ Len(alertChan) < ChanCap
    /\ accepted' = accepted + 1
    /\ alertChan' = Append(alertChan, accepted')
    /\ UNCHANGED <<consumerVars, storeVars, lockVars, streamVars>>

-----------------------------------------------------------------------------
(* sync.RWMutex *)

WantsLock(w) ==
    \/ w = Hub /\ consumer = "lock"
    \/ w \in Streams /\ stream[w] \in {"registering", "leaving"}

Announce(w) ==
    /\ WantsLock(w)
    /\ writer = None
    /\ writer' = w
    /\ UNCHANGED <<accepted, alertChan, consumerVars, storeVars, reader,
                   streamVars>>

HoldsLock(w) == writer = w /\ \A r \in Readers : reader[r] # "in"

Unlock ==
    /\ writer' = None
    /\ reader' = [r \in Readers |-> IF reader[r] = "wait" THEN "in" ELSE reader[r]]

-----------------------------------------------------------------------------
(* The consumer. *)

Receive ==
    /\ consumer = "receive"
    /\ alertChan # << >>
    /\ cur' = Head(alertChan)
    /\ alertChan' = Tail(alertChan)
    /\ consumer' = "lock"
    /\ UNCHANGED <<accepted, targets, storeVars, lockVars, streamVars>>

\* Slip: the oldest alerts are kept.
TrimLatest(s) == IF Len(s) > StoreMax THEN SubSeq(s, 1, StoreKeep) ELSE s

\* "if len(s.alerts) > 10000 { s.alerts = s.alerts[len(s.alerts)-5000:] }"
Trim(s) == IF Len(s) > StoreMax
           THEN SubSeq(s, Len(s) - StoreKeep + 1, Len(s)) ELSE s

\* Slip: the hub does not wait for the readers inside.
AddAlertEarly ==
    /\ writer = Hub
    /\ alerts' = Trim(Append(alerts, cur))
    /\ added' = added + 1
    /\ targets' = clients
    /\ consumer' = "send"
    /\ Unlock
    /\ UNCHANGED <<accepted, alertChan, cur, streamVars>>

\* Slip: clients with unsent messages are passed over.
AddAlertToIdle ==
    /\ HoldsLock(Hub)
    /\ alerts' = Trim(Append(alerts, cur))
    /\ added' = added + 1
    /\ targets' = {c \in clients : ch[c] = << >>}
    /\ consumer' = "send"
    /\ Unlock
    /\ UNCHANGED <<accepted, alertChan, cur, streamVars>>

\* The locked part of AddAlert: store the alert, copy the set of clients.
AddAlert ==
    /\ HoldsLock(Hub)
    /\ alerts' = Trim(Append(alerts, cur))
    /\ added' = added + 1
    /\ targets' = clients
    /\ consumer' = "send"
    /\ Unlock
    /\ UNCHANGED <<accepted, alertChan, cur, streamVars>>

\* Slip: a client may be sent the alert again.
SendAgain(c) ==
    /\ consumer = "send"
    /\ c \in targets
    /\ Len(ch[c]) < ClientCap
    /\ \/ targets' = targets \ {c}
       \/ UNCHANGED targets
    /\ ch' = [ch EXCEPT ![c] = Append(@, cur)]
    /\ UNCHANGED <<accepted, alertChan, consumer, cur, storeVars, lockVars,
                   clients, stream, sent, base, lost>>

\* Slip: a send that waits for room.
SendWaiting(c) ==
    /\ consumer = "send"
    /\ c \in targets
    /\ Len(ch[c]) < ClientCap
    /\ targets' = targets \ {c}
    /\ ch' = [ch EXCEPT ![c] = Append(@, cur)]
    /\ UNCHANGED <<accepted, alertChan, consumer, cur, storeVars, lockVars,
                   clients, stream, sent, base, lost>>

\* The rest of it, without the lock: a send that does not wait, to each client
\* of the copy.
SendTo(c) ==
    /\ consumer = "send"
    /\ c \in targets
    /\ targets' = targets \ {c}
    /\ IF Len(ch[c]) < ClientCap
       THEN ch' = [ch EXCEPT ![c] = Append(@, cur)] /\ UNCHANGED lost
       ELSE lost' = [lost EXCEPT ![c] = @ \cup {cur}] /\ UNCHANGED ch
    /\ UNCHANGED <<accepted, alertChan, consumer, cur, storeVars, lockVars,
                   clients, stream, sent, base>>

Sent ==
    /\ consumer = "send"
    /\ targets = {}
    /\ consumer' = "receive"
    /\ UNCHANGED <<accepted, alertChan, cur, targets, storeVars, lockVars,
                   streamVars>>

-----------------------------------------------------------------------------
(* handleAlerts and handleStats: read under RLock.  handleAlerts keeps the *)
(* lock while it writes the answer to its client.                          *)

ReaderEnter(r) ==
    /\ reader[r] = "out"
    /\ reader' = [reader EXCEPT ![r] = IF writer = None THEN "in" ELSE "wait"]
    /\ UNCHANGED <<accepted, alertChan, consumerVars, storeVars, writer,
                   streamVars>>

ReaderLeave(r) ==
    /\ reader[r] = "in"
    /\ reader' = [reader EXCEPT ![r] = "out"]
    /\ UNCHANGED <<accepted, alertChan, consumerVars, storeVars, writer,
                   streamVars>>

-----------------------------------------------------------------------------
(* handleSSE. *)

Connect(c) ==
    /\ stream[c] = "off"
    /\ stream' = [stream EXCEPT ![c] = "registering"]
    /\ UNCHANGED <<accepted, alertChan, consumerVars, storeVars, lockVars,
                   clients, ch, sent, base, lost>>

\* Slip: the lock is not given back.
RegisterHolding(c) ==
    /\ stream[c] = "registering"
    /\ HoldsLock(c)
    /\ clients' = clients \cup {c}
    /\ base' = [base EXCEPT ![c] = added]
    /\ stream' = [stream EXCEPT ![c] = "serving"]
    /\ UNCHANGED <<accepted, alertChan, consumerVars, storeVars, lockVars, ch,
                   sent, lost>>

Register(c) ==
    /\ stream[c] = "registering"
    /\ HoldsLock(c)
    /\ clients' = clients \cup {c}
    /\ base' = [base EXCEPT ![c] = added]
    /\ stream' = [stream EXCEPT ![c] = "serving"]
    /\ Unlock
    /\ UNCHANGED <<accepted, alertChan, consumerVars, storeVars, ch, sent, lost>>

\* fmt.Fprintf(w, msg) takes the message for a format: a "%" in it comes out
\* as a complaint about a missing argument.
Written(id) == [id |-> id, intact |-> id \notin Percent]

\* Slip: the message is looked at and not taken.
DeliverPeeking(c) ==
    /\ stream[c] = "serving"
    /\ ch[c] # << >>
    /\ Len(sent[c]) < 2 * MaxAlerts
    /\ sent' = [sent EXCEPT ![c] = Append(@, Written(Head(ch[c])))]
    /\ UNCHANGED <<accepted, alertChan, consumerVars, storeVars, lockVars,
                   clients, stream, ch, base, lost>>

Deliver(c) ==
    /\ stream[c] = "serving"
    /\ ch[c] # << >>
    /\ sent' = [sent EXCEPT ![c] = Append(@, Written(Head(ch[c])))]
    /\ ch' = [ch EXCEPT ![c] = Tail(@)]
    /\ UNCHANGED <<accepted, alertChan, consumerVars, storeVars, lockVars,
                   clients, stream, base, lost>>

\* The request's context is done: whatever the channel holds stays there.
Disconnect(c) ==
    /\ stream[c] = "serving"
    /\ stream' = [stream EXCEPT ![c] = "leaving"]
    /\ UNCHANGED <<accepted, alertChan, consumerVars, storeVars, lockVars,
                   clients, ch, sent, base, lost>>

\* Slip: the client stays in the map.
UnregisterKeeping(c) ==
    /\ stream[c] = "leaving"
    /\ HoldsLock(c)
    /\ stream' = [stream EXCEPT ![c] = "closed"]
    /\ Unlock
    /\ UNCHANGED <<accepted, alertChan, consumerVars, storeVars, clients, ch,
                   sent, base, lost>>

Unregister(c) ==
    /\ stream[c] = "leaving"
    /\ HoldsLock(c)
    /\ clients' = clients \ {c}
    /\ stream' = [stream EXCEPT ![c] = "closed"]
    /\ Unlock
    /\ UNCHANGED <<accepted, alertChan, consumerVars, storeVars, ch, sent, base,
                   lost>>

-----------------------------------------------------------------------------
ConsumerStep ==
    \/ Receive
    \/ Announce(Hub)
    \/ AddAlert
    \/ \E c \in Streams : SendTo(c)
    \/ Sent

StreamLockStep(c) == Announce(c) \/ Register(c) \/ Unregister(c)

Next ==
    \/ Accept
    \/ ConsumerStep
    \/ \E r \in Readers : ReaderEnter(r) \/ ReaderLeave(r)
    \/ \E c \in Streams :
          StreamLockStep(c) \/ Connect(c) \/ Deliver(c) \/ Disconnect(c)

Spec == Init /\ [][Next]_vars

\* Goroutines that can go on do.  The requests of /api/v1/stats hold the lock
\* for a computation only.  Nothing is assumed of the clients of a stream.
GoFairness ==
    /\ WF_vars(ConsumerStep)
    /\ \A c \in Streams : WF_vars(StreamLockStep(c))
    /\ \A r \in StatsReaders : WF_vars(ReaderLeave(r))

\* In addition, every client of /api/v1/alerts reads its answer.
ClientFairness == \A r \in AlertReaders : WF_vars(ReaderLeave(r))

FairSpec == Spec /\ GoFairness /\ ClientFairness
GoFairSpec == Spec /\ GoFairness

-----------------------------------------------------------------------------
(* Properties. *)

QueueTypeOK ==
    /\ accepted \in 0..MaxAlerts
    /\ alertChan \in Seq(1..MaxAlerts)
    /\ Len(alertChan) <= ChanCap
    /\ consumer \in {"receive", "lock", "send"}
    /\ cur \in 0..MaxAlerts
    /\ added \in 0..MaxAlerts
    /\ alerts \in Seq(1..MaxAlerts)

LockTypeOK ==
    /\ writer \in Writers \cup {None}
    /\ writer # None => WantsLock(writer)
    /\ reader \in [Readers -> {"out", "wait", "in"}]

StreamTypeOK ==
    /\ clients \subseteq Streams
    /\ targets \subseteq Streams
    /\ stream \in [Streams ->
                      {"off", "registering", "serving", "leaving", "closed"}]
    /\ ch \in [Streams -> Seq(1..MaxAlerts)]
    /\ \A c \in Streams : Len(ch[c]) <= ClientCap
    /\ sent \in [Streams -> Seq([id : 1..MaxAlerts, intact : BOOLEAN])]
    /\ base \in [Streams -> 0..MaxAlerts]
    /\ lost \in [Streams -> SUBSET (1..MaxAlerts)]

\* The variables have their types, and a goroutine has announced itself only
\* while it is at one of its calls of Lock.
TypeOK == QueueTypeOK /\ LockTypeOK /\ StreamTypeOK

\* The store is the latest alerts, in order and without a gap, through any
\* number of trims: never more than StoreMax, and at least StoreKeep of them.
StoreIsRecent ==
    /\ Len(alerts) <= StoreMax
    /\ Len(alerts) >= (IF added < StoreKeep THEN added ELSE StoreKeep)
    /\ \A i \in DOMAIN alerts : alerts[i] = added - Len(alerts) + i

\* While an answer is being written to a client the store under it does not
\* change.
AnswerIsStable ==
    [][(\E r \in Readers : reader[r] = "in") => UNCHANGED alerts]_vars

SentIds(c) == [i \in DOMAIN sent[c] |-> sent[c][i].id]
Pipeline(c) == SentIds(c) \o ch[c]

Increasing(s) == \A i, j \in DOMAIN s : i < j => s[i] < s[j]

\* What a stream has written and has buffered are alerts stored since it was
\* registered, each at most once, in the order of the store.
StreamInOrder ==
    \A c \in Streams :
       /\ Increasing(Pipeline(c))
       /\ \A i \in DOMAIN Pipeline(c) : Pipeline(c)[i] \in (base[c] + 1)..added

\* A registered stream misses an alert only by its own full channel: each one
\* stored since is written, buffered, turned away or about to be sent.
NoGap ==
    \A c \in Streams :
       stream[c] \in {"serving", "leaving"} =>
          \A id \in (base[c] + 1)..added :
             \/ id \in Range(Pipeline(c)) \cup lost[c]
             \/ c \in targets /\ id = cur

\* Every alert alertChan accepted is stored and pushed to the clients.
Pushed(id) == added >= id /\ (consumer = "send" => cur # id)
AcceptedIsPushed == \A id \in 1..MaxAlerts : accepted >= id ~> Pushed(id)

\* A stream whose client went away is taken off the list of clients.
ClosedIsForgotten ==
    \A c \in Streams : stream[c] = "leaving" ~> c \notin clients

-----------------------------------------------------------------------------
(* The hub implements the feed its subscribers rely on. *)

Phase(c) == CASE stream[c] \in {"off", "registering"} -> "off"
              [] stream[c] = "serving" -> "on"
              [] OTHER -> "closed"

Feed == INSTANCE AlertFeed WITH
            Subscribers <- Streams,
            published <- added,
            phase <- [c \in Streams |-> Phase(c)],
            from <- base,
            seen <- [c \in Streams |-> SentIds(c)]

ImplementsFeed == Feed!Spec
=============================================================================
