# BeaconGuard in TLA+

BeaconGuard watches processes through eBPF hooks, judges what they do in a Go
loader, may kill the ones it condemns, and pushes alerts to clients over HTTP.
This directory holds TLA+ modules translated from that code, TLC configurations
that check them on small instances, and theorems checked by TLAPS that hold for
every instance. Line numbers below are those of the repository's files under
`src/`.

    tlc -config MCEngine.cfg MCEngine          # and so on, see "Runs"
    tlapm EngineProofs.tla                     # and so on, see "Theorems"

## 1. The system

    kernel hooks --ring buffer--> event loop --Analyze--> engine (profiles)
                                     |   \
                                     |    `--SIGKILL--> process
                                     `--alertChan--> consumer --> alert store
                                                         |-----> SSE streams
    HTTP handlers --read--> alert store, profiles        `
    POST /api/v1/config --write--> Config <--read-- event loop, engine

    POST of an alert --> Python API (own store, own streams)
    dashboard --fetch, stream--> Python API or loader, whichever it is set to

| Component | Code | State | Operations | Modelled |
|---|---|---|---|---|
| kernel hooks and maps | `bpf/beacon_guard.bpf.c` | `suspicion_map`, `proc_table`, `process_profiles`, `blocklist`, the ring | nine hooks | `KernelHooks` (ring, `suspicion_map`), `EventWire` (records) |
| event record | `bpf/common.h`, `parseEvent` | none | write, parse | `EventWire` |
| event loop, kill switch | `loader/event_processor.go` | counters, `alertChan` | `Start`, `handleAnomaly`, `sendToAPI`, `killProcess` | `Loader` |
| behavioural engine | `loader/engine.go` | `profiles`, one `ProcessProfile` per pid | `Analyze`, ten rules, `GetProfiles`, `GetStats` | `Engine`; `StatsView` (the two reads) |
| configuration | `loader/config.go`, `handleConfig` | one shared `Config` | load, POST | `SharedConfig` |
| alert store and streams | `loader/api_server.go` | `alerts`, `clients`, `mu`, a channel per stream | `startAlertConsumer`, `AddAlert`, `handleAlerts`, `handleStats`, `handleProcesses`, `handleSSE` | `AlertHub`, `AlertFeed`; `StatsView` (the figures) |
| Python alert API | `api/main.py` | `alerts`, `processes`, `config`, `subscribers` | POST/GET alerts, stream, config | `AlertApi` |
| dashboard | `frontend/src/App.js` | alerts, stats, processes | fetch, stream, refresh | `Dashboard` (alerts, total, stream) |
| start-up, shutdown | `loader/main.go` | links | load, attach, start goroutines, signal, exit | `LoaderLife` |
| other BPF programs | `bpf/*_monitor.bpf.c`, `bpf/process_tracker.bpf.c` | maps of their own | hooks | not modelled: the loader opens `beacon_guard.bpf.o` only |
| packaging | scripts, Docker files, Makefile | none | | not modelled |

### What is hard, and what makes each component correct

*Event record.* A hook does not clear the record it reserves, so the places it
does not write hold leftovers; the loader reads some of them, at offsets of its
own. A rule should judge what the process did.

*Engine.* One profile is changed by each event and read by rules that depend on
what earlier events left in it: counts bounded from two sides, a rate limit that
searches the recorded anomalies, a score that is both an input and an output of
the rules. Its lock does not cover the configuration, so a POST comes between any
two reads. Scores must be explained by anomalies, anomalies never dropped or
repeated where the code says once, and learning must neither judge nor be
forgotten.

*Event loop.* It must never wait for the consumer, account for each alert it
could not hand over, report before it kills, and stop killing when disarmed. A
pid may change hands between the system call and the signal.

*Configuration.* A struct assigned without a lock, under readers.

*Alert hub.* A store that is cut while answers are read from it; a set of
clients copied under the lock and used after it; slow, leaving and late clients;
a lock that a reader keeps while it writes to the network. Streams must see each
alert at most once, in order, none from before they subscribed, and miss one
only by their own full channel.

*Kernel hooks.* Hooks of several CPUs, also of one process, read, add and write
without atomics; first insertions overwrite one another and recycle the element
an other hook has just looked up. A record reserved early holds up those behind
it, and a full ring takes no record and no score.

*Life of the loader.* It may end anywhere and is started again with nothing in
memory; hooks are attached one by one, may fail, and submit records before
anyone reads them; the end of main waits for nobody.

*Statistics.* An answer is read in pieces under different locks, and partly under
none.

*Python API.* Ids that repeat after a trim; a subscriber taken off the list while
its stream goes on; subscribers that leave while alerts are pushed.

*Dashboard.* A first fetch that overwrites what the stream has delivered,
totals refreshed by answers that may be older, connections that break, and two
servers that speak differently.

`PROJECT.json` lists these hazards line by line with the properties that cover
them.

## 2. Modules

| Module | What it is |
|---|---|
| `EventWire` | the record as the hooks write it and as `parseEvent` reads it |
| `SharedConfig` | the `Config` value and the POSTs that overwrite it |
| `Engine` | `Analyze`, composed with `SharedConfig` |
| `Loader` | the event loop, processes, ring and alert channel around `Engine` |
| `AlertHub` | the alert store, its lock, its readers and its streams |
| `AlertFeed` | the abstract promise of a stream, implemented by `AlertHub` and `AlertApi` |
| `StatsView` | `handleStats` and `handleProcesses` reading beside `Loader` |
| `LoaderLife` | start, attachment, end and restart around `Loader` |
| `KernelHooks` | the BPF programs on several CPUs |
| `RecordQueue` | the queue `Loader` takes the ring for, implemented by `KernelHooks` |
| `AlertApi` | the Python server, which implements `AlertFeed` too |
| `Dashboard` | the page, on an `AlertFeed` |
| `MC...` | small instances for TLC |
| `Sums` | lemmas about sums over finite sets |
| `EngineProofs`, `LoaderProofs`, `AlertHubProofs`, `AlertApiProofs`, `KernelHooksProofs`, `DashboardProofs` | theorems about the module each is named after |
| `AroundLoaderProofs` | theorems about `LoaderLife` and `StatsView` |

Operators whose comment begins with "Slip:" are plausible mistakes. They are used
by no specification; each shows that one property would notice (`mutants` in
`PROJECT.json`).

### EventWire

A record is a function from the places some rule depends on: the header fields,
and the offsets 40, 44 and 56 of the union. `bpf/common.h` puts `net.port` at 56
while `parseEvent` reads the port at 44, padding that no hook writes. `Submit`
keeps the stale contents of every place a hook leaves alone. `U32` is the
unsigned reading of `ret`: a value of -2 never comes out as -2, and a rule that
compares with it never matches. Names and addresses that no rule looks at are
left out, as are `argv` and `comm`.

### SharedConfig

`*s.config = newConfig` (`api_server.go:177`) is a copy of words with no lock and
no order, so a POST is `PostConfig` (decode; absent fields are zero) and one
`CopyField` per field. Reads of one-word fields see the old or the new value.
`AllowedExecutables` is three words: while it is being copied a search of it may
answer either way (`AllowedAnswers`); that a torn slice header could also crash
the loader is not modelled. Copying a field over an equal value is skipped when
there is only one poster, since nobody could tell.

### Engine

`Analyze` is cut where another goroutine's write could be seen: `Observe` (update
the profile, read `LearningMode`), `EndLearning` (the window, while learning),
`RuleMatches`/`NoRuleMatches` (the ten rules in order, the first wins and is
recorded), `Escalate` (compare with `SuspicionThreshold`), `Return`. A profile
keeps what rules read: first seen, state, score, exec and file counts, the times
of connections, and the recorded anomalies; `flaggedConns`, a history field no action
reads, counts the connections that raised the score, so that `ScoreExplained` can be
exact and `MmapNeedsSuspicion` can tell suspicion from harmless traffic. The lists of file names and the
details of an anomaly are left out. Time is whole seconds; mean and variance are
multiplied out so that no division is left. `Tick` is allowed while a later step
reads the clock; after that a tick commutes with the rest of `Analyze`.

`beaconing_detected`, `rapid_succession_connections` and `mass_file_deletion`
need 5, 10 and 20 events in the code. These numbers are the constants
`BeaconMin`, `RapidMin` and `MassMin`, set to 4, 3 and 2 in the runs; 4 keeps the
three intervals the code asks for besides.

### Loader

`ReadEvent` is the loop's read, count and parse and the first step of `Analyze`;
`ReportAnomaly`, `DecideToKill`/`DecideToSpare` and `KillProcess` are
`handleAnomaly` cut at its reads of `AutoKill` and at the signal. A process is a
pid and a generation, so that the model knows who a signal reaches while the
loader, like the code, knows pids only. `stored`, `dropped`, `flagged`,
`signalled` and `lateKills` are history variables.

### AlertHub and AlertFeed

Alerts are numbered as `alertChan` accepts them. `sync.RWMutex` is `Announce` (a
writer makes later readers wait), `HoldsLock` (it waits for the readers inside)
and `Unlock` (waiting readers go in before the next writer); what a writer does
while holding the lock is one step with its unlocking, because nobody can look in
between. `AddAlert` is the locked part, `SendTo` the sends after it, one client at
a time in any order, as Go iterates a map. `handleAlerts` holds the read lock
while it writes its answer: `ReaderLeave` happens when the client has read.
`handleSSE` is `Connect`, `Register`, `Deliver`, `Disconnect`, `Unregister`.

`AlertFeed` knows no channel and no lock: alerts are published, and a subscriber
is shown some of those published since it subscribed, each later than the last.
The refinement maps the number of stored alerts to `published` and what was
written to a connection to `seen`.

### StatsView

The two handlers beside all of `Loader`. `GetStats` and `GetProfiles` wait until
`Analyze` has released the lock. The profiles are then read through pointers: such
a read finds the value from before the running `Analyze` or the one there now
(`Seen`), one field of one process at a time (`BeginRow`, `ReadField`). The alert
count is the length of the store (`kept`), which grows with each alert and falls when
`AddAlert` cuts it; `start` remembers the lengths it had since the request, so that
`FiguresAreCurrent` holds across a cut. Modelled are the total, the alert count and
the processes with alerts of the statistics, and of a row the exec, connection and
file counts, the score, the state and the number of anomalies. Left out: `by_severity`,
`last_hour`, which is the alert count again, and `learning_mode`; of a row `comm` and
`first_seen`, which do not change, and `last_seen`, a `time.Time` of several words,
which a read without the lock can find half written.

### LoaderLife

`Loader` inside the process it runs in. `Attach` walks the table of `main.go`; a
system call makes a record only if a program that submits that type is attached.
`Die`, from a signal, a fatal error or the return of main, empties everything but
the processes, the clock and what has been killed; `Begin` reads the file again. A
start that fails before the first program leaves no trace and is no step.

### KernelHooks and RecordQueue

A CPU runs one program at a time, to its end. A hook is `Reserve`, `Lookup`, then
`Insert` or `Load` and `Store`, then `Submit`; the hooks that raise no score go from
`Reserve` to `Submit`. `UpdateElem` is the kernel's update of a preallocated hash
map: a key that is there gets the CPU's spare element and leaves its own as the
spare, so an address looked up before may belong to another pid afterwards. A new
key gets a free element (`SomeFree`): those are alike, so which one is no matter. The
runs reach that case (one process inherits the score of another), and
`SoloScoreIsExact` says how far it can reach: not to a process whose own hooks
never overlap. `Reserve` fails when the ring is full, and then nothing happens.
No element is ever deleted (`beacon_guard.bpf.c:21`): once the map is full `UpdateElem`
fails unseen and a new process never has a score, which `SoloScoreIsExact` excuses.
`RecordQueue!SafeSpec` is the queue without the promise that it is read,
`RecordQueue!Spec` with it.

### AlertApi

The handlers of one asyncio loop: a POST is one step; the generator of a stream is
cut at its awaits. Alerts are numbered as posted, apart from the ids the server
gives out, which start again after a trim. `subscribers` is a set of streams: a
stream is on the list once at most, and a POST walks all of it in one step, removing
the late ones after the walk.

### Dashboard

The page sees its server through `AlertFeed`: a connection of its `EventSource` is a
subscriber, the next connection another one. Fetches are asked, answered and
applied in three steps, so that answers overtake each other and the stream.
`named`, fixed from the start, tells the Python server from the loader's.

## 3. Runs

Passing runs. All bounds are constants of the configurations.

| Run | Instance | Shows |
|---|---|---|
| `engine_rules` | 1 pid, 5 events, 6 s, enforcing, no POST | `ScoreExplained`, `MmapNeedsSuspicion`, `ExecAlertBudget`, `PeriodicIsCaught` |
| `engine_posts` | 1 pid, 3 events, 2 s, learning or enforcing at start, 1 POST | `TypeOK`, `MmapAlertOnce`, `LearningIsUnjudged`, `HistoryIsKept` |
| `loader` | 1 pid used twice, ring of 2, channel of 1, 3 events, 1 POST | `LoaderTypeOK`, `AnomalyAccounting`, `DisarmStopsKills`, `KillsAreReported`; and, with fairness, `RingDrains`, `VerdictIsExecuted` |
| `hub` | 2 streams, 1 reader of each kind, channels of 1, store of 2 cut to 1, 3 alerts | `TypeOK`, `StoreIsRecent`, `StreamInOrder`, `NoGap`, `AnswerIsStable`, `ImplementsFeed`; and, with fairness, `AcceptedIsPushed`, `ClosedIsForgotten` |
| `stats` | 2 pids, 3 events, ring and channel of 1, a store of 2 cut to 1, 1 POST that ends learning | `FiguresAreCurrent`, `AlertsHaveSuspects` |
| `life` | 2 lives, a program that submits and one that does not, 2 events, 1 POST, 1 pid used twice | `LifeTypeOK`; and, with fairness, `BacklogIsRead`, `SignalEnds` |
| `hooks` | 3 CPUs, 3 pids, a ring of 3, a map of 2, 5 records | `TypeOK`, `SoloScoreIsExact`; and, with fairness, `ImplementsQueue` |
| `api` | 2 pids, 2 streams with queues of 2, 5 alerts, a store of 3 trimmed by 2, POSTs of the configuration | `TypeOK`, `StoreIsLatest`, `RecentIdsDiffer`, `StreamIsContiguous`, `OnlyLateAreDropped`, `ImplementsFeed`; and, with fairness, `QueuedIsSent` |
| `dash` | either server, 2 connections, 2 fetches at a time, 3 alerts, 3 rows, a load of 2 | `RowsAreOrdered`; and, with fairness, `TotalConverges` |

Why the bounds are enough: profiles of different pids share nothing but the
configuration, so one pid shows all a rule can do. Five events hold four
connections at regular intervals and another event, or an mmap alert, the three
flagged connections before it and its repetition; six seconds hold gaps that differ
by one. One POST is six copied words that interleave with every cut of
`Analyze`. A ring of two and a channel of one are full and empty in turn, and the
second alert already finds the channel full. With three alerts and a store of two
cut to one, the third alert cuts the store; that it grows and is cut again, any number
of times, is left to the theorem `StoreKeepsLatest`. Two streams are enough for one to
be slow, late or gone while the other is served. Five records are what it takes for an
addition to go astray: three hooks of one process, two of another; and a third
process finds the map of two full. Five alerts trim the Python store, fill a
queue of two behind a slow client, and give out an id the store still holds.
Three alerts and two connections are enough for a load between the events of a
connection, a gap between connections and rows that are cut.

The configurations of `hooks` and `api` have a CONSTRAINT that breaks a symmetry:
of processes, or streams, that are alike the first comes first. It cuts off steps
without fairness only (a reservation, a subscription, a POST), never one a liveness
property waits for. For every invariant, and for every other property that is not
about liveness, the theorems then do without these bounds.

The models stop when their bounds are used up, so deadlock is not checked; that
nobody waits forever is what the liveness properties say.

Violations. Each run refutes one statement of the repository by what the code
does (`findings` in `PROJECT.json`).

| Run | Statement | What happens |
|---|---|---|
| `engine_port` | `engine.go:207`, "Connection to known reverse shell / C2 port" | the port is read from padding (`event_processor.go:108`), so port 4444 goes unflagged |
| `loader_reuse` | README:18, "automatically terminate compromised processes" | the pid has changed hands, and the signal reaches a process that did nothing (`event_processor.go:163`); `KillsAreReported` says it can reach no other than a later owner of the pid |
| `hub_stall` | README:25, alerts are pushed "to any HTTP consumer in real time" | one client of `/api/v1/alerts` that does not read its answer keeps the lock (`api_server.go:155`), and no stream gets anything |

Other places where the modules, translated from the code, do something else than
the repository says. They show in one or two steps, so no run is spent on them.

- README:23, profiles are learnt "during a calibration window, then flags deviations
  automatically": with `LearningMode` on `Analyze` returns nil whatever the window
  (`engine.go:466`, `EndLearning`).
- `engine.go:247`, "Large DNS queries indicating DNS tunneling", and the rules
  `mass_file_deletion` and `sensitive_file_write`: they read `Data["ret"]`, which is
  never set (`engine.go:253`, `engine.go:349`), or compare an unsigned number with -2
  (`engine.go:324`), so they match nothing (theorem `SilentRulesNeverFire`).
- README:23, "per-process behavior profiles": profiles are keyed by pid and never
  deleted (`engine.go:426`, `ProfileOf`), so a process inherits those of a dead one.
- README:24, "Terminates processes that exceed configurable anomaly thresholds":
  connections raise the score (`engine.go:456`), the threshold is looked at only
  after a match (`engine.go:490`, `Escalate`).
- `engine.go:401`, "Process attached to non-child via ptrace": every ptrace event
  matches (`engine.go:404`), also to a child; the hook's own answer compares with a
  field it has not written (`beacon_guard.bpf.c:300`).
- README:25, "structured alert payloads": the encoded alert is used as a format
  string (`api_server.go:207`, `Written`), so a percent sign garbles it.
- `main.go:129`, "loaded and monitoring": any one program will do, also one that
  submits nothing (`main.go:112`, `Launch`).
- `main.py:5`, alerts are streamed to the dashboard: a subscriber that was late is
  off the list while its stream stays open (`main.py:165`, `Broadcast`).
- `App.js:18`, "Initial data load": it replaces rows of the stream (`App.js:20`,
  `LoadApplied`).
- README:25 again: the page waits for events named "alert" (`App.js:34`), and the
  loader, the default server, names none (`api_server.go:80`, `HandleEvent`).

## 4. Fairness

`LoaderSpec` assumes weak fairness of the event loop: the Go scheduler runs a
goroutine that can go on. Nothing is assumed of processes, POSTs, the clock or
the alert consumer, so the loop is shown to wait for none of them.

`GoFairSpec` assumes weak fairness of the consumer, of the streams' calls of
`Lock`, and of `handleStats`, which holds the lock for a computation only. Weak
fairness is enough because `RWMutex` lets nobody overtake: readers that come after
an announced writer wait for it. It assumes nothing of the clients of a stream:
`Deliver` need never happen. `FairSpec` adds that a client of `/api/v1/alerts`
reads its answer. `AcceptedIsPushed` holds under `FairSpec` and fails under
`GoFairSpec`: that assumption about clients is what the hub depends on.

`LifeSpec` assumes weak fairness of main and of the event goroutine while the
loader is alive; nothing of signals, of the consumer or of whoever restarts it.
`KernelHooks!Spec` assumes that a BPF program runs to its end, which the verifier
guarantees, and that the loader reads on. `AlertApi!FairSpec` assumes that the
event loop gets round to every generator that can go on, and nothing of clients:
a client that stops reading is to be counted among those that went away.
`FairDashboard` assumes weak fairness of the interval and strong fairness of
answers: fetches may fail, but not all of them.

## 5. Theorems

Every invariant of the passing runs, every action property that is not about
liveness and both refinements of `AlertFeed` are theorems, for every value of the
constants that satisfies the assumptions below. `PROJECT.json` lists them with the
properties they state. Each proof has the same shape: an inductive invariant, a
lemma for each action that disturbs it, and the property from the invariant.

`Sums`. What adds up is said with the community modules' `SumFunction`, which is a
recursive function inside a CHOOSE and tells the provers nothing. `Sums` proves that
this function exists and is the only one, by induction over the subsets of a finite
set; the predicate of that induction is a set, since a theorem that takes an
operator cannot be used here. From it come the lemmas the other modules cite: what a
sum is when one summand changes, when one is added, when all are natural numbers,
when each summand is at most the whole, and when the summands are a linear function
of others'.

`EngineProofs`, for any pids, records, bodies, files, posters and bounds:

- `EngineTypeCorrect`: the invariant is inductive as it stands, with the
  configuration's part proved on its own.
- `HistoryKept`: every step either leaves a profile alone or makes it one that
  includes it (`Grows`).
- `MmapAlertsOnce` and `LearningUnjudged` follow from `EngineInv`. Neither is
  inductive alone: `LearningIsUnjudged` needs that the rules run only on a profile
  in the state "baseline" (`RulesNeedBaseline`), which `Observe` sets and no POST
  undoes.
- `ScoresAreExplained`, `MmapIsCorroborated` and `ExecAlertsBounded` follow from
  `ScoresInv`. That an mmap anomaly has 50 points of anomalies and flagged
  connections before it is a fact about the score when the rule runs, and only
  `ScoreExplained` turns that score into what is on record. The budget of exec
  anomalies needs `ExecUnspent`: between `Observe` and the verdict the execve is
  counted and has raised nothing yet.
- `PeriodicCaught`: gaps that differ by a second at most are d or d + 1. With S their
  sum, Q the sum of their squares and n their number, `SumLinear` gives Q from S, and
  n * Q - S * S stays below what `Periodic` allows (`RegularIsPeriodic`); the two
  rules that come before it look at execves only. The gaps are all those of the
  profile: the code averages over them all, so one early gap that differs by more can
  keep the rule silent for ever, however regular the later ones are.
- `SilentRulesNeverFire`: no anomaly of the rules `dns_tunneling`,
  `mass_file_deletion` and `sensitive_file_write` is ever recorded or reported,
  whatever a record holds, stale or not. They ask for what `parseEvent` never makes.

`LoaderProofs`, of `LoaderSafe`, which is `LoaderSpec` without its fairness:

- `LoaderTypeCorrect`, with `Handling` tied to an anomaly that was returned.
- `LoaderRunsEngine`: `LoaderSafe => EngineSpec`. Each step of the loop is one of
  `Engine` or leaves its variables alone, so all of `EngineProofs` holds of the
  loader as well.
- `AnomaliesAccounted`: the property with the anomaly that is on its way from
  `Analyze` to the counter (`InFlight`) is inductive.
- `DisarmingWorks`, from `KillsDecided`: a kill that is decided was decided armed,
  so the one after a disarming POST leaves the loop with nothing decided.
- `KillsReported`, from `LoaderInv`: records are not younger than the owner of their
  pid (`OwnersExist`), the anomaly in flight is flagged and on record
  (`FlaggedFirst`), and so was everyone who was killed, or a former owner of the pid.

`AlertHubProofs`, for any number of streams and readers, any capacities and any
store limits:

- `HubTypeCorrect`: types need `Numbering`, which says where every accepted alert
  is (stored, at the consumer, in the channel) and so bounds the numbers.
- `StoreKeepsLatest`: an append continues the numbering, `Trim` keeps the end.
- `AnswersAreStable`: only `AddAlert` writes the store, and it waits for readers.
- `StreamsAreInOrder`: from `StreamInv`, which adds to the property that the alert
  being sent is above all a client has seen or buffered, and that a stream not yet
  registered has nothing and is nobody's target.
- `HubLeavesNoGap`: from `Gapless`, which allows one exception to the property, the
  alert the consumer is just sending to a client it has not come to yet.
- `HubImplementsFeed`: `AddAlert`, `Register`, `Deliver` and `Disconnect` are the
  four steps of the feed; all others leave it alone. That a delivered alert is later
  than those before comes from `StreamInv`.

`AlertApiProofs`, for any limits, trims and queues:

- `StoreKeepsLatest` and `IdsDiffer`, from `StoreInv`: between an alert's number and
  its id, and between the alerts posted and those stored, are whole trims. That the
  processes' counts add up to all alerts posted is part of it.
- `StreamsAreContiguous`, from `Contiguous`: what was sent and what is queued are
  numbered on from the subscription, and end with the latest alert while the stream
  is on the list.
- `LateAreDropped`: by cases of the step, with `ApiInv` for what was on the list.
- `ApiImplementsFeed`: `PostAlert`, `Subscribe`, `Yield` and the two ends of a
  stream are the steps of the feed.

`KernelHooksProofs`, for any finite set of CPUs, any processes, ring and map:

- `HooksTypeCorrect`: `MapType` says that an element is free, the spare of one CPU
  or the element of one process, which every update of the map keeps.
- `SoloScoresAreExact`: `Unshared` says whose element a hook may hold when it reads
  or writes; `Solo` gives the one running hook of a process, at each of its steps,
  what its element holds and what it is still to add. A hook of an overlapping
  process may hold an element of another overlapping process, and of no one else.
- `RingIsAQueue`: the mapping keeps of a record its process only, so that `Submit`
  is a stutter; this is the safety half of `ImplementsQueue`.

`DashboardProofs`: `RowsStayOrdered`, from `DashboardInv`. A row of the stream is
either older than the subscription of the open connection or among what that
connection has shown (`EventRows`), which is why an event never repeats a row of the
stream; the rows of the load come first and without a gap.

`AroundLoaderProofs`, on top of `LoaderProofs`:

- `LifeTypeCorrect`: the loop runs only with something attached, and a loader that
  does not run has read nothing, wherever the life before was cut off.
- `EveryLifeAccounts`: `AnomalyAccounting` and `DisarmStopsKills` hold in every life.
  `KillsAreReported` does not: a restart forgets the anomalies of those it has killed.
- `ViewRunsLoader`: `ViewSpec => LoaderSafe`, so that all of `LoaderProofs` and
  `EngineProofs` holds while handlers read.
- `FiguresCurrent` and `AlertsComeWithSuspects`, from `ViewInv`: the profiles of the
  request, and those from before the running `Analyze`, are earlier ones of those
  there now (`Pasts`); the alert count is among the lengths remembered, and the
  processes counted so far lie between those suspicious then and now (`Figures`); so
  does each field of a row read so far (`RowsRead`); and once alerts were counted
  there is a suspect left to count, or counted (`SuspectsLeft`), for which a store
  never holds more alerts than were received.

The assumptions are those named in the modules, and TLC evaluates each in the runs.
`WordAssumption`, `ConfigAssumption`, `EngineAssumption`, `LoaderAssumption`,
`DashboardAssumption`, `LifeAssumption`: sizes are natural numbers, samples are of
known pids and hold a number where `ret` is, a ring and a channel have room for
one, the beacon rule asks for four connections or more (5 in the code).
`NoneAssumption`: None is neither an anomaly nor a record. `HubAssumption`, `ApiAssumption`: a cut keeps or removes at least one
alert and no more than the store holds (5000 and 10000 in the code); fields of an
update are the two that are modelled, with values of their type. `HooksAssumption`:
finitely many CPUs, and every hook has a number it raises the score by.

Model-checked only, since the prover has no rule for it: liveness under fairness
(`RingDrains`, `VerdictIsExecuted`, `AcceptedIsPushed`, `ClosedIsForgotten`,
`BacklogIsRead`, `SignalEnds`, `QueuedIsSent`, `TotalConverges`) and the fairness
half of `ImplementsQueue`.

## 6. Plan

Done, in this order: `EventWire`, `SharedConfig`, `Engine`, `Loader`, `AlertHub`
with `AlertFeed`, `AlertApi`, `Dashboard`, `KernelHooks` with `RecordQueue`,
`LoaderLife`, `StatsView`; then the proofs of all of them.

Next:

1. What a stream of either server promises, proved of `AlertFeed` itself and so of
   both: one statement in place of `StreamInOrder` and its like.
2. Lemmas about `EventWire`: what of a record is the hook's own and what may be left
   over, for every hook, as a basis for what the port rule can see.

## 7. Not modelled

The HTTP server itself, CORS and health. Wording, logging, JSON layout (except the
format-string write). Memory growth: profiles, connections and anomalies are never
freed. The `blocklist` and `process_profiles` maps, which no program fills, and the
branches that wait for them; `proc_table`, which nothing reads. The contents of ring
memory over time: a stale value is any of the sample's, since records do not divide
the ring and leftovers come from any place of older records. The GET handlers of the
Python server, which change nothing within one step. The page's lists of processes
and its configuration, assigned from an answer as they are. The paths on which the
event loop goes on without `Analyze` (a failed read, an empty or a short record,
`event_processor.go:48-62` and `84-86`): records are of one size. Trimming as the page
sees it: `Dashboard` posts fewer alerts than a server trims at. BPF sources other than
`beacon_guard.bpf.c`, which the loader does not open; packaging. No program of the
repository posts alerts to the Python server: `AlertApi` models what it does when one
does.
