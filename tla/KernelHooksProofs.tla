-------------------------- MODULE KernelHooksProofs --------------------------
(***************************************************************************)
(* Proofs about KernelHooks, for any number of CPUs and processes: the     *)
(* elements of suspicion_map are never shared, the score of a process      *)
(* whose hooks do not overlap is exact, and the ring buffer is a queue.    *)
(***************************************************************************)
EXTENDS KernelHooks, Sums, SequenceTheorems, FunctionTheorems

-----------------------------------------------------------------------------
(* Types. *)

Places == {"idle", "lookup", "insert", "load", "store", "submit"}
Entry == [n : Nat, pid : Pids, ready : BOOLEAN]

Hooks == [at : Places, pid : Pids \cup {0}, raise : Nat, record : Nat,
          elem : Elements \cup {0}, score : Nat]

GoodHook(h) ==
    /\ h \in Hooks
    /\ h.at # "idle" => h.pid \in Pids
    /\ h.at \in {"load", "store"} => h.elem \in Elements

HookType == hook \in [Cpus -> Hooks] /\ \A c \in Cpus : GoodHook(hook[c])

RingType ==
    /\ ring \in Seq(Entry) /\ Len(ring) <= RingCap
    /\ reserved \in Nat /\ read \in Nat

\* An element is free, the spare of one CPU or the element of one process.
MapType ==
    /\ DOMAIN element \subseteq Pids
    /\ element = [p \in DOMAIN element |-> element[p]]
    /\ value \in [Elements -> Nat]
    /\ spare \in [Cpus -> Elements]
    /\ \A p \in DOMAIN element : element[p] \in Elements
    /\ free \subseteq Elements
    /\ \A p, q \in DOMAIN element : element[p] = element[q] => p = q
    /\ \A c, d \in Cpus : spare[c] = spare[d] => c = d
    /\ \A p \in DOMAIN element, c \in Cpus : element[p] # spare[c]
    /\ \A p \in DOMAIN element : element[p] \notin free
    /\ \A c \in Cpus : spare[c] \notin free

GhostType ==
    /\ recorded \in [Pids -> Nat]
    /\ overlapped \subseteq Pids

TypeInv == HookType /\ RingType /\ MapType /\ GhostType

-----------------------------------------------------------------------------
(* Scores. *)

\* A hook that is about to read or to write an element does not touch a free
\* one, nor that of another process, unless its own or the other one overlaps.
Unshared ==
    \A c \in Cpus : At(c, "load") \/ At(c, "store") =>
       /\ hook[c].elem \notin free
       /\ \A p \in DOMAIN element \ overlapped :
             hook[c].elem = element[p] => hook[c].pid = p

\* What p's element has, with r to come, is what its records stand for.
Exact(p, r) ==
    IF p \in DOMAIN element THEN value[element[p]] + r = recorded[p]
    ELSE recorded[p] = r \/ free = {}

\* The one running hook of p, at each of its steps.
HookExact(c, p) ==
    /\ Exact(p, IF At(c, "submit") THEN 0 ELSE hook[c].raise)
    /\ At(c, "insert") => p \notin DOMAIN element
    /\ At(c, "load") \/ At(c, "store") =>
          p \in DOMAIN element /\ hook[c].elem = element[p]
    /\ At(c, "store") => hook[c].score = value[element[p]]

Solo(p) ==
    /\ \A c, d \in Running(p) : c = d
    /\ Running(p) = {} => Exact(p, 0)
    /\ \A c \in Running(p) : HookExact(c, p)

ScoreInv == Unshared /\ \A p \in Pids \ overlapped : Solo(p)

HooksInv == TypeInv /\ ScoreInv

-----------------------------------------------------------------------------
(* The constants, and the first spare elements. *)

LEMMA CapsAreNat == /\ MapCap \in Nat /\ RingCap \in Nat /\ RingCap > 0
                    /\ Cardinality(Cpus) \in Nat
<1>1. {RingCap, MapCap, MaxRecords} \subseteq Nat /\ RingCap > 0 /\ IsFiniteSet(Cpus)
  BY HooksAssumption
<1> QED BY <1>1, FS_CardinalityType

LEMMA RaisesAreNat == \A h \in Watched : \A r \in Raises[h] : r \in Nat
<1> SUFFICES ASSUME NEW h \in DOMAIN Raises, NEW r \in Raises[h] PROVE r \in Nat
  BY HooksAssumption
<1> QED BY DEF Raises

LEMMA FirstSpares ==
  ASSUME Init
  PROVE  /\ spare \in [Cpus -> (MapCap + 1)..(MapCap + Cardinality(Cpus))]
         /\ \A c, d \in Cpus : spare[c] = spare[d] => c = d
<1> DEFINE n == Cardinality(Cpus)
           S == [Cpus -> (MapCap + 1)..(MapCap + n)]
<1>1. PICK b \in Bijection(Cpus, 1..n) : TRUE
  <2>1. IsFiniteSet(Cpus)
    BY HooksAssumption
  <2>2. ExistsBijection(Cpus, 1..n)
    BY <2>1, FS_CardinalityType, Fun_ExistsBijSymmetric
  <2> QED BY <2>2 DEF ExistsBijection
<1>2. /\ b \in [Cpus -> 1..n]
      /\ \A c, d \in Cpus : b[c] = b[d] => c = d
  BY DEF Bijection, Injection, IsInjective
<1> DEFINE s == [c \in Cpus |-> MapCap + b[c]]
<1>3. s \in S /\ IsInjective(s)
  <2>1. n \in Nat /\ \A c \in Cpus : b[c] \in 1..n
    BY <1>2, CapsAreNat
  <2> HIDE DEF n
  <2>2. \A c \in Cpus : MapCap + b[c] \in (MapCap + 1)..(MapCap + n)
    BY <2>1, CapsAreNat
  <2>3. \A c, d \in Cpus : MapCap + b[c] = MapCap + b[d] => b[c] = b[d]
    BY <2>1, CapsAreNat
  <2> QED BY <1>2, <2>2, <2>3 DEF IsInjective
<1>4. spare \in S /\ IsInjective(spare)
  <2>1. spare = CHOOSE t \in S : IsInjective(t)
    BY DEF Init
  <2> HIDE DEF S, s
  <2> QED BY <1>3, <2>1
<1> QED BY <1>4 DEF IsInjective

-----------------------------------------------------------------------------
(* Types. *)

LEMMA TypeInit == Init => TypeInv
<1> SUFFICES ASSUME Init PROVE TypeInv
  OBVIOUS
<1>1. HookType
  <2>1. GoodHook(NoHook)
    BY DEF GoodHook, NoHook, Hooks, Places
  <2> QED BY <2>1 DEF Init, HookType, GoodHook
<1>2. RingType
  BY CapsAreNat, EmptySeq DEF Init, RingType
<1>3. MapType
  <2> DEFINE n == Cardinality(Cpus)
  <2>1. /\ spare \in [Cpus -> (MapCap + 1)..(MapCap + n)]
        /\ \A c, d \in Cpus : spare[c] = spare[d] => c = d
    BY FirstSpares
  <2>2. n \in Nat /\ MapCap \in Nat
    BY CapsAreNat
  <2>3. Elements = 1..(MapCap + n)
    BY DEF Elements
  <2> HIDE DEF n
  <2>4. \A c \in Cpus : spare[c] \in Elements /\ spare[c] \notin 1..MapCap
    BY <2>1, <2>2, <2>3
  <2>5. spare \in [Cpus -> Elements]
    BY <2>1, <2>4
  <2>6. 1..MapCap \subseteq Elements
    BY <2>2, <2>3
  <2>7. element = << >> /\ DOMAIN element = {}
    BY DEF Init
  <2>8. free = 1..MapCap /\ value = [e \in Elements |-> 0]
    BY DEF Init
  <2>9. element = [p \in DOMAIN element |-> element[p]]
    BY <2>7
  <2> QED BY <2>1, <2>4, <2>5, <2>6, <2>7, <2>8, <2>9 DEF MapType
<1>4. GhostType
  BY DEF Init, GhostType
<1> QED BY <1>1, <1>2, <1>3, <1>4 DEF TypeInv

LEMMA SetHookType ==
  ASSUME HookType, NEW c \in Cpus, NEW h, GoodHook(h), hook' = [hook EXCEPT ![c] = h]
  PROVE  HookType'
<1>1. h \in Hooks
  BY DEF GoodHook
<1>2. hook' \in [Cpus -> Hooks] /\ \A d \in Cpus : hook'[d] = IF d = c THEN h ELSE hook[d]
  BY <1>1 DEF HookType
<1>3. \A d \in Cpus : GoodHook(hook'[d])
  BY <1>2 DEF HookType
<1> QED BY <1>2, <1>3 DEF HookType

\* An update with an element of its own keeps the elements apart.
LEMMA UpdateType ==
  ASSUME MapType, NEW c \in Cpus, NEW p \in Pids, NEW v \in Nat, UpdateElem(c, p, v)
  PROVE  MapType'
<1>1. CASE p \in DOMAIN element
  <2>1. /\ element' = [element EXCEPT ![p] = spare[c]]
        /\ spare' = [spare EXCEPT ![c] = element[p]]
        /\ value' = [value EXCEPT ![spare[c]] = v]
        /\ free' = free
    BY <1>1 DEF UpdateElem
  <2>2. DOMAIN element' = DOMAIN element
        /\ \A q \in DOMAIN element' : element'[q] = IF q = p THEN spare[c] ELSE element[q]
    BY <1>1, <2>1 DEF MapType
  <2>3. spare' \in [Cpus -> Elements]
        /\ \A d \in Cpus : spare'[d] = IF d = c THEN element[p] ELSE spare[d]
    BY <1>1, <2>1 DEF MapType
  <2>4. value' \in [Elements -> Nat]
    BY <2>1 DEF MapType
  <2>5. element' = [q \in DOMAIN element' |-> element'[q]]
    BY <2>1, <2>2
  <2> QED BY <1>1, <2>1, <2>2, <2>3, <2>4, <2>5 DEF MapType
<1>2. CASE p \notin DOMAIN element /\ free = {}
  BY <1>2 DEF UpdateElem, mapVars, MapType
<1>3. CASE p \notin DOMAIN element /\ free # {}
  <2>1. /\ element' = [q \in DOMAIN element \cup {p} |->
                          IF q = p THEN SomeFree ELSE element[q]]
        /\ value' = [value EXCEPT ![SomeFree] = v]
        /\ free' = free \ {SomeFree}
        /\ spare' = spare
    BY <1>3 DEF UpdateElem
  <2>2. SomeFree \in free
    BY <1>3 DEF SomeFree
  <2>3. DOMAIN element' = DOMAIN element \cup {p}
        /\ \A q \in DOMAIN element' : element'[q] = IF q = p THEN SomeFree ELSE element[q]
    BY <2>1
  <2>4. value' \in [Elements -> Nat]
    BY <2>1 DEF MapType
  <2>5. element' = [q \in DOMAIN element' |-> element'[q]]
    BY <2>1, <2>3
  <2> QED BY <1>3, <2>1, <2>2, <2>3, <2>4, <2>5 DEF MapType
<1> QED BY <1>1, <1>2, <1>3

LEMMA ReserveType ==
  ASSUME TypeInv, NEW c \in Cpus, NEW p \in Pids, NEW r \in Nat, Reserve(c, p, r)
  PROVE  TypeInv'
<1> DEFINE h == [NoHook EXCEPT !.at = IF r = 0 THEN "submit" ELSE "lookup",
                               !.pid = p, !.raise = r, !.record = reserved']
           e == [n |-> reserved', pid |-> p, ready |-> FALSE]
<1>1. /\ hook' = [hook EXCEPT ![c] = h]
      /\ reserved' = reserved + 1 /\ Len(ring) < RingCap
      /\ ring' = Append(ring, e)
      /\ recorded' = [recorded EXCEPT ![p] = @ + r]
      /\ overlapped' \subseteq overlapped \cup {p}
      /\ UNCHANGED <<read, mapVars>>
  BY DEF Reserve
<1>2. reserved' \in Nat
  BY <1>1 DEF TypeInv, RingType
<1>3. GoodHook(h)
  BY <1>2 DEF GoodHook, NoHook, Hooks, Places
<1>4. HookType'
  <2> HIDE DEF h
  <2> QED BY <1>1, <1>3, SetHookType DEF TypeInv
<1>5. RingType'
  <2>1. e \in Entry
    BY <1>2 DEF Entry
  <2> HIDE DEF e
  <2>2. ring' \in Seq(Entry) /\ Len(ring') = Len(ring) + 1 /\ Len(ring) \in Nat
    BY <1>1, <2>1, AppendProperties, LenProperties DEF TypeInv, RingType
  <2>3. Len(ring') <= RingCap
    BY <1>1, <2>2, CapsAreNat
  <2> QED BY <1>1, <1>2, <2>2, <2>3 DEF TypeInv, RingType
<1>6. MapType'
  BY <1>1 DEF TypeInv, MapType, mapVars
<1>7. GhostType'
  BY <1>1 DEF TypeInv, GhostType
<1> QED BY <1>4, <1>5, <1>6, <1>7 DEF TypeInv

\* The steps of a hook change its own place and the map at most.
LEMMA HookStepType ==
  ASSUME TypeInv, NEW c \in Cpus, Lookup(c) \/ Insert(c) \/ Load(c) \/ Store(c)
  PROVE  TypeInv'
<1>0. /\ HookType /\ MapType /\ hook[c] \in Hooks /\ GoodHook(hook[c])
      /\ UNCHANGED <<ringVars, ghostVars>>
  BY DEF TypeInv, HookType, Lookup, Insert, Load, Store
<1>1. RingType' /\ GhostType'
  BY <1>0 DEF TypeInv, RingType, GhostType, ringVars, ghostVars
<1> DEFINE g == hook[c]
<1>2. CASE Lookup(c)
  <2> DEFINE h == IF g.pid \in DOMAIN element
                  THEN [g EXCEPT !.at = "load", !.elem = element[g.pid]]
                  ELSE [g EXCEPT !.at = "insert"]
  <2>1. hook' = [hook EXCEPT ![c] = h] /\ MapType'
    BY <1>0, <1>2 DEF Lookup, mapVars, MapType
  <2>2. g.at = "lookup"
    BY <1>2 DEF Lookup, At
  <2>3. GoodHook(h)
    <3>1. CASE g.pid \in DOMAIN element
      <4>1. element[g.pid] \in Elements
        BY <1>0, <3>1 DEF MapType
      <4> QED BY <1>0, <2>2, <3>1, <4>1 DEF GoodHook, Hooks, Places
    <3>2. CASE g.pid \notin DOMAIN element
      BY <1>0, <2>2, <3>2 DEF GoodHook, Hooks, Places
    <3> QED BY <3>1, <3>2
  <2> HIDE DEF h
  <2> QED BY <1>0, <1>1, <2>1, <2>3, SetHookType DEF TypeInv
<1>3. CASE Insert(c)
  <2>1. /\ hook' = [hook EXCEPT ![c] = [g EXCEPT !.at = "submit"]]
        /\ UpdateElem(c, g.pid, g.raise) /\ g.at = "insert"
    BY <1>3 DEF Insert, At
  <2>2. g.pid \in Pids /\ g.raise \in Nat
    BY <1>0, <2>1 DEF GoodHook, Hooks
  <2>3. MapType'
    BY <1>0, <2>1, <2>2, UpdateType
  <2>4. GoodHook([g EXCEPT !.at = "submit"])
    BY <1>0, <2>1 DEF GoodHook, Hooks, Places
  <2> QED BY <1>0, <1>1, <2>1, <2>3, <2>4, SetHookType DEF TypeInv
<1>4. CASE Load(c)
  <2>1. /\ hook' = [hook EXCEPT ![c] = [g EXCEPT !.at = "store", !.score = value[g.elem]]]
        /\ g.at = "load" /\ MapType'
    BY <1>0, <1>4 DEF Load, At, mapVars, MapType
  <2>2. value[g.elem] \in Nat
    BY <1>0, <2>1 DEF GoodHook, MapType
  <2>3. GoodHook([g EXCEPT !.at = "store", !.score = value[g.elem]])
    BY <1>0, <2>1, <2>2 DEF GoodHook, Hooks, Places
  <2> QED BY <1>0, <1>1, <2>1, <2>3, SetHookType DEF TypeInv
<1>5. CASE Store(c)
  <2>1. /\ hook' = [hook EXCEPT ![c] = [g EXCEPT !.at = "submit"]]
        /\ value' = [value EXCEPT ![g.elem] = g.score + g.raise]
        /\ g.at = "store" /\ UNCHANGED <<element, free, spare>>
    BY <1>5 DEF Store, At
  <2>2. g.score + g.raise \in Nat
    BY <1>0 DEF Hooks
  <2>3. MapType'
    BY <1>0, <2>1, <2>2 DEF MapType
  <2>4. GoodHook([g EXCEPT !.at = "submit"])
    BY <1>0, <2>1 DEF GoodHook, Hooks, Places
  <2> QED BY <1>0, <1>1, <2>1, <2>3, <2>4, SetHookType DEF TypeInv
<1> QED BY <1>2, <1>3, <1>4, <1>5

\* The ring with the records numbered k ready.
Readied(k) == [i \in DOMAIN ring |->
                  IF ring[i].n = k THEN [ring[i] EXCEPT !.ready = TRUE] ELSE ring[i]]

LEMMA ReadiedFacts ==
  ASSUME RingType, NEW k
  PROVE  /\ Readied(k) \in Seq(Entry) /\ Len(Readied(k)) = Len(ring)
         /\ DOMAIN Readied(k) = DOMAIN ring
         /\ \A i \in DOMAIN ring : Readied(k)[i].pid = ring[i].pid
<1>1. Len(ring) \in Nat /\ DOMAIN ring = 1..Len(ring)
      /\ \A i \in DOMAIN ring : ring[i] \in Entry
  BY LenProperties, ElementOfSeq DEF RingType
<1>2. \A i \in DOMAIN ring :
         Readied(k)[i] \in Entry /\ Readied(k)[i].pid = ring[i].pid
  BY <1>1 DEF Readied, Entry
<1>3. Readied(k) \in [1..Len(ring) -> Entry]
  BY <1>1, <1>2 DEF Readied
<1> QED BY <1>1, <1>2, <1>3, LenProperties DEF Readied

LEMMA SubmitType ==
  ASSUME TypeInv, NEW c \in Cpus, Submit(c)
  PROVE  TypeInv'
<1>1. /\ ring' = Readied(hook[c].record) /\ hook' = [hook EXCEPT ![c] = NoHook]
      /\ UNCHANGED <<reserved, read, mapVars, ghostVars>>
  BY DEF Submit, Readied
<1>2. GoodHook(NoHook)
  BY DEF GoodHook, NoHook, Hooks, Places
<1>3. HookType'
  BY <1>1, <1>2, SetHookType DEF TypeInv
<1>4. RingType'
  BY <1>1, ReadiedFacts DEF TypeInv, RingType
<1> QED BY <1>1, <1>3, <1>4 DEF TypeInv, MapType, GhostType, mapVars, ghostVars

LEMMA ReadType ==
  ASSUME TypeInv, ReadRecord
  PROVE  TypeInv'
<1>1. /\ ring # << >> /\ ring' = Tail(ring) /\ read' = read + 1
      /\ UNCHANGED <<hook, reserved, mapVars, ghostVars>>
  BY DEF ReadRecord
<1>2. ring' \in Seq(Entry) /\ Len(ring') = Len(ring) - 1 /\ Len(ring) \in Nat
  BY <1>1, HeadTailProperties, LenProperties DEF TypeInv, RingType
<1>3. RingType'
  BY <1>1, <1>2, CapsAreNat DEF TypeInv, RingType
<1> QED BY <1>1, <1>3 DEF TypeInv, HookType, MapType, GhostType, mapVars, ghostVars

LEMMA TypeStep == TypeInv /\ [Next]_vars => TypeInv'
<1> SUFFICES ASSUME TypeInv, [Next]_vars PROVE TypeInv'
  OBVIOUS
<1>1. ASSUME NEW c \in Cpus, NEW p \in Pids, NEW h \in Watched, NEW r \in Raises[h],
             Reserve(c, p, r)
      PROVE  TypeInv'
  BY <1>1, ReserveType, RaisesAreNat
<1>2. ASSUME NEW c \in Cpus, HookStep(c) PROVE TypeInv'
  BY <1>2, HookStepType, SubmitType DEF HookStep
<1>3. CASE UNCHANGED vars
  BY <1>3 DEF TypeInv, HookType, RingType, MapType, GhostType, vars, ringVars,
              mapVars, ghostVars
<1> QED BY <1>1, <1>2, <1>3, ReadType DEF Next

-----------------------------------------------------------------------------
(* The scores are kept exact. *)

LEMMA ScoreInit == Init => ScoreInv
<1> SUFFICES ASSUME Init PROVE ScoreInv
  OBVIOUS
<1>1. \A c \in Cpus : hook[c].at = "idle"
  BY DEF Init, NoHook
<1>2. \A p \in Pids : Running(p) = {} /\ p \notin DOMAIN element /\ recorded[p] = 0
  BY <1>1 DEF Init, Running
<1> QED BY <1>1, <1>2 DEF ScoreInv, Unshared, Solo, Exact, At

\* A step of one CPU leaves the hooks of the processes it does not run alone.
LEMMA OthersRun ==
  ASSUME HookType, NEW c \in Cpus, NEW h \in Hooks, hook' = [hook EXCEPT ![c] = h],
         NEW q, c \notin Running(q), h.at = "idle" \/ h.pid # q
  PROVE  /\ Running(q)' = Running(q)
         /\ \A d \in Running(q) : d \in Cpus /\ hook'[d] = hook[d]
<1>1. \A d \in Cpus : hook'[d] = IF d = c THEN h ELSE hook[d]
  BY DEF HookType
<1> QED BY <1>1 DEF Running

\* What a solo process's score rests on.
LEMMA SoloKept ==
  ASSUME NEW q \in Pids, Solo(q), Running(q)' = Running(q),
         \A d \in Running(q) : d \in Cpus /\ hook'[d] = hook[d],
         q \in DOMAIN element' <=> q \in DOMAIN element,
         q \in DOMAIN element =>
            element'[q] = element[q] /\ value'[element[q]] = value[element[q]],
         recorded'[q] = recorded[q],
         free' \subseteq free
  PROVE  Solo(q)'
<1>1. \A r : Exact(q, r) => Exact(q, r)'
  BY DEF Exact
<1>2. ASSUME NEW d \in Running(q) PROVE HookExact(d, q)'
  <2>1. HookExact(d, q) /\ hook'[d] = hook[d]
    BY DEF Solo
  <2>2. \A r : Exact(q, r)' <=> Exact(q, r)'
    OBVIOUS
  <2> QED BY <1>1, <2>1 DEF HookExact, At, Exact
<1> QED BY <1>1, <1>2 DEF Solo, Exact

\* The step of c's hook moves its process's score along and no one else's.
LEMMA HookStepScore ==
  ASSUME TypeInv, ScoreInv, NEW c \in Cpus, NEW p \in Pids, NEW h \in Hooks,
         hook[c].at # "idle", hook[c].pid = p,
         hook' = [hook EXCEPT ![c] = h], h.at = "idle" \/ h.pid = p,
         UNCHANGED <<recorded, overlapped>>, free' \subseteq free,
         \A q \in Pids \ overlapped : q # p =>
            /\ q \in DOMAIN element' <=> q \in DOMAIN element
            /\ q \in DOMAIN element => /\ element'[q] = element[q]
                                       /\ value'[element[q]] = value[element[q]],
         p \notin overlapped =>
            IF h.at = "idle" THEN Exact(p, 0)' ELSE HookExact(c, p)'
  PROVE  \A q \in Pids \ overlapped' : Solo(q)'
<1>0. HookType
  BY DEF TypeInv
<1>1. ASSUME NEW q \in Pids \ overlapped, q # p PROVE Solo(q)'
  <2>1. c \notin Running(q) /\ (h.at = "idle" \/ h.pid # q)
    BY <1>1 DEF Running
  <2>2. Solo(q)
    BY DEF ScoreInv
  <2>3. Running(q)' = Running(q) /\ \A d \in Running(q) : d \in Cpus /\ hook'[d] = hook[d]
    BY <1>0, <2>1, OthersRun
  <2> QED BY <1>1, <2>2, <2>3, SoloKept
<1>2. ASSUME p \notin overlapped PROVE Solo(p)'
  <2>1. Running(p) = {c}
    BY <1>0, <1>2 DEF ScoreInv, Solo, Running
  <2>2. \A d \in Cpus : hook'[d] = IF d = c THEN h ELSE hook[d]
    BY <1>0 DEF HookType
  <2>3. CASE h.at = "idle"
    <3>1. Running(p)' = {}
      BY <2>1, <2>2, <2>3 DEF Running
    <3> QED BY <1>2, <2>3, <3>1 DEF Solo
  <2>4. CASE h.at # "idle"
    <3>1. Running(p)' = {c}
      BY <2>1, <2>2, <2>4 DEF Running
    <3> QED BY <1>2, <2>4, <3>1 DEF Solo
  <2> QED BY <2>3, <2>4
<1> QED BY <1>1, <1>2

LEMMA ReserveScore ==
  ASSUME TypeInv, ScoreInv, NEW c \in Cpus, NEW p \in Pids, NEW r \in Nat,
         Reserve(c, p, r)
  PROVE  ScoreInv'
<1> DEFINE h == [NoHook EXCEPT !.at = IF r = 0 THEN "submit" ELSE "lookup",
                               !.pid = p, !.raise = r, !.record = reserved']
<1>1. /\ hook[c].at = "idle" /\ hook' = [hook EXCEPT ![c] = h]
      /\ recorded' = [recorded EXCEPT ![p] = recorded[p] + r]
      /\ overlapped' = IF Running(p) = {} THEN overlapped ELSE overlapped \cup {p}
      /\ UNCHANGED <<element, value, free>>
      /\ reserved' \in Nat
  BY DEF Reserve, At, mapVars, TypeInv, RingType
<1>2. /\ h \in Hooks /\ h.at = (IF r = 0 THEN "submit" ELSE "lookup")
      /\ h.pid = p /\ h.raise = r
  BY <1>1 DEF NoHook, Hooks, Places
<1> HIDE DEF h
<1>3. \A d \in Cpus : hook'[d] = IF d = c THEN h ELSE hook[d]
  BY <1>1 DEF TypeInv, HookType
<1>4. Unshared'
  BY <1>1, <1>2, <1>3 DEF ScoreInv, Unshared, At
<1>5. ASSUME NEW q \in Pids \ overlapped', q # p PROVE Solo(q)'
  <2>1. Solo(q) /\ c \notin Running(q)
    BY <1>1 DEF ScoreInv, Running
  <2>2. Running(q)' = Running(q) /\ \A d \in Running(q) : d \in Cpus /\ hook'[d] = hook[d]
    BY <1>1, <1>2, <1>5, <2>1, OthersRun DEF TypeInv
  <2>3. recorded'[q] = recorded[q]
    BY <1>1, <1>5 DEF TypeInv, GhostType
  <2> QED BY <1>1, <2>1, <2>2, <2>3, SoloKept
<1>6. ASSUME p \notin overlapped' PROVE Solo(p)'
  <2>1. Running(p) = {} /\ Exact(p, 0)
    BY <1>1, <1>6 DEF ScoreInv, Solo
  <2>2. Running(p)' = {c}
    BY <1>2, <1>3, <2>1 DEF Running
  <2>3. recorded[p] \in Nat /\ recorded'[p] = recorded[p] + r
    BY <1>1 DEF TypeInv, GhostType
  <2>4. p \in DOMAIN element => value[element[p]] \in Nat
    BY DEF TypeInv, MapType
  <2>5. Exact(p, r)'
    <3>1. CASE p \in DOMAIN element
      BY <1>1, <2>1, <2>3, <2>4, <3>1 DEF Exact
    <3>2. CASE p \notin DOMAIN element
      BY <1>1, <2>1, <2>3, <3>2 DEF Exact
    <3> QED BY <3>1, <3>2
  <2>6. HookExact(c, p)'
    BY <1>2, <1>3, <2>5 DEF HookExact, Exact, At
  <2> QED BY <2>2, <2>6 DEF Solo
<1> QED BY <1>4, <1>5, <1>6 DEF ScoreInv

LEMMA LookupScore ==
  ASSUME TypeInv, ScoreInv, NEW c \in Cpus, Lookup(c)
  PROVE  ScoreInv'
<1>1. PICK p \in Pids : hook[c].pid = p /\ hook[c].at = "lookup"
  BY DEF Lookup, At, TypeInv, HookType, GoodHook
<1> DEFINE g == hook[c]
           h == IF p \in DOMAIN element
                THEN [g EXCEPT !.at = "load", !.elem = element[p]]
                ELSE [g EXCEPT !.at = "insert"]
<1>2. /\ hook' = [hook EXCEPT ![c] = h]
      /\ UNCHANGED <<element, value, free, recorded, overlapped>>
  BY <1>1 DEF Lookup, mapVars, ghostVars
<1>3. g \in Hooks
  BY DEF TypeInv, HookType
<1>4. /\ h \in Hooks /\ h.pid = p /\ h.raise = g.raise
      /\ IF p \in DOMAIN element THEN h.at = "load" /\ h.elem = element[p]
         ELSE h.at = "insert"
  <2>1. CASE p \in DOMAIN element
    BY <1>1, <1>3, <2>1 DEF Hooks, Places, TypeInv, MapType
  <2>2. CASE p \notin DOMAIN element
    BY <1>1, <1>3, <2>2 DEF Hooks, Places
  <2> QED BY <2>1, <2>2
<1> HIDE DEF h
<1>5. \A d \in Cpus : hook'[d] = IF d = c THEN h ELSE hook[d]
  BY <1>2 DEF TypeInv, HookType
<1>6. Unshared'
  BY <1>2, <1>4, <1>5 DEF ScoreInv, Unshared, At, TypeInv, MapType
<1>7. ASSUME p \notin overlapped PROVE HookExact(c, p)'
  <2>1. HookExact(c, p)
    BY <1>1, <1>7 DEF ScoreInv, Solo, Running
  <2>2. Exact(p, g.raise)
    BY <1>1, <2>1 DEF HookExact, At
  <2> QED BY <1>2, <1>4, <1>5, <2>2 DEF HookExact, Exact, At
<1>8. \A q \in Pids \ overlapped' : Solo(q)'
  <2>1. h.at # "idle"
    BY <1>4
  <2> QED BY <1>1, <1>2, <1>4, <1>7, <2>1, HookStepScore
<1> QED BY <1>6, <1>8 DEF ScoreInv

\* A solo process's key is new when its hook inserts it, and gets an element no
\* other hook has the address of.
LEMMA InsertScore ==
  ASSUME TypeInv, ScoreInv, NEW c \in Cpus, Insert(c)
  PROVE  ScoreInv'
<1>1. PICK p \in Pids : hook[c].pid = p /\ hook[c].at = "insert"
  BY DEF Insert, At, TypeInv, HookType, GoodHook
<1> DEFINE g == hook[c]
           h == [g EXCEPT !.at = "submit"]
<1>2. /\ hook' = [hook EXCEPT ![c] = h] /\ UpdateElem(c, p, g.raise)
      /\ UNCHANGED <<recorded, overlapped>>
  BY <1>1 DEF Insert, ghostVars
<1>3. g \in Hooks /\ g.raise \in Nat /\ MapType
  BY DEF TypeInv, HookType, Hooks
<1>4. h \in Hooks /\ h.pid = p /\ h.at = "submit" /\ h.raise = g.raise
  BY <1>1, <1>3 DEF Hooks, Places
<1> HIDE DEF h
<1>5. \A d \in Cpus : hook'[d] = IF d = c THEN h ELSE hook[d]
  BY <1>2 DEF TypeInv, HookType
<1>6. p \notin overlapped => HookExact(c, p) /\ p \notin DOMAIN element
  BY <1>1 DEF ScoreInv, Solo, Running, HookExact, At
<1>7. /\ free' \subseteq free
      /\ DOMAIN element \subseteq DOMAIN element'
      /\ \A q \in DOMAIN element' : q # p => /\ q \in DOMAIN element
                                             /\ element'[q] = element[q]
                                             /\ value'[element[q]] = value[element[q]]
      /\ p \notin DOMAIN element' => free' = {}
      /\ p \in DOMAIN element' /\ p \notin DOMAIN element =>
            element'[p] \in free \ free' /\ value'[element'[p]] = g.raise
  <2>1. CASE p \in DOMAIN element
    <3>1. /\ element' = [element EXCEPT ![p] = spare[c]]
          /\ value' = [value EXCEPT ![spare[c]] = g.raise] /\ free' = free
      BY <1>2, <2>1 DEF UpdateElem
    <3>2. DOMAIN element' = DOMAIN element
          /\ \A q \in DOMAIN element : q # p => element'[q] = element[q]
      BY <3>1 DEF MapType
    <3>3. \A q \in DOMAIN element : value'[element[q]] = value[element[q]]
      BY <1>3, <3>1 DEF MapType
    <3> QED BY <2>1, <3>1, <3>2, <3>3
  <2>2. CASE p \notin DOMAIN element /\ free = {}
    BY <1>2, <2>2 DEF UpdateElem, mapVars
  <2>3. CASE p \notin DOMAIN element /\ free # {}
    <3>1. /\ element' = [q \in DOMAIN element \cup {p} |->
                            IF q = p THEN SomeFree ELSE element[q]]
          /\ value' = [value EXCEPT ![SomeFree] = g.raise]
          /\ free' = free \ {SomeFree}
      BY <1>2, <2>3 DEF UpdateElem
    <3>2. SomeFree \in free
      BY <2>3 DEF SomeFree
    <3>3. \A q \in DOMAIN element : value'[element[q]] = value[element[q]]
      BY <1>3, <3>1, <3>2 DEF MapType
    <3>4. value'[SomeFree] = g.raise
      BY <1>3, <3>1, <3>2 DEF MapType
    <3> QED BY <2>3, <3>1, <3>2, <3>3, <3>4
  <2> QED BY <2>1, <2>2, <2>3
<1>8. Unshared'
  <2> SUFFICES ASSUME NEW d \in Cpus, hook'[d].at \in {"load", "store"}
               PROVE  /\ hook'[d].elem \notin free'
                      /\ \A q \in DOMAIN element' \ overlapped' :
                            hook'[d].elem = element'[q] => hook'[d].pid = q
    BY DEF Unshared, At
  <2>1. hook'[d] = hook[d] /\ d # c
    BY <1>4, <1>5
  <2>2. /\ hook[d].elem \notin free
        /\ \A q \in DOMAIN element \ overlapped :
              hook[d].elem = element[q] => hook[d].pid = q
    BY <2>1 DEF ScoreInv, Unshared, At
  <2> QED BY <1>2, <1>6, <1>7, <2>1, <2>2
<1>9. ASSUME p \notin overlapped PROVE HookExact(c, p)'
  <2>1. Exact(p, g.raise) /\ p \notin DOMAIN element
    BY <1>1, <1>6, <1>9 DEF HookExact, At
  <2>2. Exact(p, 0)'
    <3>1. CASE p \in DOMAIN element'
      <4>1. value'[element'[p]] = g.raise
        BY <1>7, <2>1, <3>1
      <4>2. recorded[p] = g.raise
        BY <1>7, <2>1, <3>1 DEF Exact
      <4> QED BY <1>2, <1>3, <3>1, <4>1, <4>2 DEF Exact
    <3>2. CASE p \notin DOMAIN element'
      BY <1>7, <3>2 DEF Exact
    <3> QED BY <3>1, <3>2
  <2> QED BY <1>4, <1>5, <2>2 DEF HookExact, Exact, At
<1>10. \A q \in Pids \ overlapped' : Solo(q)'
  <2>1. h.at # "idle" /\ g.at # "idle"
    BY <1>1, <1>4
  <2> QED BY <1>1, <1>2, <1>4, <1>7, <1>9, <2>1, HookStepScore
<1> QED BY <1>8, <1>10 DEF ScoreInv

LEMMA LoadScore ==
  ASSUME TypeInv, ScoreInv, NEW c \in Cpus, Load(c)
  PROVE  ScoreInv'
<1>1. PICK p \in Pids : hook[c].pid = p /\ hook[c].at = "load"
  BY DEF Load, At, TypeInv, HookType, GoodHook
<1> DEFINE g == hook[c]
           h == [g EXCEPT !.at = "store", !.score = value[g.elem]]
<1>2. /\ hook' = [hook EXCEPT ![c] = h]
      /\ UNCHANGED <<element, value, free, recorded, overlapped>>
  BY DEF Load, mapVars, ghostVars
<1>3. g \in Hooks /\ g.elem \in Elements /\ value[g.elem] \in Nat
  BY <1>1 DEF TypeInv, HookType, GoodHook, MapType
<1>4. /\ h \in Hooks /\ h.pid = p /\ h.raise = g.raise /\ h.at = "store"
      /\ h.elem = g.elem /\ h.score = value[g.elem]
  BY <1>1, <1>3 DEF Hooks, Places
<1> HIDE DEF h
<1>5. \A d \in Cpus : hook'[d] = IF d = c THEN h ELSE hook[d]
  BY <1>2 DEF TypeInv, HookType
<1>6. Unshared'
  BY <1>1, <1>2, <1>4, <1>5 DEF ScoreInv, Unshared, At
<1>7. ASSUME p \notin overlapped PROVE HookExact(c, p)'
  <2>1. HookExact(c, p)
    BY <1>1, <1>7 DEF ScoreInv, Solo, Running
  <2>2. Exact(p, g.raise) /\ p \in DOMAIN element /\ g.elem = element[p]
    BY <1>1, <2>1 DEF HookExact, At
  <2> QED BY <1>2, <1>4, <1>5, <2>2 DEF HookExact, Exact, At
<1>8. \A q \in Pids \ overlapped' : Solo(q)'
  <2>1. h.at # "idle"
    BY <1>4
  <2> QED BY <1>1, <1>2, <1>4, <1>7, <2>1, HookStepScore
<1> QED BY <1>6, <1>8 DEF ScoreInv

\* What is stored reaches no other process whose hooks do not overlap.
LEMMA StoreScore ==
  ASSUME TypeInv, ScoreInv, NEW c \in Cpus, Store(c)
  PROVE  ScoreInv'
<1>1. PICK p \in Pids : hook[c].pid = p /\ hook[c].at = "store"
  BY DEF Store, At, TypeInv, HookType, GoodHook
<1> DEFINE g == hook[c]
           h == [g EXCEPT !.at = "submit"]
<1>2. /\ hook' = [hook EXCEPT ![c] = h]
      /\ value' = [value EXCEPT ![g.elem] = g.score + g.raise]
      /\ UNCHANGED <<element, free, recorded, overlapped>>
  BY DEF Store, ghostVars
<1>3. g \in Hooks /\ g.elem \in Elements
  BY <1>1 DEF TypeInv, HookType, GoodHook
<1>4. h \in Hooks /\ h.pid = p /\ h.raise = g.raise /\ h.at = "submit"
  BY <1>1, <1>3 DEF Hooks, Places
<1> HIDE DEF h
<1>5. \A d \in Cpus : hook'[d] = IF d = c THEN h ELSE hook[d]
  BY <1>2 DEF TypeInv, HookType
<1>6. Unshared'
  BY <1>1, <1>2, <1>4, <1>5 DEF ScoreInv, Unshared, At
<1>7. ASSUME p \notin overlapped PROVE HookExact(c, p)'
  <2>1. HookExact(c, p)
    BY <1>1, <1>7 DEF ScoreInv, Solo, Running
  <2>2. /\ Exact(p, g.raise) /\ p \in DOMAIN element /\ g.elem = element[p]
        /\ g.score = value[element[p]]
    BY <1>1, <2>1 DEF HookExact, At
  <2>3. value'[element[p]] = g.score + g.raise
    BY <1>2, <1>3, <2>2 DEF TypeInv, MapType
  <2>4. g.score + g.raise = recorded[p] /\ recorded[p] \in Nat
    BY <2>2 DEF Exact, TypeInv, GhostType
  <2>5. Exact(p, 0)'
    BY <1>2, <2>2, <2>3, <2>4 DEF Exact
  <2> QED BY <1>4, <1>5, <2>5 DEF HookExact, Exact, At
<1>8. ASSUME NEW q \in Pids \ overlapped, q # p, q \in DOMAIN element
      PROVE  value'[element[q]] = value[element[q]]
  <2>1. g.elem # element[q]
    BY <1>1, <1>8 DEF ScoreInv, Unshared, At
  <2> QED BY <1>2, <2>1, <1>8 DEF TypeInv, MapType
<1>9. \A q \in Pids \ overlapped' : Solo(q)'
  <2>1. h.at # "idle" /\ g.at # "idle"
    BY <1>1, <1>4
  <2> QED BY <1>1, <1>2, <1>4, <1>7, <1>8, <2>1, HookStepScore
<1> QED BY <1>6, <1>9 DEF ScoreInv

LEMMA SubmitScore ==
  ASSUME TypeInv, ScoreInv, NEW c \in Cpus, Submit(c)
  PROVE  ScoreInv'
<1>1. PICK p \in Pids : hook[c].pid = p /\ hook[c].at = "submit"
  BY DEF Submit, At, TypeInv, HookType, GoodHook
<1>2. /\ hook' = [hook EXCEPT ![c] = NoHook]
      /\ UNCHANGED <<element, value, free, recorded, overlapped>>
  BY DEF Submit, mapVars, ghostVars
<1>3. NoHook \in Hooks /\ NoHook.at = "idle"
  BY DEF NoHook, Hooks, Places
<1>4. \A d \in Cpus : hook'[d] = IF d = c THEN NoHook ELSE hook[d]
  BY <1>2 DEF TypeInv, HookType
<1>5. Unshared'
  BY <1>2, <1>3, <1>4 DEF ScoreInv, Unshared, At
<1>6. ASSUME p \notin overlapped PROVE Exact(p, 0)'
  <2>1. HookExact(c, p)
    BY <1>1, <1>6 DEF ScoreInv, Solo, Running
  <2>2. Exact(p, 0)
    BY <1>1, <2>1 DEF HookExact, At
  <2> QED BY <1>2, <2>2 DEF Exact
<1>7. \A q \in Pids \ overlapped' : Solo(q)'
  <2>1. hook[c].at # "idle"
    BY <1>1
  <2> QED BY <1>1, <1>2, <1>3, <1>6, <2>1, HookStepScore
<1> QED BY <1>5, <1>7 DEF ScoreInv

LEMMA ScoreStep == TypeInv /\ ScoreInv /\ [Next]_vars => ScoreInv'
<1> SUFFICES ASSUME TypeInv, ScoreInv, [Next]_vars PROVE ScoreInv'
  OBVIOUS
<1>1. ASSUME NEW c \in Cpus, NEW p \in Pids, NEW h \in Watched, NEW r \in Raises[h],
             Reserve(c, p, r)
      PROVE  ScoreInv'
  BY <1>1, ReserveScore, RaisesAreNat
<1>2. ASSUME NEW c \in Cpus, HookStep(c) PROVE ScoreInv'
  BY <1>2, LookupScore, InsertScore, LoadScore, StoreScore, SubmitScore DEF HookStep
<1>3. CASE ReadRecord \/ UNCHANGED vars
  <2>1. UNCHANGED <<hook, element, value, free, recorded, overlapped>>
    BY <1>3 DEF ReadRecord, vars, mapVars, ghostVars
  <2> QED BY <2>1 DEF ScoreInv, Unshared, Solo, HookExact, Exact, Running, At
<1> QED BY <1>1, <1>2, <1>3 DEF Next

\* The inductive invariant of the hooks.
THEOREM HooksInvariant == Spec => []HooksInv
<1>1. Init => HooksInv
  BY TypeInit, ScoreInit DEF HooksInv
<1>2. HooksInv /\ [Next]_vars => HooksInv'
  BY TypeStep, ScoreStep DEF HooksInv
<1> QED BY <1>1, <1>2, PTL DEF Spec

\* An element of suspicion_map is never two processes', nor a process's and
\* spare or free at a time.
THEOREM HooksTypeCorrect == Spec => []TypeOK
<1>1. HooksInv => TypeOK
  <2> SUFFICES ASSUME TypeInv PROVE TypeOK
    BY DEF HooksInv
  <2>1. \A c \in Cpus : hook[c].pid \in Pids \cup {0}
    BY DEF TypeInv, HookType, Hooks
  <2>2. IsInjective(element) /\ IsInjective(spare)
    BY DEF TypeInv, MapType, IsInjective
  <2>3. /\ Range(element) = {element[p] : p \in DOMAIN element}
        /\ Range(spare) = {spare[c] : c \in Cpus}
    BY DEF Range, TypeInv, MapType
  <2>4. /\ {Range(element), Range(spare), free} \subseteq SUBSET Elements
        /\ Range(element) \cap Range(spare) = {}
        /\ Range(element) \cap free = {} /\ Range(spare) \cap free = {}
    BY <2>3 DEF TypeInv, MapType
  <2> QED BY <2>1, <2>2, <2>4 DEF TypeOK, TypeInv, MapType, RingType
<1> QED BY <1>1, HooksInvariant, PTL

\* Lost and misdirected additions of processes whose threads race do not reach
\* the score of one whose hooks never overlap.
THEOREM SoloScoresAreExact == Spec => []SoloScoreIsExact
<1>1. HooksInv => SoloScoreIsExact
  <2> SUFFICES ASSUME HooksInv, NEW p \in Pids \ overlapped
               PROVE  IF p \in DOMAIN element
                      THEN value[element[p]] + Owed(p) = recorded[p]
                      ELSE recorded[p] = Owed(p) \/ free = {}
    BY DEF SoloScoreIsExact
  <2>1. Solo(p) /\ TypeInv
    BY DEF HooksInv, ScoreInv
  <2> DEFINE owing == {c \in Running(p) : ~At(c, "submit")}
             f == [c \in owing |-> hook[c].raise]
  <2>2. Owed(p) = SumFunctionOnSet(f, owing)
    BY DEF Owed, SumFunction
  <2>3. CASE owing = {}
    <3>1. Owed(p) = 0
      <4> HIDE DEF f, owing
      <4> QED BY <2>2, <2>3, SumOfNone
    <3>2. Exact(p, 0)
      BY <2>1, <2>3 DEF Solo, HookExact
    <3> QED BY <3>1, <3>2 DEF Exact
  <2>4. ASSUME NEW c \in owing PROVE Exact(p, Owed(p))
    <3>1. owing = {c} /\ ~At(c, "submit")
      BY <2>1, <2>4 DEF Solo
    <3>2. hook[c].raise \in Nat
      BY <2>1, <2>4 DEF TypeInv, HookType, Hooks, Running
    <3>3. f[c] = hook[c].raise
      BY <2>4
    <3>4. Exact(p, hook[c].raise)
      BY <2>1, <3>1 DEF Solo, HookExact
    <3>5. Owed(p) = hook[c].raise
      <4> HIDE DEF f, owing
      <4>1. SumFunctionOnSet(f, {c} \ {c}) = 0
        <5>1. {c} \ {c} = {}
          OBVIOUS
        <5> QED BY <5>1, SumOfNone
      <4>2. IsFiniteSet({c})
        BY FS_Singleton
      <4>3. SumFunctionOnSet(f, {c}) = f[c] + SumFunctionOnSet(f, {c} \ {c})
        BY <3>2, <3>3, <4>2, SumWithout
      <4>4. SumFunctionOnSet(f, owing) = SumFunctionOnSet(f, {c})
        BY <3>1
      <4> QED BY <2>2, <3>2, <3>3, <4>1, <4>3, <4>4
    <3> QED BY <3>4, <3>5
  <2> QED BY <2>3, <2>4 DEF Exact
<1> QED BY <1>1, HooksInvariant, PTL

-----------------------------------------------------------------------------
(* The ring as a queue. *)

pids == [i \in DOMAIN ring |-> ring[i].pid]

LEMMA PidsAreSeq ==
  ASSUME NEW s \in Seq(Entry)
  PROVE  /\ [i \in DOMAIN s |-> s[i].pid] \in Seq(Pids)
         /\ Len([i \in DOMAIN s |-> s[i].pid]) = Len(s)
         /\ \A j \in 1..Len(s) : [i \in DOMAIN s |-> s[i].pid][j] = s[j].pid
<1>1. Len(s) \in Nat /\ DOMAIN s = 1..Len(s) /\ \A i \in 1..Len(s) : s[i] \in Entry
  BY LenProperties, ElementOfSeq
<1>2. [i \in DOMAIN s |-> s[i].pid] \in [1..Len(s) -> Pids]
  BY <1>1 DEF Entry
<1> QED BY <1>1, <1>2, LenProperties

LEMMA QueueStep == TypeInv /\ [Next]_vars => [Queue!Next]_<<pids, read>>
<1> SUFFICES ASSUME TypeInv, [Next]_vars PROVE [Queue!Next]_<<pids, read>>
  OBVIOUS
<1>0. /\ ring \in Seq(Entry) /\ Len(ring) \in Nat
      /\ pids \in Seq(Pids) /\ Len(pids) = Len(ring)
      /\ \A i \in 1..Len(ring) : pids[i] = ring[i].pid
  BY PidsAreSeq, LenProperties DEF TypeInv, RingType, pids
<1>00. TypeInv'
  BY TypeStep
<1>1. /\ ring' \in Seq(Entry) /\ Len(ring') \in Nat
      /\ pids' \in Seq(Pids) /\ Len(pids') = Len(ring')
      /\ \A i \in 1..Len(ring') : pids'[i] = ring'[i].pid
  BY <1>00, PidsAreSeq, LenProperties DEF TypeInv, RingType, pids
<1>2. ASSUME NEW c \in Cpus, NEW p \in Pids, NEW h \in Watched, NEW r \in Raises[h],
             Reserve(c, p, r)
      PROVE  Queue!Put(p)
  <2> DEFINE e == [n |-> reserved', pid |-> p, ready |-> FALSE]
  <2>1. ring' = Append(ring, e) /\ Len(ring) < RingCap /\ read' = read
    BY <1>2 DEF Reserve
  <2>2. e \in Entry /\ e.pid = p
    BY <1>00 DEF Entry, TypeInv, RingType
  <2> HIDE DEF e
  <2>3. Len(ring') = Len(ring) + 1 /\ ring'[Len(ring) + 1] = e
        /\ \A i \in 1..Len(ring) : ring'[i] = ring[i]
    BY <1>0, <2>1, <2>2, AppendProperties
  <2>4. /\ Append(pids, p) \in Seq(Pids) /\ Len(Append(pids, p)) = Len(pids) + 1
        /\ Append(pids, p)[Len(pids) + 1] = p
        /\ \A i \in 1..Len(pids) : Append(pids, p)[i] = pids[i]
    BY <1>0, AppendProperties
  <2>5. \A i \in 1..Len(pids') : pids'[i] = Append(pids, p)[i]
    <3> SUFFICES ASSUME NEW i \in 1..(Len(ring) + 1) PROVE pids'[i] = Append(pids, p)[i]
      BY <1>1, <2>3
    <3>1. CASE i \in 1..Len(ring)
      BY <1>0, <1>1, <2>3, <2>4, <3>1
    <3>2. CASE i = Len(ring) + 1
      BY <1>0, <1>1, <2>2, <2>3, <2>4, <3>2
    <3>3. i \in 1..Len(ring) \/ i = Len(ring) + 1
      BY <1>0
    <3> QED BY <3>1, <3>2, <3>3
  <2>6. pids' = Append(pids, p)
    <3>1. Len(pids') = Len(Append(pids, p))
      BY <1>0, <1>1, <2>3, <2>4
    <3> QED BY <1>1, <2>4, <2>5, <3>1, SeqEqual
  <2> QED BY <1>0, <2>1, <2>6 DEF Queue!Put, pids
<1>3. CASE ReadRecord
  <2>1. ring # << >> /\ ring' = Tail(ring) /\ read' = read + 1
    BY <1>3 DEF ReadRecord
  <2>2. Len(ring') = Len(ring) - 1 /\ \A i \in 1..Len(ring') : ring'[i] = ring[i + 1]
    BY <1>0, <2>1, HeadTailProperties
  <2>3. Len(ring) > 0
    BY <1>0, <2>1, EmptySeq
  <2>4. pids # << >>
    BY <1>0, <2>3, EmptySeq
  <2>5. /\ Tail(pids) \in Seq(Pids) /\ Len(Tail(pids)) = Len(pids) - 1
        /\ \A i \in 1..Len(Tail(pids)) : Tail(pids)[i] = pids[i + 1]
    BY <1>0, <2>4, HeadTailProperties
  <2>6. \A i \in 1..Len(pids') : pids'[i] = Tail(pids)[i]
    <3> SUFFICES ASSUME NEW i \in 1..(Len(ring) - 1) PROVE pids'[i] = Tail(pids)[i]
      BY <1>1, <2>2
    <3>1. i + 1 \in 1..Len(ring)
      BY <1>0
    <3> QED BY <1>0, <1>1, <2>2, <2>5, <3>1
  <2>7. pids' = Tail(pids)
    <3>1. Len(pids') = Len(Tail(pids))
      BY <1>0, <1>1, <2>2, <2>5
    <3> QED BY <1>1, <2>5, <2>6, <3>1, SeqEqual
  <2> QED BY <2>1, <2>4, <2>7 DEF Queue!Next, Queue!Take, pids
<1>4. ASSUME NEW c \in Cpus, Submit(c) PROVE UNCHANGED <<pids, read>>
  <2>1. ring' = Readied(hook[c].record) /\ read' = read
    BY <1>4 DEF Submit, Readied
  <2>2. DOMAIN ring' = DOMAIN ring /\ \A i \in DOMAIN ring : ring'[i].pid = ring[i].pid
    BY <2>1, ReadiedFacts DEF TypeInv
  <2> QED BY <2>1, <2>2 DEF pids
<1>5. ASSUME NEW c \in Cpus, HookStep(c) PROVE UNCHANGED <<pids, read>>
  <2>1. CASE Lookup(c) \/ Insert(c) \/ Load(c) \/ Store(c)
    BY <2>1 DEF Lookup, Insert, Load, Store, ringVars, pids
  <2> QED BY <1>4, <1>5, <2>1 DEF HookStep
<1>6. CASE UNCHANGED vars
  BY <1>6 DEF vars, ringVars, pids
<1> QED BY <1>2, <1>3, <1>5, <1>6 DEF Next, Queue!Next, pids

\* Records that are reserved and submitted apart, on several CPUs, are to the
\* loader a queue of bounded length into which each is put in one step.
THEOREM RingIsAQueue == Spec => Queue!SafeSpec
<1>1. Init => Queue!Init
  <2> SUFFICES ASSUME Init PROVE Queue!Init
    OBVIOUS
  <2>1. pids = << >>
    BY DEF Init, pids
  <2> QED BY <2>1 DEF Init, Queue!Init, pids
<1>2. HooksInv /\ [Next]_vars => [Queue!Next]_<<pids, read>>
  BY QueueStep DEF HooksInv
<1> QED BY <1>1, <1>2, HooksInvariant, PTL DEF Spec, Queue!SafeSpec, pids
=============================================================================
