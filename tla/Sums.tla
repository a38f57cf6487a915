-------------------------------- MODULE Sums --------------------------------
(***************************************************************************)
(* Sums of a function over a finite set, the community module's            *)
(* SumFunctionOnSet, in which the modules of the project state what adds   *)
(* up: what may be unfolded of them, and what a sum becomes when one       *)
(* summand changes.  Nothing here is about the loader.                     *)
(*                                                                         *)
(* The operator is a recursive function inside a CHOOSE.  That the function*)
(* exists and is unique is proved by induction, with a set of numbers in   *)
(* the place of the predicate: a set of numbers that is not empty has a    *)
(* least member.                                                           *)
(***************************************************************************)
EXTENDS Integers, FiniteSets, Functions, FiniteSetTheorems, WellFoundedInduction, TLAPS

-----------------------------------------------------------------------------
(* Induction. *)

\* Induction over the numbers, for a set of them.
LEMMA SetOfNumbers ==
  ASSUME NEW P \in SUBSET Nat, 0 \in P, \A n \in P : n + 1 \in P
  PROVE  P = Nat
<1>1. SUFFICES ASSUME Nat \ P # {} PROVE FALSE
  OBVIOUS
<1>2. PICK n \in Nat \ P : \A m \in Nat \ P : ~(<<m, n>> \in OpToRel(<, Nat))
  BY <1>1, NatLessThanWellFounded, WFMin
<1>3. \A m \in Nat \ P : ~(m < n)
  BY <1>2 DEF OpToRel
<1>4. n # 0 /\ n - 1 \in Nat
  OBVIOUS
<1>5. n - 1 \in P
  BY <1>3, <1>4
<1> QED BY <1>4, <1>5

\* Induction over the subsets of a finite set, for a set of them.
LEMMA SetOfSubsets ==
  ASSUME NEW S, IsFiniteSet(S), NEW P \in SUBSET SUBSET S,
         \A T \in SUBSET S : (\A x \in T : T \ {x} \in P) => T \in P
  PROVE  P = SUBSET S
<1> DEFINE N == {n \in Nat : \A T \in SUBSET S : Cardinality(T) = n => T \in P}
<1>1. \A T \in SUBSET S : IsFiniteSet(T) /\ Cardinality(T) \in Nat
  BY FS_Subset, FS_CardinalityType
<1>2. 0 \in N
  BY <1>1, FS_EmptySet
<1>3. ASSUME NEW n \in N PROVE n + 1 \in N
  <2>1. SUFFICES ASSUME NEW T \in SUBSET S, Cardinality(T) = n + 1 PROVE T \in P
    OBVIOUS
  <2>2. \A x \in T : T \ {x} \in SUBSET S /\ Cardinality(T \ {x}) = n
    BY <1>1, <2>1, FS_RemoveElement
  <2> QED BY <2>2
<1>4. N = Nat
  <2> HIDE DEF N
  <2>1. N \in SUBSET Nat
    BY DEF N
  <2> QED BY <1>2, <1>3, <2>1, SetOfNumbers
<1> QED BY <1>1, <1>4

-----------------------------------------------------------------------------
(* The recursive function behind a sum. *)

Picked(s) == CHOOSE x \in s : TRUE

Body(f, S, h) ==
    [s \in SUBSET S |-> IF s = {} THEN 0 ELSE f[Picked(s)] + h[s \ {Picked(s)}]]

LEMMA PickedIsMember == \A s : s # {} => Picked(s) \in s
  BY DEF Picked

LEMMA SumIsIterated ==
  ASSUME NEW f, NEW S
  PROVE  SumFunctionOnSet(f, S) = (CHOOSE h : h = Body(f, S, h))[S]
  BY Zenon DEF SumFunctionOnSet, FoldFunctionOnSet, MapThenFoldSet, Body, Picked

\* The function exists: it is made longer one cardinality at a time.
LEMMA BodyHasFixpoint ==
  ASSUME NEW f, NEW S, IsFiniteSet(S)
  PROVE  \E h : h = Body(f, S, h)
<1> DEFINE Upto(n) == {s \in SUBSET S : Cardinality(s) <= n}
           Value(h, s) == IF s = {} THEN 0 ELSE f[Picked(s)] + h[s \ {Picked(s)}]
           N == {n \in Nat : \E h : h = [s \in Upto(n) |-> Value(h, s)]}
<1>1. \A s \in SUBSET S : IsFiniteSet(s) /\ Cardinality(s) \in Nat
  BY FS_Subset, FS_CardinalityType
<1>2. \A s \in SUBSET S : s # {} =>
         /\ s \ {Picked(s)} \in SUBSET S
         /\ Cardinality(s \ {Picked(s)}) = Cardinality(s) - 1
  BY <1>1, PickedIsMember, FS_RemoveElement
<1>3. 0 \in N
  <2>1. \A s \in Upto(0) : s = {}
    BY <1>1, FS_EmptySet
  <2>2. [s \in Upto(0) |-> 0] = [s \in Upto(0) |-> Value([t \in Upto(0) |-> 0], s)]
    BY <2>1
  <2> QED BY <2>2
<1>4. ASSUME NEW n \in N PROVE n + 1 \in N
  <2>1. PICK h : h = [s \in Upto(n) |-> Value(h, s)]
    OBVIOUS
  <2> DEFINE g == [s \in Upto(n + 1) |-> Value(h, s)]
  <2>2. \A s \in Upto(n) : s \in Upto(n + 1) /\ g[s] = h[s]
    <3>1. Upto(n) \subseteq Upto(n + 1)
      BY <1>1
    <3> HIDE DEF Upto, Value
    <3> QED BY <2>1, <3>1
  <2>3. \A s \in Upto(n + 1) : s # {} => s \ {Picked(s)} \in Upto(n)
    BY <1>1, <1>2
  <2>4. \A s \in Upto(n + 1) : Value(h, s) = Value(g, s)
    <3> HIDE DEF Upto, g
    <3> QED BY <2>2, <2>3
  <2>5. g = [s \in Upto(n + 1) |-> Value(g, s)]
    <3> HIDE DEF Upto, Value
    <3>1. \A s \in Upto(n + 1) : g[s] = Value(g, s)
      BY <2>4
    <3>2. g = [s \in Upto(n + 1) |-> g[s]]
      OBVIOUS
    <3> HIDE DEF g
    <3> QED BY <3>1, <3>2
  <2>6. n + 1 \in Nat
    OBVIOUS
  <2> HIDE DEF Upto, Value, g
  <2> QED BY <2>5, <2>6
<1>5. N = Nat
  <2> HIDE DEF N
  <2>1. N \in SUBSET Nat
    BY DEF N
  <2> QED BY <1>3, <1>4, <2>1, SetOfNumbers
<1>6. Cardinality(S) \in N
  BY <1>5, FS_CardinalityType
<1>7. Upto(Cardinality(S)) = SUBSET S
  BY FS_Subset
<1>8. PICK h : h = [s \in Upto(Cardinality(S)) |-> Value(h, s)]
  BY <1>6
<1> HIDE DEF Upto
<1> QED BY <1>7, <1>8 DEF Body

\* The function is unique, also for another set around the one summed over.
LEMMA FixpointsAgree ==
  ASSUME NEW f, NEW S, IsFiniteSet(S), NEW T \in SUBSET S,
         NEW g, g = Body(f, S, g), NEW h, h = Body(f, T, h)
  PROVE  g[T] = h[T]
<1> DEFINE P == {s \in SUBSET T : g[s] = h[s]}
<1>1. \A s \in SUBSET T :
         /\ g[s] = IF s = {} THEN 0 ELSE f[Picked(s)] + g[s \ {Picked(s)}]
         /\ h[s] = IF s = {} THEN 0 ELSE f[Picked(s)] + h[s \ {Picked(s)}]
  <2>1. \A s \in SUBSET T : s \in SUBSET S
    OBVIOUS
  <2> QED BY <2>1 DEF Body
<1>2. IsFiniteSet(T)
  BY FS_Subset
<1>3. \A s \in SUBSET T : (\A x \in s : s \ {x} \in P) => s \in P
  BY <1>1, PickedIsMember
<1> HIDE DEF P
<1>4. P \in SUBSET SUBSET T
  BY DEF P
<1>5. P = SUBSET T
  BY <1>2, <1>3, <1>4, SetOfSubsets
<1> QED BY <1>5 DEF P

LEMMA SumUnfolds ==
  ASSUME NEW f, NEW S, IsFiniteSet(S)
  PROVE  SumFunctionOnSet(f, S) =
            IF S = {} THEN 0
            ELSE f[Picked(S)] + SumFunctionOnSet(f, S \ {Picked(S)})
<1> DEFINE T == S \ {Picked(S)}
           g == CHOOSE h : h = Body(f, S, h)
           k == CHOOSE h : h = Body(f, T, h)
<1>1. IsFiniteSet(T) /\ T \in SUBSET S
  BY FS_Subset
<1>2. g = Body(f, S, g) /\ k = Body(f, T, k)
  <2> HIDE DEF T
  <2> QED BY <1>1, BodyHasFixpoint
<1>3. SumFunctionOnSet(f, S) = g[S] /\ SumFunctionOnSet(f, T) = k[T]
  BY SumIsIterated
<1> HIDE DEF g, k
<1>4. g[T] = k[T]
  BY <1>1, <1>2, FixpointsAgree
<1>5. g[S] = IF S = {} THEN 0 ELSE f[Picked(S)] + g[T]
  BY <1>2 DEF Body
<1> QED BY <1>3, <1>4, <1>5

-----------------------------------------------------------------------------
(* What the other modules use. *)

LEMMA SumOfNone ==
  ASSUME NEW f
  PROVE  SumFunctionOnSet(f, {}) = 0
  BY SumUnfolds, FS_EmptySet

LEMMA SumOfInts ==
  ASSUME NEW f, NEW S, IsFiniteSet(S), \A x \in S : f[x] \in Int
  PROVE  SumFunctionOnSet(f, S) \in Int
<1> DEFINE P == {T \in SUBSET S : SumFunctionOnSet(f, T) \in Int}
<1>1. ASSUME NEW T \in SUBSET S, \A x \in T : T \ {x} \in P PROVE T \in P
  <2>1. IsFiniteSet(T)
    BY FS_Subset
  <2>2. CASE T = {}
    BY <2>2, SumOfNone
  <2>3. CASE T # {}
    <3>1. Picked(T) \in T /\ f[Picked(T)] \in Int
      BY <2>3, PickedIsMember
    <3>2. SumFunctionOnSet(f, T \ {Picked(T)}) \in Int
      BY <1>1, <3>1
    <3>3. SumFunctionOnSet(f, T) = f[Picked(T)] + SumFunctionOnSet(f, T \ {Picked(T)})
      BY <2>1, <2>3, SumUnfolds
    <3> QED BY <3>1, <3>2, <3>3
  <2> QED BY <2>2, <2>3
<1>2. P \in SUBSET SUBSET S
  OBVIOUS
<1> HIDE DEF P
<1>3. P = SUBSET S
  BY <1>1, <1>2, SetOfSubsets
<1> QED BY <1>3 DEF P

\* Picked member may be taken out first.
LEMMA SumWithout ==
  ASSUME NEW f, NEW S, IsFiniteSet(S), \A y \in S : f[y] \in Int, NEW x \in S
  PROVE  SumFunctionOnSet(f, S) = f[x] + SumFunctionOnSet(f, S \ {x})
<1> DEFINE Sum(T) == SumFunctionOnSet(f, T)
           P == {T \in SUBSET S : \A y \in T : Sum(T) = f[y] + Sum(T \ {y})}
<1>1. \A T \in SUBSET S : IsFiniteSet(T) /\ Sum(T) \in Int
  BY FS_Subset, SumOfInts
<1>2. ASSUME NEW T \in SUBSET S, \A y \in T : T \ {y} \in P PROVE T \in P
  <2>1. SUFFICES ASSUME NEW y \in T PROVE Sum(T) = f[y] + Sum(T \ {y})
    OBVIOUS
  <2> DEFINE z == Picked(T)
  <2>2. z \in T
    BY PickedIsMember
  <2>3. Sum(T) = f[z] + Sum(T \ {z})
    BY <1>1, SumUnfolds
  <2> HIDE DEF z, Sum
  <2>4. CASE y = z
    BY <2>3, <2>4
  <2>5. CASE y # z
    <3>1. Sum(T \ {z}) = f[y] + Sum((T \ {z}) \ {y})
      BY <1>2, <2>2, <2>5
    <3>2. Sum(T \ {y}) = f[z] + Sum((T \ {y}) \ {z})
      BY <1>2, <2>2, <2>5
    <3>3. (T \ {y}) \ {z} = (T \ {z}) \ {y} /\ (T \ {z}) \ {y} \in SUBSET S
      OBVIOUS
    <3>4. f[y] \in Int /\ f[z] \in Int /\ Sum((T \ {z}) \ {y}) \in Int
      BY <1>1, <2>2, <3>3
    <3>5. Sum(T) = f[z] + (f[y] + Sum((T \ {z}) \ {y}))
      BY <2>3, <3>1
    <3>6. Sum(T \ {y}) = f[z] + Sum((T \ {z}) \ {y})
      BY <3>2, <3>3
    <3> QED BY <3>4, <3>5, <3>6
  <2> QED BY <2>4, <2>5
<1>3. P \in SUBSET SUBSET S
  OBVIOUS
<1> HIDE DEF P
<1>4. P = SUBSET S
  BY <1>2, <1>3, SetOfSubsets
<1> QED BY <1>4 DEF P

\* Only the summands matter.
LEMMA SumOfSame ==
  ASSUME NEW f, NEW g, NEW S, IsFiniteSet(S), \A x \in S : f[x] = g[x]
  PROVE  SumFunctionOnSet(f, S) = SumFunctionOnSet(g, S)
<1> DEFINE P == {T \in SUBSET S : SumFunctionOnSet(f, T) = SumFunctionOnSet(g, T)}
<1>1. ASSUME NEW T \in SUBSET S, \A x \in T : T \ {x} \in P PROVE T \in P
  <2>1. IsFiniteSet(T)
    BY FS_Subset
  <2>2. CASE T = {}
    BY <2>2, SumOfNone
  <2>3. CASE T # {}
    <3>1. Picked(T) \in T /\ f[Picked(T)] = g[Picked(T)] /\ T \ {Picked(T)} \in P
      BY <1>1, <2>3, PickedIsMember
    <3>2. SumFunctionOnSet(f, T) = f[Picked(T)] + SumFunctionOnSet(f, T \ {Picked(T)})
      BY <2>1, <2>3, SumUnfolds
    <3>3. SumFunctionOnSet(g, T) = g[Picked(T)] + SumFunctionOnSet(g, T \ {Picked(T)})
      BY <2>1, <2>3, SumUnfolds
    <3> QED BY <3>1, <3>2, <3>3
  <2> QED BY <2>2, <2>3
<1>2. P \in SUBSET SUBSET S
  OBVIOUS
<1> HIDE DEF P
<1>3. P = SUBSET S
  BY <1>1, <1>2, SetOfSubsets
<1> QED BY <1>3 DEF P

\* Where f and g differ in one summand, so do their sums.
LEMMA SumOfChanged ==
  ASSUME NEW f, NEW g, NEW S, IsFiniteSet(S), NEW x \in S,
         \A y \in S : f[y] \in Int /\ g[y] \in Int,
         \A y \in S \ {x} : f[y] = g[y]
  PROVE  SumFunctionOnSet(g, S) = SumFunctionOnSet(f, S) - f[x] + g[x]
<1>1. IsFiniteSet(S \ {x})
  BY FS_RemoveElement
<1>2. SumFunctionOnSet(f, S \ {x}) = SumFunctionOnSet(g, S \ {x})
  BY <1>1, SumOfSame
<1>3. SumFunctionOnSet(f, S \ {x}) \in Int
  BY <1>1, SumOfInts
<1>4. SumFunctionOnSet(f, S) = f[x] + SumFunctionOnSet(f, S \ {x})
  BY SumWithout
<1>5. SumFunctionOnSet(g, S) = g[x] + SumFunctionOnSet(g, S \ {x})
  BY SumWithout
<1> QED BY <1>2, <1>3, <1>4, <1>5

\* A summand that was not there is added.
LEMMA SumOfExtended ==
  ASSUME NEW f, NEW g, NEW S, IsFiniteSet(S), NEW x, x \notin S, g[x] \in Int,
         \A y \in S : f[y] \in Int /\ f[y] = g[y]
  PROVE  SumFunctionOnSet(g, S \cup {x}) = SumFunctionOnSet(f, S) + g[x]
<1> DEFINE T == S \cup {x}
<1>1. IsFiniteSet(T) /\ T \ {x} = S /\ x \in T /\ \A y \in T : g[y] \in Int
  BY FS_AddElement
<1> HIDE DEF T
<1>2. SumFunctionOnSet(g, T) = g[x] + SumFunctionOnSet(g, S)
  BY <1>1, SumWithout
<1>3. SumFunctionOnSet(g, S) = SumFunctionOnSet(f, S)
  BY SumOfSame
<1>4. SumFunctionOnSet(f, S) \in Int
  BY SumOfInts
<1> QED BY <1>2, <1>3, <1>4 DEF T

\* Equal summands.
LEMMA SumOfEqual ==
  ASSUME NEW f, NEW S, IsFiniteSet(S), NEW c \in Int, \A x \in S : f[x] = c
  PROVE  SumFunctionOnSet(f, S) = Cardinality(S) * c
<1> DEFINE P == {T \in SUBSET S : SumFunctionOnSet(f, T) = Cardinality(T) * c}
<1>1. ASSUME NEW T \in SUBSET S, \A x \in T : T \ {x} \in P PROVE T \in P
  <2>1. IsFiniteSet(T)
    BY FS_Subset
  <2>2. CASE T = {}
    <3>1. Cardinality(T) = 0
      BY <2>2, FS_EmptySet
    <3>2. Cardinality(T) * c = 0
      BY <3>1
    <3> QED BY <2>2, <3>2, SumOfNone
  <2>3. CASE T # {}
    <3> DEFINE x == Picked(T)
               n == Cardinality(T \ {x})
    <3>1. x \in T /\ f[x] = c /\ T \ {x} \in P
      BY <1>1, <2>3, PickedIsMember
    <3>2. SumFunctionOnSet(f, T) = f[x] + SumFunctionOnSet(f, T \ {x})
      BY <2>1, <2>3, SumUnfolds
    <3>3. SumFunctionOnSet(f, T \ {x}) = n * c
      BY <3>1
    <3> HIDE DEF x
    <3>4. Cardinality(T) = n + 1 /\ n \in Nat
      <4>1. IsFiniteSet(T \ {x}) /\ n = Cardinality(T) - 1
        BY <2>1, <3>1, FS_RemoveElement
      <4>2. n \in Nat /\ Cardinality(T) \in Nat
        BY <2>1, <4>1, FS_CardinalityType
      <4> QED BY <4>1, <4>2
    <3> HIDE DEF n
    <3>5. c + n * c = (n + 1) * c
      BY <3>4

    <3> QED BY <3>1, <3>2, <3>3, <3>4, <3>5
  <2> QED BY <2>2, <2>3
<1>2. P \in SUBSET SUBSET S
  OBVIOUS
<1> HIDE DEF P
<1>3. P = SUBSET S
  BY <1>1, <1>2, SetOfSubsets
<1> QED BY <1>3 DEF P

\* A sum of natural numbers is one, and no summand exceeds it.
LEMMA SumOfNats ==
  ASSUME NEW f, NEW S, IsFiniteSet(S), \A x \in S : f[x] \in Nat
  PROVE  /\ SumFunctionOnSet(f, S) \in Nat
         /\ \A x \in S : f[x] <= SumFunctionOnSet(f, S)
<1> DEFINE P == {T \in SUBSET S : SumFunctionOnSet(f, T) \in Nat}
<1>1. ASSUME NEW T \in SUBSET S, \A x \in T : T \ {x} \in P PROVE T \in P
  <2>1. IsFiniteSet(T)
    BY FS_Subset
  <2>2. CASE T = {}
    BY <2>2, SumOfNone
  <2>3. CASE T # {}
    <3>1. Picked(T) \in T /\ f[Picked(T)] \in Nat
      BY <2>3, PickedIsMember
    <3>2. SumFunctionOnSet(f, T \ {Picked(T)}) \in Nat
      BY <1>1, <3>1
    <3>3. SumFunctionOnSet(f, T) = f[Picked(T)] + SumFunctionOnSet(f, T \ {Picked(T)})
      BY <2>1, <2>3, SumUnfolds
    <3> QED BY <3>1, <3>2, <3>3
  <2> QED BY <2>2, <2>3
<1>2. P \in SUBSET SUBSET S
  OBVIOUS
<1> HIDE DEF P
<1>3. P = SUBSET S
  BY <1>1, <1>2, SetOfSubsets
<1>4. \A T \in SUBSET S : SumFunctionOnSet(f, T) \in Nat
  BY <1>3 DEF P
<1>5. ASSUME NEW x \in S PROVE f[x] <= SumFunctionOnSet(f, S)
  <2>1. SumFunctionOnSet(f, S) = f[x] + SumFunctionOnSet(f, S \ {x})
    BY SumWithout
  <2>2. SumFunctionOnSet(f, S \ {x}) \in Nat
    BY <1>4
  <2> QED BY <2>1, <2>2
<1> QED BY <1>4, <1>5

\* The summands of g are a times those of f, and c.
Linear(f, g, S, a, c) == \A x \in S : f[x] \in Int /\ g[x] = a * f[x] + c

LEMMA SumLinear ==
  ASSUME NEW f, NEW g, NEW S, IsFiniteSet(S), NEW a \in Int, NEW c \in Int,
         Linear(f, g, S, a, c)
  PROVE  SumFunctionOnSet(g, S) = a * SumFunctionOnSet(f, S) + c * Cardinality(S)
<1> DEFINE Sf(T) == SumFunctionOnSet(f, T)
           Sg(T) == SumFunctionOnSet(g, T)
           P == {T \in SUBSET S : Sg(T) = a * Sf(T) + c * Cardinality(T)}
<1>1. ASSUME NEW T \in SUBSET S, \A x \in T : T \ {x} \in P PROVE T \in P
  <2>1. IsFiniteSet(T)
    BY FS_Subset
  <2>2. CASE T = {}
    <3>1. Cardinality(T) = 0 /\ Sf(T) = 0 /\ Sg(T) = 0
      BY <2>2, FS_EmptySet, SumOfNone
    <3>2. a * Sf(T) = 0 /\ c * Cardinality(T) = 0
      BY <3>1
    <3> QED BY <3>1, <3>2
  <2>3. CASE T # {}
    <3> DEFINE x == Picked(T)
               U == T \ {x}
               s == Sf(U)
               n == Cardinality(U)
    <3>1. x \in T /\ f[x] \in Int /\ g[x] = a * f[x] + c /\ U \in P
      BY <1>1, <2>3, PickedIsMember DEF Linear
    <3>2. Sf(T) = f[x] + Sf(U) /\ Sg(T) = g[x] + Sg(U)
      BY <2>1, <2>3, SumUnfolds
    <3>3. Sg(U) = a * s + c * n
      BY <3>1
    <3>4. IsFiniteSet(U) /\ n \in Nat /\ Cardinality(T) = n + 1
      <4> HIDE DEF x
      <4>1. IsFiniteSet(U) /\ n = Cardinality(T) - 1
        BY <2>1, <3>1, FS_RemoveElement
      <4>2. n \in Nat /\ Cardinality(T) \in Nat
        BY <2>1, <4>1, FS_CardinalityType
      <4> QED BY <4>1, <4>2
    <3>5. s \in Int
      <4> HIDE DEF x
      <4>1. \A y \in U : f[y] \in Int
        BY DEF Linear
      <4> HIDE DEF U
      <4> QED BY <3>4, <4>1, SumOfInts
    <3> HIDE DEF x, U, s, n
    <3>6. a * (f[x] + s) = a * f[x] + a * s /\ c * (n + 1) = c * n + c
          /\ a * f[x] \in Int /\ a * s \in Int /\ c * n \in Int
      <4>1. /\ \A i, j, k \in Int : i * (j + k) = i * j + i * k
            /\ \A i, j \in Int : i * j \in Int
            /\ \A i \in Int : i * 1 = i
        OBVIOUS
      <4>2. n \in Int /\ 1 \in Int
        BY <3>4
      <4> QED BY <3>1, <3>5, <4>1, <4>2
    <3>7. Sf(T) = f[x] + s
      BY <3>2 DEF s
    <3> HIDE DEF Sf, Sg
    <3>8. Sg(T) = a * Sf(T) + c * Cardinality(T)
      BY <3>1, <3>2, <3>3, <3>4, <3>6, <3>7
    <3> QED BY <3>8
  <2> QED BY <2>2, <2>3
<1>2. P \in SUBSET SUBSET S
  OBVIOUS
<1> HIDE DEF P
<1>3. P = SUBSET S
  BY <1>1, <1>2, SetOfSubsets
<1> QED BY <1>3 DEF P
=============================================================================
