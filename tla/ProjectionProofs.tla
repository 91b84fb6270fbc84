--------------------------- MODULE ProjectionProofs ---------------------------
(***************************************************************************)
(* What the sequence of portfolio rules promises, for any assets, markets, *)
(* limits and portfolios, and the sums over finite sets it rests on.       *)
(*                                                                         *)
(* The argument: a scaling rounds toward zero; after the first two rules   *)
(* every rule only takes from positions that can be traded, so a limit     *)
(* that was met stays met; the turnover limit, the last rule, goes back    *)
(* toward the current portfolio, to somewhere between the two.             *)
(*                                                                         *)
(* Induction over finite sets is stated for a set of sets, not for a       *)
(* predicate, and follows from the order of the natural numbers.           *)
(***************************************************************************)
EXTENDS ConstraintProjection, FiniteSetTheorems, WellFoundedInduction, TLAPS

-----------------------------------------------------------------------------
(***************************************************************************)
(* Induction over the subsets of a finite set.                             *)
(***************************************************************************)

\* A bounded set of numbers has a largest one.
LEMMA LargestUpTo ==
  ASSUME NEW n \in Nat, NEW S \in SUBSET (0..n), S # {}
  PROVE  \E t \in S : \A u \in S : u <= t
<1> DEFINE Left == {n - u : u \in S}
<1>1. Left \in SUBSET Nat /\ Left # {}
  <2>1. \A u \in S : n - u \in Nat
    OBVIOUS
  <2>2. PICK u \in S : TRUE
    OBVIOUS
  <2>3. n - u \in Left
    BY <2>2
  <2> QED BY <2>1, <2>3
<1> HIDE DEF Left
<1>2. PICK l \in Left : \A k \in Left : <<k, l>> \notin OpToRel(<, Nat)
  BY <1>1, NatLessThanWellFounded, WFMin
<1>3. PICK t \in S : l = n - t
  BY <1>2 DEF Left
<1>4. ASSUME NEW u \in S PROVE u <= t
  <2>1. n - u \in Left /\ n - u \in Nat /\ l \in Nat
    BY <1>1 DEF Left
  <2>2. ~(n - u < l)
    BY <1>2, <2>1 DEF OpToRel
  <2>3. u \in 0..n /\ t \in 0..n
    BY <1>3
  <2> QED BY <1>3, <2>2, <2>3
<1> QED BY <1>4

\* A family of subsets of S that has each subset whose proper parts with one
\* member less it has, has every subset.
LEMMA EverySubset ==
  ASSUME NEW S, IsFiniteSet(S), NEW G \in SUBSET SUBSET S,
         \A T \in SUBSET S : (\A x \in T : T \ {x} \in G) => T \in G
  PROVE  \A T \in SUBSET S : T \in G
<1> DEFINE Missing == (SUBSET S) \ G
           Left == {Cardinality(S \ T) : T \in Missing}
           n == Cardinality(S)
<1> SUFFICES ASSUME Missing # {} PROVE FALSE
  OBVIOUS
<1>1. \A T \in SUBSET S : IsFiniteSet(T) /\ IsFiniteSet(S \ T)
                          /\ Cardinality(S \ T) \in Nat /\ Cardinality(S \ T) <= n
  BY FS_Subset, FS_CardinalityType
<1>2. n \in Nat
  BY FS_CardinalityType
<1>3. Left \in SUBSET (0..n) /\ Left # {}
  <2>1. Left \in SUBSET (0..n)
    <3>1. ASSUME NEW u \in Left PROVE u \in 0..n
      <4>1. PICK T \in Missing : u = Cardinality(S \ T)
        OBVIOUS
      <4>2. u \in Nat /\ u <= n
        BY <1>1, <4>1
      <4> HIDE DEF Left, n
      <4> QED BY <1>2, <4>2
    <3> QED BY <3>1
  <2>2. Left # {}
    <3>1. PICK T \in Missing : TRUE
      OBVIOUS
    <3>2. T \in Missing
      OBVIOUS
    <3> HIDE DEF Missing
    <3>3. Cardinality(S \ T) \in Left
      BY <3>2
    <3> QED BY <3>3
  <2> HIDE DEF Left, n
  <2> QED BY <2>1, <2>2
<1> HIDE DEF n
<1>4. PICK most \in Left : \A u \in Left : u <= most
  <2> HIDE DEF Left
  <2> QED BY <1>2, <1>3, LargestUpTo
<1>5. PICK T \in Missing : most = Cardinality(S \ T)
  BY <1>4
<1>6. PICK x \in T : T \ {x} \in Missing
  BY <1>5
<1>7. S \ (T \ {x}) = (S \ T) \cup {x} /\ x \notin S \ T
  BY <1>5, <1>6
<1>8. Cardinality(S \ (T \ {x})) = most + 1
  BY <1>1, <1>5, <1>7, FS_AddElement, Zenon
<1>9. Cardinality(S \ (T \ {x})) \in Left
  BY <1>6
<1> HIDE DEF Left
<1>10. most + 1 <= most /\ most \in Nat
  BY <1>3, <1>4, <1>8, <1>9
<1> QED BY <1>10

\* A family of subsets of S that has the empty set, and with a set each set
\* with one member more, has S.
LEMMA GrowsToAll ==
  ASSUME NEW S, IsFiniteSet(S), NEW G \in SUBSET SUBSET S,
         {} \in G, \A T \in G : \A x \in S \ T : T \cup {x} \in G
  PROVE  S \in G
<1>1. ASSUME NEW T \in SUBSET S, \A x \in T : T \ {x} \in G
      PROVE  T \in G
  <2>1. CASE T = {}
    BY <2>1
  <2>2. CASE T # {}
    <3>1. PICK x \in T : TRUE
      BY <2>2
    <3>2. T \ {x} \in G /\ x \in S \ (T \ {x}) /\ (T \ {x}) \cup {x} = T
      BY <1>1, <3>1
    <3> QED BY <3>2
  <2> QED BY <2>1, <2>2
<1> QED BY <1>1, EverySubset

-----------------------------------------------------------------------------
(***************************************************************************)
(* Sums of integers over a finite set.                                     *)
(***************************************************************************)
Added(w, S) == MapThenSumSet(LAMBDA a : w[a], S)

IntsOn(w, S) == \A a \in S : w[a] \in Int

Picked(s) == CHOOSE x \in s : TRUE

\* One step of the recursion behind a sum.
Adds(f, w, s) == f[s] = IF s = {} THEN 0 ELSE w[Picked(s)] + f[s \ {Picked(s)}]

\* Functions that follow the recursion agree.
LEMMA OneSum ==
  ASSUME NEW S, IsFiniteSet(S), NEW w, NEW f, NEW g,
         \A s \in SUBSET S : Adds(f, w, s) /\ Adds(g, w, s)
  PROVE  \A s \in SUBSET S : f[s] = g[s]
<1> DEFINE G == {s \in SUBSET S : f[s] = g[s]}
<1>1. ASSUME NEW s \in SUBSET S, \A x \in s : s \ {x} \in G
      PROVE  s \in G
  <2>1. s # {} => Picked(s) \in s
    BY DEF Picked
  <2>2. s # {} => f[s \ {Picked(s)}] = g[s \ {Picked(s)}]
    BY <1>1, <2>1
  <2> QED BY <2>2 DEF Adds
<1>2. \A s \in SUBSET S : s \in G
  <2> HIDE DEF G
  <2>1. G \in SUBSET SUBSET S
    BY DEF G
  <2> QED BY <1>1, <2>1, EverySubset
<1> QED BY <1>2

\* There is one.
LEMMA SumExists ==
  ASSUME NEW S, IsFiniteSet(S), NEW w, \A a \in S : w[a] \in Int
  PROVE  \E f \in [SUBSET S -> Int] : \A s \in SUBSET S : Adds(f, w, s)
<1> DEFINE Upto(n) == {s \in SUBSET S : Cardinality(s) <= n}
           Good(n) == \E f \in [SUBSET S -> Int] : \A s \in Upto(n) : Adds(f, w, s)
           N == Cardinality(S)
           G == {n \in 0..N : Good(n)}
<1>1. N \in Nat
  BY FS_CardinalityType
<1>2. \A s \in SUBSET S : IsFiniteSet(s) /\ Cardinality(s) \in Nat /\ Cardinality(s) <= N
  BY FS_Subset, FS_CardinalityType
<1>3. Good(0)
  <2> DEFINE f == [s \in SUBSET S |-> 0]
  <2>1. \A s \in Upto(0) : s = {}
    BY <1>2, FS_EmptySet
  <2>2. f \in [SUBSET S -> Int] /\ \A s \in Upto(0) : Adds(f, w, s)
    BY <2>1 DEF Adds
  <2> QED BY <2>2
<1>4. ASSUME NEW n \in 0..N, Good(n)
      PROVE  Good(n + 1)
  <2>1. PICK f \in [SUBSET S -> Int] : \A s \in Upto(n) : Adds(f, w, s)
    BY <1>4
  <2> DEFINE g == [s \in SUBSET S |-> IF s \in Upto(n) THEN f[s]
                                      ELSE w[Picked(s)] + f[s \ {Picked(s)}]]
  <2>2. \A s \in SUBSET S : s # {} => Picked(s) \in s /\ s \ {Picked(s)} \in SUBSET S
    BY DEF Picked
  <2>3. {} \in Upto(n)
    BY <1>1, FS_EmptySet
  <2>4. g \in [SUBSET S -> Int]
    <3>1. ASSUME NEW s \in SUBSET S, s \notin Upto(n)
          PROVE  w[Picked(s)] + f[s \ {Picked(s)}] \in Int
      <4>1. Picked(s) \in S /\ s \ {Picked(s)} \in SUBSET S
        BY <2>2, <2>3, <3>1
      <4>2. w[Picked(s)] \in Int /\ f[s \ {Picked(s)}] \in Int
        BY <2>1, <4>1
      <4> HIDE DEF Upto
      <4> QED BY <4>2
    <3> QED BY <2>1, <3>1
  <2>5. ASSUME NEW s \in Upto(n + 1)
        PROVE  Adds(g, w, s)
    <3>1. CASE s = {}
      BY <2>1, <2>3, <3>1 DEF Adds
    <3>2. CASE s # {}
      <4> DEFINE r == s \ {Picked(s)}
      <4>1. Picked(s) \in s /\ r \in SUBSET S /\ s \in SUBSET S
        BY <2>2, <3>2
      <4>2. Cardinality(r) = Cardinality(s) - 1
        BY <1>2, <4>1, FS_RemoveElement, Zenon
      <4>3. Cardinality(s) \in Nat /\ Cardinality(s) <= n + 1 /\ n \in Nat
        BY <1>1, <1>2
      <4>4. r \in Upto(n)
        BY <4>1, <4>2, <4>3
      <4>5. g[r] = f[r]
        BY <4>1, <4>4
      <4>6. CASE s \in Upto(n)
        <5>1. g[s] = f[s] /\ Adds(f, w, s)
          BY <2>1, <4>1, <4>6
        <5> HIDE DEF Upto
        <5> QED BY <3>2, <4>5, <5>1 DEF Adds
      <4>7. CASE s \notin Upto(n)
        <5>1. g[s] = w[Picked(s)] + f[r]
          BY <4>1, <4>7
        <5> HIDE DEF Upto
        <5> QED BY <3>2, <4>5, <5>1 DEF Adds
      <4> QED BY <4>6, <4>7
    <3> QED BY <3>1, <3>2
  <2> QED BY <2>4, <2>5
<1>5. Good(N)
  <2> HIDE DEF Good
  <2>1. G \in SUBSET (0..N) /\ 0 \in G
    BY <1>1, <1>3
  <2>2. PICK n \in G : \A m \in G : m <= n
    <3> HIDE DEF G, N
    <3> QED BY <1>1, <2>1, LargestUpTo
  <2>3. CASE n = N
    BY <2>2, <2>3
  <2>4. CASE n # N
    <3>1. n + 1 \in G
      BY <1>1, <1>4, <2>2, <2>4
    <3>2. n + 1 <= n /\ n \in Nat
      BY <2>1, <2>2, <3>1
    <3> QED BY <3>2
  <2> QED BY <2>3, <2>4
<1>6. \A s \in SUBSET S : s \in Upto(N)
  BY <1>2
<1> QED BY <1>5, <1>6

\* The sum over a part of S is the value there of any function on the subsets
\* of S that follows the recursion.
LEMMA AddedIs ==
  ASSUME NEW S, IsFiniteSet(S), NEW w, NEW f \in [SUBSET S -> Int],
         \A s \in SUBSET S : Adds(f, w, s), NEW T \in SUBSET S
  PROVE  Added(w, T) = f[T]
<1> DEFINE Rec(g) == [s \in SUBSET T |->
                        IF s = {} THEN 0 ELSE w[CHOOSE x \in s : TRUE]
                                              + g[s \ {CHOOSE x \in s : TRUE}]]
           sum == CHOOSE g : g = Rec(g)
           h == [s \in SUBSET T |-> f[s]]
<1>1. Added(w, T) = sum[T]
  BY DEF Added, MapThenSumSet, MapThenFoldSet
<1>2. h = Rec(h)
  <2>1. ASSUME NEW s \in SUBSET T
        PROVE  f[s] = IF s = {} THEN 0 ELSE w[CHOOSE x \in s : TRUE]
                                            + h[s \ {CHOOSE x \in s : TRUE}]
    <3>1. s \in SUBSET S /\ s \ {Picked(s)} \in SUBSET T
      OBVIOUS
    <3>2. h[s \ {Picked(s)}] = f[s \ {Picked(s)}]
      BY <3>1
    <3>3. Adds(f, w, s)
      BY <3>1
    <3> HIDE DEF h
    <3> QED BY <3>2, <3>3 DEF Adds, Picked
  <2> QED BY <2>1
<1>3. sum = Rec(sum)
  <2> HIDE DEF h, Rec
  <2> QED BY <1>2
<1> HIDE DEF sum
<1>4. \A s \in SUBSET T : Adds(sum, w, s)
  <2> SUFFICES ASSUME NEW s \in SUBSET T PROVE Adds(sum, w, s)
    OBVIOUS
  <2>1. sum[s] = Rec(sum)[s]
    BY <1>3
  <2>2. Rec(sum)[s] = IF s = {} THEN 0 ELSE w[CHOOSE x \in s : TRUE]
                                            + sum[s \ {CHOOSE x \in s : TRUE}]
    OBVIOUS
  <2> QED BY <2>1, <2>2 DEF Adds, Picked
<1>5. \A s \in SUBSET T : Adds(f, w, s)
  OBVIOUS
<1>6. IsFiniteSet(T)
  BY FS_Subset
<1>7. \A s \in SUBSET T : sum[s] = f[s]
  <2>1. ASSUME NEW g, \A s \in SUBSET T : Adds(g, w, s)
        PROVE  \A s \in SUBSET T : g[s] = f[s]
    <3>1. \A s \in SUBSET T : Adds(g, w, s) /\ Adds(f, w, s)
      BY <1>5, <2>1
    <3> QED BY <1>6, <3>1, OneSum
  <2> QED BY <1>4, <2>1
<1> QED BY <1>1, <1>7

\* Nothing sums to zero, and a sum grows by the value of a new member.
LEMMA AddedElement ==
  ASSUME NEW S, IsFiniteSet(S), NEW w, IntsOn(w, S)
  PROVE  /\ Added(w, {}) = 0
         /\ Added(w, S) \in Int
         /\ \A x \in S : Added(w, S) = Added(w, S \ {x}) + w[x]
<1>1. PICK f \in [SUBSET S -> Int] : \A s \in SUBSET S : Adds(f, w, s)
  BY SumExists DEF IntsOn
<1>2. \A s \in SUBSET S : Added(w, s) = f[s]
  BY <1>1, AddedIs
<1>3. Added(w, {}) = 0 /\ Added(w, S) \in Int
  BY <1>1, <1>2 DEF Adds
<1> DEFINE G == {s \in SUBSET S : \A x \in s : f[s] = f[s \ {x}] + w[x]}
<1>4. ASSUME NEW s \in SUBSET S, \A y \in s : s \ {y} \in G, NEW x \in s
      PROVE  f[s] = f[s \ {x}] + w[x]
  <2> DEFINE y == Picked(s)
  <2>1. y \in s
    BY DEF Picked
  <2>2. f[s] = w[y] + f[s \ {y}]
    BY <1>1 DEF Adds
  <2> HIDE DEF y
  <2>3. CASE x = y
    <3>1. w[y] \in Int /\ f[s \ {y}] \in Int
      BY <1>1, <2>1 DEF IntsOn
    <3> QED BY <2>2, <2>3, <3>1
  <2>4. CASE x # y
    <3>1. x \in s \ {y} /\ y \in s \ {x} /\ (s \ {y}) \ {x} = (s \ {x}) \ {y}
      BY <2>1, <2>4
    <3>2. f[s \ {y}] = f[(s \ {y}) \ {x}] + w[x] /\ f[s \ {x}] = f[(s \ {y}) \ {x}] + w[y]
      BY <1>4, <2>1, <3>1
    <3>3. w[x] \in Int /\ w[y] \in Int /\ f[(s \ {y}) \ {x}] \in Int
      BY <1>1, <2>1 DEF IntsOn
    <3> QED BY <2>2, <3>2, <3>3
  <2> QED BY <2>3, <2>4
<1>5. \A s \in SUBSET S : s \in G
  <2>1. ASSUME NEW s \in SUBSET S, \A y \in s : s \ {y} \in G
        PROVE  s \in G
    BY <1>4, <2>1
  <2> HIDE DEF G
  <2>2. G \in SUBSET SUBSET S
    BY DEF G
  <2> QED BY <2>1, <2>2, EverySubset
<1>6. \A x \in S : f[S] = f[S \ {x}] + w[x]
  BY <1>5
<1> QED BY <1>2, <1>3, <1>6

\* A sum grows by the value of each new member.
Grows(w, S) ==
  \A T \in SUBSET S : \A x \in S \ T :
     Added(w, T) \in Int /\ Added(w, T \cup {x}) = Added(w, T) + w[x]

\* So do the sums of integers.
LEMMA AddedGrows ==
  ASSUME NEW S, IsFiniteSet(S), NEW w, IntsOn(w, S)
  PROVE  Grows(w, S)
<1> SUFFICES ASSUME NEW T \in SUBSET S, NEW x \in S \ T
             PROVE  Added(w, T) \in Int /\ Added(w, T \cup {x}) = Added(w, T) + w[x]
  BY DEF Grows
<1>1. IsFiniteSet(T) /\ IsFiniteSet(T \cup {x}) /\ T \cup {x} \in SUBSET S
  BY FS_Subset
<1>2. IntsOn(w, T) /\ IntsOn(w, T \cup {x})
  BY DEF IntsOn
<1>3. Added(w, T) \in Int
  BY <1>1, <1>2, AddedElement
<1>4. Added(w, T \cup {x}) = Added(w, (T \cup {x}) \ {x}) + w[x]
  BY <1>1, <1>2, AddedElement
<1>5. (T \cup {x}) \ {x} = T
  OBVIOUS
<1> QED BY <1>3, <1>4, <1>5

\* Each member of u is the sum of those of v and w.
Joins(u, v, w, S) == \A a \in S : v[a] \in Int /\ w[a] \in Int /\ u[a] = v[a] + w[a]

\* The sum of the sums is the sum.
LEMMA AddedPlus ==
  ASSUME NEW S, IsFiniteSet(S), NEW u, NEW v, NEW w, Joins(u, v, w, S)
  PROVE  Added(u, S) = Added(v, S) + Added(w, S)
<1> DEFINE G == {T \in SUBSET S : Added(u, T) = Added(v, T) + Added(w, T)}
<1> USE DEF Joins
<1>0. IntsOn(u, S) /\ IntsOn(v, S) /\ IntsOn(w, S)
  BY DEF IntsOn
<1>5. Grows(u, S) /\ Grows(v, S) /\ Grows(w, S)
  BY <1>0, AddedGrows
<1>1. {} \in G
  <2>1. Added(u, {}) = 0 /\ Added(v, {}) = 0 /\ Added(w, {}) = 0
    BY <1>0, AddedElement
  <2> QED BY <2>1
<1>2. ASSUME NEW T \in G, NEW x \in S \ T
      PROVE  T \cup {x} \in G
  <2>1. /\ Added(u, T) \in Int /\ Added(u, T \cup {x}) = Added(u, T) + u[x]
        /\ Added(v, T) \in Int /\ Added(v, T \cup {x}) = Added(v, T) + v[x]
        /\ Added(w, T) \in Int /\ Added(w, T \cup {x}) = Added(w, T) + w[x]
    BY <1>5 DEF Grows
  <2>2. u[x] = v[x] + w[x] /\ v[x] \in Int /\ w[x] \in Int
        /\ Added(u, T) = Added(v, T) + Added(w, T)
    OBVIOUS
  <2>3. Added(u, T \cup {x}) = Added(v, T \cup {x}) + Added(w, T \cup {x})
    BY <2>1, <2>2
  <2> QED BY <2>3
<1> HIDE DEF G
<1>3. G \in SUBSET SUBSET S
  BY DEF G
<1>4. S \in G
  BY <1>1, <1>2, <1>3, GrowsToAll
<1> QED BY <1>4 DEF G

\* A common factor.
LEMMA AddedTimes ==
  ASSUME NEW S, IsFiniteSet(S), NEW u, NEW w, NEW k \in Int,
         \A a \in S : w[a] \in Int /\ u[a] = k * w[a]
  PROVE  Added(u, S) = k * Added(w, S)
<1> DEFINE G == {T \in SUBSET S : Added(u, T) = k * Added(w, T)}
<1>0. IntsOn(u, S) /\ IntsOn(w, S)
  BY DEF IntsOn
<1>5. Grows(u, S) /\ Grows(w, S)
  BY <1>0, AddedGrows
<1>1. {} \in G
  <2>1. Added(u, {}) = 0 /\ Added(w, {}) = 0
    BY <1>0, AddedElement
  <2> QED BY <2>1
<1>2. ASSUME NEW T \in G, NEW x \in S \ T
      PROVE  T \cup {x} \in G
  <2>1. /\ Added(u, T) \in Int /\ Added(u, T \cup {x}) = Added(u, T) + u[x]
        /\ Added(w, T) \in Int /\ Added(w, T \cup {x}) = Added(w, T) + w[x]
    BY <1>5 DEF Grows
  <2>2. u[x] = k * w[x] /\ w[x] \in Int /\ Added(u, T) = k * Added(w, T)
    OBVIOUS
  <2>3. \A p, q \in Int : k * (p + q) = k * p + k * q
    OBVIOUS
  <2>4. Added(u, T \cup {x}) = k * Added(w, T \cup {x})
    BY <2>1, <2>2, <2>3
  <2> QED BY <2>4
<1> HIDE DEF G
<1>3. G \in SUBSET SUBSET S
  BY DEF G
<1>4. S \in G
  BY <1>1, <1>2, <1>3, GrowsToAll
<1> QED BY <1>4 DEF G

\* Sums are ordered as their members are.
LEMMA AddedAtMost ==
  ASSUME NEW S, IsFiniteSet(S), NEW u, NEW w,
         \A a \in S : u[a] \in Int /\ w[a] \in Int /\ u[a] <= w[a]
  PROVE  Added(u, S) <= Added(w, S)
<1> DEFINE G == {T \in SUBSET S : Added(u, T) <= Added(w, T)}
<1>0. IntsOn(u, S) /\ IntsOn(w, S)
  BY DEF IntsOn
<1>5. Grows(u, S) /\ Grows(w, S)
  BY <1>0, AddedGrows
<1>1. {} \in G
  <2>1. Added(u, {}) = 0 /\ Added(w, {}) = 0
    BY <1>0, AddedElement
  <2> QED BY <2>1
<1>2. ASSUME NEW T \in G, NEW x \in S \ T
      PROVE  T \cup {x} \in G
  <2>1. /\ Added(u, T) \in Int /\ Added(u, T \cup {x}) = Added(u, T) + u[x]
        /\ Added(w, T) \in Int /\ Added(w, T \cup {x}) = Added(w, T) + w[x]
    BY <1>5 DEF Grows
  <2>2. u[x] \in Int /\ w[x] \in Int /\ u[x] <= w[x] /\ Added(u, T) <= Added(w, T)
    OBVIOUS
  <2>3. Added(u, T \cup {x}) <= Added(w, T \cup {x})
    BY <2>1, <2>2
  <2> QED BY <2>3
<1> HIDE DEF G
<1>3. G \in SUBSET SUBSET S
  BY DEF G
<1>4. S \in G
  BY <1>1, <1>2, <1>3, GrowsToAll
<1> QED BY <1>4 DEF G

\* Equal members have equal sums.
LEMMA AddedSame ==
  ASSUME NEW S, IsFiniteSet(S), NEW u, NEW w,
         \A a \in S : w[a] \in Int /\ u[a] = w[a]
  PROVE  Added(u, S) = Added(w, S)
<1>1. Added(u, S) <= Added(w, S) /\ Added(w, S) <= Added(u, S)
  <2>1. \A a \in S : u[a] \in Int /\ w[a] \in Int /\ u[a] <= w[a] /\ w[a] <= u[a]
    OBVIOUS
  <2> QED BY <2>1, AddedAtMost
<1>2. Added(u, S) \in Int /\ Added(w, S) \in Int
  <2>1. IntsOn(u, S) /\ IntsOn(w, S)
    BY DEF IntsOn
  <2> QED BY <2>1, AddedElement
<1> QED BY <1>1, <1>2

\* Nothing is added by zeros.
LEMMA AddedZeros ==
  ASSUME NEW S, IsFiniteSet(S), NEW u, \A a \in S : u[a] = 0
  PROVE  Added(u, S) = 0
<1>1. Added(u, S) = 0 * Added(u, S)
  <2>1. \A a \in S : u[a] \in Int /\ u[a] = 0 * u[a]
    OBVIOUS
  <2> QED BY <2>1, AddedTimes
<1>2. Added(u, S) \in Int
  <2>1. IntsOn(u, S)
    BY DEF IntsOn
  <2> QED BY <2>1, AddedElement
<1> QED BY <1>1, <1>2

\* A sum over a part is the sum over all with zeros elsewhere.
LEMMA AddedPart ==
  ASSUME NEW S, IsFiniteSet(S), NEW P \in SUBSET S, NEW u, NEW w,
         \A a \in P : w[a] \in Int,
         \A a \in S : u[a] = IF a \in P THEN w[a] ELSE 0
  PROVE  Added(w, P) = Added(u, S)
<1> DEFINE G == {T \in SUBSET S : Added(u, T) = Added(w, T \cap P)}
<1>0. IntsOn(u, S) /\ IntsOn(w, P) /\ IsFiniteSet(P)
  BY FS_Subset DEF IntsOn
<1>6. Grows(u, S) /\ Grows(w, P)
  BY <1>0, AddedGrows
<1>1. {} \in G
  <2>1. Added(u, {}) = 0 /\ Added(w, {}) = 0 /\ {} \cap P = {}
    BY <1>0, AddedElement
  <2> QED BY <2>1
<1>2. ASSUME NEW T \in G, NEW x \in S \ T
      PROVE  T \cup {x} \in G
  <2>1. Added(u, T) \in Int /\ Added(u, T \cup {x}) = Added(u, T) + u[x]
    BY <1>6 DEF Grows
  <2>2. Added(u, T) = Added(w, T \cap P)
    OBVIOUS
  <2>3. CASE x \in P
    <3>1. (T \cup {x}) \cap P = (T \cap P) \cup {x} /\ T \cap P \in SUBSET P
          /\ x \in P \ (T \cap P)
      BY <2>3
    <3>2. Added(w, (T \cap P) \cup {x}) = Added(w, T \cap P) + w[x]
      <4> DEFINE R == T \cap P
      <4>1. R \in SUBSET P /\ x \in P \ R
        BY <3>1
      <4> HIDE DEF R, G
      <4>2. Added(w, R \cup {x}) = Added(w, R) + w[x]
        BY <1>6, <4>1 DEF Grows
      <4> QED BY <4>2 DEF R
    <3>3. u[x] = w[x]
      BY <2>3
    <3>4. Added(u, T \cup {x}) = Added(w, (T \cup {x}) \cap P)
      BY <2>1, <2>2, <3>1, <3>2, <3>3
    <3> QED BY <3>4
  <2>4. CASE x \notin P
    <3>1. (T \cup {x}) \cap P = T \cap P /\ u[x] = 0
      BY <2>4
    <3>2. Added(u, T \cup {x}) = Added(w, (T \cup {x}) \cap P)
      <4>1. Added(u, T \cup {x}) = Added(u, T) + 0 /\ Added(u, T) \in Int
        BY <2>1, <3>1
      <4>2. Added(u, T \cup {x}) = Added(u, T)
        BY <4>1
      <4> QED BY <2>2, <3>1, <4>2
    <3> QED BY <3>2
  <2> QED BY <2>3, <2>4
<1> HIDE DEF G
<1>3. G \in SUBSET SUBSET S
  BY DEF G
<1>4. S \in G
  BY <1>1, <1>2, <1>3, GrowsToAll
<1>5. S \cap P = P
  OBVIOUS
<1> QED BY <1>4, <1>5 DEF G

\* No member is more than a sum of natural numbers.
LEMMA AddedNat ==
  ASSUME NEW S, IsFiniteSet(S), NEW w, \A a \in S : w[a] \in Nat
  PROVE  /\ Added(w, S) \in Nat
         /\ \A x \in S : w[x] <= Added(w, S)
<1>1. \A T \in SUBSET S : Added(w, T) \in Nat
  <2> SUFFICES ASSUME NEW T \in SUBSET S PROVE Added(w, T) \in Nat
    OBVIOUS
  <2> DEFINE zero == [a \in T |-> 0]
  <2>1. IsFiniteSet(T)
    BY FS_Subset
  <2>2. Added(zero, T) = 0
    BY <2>1, AddedZeros
  <2>3. Added(zero, T) <= Added(w, T)
    <3>1. \A a \in T : zero[a] \in Int /\ w[a] \in Int /\ zero[a] <= w[a]
      OBVIOUS
    <3> HIDE DEF zero
    <3> QED BY <2>1, <3>1, AddedAtMost
  <2>4. Added(w, T) \in Int
    <3>1. IntsOn(w, T)
      BY DEF IntsOn
    <3> QED BY <2>1, <3>1, AddedElement
  <2> QED BY <2>2, <2>3, <2>4
<1>2. \A x \in S : Added(w, S) = Added(w, S \ {x}) + w[x]
  <2>1. IntsOn(w, S)
    BY DEF IntsOn
  <2> QED BY <2>1, AddedElement
<1>3. ASSUME NEW x \in S PROVE w[x] <= Added(w, S)
  <2>1. Added(w, S \ {x}) \in Nat /\ w[x] \in Nat
    BY <1>1
  <2>2. Added(w, S) = Added(w, S \ {x}) + w[x]
    BY <1>2
  <2> QED BY <2>1, <2>2
<1> QED BY <1>1, <1>3


\* The sum over a set is that over its two parts.
LEMMA AddedSplit ==
  ASSUME NEW S, IsFiniteSet(S), NEW P, NEW w, IntsOn(w, S)
  PROVE  Added(w, S) = Added(w, S \cap P) + Added(w, S \ P)
<1> DEFINE uin == [a \in S |-> IF a \in S \cap P THEN w[a] ELSE 0]
           uout == [a \in S |-> IF a \in S \ P THEN w[a] ELSE 0]
<1>1. \A a \in S : w[a] \in Int
  BY DEF IntsOn
<1>2. Added(w, S \cap P) = Added(uin, S)
  <2>1. /\ S \cap P \in SUBSET S /\ \A a \in S \cap P : w[a] \in Int
        /\ \A a \in S : uin[a] = IF a \in S \cap P THEN w[a] ELSE 0
    BY <1>1
  <2> HIDE DEF uin
  <2> QED BY <2>1, AddedPart
<1>3. Added(w, S \ P) = Added(uout, S)
  <2>1. /\ S \ P \in SUBSET S /\ \A a \in S \ P : w[a] \in Int
        /\ \A a \in S : uout[a] = IF a \in S \ P THEN w[a] ELSE 0
    BY <1>1
  <2> HIDE DEF uout
  <2> QED BY <2>1, AddedPart
<1>4. Added(w, S) = Added(uin, S) + Added(uout, S)
  <2>1. Joins(w, uin, uout, S)
    BY <1>1 DEF Joins
  <2> HIDE DEF uin, uout
  <2> QED BY <2>1, AddedPlus
<1> QED BY <1>2, <1>3, <1>4

\* One for each member: the sum counts them.
LEMMA AddedOnes ==
  ASSUME NEW S, IsFiniteSet(S), NEW u, \A a \in S : u[a] = 1
  PROVE  Added(u, S) = Cardinality(S)
<1> DEFINE G == {T \in SUBSET S : Added(u, T) = Cardinality(T)}
<1>0. IntsOn(u, S)
  BY DEF IntsOn
<1>5. Grows(u, S)
  BY <1>0, AddedGrows
<1>1. {} \in G
  <2>1. Added(u, {}) = 0 /\ Cardinality({}) = 0
    BY <1>0, AddedElement, FS_EmptySet
  <2> QED BY <2>1
<1>2. ASSUME NEW T \in G, NEW x \in S \ T
      PROVE  T \cup {x} \in G
  <2>1. Added(u, T) \in Int /\ Added(u, T \cup {x}) = Added(u, T) + u[x]
    BY <1>5 DEF Grows
  <2>2. u[x] = 1 /\ Added(u, T) = Cardinality(T) /\ IsFiniteSet(T)
    BY FS_Subset
  <2>3. Cardinality(T \cup {x}) = Cardinality(T) + 1
    BY <2>2, FS_AddElement, Zenon
  <2>4. Added(u, T \cup {x}) = Cardinality(T \cup {x})
    BY <2>1, <2>2, <2>3
  <2> QED BY <2>4
<1> HIDE DEF G
<1>3. G \in SUBSET SUBSET S
  BY DEF G
<1>4. S \in G
  BY <1>1, <1>2, <1>3, GrowsToAll
<1> QED BY <1>4 DEF G

-----------------------------------------------------------------------------
(***************************************************************************)
(* Rounding.                                                               *)
(***************************************************************************)

\* A quotient of natural numbers is rounded down.
LEMMA DivIs ==
  ASSUME NEW p \in Nat, NEW d \in Nat \ {0}
  PROVE  /\ p \div d \in Nat
         /\ d * (p \div d) <= p
         /\ p < d * (p \div d) + d
OBVIOUS

\* Products of natural numbers are ordered as their factors.
LEMMA TimesAtMost ==
  ASSUME NEW p \in Nat, NEW q \in Nat, NEW k \in Nat, p <= q
  PROVE  k * p <= k * q /\ p * k <= q * k /\ k * p \in Nat
OBVIOUS

\* What is left of a product on both sides.
LEMMA Cancel ==
  ASSUME NEW p \in Nat, NEW q \in Nat, NEW k \in Nat \ {0}, k * p <= k * q
  PROVE  p <= q
OBVIOUS

\* Scaling rounds toward zero: it keeps the sign and never enlarges.
LEMMA ScaledIs ==
  ASSUME NEW x \in Int, NEW num \in Nat, NEW den \in Nat \ {0}
  PROVE  /\ Scaled(x, num, den) \in Int
         /\ x >= 0 => Scaled(x, num, den) >= 0
         /\ x <= 0 => Scaled(x, num, den) <= 0
         /\ den * Size(Scaled(x, num, den)) <= Size(x) * num
         /\ num <= den => Size(Scaled(x, num, den)) <= Size(x)
<1> DEFINE y == Scaled(x, num, den)
           s == Size(x)
<1>1. s \in Nat /\ s * num \in Nat
  BY DEF Size
<1>2. /\ (s * num) \div den \in Nat /\ den * ((s * num) \div den) <= s * num
  BY <1>1, DivIs
<1>3. /\ y = IF x < 0 THEN -((s * num) \div den) ELSE (s * num) \div den
  BY DEF Scaled, Size
<1> HIDE DEF y
<1>4. y \in Int /\ (x >= 0 => y >= 0) /\ (x <= 0 => y <= 0) /\ Size(y) = (s * num) \div den
  <2> DEFINE z == (s * num) \div den
  <2>1. z \in Nat /\ y = IF x < 0 THEN -z ELSE z
    BY <1>2, <1>3
  <2>2. x = 0 => z = 0
    <3> SUFFICES ASSUME x = 0 PROVE z = 0
      OBVIOUS
    <3>1. s * num = 0
      BY DEF Size
    <3>2. den * z <= 0
      BY <1>2, <3>1
    <3> HIDE DEF z
    <3> QED BY <2>1, <3>2
  <2> HIDE DEF z
  <2>3. y \in Int /\ (x >= 0 => y >= 0) /\ (x <= 0 => y <= 0) /\ Size(y) = z
    BY <2>1, <2>2 DEF Size
  <2> QED BY <2>3 DEF z
<1>5. num <= den => Size(y) <= s
  <2> SUFFICES ASSUME num <= den PROVE Size(y) <= s
    OBVIOUS
  <2>1. Size(y) \in Nat /\ den * Size(y) <= s * num
    BY <1>2, <1>4
  <2>2. s * num <= s * den /\ s * den = den * s /\ s * num \in Nat /\ s * den \in Nat
    BY <1>1, TimesAtMost
  <2>3. den * Size(y) <= den * s
    BY <2>1, <2>2
  <2> QED BY <1>1, <2>1, <2>3, Cancel
<1> QED BY <1>2, <1>4, <1>5 DEF y


-----------------------------------------------------------------------------
(***************************************************************************)
(* Sums over assets.                                                       *)
(***************************************************************************)
Portfolio == [Assets -> Int]

\* The sums of the model are the sums the lemmas above are about.
LEMMA TotalIs ==
  ASSUME NEW w, NEW S
  PROVE  Total(w, S) = Added(w, S)
BY DEF Total, Added

\* A set of assets is finite.
LEMMA FiniteAssets ==
  ASSUME NEW S \in SUBSET Assets
  PROVE  IsFiniteSet(S)
BY ProjectionAssumption, FS_Subset

\* A total of money is a number, and a natural one if each amount is.
LEMMA TotalType ==
  ASSUME NEW S \in SUBSET Assets, NEW w, IntsOn(w, S)
  PROVE  /\ Total(w, S) \in Int
         /\ (\A a \in S : w[a] >= 0) => Total(w, S) \in Nat /\ \A a \in S : w[a] <= Total(w, S)
<1>1. IsFiniteSet(S)
  BY FiniteAssets
<1>2. Added(w, S) \in Int
  BY <1>1, AddedElement
<1>3. ASSUME \A a \in S : w[a] >= 0
      PROVE  Added(w, S) \in Nat /\ \A a \in S : w[a] <= Added(w, S)
  <2>1. \A a \in S : w[a] \in Nat
    BY <1>3 DEF IntsOn
  <2> QED BY <1>1, <2>1, AddedNat
<1> QED BY <1>2, <1>3, TotalIs

\* Gross exposure is a natural number and bounds each position.
LEMMA GrossIs ==
  ASSUME NEW S \in SUBSET Assets, NEW w \in Portfolio
  PROVE  /\ Gross(w, S) \in Nat
         /\ \A a \in S : Size(w[a]) \in Nat /\ Size(w[a]) <= Gross(w, S)
<1> DEFINE g == [a \in S |-> Size(w[a])]
<1>1. \A a \in S : w[a] \in Int
  BY DEF Portfolio
<1>2. \A a \in S : g[a] = Size(w[a]) /\ g[a] \in Int /\ g[a] >= 0
  BY <1>1 DEF Size
<1>3. Gross(w, S) = Total(g, S)
  BY DEF Gross
<1> HIDE DEF g
<1>4. IntsOn(g, S)
  BY <1>2 DEF IntsOn
<1>5. Total(g, S) \in Nat /\ \A a \in S : g[a] <= Total(g, S)
  BY <1>2, <1>4, TotalType
<1> QED BY <1>2, <1>3, <1>5

\* Scaling the positions of S to num of den scales their gross exposure.
LEMMA GrossScaled ==
  ASSUME NEW S \in SUBSET Assets, NEW w \in Portfolio, NEW v \in Portfolio,
         NEW num \in Nat, NEW den \in Nat \ {0},
         \A a \in S : v[a] = Scaled(w[a], num, den)
  PROVE  den * Gross(v, S) <= num * Gross(w, S)
<1> DEFINE gw == [a \in S |-> Size(w[a])]
           gv == [a \in S |-> Size(v[a])]
           lo == [a \in S |-> den * gv[a]]
           hi == [a \in S |-> num * gw[a]]
<1>1. IsFiniteSet(S)
  BY FiniteAssets
<1>2. \A a \in S : w[a] \in Int /\ v[a] \in Int
  BY DEF Portfolio
<1>3. \A a \in S : gw[a] \in Nat /\ gv[a] \in Nat
  BY <1>2 DEF Size
<1>4. \A a \in S : den * gv[a] <= num * gw[a]
  <2> SUFFICES ASSUME NEW a \in S PROVE den * gv[a] <= num * gw[a]
    OBVIOUS
  <2>1. den * Size(v[a]) <= Size(w[a]) * num
    BY <1>2, ScaledIs
  <2>2. Size(w[a]) * num = num * Size(w[a])
    BY <1>3
  <2> QED BY <2>1, <2>2
<1>5. Gross(v, S) = Added(gv, S) /\ Gross(w, S) = Added(gw, S)
  BY TotalIs DEF Gross
<1>6. \A a \in S : lo[a] = den * gv[a] /\ hi[a] = num * gw[a]
  OBVIOUS
<1> HIDE DEF gw, gv, lo, hi
<1>7. \A a \in S : lo[a] \in Int /\ hi[a] \in Int /\ lo[a] <= hi[a]
  BY <1>3, <1>4, <1>6
<1>8. Added(lo, S) <= Added(hi, S)
  BY <1>1, <1>7, AddedAtMost
<1>9. Added(lo, S) = den * Added(gv, S)
  <2>1. \A a \in S : gv[a] \in Int /\ lo[a] = den * gv[a]
    BY <1>3, <1>6
  <2> QED BY <1>1, <2>1, AddedTimes
<1>10. Added(hi, S) = num * Added(gw, S)
  <2>1. \A a \in S : gw[a] \in Int /\ hi[a] = num * gw[a]
    BY <1>3, <1>6
  <2> QED BY <1>1, <2>1, AddedTimes
<1> QED BY <1>5, <1>8, <1>9, <1>10


-----------------------------------------------------------------------------
(***************************************************************************)
(* The rules of the projection.                                            *)
(***************************************************************************)

\* Limits are percentages.
IsPolicy(e) ==
  /\ e.allowShort \in BOOLEAN /\ e.maxLeverage \in Nat /\ e.maxAssetWeight \in Nat
  /\ e.maxMarketWeight \in [Markets -> Nat] /\ e.cashFloor \in Nat /\ e.maxTurnover \in Nat

\* What a step knows when it projects.
IsContext(c) ==
  /\ IsPolicy(c.config) /\ c.value \in Nat \ {0}
  /\ c.current \in Portfolio /\ c.mutable \in SUBSET Assets

IsPartial(r) ==
  \E w \in Portfolio : \E reasons, unresolved :
     r = [w |-> w, reasons |-> reasons, unresolved |-> unresolved]

\* Clipping replaces the portfolio.
LEMMA ClipIs ==
  ASSUME NEW r, IsPartial(r), NEW w \in Portfolio, NEW rule
  PROVE  /\ IsPartial(Clip(r, w, rule)) /\ Clip(r, w, rule).w = w
         /\ Clip(r, w, rule).unresolved = r.unresolved
<1>1. PICK w0, reasons, unresolved :
         r = [w |-> w0, reasons |-> reasons, unresolved |-> unresolved]
  BY DEF IsPartial
<1>2. Clip(r, w, rule) = [w |-> w, reasons |-> reasons \cup {rule}, unresolved |-> unresolved]
  BY <1>1 DEF Clip
<1>3. IsPartial(Clip(r, w, rule))
  BY <1>2 DEF IsPartial
<1> QED BY <1>1, <1>2, <1>3

\* Reporting leaves it.
LEMMA ReportIs ==
  ASSUME NEW r, IsPartial(r), NEW violations
  PROVE  /\ IsPartial(Report(r, violations)) /\ Report(r, violations).w = r.w
         /\ Report(r, violations).unresolved = r.unresolved \cup violations
<1>1. PICK w, reasons, unresolved :
         w \in Portfolio /\ r = [w |-> w, reasons |-> reasons, unresolved |-> unresolved]
  BY DEF IsPartial
<1>2. Report(r, violations)
        = [w |-> w, reasons |-> reasons, unresolved |-> unresolved \cup violations]
  BY <1>1 DEF Report
<1>3. IsPartial(Report(r, violations))
  <2>1. \E x, y : Report(r, violations) = [w |-> w, reasons |-> x, unresolved |-> y]
    BY <1>2
  <2> QED BY <1>1, <2>1 DEF IsPartial
<1> QED BY <1>1, <1>2, <1>3

\* The portfolio of a partial result.
LEMMA PartialIs ==
  ASSUME NEW r, IsPartial(r)
  PROVE  r.w \in Portfolio /\ \A a \in Assets : r.w[a] \in Int
BY DEF IsPartial, Portfolio

\* A limit is an amount of money.
LEMMA LimitIs ==
  ASSUME NEW c, IsContext(c), NEW percent \in Nat
  PROVE  Limit(percent, c) \in Nat /\ 100 * Limit(percent, c) <= percent * c.value
<1>1. percent * c.value \in Nat
  BY DEF IsContext
<1> QED BY <1>1, DivIs DEF Limit

\* The limits of a configuration.
LEMMA ConfigIs ==
  ASSUME NEW c, IsContext(c)
  PROVE  /\ Limit(c.config.maxAssetWeight, c) \in Nat /\ Limit(c.config.maxLeverage, c) \in Nat
         /\ Limit(c.config.cashFloor, c) \in Nat /\ Limit(c.config.maxTurnover, c) \in Nat
         /\ \A m \in Markets : MarketLimit(m, c) \in Nat
         /\ c.config.maxTurnover \in Nat
<1>1. /\ c.config.maxAssetWeight \in Nat /\ c.config.maxLeverage \in Nat
      /\ c.config.cashFloor \in Nat /\ c.config.maxTurnover \in Nat
      /\ c.config.maxMarketWeight \in [Markets -> Nat]
  BY DEF IsContext, IsPolicy
<1>2. \A m \in Markets : c.config.maxMarketWeight[m] \in Nat
  BY <1>1
<1> QED BY <1>1, <1>2, LimitIs DEF MarketLimit

\* Whatever a policy outputs, the cleaned action is a portfolio.
LEMMA NormalizeIs ==
  ASSUME NEW c, IsContext(c), NEW action \in [cash : Int, assets : [Assets -> Int]]
  PROVE  IsPartial(Start(Normalize(action, c)))
<1> DEFINE n == Normalize(action, c)
           positive == [a \in Assets |-> Most(action.assets[a], 0)]
           total == Most(action.cash, 0) + Total(positive, Assets)
<1>1. action.cash \in Int /\ \A a \in Assets : action.assets[a] \in Int
  OBVIOUS
<1>2. \A a \in Assets : positive[a] \in Nat
  BY <1>1 DEF Most
<1>3. Total(positive, Assets) \in Nat
  <2> HIDE DEF positive
  <2>1. IntsOn(positive, Assets) /\ \A a \in Assets : positive[a] >= 0
    BY <1>2 DEF IntsOn
  <2> QED BY <2>1, TotalType
<1>4. total \in Nat
  <2>1. Most(action.cash, 0) \in Nat
    BY <1>1 DEF Most
  <2> HIDE DEF positive
  <2> QED BY <1>3, <2>1
<1>5. c.value \in Nat /\ ActionUnit \in Nat \ {0}
  BY ProjectionAssumption DEF IsContext
<1>6. CASE c.config.allowShort
  <2>1. n = [a \in Assets |-> Scaled(action.assets[a], c.value, ActionUnit)]
    BY <1>6 DEF Normalize
  <2>2. \A a \in Assets : Scaled(action.assets[a], c.value, ActionUnit) \in Int
    BY <1>1, <1>5, ScaledIs
  <2>3. n \in Portfolio
    BY <2>1, <2>2 DEF Portfolio
  <2> HIDE DEF n
  <2>4. IsPartial([w |-> n, reasons |-> {}, unresolved |-> {}])
    BY <2>3 DEF IsPartial
  <2> QED BY <2>4 DEF Start, n
<1>7. CASE ~c.config.allowShort
  <2>1. n = [a \in Assets |-> IF total = 0 THEN 0 ELSE Scaled(positive[a], c.value, total)]
    BY <1>7 DEF Normalize
  <2> HIDE DEF n, positive, total
  <2>2. ASSUME NEW a \in Assets, total # 0
        PROVE  Scaled(positive[a], c.value, total) \in Int
    <3>1. positive[a] \in Int /\ total \in Nat \ {0}
      BY <1>2, <1>4, <2>2
    <3> QED BY <1>5, <3>1, ScaledIs
  <2>3. n \in Portfolio
    BY <2>1, <2>2 DEF Portfolio
  <2>4. IsPartial([w |-> n, reasons |-> {}, unresolved |-> {}])
    BY <2>3 DEF IsPartial
  <2> QED BY <2>4 DEF Start, n
<1> QED BY <1>6, <1>7

\* Freezing and the ban on short positions.
LEMMA FirstRulesAre ==
  ASSUME NEW c, IsContext(c), NEW r, IsPartial(r)
  PROVE  IsPartial(TradableMask(r, c)) /\ IsPartial(LongOnly(r, c))
<1>1. r.w \in Portfolio /\ c.current \in Portfolio
  BY PartialIs DEF IsContext
<1>2. [a \in Assets |-> IF a \in c.mutable THEN r.w[a] ELSE c.current[a]] \in Portfolio
  BY <1>1 DEF Portfolio
<1>3. [a \in Assets |-> IF a \in c.mutable THEN Most(r.w[a], 0) ELSE r.w[a]] \in Portfolio
  BY <1>1 DEF Portfolio, Most
<1> QED BY <1>2, <1>3, ClipIs DEF TradableMask, LongOnly

\* The cap on a single asset.
LEMMA MaxAssetWeightIs ==
  ASSUME NEW c, IsContext(c), NEW r, IsPartial(r)
  PROVE  IsPartial(MaxAssetWeight(r, c))
<1> DEFINE cap == Limit(c.config.maxAssetWeight, c)
           clipped == [a \in Assets |-> IF a \in c.mutable
                                        THEN Most(-cap, Least(cap, r.w[a])) ELSE r.w[a]]
           checked == IF clipped = r.w THEN r ELSE Clip(r, clipped, "max_asset_weight")
           violations == {<<"max_asset_weight", a>> : a \in {b \in Frozen(c) : Size(r.w[b]) > cap}}
<1>1. MaxAssetWeight(r, c) = Report(checked, violations)
  BY DEF MaxAssetWeight
<1>2. cap \in Nat /\ \A a \in Assets : r.w[a] \in Int
  BY ConfigIs, PartialIs
<1>3. clipped \in Portfolio
  <2> HIDE DEF cap
  <2> QED BY <1>2 DEF Portfolio, Most, Least
<1> HIDE DEF clipped, violations
<1>4. IsPartial(checked)
  BY <1>3, ClipIs
<1> HIDE DEF checked
<1> QED BY <1>1, <1>4, ReportIs

\* What a group of assets that shares a cap is scaled to.
Grouped(q, r, S, cap, rule, c) ==
  LET frozen == Gross(r.w, S \ c.mutable)
      mutable == Gross(r.w, S \cap c.mutable)
      available == Most(cap - frozen, 0)
  IN  /\ IsPartial(q)
      /\ q.unresolved = r.unresolved \cup (IF frozen > cap THEN {rule} ELSE {})
      /\ mutable \in Nat /\ available \in Nat
      /\ q.w = IF mutable > available
               THEN [a \in Assets |-> IF a \in S \cap c.mutable
                                      THEN Scaled(r.w[a], available, mutable) ELSE r.w[a]]
               ELSE r.w

\* Scaling a group.
LEMMA ScaleIntoIs ==
  ASSUME NEW c, IsContext(c), NEW r, IsPartial(r), NEW S \in SUBSET Assets,
         NEW cap \in Nat, NEW rule
  PROVE  Grouped(ScaleInto(r, S, cap, rule, c), r, S, cap, rule, c)
<1> DEFINE frozen == Gross(r.w, S \ c.mutable)
           mutable == Gross(r.w, S \cap c.mutable)
           available == Most(cap - frozen, 0)
           scaled == [a \in Assets |-> IF a \in S \cap c.mutable
                                       THEN Scaled(r.w[a], available, mutable) ELSE r.w[a]]
           checked == IF mutable > available THEN Clip(r, scaled, rule[1]) ELSE r
           reported == IF frozen > cap THEN {rule} ELSE {}
<1>1. ScaleInto(r, S, cap, rule, c) = Report(checked, reported)
  BY DEF ScaleInto
<1>2. r.w \in Portfolio /\ \A a \in Assets : r.w[a] \in Int
  BY PartialIs
<1>3. frozen \in Nat /\ mutable \in Nat
  BY <1>2, GrossIs
<1> HIDE DEF frozen, mutable
<1>4. available \in Nat
  BY <1>3 DEF Most
<1> HIDE DEF available
<1>5. mutable > available => scaled \in Portfolio
  <2>1. ASSUME mutable > available, NEW a \in Assets
        PROVE  Scaled(r.w[a], available, mutable) \in Int
    <3>1. mutable \in Nat \ {0} /\ r.w[a] \in Int
      BY <1>2, <1>3, <1>4, <2>1
    <3> QED BY <1>4, <3>1, ScaledIs
  <2> QED BY <1>2, <2>1 DEF Portfolio
<1> HIDE DEF scaled
<1>6. IsPartial(checked) /\ checked.unresolved = r.unresolved
      /\ checked.w = IF mutable > available THEN scaled ELSE r.w
  BY <1>5, ClipIs
<1> HIDE DEF checked, reported
<1>7. LET q == ScaleInto(r, S, cap, rule, c)
      IN  IsPartial(q) /\ q.w = checked.w /\ q.unresolved = r.unresolved \cup reported
  BY <1>1, <1>6, ReportIs
<1> QED BY <1>3, <1>4, <1>6, <1>7 DEF frozen, mutable, available, scaled, reported, Grouped


\* A position that moved toward zero, and not past it.
Nearer(y, x) == (0 <= y /\ y <= x) \/ (x <= y /\ y <= 0)

\* What a rule may do after the first two: it takes from positions that can be
\* traded, and reports.
Narrows(q, r, c) ==
  /\ IsPartial(q) /\ r.unresolved \subseteq q.unresolved
  /\ \A a \in Assets : Nearer(q.w[a], r.w[a])
  /\ \A a \in Frozen(c) : q.w[a] = r.w[a]

\* Nothing is further from zero than it was.
LEMMA NarrowsSizes ==
  ASSUME NEW c, NEW r, IsPartial(r), NEW q, Narrows(q, r, c)
  PROVE  \A a \in Assets : Size(q.w[a]) <= Size(r.w[a])
<1>1. \A a \in Assets : q.w[a] \in Int /\ r.w[a] \in Int /\ Nearer(q.w[a], r.w[a])
  BY PartialIs DEF Narrows
<1>2. \A x, y \in Int : Nearer(y, x) => Size(y) <= Size(x)
  BY DEF Nearer, Size
<1> QED BY <1>1, <1>2

\* Gross exposure is ordered as the positions are.
LEMMA GrossAtMost ==
  ASSUME NEW S \in SUBSET Assets, NEW w \in Portfolio, NEW v \in Portfolio,
         \A a \in S : Size(v[a]) <= Size(w[a])
  PROVE  Gross(v, S) <= Gross(w, S)
<1> DEFINE gw == [a \in S |-> Size(w[a])]
           gv == [a \in S |-> Size(v[a])]
<1>1. \A a \in S : gw[a] \in Int /\ gv[a] \in Int /\ gv[a] <= gw[a]
  BY DEF Portfolio, Size
<1>2. Gross(v, S) = Added(gv, S) /\ Gross(w, S) = Added(gw, S)
  BY TotalIs DEF Gross
<1> HIDE DEF gw, gv
<1>3. IsFiniteSet(S)
  BY FiniteAssets
<1>4. Added(gv, S) <= Added(gw, S)
  BY <1>1, <1>3, AddedAtMost
<1> QED BY <1>2, <1>4

\* The gross exposure of a set is that of its two parts.
LEMMA GrossSplit ==
  ASSUME NEW S \in SUBSET Assets, NEW P \in SUBSET Assets, NEW w \in Portfolio
  PROVE  Gross(w, S) = Gross(w, S \cap P) + Gross(w, S \ P)
<1> DEFINE g == [a \in S |-> Size(w[a])]
           gin == [a \in S \cap P |-> Size(w[a])]
           gout == [a \in S \ P |-> Size(w[a])]
<1>1. \A a \in S : g[a] = Size(w[a]) /\ g[a] \in Int
  BY DEF Portfolio, Size
<1>2. /\ Gross(w, S) = Added(g, S)
      /\ Gross(w, S \cap P) = Added(gin, S \cap P) /\ Gross(w, S \ P) = Added(gout, S \ P)
  BY TotalIs DEF Gross
<1>3. IsFiniteSet(S) /\ IsFiniteSet(S \cap P) /\ IsFiniteSet(S \ P)
  BY FiniteAssets
<1>4. (\A a \in S \cap P : gin[a] = g[a]) /\ (\A a \in S \ P : gout[a] = g[a])
  OBVIOUS
<1> HIDE DEF g, gin, gout
<1>5. Added(gin, S \cap P) = Added(g, S \cap P)
  BY <1>1, <1>3, <1>4, AddedSame
<1>6. Added(gout, S \ P) = Added(g, S \ P)
  BY <1>1, <1>3, <1>4, AddedSame
<1>7. IntsOn(g, S)
  BY <1>1 DEF IntsOn
<1>8. Added(g, S) = Added(g, S \cap P) + Added(g, S \ P)
  BY <1>3, <1>7, AddedSplit
<1> QED BY <1>2, <1>5, <1>6, <1>8

\* What becomes of r where the assets S share a cap.
CapKept(q, r, S, cap, rule, c) ==
  /\ Narrows(q, r, c)
  /\ \A a \in Assets \ S : q.w[a] = r.w[a]
  /\ Gross(q.w, S) <= cap \/ rule \in q.unresolved
  /\ Gross(q.w, S) <= cap \/ \A a \in S \cap c.mutable : q.w[a] = 0

\* A group that shares a cap takes from its mutable assets until it is met; what
\* its frozen assets take beyond it is reported.
LEMMA ScaleIntoKeeps ==
  ASSUME NEW c, IsContext(c), NEW r, IsPartial(r), NEW S \in SUBSET Assets,
         NEW cap \in Nat, NEW rule
  PROVE  CapKept(ScaleInto(r, S, cap, rule, c), r, S, cap, rule, c)
<1> DEFINE q == ScaleInto(r, S, cap, rule, c)
           M == S \cap c.mutable
           frozen == Gross(r.w, S \ c.mutable)
           mutable == Gross(r.w, M)
           available == Most(cap - frozen, 0)
<1>1. /\ IsPartial(q)
      /\ q.unresolved = r.unresolved \cup (IF frozen > cap THEN {rule} ELSE {})
      /\ mutable \in Nat /\ available \in Nat
      /\ q.w = IF mutable > available
               THEN [a \in Assets |-> IF a \in M THEN Scaled(r.w[a], available, mutable)
                                      ELSE r.w[a]]
               ELSE r.w
  <2>1. Grouped(q, r, S, cap, rule, c)
    BY ScaleIntoIs
  <2> HIDE DEF q
  <2> QED BY <2>1 DEF Grouped
<1>2. r.w \in Portfolio /\ q.w \in Portfolio /\ \A a \in Assets : r.w[a] \in Int
  BY <1>1, PartialIs
<1>3. frozen \in Nat
  BY <1>2, GrossIs
<1>4. available = Most(cap - frozen, 0)
  OBVIOUS
<1>5. M \in SUBSET Assets /\ c.mutable \in SUBSET Assets
  BY DEF IsContext
<1>6. frozen = Gross(r.w, S \ c.mutable) /\ mutable = Gross(r.w, M)
  OBVIOUS
<1> HIDE DEF q, frozen, mutable, available
<1>7. \A a \in Assets \ M : q.w[a] = r.w[a]
  BY <1>1
<1>8. \A a \in Assets : Nearer(q.w[a], r.w[a])
  <2> SUFFICES ASSUME NEW a \in Assets PROVE Nearer(q.w[a], r.w[a])
    OBVIOUS
  <2>1. CASE mutable > available /\ a \in M
    <3>1. q.w[a] = Scaled(r.w[a], available, mutable) /\ mutable \in Nat \ {0}
          /\ available <= mutable /\ r.w[a] \in Int
      BY <1>1, <1>2, <2>1
    <3> DEFINE y == Scaled(r.w[a], available, mutable)
    <3>2. /\ y \in Int /\ (r.w[a] >= 0 => y >= 0) /\ (r.w[a] <= 0 => y <= 0)
          /\ Size(y) <= Size(r.w[a])
      BY <1>1, <3>1, ScaledIs
    <3> HIDE DEF y
    <3>3. Nearer(y, r.w[a])
      BY <3>1, <3>2 DEF Nearer, Size
    <3> QED BY <3>1, <3>3 DEF y
  <2>2. CASE ~(mutable > available /\ a \in M)
    <3>1. q.w[a] = r.w[a] /\ r.w[a] \in Int
      BY <1>1, <1>2, <2>2
    <3> QED BY <3>1 DEF Nearer
  <2> QED BY <2>1, <2>2
<1>9. Narrows(q, r, c)
  <2>1. \A a \in Frozen(c) : a \in Assets \ M
    BY DEF Frozen
  <2> QED BY <1>1, <1>7, <1>8, <2>1 DEF Narrows
<1>10. frozen <= cap => Gross(q.w, S) <= cap
  <2> SUFFICES ASSUME frozen <= cap PROVE Gross(q.w, S) <= cap
    OBVIOUS
  <2>1. available = cap - frozen
    BY <1>3, <1>4 DEF Most
  <2>2. Gross(q.w, S) = Gross(q.w, M) + Gross(q.w, S \ c.mutable)
    BY <1>2, <1>5, GrossSplit
  <2>3. Gross(q.w, S \ c.mutable) <= frozen
    <3>1. \A a \in S \ c.mutable : q.w[a] = r.w[a] /\ r.w[a] \in Int
      BY <1>2, <1>7
    <3>2. \A a \in S \ c.mutable : Size(q.w[a]) <= Size(r.w[a])
      BY <3>1 DEF Size
    <3>3. S \ c.mutable \in SUBSET Assets
      OBVIOUS
    <3> QED BY <1>2, <1>6, <3>2, <3>3, GrossAtMost
  <2>4. Gross(q.w, M) <= available
    <3>1. CASE mutable > available
      <4>1. mutable \in Nat \ {0} /\ \A a \in M : q.w[a] = Scaled(r.w[a], available, mutable)
        BY <1>1, <1>5, <3>1
      <4>2. mutable * Gross(q.w, M) <= available * Gross(r.w, M)
        BY <1>1, <1>2, <1>5, <4>1, GrossScaled
      <4>3. Gross(q.w, M) \in Nat
        BY <1>2, <1>5, GrossIs
      <4>4. available * mutable = mutable * available
        BY <1>1
      <4> QED BY <1>1, <1>6, <4>1, <4>2, <4>3, <4>4, Cancel
    <3>2. CASE ~(mutable > available)
      <4>1. q.w = r.w
        BY <1>1, <3>2
      <4> QED BY <1>1, <1>6, <3>2, <4>1
    <3> QED BY <3>1, <3>2
  <2>5. Gross(q.w, M) \in Nat /\ Gross(q.w, S \ c.mutable) \in Nat
    BY <1>2, <1>5, GrossIs
  <2> QED BY <1>3, <2>1, <2>2, <2>3, <2>4, <2>5
<1>11. Gross(q.w, S) <= cap \/ rule \in q.unresolved
  BY <1>1, <1>3, <1>10
<1>12. \A a \in Assets \ S : q.w[a] = r.w[a]
  BY <1>7
<1>13. ASSUME frozen > cap, NEW a \in M
       PROVE  q.w[a] = 0
  <2>1. available = 0
    BY <1>3, <1>4, <1>13 DEF Most
  <2>2. a \in Assets /\ r.w[a] \in Int /\ q.w[a] \in Int
    BY <1>2, <1>5 DEF Portfolio
  <2>3. CASE mutable > available
    <3>1. q.w[a] = Scaled(r.w[a], available, mutable) /\ mutable \in Nat \ {0}
      BY <1>1, <2>2, <2>3
    <3>2. mutable * Size(Scaled(r.w[a], available, mutable)) <= Size(r.w[a]) * available
      BY <1>1, <2>2, <3>1, ScaledIs
    <3>3. mutable * Size(q.w[a]) <= mutable * 0 /\ Size(q.w[a]) \in Nat
      <4>1. Size(q.w[a]) \in Nat /\ Size(r.w[a]) \in Nat
        BY <2>2 DEF Size
      <4>2. Size(r.w[a]) * 0 = 0 /\ mutable * 0 = 0
        BY <3>1, <4>1
      <4> QED BY <2>1, <3>1, <3>2, <4>1, <4>2
    <3>4. Size(q.w[a]) <= 0
      BY <3>1, <3>3, Cancel
    <3> QED BY <2>2, <3>3, <3>4 DEF Size
  <2>4. CASE ~(mutable > available)
    <3>1. q.w[a] = r.w[a] /\ mutable = 0
      BY <1>1, <2>1, <2>4
    <3>2. Size(r.w[a]) \in Nat /\ Size(r.w[a]) <= mutable
      BY <1>2, <1>5, <1>6, GrossIs
    <3> QED BY <2>2, <3>1, <3>2 DEF Size
  <2> QED BY <2>3, <2>4
<1>14. Gross(q.w, S) <= cap \/ \A a \in M : q.w[a] = 0
  BY <1>3, <1>10, <1>13
<1> QED BY <1>9, <1>11, <1>12, <1>14 DEF q, CapKept


\* Rules that narrow one after the other narrow.
LEMMA NarrowsOn ==
  ASSUME NEW c, NEW r, IsPartial(r), NEW q, Narrows(q, r, c), NEW s, Narrows(s, q, c)
  PROVE  Narrows(s, r, c)
<1>1. \A a \in Assets : r.w[a] \in Int /\ q.w[a] \in Int /\ s.w[a] \in Int
  BY PartialIs DEF Narrows
<1>2. \A x, y, z \in Int : Nearer(y, x) /\ Nearer(z, y) => Nearer(z, x)
  BY DEF Nearer
<1> QED BY <1>1, <1>2 DEF Narrows

\* The cap of each market is met, or its frozen assets are reported.
LEMMA MaxMarketWeightKeeps ==
  ASSUME NEW c, IsContext(c), NEW r, IsPartial(r)
  PROVE  LET q == MaxMarketWeight(r, c)
         IN  /\ Narrows(q, r, c)
             /\ \A m \in Markets : \/ Gross(q.w, Listed(m)) <= MarketLimit(m, c)
                                   \/ <<"max_market_weight", m>> \in q.unresolved
             /\ \A m \in Markets : \/ Gross(q.w, Listed(m)) <= MarketLimit(m, c)
                                   \/ \A a \in Listed(m) \cap c.mutable : q.w[a] = 0
<1> DEFINE turn == [m \in Markets |->
                      ScaleInto(r, Listed(m), MarketLimit(m, c), <<"max_market_weight", m>>, c)]
           q == MaxMarketWeight(r, c)
<1>1. q = [w          |-> [a \in Assets |-> turn[MarketOf[a]].w[a]],
           reasons    |-> UNION {turn[m].reasons : m \in Markets},
           unresolved |-> UNION {turn[m].unresolved : m \in Markets}]
  BY DEF MaxMarketWeight
<1>2. ASSUME NEW m \in Markets
      PROVE  /\ Narrows(turn[m], r, c)
             /\ \/ Gross(turn[m].w, Listed(m)) <= MarketLimit(m, c)
                \/ <<"max_market_weight", m>> \in turn[m].unresolved
             /\ \/ Gross(turn[m].w, Listed(m)) <= MarketLimit(m, c)
                \/ \A a \in Listed(m) \cap c.mutable : turn[m].w[a] = 0
  <2>1. turn[m] = ScaleInto(r, Listed(m), MarketLimit(m, c), <<"max_market_weight", m>>, c)
    OBVIOUS
  <2>2. Listed(m) \in SUBSET Assets /\ MarketLimit(m, c) \in Nat
    BY ConfigIs DEF Listed
  <2> HIDE DEF turn
  <2>3. CapKept(turn[m], r, Listed(m), MarketLimit(m, c), <<"max_market_weight", m>>, c)
    BY <2>1, <2>2, ScaleIntoKeeps
  <2> QED BY <2>3 DEF CapKept
<1> HIDE DEF turn, q
<1>3. \A a \in Assets : MarketOf[a] \in Markets
  BY ProjectionAssumption
<1>4. /\ \A a \in Assets : q.w[a] = turn[MarketOf[a]].w[a]
      /\ \A m \in Markets : turn[m].unresolved \subseteq q.unresolved
  BY <1>1
<1>5. \A m \in Markets : turn[m].w \in Portfolio
  BY <1>2, PartialIs DEF Narrows
<1>6. q.w \in Portfolio
  <2>1. \A a \in Assets : turn[MarketOf[a]].w[a] \in Int
    BY <1>3, <1>5 DEF Portfolio
  <2> QED BY <1>1, <2>1 DEF Portfolio
<1>7. Narrows(q, r, c)
  <2>1. IsPartial(q)
    BY <1>1, <1>6 DEF IsPartial
  <2>2. r.unresolved \subseteq q.unresolved
    <3>1. PICK a \in Assets : TRUE
      BY ProjectionAssumption
    <3> QED BY <1>2, <1>3, <1>4 DEF Narrows
  <2>3. \A a \in Assets : Nearer(q.w[a], r.w[a])
    BY <1>2, <1>3, <1>4 DEF Narrows
  <2>4. \A a \in Frozen(c) : q.w[a] = r.w[a]
    BY <1>2, <1>3, <1>4 DEF Narrows, Frozen
  <2> QED BY <2>1, <2>2, <2>3, <2>4 DEF Narrows
<1>8. ASSUME NEW m \in Markets
      PROVE  /\ \/ Gross(q.w, Listed(m)) <= MarketLimit(m, c)
                \/ <<"max_market_weight", m>> \in q.unresolved
             /\ \/ Gross(q.w, Listed(m)) <= MarketLimit(m, c)
                \/ \A a \in Listed(m) \cap c.mutable : q.w[a] = 0
  <2>1. Listed(m) \in SUBSET Assets /\ MarketLimit(m, c) \in Nat
    BY ConfigIs DEF Listed
  <2>2. \A a \in Listed(m) : Size(q.w[a]) <= Size(turn[m].w[a])
    <3>1. \A a \in Listed(m) : q.w[a] = turn[m].w[a] /\ q.w[a] \in Int
      BY <1>4, <1>6 DEF Listed, Portfolio
    <3> QED BY <3>1 DEF Size
  <2>3. Gross(q.w, Listed(m)) <= Gross(turn[m].w, Listed(m))
    BY <1>5, <1>6, <2>1, <2>2, GrossAtMost
  <2>4. Gross(q.w, Listed(m)) \in Nat /\ Gross(turn[m].w, Listed(m)) \in Nat
    BY <1>5, <1>6, <2>1, GrossIs
  <2>5. CASE Gross(turn[m].w, Listed(m)) <= MarketLimit(m, c)
    BY <2>1, <2>3, <2>4, <2>5
  <2>6. CASE ~(Gross(turn[m].w, Listed(m)) <= MarketLimit(m, c))
    <3>1. \A a \in Listed(m) : q.w[a] = turn[m].w[a]
      BY <1>4 DEF Listed
    <3> QED BY <1>2, <1>4, <2>6, <3>1
  <2> QED BY <2>5, <2>6
<1> QED BY <1>7, <1>8 DEF q

\* Leverage takes from positions.
LEMMA LeverageKeeps ==
  ASSUME NEW c, IsContext(c), NEW r, IsPartial(r)
  PROVE  Narrows(Leverage(r, c), r, c)
BY ConfigIs, ScaleIntoKeeps DEF Leverage, CapKept

\* The reserve of cash is met, or reported when no long position is left to
\* take it from.
LEMMA CashFloorKeeps ==
  ASSUME NEW c, IsContext(c), NEW r, IsPartial(r)
  PROVE  LET q == CashFloor(r, c)
         IN  /\ Narrows(q, r, c)
             /\ \/ c.value - Total(q.w, Assets) >= Limit(c.config.cashFloor, c)
                \/ <<"cash_floor", "all">> \in q.unresolved
             /\ \/ c.value - Total(q.w, Assets) >= Limit(c.config.cashFloor, c)
                \/ \A a \in c.mutable : q.w[a] <= 0
<1> DEFINE floor == Limit(c.config.cashFloor, c)
           all == Total(r.w, Assets)
           excess == floor - (c.value - all)
           long == {a \in c.mutable : r.w[a] > 0}
           available == Total(r.w, long)
           kept == Most(available - excess, 0)
           reduced == [a \in Assets |-> IF a \in long THEN Scaled(r.w[a], kept, available)
                                        ELSE r.w[a]]
           emptied == [a \in Assets |-> IF a \in long THEN 0 ELSE r.w[a]]
           q == CashFloor(r, c)
<1>1. q = CASE excess <= 0 -> r
            [] excess > 0 /\ available <= excess ->
                 Report(Clip(r, emptied, "cash_floor"), {<<"cash_floor", "all">>})
            [] OTHER -> Clip(r, reduced, "cash_floor")
  BY DEF CashFloor
<1>2. r.w \in Portfolio /\ \A a \in Assets : r.w[a] \in Int
  BY PartialIs
<1>0. \A a \in c.mutable : a \in Assets /\ (a \in long <=> r.w[a] > 0)
  BY DEF IsContext
<1>3. long \in SUBSET Assets /\ (\A a \in long : a \in c.mutable /\ r.w[a] > 0)
      /\ IsFiniteSet(long) /\ IsFiniteSet(Assets)
  BY FiniteAssets DEF IsContext
<1>4. floor \in Nat /\ c.value \in Nat
  BY ConfigIs DEF IsContext
<1>5. IntsOn(r.w, Assets) /\ IntsOn(r.w, long)
  BY <1>2, <1>3 DEF IntsOn
<1>6. all \in Int /\ available \in Nat
  BY <1>2, <1>3, <1>5, TotalType
<1>7. all = Added(r.w, Assets) /\ available = Added(r.w, long)
  BY TotalIs
<1>8. reduced = [a \in Assets |-> IF a \in long THEN Scaled(r.w[a], kept, available) ELSE r.w[a]]
      /\ emptied = [a \in Assets |-> IF a \in long THEN 0 ELSE r.w[a]]
      /\ excess = floor - (c.value - all) /\ kept = Most(available - excess, 0)
  OBVIOUS
<1>9. floor = Limit(c.config.cashFloor, c)
  OBVIOUS
<1> HIDE DEF floor, all, excess, long, available, kept, reduced, emptied, q
<1>10. excess \in Int /\ kept \in Nat
  BY <1>4, <1>6, <1>8 DEF Most
<1>11. CASE excess <= 0
  <2>1. q = r
    BY <1>1, <1>10, <1>11
  <2>2. c.value - all >= floor
    BY <1>4, <1>6, <1>8, <1>11
  <2>3. Narrows(q, r, c)
    <3>1. \A x \in Int : Nearer(x, x)
      BY DEF Nearer
    <3> QED BY <1>2, <2>1, <3>1 DEF Narrows
  <2> QED BY <1>9, <2>1, <2>2, <2>3 DEF all, q
<1>12. CASE excess > 0 /\ available <= excess
  <2>1. q = Report(Clip(r, emptied, "cash_floor"), {<<"cash_floor", "all">>})
    BY <1>1, <1>10, <1>12
  <2>2. emptied \in Portfolio
    BY <1>2, <1>8 DEF Portfolio
  <2>3. /\ IsPartial(q) /\ q.w = emptied
        /\ q.unresolved = r.unresolved \cup {<<"cash_floor", "all">>}
    BY <2>1, <2>2, ClipIs, ReportIs
  <2>4. \A a \in Assets : Nearer(q.w[a], r.w[a])
    BY <1>2, <1>3, <1>8, <2>3 DEF Nearer
  <2>5. \A a \in Frozen(c) : q.w[a] = r.w[a]
    BY <1>3, <1>8, <2>3 DEF Frozen
  <2>6. \A a \in c.mutable : q.w[a] <= 0
    BY <1>0, <1>2, <1>8, <2>3
  <2> QED BY <2>3, <2>4, <2>5, <2>6 DEF Narrows, q
<1>13. CASE excess > 0 /\ ~(available <= excess)
  <2>1. q = Clip(r, reduced, "cash_floor")
    BY <1>1, <1>10, <1>13
  <2>2. kept = available - excess /\ available \in Nat \ {0} /\ kept <= available
    BY <1>6, <1>8, <1>10, <1>13 DEF Most
  <2>3. ASSUME NEW a \in Assets
        PROVE  reduced[a] \in Int /\ Nearer(reduced[a], r.w[a])
    <3>1. CASE a \in long
      <4> DEFINE y == Scaled(r.w[a], kept, available)
      <4>1. /\ y \in Int /\ (r.w[a] >= 0 => y >= 0) /\ Size(y) <= Size(r.w[a])
        BY <1>2, <1>10, <2>2, ScaledIs
      <4>2. r.w[a] > 0 /\ r.w[a] \in Int /\ reduced[a] = y
        BY <1>2, <1>3, <1>8, <3>1
      <4> HIDE DEF y
      <4> QED BY <4>1, <4>2 DEF Nearer, Size
    <3>2. CASE a \notin long
      BY <1>2, <1>8, <3>2 DEF Nearer
    <3> QED BY <3>1, <3>2
  <2>4. reduced \in Portfolio
    BY <1>8, <2>3 DEF Portfolio
  <2>5. IsPartial(q) /\ q.w = reduced /\ q.unresolved = r.unresolved
    BY <2>1, <2>4, ClipIs
  <2>6. \A a \in Frozen(c) : q.w[a] = r.w[a]
    BY <1>3, <1>8, <2>5 DEF Frozen
  <2>7. Narrows(q, r, c)
    BY <2>3, <2>5, <2>6 DEF Narrows
  <2>8. Added(reduced, long) <= kept
    <3>1. \A a \in long : reduced[a] = Scaled(r.w[a], kept, available)
      BY <1>3, <1>8
    <3>2. available * Gross(reduced, long) <= kept * Gross(r.w, long)
      BY <1>2, <1>3, <1>10, <2>2, <2>4, <3>1, GrossScaled
    <3>3. Gross(r.w, long) = available
      <4> DEFINE g == [a \in long |-> Size(r.w[a])]
      <4>1. \A a \in long : r.w[a] \in Int /\ g[a] = r.w[a]
        BY <1>2, <1>3 DEF Size
      <4>2. Gross(r.w, long) = Added(g, long)
        BY TotalIs DEF Gross
      <4> HIDE DEF g
      <4> QED BY <1>3, <1>7, <4>1, <4>2, AddedSame
    <3>4. Added(reduced, long) <= Gross(reduced, long)
      <4> DEFINE g == [a \in long |-> Size(reduced[a])]
      <4>1. \A a \in long : reduced[a] \in Int /\ g[a] \in Int /\ reduced[a] <= g[a]
        BY <1>3, <2>3 DEF Size
      <4>2. Gross(reduced, long) = Added(g, long)
        BY TotalIs DEF Gross
      <4> HIDE DEF g
      <4> QED BY <1>3, <4>1, <4>2, AddedAtMost
    <3>5. Gross(reduced, long) \in Nat
      BY <1>3, <2>4, GrossIs
    <3>6. Gross(reduced, long) <= kept
      <4>1. kept * available = available * kept
        BY <1>10, <2>2
      <4> QED BY <1>10, <2>2, <3>2, <3>3, <3>5, <4>1, Cancel
    <3>7. Added(reduced, long) \in Int
      <4>1. IntsOn(reduced, long)
        BY <1>3, <2>3 DEF IntsOn
      <4> QED BY <1>3, <4>1, AddedElement
    <3> QED BY <1>10, <3>4, <3>5, <3>6, <3>7
  <2>9. IntsOn(reduced, Assets)
    BY <2>3 DEF IntsOn
  <2>10. Added(reduced, Assets) = Added(reduced, Assets \cap long) + Added(reduced, Assets \ long)
         /\ all = Added(r.w, Assets \cap long) + Added(r.w, Assets \ long)
    BY <1>3, <1>5, <1>7, <2>9, AddedSplit
  <2>11. Added(reduced, Assets \ long) = Added(r.w, Assets \ long)
    <3>1. \A a \in Assets \ long : r.w[a] \in Int /\ reduced[a] = r.w[a]
      BY <1>2, <1>8
    <3>2. IsFiniteSet(Assets \ long)
      BY FiniteAssets
    <3> QED BY <3>1, <3>2, AddedSame
  <2>12. Added(r.w, Assets \ long) \in Int /\ Added(reduced, long) \in Int
    <3>1. IntsOn(r.w, Assets \ long) /\ IntsOn(reduced, long)
      BY <1>2, <1>3, <2>3 DEF IntsOn
    <3>2. IsFiniteSet(Assets \ long)
      BY FiniteAssets
    <3> QED BY <1>3, <3>1, <3>2, AddedElement
  <2>13. Assets \cap long = long
    BY <1>3
  <2>14. Added(reduced, Assets) <= all - excess
    BY <1>6, <1>7, <1>10, <2>2, <2>8, <2>10, <2>11, <2>12, <2>13
  <2>15. Added(reduced, Assets) \in Int
    BY <1>3, <2>9, AddedElement
  <2>16. c.value - Added(reduced, Assets) >= floor
    BY <1>4, <1>6, <1>8, <2>14, <2>15
  <2> QED BY <1>9, <2>5, <2>7, <2>16, TotalIs DEF q
<1> QED BY <1>10, <1>11, <1>12, <1>13

-----------------------------------------------------------------------------
(***************************************************************************)
(* The turnover limit, the last rule, moves a portfolio back toward the    *)
(* current one.  It can leave a limit violated only if the current         *)
(* portfolio violates it.                                                  *)
(***************************************************************************)

\* A position the turnover limit moved lies between the current and the wanted
\* one, and not further along than limit of turnover, up to one unit.
LEMMA BlendIs ==
  ASSUME NEW cur \in Int, NEW want \in Int, NEW lim \in Nat, NEW T \in Nat \ {0}, lim <= T
  PROVE  LET x == cur + Scaled(want - cur, lim, T)
         IN  /\ x \in Int
             /\ (cur <= x /\ x <= want) \/ (want <= x /\ x <= cur)
             /\ T * x <= ((T - lim) * cur + lim * want) + T
             /\ T * Size(x) <= ((T - lim) * Size(cur) + lim * Size(want)) + T
             /\ Size(x - cur) = Size(Scaled(want - cur, lim, T))
<1> DEFINE d == want - cur
           s == Size(d)
           z == (s * lim) \div T
           y == Scaled(d, lim, T)
<1>1. d \in Int /\ s \in Nat /\ s * lim \in Nat
  BY DEF Size
<1>2. z \in Nat /\ T * z <= s * lim /\ s * lim < T * z + T
  BY <1>1, DivIs
<1>3. y = IF d < 0 THEN -z ELSE z
  BY DEF Scaled, Size
<1>4. s = (IF d < 0 THEN -d ELSE d) /\ d = want - cur
  BY DEF Size
<1> HIDE DEF d, s, z, y
<1>5. z <= s
  <2>1. T * z <= T * s
    <3>1. s * lim <= s * T /\ s * T = T * s
      BY <1>1, TimesAtMost
    <3>2. T * z \in Nat /\ T * s \in Nat
      BY <1>1, <1>2
    <3> QED BY <1>1, <1>2, <3>1, <3>2
  <2> QED BY <1>1, <1>2, <2>1, Cancel
<1>6. lim * s = s * lim /\ lim * s \in Nat /\ T * z \in Nat
  BY <1>1, <1>2
<1> DEFINE x == cur + y
<1>7. x \in Int /\ ((cur <= x /\ x <= want) \/ (want <= x /\ x <= cur))
      /\ Size(x - cur) = Size(y)
  BY <1>1, <1>2, <1>3, <1>4, <1>5 DEF Size
<1>8. /\ T * y <= lim * d + T
      /\ -(T * y) <= T - lim * d
  <2>1. CASE d < 0
    <3>1. T * y = -(T * z) /\ lim * d = -(lim * s)
      BY <1>1, <1>2, <1>3, <1>4, <2>1
    <3> QED BY <1>2, <1>6, <3>1
  <2>2. CASE d >= 0
    <3>1. y = z /\ d = s
      BY <1>1, <1>3, <1>4, <2>2
    <3> QED BY <1>2, <1>6, <3>1
  <2> QED BY <1>1, <2>1, <2>2
<1>9. y \in Int
  BY <1>1, <1>2, <1>3
<1> DEFINE A == T * cur
           B == lim * cur
           C == lim * want
<1>10. A \in Int /\ B \in Int /\ C \in Int
  OBVIOUS
<1>11. T * x = A + T * y /\ lim * d = C - B /\ (T - lim) * cur = A - B
       /\ T * y \in Int
  BY <1>9, <1>4
<1>12. T * x <= ((T - lim) * cur + lim * want) + T
  <2> HIDE DEF x, A, B
  <2> QED BY <1>8, <1>10, <1>11
<1>13. T * Size(x) <= ((T - lim) * Size(cur) + lim * Size(want)) + T
  <2>1. /\ \A p, q \in Int : q <= Size(q) /\ -q <= Size(q) /\ Size(q) \in Nat
        /\ T - lim \in Nat
    BY DEF Size
  <2>2. /\ (T - lim) * cur <= (T - lim) * Size(cur)
        /\ -((T - lim) * cur) <= (T - lim) * Size(cur)
    <3> DEFINE k == T - lim
    <3>1. k \in Nat /\ (cur = Size(cur) \/ cur = -Size(cur)) /\ Size(cur) \in Nat
      BY DEF Size
    <3> HIDE DEF k
    <3>2. k * cur <= k * Size(cur) /\ -(k * cur) <= k * Size(cur)
      <4>1. k * Size(cur) \in Nat /\ k * (-Size(cur)) = -(k * Size(cur))
        BY <3>1
      <4> QED BY <3>1, <4>1
    <3> QED BY <3>2 DEF k
  <2>3. C <= lim * Size(want) /\ -C <= lim * Size(want)
    <3>1. (want = Size(want) \/ want = -Size(want)) /\ Size(want) \in Nat
      BY DEF Size
    <3>2. lim * Size(want) \in Nat /\ lim * (-Size(want)) = -(lim * Size(want))
      BY <3>1
    <3> QED BY <3>1, <3>2
  <2>4. (T - lim) * Size(cur) \in Int /\ lim * Size(want) \in Int
    BY <2>1
  <2>5. T * Size(x) = T * x \/ T * Size(x) = -(T * x)
    <3>1. Size(x) = x \/ Size(x) = -x
      BY DEF Size
    <3>2. T * (-x) = -(T * x)
      BY <1>7
    <3> QED BY <3>1, <3>2
  <2> HIDE DEF x, A, B, C
  <2>6. T * x \in Int
    BY <1>7
  <2>7. T * x <= ((T - lim) * Size(cur) + lim * Size(want)) + T
    BY <1>8, <1>10, <1>11, <2>2, <2>3, <2>4
  <2>8. -(T * x) <= ((T - lim) * Size(cur) + lim * Size(want)) + T
    BY <1>8, <1>10, <1>11, <2>2, <2>3, <2>4
  <2> QED BY <2>5, <2>7, <2>8
<1> QED BY <1>7, <1>12, <1>13 DEF d, y

\* x lies between u and v, lim of T along, up to one unit per member.
Blends(x, u, v, lim, T, S) ==
  \A a \in S : /\ u[a] \in Int /\ v[a] \in Int /\ x[a] \in Int
               /\ T * x[a] <= ((T - lim) * u[a] + lim * v[a]) + T

\* So do sums: between two sums that meet a bound lies one that misses it by at
\* most one unit per member.
LEMMA BlendSum ==
  ASSUME NEW S, IsFiniteSet(S), NEW u, NEW v, NEW x, NEW lim \in Nat, NEW T \in Nat \ {0},
         lim <= T, NEW bound \in Int, Added(u, S) <= bound, Added(v, S) <= bound,
         Blends(x, u, v, lim, T, S)
  PROVE  Added(x, S) <= bound + Cardinality(S)
<1> USE DEF Blends
<1> DEFINE k == T - lim
           tx == [a \in S |-> T * x[a]]
           ku == [a \in S |-> k * u[a]]
           lv == [a \in S |-> lim * v[a]]
           both == [a \in S |-> ku[a] + lv[a]]
           one == [a \in S |-> 1]
           units == [a \in S |-> T * one[a]]
           all == [a \in S |-> both[a] + units[a]]
<1>1. k \in Nat /\ T = k + lim
  OBVIOUS
<1>2. \A a \in S : /\ tx[a] = T * x[a] /\ ku[a] = k * u[a] /\ lv[a] = lim * v[a]
                   /\ both[a] = ku[a] + lv[a] /\ one[a] = 1 /\ units[a] = T * one[a]
                   /\ all[a] = both[a] + units[a]
  OBVIOUS
<1>3. \A a \in S : T * x[a] <= (k * u[a] + lim * v[a]) + T
  OBVIOUS
<1> HIDE DEF k, tx, ku, lv, both, one, units, all
<1>4. \A a \in S : /\ tx[a] \in Int /\ ku[a] \in Int /\ lv[a] \in Int /\ both[a] \in Int
                   /\ units[a] \in Int /\ units[a] = T /\ all[a] \in Int
  BY <1>1, <1>2
<1>5. \A a \in S : tx[a] <= all[a]
  BY <1>2, <1>3, <1>4
<1>6. Added(tx, S) <= Added(all, S)
  BY <1>4, <1>5, AddedAtMost
<1>7. Added(tx, S) = T * Added(x, S)
  BY <1>2, AddedTimes
<1>8. Added(all, S) = Added(both, S) + Added(units, S)
  <2>1. Joins(all, both, units, S)
    BY <1>2, <1>4 DEF Joins
  <2> QED BY <2>1, AddedPlus
<1>9. Added(both, S) = Added(ku, S) + Added(lv, S)
  <2>1. Joins(both, ku, lv, S)
    BY <1>2, <1>4 DEF Joins
  <2> QED BY <2>1, AddedPlus
<1>10. Added(ku, S) = k * Added(u, S)
  BY <1>1, <1>2, AddedTimes
<1>11. Added(lv, S) = lim * Added(v, S)
  BY <1>2, AddedTimes
<1>12. Added(units, S) = T * Cardinality(S)
  <2>1. Added(one, S) = Cardinality(S)
    BY <1>2, AddedOnes
  <2>2. \A a \in S : one[a] \in Int /\ units[a] = T * one[a]
    BY <1>2
  <2>3. Added(units, S) = T * Added(one, S)
    BY <2>2, AddedTimes
  <2> QED BY <2>1, <2>3
<1>13. /\ Added(u, S) \in Int /\ Added(v, S) \in Int /\ Added(x, S) \in Int
       /\ Cardinality(S) \in Nat
  <2>1. IntsOn(u, S) /\ IntsOn(v, S) /\ IntsOn(x, S)
    BY DEF IntsOn
  <2> QED BY <2>1, AddedElement, FS_CardinalityType
<1> DEFINE U == Added(u, S)
           V == Added(v, S)
           X == Added(x, S)
           n == Cardinality(S)
<1>14. T * X <= (k * U + lim * V) + T * n
  BY <1>6, <1>7, <1>8, <1>9, <1>10, <1>11, <1>12
<1>15. U \in Int /\ V \in Int /\ X \in Int /\ n \in Nat /\ U <= bound /\ V <= bound
  BY <1>13
<1> HIDE DEF U, V, X, n
<1>16. k * U <= k * bound /\ lim * V <= lim * bound
  <2>1. \A p, q \in Int, m \in Nat : p <= q => m * p <= m * q
    <3> SUFFICES ASSUME NEW p \in Int, NEW q \in Int, NEW m \in Nat, p <= q
                 PROVE  m * p <= m * q
      OBVIOUS
    <3>1. m * (q - p) \in Nat /\ m * (q - p) = m * q - m * p
      OBVIOUS
    <3> QED BY <3>1
  <2> QED BY <1>1, <1>15, <2>1
<1>17. T * X <= T * (bound + n)
  <2>1. T * (bound + n) = (k * bound + lim * bound) + T * n
    BY <1>1, <1>15
  <2>2. k * U \in Int /\ lim * V \in Int /\ k * bound \in Int /\ lim * bound \in Int
        /\ T * n \in Int /\ T * X \in Int
    BY <1>1, <1>15
  <2> QED BY <1>14, <1>16, <2>1, <2>2
<1>18. X <= bound + n
  <2> DEFINE e == X - (bound + n)
  <2>1. e \in Int /\ T * e = T * X - T * (bound + n) /\ X = (bound + n) + e
    BY <1>15
  <2>2. T * e <= 0
    <3>1. T * X \in Int /\ T * (bound + n) \in Int
      BY <1>15
    <3> HIDE DEF e
    <3> QED BY <1>17, <2>1, <3>1
  <2> HIDE DEF e
  <2>3. e <= 0
    BY <2>1, <2>2
  <2> QED BY <1>15, <2>1, <2>3
<1> QED BY <1>18 DEF X, n

\* Positions that cannot be traded stay what they are.
FrozenHeld(r, c) == \A a \in Frozen(c) : r.w[a] = c.current[a]

\* The first two rules hold them.
LEMMA FirstRulesHold ==
  ASSUME NEW c, IsContext(c), NEW r, IsPartial(r)
  PROVE  /\ FrozenHeld(TradableMask(r, c), c)
         /\ FrozenHeld(r, c) => FrozenHeld(LongOnly(r, c), c)
         /\ ~c.config.allowShort => \A a \in c.mutable : LongOnly(r, c).w[a] >= 0
<1> DEFINE masked == [a \in Assets |-> IF a \in c.mutable THEN r.w[a] ELSE c.current[a]]
           lifted == [a \in Assets |-> IF a \in c.mutable THEN Most(r.w[a], 0) ELSE r.w[a]]
<1>1. r.w \in Portfolio /\ c.current \in Portfolio
  BY PartialIs DEF IsContext
<1>2. masked \in Portfolio
  BY <1>1 DEF Portfolio
<1>3. lifted \in Portfolio
  BY <1>1 DEF Portfolio, Most
<1>4. \A a \in Frozen(c) : masked[a] = c.current[a] /\ lifted[a] = r.w[a]
  BY DEF Frozen
<1>5. TradableMask(r, c) = IF \E a \in Frozen(c) : r.w[a] # c.current[a]
                           THEN Clip(r, masked, "tradable_mask") ELSE r
  BY DEF TradableMask
<1>6. LongOnly(r, c) = IF ~c.config.allowShort /\ \E a \in c.mutable : r.w[a] < 0
                       THEN Clip(r, lifted, "long_only") ELSE r
  BY DEF LongOnly
<1>8. \A a \in c.mutable : r.w[a] \in Int /\ lifted[a] >= 0
  BY <1>1 DEF Portfolio, Most, IsContext
<1> HIDE DEF masked, lifted
<1>7. Clip(r, masked, "tradable_mask").w = masked /\ Clip(r, lifted, "long_only").w = lifted
  BY <1>2, <1>3, ClipIs
<1>9. ~c.config.allowShort => \A a \in c.mutable : LongOnly(r, c).w[a] >= 0
  BY <1>6, <1>7, <1>8
<1> QED BY <1>4, <1>5, <1>6, <1>7, <1>9 DEF FrozenHeld

\* The cap on a single asset is met where the asset can be traded, and a frozen
\* asset above it is reported.
LEMMA MaxAssetWeightKeeps ==
  ASSUME NEW c, IsContext(c), NEW r, IsPartial(r)
  PROVE  LET q == MaxAssetWeight(r, c)
         IN  /\ AssetsWithin(q, c) /\ (FrozenHeld(r, c) => FrozenHeld(q, c))
             /\ \A a \in c.mutable : Size(q.w[a]) <= Limit(c.config.maxAssetWeight, c)
             /\ \A a \in c.mutable : r.w[a] >= 0 => q.w[a] >= 0
<1> DEFINE cap == Limit(c.config.maxAssetWeight, c)
           clipped == [a \in Assets |-> IF a \in c.mutable
                                        THEN Most(-cap, Least(cap, r.w[a])) ELSE r.w[a]]
           checked == IF clipped = r.w THEN r ELSE Clip(r, clipped, "max_asset_weight")
           violations == {<<"max_asset_weight", a>> : a \in {b \in Frozen(c) : Size(r.w[b]) > cap}}
           q == MaxAssetWeight(r, c)
<1>1. q = Report(checked, violations)
  BY DEF MaxAssetWeight
<1>2. cap \in Nat /\ \A a \in Assets : r.w[a] \in Int
  BY ConfigIs, PartialIs
<1>3. clipped \in Portfolio
  <2> HIDE DEF cap
  <2> QED BY <1>2 DEF Portfolio, Most, Least
<1>4. /\ \A a \in Frozen(c) : clipped[a] = r.w[a]
      /\ \A a \in Frozen(c) : Size(r.w[a]) > cap => <<"max_asset_weight", a>> \in violations
  BY DEF Frozen
<1>5. \A a \in c.mutable : Size(clipped[a]) <= cap /\ (r.w[a] >= 0 => clipped[a] >= 0)
  <2>1. \A a \in c.mutable : a \in Assets /\ clipped[a] = Most(-cap, Least(cap, r.w[a]))
    BY DEF IsContext
  <2> HIDE DEF cap, clipped
  <2>2. \A x \in Int : /\ Size(Most(-cap, Least(cap, x))) <= cap
                       /\ x >= 0 => Most(-cap, Least(cap, x)) >= 0
    BY <1>2 DEF Size, Most, Least
  <2> QED BY <1>2, <2>1, <2>2
<1>6. cap = Limit(c.config.maxAssetWeight, c)
  OBVIOUS
<1> HIDE DEF clipped, violations, cap
<1>7. IsPartial(checked) /\ checked.w = clipped /\ checked.unresolved = r.unresolved
  BY <1>3, ClipIs
<1> HIDE DEF checked, q
<1>8. q.w = clipped /\ q.unresolved = r.unresolved \cup violations
  BY <1>1, <1>7, ReportIs
<1>9. ASSUME NEW a \in Assets
      PROVE  Size(q.w[a]) <= cap \/ <<"max_asset_weight", a>> \in q.unresolved
  <2>1. CASE a \in c.mutable
    BY <1>5, <1>8, <2>1
  <2>2. CASE a \notin c.mutable
    <3>1. a \in Frozen(c) /\ q.w[a] = r.w[a] /\ r.w[a] \in Int
      BY <1>2, <1>4, <1>8, <2>2 DEF Frozen
    <3>2. Size(r.w[a]) > cap \/ Size(r.w[a]) <= cap
      BY <1>2, <3>1 DEF Size
    <3> QED BY <1>4, <1>8, <3>1, <3>2
  <2> QED BY <2>1, <2>2
<1>10. FrozenHeld(r, c) => FrozenHeld(q, c)
  BY <1>4, <1>8 DEF FrozenHeld
<1> QED BY <1>5, <1>6, <1>8, <1>9, <1>10 DEF AssetsWithin, q

\* q is what the turnover limit leaves of r: lim of T of the way there.
Follows(q, r, c, lim, T) ==
  /\ lim <= T /\ IsPartial(q) /\ q.unresolved = r.unresolved
  /\ \A a \in Assets : q.w[a] = c.current[a] + Scaled(r.w[a] - c.current[a], lim, T)

\* The turnover limit, and what it leaves.
LEMMA TurnoverLimitKeeps ==
  ASSUME NEW c, IsContext(c), NEW r, IsPartial(r), FrozenHeld(r, c)
  PROVE  LET q == TurnoverLimit(r, c)
         IN  /\ \E lim \in Nat, T \in Nat \ {0} : Follows(q, r, c, lim, T)
             /\ Turnover(q.w, c) <= Limit(c.config.maxTurnover, c)
<1> DEFINE turnover == Turnover(r.w, c)
           limit == Limit(c.config.maxTurnover, c)
           nearer == [a \in Assets |->
                        IF a \in c.mutable
                        THEN c.current[a] + Scaled(r.w[a] - c.current[a], limit, turnover)
                        ELSE r.w[a]]
           q == TurnoverLimit(r, c)
           d == Change(r.w, c)
           e == Change(q.w, c)
<1>1. q = IF turnover > limit THEN Clip(r, nearer, "turnover_limit") ELSE r
  BY DEF TurnoverLimit
<1>2. r.w \in Portfolio /\ c.current \in Portfolio /\ c.mutable \in SUBSET Assets
      /\ \A a \in Assets : r.w[a] \in Int /\ c.current[a] \in Int
  BY PartialIs DEF IsContext, Portfolio
<1>3. limit \in Nat
  BY ConfigIs
<1>4. d \in Portfolio /\ \A a \in Assets : d[a] = r.w[a] - c.current[a]
  BY <1>2 DEF Change, Portfolio
<1>5. turnover \in Nat /\ turnover = Gross(d, c.mutable)
  BY <1>2, <1>4, GrossIs DEF Turnover
<1>6. nearer = [a \in Assets |->
                  IF a \in c.mutable
                  THEN c.current[a] + Scaled(r.w[a] - c.current[a], limit, turnover)
                  ELSE r.w[a]]
  OBVIOUS
<1>7. /\ e = [a \in Assets |-> q.w[a] - c.current[a]]
      /\ Turnover(q.w, c) = Gross(e, c.mutable) /\ limit = Limit(c.config.maxTurnover, c)
  BY DEF Change, Turnover
<1> HIDE DEF q, turnover, limit, nearer, d, e
<1>8. CASE ~(turnover > limit)
  <2>1. q = r
    BY <1>1, <1>8
  <2>2. Follows(q, r, c, 1, 1)
    <3>1. \A x \in Int : Scaled(x, 1, 1) = x
      BY DEF Scaled
    <3>2. \A a \in Assets : q.w[a] = c.current[a] + Scaled(r.w[a] - c.current[a], 1, 1)
      <4> SUFFICES ASSUME NEW a \in Assets
                   PROVE  q.w[a] = c.current[a] + Scaled(r.w[a] - c.current[a], 1, 1)
        OBVIOUS
      <4>1. r.w[a] - c.current[a] \in Int
        BY <1>2
      <4>2. Scaled(r.w[a] - c.current[a], 1, 1) = r.w[a] - c.current[a]
        BY <3>1, <4>1
      <4> QED BY <1>2, <2>1, <4>2
    <3> QED BY <2>1, <3>2 DEF Follows
  <2>3. Turnover(q.w, c) <= limit
    BY <1>3, <1>5, <1>8, <2>1 DEF turnover
  <2> QED BY <1>7, <2>2, <2>3 DEF q
<1>9. CASE turnover > limit
  <2>1. turnover \in Nat \ {0} /\ limit <= turnover
    BY <1>3, <1>5, <1>9
  <2>2. ASSUME NEW a \in Assets
        PROVE  /\ nearer[a] = c.current[a] + Scaled(r.w[a] - c.current[a], limit, turnover)
               /\ nearer[a] \in Int /\ Scaled(r.w[a] - c.current[a], limit, turnover) \in Int
    <3>1. r.w[a] - c.current[a] \in Int
      BY <1>2
    <3>2. Scaled(r.w[a] - c.current[a], limit, turnover) \in Int
      BY <1>3, <2>1, <3>1, ScaledIs
    <3>3. CASE a \in c.mutable
      BY <1>2, <1>6, <3>2, <3>3
    <3>4. CASE a \notin c.mutable
      <4>1. r.w[a] = c.current[a] /\ nearer[a] = r.w[a]
        BY <1>6, <3>4 DEF FrozenHeld, Frozen
      <4>2. Scaled(0, limit, turnover) = 0
        <5>1. /\ Scaled(0, limit, turnover) \in Int /\ Scaled(0, limit, turnover) >= 0
              /\ Scaled(0, limit, turnover) <= 0
          BY <1>3, <2>1, ScaledIs
        <5> QED BY <5>1
      <4>3. r.w[a] - c.current[a] = 0
        BY <1>2, <4>1
      <4> QED BY <1>2, <4>1, <4>2, <4>3
    <3> QED BY <3>3, <3>4
  <2>3. nearer \in Portfolio
    BY <1>6, <2>2 DEF Portfolio
  <2>4. IsPartial(q) /\ q.w = nearer /\ q.unresolved = r.unresolved
    BY <1>1, <1>9, <2>3, ClipIs
  <2>5. Follows(q, r, c, limit, turnover)
    BY <2>1, <2>2, <2>4 DEF Follows
  <2>6. e \in Portfolio /\ \A a \in c.mutable : e[a] = Scaled(d[a], limit, turnover)
    <3>1. \A a \in Assets : e[a] = Scaled(d[a], limit, turnover) /\ e[a] \in Int
      BY <1>2, <1>4, <1>7, <2>2, <2>4
    <3> QED BY <1>2, <1>7, <3>1 DEF Portfolio
  <2>7. turnover * Gross(e, c.mutable) <= limit * Gross(d, c.mutable)
    BY <1>2, <1>3, <1>4, <2>1, <2>6, GrossScaled
  <2>8. Gross(e, c.mutable) \in Nat
    BY <1>2, <2>6, GrossIs
  <2>9. Gross(e, c.mutable) <= limit
    <3>1. limit * turnover = turnover * limit
      BY <1>3, <1>5
    <3> QED BY <1>3, <1>5, <2>1, <2>7, <2>8, <3>1, Cancel
  <2> QED BY <1>3, <1>7, <2>1, <2>5, <2>9 DEF q
<1> QED BY <1>8, <1>9

\* The rules that follow only narrow: a limit that was met stays met.
LEMMA NarrowsKeeps ==
  ASSUME NEW c, IsContext(c), NEW r, IsPartial(r), NEW q, Narrows(q, r, c)
  PROVE  /\ FrozenHeld(r, c) => FrozenHeld(q, c)
         /\ AssetsWithin(r, c) => AssetsWithin(q, c)
         /\ MarketsWithin(r, c, 0) => MarketsWithin(q, c, 0)
<1>1. /\ \A a \in Assets : Size(q.w[a]) <= Size(r.w[a])
      /\ \A a \in Assets : q.w[a] \in Int /\ r.w[a] \in Int
  BY NarrowsSizes, PartialIs DEF Narrows
<1>2. \A a \in Assets : Size(q.w[a]) \in Nat /\ Size(r.w[a]) \in Nat
  BY <1>1 DEF Size
<1>3. FrozenHeld(r, c) => FrozenHeld(q, c)
  BY DEF Narrows, FrozenHeld
<1>4. AssetsWithin(r, c) => AssetsWithin(q, c)
  <2> DEFINE cap == Limit(c.config.maxAssetWeight, c)
  <2>1. cap \in Nat
    BY ConfigIs
  <2>2. ASSUME NEW a \in Assets, \/ Size(r.w[a]) <= cap
                                 \/ <<"max_asset_weight", a>> \in r.unresolved
        PROVE  \/ Size(q.w[a]) <= cap
               \/ <<"max_asset_weight", a>> \in q.unresolved
    <3> HIDE DEF cap
    <3> QED BY <1>1, <1>2, <2>1, <2>2 DEF Narrows
  <2> QED BY <2>2 DEF AssetsWithin
<1>5. MarketsWithin(r, c, 0) => MarketsWithin(q, c, 0)
  <2>1. ASSUME NEW m \in Markets, \/ Gross(r.w, Listed(m)) <= MarketLimit(m, c) + 0
                                  \/ <<"max_market_weight", m>> \in r.unresolved
        PROVE  \/ Gross(q.w, Listed(m)) <= MarketLimit(m, c) + 0
               \/ <<"max_market_weight", m>> \in q.unresolved
    <3>1. Listed(m) \in SUBSET Assets /\ MarketLimit(m, c) \in Nat
      BY ConfigIs DEF Listed
    <3>2. r.w \in Portfolio /\ q.w \in Portfolio /\ \A a \in Listed(m) : Size(q.w[a]) <= Size(r.w[a])
      BY <1>1, <3>1, PartialIs DEF Narrows
    <3>3. /\ Gross(q.w, Listed(m)) <= Gross(r.w, Listed(m))
          /\ Gross(q.w, Listed(m)) \in Nat /\ Gross(r.w, Listed(m)) \in Nat
      BY <3>1, <3>2, GrossAtMost, GrossIs
    <3> QED BY <2>1, <3>1, <3>3 DEF Narrows
  <2> QED BY <2>1 DEF MarketsWithin
<1> QED BY <1>3, <1>4, <1>5

\* The limits of a portfolio that has not passed the turnover limit, as far as
\* positions that can be traded can meet them.
TradesWithin(r, c) ==
  /\ \A a \in c.mutable : Size(r.w[a]) <= Limit(c.config.maxAssetWeight, c)
  /\ ~c.config.allowShort => \A a \in c.mutable : r.w[a] >= 0

MarketsEmptied(r, c) ==
  \A m \in Markets : \/ Gross(r.w, Listed(m)) <= MarketLimit(m, c)
                     \/ \A a \in Listed(m) \cap c.mutable : r.w[a] = 0

CashRaised(r, c) ==
  \/ c.value - Total(r.w, Assets) >= Limit(c.config.cashFloor, c)
  \/ \A a \in c.mutable : r.w[a] <= 0

\* Narrowing keeps the first two.
LEMMA NarrowsTrades ==
  ASSUME NEW c, IsContext(c), NEW r, IsPartial(r), NEW q, Narrows(q, r, c)
  PROVE  /\ TradesWithin(r, c) => TradesWithin(q, c)
         /\ MarketsEmptied(r, c) => MarketsEmptied(q, c)
<1>1. \A a \in c.mutable : a \in Assets
  BY DEF IsContext
<1>2. \A a \in Assets : /\ q.w[a] \in Int /\ r.w[a] \in Int
                        /\ Nearer(q.w[a], r.w[a]) /\ Size(q.w[a]) <= Size(r.w[a])
  BY NarrowsSizes, PartialIs DEF Narrows
<1>3. ASSUME TradesWithin(r, c) PROVE TradesWithin(q, c)
  <2>1. PICK cap \in Nat : cap = Limit(c.config.maxAssetWeight, c)
    BY ConfigIs
  <2>2. \A a \in c.mutable : Size(q.w[a]) <= cap
    <3>1. \A a \in c.mutable : Size(r.w[a]) <= cap
      BY <1>3, <2>1 DEF TradesWithin
    <3>2. \A a \in c.mutable : Size(q.w[a]) \in Nat /\ Size(r.w[a]) \in Nat
      BY <1>1, <1>2 DEF Size
    <3> QED BY <1>1, <1>2, <2>1, <3>1, <3>2
  <2>3. \A a \in c.mutable : r.w[a] >= 0 => q.w[a] >= 0
    BY <1>1, <1>2 DEF Nearer
  <2> QED BY <1>3, <2>1, <2>2, <2>3 DEF TradesWithin
<1>4. ASSUME MarketsEmptied(r, c) PROVE MarketsEmptied(q, c)
  <2> SUFFICES ASSUME NEW m \in Markets
               PROVE  \/ Gross(q.w, Listed(m)) <= MarketLimit(m, c)
                      \/ \A a \in Listed(m) \cap c.mutable : q.w[a] = 0
    BY DEF MarketsEmptied
  <2>1. PICK S \in SUBSET Assets : S = Listed(m)
    BY DEF Listed
  <2>2. MarketLimit(m, c) \in Nat /\ r.w \in Portfolio /\ q.w \in Portfolio
    BY ConfigIs, PartialIs DEF Narrows
  <2>3. /\ Gross(q.w, S) <= Gross(r.w, S)
        /\ Gross(q.w, S) \in Nat /\ Gross(r.w, S) \in Nat
    BY <1>2, <2>1, <2>2, GrossAtMost, GrossIs
  <2>4. \A a \in S \cap c.mutable : r.w[a] = 0 => q.w[a] = 0
    BY <1>1, <1>2 DEF Nearer
  <2>5. \/ Gross(r.w, S) <= MarketLimit(m, c)
        \/ \A a \in S \cap c.mutable : r.w[a] = 0
    BY <1>4, <2>1 DEF MarketsEmptied
  <2> QED BY <2>1, <2>2, <2>3, <2>4, <2>5
<1> QED BY <1>3, <1>4

\* Where the current portfolio and the one before the turnover limit meet a
\* limit, so does the one after it.
LEMMA FollowsKeeps ==
  ASSUME NEW c, IsContext(c), NEW r, IsPartial(r), NEW q, NEW lim \in Nat, NEW T \in Nat \ {0},
         Follows(q, r, c, lim, T),
         AssetsWithin(r, c), MarketsWithin(r, c, 0), CashWithin(r, c, 0),
         NEW now, now.w = c.current, now.unresolved = q.unresolved
  PROVE  /\ AssetsWithin(now, c) => AssetsWithin(q, c)
         /\ MarketsWithin(now, c, 0) => MarketsWithin(q, c, Rounding)
         /\ CashWithin(now, c, 0) => CashWithin(q, c, Rounding)
<1>1. lim <= T /\ IsPartial(q) /\ q.unresolved = r.unresolved
  BY DEF Follows
<1>2. /\ r.w \in Portfolio /\ q.w \in Portfolio /\ c.current \in Portfolio
      /\ \A a \in Assets : r.w[a] \in Int /\ q.w[a] \in Int /\ c.current[a] \in Int
  BY <1>1, PartialIs DEF IsContext, Portfolio
<1>3. ASSUME NEW a \in Assets
      PROVE  /\ \/ c.current[a] <= q.w[a] /\ q.w[a] <= r.w[a]
                \/ r.w[a] <= q.w[a] /\ q.w[a] <= c.current[a]
             /\ T * q.w[a] <= ((T - lim) * c.current[a] + lim * r.w[a]) + T
             /\ T * Size(q.w[a]) <= ((T - lim) * Size(c.current[a]) + lim * Size(r.w[a])) + T
  <2> DEFINE x == c.current[a] + Scaled(r.w[a] - c.current[a], lim, T)
  <2>1. /\ (c.current[a] <= x /\ x <= r.w[a]) \/ (r.w[a] <= x /\ x <= c.current[a])
        /\ T * x <= ((T - lim) * c.current[a] + lim * r.w[a]) + T
        /\ T * Size(x) <= ((T - lim) * Size(c.current[a]) + lim * Size(r.w[a])) + T
    <3>1. r.w[a] \in Int /\ c.current[a] \in Int
      BY <1>2
    <3> QED BY <1>1, <3>1, BlendIs
  <2>2. q.w[a] = x
    BY DEF Follows
  <2> HIDE DEF x
  <2> QED BY <2>1, <2>2
<1>4. Rounding \in Nat /\ IsFiniteSet(Assets)
  BY FiniteAssets, FS_CardinalityType DEF Rounding
<1>5. AssetsWithin(now, c) => AssetsWithin(q, c)
  <2> DEFINE cap == Limit(c.config.maxAssetWeight, c)
  <2>1. cap \in Nat
    BY ConfigIs
  <2>2. ASSUME NEW a \in Assets,
               Size(now.w[a]) <= cap \/ <<"max_asset_weight", a>> \in now.unresolved,
               Size(r.w[a]) <= cap \/ <<"max_asset_weight", a>> \in r.unresolved
        PROVE  Size(q.w[a]) <= cap \/ <<"max_asset_weight", a>> \in q.unresolved
    <3> HIDE DEF cap
    <3>1. r.w[a] \in Int /\ q.w[a] \in Int /\ c.current[a] \in Int
      BY <1>2
    <3>2. Size(c.current[a]) <= cap /\ Size(r.w[a]) <= cap => Size(q.w[a]) <= cap
      BY <1>3, <2>1, <3>1 DEF Size
    <3> QED BY <1>1, <2>2, <3>2
  <2> QED BY <2>2 DEF AssetsWithin
<1>6. MarketsWithin(now, c, 0) => MarketsWithin(q, c, Rounding)
  <2>1. ASSUME NEW m \in Markets,
               Gross(c.current, Listed(m)) <= MarketLimit(m, c),
               Gross(r.w, Listed(m)) <= MarketLimit(m, c)
        PROVE  Gross(q.w, Listed(m)) <= MarketLimit(m, c) + Rounding
    <3> DEFINE S == Listed(m)
               u == [a \in S |-> Size(c.current[a])]
               v == [a \in S |-> Size(r.w[a])]
               x == [a \in S |-> Size(q.w[a])]
    <3>1. S \in SUBSET Assets /\ IsFiniteSet(S) /\ MarketLimit(m, c) \in Int
      BY ConfigIs, FiniteAssets DEF Listed
    <3>2. Blends(x, u, v, lim, T, S)
      <4> SUFFICES ASSUME NEW a \in S
                   PROVE  /\ u[a] \in Int /\ v[a] \in Int /\ x[a] \in Int
                          /\ T * x[a] <= ((T - lim) * u[a] + lim * v[a]) + T
        BY DEF Blends
      <4>1. \A y \in Int : Size(y) \in Int
        BY DEF Size
      <4>2. a \in Assets /\ u[a] = Size(c.current[a]) /\ v[a] = Size(r.w[a]) /\ x[a] = Size(q.w[a])
        BY <3>1
      <4> QED BY <1>2, <1>3, <4>1, <4>2
    <3>3. Gross(c.current, S) = Added(u, S) /\ Gross(r.w, S) = Added(v, S) /\ Gross(q.w, S) = Added(x, S)
      BY TotalIs DEF Gross
    <3> HIDE DEF u, v, x
    <3>4. Added(x, S) <= MarketLimit(m, c) + Cardinality(S)
      <4>1. Added(u, S) <= MarketLimit(m, c) /\ Added(v, S) <= MarketLimit(m, c)
        BY <2>1, <3>3
      <4> HIDE DEF S
      <4> QED BY <1>1, <3>1, <3>2, <4>1, BlendSum
    <3>5. Cardinality(S) <= Rounding /\ Cardinality(S) \in Nat
      BY <1>4, <3>1, FS_Subset, FS_CardinalityType DEF Rounding
    <3>6. Gross(q.w, S) \in Nat
      BY <1>2, <3>1, GrossIs
    <3> HIDE DEF S
    <3>7. Gross(q.w, S) <= MarketLimit(m, c) + Rounding
      BY <1>4, <3>1, <3>3, <3>4, <3>5, <3>6
    <3> QED BY <3>7 DEF S
  <2>2. ASSUME NEW m \in Markets
        PROVE  Gross(c.current, Listed(m)) \in Int /\ Gross(r.w, Listed(m)) \in Int
               /\ MarketLimit(m, c) \in Int
    <3>1. Listed(m) \in SUBSET Assets
      BY DEF Listed
    <3> QED BY <1>2, <3>1, ConfigIs, GrossIs
  <2>3. ASSUME NEW m \in Markets, MarketsWithin(now, c, 0)
        PROVE  \/ Gross(q.w, Listed(m)) <= MarketLimit(m, c) + Rounding
               \/ <<"max_market_weight", m>> \in q.unresolved
    <3>1. \/ Gross(c.current, Listed(m)) <= MarketLimit(m, c) + 0
          \/ <<"max_market_weight", m>> \in q.unresolved
      BY <2>3 DEF MarketsWithin
    <3>2. \/ Gross(r.w, Listed(m)) <= MarketLimit(m, c) + 0
          \/ <<"max_market_weight", m>> \in q.unresolved
      BY <1>1 DEF MarketsWithin
    <3> QED BY <2>1, <2>2, <3>1, <3>2
  <2> QED BY <2>3 DEF MarketsWithin
<1>7. CashWithin(now, c, 0) => CashWithin(q, c, Rounding)
  <2> DEFINE floor == Limit(c.config.cashFloor, c)
             bound == c.value - floor
  <2>1. floor \in Nat /\ c.value \in Nat /\ bound \in Int
    BY ConfigIs DEF IsContext
  <2>2. /\ Total(c.current, Assets) \in Int /\ Total(r.w, Assets) \in Int
        /\ Total(q.w, Assets) \in Int
    <3>1. IntsOn(c.current, Assets) /\ IntsOn(r.w, Assets) /\ IntsOn(q.w, Assets)
      BY <1>2 DEF IntsOn
    <3> QED BY <3>1, TotalType
  <2>3. Total(c.current, Assets) <= bound /\ Total(r.w, Assets) <= bound
          => Total(q.w, Assets) <= bound + Rounding
    <3> HIDE DEF bound
    <3>1. Blends(q.w, c.current, r.w, lim, T, Assets)
      BY <1>2, <1>3 DEF Blends
    <3>2. /\ Total(c.current, Assets) = Added(c.current, Assets)
          /\ Total(r.w, Assets) = Added(r.w, Assets) /\ Total(q.w, Assets) = Added(q.w, Assets)
      BY TotalIs
    <3>3. ASSUME Added(c.current, Assets) <= bound, Added(r.w, Assets) <= bound
          PROVE  Added(q.w, Assets) <= bound + Cardinality(Assets)
      BY <1>1, <1>4, <2>1, <3>1, <3>3, BlendSum
    <3> QED BY <3>2, <3>3 DEF Rounding
  <2>4. /\ c.value - Total(c.current, Assets) >= floor - 0 => Total(c.current, Assets) <= bound
        /\ c.value - Total(r.w, Assets) >= floor - 0 => Total(r.w, Assets) <= bound
        /\ Total(q.w, Assets) <= bound + Rounding
             => c.value - Total(q.w, Assets) >= floor - Rounding
    <3> HIDE DEF floor
    <3> QED BY <1>4, <2>1, <2>2
  <2>5. \/ c.value - Total(r.w, Assets) >= floor - 0 \/ <<"cash_floor", "all">> \in q.unresolved
    BY <1>1 DEF CashWithin
  <2>6. CashWithin(now, c, 0) => \/ c.value - Total(c.current, Assets) >= floor - 0
                                 \/ <<"cash_floor", "all">> \in q.unresolved
    BY DEF CashWithin
  <2>7. CashWithin(q, c, Rounding) <=> \/ c.value - Total(q.w, Assets) >= floor - Rounding
                                       \/ <<"cash_floor", "all">> \in q.unresolved
    BY DEF CashWithin
  <2> HIDE DEF floor, bound
  <2> QED BY <2>3, <2>4, <2>5, <2>6, <2>7
<1> QED BY <1>5, <1>6, <1>7

\* What the rules before the turnover limit promise of their result r.
Bounded(r, c) ==
  /\ IsPartial(r) /\ FrozenHeld(r, c)
  /\ AssetsWithin(r, c) /\ MarketsWithin(r, c, 0) /\ CashWithin(r, c, 0)
  /\ TradesWithin(r, c) /\ MarketsEmptied(r, c) /\ CashRaised(r, c)

\* The projection is what the turnover limit leaves of such a result.
LEMMA ProjectGoes ==
  ASSUME NEW c, IsContext(c), NEW action \in [cash : Int, assets : [Assets -> Int]]
  PROVE  /\ \E r : Bounded(r, c) /\ \E lim \in Nat, T \in Nat \ {0} :
                                   Follows(Project(action, c), r, c, lim, T)
         /\ Turnover(Project(action, c).w, c) <= Limit(c.config.maxTurnover, c)
<1> DEFINE r0 == Start(Normalize(action, c))
           r1 == TradableMask(r0, c)
           r2 == LongOnly(r1, c)
           r3 == MaxAssetWeight(r2, c)
           r4 == MaxMarketWeight(r3, c)
           r5 == Leverage(r4, c)
           r6 == CashFloor(r5, c)
           q == TurnoverLimit(r6, c)
<1>1. IsPartial(r0)
  BY NormalizeIs
<1>2. q = Project(action, c)
  BY DEF Project
<1> HIDE DEF r0
<1>3. IsPartial(r1) /\ FrozenHeld(r1, c)
  BY <1>1, FirstRulesAre, FirstRulesHold
<1> HIDE DEF r1
<1>4. IsPartial(r2) /\ FrozenHeld(r2, c)
      /\ (~c.config.allowShort => \A a \in c.mutable : r2.w[a] >= 0)
  BY <1>3, FirstRulesAre, FirstRulesHold
<1> HIDE DEF r2
<1>5. IsPartial(r3) /\ FrozenHeld(r3, c) /\ AssetsWithin(r3, c) /\ TradesWithin(r3, c)
  BY <1>4, MaxAssetWeightIs, MaxAssetWeightKeeps DEF TradesWithin
<1> HIDE DEF r3
<1>6. Narrows(r4, r3, c) /\ MarketsWithin(r4, c, 0) /\ MarketsEmptied(r4, c)
  <2>1. /\ Narrows(r4, r3, c)
        /\ \A m \in Markets : \/ Gross(r4.w, Listed(m)) <= MarketLimit(m, c)
                              \/ <<"max_market_weight", m>> \in r4.unresolved
        /\ \A m \in Markets : \/ Gross(r4.w, Listed(m)) <= MarketLimit(m, c)
                              \/ \A a \in Listed(m) \cap c.mutable : r4.w[a] = 0
    BY <1>5, MaxMarketWeightKeeps
  <2>2. \A m \in Markets : MarketLimit(m, c) + 0 = MarketLimit(m, c)
    BY ConfigIs
  <2> HIDE DEF r4
  <2> QED BY <2>1, <2>2 DEF MarketsWithin, MarketsEmptied
<1> HIDE DEF r4
<1>7. IsPartial(r4) /\ FrozenHeld(r4, c) /\ AssetsWithin(r4, c) /\ TradesWithin(r4, c)
  <2>1. IsPartial(r4)
    BY <1>6 DEF Narrows
  <2> QED BY <1>5, <1>6, <2>1, NarrowsKeeps, NarrowsTrades
<1>8. Narrows(r5, r4, c)
  BY <1>7, LeverageKeeps
<1> HIDE DEF r5
<1>9. /\ IsPartial(r5) /\ FrozenHeld(r5, c) /\ AssetsWithin(r5, c) /\ MarketsWithin(r5, c, 0)
      /\ TradesWithin(r5, c) /\ MarketsEmptied(r5, c)
  <2>1. IsPartial(r5)
    BY <1>8 DEF Narrows
  <2> QED BY <1>6, <1>7, <1>8, <2>1, NarrowsKeeps, NarrowsTrades
<1>10. Narrows(r6, r5, c) /\ CashWithin(r6, c, 0) /\ CashRaised(r6, c)
  <2>1. /\ Narrows(r6, r5, c)
        /\ \/ c.value - Total(r6.w, Assets) >= Limit(c.config.cashFloor, c)
           \/ <<"cash_floor", "all">> \in r6.unresolved
        /\ \/ c.value - Total(r6.w, Assets) >= Limit(c.config.cashFloor, c)
           \/ \A a \in c.mutable : r6.w[a] <= 0
    BY <1>9, CashFloorKeeps
  <2>2. Limit(c.config.cashFloor, c) - 0 = Limit(c.config.cashFloor, c)
    BY ConfigIs
  <2> HIDE DEF r6
  <2> QED BY <2>1, <2>2 DEF CashWithin, CashRaised
<1> HIDE DEF r6
<1>11. /\ IsPartial(r6) /\ FrozenHeld(r6, c) /\ AssetsWithin(r6, c) /\ MarketsWithin(r6, c, 0)
       /\ TradesWithin(r6, c) /\ MarketsEmptied(r6, c)
  <2>1. IsPartial(r6)
    BY <1>10 DEF Narrows
  <2> QED BY <1>9, <1>10, <2>1, NarrowsKeeps, NarrowsTrades
<1>12. /\ \E lim \in Nat, T \in Nat \ {0} : Follows(q, r6, c, lim, T)
       /\ Turnover(q.w, c) <= Limit(c.config.maxTurnover, c)
  BY <1>11, TurnoverLimitKeeps
<1> QED BY <1>2, <1>10, <1>11, <1>12 DEF Bounded

\* What a projection q promises in the context c.
Projected(q, c) ==
  /\ IsPartial(q)
  /\ Turnover(q.w, c) <= Limit(c.config.maxTurnover, c)
  /\ FrozenHeld(q, c)
  /\ LET now == [q EXCEPT !.w = c.current]
     IN  /\ AssetsWithin(now, c) => AssetsWithin(q, c)
         /\ MarketsWithin(now, c, 0) => MarketsWithin(q, c, Rounding)
         /\ CashWithin(now, c, 0) => CashWithin(q, c, Rounding)

\* What follows a portfolio that holds the frozen positions holds them.
LEMMA FollowsHolds ==
  ASSUME NEW c, IsContext(c), NEW r, FrozenHeld(r, c), NEW q, NEW lim \in Nat,
         NEW T \in Nat \ {0}, Follows(q, r, c, lim, T)
  PROVE  FrozenHeld(q, c)
<1> SUFFICES ASSUME NEW a \in Frozen(c) PROVE q.w[a] = c.current[a]
  BY DEF FrozenHeld
<1>1. a \in Assets /\ r.w[a] = c.current[a] /\ c.current[a] \in Int
  BY DEF Frozen, FrozenHeld, IsContext, Portfolio
<1>2. q.w[a] = c.current[a] + Scaled(r.w[a] - c.current[a], lim, T)
  BY <1>1 DEF Follows
<1>3. r.w[a] - c.current[a] = 0
  BY <1>1
<1>4. /\ Scaled(0, lim, T) \in Int /\ Scaled(0, lim, T) >= 0 /\ Scaled(0, lim, T) <= 0
  BY ScaledIs
<1>5. Scaled(0, lim, T) = 0
  BY <1>4
<1> QED BY <1>1, <1>2, <1>3, <1>5

\* The seven rules of the projection, one after the other, keep this promise,
\* whatever the policy asked for: turnover inside its limit, frozen positions as
\* they were, and each limit that the current portfolio meets kept or reported.
THEOREM ProjectKeeps ==
  ASSUME NEW c, IsContext(c), NEW action \in [cash : Int, assets : [Assets -> Int]]
  PROVE  Projected(Project(action, c), c)
<1> DEFINE q == Project(action, c)
<1>1. /\ \E r : Bounded(r, c) /\ \E lim \in Nat, T \in Nat \ {0} : Follows(q, r, c, lim, T)
      /\ Turnover(q.w, c) <= Limit(c.config.maxTurnover, c)
  BY ProjectGoes
<1> HIDE DEF q
<1>2. PICK r : Bounded(r, c) /\ \E lim \in Nat, T \in Nat \ {0} : Follows(q, r, c, lim, T)
  BY <1>1
<1>3. PICK lim \in Nat, T \in Nat \ {0} : Follows(q, r, c, lim, T)
  BY <1>2
<1>4. IsPartial(q)
  BY <1>3 DEF Follows
<1>5. FrozenHeld(q, c)
  BY <1>2, <1>3, FollowsHolds DEF Bounded
<1> DEFINE now == [q EXCEPT !.w = c.current]
<1>6. now.w = c.current /\ now.unresolved = q.unresolved
  BY <1>4 DEF IsPartial
<1>7. /\ AssetsWithin(now, c) => AssetsWithin(q, c)
      /\ MarketsWithin(now, c, 0) => MarketsWithin(q, c, Rounding)
      /\ CashWithin(now, c, 0) => CashWithin(q, c, Rounding)
  <2> HIDE DEF now
  <2> QED BY <1>2, <1>3, <1>6, FollowsKeeps DEF Bounded
<1> QED BY <1>1, <1>4, <1>5, <1>7 DEF Projected, q
=============================================================================
