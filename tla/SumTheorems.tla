---------------------------- MODULE SumTheorems ----------------------------
(***************************************************************************)
(* Sums over finite sets, as SumFunctionOnSet of the module Functions      *)
(* defines them, for any summands: what the proofs about money rest on.    *)
(* Induction is stated with a set of the sets it holds for.                *)
(***************************************************************************)
EXTENDS Integers, FiniteSets, Functions, FiniteSetTheorems, WellFoundedInduction, TLAPS

LEMMA ProperSubset ==
    ASSUME NEW S, IsFiniteSet(S), NEW T \in SUBSET S, T # S
    PROVE  Cardinality(T) < Cardinality(S) /\ Cardinality(T) \in Nat /\ Cardinality(S) \in Nat
  BY FS_Subset, FS_CardinalityType

LEMMA SmallestOf ==
    ASSUME NEW T, T \subseteq Nat, T # {}
    PROVE  \E n \in T : \A m \in T : n <= m
  <1>1. PICK n \in T : \A m \in T : <<m, n>> \notin OpToRel(<, Nat)
    BY NatLessThanWellFounded, WFMin
  <1>2. \A m \in T : ~(m < n)
    BY <1>1 DEF OpToRel
  <1> QED
    BY <1>2

\* What holds for a set whenever it holds for its proper subsets holds for it.
LEMMA InductionOnSets ==
    ASSUME NEW D, IsFiniteSet(D), NEW P,
           \A s \in SUBSET D : (\A t \in SUBSET s : t # s => t \in P) => s \in P
    PROVE  D \in P
  <1> SUFFICES ASSUME D \notin P PROVE FALSE
    OBVIOUS
  <1> DEFINE T == {Cardinality(s) : s \in (SUBSET D) \ P}
  <1>1. T \subseteq Nat /\ T # {}
    <2>1. \A s \in SUBSET D : Cardinality(s) \in Nat
      BY FS_Subset, FS_CardinalityType
    <2>2. D \in (SUBSET D) \ P /\ Cardinality(D) \in T
      OBVIOUS
    <2> QED
      BY <2>1, <2>2
  <1>2. PICK s \in (SUBSET D) \ P : \A t \in (SUBSET D) \ P : Cardinality(s) <= Cardinality(t)
    <2> HIDE DEF T
    <2>1. PICK n \in T : \A m \in T : n <= m
      BY <1>1, SmallestOf
    <2> QED
      BY <2>1 DEF T
  <1>3. ASSUME NEW t \in SUBSET s, t # s PROVE t \in P
    <2>1. IsFiniteSet(s) /\ t \in SUBSET D
      BY <1>2, FS_Subset
    <2>2. Cardinality(t) < Cardinality(s) /\ Cardinality(t) \in Nat /\ Cardinality(s) \in Nat
      BY <1>3, <2>1, FS_Subset, FS_CardinalityType
    <2> QED
      BY <1>2, <2>1, <2>2
  <1>4. \A t \in SUBSET s : t # s => t \in P
    BY <1>3
  <1> QED
    BY <1>2, <1>4

-----------------------------------------------------------------------------
(* The recursion of the sum.                                                *)

Pick(s) == CHOOSE x \in s : TRUE

Adds(f, D, g) == g = [s \in SUBSET D |-> IF s = {} THEN 0 ELSE f[Pick(s)] + g[s \ {Pick(s)}]]
Adding(f, D) == CHOOSE g : Adds(f, D, g)

LEMMA SumIsAdding == \A f, D : SumFunctionOnSet(f, D) = Adding(f, D)[D]
  BY DEF SumFunctionOnSet, FoldFunctionOnSet, MapThenFoldSet, Adding, Adds, Pick

LEMMA Picked ==
    ASSUME NEW s, s # {}
    PROVE  Pick(s) \in s /\ s \ {Pick(s)} \in SUBSET s /\ s \ {Pick(s)} # s
  BY DEF Pick

\* The sums of the subsets of at most n elements.
UpTo(D, n) == {s \in SUBSET D : Cardinality(s) <= n}
AddsUpTo(f, D, n, g) ==
    g = [s \in UpTo(D, n) |-> IF s = {} THEN 0 ELSE f[Pick(s)] + g[s \ {Pick(s)}]]

LEMMA SumsUpTo ==
    ASSUME NEW f, NEW D, IsFiniteSet(D), NEW n \in Nat
    PROVE  \E g : AddsUpTo(f, D, n, g)
  <1> DEFINE T == {m \in Nat : ~\E g : AddsUpTo(f, D, m, g)}
  <1>0. \A s \in SUBSET D : IsFiniteSet(s) /\ Cardinality(s) \in Nat
    BY FS_Subset, FS_CardinalityType
  <1>1. SUFFICES T = {}
    OBVIOUS
  <1>2. SUFFICES ASSUME T # {} PROVE FALSE
    OBVIOUS
  <1>3. PICK m \in T : \A k \in T : m <= k
    <2> HIDE DEF T
    <2>1. T \subseteq Nat
      BY DEF T
    <2> QED
      BY <1>2, <2>1, SmallestOf
  <1>4. m # 0
    <2>1. \A s \in UpTo(D, 0) : s = {}
      BY <1>0, FS_EmptySet DEF UpTo
    <2>2. AddsUpTo(f, D, 0, [s \in UpTo(D, 0) |-> 0])
      BY <2>1 DEF AddsUpTo
    <2> QED
      BY <1>3, <2>2
  <1>5. m \in Nat /\ m - 1 \in Nat /\ m - 1 \notin T
    BY <1>3, <1>4
  <1>6. PICK g : AddsUpTo(f, D, m - 1, g)
    BY <1>5
  <1> DEFINE h == [s \in UpTo(D, m) |-> IF s \in UpTo(D, m - 1) THEN g[s]
                                        ELSE f[Pick(s)] + g[s \ {Pick(s)}]]
  <1>7. ASSUME NEW s \in UpTo(D, m)
        PROVE  h[s] = IF s = {} THEN 0 ELSE f[Pick(s)] + h[s \ {Pick(s)}]
    <2>1. CASE s = {}
      <3>1. s \in UpTo(D, m - 1)
        BY <1>5, <2>1, FS_EmptySet DEF UpTo
      <3> QED
        BY <1>6, <2>1, <3>1 DEF AddsUpTo
    <2>2. CASE s # {}
      <3>1. /\ Pick(s) \in s /\ s \in SUBSET D /\ Cardinality(s) <= m
            /\ Cardinality(s) \in Nat /\ Cardinality(s \ {Pick(s)}) = Cardinality(s) - 1
        BY <1>0, <2>2, Picked, FS_RemoveElement DEF UpTo
      <3>2. s \ {Pick(s)} \in UpTo(D, m - 1) /\ s \ {Pick(s)} \in UpTo(D, m)
        BY <1>5, <3>1 DEF UpTo
      <3>3. h[s \ {Pick(s)}] = g[s \ {Pick(s)}]
        BY <3>2
      <3>4. s \in UpTo(D, m - 1) => g[s] = f[Pick(s)] + g[s \ {Pick(s)}]
        BY <1>6, <2>2 DEF AddsUpTo
      <3> QED
        BY <2>2, <3>3, <3>4
    <2> QED
      BY <2>1, <2>2
  <1>8. AddsUpTo(f, D, m, h)
    BY <1>7 DEF AddsUpTo
  <1> QED
    BY <1>3, <1>8

LEMMA SumsExist ==
    ASSUME NEW f, NEW D, IsFiniteSet(D)
    PROVE  Adds(f, D, Adding(f, D))
  <1>1. Cardinality(D) \in Nat /\ \A s \in SUBSET D : Cardinality(s) <= Cardinality(D)
    BY FS_Subset, FS_CardinalityType
  <1>2. PICK g : AddsUpTo(f, D, Cardinality(D), g)
    BY <1>1, SumsUpTo
  <1>3. UpTo(D, Cardinality(D)) = SUBSET D
    BY <1>1 DEF UpTo
  <1>4. Adds(f, D, g)
    BY <1>2, <1>3 DEF Adds, AddsUpTo
  <1> QED
    BY <1>4 DEF Adding

LEMMA AddingIs ==
    ASSUME NEW f, NEW D, IsFiniteSet(D), NEW s \in SUBSET D
    PROVE  Adding(f, D)[s] = IF s = {} THEN 0 ELSE f[Pick(s)] + Adding(f, D)[s \ {Pick(s)}]
  <1>1. \A g : Adds(f, D, g) => g[s] = IF s = {} THEN 0 ELSE f[Pick(s)] + g[s \ {Pick(s)}]
    BY DEF Adds
  <1> QED
    BY <1>1, SumsExist

LEMMA AddingAgrees ==
    ASSUME NEW f, NEW D, IsFiniteSet(D), NEW t \in SUBSET D
    PROVE  Adding(f, D)[t] = SumFunctionOnSet(f, t)
  <1> DEFINE P == {s \in SUBSET t : Adding(f, D)[s] = Adding(f, t)[s]}
  <1>1. IsFiniteSet(t)
    BY FS_Subset
  <1>2. ASSUME NEW s \in SUBSET t, \A u \in SUBSET s : u # s => u \in P
        PROVE  s \in P
    <2>1. CASE s = {}
      BY <1>1, <2>1, AddingIs
    <2>2. CASE s # {}
      <3>1. s \ {Pick(s)} \in P
        BY <1>2, <2>2, Picked
      <3>2. Adding(f, D)[s] = f[Pick(s)] + Adding(f, D)[s \ {Pick(s)}]
        BY <2>2, AddingIs
      <3>3. Adding(f, t)[s] = f[Pick(s)] + Adding(f, t)[s \ {Pick(s)}]
        BY <1>1, <2>2, AddingIs
      <3> QED
        BY <3>1, <3>2, <3>3
    <2> QED
      BY <2>1, <2>2
  <1>3. t \in P
    <2> HIDE DEF P
    <2> QED
      BY <1>1, <1>2, InductionOnSets
  <1> QED
    BY <1>3, SumIsAdding

LEMMA SumOfNone == \A f : SumFunctionOnSet(f, {}) = 0
  BY SumIsAdding, AddingIs, FS_EmptySet

LEMMA SumOfPicked ==
    ASSUME NEW f, NEW S, IsFiniteSet(S), S # {}
    PROVE  SumFunctionOnSet(f, S) = f[Pick(S)] + SumFunctionOnSet(f, S \ {Pick(S)})
  <1>1. S \ {Pick(S)} \in SUBSET S /\ S \in SUBSET S
    BY Picked
  <1>2. SumFunctionOnSet(f, S) = f[Pick(S)] + Adding(f, S)[S \ {Pick(S)}]
    BY <1>1, AddingIs, SumIsAdding
  <1> QED
    BY <1>1, <1>2, AddingAgrees

-----------------------------------------------------------------------------
(* The laws of sums.                                                        *)

Ints(f, S) == \A x \in S : f[x] \in Int

LEMMA SumType ==
    ASSUME NEW f, NEW S, IsFiniteSet(S), Ints(f, S)
    PROVE  SumFunctionOnSet(f, S) \in Int
  <1> DEFINE P == {s \in SUBSET S : SumFunctionOnSet(f, s) \in Int}
  <1>1. ASSUME NEW s \in SUBSET S, \A t \in SUBSET s : t # s => t \in P
        PROVE  s \in P
    <2>1. CASE s = {}
      BY <2>1, SumOfNone
    <2>2. CASE s # {}
      <3>1. Pick(s) \in S /\ s \ {Pick(s)} \in P
        BY <1>1, <2>2, Picked
      <3>2. SumFunctionOnSet(f, s) = f[Pick(s)] + SumFunctionOnSet(f, s \ {Pick(s)})
        BY <2>2, FS_Subset, SumOfPicked
      <3> QED
        BY <3>1, <3>2 DEF Ints
    <2> QED
      BY <2>1, <2>2
  <1>2. S \in P
    <2> HIDE DEF P
    <2> QED
      BY <1>1, InductionOnSets
  <1> QED
    BY <1>2

\* The order in which elements are picked does not matter.
LEMMA SumSplit ==
    ASSUME NEW f, NEW S, IsFiniteSet(S), Ints(f, S), NEW a \in S
    PROVE  SumFunctionOnSet(f, S) = f[a] + SumFunctionOnSet(f, S \ {a})
  <1> DEFINE P == {s \in SUBSET S :
                     \A x \in s : SumFunctionOnSet(f, s) = f[x] + SumFunctionOnSet(f, s \ {x})}
  <1>1. ASSUME NEW s \in SUBSET S, \A t \in SUBSET s : t # s => t \in P
        PROVE  s \in P
    <2> SUFFICES ASSUME NEW x \in s
                 PROVE  SumFunctionOnSet(f, s) = f[x] + SumFunctionOnSet(f, s \ {x})
      OBVIOUS
    <2> DEFINE p == Pick(s)
               u == s \ {p, x}
    <2>1. p \in s /\ IsFiniteSet(s)
      BY FS_Subset, Picked
    <2>2. SumFunctionOnSet(f, s) = f[p] + SumFunctionOnSet(f, s \ {p})
      BY <2>1, SumOfPicked
    <2>3. CASE x # p
      <3>1. /\ s \ {p} \in SUBSET s /\ s \ {p} # s /\ x \in s \ {p} /\ (s \ {p}) \ {x} = u
            /\ s \ {x} \in SUBSET s /\ s \ {x} # s /\ p \in s \ {x} /\ (s \ {x}) \ {p} = u
        BY <2>1, <2>3
      <3>2. SumFunctionOnSet(f, s \ {p}) = f[x] + SumFunctionOnSet(f, u)
        <4>1. SumFunctionOnSet(f, s \ {p}) = f[x] + SumFunctionOnSet(f, (s \ {p}) \ {x})
          BY <1>1, <3>1
        <4> QED
          BY <3>1, <4>1
      <3>5. SumFunctionOnSet(f, s \ {x}) = f[p] + SumFunctionOnSet(f, u)
        <4>1. SumFunctionOnSet(f, s \ {x}) = f[p] + SumFunctionOnSet(f, (s \ {x}) \ {p})
          BY <1>1, <3>1
        <4> QED
          BY <3>1, <4>1
      <3>3. SumFunctionOnSet(f, u) \in Int
        BY <2>1, SumType, FS_Subset DEF Ints
      <3>4. f[p] \in Int /\ f[x] \in Int
        BY <2>1 DEF Ints
      <3> HIDE DEF p, u
      <3> QED
        BY <2>2, <3>2, <3>3, <3>4, <3>5
    <2> QED
      BY <2>2, <2>3
  <1>2. S \in P
    <2> HIDE DEF P
    <2> QED
      BY <1>1, InductionOnSets
  <1> QED
    BY <1>2

LEMMA SumExtends ==
    ASSUME NEW f, NEW g, NEW S, IsFiniteSet(S), \A x \in S : f[x] = g[x]
    PROVE  SumFunctionOnSet(f, S) = SumFunctionOnSet(g, S)
  <1> DEFINE P == {s \in SUBSET S : SumFunctionOnSet(f, s) = SumFunctionOnSet(g, s)}
  <1>1. ASSUME NEW s \in SUBSET S, \A t \in SUBSET s : t # s => t \in P
        PROVE  s \in P
    <2>1. CASE s = {}
      BY <2>1, SumOfNone
    <2>2. CASE s # {}
      <3>1. Pick(s) \in S /\ s \ {Pick(s)} \in P
        BY <1>1, <2>2, Picked
      <3>2. SumFunctionOnSet(f, s) = f[Pick(s)] + SumFunctionOnSet(f, s \ {Pick(s)})
        BY <2>2, FS_Subset, SumOfPicked
      <3>3. SumFunctionOnSet(g, s) = g[Pick(s)] + SumFunctionOnSet(g, s \ {Pick(s)})
        BY <2>2, FS_Subset, SumOfPicked
      <3> QED
        BY <3>1, <3>2, <3>3
    <2> QED
      BY <2>1, <2>2
  <1>2. S \in P
    <2> HIDE DEF P
    <2> QED
      BY <1>1, InductionOnSets
  <1> QED
    BY <1>2

LEMMA SumAdds ==
    ASSUME NEW f, NEW g, NEW h, NEW S, IsFiniteSet(S), Ints(g, S), Ints(h, S),
           \A x \in S : f[x] = g[x] + h[x]
    PROVE  SumFunctionOnSet(f, S) = SumFunctionOnSet(g, S) + SumFunctionOnSet(h, S)
  <1> DEFINE P == {s \in SUBSET S : SumFunctionOnSet(f, s)
                                      = SumFunctionOnSet(g, s) + SumFunctionOnSet(h, s)}
  <1>1. ASSUME NEW s \in SUBSET S, \A t \in SUBSET s : t # s => t \in P
        PROVE  s \in P
    <2>1. CASE s = {}
      BY <2>1, SumOfNone
    <2>2. CASE s # {}
      <3> DEFINE p == Pick(s)
                 r == s \ {p}
      <3>1. p \in S /\ r \in P /\ IsFiniteSet(s) /\ IsFiniteSet(r) /\ r \in SUBSET S
        BY <1>1, <2>2, Picked, FS_Subset
      <3>2. SumFunctionOnSet(f, s) = f[p] + SumFunctionOnSet(f, r)
        BY <2>2, <3>1, SumOfPicked
      <3>3. SumFunctionOnSet(g, s) = g[p] + SumFunctionOnSet(g, r)
        BY <2>2, <3>1, SumOfPicked
      <3>4. SumFunctionOnSet(h, s) = h[p] + SumFunctionOnSet(h, r)
        BY <2>2, <3>1, SumOfPicked
      <3>5. /\ SumFunctionOnSet(g, r) \in Int /\ SumFunctionOnSet(h, r) \in Int
            /\ g[p] \in Int /\ h[p] \in Int /\ f[p] = g[p] + h[p]
            /\ SumFunctionOnSet(f, r) = SumFunctionOnSet(g, r) + SumFunctionOnSet(h, r)
        BY <3>1, SumType DEF Ints
      <3> HIDE DEF p, r
      <3> QED
        BY <3>2, <3>3, <3>4, <3>5
    <2> QED
      BY <2>1, <2>2
  <1>2. S \in P
    <2> HIDE DEF P
    <2> QED
      BY <1>1, InductionOnSets
  <1> QED
    BY <1>2

\* A sum of zeros, as those of the elements that are not counted.
LEMMA SumOfZeros ==
    ASSUME NEW f, NEW S, IsFiniteSet(S), NEW R \in SUBSET S, Ints(f, R),
           \A x \in S \ R : f[x] = 0
    PROVE  SumFunctionOnSet(f, S) = SumFunctionOnSet(f, R)
  <1> DEFINE P == {s \in SUBSET S : SumFunctionOnSet(f, s) = SumFunctionOnSet(f, s \cap R)}
  <1>0. Ints(f, S)
    BY DEF Ints
  <1>1. ASSUME NEW s \in SUBSET S, \A t \in SUBSET s : t # s => t \in P
        PROVE  s \in P
    <2>1. CASE s \subseteq R
      <3>1. s \cap R = s
        BY <2>1
      <3> QED
        BY <3>1
    <2>2. CASE ~(s \subseteq R)
      <3>1. PICK x \in s : x \notin R
        BY <2>2
      <3>2. SumFunctionOnSet(f, s \ {x}) = SumFunctionOnSet(f, s \cap R) /\ f[x] = 0
        <4>1. s \ {x} \in P /\ (s \ {x}) \cap R = s \cap R /\ f[x] = 0
          BY <1>1, <3>1
        <4>2. SumFunctionOnSet(f, s \ {x}) = SumFunctionOnSet(f, (s \ {x}) \cap R)
          BY <4>1
        <4> QED
          BY <4>1, <4>2
      <3>3. SumFunctionOnSet(f, s) = f[x] + SumFunctionOnSet(f, s \ {x})
        BY <1>0, <3>1, SumSplit, FS_Subset DEF Ints
      <3>4. SumFunctionOnSet(f, s \ {x}) \in Int
        BY <1>0, SumType, FS_Subset DEF Ints
      <3> QED
        BY <3>2, <3>3, <3>4
    <2> QED
      BY <2>1, <2>2
  <1>2. S \in P
    <2> HIDE DEF P
    <2> QED
      BY <1>1, InductionOnSets
  <1>3. S \cap R = R
    OBVIOUS
  <1> QED
    BY <1>2, <1>3

\* A sum of which one summand changes.
LEMMA SumChanges ==
    ASSUME NEW f, NEW g, NEW S, IsFiniteSet(S), Ints(f, S), NEW a \in S, g[a] \in Int,
           \A x \in S \ {a} : g[x] = f[x]
    PROVE  SumFunctionOnSet(g, S) = SumFunctionOnSet(f, S) - f[a] + g[a]
  <1> DEFINE r == S \ {a}
  <1>1. IsFiniteSet(r) /\ Ints(g, S) /\ Ints(f, r) /\ f[a] \in Int
    BY FS_Subset DEF Ints
  <1>2. SumFunctionOnSet(g, S) = g[a] + SumFunctionOnSet(g, r)
    BY <1>1, SumSplit
  <1>3. SumFunctionOnSet(f, S) = f[a] + SumFunctionOnSet(f, r)
    BY <1>1, SumSplit
  <1>4. SumFunctionOnSet(g, r) = SumFunctionOnSet(f, r)
    BY <1>1, SumExtends
  <1>5. SumFunctionOnSet(f, r) \in Int
    BY <1>1, SumType
  <1> HIDE DEF r
  <1> QED
    BY <1>1, <1>2, <1>3, <1>4, <1>5

LEMMA SumTimes ==
    ASSUME NEW f, NEW g, NEW S, IsFiniteSet(S), Ints(g, S), NEW c \in Int,
           \A x \in S : f[x] = c * g[x]
    PROVE  SumFunctionOnSet(f, S) = c * SumFunctionOnSet(g, S)
  <1> DEFINE P == {s \in SUBSET S : SumFunctionOnSet(f, s) = c * SumFunctionOnSet(g, s)}
  <1>1. ASSUME NEW s \in SUBSET S, \A t \in SUBSET s : t # s => t \in P
        PROVE  s \in P
    <2>1. CASE s = {}
      BY <2>1, SumOfNone
    <2>2. CASE s # {}
      <3> DEFINE p == Pick(s)
                 r == s \ {p}
      <3>1. p \in S /\ r \in P /\ IsFiniteSet(s) /\ IsFiniteSet(r) /\ r \in SUBSET S
        BY <1>1, <2>2, Picked, FS_Subset
      <3>2. SumFunctionOnSet(f, s) = f[p] + SumFunctionOnSet(f, r)
        BY <2>2, <3>1, SumOfPicked
      <3>3. SumFunctionOnSet(g, s) = g[p] + SumFunctionOnSet(g, r)
        BY <2>2, <3>1, SumOfPicked
      <3>4. /\ SumFunctionOnSet(g, r) \in Int /\ g[p] \in Int /\ f[p] = c * g[p]
            /\ SumFunctionOnSet(f, r) = c * SumFunctionOnSet(g, r)
        BY <3>1, SumType DEF Ints
      <3>5. \A x, y \in Int : c * x + c * y = c * (x + y)
        OBVIOUS
      <3> HIDE DEF p, r
      <3>6. SumFunctionOnSet(f, s) = c * SumFunctionOnSet(g, s)
        BY <3>2, <3>3, <3>4, <3>5
      <3> QED
        BY <3>6
    <2> QED
      BY <2>1, <2>2
  <1>2. S \in P
    <2> HIDE DEF P
    <2> QED
      BY <1>1, InductionOnSets
  <1> QED
    BY <1>2

LEMMA SumMonotone ==
    ASSUME NEW f, NEW g, NEW S, IsFiniteSet(S), Ints(f, S), Ints(g, S),
           \A x \in S : f[x] <= g[x]
    PROVE  SumFunctionOnSet(f, S) <= SumFunctionOnSet(g, S)
  <1> DEFINE P == {s \in SUBSET S : SumFunctionOnSet(f, s) <= SumFunctionOnSet(g, s)}
  <1>1. ASSUME NEW s \in SUBSET S, \A t \in SUBSET s : t # s => t \in P
        PROVE  s \in P
    <2>1. CASE s = {}
      BY <2>1, SumOfNone
    <2>2. CASE s # {}
      <3> DEFINE p == Pick(s)
                 r == s \ {p}
      <3>1. p \in S /\ r \in P /\ IsFiniteSet(s) /\ IsFiniteSet(r) /\ r \in SUBSET S
        BY <1>1, <2>2, Picked, FS_Subset
      <3>2. SumFunctionOnSet(f, s) = f[p] + SumFunctionOnSet(f, r)
        BY <2>2, <3>1, SumOfPicked
      <3>3. SumFunctionOnSet(g, s) = g[p] + SumFunctionOnSet(g, r)
        BY <2>2, <3>1, SumOfPicked
      <3>4. /\ SumFunctionOnSet(f, r) \in Int /\ SumFunctionOnSet(g, r) \in Int
            /\ f[p] \in Int /\ g[p] \in Int /\ f[p] <= g[p]
            /\ SumFunctionOnSet(f, r) <= SumFunctionOnSet(g, r)
        BY <3>1, SumType DEF Ints
      <3> HIDE DEF p, r
      <3>5. SumFunctionOnSet(f, s) <= SumFunctionOnSet(g, s)
        BY <3>2, <3>3, <3>4
      <3> QED
        BY <3>5
    <2> QED
      BY <2>1, <2>2
  <1>2. S \in P
    <2> HIDE DEF P
    <2> QED
      BY <1>1, InductionOnSets
  <1> QED
    BY <1>2

\* Counting is a sum of ones.
LEMMA SumOfOnes ==
    ASSUME NEW f, NEW S, IsFiniteSet(S), \A x \in S : f[x] = 1
    PROVE  SumFunctionOnSet(f, S) = Cardinality(S)
  <1> DEFINE P == {s \in SUBSET S : SumFunctionOnSet(f, s) = Cardinality(s)}
  <1>1. ASSUME NEW s \in SUBSET S, \A t \in SUBSET s : t # s => t \in P
        PROVE  s \in P
    <2>1. CASE s = {}
      BY <2>1, SumOfNone, FS_EmptySet
    <2>2. CASE s # {}
      <3>1. Pick(s) \in s /\ s \ {Pick(s)} \in P /\ IsFiniteSet(s)
        BY <1>1, <2>2, Picked, FS_Subset
      <3>2. SumFunctionOnSet(f, s) = f[Pick(s)] + SumFunctionOnSet(f, s \ {Pick(s)})
        BY <2>2, <3>1, SumOfPicked
      <3>3. Cardinality(s \ {Pick(s)}) = Cardinality(s) - 1 /\ Cardinality(s) \in Nat
        BY <3>1, FS_RemoveElement, FS_CardinalityType
      <3> QED
        BY <3>1, <3>2, <3>3
    <2> QED
      BY <2>1, <2>2
  <1>2. S \in P
    <2> HIDE DEF P
    <2> QED
      BY <1>1, InductionOnSets
  <1> QED
    BY <1>2

LEMMA SumCounts ==
    ASSUME NEW f, NEW S, IsFiniteSet(S), NEW R \in SUBSET S,
           \A x \in S : f[x] = IF x \in R THEN 1 ELSE 0
    PROVE  SumFunctionOnSet(f, S) = Cardinality(R)
  <1>1. IsFiniteSet(R) /\ Ints(f, R)
    BY FS_Subset DEF Ints
  <1> QED
    BY <1>1, SumOfZeros, SumOfOnes

LEMMA SumWithin ==
    ASSUME NEW f, NEW g, NEW S, IsFiniteSet(S), Ints(f, S), Ints(g, S), NEW c \in Int,
           \A x \in S : f[x] <= g[x] + c
    PROVE  SumFunctionOnSet(f, S) <= SumFunctionOnSet(g, S) + c * Cardinality(S)
  <1> DEFINE one == [x \in S |-> 1]
             slack == [x \in S |-> c]
             top == [x \in S |-> g[x] + c]
  <1>1. /\ Ints(one, S) /\ Ints(slack, S) /\ Ints(top, S)
        /\ \A x \in S : one[x] = 1 /\ slack[x] = c * one[x] /\ top[x] = g[x] + slack[x]
        /\ \A x \in S : f[x] <= top[x]
    BY DEF Ints
  <1> HIDE DEF one, slack, top
  <1>2. SumFunctionOnSet(one, S) = Cardinality(S)
    BY <1>1, SumOfOnes
  <1>3. SumFunctionOnSet(slack, S) = c * SumFunctionOnSet(one, S)
    BY <1>1, SumTimes
  <1>4. SumFunctionOnSet(top, S) = SumFunctionOnSet(g, S) + SumFunctionOnSet(slack, S)
    BY <1>1, SumAdds
  <1>5. SumFunctionOnSet(f, S) <= SumFunctionOnSet(top, S)
    BY <1>1, SumMonotone
  <1> QED
    BY <1>2, <1>3, <1>4, <1>5

-----------------------------------------------------------------------------
(* In a line of n elements, B[x] those before x, the first k are k.         *)

Line(S, B) ==
    \A x, y \in S : /\ x \notin B[x]
                    /\ x \in B[y] => B[x] \subseteq B[y]
                    /\ x # y => x \in B[y] \/ y \in B[x]

LEMMA LastOfLine ==
    ASSUME NEW S, IsFiniteSet(S), S # {}, NEW B, Line(S, B)
    PROVE  \E m \in S : \A x \in S \ {m} : x \in B[m]
  <1> DEFINE After(x) == S \ B[x]
             T == {Cardinality(After(x)) : x \in S}
  <1>1. \A x \in S : IsFiniteSet(After(x)) /\ Cardinality(After(x)) \in Nat
    BY FS_Subset, FS_CardinalityType
  <1>2. T \subseteq Nat /\ T # {}
    BY <1>1
  <1>3. PICK m \in S : \A x \in S : Cardinality(After(m)) <= Cardinality(After(x))
    <2> HIDE DEF T
    <2>1. PICK n \in T : \A k \in T : n <= k
      BY <1>2, SmallestOf
    <2> QED
      BY <2>1 DEF T
  <1>4. ASSUME NEW x \in S \ {m}, x \notin B[m] PROVE FALSE
    <2>1. m \in B[x] /\ B[m] \subseteq B[x] /\ m \notin B[m]
      BY <1>4 DEF Line
    <2>2. After(x) \in SUBSET After(m) /\ After(x) # After(m)
      BY <2>1
    <2>3. Cardinality(After(x)) < Cardinality(After(m))
      BY <1>1, <1>4, <2>2, ProperSubset
    <2> HIDE DEF After
    <2> QED
      BY <1>1, <1>3, <1>4, <2>3
  <1> QED
    BY <1>4

First(S, B, k) == {x \in S : Cardinality(B[x] \cap S) < k}

LEMMA FirstAreAsMany ==
    ASSUME NEW S, IsFiniteSet(S), NEW B, Line(S, B), NEW k \in Nat, k <= Cardinality(S)
    PROVE  Cardinality(First(S, B, k)) = k
  <1> DEFINE P == {s \in SUBSET S : \A n \in 0..Cardinality(s) : Cardinality(First(s, B, n)) = n}
  <1>1. ASSUME NEW s \in SUBSET S, \A t \in SUBSET s : t # s => t \in P
        PROVE  s \in P
    <2> SUFFICES ASSUME NEW n \in 0..Cardinality(s) PROVE Cardinality(First(s, B, n)) = n
      OBVIOUS
    <2>0. IsFiniteSet(s) /\ Cardinality(s) \in Nat /\ Line(s, B)
      BY FS_Subset, FS_CardinalityType DEF Line
    <2>1. CASE s = {}
      BY <2>1, FS_EmptySet DEF First
    <2>2. CASE s # {}
      <3>1. PICK m \in s : \A x \in s \ {m} : x \in B[m]
        BY <2>0, <2>2, LastOfLine
      <3> DEFINE r == s \ {m}
      <3>2. r \in P /\ IsFiniteSet(r) /\ Cardinality(r) = Cardinality(s) - 1 /\ Cardinality(r) \in Nat
        BY <1>1, <2>0, FS_RemoveElement, FS_CardinalityType
      <3>3. \A x \in s : x # m => B[x] \cap s = B[x] \cap r
        BY <2>0, <3>1 DEF Line
      <3>4. B[m] \cap s = r
        BY <2>0, <3>1 DEF Line
      <3>5. CASE n < Cardinality(s)
        <4>1. First(s, B, n) = First(r, B, n)
          <5>1. m \notin First(s, B, n)
            <6>1. Cardinality(B[m] \cap s) = Cardinality(s) - 1
              BY <3>2, <3>4
            <6>2. n \in Nat /\ ~(Cardinality(s) - 1 < n)
              BY <2>0, <3>5
            <6> QED
              BY <6>1, <6>2 DEF First
          <5> QED
            BY <3>3, <5>1 DEF First
        <4>2. n \in 0..Cardinality(r)
          BY <2>0, <3>2, <3>5
        <4> QED
          BY <3>2, <4>1, <4>2
      <3>6. CASE n = Cardinality(s)
        <4>1. ASSUME NEW x \in s PROVE Cardinality(B[x] \cap s) < n
          <5>1. B[x] \cap s \in SUBSET s /\ B[x] \cap s # s
            BY <2>0 DEF Line
          <5> QED
            BY <2>0, <3>6, <5>1, ProperSubset
        <4>2. First(s, B, n) = s
          BY <4>1 DEF First
        <4> QED
          BY <3>6, <4>2
      <3> QED
        BY <2>0, <3>5, <3>6
    <2> QED
      BY <2>1, <2>2
  <1>2. S \in P
    <2> HIDE DEF P
    <2> QED
      BY <1>1, InductionOnSets
  <1>3. Cardinality(S) \in Nat
    BY FS_CardinalityType
  <1> QED
    BY <1>2, <1>3
=============================================================================
