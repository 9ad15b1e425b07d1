------------------------- MODULE TransactionsProofs -------------------------
(***************************************************************************)
(* Proofs about Ledger, Recurring and MonthlySummary.  For any cards,      *)
(* transactions, commands and concurrent requests: the invoices bill the   *)
(* purchases, and an event names the months it changes.  For any           *)
(* templates, calendar, processes and bounds: the bound on repeated        *)
(* transactions, and that every template is served each month.  For any    *)
(* months, processes and bounds: no wrong summary is out of sight.         *)
(***************************************************************************)
EXTENDS Ledger, Recurring, MonthlySummary, SumTheorems, FiniteSetTheorems, TLAPS

-----------------------------------------------------------------------------
(* The ledger.  What the domain decides from a command.                     *)

LEMMA LedgerConstants ==
    /\ Ids # {} /\ IsFiniteSet(Ids) /\ IsFiniteSet(Cards) /\ IsFiniteSet(Months)
    /\ IsFiniteSet(1..MaxParts) /\ 1 \in Months /\ 1 \in 1..MaxParts /\ MaxParts \in Nat
    /\ Months \subseteq Nat /\ LastMonth \in Nat
    /\ \A in \in Inputs :
          /\ in.credit \in BOOLEAN /\ in.day \in Nat \ {0} /\ in.cents \in Nat \ {0}
          /\ in.card \in (IF in.credit THEN Cards ELSE {NoCard}) /\ in.parts \in 1..MaxParts
          /\ in.month \in Months /\ in.month + in.parts \in Months
  <1>1. LastMonth \in Nat \ {0} /\ MaxParts \in Nat \ {0}
    BY LedgerAssumption
  <1>2. IsFiniteSet(1..LastMonth) /\ IsFiniteSet(1..MaxParts)
    BY <1>1, FS_Interval
  <1> QED
    BY <1>1, <1>2, LedgerAssumption DEF Months

LEMMA InvoicesFinite == IsFiniteSet(Invoices)
  BY LedgerConstants, FS_Product DEF Invoices

\* The code divides a purchase without losing a cent: for any amount and any
\* number of instalments, Split gives each a natural number of cents and they
\* add up to the purchase.
THEOREM SplitAdds ==
    ASSUME NEW cents \in Nat, NEW parts \in Nat \ {0}
    PROVE  /\ Split(cents, parts) \in [1..parts -> Nat]
           /\ SumFunctionOnSet(Split(cents, parts), 1..parts) = cents
  <1> DEFINE S == 1..parts
             q == cents \div parts
             rest == cents % parts
             one == [i \in S |-> 1]
             base == [i \in S |-> q]
             extra == [i \in S |-> IF i <= rest THEN 1 ELSE 0]
             split == Split(cents, parts)
             R == 1..rest
  <1>1. q \in Nat /\ rest \in Nat /\ rest < parts /\ cents = parts * q + rest
    OBVIOUS
  <1>2. IsFiniteSet(S) /\ Cardinality(S) = parts
    BY FS_Interval
  <1>3. R \in SUBSET S /\ Cardinality(R) = rest
    BY <1>1, FS_Interval
  <1>4. split = [i \in S |-> q + (IF i <= rest THEN 1 ELSE 0)]
    BY DEF Split
  <1> HIDE DEF q, rest, split
  <1>5. split \in [S -> Nat]
    BY <1>1, <1>4
  <1>6. /\ Ints(one, S) /\ Ints(base, S) /\ Ints(extra, S) /\ q \in Int
        /\ \A i \in S : one[i] = 1 /\ base[i] = q * one[i] /\ split[i] = base[i] + extra[i]
        /\ \A i \in S : extra[i] = IF i \in R THEN 1 ELSE 0
    BY <1>1, <1>4 DEF Ints
  <1> HIDE DEF S, one, base, extra, R
  <1>7. SumFunctionOnSet(one, S) = parts
    BY <1>2, <1>6, SumOfOnes
  <1>8. SumFunctionOnSet(base, S) = q * parts
    BY <1>2, <1>6, <1>7, SumTimes
  <1>9. SumFunctionOnSet(extra, S) = rest
    BY <1>2, <1>3, <1>6, SumCounts
  <1>10. SumFunctionOnSet(split, S) = q * parts + rest
    BY <1>2, <1>6, <1>8, <1>9, SumAdds
  <1> QED
    BY <1>1, <1>5, <1>10 DEF S, split

\* A sum is the sum of the sums of its classes.
ClassOf(S, class, c) == {x \in S : class[x] = c}

LEMMA SumByClass ==
    ASSUME NEW S, IsFiniteSet(S), NEW f, Ints(f, S), NEW C, IsFiniteSet(C),
           NEW class, \A x \in S : class[x] \in C,
           NEW g, \A c \in C : g[c] = SumFunctionOnSet(f, ClassOf(S, class, c))
    PROVE  SumFunctionOnSet(g, C) = SumFunctionOnSet(f, S)
  <1> DEFINE Of(s) == [c \in C |-> SumFunctionOnSet(f, {x \in s : class[x] = c})]
             P == {s \in SUBSET S : SumFunctionOnSet(Of(s), C) = SumFunctionOnSet(f, s)}
  <1>1. ASSUME NEW s \in SUBSET S, \A t \in SUBSET s : t # s => t \in P
        PROVE  s \in P
    <2>0. IsFiniteSet(s) /\ Ints(f, s)
      BY FS_Subset DEF Ints
    <2>1. CASE s = {}
      <3>1. \A c \in C : Of(s)[c] = 0
        <4> SUFFICES ASSUME NEW c \in C PROVE SumFunctionOnSet(f, {x \in s : class[x] = c}) = 0
          OBVIOUS
        <4>1. {x \in s : class[x] = c} = {}
          BY <2>1
        <4> QED
          BY <4>1, SumOfNone
      <3>2. {} \in SUBSET C /\ Ints(Of(s), {})
        BY DEF Ints
      <3>3. SumFunctionOnSet(Of(s), C) = 0
        <4> HIDE DEF Of
        <4> QED
          BY <3>1, <3>2, SumOfZeros, SumOfNone
      <3> QED
        BY <2>1, <3>3, SumOfNone
    <2>2. CASE s # {}
      <3>1. PICK a \in s : TRUE
        BY <2>2
      <3> DEFINE r == s \ {a}
                 k == class[a]
      <3>2. r \in SUBSET s /\ r # s /\ r \in P /\ IsFiniteSet(r) /\ k \in C /\ f[a] \in Int /\ Ints(f, r)
        BY <1>1, <2>0, <3>1, FS_Subset DEF Ints
      <3>3. SumFunctionOnSet(f, s) = f[a] + SumFunctionOnSet(f, r)
        BY <2>0, <3>1, SumSplit
      <3>4. \A c \in C \ {k} : Of(s)[c] = Of(r)[c]
        <4> SUFFICES ASSUME NEW c \in C \ {k}
                     PROVE  {x \in s : class[x] = c} = {x \in r : class[x] = c}
          OBVIOUS
        <4> QED
          OBVIOUS
      <3>5. Of(s)[k] = f[a] + Of(r)[k]
        <4> DEFINE U == {x \in s : class[x] = k}
                   V == {x \in r : class[x] = k}
        <4>1. Of(s)[k] = SumFunctionOnSet(f, U) /\ Of(r)[k] = SumFunctionOnSet(f, V)
          BY <3>2
        <4>2. a \in U /\ U \ {a} = V /\ U \in SUBSET s
          BY <3>1
        <4>3. IsFiniteSet(U) /\ Ints(f, U)
          BY <2>0, <4>2, FS_Subset DEF Ints
        <4>4. SumFunctionOnSet(f, U) = f[a] + SumFunctionOnSet(f, U \ {a})
          BY <4>2, <4>3, SumSplit
        <4> QED
          BY <4>1, <4>2, <4>4
      <3>6. Ints(Of(r), C)
        <4> SUFFICES ASSUME NEW c \in C PROVE Of(r)[c] \in Int
          BY DEF Ints
        <4>1. {x \in r : class[x] = c} \in SUBSET r
          OBVIOUS
        <4>2. IsFiniteSet({x \in r : class[x] = c}) /\ Ints(f, {x \in r : class[x] = c})
          BY <3>2, <4>1, FS_Subset DEF Ints
        <4> QED
          BY <4>2, SumType
      <3>7. SumFunctionOnSet(Of(r), C) = SumFunctionOnSet(f, r)
        BY <3>2
      <3>8. SumFunctionOnSet(f, r) \in Int
        BY <3>2, SumType
      <3>9. Of(r)[k] \in Int
        BY <3>2, <3>6 DEF Ints
      <3> HIDE DEF Of, r, k
      <3>10. SumFunctionOnSet(Of(s), C) = SumFunctionOnSet(Of(r), C) - Of(r)[k] + Of(s)[k]
        BY <3>2, <3>4, <3>5, <3>6, <3>9, SumChanges
      <3>11. SumFunctionOnSet(Of(s), C) = SumFunctionOnSet(f, s)
        BY <3>2, <3>3, <3>5, <3>7, <3>8, <3>9, <3>10
      <3> QED
        BY <3>11
    <2> QED
      BY <2>1, <2>2
  <1>2. S \in P
    <2> HIDE DEF P
    <2> QED
      BY <1>1, InductionOnSets
  <1>3. SumFunctionOnSet(g, C) = SumFunctionOnSet(Of(S), C)
    <2>1. \A c \in C : g[c] = Of(S)[c]
      BY DEF ClassOf
    <2> HIDE DEF Of
    <2> QED
      BY <2>1, SumExtends
  <1> QED
    BY <1>2, <1>3

-----------------------------------------------------------------------------
(* What a request has read, and what it will change.                        *)

CentsIn(rows) == SumFunctionOnSet(Amounts(rows), LiveIn(rows))

\* A purchase and its instalments.
Billed(entry, rows) ==
    IF entry.state = "live" /\ entry.credit
    THEN /\ entry.card \in Cards
         /\ LiveIn(rows) = 1..entry.parts /\ CentsIn(rows) = entry.cents
         /\ \A p \in LiveIn(rows) : rows[p].card = entry.card
    ELSE LiveIn(rows) = {}

JobOK(j) ==
    /\ j \in Jobs
    /\ j.op \in {"create", "update", "delete"}
    /\ j.in \in IF j.op = "delete" THEN {NoInput} ELSE Inputs
    /\ j.op = "create" => j.row = NoTx /\ j.old = NoItems
    /\ j.op # "create" => j.row.state = "live"
    /\ j.op = "update" => j.row.credit = j.in.credit
    /\ Billed(j.row, j.old)

Deltas(j) == [m \in Months |-> Delta(j, m)]
NewCents(j) == IF j.in.credit THEN j.in.cents ELSE 0

LEMMA InputFacts ==
    ASSUME NEW j, JobOK(j)
    PROVE  /\ j.in.credit \in BOOLEAN /\ j.in.parts \in 1..MaxParts /\ j.in.cents \in Nat
           /\ j.in.month \in Months /\ j.in.card \in Cards \cup {NoCard}
           /\ j.in.credit => j.in.card \in Cards /\ j.in.month + j.in.parts \in Months
  <1>1. CASE j.in \in Inputs
    BY <1>1, LedgerConstants
  <1>2. CASE j.in = NoInput
    BY <1>2, LedgerConstants DEF NoInput
  <1> QED
    BY <1>1, <1>2 DEF JobOK

LEMMA NewFacts ==
    ASSUME NEW j, JobOK(j)
    PROVE  /\ NewAmounts(j) \in [1..j.in.parts -> Nat]
           /\ SumFunctionOnSet(NewAmounts(j), 1..j.in.parts) = j.in.cents
           /\ j.in.credit => NewMonths(j) \in [1..j.in.parts -> Months]
           /\ IsFiniteSet(1..j.in.parts) /\ Ints(NewAmounts(j), 1..j.in.parts)
           /\ 1..j.in.parts \subseteq 1..MaxParts
  <1>1. j.in.cents \in Nat /\ j.in.parts \in Nat \ {0} /\ j.in.parts <= MaxParts /\ MaxParts \in Nat
    BY InputFacts, LedgerConstants
  <1>2. /\ NewAmounts(j) \in [1..j.in.parts -> Nat]
        /\ SumFunctionOnSet(NewAmounts(j), 1..j.in.parts) = j.in.cents
    BY <1>1, SplitAdds DEF NewAmounts
  <1>3. ASSUME j.in.credit PROVE NewMonths(j) \in [1..j.in.parts -> Months]
    <2> DEFINE first == j.in.month
               n == j.in.parts
               late == IF j.in.day <= SnapshotOf(j) THEN 0 ELSE 1
    <2>1. first \in 1..LastMonth /\ first + n \in 1..LastMonth /\ n \in Nat /\ LastMonth \in Nat
      BY <1>1, <1>3, InputFacts, LedgerConstants DEF Months
    <2>2. NewMonths(j) = [i \in 1..n |-> first + late + i - 1]
      BY DEF NewMonths, Resolve
    <2>3. late \in {0, 1}
      OBVIOUS
    <2> HIDE DEF first, n, late
    <2>4. \A i \in 1..n : first + late + i - 1 \in 1..LastMonth
      BY <2>1, <2>3
    <2>5. NewMonths(j) \in [1..n -> Months]
      BY <2>2, <2>4 DEF Months
    <2> QED
      BY <2>5 DEF n
  <1>4. IsFiniteSet(1..j.in.parts) /\ 1..j.in.parts \subseteq 1..MaxParts
    <2>1. 1..j.in.parts \in SUBSET (1..MaxParts)
      BY <1>1
    <2> QED
      BY <2>1, LedgerConstants, FS_Subset
  <1> QED
    BY <1>2, <1>3, <1>4 DEF Ints

LEMMA OldFacts ==
    ASSUME NEW rows \in [1..MaxParts -> ItemRows]
    PROVE  /\ LiveIn(rows) \subseteq 1..MaxParts /\ IsFiniteSet(LiveIn(rows))
           /\ Ints(Amounts(rows), 1..MaxParts) /\ Ints(Amounts(rows), LiveIn(rows)) /\ CentsIn(rows) \in Int
           /\ \A p \in 1..MaxParts : rows[p].ref \in Months /\ rows[p].cents \in Nat /\ Amounts(rows)[p] = rows[p].cents
  <1>1. LiveIn(rows) \subseteq 1..MaxParts /\ IsFiniteSet(LiveIn(rows))
    BY LedgerConstants, FS_Subset DEF LiveIn
  <1>2. \A p \in 1..MaxParts : rows[p].ref \in Months /\ rows[p].cents \in Nat /\ Amounts(rows)[p] = rows[p].cents
    BY DEF ItemRows, Amounts
  <1>3. Ints(Amounts(rows), 1..MaxParts) /\ Ints(Amounts(rows), LiveIn(rows))
    BY <1>1, <1>2 DEF Ints
  <1> QED
    BY <1>1, <1>2, <1>3, SumType DEF CentsIn

LEMMA ByRefFacts ==
    ASSUME NEW j, JobOK(j), NEW m
    PROVE  OldByRef(j, m) \in Int /\ NewByRef(j, m) \in Int /\ Delta(j, m) \in Int
  <1>1. OldByRef(j, m) \in Int
    <2> DEFINE I == {i \in OldParts(j) : j.old[i].ref = m}
    <2>1. j.old \in [1..MaxParts -> ItemRows]
      BY DEF JobOK, Jobs
    <2>2. I \subseteq LiveIn(j.old)
      BY DEF OldParts
    <2>3. IsFiniteSet(I) /\ Ints(Amounts(j.old), I)
      BY <2>1, <2>2, OldFacts, FS_Subset DEF Ints
    <2> QED
      BY <2>3, SumType DEF OldByRef
  <1>2. NewByRef(j, m) \in Int
    <2> DEFINE I == {i \in 1..j.in.parts : NewMonths(j)[i] = m}
    <2>1. IsFiniteSet(I) /\ Ints(NewAmounts(j), I)
      BY NewFacts, FS_Subset DEF Ints
    <2>2. SumFunctionOnSet(NewAmounts(j), I) \in Int
      BY <2>1, SumType
    <2> QED
      BY <2>2 DEF NewByRef
  <1> QED
    BY <1>1, <1>2 DEF Delta

LEMMA DeltaMonthsAreMonths ==
    ASSUME NEW j, JobOK(j)
    PROVE  DeltaMonths(j) \subseteq Months /\ OldMonths(j) \subseteq Months
  <1>1. j.old \in [1..MaxParts -> ItemRows]
    BY DEF JobOK, Jobs
  <1>2. OldMonths(j) \subseteq Months
    BY <1>1, OldFacts DEF OldMonths, OldParts
  <1>3. ASSUME j.in.credit PROVE {NewMonths(j)[i] : i \in 1..j.in.parts} \subseteq Months
    <2>1. NewMonths(j) \in [1..j.in.parts -> Months]
      BY <1>3, NewFacts
    <2> QED
      BY <2>1
  <1> QED
    BY <1>2, <1>3 DEF DeltaMonths

\* All deltas together are the new amount less the old one.
LEMMA DeltasAdd ==
    ASSUME NEW j, JobOK(j)
    PROVE  SumFunctionOnSet(Deltas(j), Months) = NewCents(j) - CentsIn(j.old)
  <1> DEFINE old == [m \in Months |-> OldByRef(j, m)]
             new == [m \in Months |-> NewByRef(j, m)]
             refs == [i \in 1..MaxParts |-> j.old[i].ref]
             I == LiveIn(j.old)
  <1>0. j.old \in [1..MaxParts -> ItemRows] /\ IsFiniteSet(Months)
    BY LedgerConstants DEF JobOK, Jobs
  <1>1. /\ \A m \in Months : old[m] = OldByRef(j, m) /\ new[m] = NewByRef(j, m)
        /\ Ints(old, Months) /\ Ints(new, Months) /\ Ints(Deltas(j), Months)
        /\ \A m \in Months : new[m] = Deltas(j)[m] + old[m]
    BY ByRefFacts DEF Ints, Deltas, Delta
  <1>2. I \subseteq 1..MaxParts /\ IsFiniteSet(I) /\ Ints(Amounts(j.old), I) /\ CentsIn(j.old) \in Int
    BY <1>0, OldFacts
  <1>3. \A i \in I : refs[i] \in Months /\ refs[i] = j.old[i].ref
    BY <1>0, <1>2, OldFacts
  <1>4. \A m \in Months : old[m] = SumFunctionOnSet(Amounts(j.old), ClassOf(I, refs, m))
    <2> SUFFICES ASSUME NEW m \in Months
                 PROVE  OldByRef(j, m) = SumFunctionOnSet(Amounts(j.old), ClassOf(I, refs, m))
      OBVIOUS
    <2>1. {i \in OldParts(j) : j.old[i].ref = m} = ClassOf(I, refs, m)
      BY <1>3 DEF OldParts, ClassOf
    <2> QED
      BY <2>1 DEF OldByRef
  <1> HIDE DEF old, new, refs, I
  <1>5. SumFunctionOnSet(old, Months) = CentsIn(j.old)
    <2> DEFINE amounts == Amounts(j.old)
    <2>1. /\ IsFiniteSet(I) /\ Ints(amounts, I) /\ IsFiniteSet(Months)
          /\ \A i \in I : refs[i] \in Months
          /\ \A m \in Months : old[m] = SumFunctionOnSet(amounts, ClassOf(I, refs, m))
      BY <1>0, <1>2, <1>3, <1>4
    <2> HIDE DEF amounts
    <2>2. SumFunctionOnSet(old, Months) = SumFunctionOnSet(amounts, I)
      BY <2>1, SumByClass
    <2> QED
      BY <2>2 DEF CentsIn, I, amounts
  <1>6. SumFunctionOnSet(new, Months) = NewCents(j)
    <2>1. CASE j.in.credit
      <3> DEFINE N == 1..j.in.parts
      <3>1. /\ IsFiniteSet(N) /\ Ints(NewAmounts(j), N)
            /\ \A i \in N : NewMonths(j)[i] \in Months
            /\ SumFunctionOnSet(NewAmounts(j), N) = j.in.cents
        BY <2>1, NewFacts
      <3>2. \A m \in Months : new[m] = SumFunctionOnSet(NewAmounts(j), ClassOf(N, NewMonths(j), m))
        BY <1>1, <2>1 DEF NewByRef, ClassOf
      <3> HIDE DEF N
      <3>3. SumFunctionOnSet(new, Months) = SumFunctionOnSet(NewAmounts(j), N)
        BY <1>0, <3>1, <3>2, SumByClass
      <3> QED
        BY <2>1, <3>1, <3>3 DEF NewCents
    <2>2. CASE ~j.in.credit
      <3>1. \A m \in Months : new[m] = 0
        BY <1>1, <2>2 DEF NewByRef
      <3>2. {} \in SUBSET Months /\ Ints(new, {})
        BY DEF Ints
      <3>3. SumFunctionOnSet(new, Months) = 0
        BY <1>0, <3>1, <3>2, SumOfZeros, SumOfNone
      <3> QED
        BY <2>2, <3>3 DEF NewCents
    <2> QED
      BY <2>1, <2>2
  <1>7. SumFunctionOnSet(new, Months) = SumFunctionOnSet(Deltas(j), Months) + SumFunctionOnSet(old, Months)
    BY <1>0, <1>1, SumAdds
  <1>8. SumFunctionOnSet(Deltas(j), Months) \in Int
    BY <1>0, <1>1, SumType
  <1> QED
    BY <1>2, <1>5, <1>6, <1>7, <1>8

\* The months left out have no delta.
LEMMA TodoHoldsAll ==
    ASSUME NEW j, JobOK(j)
    PROVE  SumFunctionOnSet(Deltas(j), {m \in DeltaMonths(j) : Delta(j, m) # 0})
             = SumFunctionOnSet(Deltas(j), Months)
  <1> DEFINE R == {m \in DeltaMonths(j) : Delta(j, m) # 0}
  <1>1. R \in SUBSET Months
    BY DeltaMonthsAreMonths
  <1>2. Ints(Deltas(j), R) /\ IsFiniteSet(Months)
    BY <1>1, ByRefFacts, LedgerConstants DEF Ints, Deltas
  <1>3. ASSUME NEW m \in Months \ R PROVE Deltas(j)[m] = 0
    <2>1. Deltas(j)[m] = Delta(j, m)
      BY DEF Deltas
    <2>2. CASE m \in DeltaMonths(j)
      BY <2>1, <2>2
    <2>3. CASE m \notin DeltaMonths(j)
      <3>1. {i \in OldParts(j) : j.old[i].ref = m} = {}
        BY <2>3 DEF DeltaMonths, OldMonths
      <3>2. OldByRef(j, m) = 0
        BY <3>1, SumOfNone DEF OldByRef
      <3>3. ASSUME j.in.credit PROVE {i \in 1..j.in.parts : NewMonths(j)[i] = m} = {}
        BY <2>3, <3>3 DEF DeltaMonths
      <3>4. NewByRef(j, m) = 0
        BY <3>3, SumOfNone DEF NewByRef
      <3> QED
        BY <2>1, <3>2, <3>4 DEF Delta
    <2> QED
      BY <2>2, <2>3
  <1> HIDE DEF R
  <1>4. SumFunctionOnSet(Deltas(j), Months) = SumFunctionOnSet(Deltas(j), R)
    BY <1>1, <1>2, <1>3, SumOfZeros
  <1> QED
    BY <1>4 DEF R

\* What a commit leaves of the instalments.
LEMMA ReplacedItems ==
    ASSUME NEW j, JobOK(j), HasItems(j), j.op # "delete" => ItemsStorable(j)
    PROVE  /\ ReplaceItems(j.old, j) \in [1..MaxParts -> ItemRows]
           /\ LiveIn(ReplaceItems(j.old, j)) = IF j.op = "delete" THEN {} ELSE 1..j.in.parts
           /\ CentsIn(ReplaceItems(j.old, j)) = NewCents(j)
           /\ \A p \in LiveIn(ReplaceItems(j.old, j)) :
                 /\ ReplaceItems(j.old, j)[p].card = j.in.card
                 /\ ReplaceItems(j.old, j)[p].cents > 0
  <1> DEFINE rows == ReplaceItems(j.old, j)
  <1>0. j.old \in [1..MaxParts -> ItemRows]
    BY DEF JobOK, Jobs
  <1>1. CASE j.op = "delete"
    <2>1. rows = [i \in 1..MaxParts |-> [j.old[i] EXCEPT !.live = FALSE]]
      BY <1>1 DEF ReplaceItems
    <2>2. \A i \in 1..MaxParts : rows[i] \in ItemRows /\ ~rows[i].live
      BY <1>0, <2>1, ZenonT(30) DEF ItemRows
    <2>3. rows \in [1..MaxParts -> ItemRows] /\ LiveIn(rows) = {}
      BY <2>1, <2>2 DEF LiveIn
    <2>4. CentsIn(rows) = 0
      BY <2>3, SumOfNone DEF CentsIn
    <2>5. NewCents(j) = 0
      BY <1>1 DEF JobOK, NewCents, NoInput
    <2> HIDE DEF rows
    <2> QED
      BY <1>1, <2>3, <2>4, <2>5 DEF rows
  <1>2. CASE j.op # "delete"
    <2> DEFINE N == 1..j.in.parts
               New(i) == [live |-> TRUE, card |-> j.in.card, month |-> NewMonths(j)[i],
                          ref |-> IF j.old[i] = NoItem THEN NewMonths(j)[i] ELSE j.old[i].ref,
                          cents |-> NewAmounts(j)[i]]
    <2>1. j.in.credit /\ j.in.card \in Cards /\ j.in.parts \in Nat /\ MaxParts \in Nat
      BY <1>2, InputFacts, LedgerConstants DEF HasItems
    <2>2. /\ NewMonths(j) \in [N -> Months] /\ NewAmounts(j) \in [N -> Nat] /\ N \subseteq 1..MaxParts
          /\ SumFunctionOnSet(NewAmounts(j), N) = j.in.cents
          /\ \A i \in N : NewAmounts(j)[i] > 0
      BY <1>2, <2>1, NewFacts DEF ItemsStorable
    <2>3. rows = [i \in 1..MaxParts |-> IF i > j.in.parts THEN [j.old[i] EXCEPT !.live = FALSE] ELSE New(i)]
      BY <1>2 DEF ReplaceItems
    <2>4. \A i \in 1..MaxParts : i \in N <=> ~(i > j.in.parts)
      BY <2>1
    <2>5. ASSUME NEW i \in N
          PROVE  /\ New(i) \in ItemRows /\ New(i).live /\ New(i).card = j.in.card
                 /\ New(i).cents = NewAmounts(j)[i]
      <3>1. NewMonths(j)[i] \in Months /\ NewAmounts(j)[i] \in Nat /\ j.old[i].ref \in Months
        BY <1>0, <2>2, OldFacts
      <3> QED
        BY <2>1, <3>1 DEF ItemRows
    <2> HIDE DEF New
    <2>6. /\ \A i \in N : rows[i] = New(i)
          /\ \A i \in (1..MaxParts) \ N : rows[i] \in ItemRows /\ ~rows[i].live
      BY <1>0, <2>2, <2>3, <2>4 DEF ItemRows
    <2>7. rows \in [1..MaxParts -> ItemRows]
      <3>1. \A i \in 1..MaxParts : rows[i] \in ItemRows
        BY <2>5, <2>6
      <3> QED
        BY <2>3, <3>1
    <2>8. LiveIn(rows) = N
      BY <2>2, <2>5, <2>6 DEF LiveIn
    <2>9. \A p \in N : rows[p].card = j.in.card /\ rows[p].cents = NewAmounts(j)[p]
      BY <2>5, <2>6
    <2> HIDE DEF rows, N
    <2>10. \A p \in N : Amounts(rows)[p] = NewAmounts(j)[p]
      BY <2>2, <2>7, <2>9, OldFacts
    <2>11. SumFunctionOnSet(Amounts(rows), N) = j.in.cents
      <3>1. IsFiniteSet(N)
        BY NewFacts DEF N
      <3>2. SumFunctionOnSet(Amounts(rows), N) = SumFunctionOnSet(NewAmounts(j), N)
        BY <2>10, <3>1, SumExtends
      <3> QED
        BY <2>2, <3>2
    <2>12. CentsIn(rows) = NewCents(j)
      BY <2>1, <2>8, <2>11 DEF CentsIn, NewCents
    <2> QED
      BY <1>2, <2>2, <2>7, <2>8, <2>9, <2>12 DEF rows, N
  <1> QED
    BY <1>1, <1>2

-----------------------------------------------------------------------------
(* The inductive invariant of the ledger.                                   *)

Stagings == UNION {[D -> InvoiceRows] : D \in SUBSET Invoices}
Places == {"idle", "write"} \cup InTx

\* A request at p with job j and staged rows s, as it stands by itself.
LocalOK(p, j, s) ==
    /\ p # "idle" => JobOK(j)
    /\ p \in {"idle", "write"} => DOMAIN s = {}
    /\ p = "write" => j.part = 1
    /\ \A k \in DOMAIN s : s[k].ver # 0 /\ k[2] \in DeltaMonths(j)
    /\ p \in InTx =>
          /\ j.todo \subseteq DeltaMonths(j)
          /\ ~HasItems(j) => DOMAIN s = {} /\ p = "commit"
          /\ p = "build" => j.op # "delete" /\ j.part \in 1..(j.in.parts + 1)
          /\ p \in {"deltas", "apply"} => j.op # "create"
          /\ p = "apply" => j.at \in j.todo /\ j.seen # 0
          /\ p = "commit" /\ HasItems(j) => IF j.op = "create" THEN j.part = j.in.parts + 1
                                            ELSE j.todo = {}
          /\ p # "build" /\ HasItems(j) /\ j.op # "delete" => ItemsStorable(j)

\* What it read is what the table holds, or a version of the past.
ReadOK(p, j) ==
    /\ p # "idle" /\ j.op # "create" =>
          /\ j.row.ver <= tx[j.id].ver
          /\ j.row.ver = tx[j.id].ver => tx[j.id] = j.row /\ items[j.id] = j.old
    /\ p \in InTx => tx[j.id] = j.row /\ items[j.id] = j.old

\* The cents it has moved so far.
SeenIn(s, k) == IF k \in DOMAIN s THEN s[k] ELSE inv[k]
Moves(s) == [k \in Invoices |-> SeenIn(s, k).total - inv[k].total]
Done(j) == IF j.op = "create" THEN SumFunctionOnSet(NewAmounts(j), 1..(j.part - 1))
           ELSE SumFunctionOnSet(Deltas(j), Months) - SumFunctionOnSet(Deltas(j), j.todo)
MovedOK(p, j, s) == p \in InTx /\ HasItems(j) => SumFunctionOnSet(Moves(s), Invoices) = Done(j)

TablesOK ==
    /\ tx \in [Ids -> TxRows]
    /\ items \in [Ids -> [1..MaxParts -> ItemRows]]
    /\ inv \in [Invoices -> InvoiceRows]
    /\ event \subseteq Months
    /\ \A i \in Ids : Billed(tx[i], items[i])
    /\ \A i \in Ids : tx[i].state = "absent" => tx[i] = NoTx /\ items[i] = NoItems
    /\ \A i \in Ids : \A p \in LiveIn(items[i]) : items[i][p].cents > 0
    /\ \A k \in Invoices : inv[k].ver = 0 => inv[k].total = 0

RequestsTyped ==
    pc \in [Requests -> Places] /\ job \in [Requests -> Jobs] /\ staged \in [Requests -> Stagings]

Locks ==
    \A q, r \in Requests : q # r =>
        /\ pc[q] \in InTx /\ pc[r] \in InTx => job[q].id # job[r].id
        /\ DOMAIN staged[q] \cap DOMAIN staged[r] = {}

LedgerInv ==
    /\ TablesOK /\ RequestsTyped /\ Locks /\ TotalsConserved
    /\ \A r \in Requests : /\ LocalOK(pc[r], job[r], staged[r])
                           /\ ReadOK(pc[r], job[r])
                           /\ MovedOK(pc[r], job[r], staged[r])

LEMMA NothingStaged == <<>> \in Stagings /\ DOMAIN <<>> = {}
  <1>1. DOMAIN <<>> = {} /\ <<>> \in [{} -> InvoiceRows]
    OBVIOUS
  <1> QED
    BY <1>1 DEF Stagings

LEMMA NothingRead == NoTx \in TxRows /\ NoItems \in [1..MaxParts -> ItemRows] /\ NoJob \in Jobs
                       /\ LiveIn(NoItems) = {} /\ Billed(NoTx, NoItems) /\ CentsIn(NoItems) = 0
  <1>1. NoTx \in TxRows /\ NoTx.state = "absent"
    BY LedgerConstants DEF NoTx, TxRows
  <1>2. NoItem \in ItemRows /\ ~NoItem.live
    BY LedgerConstants DEF NoItem, ItemRows
  <1>3. NoItems \in [1..MaxParts -> ItemRows] /\ LiveIn(NoItems) = {}
    BY <1>2 DEF NoItems, LiveIn
  <1>4. (CHOOSE i \in Ids : TRUE) \in Ids
    BY LedgerConstants
  <1>5. NoJob \in Jobs
    BY <1>1, <1>3, <1>4, LedgerConstants DEF NoJob, Jobs
  <1>6. Billed(NoTx, NoItems)
    BY <1>1, <1>3 DEF Billed
  <1>7. CentsIn(NoItems) = 0
    BY <1>3, SumOfNone DEF CentsIn
  <1> QED
    BY <1>1, <1>3, <1>5, <1>6, <1>7

LEMMA LedgerInitially == LedgerInit => LedgerInv
  <1> SUFFICES ASSUME LedgerInit PROVE LedgerInv
    OBVIOUS
  <1>1. TablesOK
    <2>1. /\ tx \in [Ids -> TxRows] /\ items \in [Ids -> [1..MaxParts -> ItemRows]]
          /\ \A i \in Ids : tx[i] = NoTx /\ items[i] = NoItems
      BY NothingRead DEF LedgerInit
    <2>2. inv \in [Invoices -> InvoiceRows] /\ \A k \in Invoices : inv[k].total = 0
      BY DEF LedgerInit, InvoiceRows
    <2>3. event \subseteq Months
      BY DEF LedgerInit
    <2> QED
      BY <2>1, <2>2, <2>3, NothingRead DEF TablesOK
  <1>2. RequestsTyped
    BY NothingRead, NothingStaged DEF LedgerInit, RequestsTyped, Places
  <1>3. \A r \in Requests : pc[r] = "idle" /\ staged[r] = <<>> /\ DOMAIN staged[r] = {}
    BY NothingStaged DEF LedgerInit
  <1>4. TotalsConserved
    <2> DEFINE T == [k \in Invoices |-> inv[k].total]
               C == [i \in Ids |-> CentsOf(i)]
    <2>1. /\ \A k \in Invoices : T[k] = 0
          /\ Ints(T, {}) /\ Ints(C, {}) /\ {} \in SUBSET Invoices /\ {} \in SUBSET Ids
      BY DEF LedgerInit, Ints
    <2>2. \A i \in Ids : C[i] = 0
      <3> SUFFICES ASSUME NEW i \in Ids PROVE CentsOf(i) = 0
        OBVIOUS
      <3>1. items[i] = NoItems
        BY DEF LedgerInit
      <3> QED
        BY <3>1, NothingRead DEF CentsOf, LiveParts, CentsIn
    <2>3. SumFunction(T) = SumFunctionOnSet(T, Invoices) /\ SumFunction(C) = SumFunctionOnSet(C, Ids)
      BY DEF SumFunction
    <2>4. TotalsConserved <=> SumFunction(T) = SumFunction(C)
      BY DEF TotalsConserved
    <2> HIDE DEF T, C
    <2>5. SumFunctionOnSet(T, Invoices) = 0 /\ SumFunctionOnSet(C, Ids) = 0
      BY <2>1, <2>2, SumOfZeros, SumOfNone, InvoicesFinite, LedgerConstants
    <2> QED
      BY <2>3, <2>4, <2>5
  <1>5. Locks
    BY <1>3 DEF Locks, InTx
  <1>6. ASSUME NEW r \in Requests
        PROVE  /\ LocalOK(pc[r], job[r], staged[r]) /\ ReadOK(pc[r], job[r])
               /\ MovedOK(pc[r], job[r], staged[r])
    BY <1>3 DEF LocalOK, ReadOK, MovedOK, InTx
  <1> QED
    BY <1>1, <1>2, <1>4, <1>5, <1>6 DEF LedgerInv

\* A step of one request that commits nothing.
LEMMA StepsAlone ==
    ASSUME LedgerInv, NEW r \in Requests, NEW p \in Places, NEW j \in Jobs, NEW s \in Stagings,
           UNCHANGED <<tx, items, inv, event>>,
           pc' = [pc EXCEPT ![r] = p], job' = [job EXCEPT ![r] = j],
           staged' = [staged EXCEPT ![r] = s],
           LocalOK(p, j, s), ReadOK(p, j), MovedOK(p, j, s),
           p \in InTx => \A q \in Requests \ {r} : pc[q] \in InTx => job[q].id # j.id,
           \A q \in Requests \ {r} : DOMAIN staged[q] \cap DOMAIN s = {}
    PROVE  LedgerInv'
  <1>1. RequestsTyped /\ TablesOK /\ Locks /\ TotalsConserved
    BY DEF LedgerInv
  <1>2. /\ pc'[r] = p /\ job'[r] = j /\ staged'[r] = s
        /\ \A q \in Requests \ {r} : pc'[q] = pc[q] /\ job'[q] = job[q] /\ staged'[q] = staged[q]
    BY <1>1 DEF RequestsTyped
  <1>3. RequestsTyped'
    BY <1>1 DEF RequestsTyped
  <1>4. TablesOK' /\ TotalsConserved'
    BY <1>1 DEF TablesOK, TotalsConserved, CentsOf, LiveParts
  <1>5. Locks'
    BY <1>1, <1>2 DEF Locks
  <1>6. ASSUME NEW q \in Requests
        PROVE  /\ LocalOK(pc'[q], job'[q], staged'[q]) /\ ReadOK(pc[q], job[q])'
               /\ MovedOK(pc[q], job[q], staged[q])'
    <2>1. CASE q = r
      BY <1>2, <2>1 DEF ReadOK, MovedOK, Moves, SeenIn
    <2>2. CASE q # r
      <3>1. LocalOK(pc[q], job[q], staged[q]) /\ ReadOK(pc[q], job[q]) /\ MovedOK(pc[q], job[q], staged[q])
        BY DEF LedgerInv
      <3> QED
        BY <1>2, <2>2, <3>1 DEF ReadOK, MovedOK, Moves, SeenIn
    <2> QED
      BY <2>1, <2>2
  <1> QED
    BY <1>3, <1>4, <1>5, <1>6 DEF LedgerInv

LEMMA RollbackKeeps ==
    ASSUME LedgerInv, NEW r \in Requests, Rollback(r)
    PROVE  LedgerInv'
  <1>1. LocalOK("idle", NoJob, <<>>) /\ ReadOK("idle", NoJob) /\ MovedOK("idle", NoJob, <<>>)
    BY NothingStaged DEF LocalOK, ReadOK, MovedOK, InTx
  <1>2. "idle" \in Places /\ "idle" \notin InTx
    BY DEF Places, InTx
  <1> QED
    BY <1>1, <1>2, NothingStaged, NothingRead, StepsAlone DEF Rollback, Goto

-----------------------------------------------------------------------------
(* The steps of a request before its commit.                                *)

\* What is decided depends on the command and on what was read, not on how
\* far the request is.
LEMMA SameCommand ==
    ASSUME NEW j, NEW n, n.op = j.op, n.in = j.in, n.row = j.row, n.old = j.old
    PROVE  /\ HasItems(n) = HasItems(j) /\ DeltaMonths(n) = DeltaMonths(j) /\ Deltas(n) = Deltas(j)
           /\ NewAmounts(n) = NewAmounts(j) /\ (ItemsStorable(n) <=> ItemsStorable(j))
           /\ JobOK(j) /\ n \in Jobs => JobOK(n)
  <1>1. NewAmounts(n) = NewAmounts(j) /\ NewMonths(n) = NewMonths(j) /\ OldParts(n) = OldParts(j)
    BY DEF NewAmounts, NewMonths, SnapshotOf, OldParts
  <1>2. DeltaMonths(n) = DeltaMonths(j) /\ HasItems(n) = HasItems(j)
    BY <1>1 DEF DeltaMonths, OldMonths, HasItems
  <1>3. \A m : OldByRef(n, m) = OldByRef(j, m)
    BY <1>1 DEF OldByRef
  <1>4. \A m : NewByRef(n, m) = NewByRef(j, m)
    BY <1>1 DEF NewByRef
  <1>5. Deltas(n) = Deltas(j)
    BY <1>3, <1>4 DEF Deltas, Delta
  <1> QED
    BY <1>1, <1>2, <1>5 DEF ItemsStorable, JobOK

LEMMA RequestFacts ==
    ASSUME LedgerInv, NEW r \in Requests
    PROVE  /\ pc[r] \in Places /\ job[r] \in Jobs /\ staged[r] \in Stagings
           /\ LocalOK(pc[r], job[r], staged[r]) /\ ReadOK(pc[r], job[r])
           /\ MovedOK(pc[r], job[r], staged[r])
           /\ job[r].id \in Ids /\ (pc[r] # "idle" => JobOK(job[r]))
  BY DEF LedgerInv, RequestsTyped, LocalOK, Jobs

LEMMA BeginKeeps ==
    ASSUME LedgerInv, NEW r \in Requests, NEW j, JobOK(j), j.part = 1, ReadOK("write", j), Begin(r, j)
    PROVE  LedgerInv'
  <1>1. "write" \in Places /\ "write" \notin InTx /\ j \in Jobs
    BY DEF Places, InTx, JobOK
  <1>2. staged[r] \in Stagings /\ DOMAIN staged[r] = {} /\ staged' = [staged EXCEPT ![r] = staged[r]]
    BY DEF LedgerInv, RequestsTyped, LocalOK, Begin
  <1>3. LocalOK("write", j, staged[r]) /\ MovedOK("write", j, staged[r])
    BY <1>1, <1>2 DEF LocalOK, MovedOK
  <1> QED
    BY <1>1, <1>2, <1>3, StepsAlone DEF Begin, Goto

LEMMA CreateTransactionKeeps ==
    ASSUME LedgerInv, NEW r \in Requests, NEW i \in Ids, NEW in \in Inputs, CreateTransaction(r, i, in)
    PROVE  LedgerInv'
  <1> DEFINE j == [NoJob EXCEPT !.op = "create", !.id = i, !.in = in]
  <1>1. /\ j \in Jobs /\ j.op = "create" /\ j.in = in /\ j.row = NoTx /\ j.old = NoItems /\ j.part = 1
    BY NothingRead DEF NoJob, Jobs
  <1>2. Begin(r, j)
    BY DEF CreateTransaction
  <1> HIDE DEF j
  <1>3. JobOK(j) /\ ReadOK("write", j)
    BY <1>1, NothingRead DEF JobOK, ReadOK, InTx
  <1> QED
    BY <1>1, <1>2, <1>3, BeginKeeps

LEMMA GetByIDKeeps ==
    ASSUME LedgerInv, NEW r \in Requests, NEW i \in Ids, NEW op \in {"update", "delete"},
           NEW in \in (IF op = "delete" THEN {NoInput} ELSE Inputs),
           op = "update" => tx[i].credit = in.credit, GetByID(r, i, op, in)
    PROVE  LedgerInv'
  <1> DEFINE j == [NoJob EXCEPT !.op = op, !.id = i, !.in = in, !.row = tx[i], !.old = items[i]]
  <1>0. tx[i] \in TxRows /\ items[i] \in [1..MaxParts -> ItemRows] /\ Billed(tx[i], items[i])
    BY DEF LedgerInv, TablesOK
  <1>1. /\ j \in Jobs /\ j.op = op /\ j.in = in /\ j.row = tx[i] /\ j.old = items[i] /\ j.part = 1
        /\ j.id = i
    BY <1>0, NothingRead DEF NoJob, Jobs
  <1>2. Begin(r, j) /\ tx[i].state = "live"
    BY DEF GetByID
  <1> HIDE DEF j
  <1>3. JobOK(j)
    BY <1>0, <1>1, <1>2 DEF JobOK
  <1>4. ReadOK("write", j)
    <2>1. tx[i].ver \in Nat
      BY <1>0 DEF TxRows
    <2> QED
      BY <1>1, <2>1 DEF ReadOK, InTx
  <1> QED
    BY <1>1, <1>2, <1>3, <1>4, BeginKeeps

\* Nothing staged moves nothing.
LEMMA NothingMoved ==
    ASSUME TablesOK, NEW s, DOMAIN s = {}
    PROVE  SumFunctionOnSet(Moves(s), Invoices) = 0
  <1>1. \A k \in Invoices : inv[k].total \in Int
    BY DEF TablesOK, InvoiceRows
  <1>2. \A k \in Invoices : Moves(s)[k] = 0
    BY <1>1 DEF Moves, SeenIn
  <1>3. {} \in SUBSET Invoices /\ Ints(Moves(s), {})
    BY DEF Ints
  <1> QED
    BY <1>2, <1>3, InvoicesFinite, SumOfZeros, SumOfNone

LEMMA WriteRowKeeps ==
    ASSUME LedgerInv, NEW r \in Requests, WriteRow(r),
           tx[job[r].id] = job[r].row, items[job[r].id] = job[r].old
    PROVE  LedgerInv'
  <1> DEFINE j == job[r]
             s == staged[r]
             todo == {m \in DeltaMonths(j) : Delta(j, m) # 0}
             n == [j EXCEPT !.todo = todo]
             p == IF ~HasItems(j) THEN "commit" ELSE IF j.op = "delete" THEN "deltas" ELSE "build"
  <1>1. JobOK(j) /\ j \in Jobs /\ s \in Stagings /\ DOMAIN s = {} /\ j.part = 1 /\ ReadOK("write", j)
    BY RequestFacts DEF WriteRow, LocalOK
  <1>2. pc' = [pc EXCEPT ![r] = p] /\ job' = [job EXCEPT ![r] = n] /\ staged' = [staged EXCEPT ![r] = s]
    BY DEF WriteRow, Goto, LedgerInv, RequestsTyped
  <1>3. todo \subseteq DeltaMonths(j) /\ todo \subseteq Months
    BY <1>1, DeltaMonthsAreMonths
  <1>4. SumFunctionOnSet(Deltas(j), todo) = SumFunctionOnSet(Deltas(j), Months)
    BY <1>1, TodoHoldsAll
  <1> HIDE DEF todo
  <1>5. /\ n \in Jobs /\ n.op = j.op /\ n.in = j.in /\ n.row = j.row /\ n.old = j.old /\ n.id = j.id
        /\ n.part = 1 /\ n.todo = todo
    BY <1>1, <1>3 DEF Jobs
  <1>6. /\ HasItems(n) = HasItems(j) /\ DeltaMonths(n) = DeltaMonths(j) /\ Deltas(n) = Deltas(j)
        /\ NewAmounts(n) = NewAmounts(j) /\ JobOK(n)
    BY <1>1, <1>5, SameCommand
  <1>7. p \in Places /\ p \in {"build", "deltas", "commit"} /\ (p = "commit" <=> ~HasItems(j))
    BY DEF Places, InTx
  <1>8. (p = "build" => j.op # "delete") /\ (p = "deltas" => j.op = "delete")
    OBVIOUS
  <1>9. j.in.parts \in Nat /\ 1 \in 1..(j.in.parts + 1)
    BY <1>1, InputFacts, LedgerConstants
  <1> HIDE DEF n, p
  <1>10. LocalOK(p, n, s)
    BY <1>1, <1>3, <1>5, <1>6, <1>7, <1>8, <1>9 DEF LocalOK
  <1>11. ReadOK(p, n)
    BY <1>1, <1>5 DEF ReadOK, JobOK
  <1>12. MovedOK(p, n, s)
    <2>1. SumFunctionOnSet(Moves(s), Invoices) = 0
      BY <1>1, NothingMoved DEF LedgerInv
    <2>2. Done(n) = 0
      <3>1. CASE n.op = "create"
        <4>1. 1..(n.part - 1) = {}
          BY <1>5
        <4> QED
          BY <3>1, <4>1, SumOfNone DEF Done
      <3>2. CASE n.op # "create"
        <4>1. SumFunctionOnSet(Deltas(j), Months) \in Int
          BY <1>1, ByRefFacts, LedgerConstants, SumType DEF Deltas, Ints
        <4> QED
          BY <1>4, <1>5, <1>6, <3>2, <4>1 DEF Done
      <3> QED
        BY <3>1, <3>2
    <2> QED
      BY <2>1, <2>2 DEF MovedOK
  <1>13. \A q \in Requests \ {r} : pc[q] \in InTx => job[q].id # n.id
    BY <1>5 DEF WriteRow, RowLocked
  <1>14. \A q \in Requests \ {r} : DOMAIN staged[q] \cap DOMAIN s = {}
    BY <1>1
  <1>15. UNCHANGED <<tx, items, inv, event>>
    BY DEF WriteRow
  <1> HIDE DEF s, j
  <1> QED
    BY <1>1, <1>2, <1>5, <1>7, <1>10, <1>11, <1>12, <1>13, <1>14, <1>15, StepsAlone

LEMMA CreateKeeps ==
    ASSUME LedgerInv, NEW r \in Requests, Create(r)
    PROVE  LedgerInv'
  <1>1. tx[job[r].id] = NoTx /\ items[job[r].id] = NoItems
    BY RequestFacts DEF Create, LedgerInv, TablesOK
  <1>2. job[r].row = NoTx /\ job[r].old = NoItems
    BY RequestFacts DEF Create, WriteRow, JobOK
  <1> QED
    BY <1>1, <1>2, WriteRowKeeps DEF Create

LEMMA UpdateWithVersionKeeps ==
    ASSUME LedgerInv, NEW r \in Requests, UpdateWithVersion(r)
    PROVE  LedgerInv'
  <1>1. tx[job[r].id] = job[r].row /\ items[job[r].id] = job[r].old
    BY RequestFacts DEF UpdateWithVersion, VersionHolds, WriteRow, ReadOK
  <1> QED
    BY <1>1, WriteRowKeeps DEF UpdateWithVersion

\* One more row staged moves the difference.
StagedAlso(s, k, entry) == [x \in DOMAIN s \cup {k} |-> IF x = k THEN entry ELSE s[x]]

LEMMA StagesRow ==
    ASSUME TablesOK, NEW s \in Stagings, NEW k \in Invoices, NEW entry \in InvoiceRows
    PROVE  /\ StagedAlso(s, k, entry) \in Stagings /\ DOMAIN StagedAlso(s, k, entry) = DOMAIN s \cup {k}
           /\ SumFunctionOnSet(Moves(StagedAlso(s, k, entry)), Invoices)
                = SumFunctionOnSet(Moves(s), Invoices) + (entry.total - SeenIn(s, k).total)
           /\ SumFunctionOnSet(Moves(s), Invoices) \in Int
           /\ SeenIn(s, k).total \in Int /\ entry.total \in Int
           /\ StagedAlso(s, k, entry)[k] = entry /\ \A x \in DOMAIN s \ {k} : StagedAlso(s, k, entry)[x] = s[x]
  <1> DEFINE t == StagedAlso(s, k, entry)
  <1>0. DOMAIN s \subseteq Invoices /\ \A x \in DOMAIN s : s[x] \in InvoiceRows
    BY DEF Stagings
  <1>1. /\ DOMAIN t = DOMAIN s \cup {k} /\ t \in [DOMAIN s \cup {k} -> InvoiceRows]
        /\ t[k] = entry /\ \A x \in DOMAIN s \ {k} : t[x] = s[x]
    BY <1>0 DEF StagedAlso
  <1> HIDE DEF t
  <1>2. t \in Stagings
    <2>1. DOMAIN s \cup {k} \in SUBSET Invoices
      BY <1>0
    <2> QED
      BY <1>1, <2>1 DEF Stagings
  <1>3. \A x \in Invoices : inv[x].total \in Int /\ SeenIn(s, x).total \in Int
    BY <1>0 DEF TablesOK, InvoiceRows, SeenIn
  <1>4. \A x \in Invoices : Moves(s)[x] = SeenIn(s, x).total - inv[x].total
    BY DEF Moves
  <1>5. \A x \in Invoices : Moves(t)[x] = SeenIn(t, x).total - inv[x].total
    BY DEF Moves
  <1>6. \A x \in Invoices \ {k} : SeenIn(t, x) = SeenIn(s, x)
    BY <1>1 DEF SeenIn
  <1>7. SeenIn(t, k) = entry
    BY <1>1 DEF SeenIn
  <1>8. Ints(Moves(s), Invoices) /\ Moves(t)[k] \in Int /\ Moves(s)[k] \in Int
        /\ Moves(t)[k] = Moves(s)[k] + (entry.total - SeenIn(s, k).total)
        /\ SeenIn(s, k).total \in Int /\ entry.total \in Int
    <2>1. entry.total \in Int
      BY DEF InvoiceRows
    <2>2. Moves(t)[k] = entry.total - inv[k].total /\ Moves(s)[k] = SeenIn(s, k).total - inv[k].total
      BY <1>4, <1>5, <1>7
    <2>3. Ints(Moves(s), Invoices) /\ inv[k].total \in Int /\ SeenIn(s, k).total \in Int
      BY <1>3, <1>4 DEF Ints
    <2> QED
      BY <2>1, <2>2, <2>3
  <1>9. \A x \in Invoices \ {k} : Moves(t)[x] = Moves(s)[x]
    BY <1>4, <1>5, <1>6
  <1>10. SumFunctionOnSet(Moves(t), Invoices) = SumFunctionOnSet(Moves(s), Invoices) - Moves(s)[k] + Moves(t)[k]
    BY <1>8, <1>9, InvoicesFinite, SumChanges
  <1>11. SumFunctionOnSet(Moves(s), Invoices) \in Int
    BY <1>8, InvoicesFinite, SumType
  <1> QED
    BY <1>1, <1>2, <1>8, <1>10, <1>11 DEF t

\* The row a step stages: it exists and holds d cents more.
LEMMA StagedRow ==
    ASSUME TablesOK, NEW s \in Stagings, \A x \in DOMAIN s : s[x].ver # 0, NEW k \in Invoices, NEW d \in Int,
           NEW old, old = SeenIn(s, k),
           NEW entry, entry = Applied(IF old.ver = 0 THEN [total |-> 0, ver |-> 1] ELSE old, d)
    PROVE  entry \in InvoiceRows /\ entry.ver # 0 /\ entry.total = SeenIn(s, k).total + d
  <1>1. old \in InvoiceRows /\ (old.ver = 0 => old.total = 0)
    BY DEF Stagings, TablesOK, SeenIn
  <1>2. old.total \in Int /\ old.ver \in Nat
    BY <1>1 DEF InvoiceRows
  <1>3. CASE old.ver = 0
    <2>1. entry = Applied([total |-> 0, ver |-> 1], d)
      BY <1>3
    <2> QED
      BY <1>1, <1>2, <1>3, <2>1 DEF Applied, InvoiceRows
  <1>4. CASE old.ver # 0
    <2>1. entry = Applied(old, d)
      BY <1>4
    <2> QED
      BY <1>1, <1>2, <1>4, <2>1 DEF Applied, InvoiceRows
  <1> QED
    BY <1>3, <1>4

LEMMA BuildItemKeeps ==
    ASSUME LedgerInv, NEW r \in Requests, BuildItem(r)
    PROVE  LedgerInv'
  <1> DEFINE j == job[r]
             s == staged[r]
             k == <<j.in.card, NewMonths(j)[j.part]>>
             d == IF j.op = "create" THEN NewAmounts(j)[j.part] ELSE 0
             old == SeenIn(s, k)
             entry == Applied(IF old.ver = 0 THEN [total |-> 0, ver |-> 1] ELSE old, d)
             t == StagedAlso(s, k, entry)
             n == [j EXCEPT !.part = @ + 1]
  <1>1. /\ JobOK(j) /\ j \in Jobs /\ s \in Stagings /\ LocalOK("build", j, s) /\ ReadOK("build", j)
        /\ MovedOK("build", j, s) /\ "build" \in InTx /\ "build" \in Places /\ pc[r] = "build"
    BY RequestFacts DEF BuildItem, InTx, Places
  <1>2. /\ HasItems(j) /\ j.op # "delete" /\ j.part \in 1..(j.in.parts + 1) /\ j.in.credit
        /\ j.part <= j.in.parts /\ j.in.parts \in Nat
    <2>1. HasItems(j) /\ j.op # "delete" /\ j.part \in 1..(j.in.parts + 1)
      BY <1>1 DEF LocalOK
    <2>2. j.in.credit /\ j.part <= j.in.parts
      BY <2>1 DEF HasItems, BuildItem
    <2>3. j.in.parts \in Nat
      BY <1>1, InputFacts, LedgerConstants
    <2> QED
      BY <2>1, <2>2, <2>3
  <1>3. j.part \in 1..j.in.parts /\ j.part \in Nat
    BY <1>2
  <1>4. NewMonths(j)[j.part] \in Months /\ NewAmounts(j)[j.part] \in Nat /\ j.in.card \in Cards
    BY <1>1, <1>2, <1>3, NewFacts, InputFacts
  <1>5. k \in Invoices /\ d \in Int /\ k[2] = NewMonths(j)[j.part]
    BY <1>4 DEF Invoices
  <1>6. k[2] \in DeltaMonths(j)
    BY <1>2, <1>3, <1>5 DEF DeltaMonths
  <1>7. pc' = [pc EXCEPT ![r] = "build"] /\ job' = [job EXCEPT ![r] = n] /\ staged' = [staged EXCEPT ![r] = t]
    <2>1. Seen(r, k) = old
      BY DEF Seen, SeenIn
    <2>2. Applied(Upserted(r, k), d) = entry
      BY <2>1 DEF Upserted
    <2>3. staged' = Stage(r, k, entry) /\ job' = [job EXCEPT ![r] = n] /\ pc' = pc
      BY <2>2 DEF BuildItem
    <2> HIDE DEF entry, k
    <2>4. Stage(r, k, entry) = [staged EXCEPT ![r] = t]
      BY DEF Stage, StagedAlso
    <2> QED
      BY <1>1, <2>3, <2>4 DEF LedgerInv, RequestsTyped
  <1>8. \A q \in Requests \ {r} : k \notin DOMAIN staged[q]
    BY DEF BuildItem, InvoiceLocked
  <1>9. UNCHANGED <<tx, items, inv, event>>
    BY DEF BuildItem
  <1>10. /\ n \in Jobs /\ n.op = j.op /\ n.in = j.in /\ n.row = j.row /\ n.old = j.old /\ n.id = j.id
         /\ n.part = j.part + 1 /\ n.todo = j.todo
    <2>1. j.part + 1 \in Nat
      BY <1>3
    <2> HIDE DEF j
    <2> QED
      BY <1>1, <2>1 DEF Jobs
  <1> HIDE DEF k, d, n
  <1>11. entry \in InvoiceRows /\ entry.ver # 0 /\ entry.total = SeenIn(s, k).total + d
    <2>1. TablesOK /\ \A x \in DOMAIN s : s[x].ver # 0
      BY <1>1 DEF LedgerInv, LocalOK
    <2>2. entry = Applied(IF old.ver = 0 THEN [total |-> 0, ver |-> 1] ELSE old, d)
      OBVIOUS
    <2>3. old = SeenIn(s, k)
      OBVIOUS
    <2> HIDE DEF old, entry, s
    <2> QED
      BY <1>1, <1>5, <2>1, <2>2, <2>3, StagedRow
  <1> HIDE DEF entry
  <1>12. /\ t \in Stagings /\ DOMAIN t = DOMAIN s \cup {k}
         /\ SumFunctionOnSet(Moves(t), Invoices) = SumFunctionOnSet(Moves(s), Invoices) + d
         /\ SumFunctionOnSet(Moves(s), Invoices) \in Int
         /\ t[k] = entry /\ \A x \in DOMAIN s \ {k} : t[x] = s[x]
    <2>1. TablesOK
      BY DEF LedgerInv
    <2>2. s \in Stagings /\ k \in Invoices /\ d \in Int
      BY <1>1, <1>5
    <2> HIDE DEF s, j
    <2>3. /\ t \in Stagings /\ DOMAIN t = DOMAIN s \cup {k}
          /\ SumFunctionOnSet(Moves(t), Invoices)
               = SumFunctionOnSet(Moves(s), Invoices) + (entry.total - SeenIn(s, k).total)
          /\ SumFunctionOnSet(Moves(s), Invoices) \in Int
          /\ SeenIn(s, k).total \in Int /\ entry.total \in Int
          /\ t[k] = entry /\ \A x \in DOMAIN s \ {k} : t[x] = s[x]
      BY <1>11, <2>1, <2>2, StagesRow
    <2> HIDE DEF t
    <2> QED
      BY <1>11, <2>2, <2>3
  <1>13. /\ HasItems(n) = HasItems(j) /\ DeltaMonths(n) = DeltaMonths(j) /\ Deltas(n) = Deltas(j)
         /\ NewAmounts(n) = NewAmounts(j) /\ JobOK(n)
    BY <1>1, <1>10, SameCommand
  <1>14. \A x \in DOMAIN t : t[x].ver # 0 /\ x[2] \in DeltaMonths(n)
    <2> HIDE DEF t
    <2> QED
      BY <1>1, <1>6, <1>11, <1>12, <1>13 DEF LocalOK
  <1> HIDE DEF t
  <1>15. LocalOK("build", n, t)
    <2>1. n.part \in 1..(n.in.parts + 1)
      BY <1>2, <1>3, <1>10
    <2> QED
      BY <1>1, <1>2, <1>10, <1>13, <1>14, <2>1 DEF LocalOK
  <1>16. ReadOK("build", n)
    BY <1>1, <1>10 DEF ReadOK
  <1>17. MovedOK("build", n, t)
    <2>1. SumFunctionOnSet(Moves(s), Invoices) = Done(j)
      BY <1>1, <1>2 DEF MovedOK
    <2>2. Done(n) = Done(j) + d
      <3>1. CASE j.op = "create"
        <4> DEFINE S == 1..j.part
        <4>1. /\ 1..(n.part - 1) = S /\ S \ {j.part} = 1..(j.part - 1) /\ j.part \in S
              /\ S \in SUBSET (1..j.in.parts)
          BY <1>2, <1>3, <1>10
        <4>2. IsFiniteSet(S) /\ Ints(NewAmounts(j), S)
          BY <1>1, <4>1, NewFacts, FS_Subset DEF Ints
        <4> HIDE DEF S
        <4>3. SumFunctionOnSet(NewAmounts(j), S) = NewAmounts(j)[j.part] + SumFunctionOnSet(NewAmounts(j), S \ {j.part})
          BY <4>1, <4>2, SumSplit
        <4>4. Done(j) = SumFunctionOnSet(NewAmounts(j), S \ {j.part})
          BY <3>1, <4>1 DEF Done
        <4>5. Done(n) = SumFunctionOnSet(NewAmounts(j), S)
          BY <1>10, <1>13, <3>1, <4>1 DEF Done
        <4>6. Done(j) \in Int /\ d = NewAmounts(j)[j.part]
          BY <1>12, <2>1, <3>1 DEF d
        <4> QED
          BY <1>4, <4>3, <4>4, <4>5, <4>6
      <3>2. CASE j.op # "create"
        <4>1. Done(n) = Done(j) /\ d = 0 /\ Done(j) \in Int
          BY <1>10, <1>12, <1>13, <2>1, <3>2 DEF Done, d
        <4> QED
          BY <4>1
      <3> QED
        BY <3>1, <3>2
    <2> QED
      BY <1>12, <2>1, <2>2 DEF MovedOK
  <1>18. \A q \in Requests \ {r} : DOMAIN staged[q] \cap DOMAIN t = {}
    BY <1>8, <1>12 DEF LedgerInv, Locks
  <1>19. \A q \in Requests \ {r} : pc[q] \in InTx => job[q].id # n.id
    BY <1>1, <1>10 DEF LedgerInv, Locks
  <1> HIDE DEF j, s
  <1> QED
    BY <1>1, <1>7, <1>9, <1>10, <1>12, <1>15, <1>16, <1>17, <1>18, <1>19, StepsAlone

LEMMA DeltaCardIsCard ==
    ASSUME NEW j, JobOK(j), HasItems(j)
    PROVE  DeltaCard(j) \in Cards
  <1>1. CASE j.op = "delete"
    <2>1. LiveIn(j.old) # {}
      BY <1>1 DEF HasItems, OldParts
    <2> QED
      BY <1>1, <2>1 DEF DeltaCard, JobOK, Billed
  <1>2. CASE j.op # "delete"
    BY <1>2, InputFacts DEF HasItems, DeltaCard
  <1> QED
    BY <1>1, <1>2

\* A step that only goes on to another place in the transaction.
LEMMA GoesOn ==
    ASSUME LedgerInv, NEW r \in Requests, NEW p \in InTx, NEW n \in Jobs, pc[r] \in InTx,
           n.op = job[r].op, n.in = job[r].in, n.row = job[r].row, n.old = job[r].old,
           n.id = job[r].id, n.part = job[r].part, n.todo = job[r].todo,
           pc' = [pc EXCEPT ![r] = p], job' = [job EXCEPT ![r] = n],
           UNCHANGED <<tx, items, inv, event, staged>>,
           LocalOK(p, n, staged[r])
    PROVE  LedgerInv'
  <1> DEFINE j == job[r]
             s == staged[r]
  <1>1. /\ JobOK(j) /\ s \in Stagings /\ ReadOK(pc[r], j) /\ MovedOK(pc[r], j, s) /\ p \in Places
        /\ pc[r] # "idle"
    BY RequestFacts DEF InTx, Places
  <1>2. /\ HasItems(n) = HasItems(j) /\ Deltas(n) = Deltas(j) /\ NewAmounts(n) = NewAmounts(j)
    BY SameCommand
  <1>3. ReadOK(p, n)
    BY <1>1 DEF ReadOK
  <1>4. Done(n) = Done(j)
    BY <1>2 DEF Done
  <1>5. MovedOK(p, n, s)
    BY <1>1, <1>2, <1>4 DEF MovedOK
  <1>6. staged' = [staged EXCEPT ![r] = s]
    BY DEF LedgerInv, RequestsTyped
  <1>7. \A q \in Requests \ {r} : /\ DOMAIN staged[q] \cap DOMAIN s = {}
                                  /\ pc[q] \in InTx => job[q].id # n.id
    BY DEF LedgerInv, Locks
  <1> HIDE DEF s
  <1> QED
    BY <1>1, <1>3, <1>5, <1>6, <1>7, StepsAlone DEF s

LEMMA ItemsBuiltKeeps ==
    ASSUME LedgerInv, NEW r \in Requests, ItemsBuilt(r)
    PROVE  LedgerInv'
  <1> DEFINE j == job[r]
             p == IF j.op = "create" THEN "commit" ELSE "deltas"
  <1>1. CASE ~ItemsStorable(j)
    BY <1>1, RollbackKeeps DEF ItemsBuilt
  <1>2. CASE ItemsStorable(j)
    <2>1. /\ pc[r] = "build" /\ pc' = [pc EXCEPT ![r] = p] /\ UNCHANGED <<tx, items, inv, event, job, staged>>
          /\ job' = [job EXCEPT ![r] = j]
      BY <1>2 DEF ItemsBuilt, Goto, LedgerInv, RequestsTyped
    <2>2. LocalOK("build", j, staged[r]) /\ j \in Jobs /\ JobOK(j) /\ "build" \in InTx /\ p \in InTx
      BY <2>1, RequestFacts DEF InTx
    <2>3. j.op = "create" => j.part = j.in.parts + 1
      <3>1. j.part \in 1..(j.in.parts + 1) /\ j.part > j.in.parts
        BY <2>2 DEF LocalOK, ItemsBuilt
      <3>2. j.in.parts \in Nat
        BY <2>2, InputFacts, LedgerConstants
      <3> QED
        BY <3>1, <3>2
    <2>4. p \in {"commit", "deltas"} /\ (p = "commit" <=> j.op = "create")
      OBVIOUS
    <2> HIDE DEF p
    <2>5. LocalOK(p, j, staged[r])
      BY <1>2, <2>2, <2>3, <2>4 DEF LocalOK
    <2> HIDE DEF j
    <2> QED
      BY <2>1, <2>2, <2>5, GoesOn DEF j
  <1> QED
    BY <1>1, <1>2

LEMMA GetByMonthKeeps ==
    ASSUME LedgerInv, NEW r \in Requests, NEW m \in Months, GetByMonth(r, m)
    PROVE  LedgerInv'
  <1> DEFINE j == job[r]
             entry == Seen(r, <<DeltaCard(j), m>>)
             n == [j EXCEPT !.at = m, !.seen = entry.ver]
  <1>1. CASE entry.ver = 0
    BY <1>1, RollbackKeeps DEF GetByMonth
  <1>2. CASE entry.ver # 0
    <2>1. /\ pc[r] = "deltas" /\ pc' = [pc EXCEPT ![r] = "apply"] /\ m \in j.todo
          /\ UNCHANGED <<tx, items, inv, event, staged>> /\ job' = [job EXCEPT ![r] = n]
      BY <1>2 DEF GetByMonth, Goto
    <2>2. LocalOK("deltas", j, staged[r]) /\ j \in Jobs /\ JobOK(j) /\ {"deltas", "apply"} \subseteq InTx
      BY <2>1, RequestFacts DEF InTx
    <2>3. <<DeltaCard(j), m>> \in Invoices
      <3>1. DeltaCard(j) \in Cards
        BY <2>2, DeltaCardIsCard DEF LocalOK
      <3> QED
        BY <3>1 DEF Invoices
    <2>4. entry.ver \in Nat
      <3>1. entry \in InvoiceRows
        BY <2>3 DEF Seen, LedgerInv, TablesOK, RequestsTyped, Stagings
      <3> QED
        BY <3>1 DEF InvoiceRows
    <2> HIDE DEF entry
    <2>5. /\ n \in Jobs /\ n.op = j.op /\ n.in = j.in /\ n.row = j.row /\ n.old = j.old /\ n.id = j.id
          /\ n.part = j.part /\ n.todo = j.todo /\ n.at = m /\ n.seen = entry.ver
      BY <2>2, <2>4 DEF Jobs
    <2> HIDE DEF n
    <2>6. /\ HasItems(n) = HasItems(j) /\ DeltaMonths(n) = DeltaMonths(j) /\ JobOK(n)
          /\ (ItemsStorable(n) <=> ItemsStorable(j))
      BY <2>2, <2>5, SameCommand
    <2>7. LocalOK("apply", n, staged[r])
      BY <1>2, <2>1, <2>2, <2>5, <2>6 DEF LocalOK
    <2> QED
      BY <2>1, <2>2, <2>5, <2>7, GoesOn
  <1> QED
    BY <1>1, <1>2

LEMMA DeltasAppliedKeeps ==
    ASSUME LedgerInv, NEW r \in Requests, DeltasApplied(r)
    PROVE  LedgerInv'
  <1> DEFINE j == job[r]
  <1>1. /\ pc[r] = "deltas" /\ pc' = [pc EXCEPT ![r] = "commit"] /\ j.todo = {}
        /\ UNCHANGED <<tx, items, inv, event, job, staged>> /\ job' = [job EXCEPT ![r] = j]
    BY DEF DeltasApplied, Goto, LedgerInv, RequestsTyped
  <1>2. LocalOK("deltas", j, staged[r]) /\ j \in Jobs /\ {"deltas", "commit"} \subseteq InTx
    BY <1>1, RequestFacts DEF InTx
  <1>3. LocalOK("commit", j, staged[r])
    BY <1>1, <1>2 DEF LocalOK
  <1> HIDE DEF j
  <1> QED
    BY <1>1, <1>2, <1>3, GoesOn DEF j

LEMMA ApplyDeltaKeeps ==
    ASSUME LedgerInv, NEW r \in Requests, ApplyDelta(r)
    PROVE  LedgerInv'
  <1> DEFINE j == job[r]
             s == staged[r]
             k == <<DeltaCard(j), j.at>>
             d == Delta(j, j.at)
             old == SeenIn(s, k)
             entry == Applied(IF old.ver = 0 THEN [total |-> 0, ver |-> 1] ELSE old, d)
             t == StagedAlso(s, k, entry)
             n == [j EXCEPT !.todo = @ \ {j.at}]
  <1>0. Seen(r, k) = old
    BY DEF Seen, SeenIn
  <1>1. CASE old.ver # j.seen
    BY <1>0, <1>1, RollbackKeeps DEF ApplyDelta
  <1>2. CASE old.ver = j.seen
    <2>1. /\ JobOK(j) /\ j \in Jobs /\ s \in Stagings /\ LocalOK("apply", j, s) /\ ReadOK("apply", j)
          /\ MovedOK("apply", j, s) /\ {"apply", "deltas"} \subseteq InTx /\ "deltas" \in Places
          /\ pc[r] = "apply"
      BY RequestFacts DEF ApplyDelta, InTx, Places
    <2>2. HasItems(j) /\ j.op # "create" /\ j.at \in j.todo /\ j.seen # 0 /\ j.todo \subseteq DeltaMonths(j)
      BY <2>1 DEF LocalOK
    <2>3. j.at \in Months /\ j.todo \subseteq Months
      BY <2>1, <2>2, DeltaMonthsAreMonths
    <2>4. k \in Invoices /\ k[2] = j.at /\ k[2] \in DeltaMonths(j)
      <3>1. DeltaCard(j) \in Cards
        BY <2>1, <2>2, DeltaCardIsCard
      <3> QED
        BY <2>2, <2>3, <3>1 DEF Invoices
    <2>5. d \in Int
      BY <2>1, ByRefFacts
    <2>6. pc' = [pc EXCEPT ![r] = "deltas"] /\ job' = [job EXCEPT ![r] = n] /\ staged' = [staged EXCEPT ![r] = t]
      <3>1. entry = Applied(old, d)
        BY <1>2, <2>2
      <3>2. staged' = Stage(r, k, entry) /\ job' = [job EXCEPT ![r] = n] /\ pc' = [pc EXCEPT ![r] = "deltas"]
        BY <1>0, <1>2, <3>1 DEF ApplyDelta, Goto
      <3> HIDE DEF entry, k
      <3>3. Stage(r, k, entry) = [staged EXCEPT ![r] = t]
        BY DEF Stage, StagedAlso
      <3> QED
        BY <3>2, <3>3
    <2>7. \A q \in Requests \ {r} : k \notin DOMAIN staged[q]
      BY DEF ApplyDelta, InvoiceLocked
    <2>8. UNCHANGED <<tx, items, inv, event>>
      BY <1>0, <1>2 DEF ApplyDelta
    <2>9. /\ n \in Jobs /\ n.op = j.op /\ n.in = j.in /\ n.row = j.row /\ n.old = j.old /\ n.id = j.id
          /\ n.part = j.part /\ n.todo = j.todo \ {j.at}
      <3>1. j.todo \ {j.at} \in SUBSET Months
        BY <2>3
      <3> HIDE DEF j
      <3> QED
        BY <2>1, <3>1 DEF Jobs
    <2> HIDE DEF k, d, n
    <2>10. entry \in InvoiceRows /\ entry.ver # 0 /\ entry.total = SeenIn(s, k).total + d
      <3>1. TablesOK /\ \A x \in DOMAIN s : s[x].ver # 0
        BY <2>1 DEF LedgerInv, LocalOK
      <3>2. entry = Applied(IF old.ver = 0 THEN [total |-> 0, ver |-> 1] ELSE old, d)
        OBVIOUS
      <3>3. old = SeenIn(s, k)
        OBVIOUS
      <3> HIDE DEF old, entry, s
      <3> QED
        BY <2>1, <2>4, <2>5, <3>1, <3>2, <3>3, StagedRow
    <2> HIDE DEF entry
    <2>11. /\ t \in Stagings /\ DOMAIN t = DOMAIN s \cup {k}
           /\ SumFunctionOnSet(Moves(t), Invoices) = SumFunctionOnSet(Moves(s), Invoices) + d
           /\ SumFunctionOnSet(Moves(s), Invoices) \in Int
           /\ t[k] = entry /\ \A x \in DOMAIN s \ {k} : t[x] = s[x]
      <3>1. TablesOK
        BY DEF LedgerInv
      <3>2. s \in Stagings /\ k \in Invoices /\ d \in Int
        BY <2>1, <2>4, <2>5
      <3> HIDE DEF s, j
      <3>3. /\ t \in Stagings /\ DOMAIN t = DOMAIN s \cup {k}
            /\ SumFunctionOnSet(Moves(t), Invoices)
                 = SumFunctionOnSet(Moves(s), Invoices) + (entry.total - SeenIn(s, k).total)
            /\ SumFunctionOnSet(Moves(s), Invoices) \in Int
            /\ SeenIn(s, k).total \in Int /\ entry.total \in Int
            /\ t[k] = entry /\ \A x \in DOMAIN s \ {k} : t[x] = s[x]
        BY <2>10, <3>1, <3>2, StagesRow
      <3> HIDE DEF t
      <3> QED
        BY <2>10, <3>2, <3>3
    <2>12. /\ HasItems(n) = HasItems(j) /\ DeltaMonths(n) = DeltaMonths(j) /\ Deltas(n) = Deltas(j)
           /\ JobOK(n) /\ (ItemsStorable(n) <=> ItemsStorable(j))
      BY <2>1, <2>9, SameCommand
    <2>13. \A x \in DOMAIN t : t[x].ver # 0 /\ x[2] \in DeltaMonths(n)
      <3> HIDE DEF t
      <3> QED
        BY <2>1, <2>4, <2>10, <2>11, <2>12 DEF LocalOK
    <2> HIDE DEF t
    <2>14. LocalOK("deltas", n, t)
      BY <2>1, <2>2, <2>9, <2>12, <2>13 DEF LocalOK
    <2>15. ReadOK("deltas", n)
      BY <2>1, <2>9 DEF ReadOK
    <2>16. MovedOK("deltas", n, t)
      <3>1. SumFunctionOnSet(Moves(s), Invoices) = Done(j)
        BY <2>1, <2>2 DEF MovedOK
      <3> DEFINE all == SumFunctionOnSet(Deltas(j), Months)
                 R == j.todo
                 rest == SumFunctionOnSet(Deltas(j), R \ {j.at})
      <3>2. Ints(Deltas(j), Months) /\ IsFiniteSet(R) /\ Ints(Deltas(j), R) /\ Deltas(j)[j.at] = d
        BY <2>1, <2>3, ByRefFacts, LedgerConstants, FS_Subset DEF Ints, Deltas, d
      <3>3. SumFunctionOnSet(Deltas(j), R) = Deltas(j)[j.at] + rest
        BY <2>2, <3>2, SumSplit
      <3>4. all \in Int /\ rest \in Int
        BY <3>2, LedgerConstants, FS_Subset, SumType DEF Ints
      <3>5. Done(j) = all - SumFunctionOnSet(Deltas(j), R) /\ Done(n) = all - rest
        BY <2>2, <2>9, <2>12 DEF Done
      <3> HIDE DEF all, rest
      <3>6. Done(n) = Done(j) + d
        BY <2>5, <3>2, <3>3, <3>4, <3>5
      <3> QED
        BY <2>11, <3>1, <3>6 DEF MovedOK
    <2>17. \A q \in Requests \ {r} : DOMAIN staged[q] \cap DOMAIN t = {}
      BY <2>7, <2>11 DEF LedgerInv, Locks
    <2>18. \A q \in Requests \ {r} : pc[q] \in InTx => job[q].id # n.id
      BY <2>1, <2>9 DEF LedgerInv, Locks
    <2> HIDE DEF j, s
    <2> QED
      BY <2>1, <2>6, <2>8, <2>9, <2>11, <2>14, <2>15, <2>16, <2>17, <2>18, StepsAlone
  <1> QED
    BY <1>1, <1>2

-----------------------------------------------------------------------------
(* The commit.                                                              *)

\* The instalments a commit leaves.
NewItems(j) == IF HasItems(j) THEN ReplaceItems(j.old, j) ELSE j.old

LEMMA NewRowIsRow ==
    ASSUME NEW j, JobOK(j)
    PROVE  NewRow(j) \in TxRows /\ NewRow(j).state # "absent" /\ NewRow(j).ver = j.row.ver + 1
  <1>1. j.row \in TxRows /\ j.row.ver \in Nat /\ j.row.ver + 1 \in Nat /\ j.row.closing \in Nat
    BY DEF JobOK, Jobs, TxRows
  <1>2. CASE j.op = "delete"
    <2>1. NewRow(j) = [j.row EXCEPT !.state = "deleted", !.ver = @ + 1]
      BY <1>2 DEF NewRow
    <2> QED
      BY <1>1, <2>1 DEF TxRows
  <1>3. CASE j.op # "delete"
    <2> DEFINE closing == IF j.in.credit THEN SnapshotOf(j) ELSE 0
    <2>1. closing \in Nat
      <3>1. j.in.credit => j.in.card \in Cards
        BY InputFacts
      <3>2. Closing \in [Cards -> Nat]
        BY LedgerAssumption
      <3> QED
        BY <1>1, <3>1, <3>2 DEF SnapshotOf
    <2>2. NewRow(j) = [state |-> "live", ver |-> j.row.ver + 1, credit |-> j.in.credit,
                       card |-> j.in.card, month |-> j.in.month, parts |-> j.in.parts,
                       closing |-> closing, cents |-> j.in.cents]
      BY <1>3 DEF NewRow
    <2> HIDE DEF closing
    <2> QED
      BY <1>1, <2>1, <2>2, InputFacts DEF TxRows
  <1> QED
    BY <1>2, <1>3

LEMMA NewPurchase ==
    ASSUME NEW j, JobOK(j), HasItems(j) /\ j.op # "delete" => ItemsStorable(j),
           \A p \in LiveIn(j.old) : j.old[p].cents > 0
    PROVE  /\ NewItems(j) \in [1..MaxParts -> ItemRows] /\ Billed(NewRow(j), NewItems(j))
           /\ \A p \in LiveIn(NewItems(j)) : NewItems(j)[p].cents > 0
           /\ CentsIn(NewItems(j)) = IF HasItems(j) THEN NewCents(j) ELSE CentsIn(j.old)
  <1>0. j.old \in [1..MaxParts -> ItemRows]
    BY DEF JobOK, Jobs
  <1>1. CASE HasItems(j)
    <2> DEFINE rows == ReplaceItems(j.old, j)
    <2>1. /\ rows \in [1..MaxParts -> ItemRows] /\ CentsIn(rows) = NewCents(j)
          /\ LiveIn(rows) = IF j.op = "delete" THEN {} ELSE 1..j.in.parts
          /\ \A p \in LiveIn(rows) : rows[p].card = j.in.card /\ rows[p].cents > 0
      BY <1>1, ReplacedItems
    <2>2. NewItems(j) = rows
      BY <1>1 DEF NewItems
    <2> HIDE DEF rows
    <2>3. Billed(NewRow(j), rows)
      <3>1. CASE j.op = "delete"
        <4>1. NewRow(j).state = "deleted"
          BY <3>1 DEF NewRow, JobOK, Jobs, TxRows
        <4> QED
          BY <2>1, <3>1, <4>1 DEF Billed
      <3>2. CASE j.op # "delete"
        <4>1. j.in.credit /\ j.in.card \in Cards
          BY <1>1, <3>2, InputFacts DEF HasItems
        <4>2. /\ NewRow(j).state = "live" /\ NewRow(j).credit /\ NewRow(j).card = j.in.card
              /\ NewRow(j).parts = j.in.parts /\ NewRow(j).cents = j.in.cents
          BY <3>2, <4>1 DEF NewRow
        <4> QED
          BY <2>1, <3>2, <4>1, <4>2 DEF Billed, NewCents
      <3> QED
        BY <3>1, <3>2
    <2> QED
      BY <1>1, <2>1, <2>2, <2>3
  <1>2. CASE ~HasItems(j)
    <2>1. NewItems(j) = j.old
      BY <1>2 DEF NewItems
    <2>2. LiveIn(j.old) = {}
      <3>1. CASE j.op = "delete"
        BY <1>2, <3>1 DEF HasItems, OldParts
      <3>2. CASE j.op = "create"
        BY <3>2, NothingRead DEF JobOK
      <3>3. CASE j.op = "update"
        BY <1>2, <3>3 DEF JobOK, HasItems, Billed
      <3> QED
        BY <3>1, <3>2, <3>3 DEF JobOK
    <2>3. ~(NewRow(j).state = "live" /\ NewRow(j).credit)
      <3>1. CASE j.op = "delete"
        BY <3>1 DEF NewRow, JobOK, Jobs, TxRows
      <3>2. CASE j.op # "delete"
        BY <1>2, <3>2 DEF NewRow, HasItems
      <3> QED
        BY <3>1, <3>2
    <2> QED
      BY <1>0, <1>2, <2>1, <2>2, <2>3 DEF Billed
  <1> QED
    BY <1>1, <1>2

\* What a request has moved when it commits.
LEMMA MovedAtCommit ==
    ASSUME LedgerInv, NEW r \in Requests, pc[r] = "commit"
    PROVE  SumFunctionOnSet(Moves(staged[r]), Invoices) = CentsIn(NewItems(job[r])) - CentsIn(job[r].old)
  <1> DEFINE j == job[r]
             s == staged[r]
  <1>1. /\ JobOK(j) /\ LocalOK("commit", j, s) /\ ReadOK("commit", j) /\ MovedOK("commit", j, s)
        /\ "commit" \in InTx /\ j.id \in Ids
    BY RequestFacts DEF InTx
  <1>2. j.old \in [1..MaxParts -> ItemRows] /\ CentsIn(j.old) \in Int
    BY <1>1, OldFacts DEF JobOK, Jobs
  <1>3. CASE ~HasItems(j)
    <2>1. DOMAIN s = {} /\ NewItems(j) = j.old
      BY <1>1, <1>3 DEF LocalOK, NewItems
    <2>2. SumFunctionOnSet(Moves(s), Invoices) = 0
      BY <2>1, NothingMoved DEF LedgerInv
    <2> QED
      BY <1>2, <2>1, <2>2
  <1>4. CASE HasItems(j)
    <2>1. CentsIn(NewItems(j)) = NewCents(j)
      BY <1>1, <1>4, ReplacedItems DEF NewItems, LocalOK
    <2>2. SumFunctionOnSet(Moves(s), Invoices) = Done(j)
      BY <1>1, <1>4 DEF MovedOK
    <2>3. CASE j.op = "create"
      <3>1. j.part = j.in.parts + 1 /\ j.in.parts \in Nat /\ j.in.credit /\ CentsIn(j.old) = 0
        BY <1>1, <1>4, <2>3, InputFacts, LedgerConstants, NothingRead DEF LocalOK, HasItems, JobOK
      <3>2. j.part - 1 = j.in.parts
        BY <3>1
      <3>3. Done(j) = j.in.cents /\ NewCents(j) = j.in.cents /\ j.in.cents \in Nat
        BY <1>1, <2>3, <3>1, <3>2, NewFacts, InputFacts DEF Done, NewCents
      <3> QED
        BY <2>1, <2>2, <3>1, <3>3
    <2>4. CASE j.op # "create"
      <3>1. j.todo = {}
        BY <1>1, <1>4, <2>4 DEF LocalOK
      <3> DEFINE all == SumFunctionOnSet(Deltas(j), Months)
      <3>2. Done(j) = all - 0
        BY <2>4, <3>1, SumOfNone DEF Done
      <3>3. all = NewCents(j) - CentsIn(j.old) /\ NewCents(j) \in Int
        BY <1>1, DeltasAdd, InputFacts DEF NewCents
      <3> HIDE DEF all
      <3> QED
        BY <1>2, <2>1, <2>2, <3>2, <3>3
    <2> QED
      BY <2>3, <2>4
  <1> QED
    BY <1>3, <1>4

\* What Commit does, in these terms.
LEMMA CommitIs ==
    ASSUME LedgerInv, NEW r \in Requests, Commit(r)
    PROVE  /\ pc[r] = "commit" /\ JobOK(job[r]) /\ LocalOK("commit", job[r], staged[r])
           /\ job[r].id \in Ids /\ "commit" \in InTx /\ staged[r] \in Stagings
           /\ tx[job[r].id] = job[r].row /\ items[job[r].id] = job[r].old
           /\ tx' = [tx EXCEPT ![job[r].id] = NewRow(job[r])]
           /\ items' = [items EXCEPT ![job[r].id] = NewItems(job[r])]
           /\ inv' = [k \in Invoices |-> SeenIn(staged[r], k)]
           /\ event' = Affected(job[r])
           /\ pc' = [pc EXCEPT ![r] = "idle"] /\ job' = [job EXCEPT ![r] = NoJob]
           /\ staged' = [staged EXCEPT ![r] = <<>>]
  <1>1. /\ pc[r] = "commit" /\ JobOK(job[r]) /\ LocalOK("commit", job[r], staged[r])
        /\ job[r].id \in Ids /\ "commit" \in InTx /\ staged[r] \in Stagings /\ ReadOK("commit", job[r])
    BY RequestFacts DEF Commit, InTx
  <1>2. tx[job[r].id] = job[r].row /\ items[job[r].id] = job[r].old
    BY <1>1 DEF ReadOK
  <1>3. items' = [items EXCEPT ![job[r].id] = NewItems(job[r])]
    <2>1. items' = [items EXCEPT ![job[r].id] = IF HasItems(job[r]) THEN ReplaceItems(items[job[r].id], job[r])
                                               ELSE items[job[r].id]]
      BY DEF Commit
    <2> QED
      BY <1>2, <2>1 DEF NewItems
  <1>4. inv' = [k \in Invoices |-> SeenIn(staged[r], k)]
    BY DEF Commit, Seen, SeenIn
  <1>5. /\ tx' = [tx EXCEPT ![job[r].id] = NewRow(job[r])] /\ event' = Affected(job[r])
        /\ pc' = [pc EXCEPT ![r] = "idle"] /\ job' = [job EXCEPT ![r] = NoJob]
        /\ staged' = [staged EXCEPT ![r] = <<>>]
    BY DEF Commit, Goto
  <1> QED
    BY <1>1, <1>2, <1>3, <1>4, <1>5

LEMMA CommitKeeps ==
    ASSUME LedgerInv, NEW r \in Requests, Commit(r)
    PROVE  LedgerInv'
  <1> DEFINE j == job[r]
             s == staged[r]
  <1>0. TablesOK /\ RequestsTyped /\ Locks /\ TotalsConserved
    BY DEF LedgerInv
  <1>1. /\ pc[r] = "commit" /\ JobOK(j) /\ LocalOK("commit", j, s) /\ j.id \in Ids /\ "commit" \in InTx
        /\ s \in Stagings /\ tx[j.id] = j.row /\ items[j.id] = j.old
        /\ tx' = [tx EXCEPT ![j.id] = NewRow(j)] /\ items' = [items EXCEPT ![j.id] = NewItems(j)]
        /\ inv' = [k \in Invoices |-> SeenIn(s, k)] /\ event' = Affected(j)
        /\ pc' = [pc EXCEPT ![r] = "idle"] /\ job' = [job EXCEPT ![r] = NoJob]
        /\ staged' = [staged EXCEPT ![r] = <<>>]
    BY CommitIs
  <1>2. /\ tx'[j.id] = NewRow(j) /\ items'[j.id] = NewItems(j)
        /\ \A i \in Ids \ {j.id} : tx'[i] = tx[i] /\ items'[i] = items[i]
    BY <1>0, <1>1 DEF TablesOK
  <1>3. /\ pc'[r] = "idle" /\ job'[r] = NoJob /\ staged'[r] = <<>> /\ DOMAIN staged'[r] = {}
        /\ \A q \in Requests \ {r} : pc'[q] = pc[q] /\ job'[q] = job[q] /\ staged'[q] = staged[q]
    BY <1>0, <1>1, NothingStaged DEF RequestsTyped
  <1>4. /\ NewRow(j) \in TxRows /\ NewRow(j).state # "absent" /\ NewRow(j).ver = j.row.ver + 1
        /\ NewItems(j) \in [1..MaxParts -> ItemRows] /\ Billed(NewRow(j), NewItems(j))
        /\ \A p \in LiveIn(NewItems(j)) : NewItems(j)[p].cents > 0
    <2>1. \A p \in LiveIn(j.old) : j.old[p].cents > 0
      BY <1>0, <1>1 DEF TablesOK
    <2>2. HasItems(j) /\ j.op # "delete" => ItemsStorable(j)
      BY <1>1 DEF LocalOK
    <2> HIDE DEF j
    <2> QED
      BY <1>1, <2>1, <2>2, NewRowIsRow, NewPurchase
  <1>5. /\ \A k \in Invoices : SeenIn(s, k) \in InvoiceRows /\ inv'[k] = SeenIn(s, k)
        /\ \A k \in Invoices : SeenIn(s, k).ver = 0 => SeenIn(s, k).total = 0
    BY <1>0, <1>1 DEF TablesOK, Stagings, SeenIn, LocalOK
  <1>6. TablesOK'
    <2>1. tx' \in [Ids -> TxRows] /\ items' \in [Ids -> [1..MaxParts -> ItemRows]]
      BY <1>0, <1>1, <1>4 DEF TablesOK
    <2>2. inv' \in [Invoices -> InvoiceRows] /\ \A k \in Invoices : inv'[k].ver = 0 => inv'[k].total = 0
      BY <1>1, <1>5
    <2>3. event' \subseteq Months
      <3>1. j.row.month \in Months
        BY <1>1 DEF JobOK, Jobs, TxRows
      <3> QED
        BY <1>1, <3>1, DeltaMonthsAreMonths, InputFacts DEF Affected
    <2>4. ASSUME NEW i \in Ids
          PROVE  /\ Billed(tx'[i], items'[i]) /\ (tx'[i].state = "absent" => tx'[i] = NoTx /\ items'[i] = NoItems)
                 /\ \A p \in LiveIn(items'[i]) : items'[i][p].cents > 0
      <3>1. CASE i = j.id
        BY <1>2, <1>4, <3>1
      <3>2. CASE i # j.id
        BY <1>0, <1>2, <3>2 DEF TablesOK
      <3> QED
        BY <3>1, <3>2
    <2> QED
      BY <2>1, <2>2, <2>3, <2>4 DEF TablesOK
  <1>7. RequestsTyped'
    BY <1>0, <1>1, NothingRead, NothingStaged DEF RequestsTyped, Places
  <1>8. Locks'
    <2>1. "idle" \notin InTx
      BY DEF InTx
    <2> QED
      BY <1>0, <1>3, <2>1 DEF Locks
  <1>9. TotalsConserved'
    <2> DEFINE T == [k \in Invoices |-> inv[k].total]
               U == [k \in Invoices |-> inv'[k].total]
               C == [i \in Ids |-> CentsOf(i)]
               D == [i \in Ids |-> CentsOf(i)']
    <2>1. /\ TotalsConserved <=> SumFunctionOnSet(T, Invoices) = SumFunctionOnSet(C, Ids)
          /\ TotalsConserved' <=> SumFunctionOnSet(U, Invoices) = SumFunctionOnSet(D, Ids)
      BY DEF TotalsConserved, SumFunction
    <2>2. \A i \in Ids : C[i] = CentsIn(items[i]) /\ D[i] = CentsIn(items'[i])
      BY DEF CentsOf, LiveParts, CentsIn
    <2>3. \A k \in Invoices : inv[k].total \in Int /\ SeenIn(s, k).total \in Int
      BY <1>0, <1>5 DEF TablesOK, InvoiceRows
    <2>4. /\ \A k \in Invoices : U[k] = T[k] + Moves(s)[k]
          /\ Ints(T, Invoices) /\ Ints(Moves(s), Invoices)
      BY <1>5, <2>3 DEF Ints, Moves
    <2>5. Ints(C, Ids)
      BY <1>0, <2>2, OldFacts DEF Ints, TablesOK
    <2>6. /\ D[j.id] = CentsIn(NewItems(j)) /\ C[j.id] = CentsIn(j.old)
          /\ D[j.id] \in Int /\ C[j.id] \in Int
          /\ \A i \in Ids \ {j.id} : D[i] = C[i]
      <3>1. CentsIn(NewItems(j)) \in Int
        BY <1>4, OldFacts
      <3> QED
        BY <1>1, <1>2, <2>2, <2>5, <3>1 DEF Ints
    <2>7. SumFunctionOnSet(Moves(s), Invoices) = CentsIn(NewItems(j)) - CentsIn(j.old)
      BY <1>1, MovedAtCommit
    <2> HIDE DEF T, U, C, D, j, s
    <2>8. SumFunctionOnSet(U, Invoices) = SumFunctionOnSet(T, Invoices) + SumFunctionOnSet(Moves(s), Invoices)
      BY <2>4, InvoicesFinite, SumAdds
    <2>9. SumFunctionOnSet(D, Ids) = SumFunctionOnSet(C, Ids) - C[j.id] + D[j.id]
      BY <1>1, <2>5, <2>6, LedgerConstants, SumChanges
    <2>10. SumFunctionOnSet(T, Invoices) \in Int /\ SumFunctionOnSet(C, Ids) \in Int
      BY <2>4, <2>5, InvoicesFinite, LedgerConstants, SumType
    <2> QED
      BY <1>0, <2>1, <2>6, <2>7, <2>8, <2>9, <2>10
  <1>10. ASSUME NEW q \in Requests
         PROVE  /\ LocalOK(pc'[q], job'[q], staged'[q]) /\ ReadOK(pc[q], job[q])'
                /\ MovedOK(pc[q], job[q], staged[q])'
    <2>1. CASE q = r
      BY <1>3, <2>1 DEF LocalOK, ReadOK, MovedOK, InTx
    <2>2. CASE q # r
      <3>0. pc'[q] = pc[q] /\ job'[q] = job[q] /\ staged'[q] = staged[q]
        BY <1>3, <2>2
      <3>1. /\ LocalOK(pc[q], job[q], staged[q]) /\ ReadOK(pc[q], job[q])
            /\ MovedOK(pc[q], job[q], staged[q]) /\ job[q] \in Jobs /\ job[q].id \in Ids
        BY RequestFacts
      <3>2. ReadOK(pc[q], job[q])'
        <4> DEFINE n == job[q]
        <4>1. CASE n.id # j.id
          BY <1>2, <3>0, <3>1, <4>1 DEF ReadOK
        <4>2. CASE n.id = j.id
          <5>1. pc[q] \notin InTx
            BY <1>0, <1>1, <2>2, <4>2 DEF Locks
          <5>2. tx[n.id].ver \in Nat /\ n.row.ver \in Nat /\ tx'[n.id].ver = tx[n.id].ver + 1
            <6>1. n.row.ver \in Nat
              BY <3>1 DEF Jobs, TxRows
            <6>2. tx[n.id].ver = j.row.ver /\ j.row.ver \in Nat
              BY <1>1, <4>2 DEF JobOK, Jobs, TxRows
            <6>3. tx'[n.id].ver = j.row.ver + 1
              BY <1>2, <1>4, <4>2
            <6> QED
              BY <6>1, <6>2, <6>3
          <5>3. pc[q] # "idle" /\ n.op # "create" => n.row.ver <= tx[n.id].ver
            BY <3>1 DEF ReadOK
          <5> HIDE DEF n
          <5>4. pc[q] # "idle" /\ n.op # "create" => n.row.ver <= tx'[n.id].ver /\ n.row.ver # tx'[n.id].ver
            BY <5>2, <5>3
          <5> QED
            BY <3>0, <5>1, <5>4 DEF ReadOK, n
        <4> QED
          BY <4>1, <4>2
      <3>3. Moves(staged[q])' = Moves(staged[q])
        <4> DEFINE u == staged[q]
        <4>1. DOMAIN u \cap DOMAIN s = {}
          BY <1>0, <2>2 DEF Locks
        <4>2. ASSUME NEW k \in Invoices
              PROVE  (IF k \in DOMAIN u THEN u[k] ELSE inv'[k]).total - inv'[k].total
                       = (IF k \in DOMAIN u THEN u[k] ELSE inv[k]).total - inv[k].total
          <5>1. CASE k \in DOMAIN u
            <6>1. inv'[k] = inv[k]
              BY <1>5, <4>1, <5>1 DEF SeenIn
            <6> QED
              BY <6>1
          <5>2. CASE k \notin DOMAIN u
            <6>1. inv[k].total \in Int /\ inv'[k].total \in Int
              BY <1>0, <1>6 DEF TablesOK, InvoiceRows
            <6> QED
              BY <5>2, <6>1
          <5> QED
            BY <5>1, <5>2
        <4> QED
          BY <3>0, <4>2 DEF Moves, SeenIn
      <3>4. MovedOK(pc[q], job[q], staged[q])'
        BY <3>0, <3>1, <3>3 DEF MovedOK
      <3> QED
        BY <3>0, <3>1, <3>2, <3>4
    <2> QED
      BY <2>1, <2>2
  <1> QED
    BY <1>6, <1>7, <1>8, <1>9, <1>10 DEF LedgerInv

LEMMA LedgerStep == LedgerInv /\ [LedgerNext]_ledgerVars => LedgerInv'
  <1> SUFFICES ASSUME LedgerInv, [LedgerNext]_ledgerVars PROVE LedgerInv'
    OBVIOUS
  <1>1. ASSUME NEW r \in Requests, NEW i \in Ids, DeleteTransaction(r, i) PROVE LedgerInv'
    BY <1>1, GetByIDKeeps DEF DeleteTransaction
  <1>2. ASSUME NEW r \in Requests, NEW i \in Ids, NEW in \in Inputs, UpdateTransaction(r, i, in) PROVE LedgerInv'
    BY <1>2, GetByIDKeeps DEF UpdateTransaction
  <1>3. ASSUME NEW r \in Requests, Reconcile(r) \/ VersionConflict(r) \/ Fail(r) PROVE LedgerInv'
    BY <1>3, RollbackKeeps DEF Reconcile, VersionConflict, Fail
  <1>4. CASE UNCHANGED ledgerVars
    <2>1. /\ TablesOK' /\ RequestsTyped' /\ Locks'
      BY <1>4 DEF ledgerVars, LedgerInv, TablesOK, RequestsTyped, Locks
    <2>2. TotalsConserved'
      BY <1>4 DEF ledgerVars, LedgerInv, TotalsConserved, CentsOf, LiveParts
    <2>3. \A r \in Requests : /\ LocalOK(pc[r], job[r], staged[r])' /\ ReadOK(pc[r], job[r])'
                              /\ MovedOK(pc[r], job[r], staged[r])'
      BY <1>4 DEF ledgerVars, LedgerInv, ReadOK, MovedOK, Moves, SeenIn
    <2> QED
      BY <2>1, <2>2, <2>3 DEF LedgerInv
  <1> QED
    BY <1>1, <1>2, <1>3, <1>4, CreateTransactionKeeps, CreateKeeps, UpdateWithVersionKeeps, BuildItemKeeps,
       ItemsBuiltKeeps, GetByMonthKeeps, ApplyDeltaKeeps, DeltasAppliedKeeps, CommitKeeps DEF LedgerNext

LEMMA LedgerInvariant == LedgerSpec => []LedgerInv
  BY LedgerInitially, LedgerStep, PTL DEF LedgerSpec

\* The tables of the transactions module keep their types under any
\* interleaving of creates, updates and deletes: no instalment without cents,
\* no month outside the bounds, no row staged for an unknown invoice.
THEOREM LedgerTypeCorrect == LedgerSpec => []LedgerTypeOK
  <1>1. LedgerInv => LedgerTypeOK
    <2> SUFFICES ASSUME LedgerInv PROVE LedgerTypeOK
      OBVIOUS
    <2>1. /\ tx \in [Ids -> TxRows] /\ items \in [Ids -> [1..MaxParts -> ItemRows]]
          /\ inv \in [Invoices -> InvoiceRows] /\ event \subseteq Months
          /\ \A i \in Ids, p \in 1..MaxParts : items[i][p].live => items[i][p].cents > 0
      BY DEF LedgerInv, TablesOK, LiveIn
    <2>2. pc \in [Requests -> {"idle", "write"} \cup InTx] /\ job \in [Requests -> Jobs]
      BY DEF LedgerInv, RequestsTyped, Places
    <2>3. \A r \in Requests : /\ DOMAIN staged[r] \subseteq Invoices
                              /\ \A k \in DOMAIN staged[r] : staged[r][k] \in InvoiceRows
      BY DEF LedgerInv, RequestsTyped, Stagings
    <2> QED
      BY <2>1, <2>2, <2>3 DEF LedgerTypeOK
  <1> QED
    BY <1>1, LedgerInvariant, PTL

\* Whatever requests run together, roll back or lose a version race, the
\* invoices together hold exactly the instalments of the live purchases, and
\* a live purchase is its instalments, in number, sum and card.
THEOREM InvoicesAreBilled == LedgerSpec => []InvoicesBillPurchases
  <1>1. LedgerInv => InvoicesBillPurchases
    <2> SUFFICES ASSUME LedgerInv PROVE PurchaseIsItsItems
      BY DEF LedgerInv, InvoicesBillPurchases
    <2>1. \A i \in Ids : Billed(tx[i], items[i])
      BY DEF LedgerInv, TablesOK
    <2>2. \A i \in Ids : LiveParts(i) = LiveIn(items[i]) /\ CentsOf(i) = CentsIn(items[i])
      BY DEF LiveParts, CentsOf, CentsIn
    <2> QED
      BY <2>1, <2>2 DEF PurchaseIsItsItems, Billed
  <1> QED
    BY <1>1, LedgerInvariant, PTL

-----------------------------------------------------------------------------
(* The months an event names.                                               *)

\* Only a commit changes what the summaries are computed from.
LEMMA OnlyCommitChanges ==
    ASSUME [LedgerNext]_ledgerVars
    PROVE  (\E r \in Requests : Commit(r)) \/ UNCHANGED <<tx, inv>>
  <1>1. \A r \in Requests : \A j : Begin(r, j) => UNCHANGED <<tx, inv>>
    BY DEF Begin
  <1>2. \A r \in Requests : Rollback(r) => UNCHANGED <<tx, inv>>
    BY DEF Rollback
  <1>3. \A r \in Requests : WriteRow(r) => UNCHANGED <<tx, inv>>
    BY DEF WriteRow
  <1>4. \A r \in Requests, i \in Ids : \A in :
          GetByID(r, i, "update", in) \/ GetByID(r, i, "delete", in) => UNCHANGED <<tx, inv>>
    BY <1>1, Zenon DEF GetByID
  <1>5. \A r \in Requests, i \in Ids : \A in :
          DeleteTransaction(r, i) \/ CreateTransaction(r, i, in) \/ UpdateTransaction(r, i, in) => UNCHANGED <<tx, inv>>
    BY <1>1, <1>4, Zenon DEF DeleteTransaction, CreateTransaction, UpdateTransaction
  <1>6. \A r \in Requests : Create(r) \/ UpdateWithVersion(r) \/ Reconcile(r) \/ VersionConflict(r) \/ Fail(r)
                          => UNCHANGED <<tx, inv>>
    BY <1>2, <1>3, Zenon DEF Create, UpdateWithVersion, Reconcile, VersionConflict, Fail
  <1>7. \A r \in Requests : BuildItem(r) \/ DeltasApplied(r) => UNCHANGED <<tx, inv>>
    BY DEF BuildItem, DeltasApplied
  <1>8. \A r \in Requests : ItemsBuilt(r) \/ (\E m \in Months : GetByMonth(r, m)) \/ ApplyDelta(r)
                          => UNCHANGED <<tx, inv>>
    <2>1. \A r \in Requests : ItemsBuilt(r) => UNCHANGED <<tx, inv>>
      BY <1>2, Zenon DEF ItemsBuilt
    <2>2. \A r \in Requests, m \in Months : GetByMonth(r, m) => UNCHANGED <<tx, inv>>
      BY <1>2, Zenon DEF GetByMonth
    <2>3. \A r \in Requests : ApplyDelta(r) => UNCHANGED <<tx, inv>>
      BY <1>2, Zenon DEF ApplyDelta
    <2> QED
      BY <2>1, <2>2, <2>3
  <1>9. UNCHANGED ledgerVars => UNCHANGED <<tx, inv>>
    BY DEF ledgerVars
  <1> QED
    BY <1>5, <1>6, <1>7, <1>8, <1>9, Zenon DEF LedgerNext

LEMMA CreditIsCovered ==
    ASSUME LedgerInv, NEW r \in Requests, Commit(r), NEW m \in Months, SumByMonth(m)' # SumByMonth(m)
    PROVE  m \in event'
  <1> DEFINE j == job[r]
             s == staged[r]
  <1>1. /\ LocalOK("commit", j, s) /\ "commit" \in InTx /\ event' = Affected(j)
        /\ inv' = [k \in Invoices |-> SeenIn(s, k)]
    BY CommitIs
  <1>2. PICK c \in Cards : inv'[<<c, m>>] # inv[<<c, m>>]
    <2> SUFFICES ASSUME \A c \in Cards : inv'[<<c, m>>] = inv[<<c, m>>] PROVE FALSE
      OBVIOUS
    <2>1. [c \in Cards |-> inv'[<<c, m>>].total] = [c \in Cards |-> inv[<<c, m>>].total]
      OBVIOUS
    <2> QED
      BY <2>1 DEF SumByMonth
  <1>3. <<c, m>> \in DOMAIN s
    <2>1. <<c, m>> \in Invoices
      BY DEF Invoices
    <2> QED
      BY <1>1, <1>2, <2>1 DEF SeenIn
  <1>4. HasItems(j) /\ <<c, m>>[2] \in DeltaMonths(j)
    BY <1>1, <1>3 DEF LocalOK
  <1> QED
    BY <1>1, <1>4 DEF Affected

\* The transactions the cash side of a month is summed over.
CashOf(rows, m) == {i \in Ids : rows[i].state = "live" /\ ~rows[i].credit /\ rows[i].month = m}

LEMMA CashIsCovered ==
    ASSUME LedgerInv, NEW r \in Requests, Commit(r), NEW m \in Months,
           SumExcludingCredit(m)' # SumExcludingCredit(m)
    PROVE  m \in event'
  <1> DEFINE j == job[r]
             C == [i \in Ids |-> tx[i].cents]
             D == [i \in Ids |-> tx'[i].cents]
  <1>1. /\ JobOK(j) /\ event' = Affected(j) /\ j.id \in Ids /\ tx[j.id] = j.row
        /\ tx' = [tx EXCEPT ![j.id] = NewRow(j)]
    BY CommitIs
  <1>2. tx'[j.id] = NewRow(j) /\ \A i \in Ids \ {j.id} : tx'[i] = tx[i]
    BY <1>1 DEF LedgerInv, TablesOK
  <1>3. j.id \in CashOf(tx, m) \/ j.id \in CashOf(tx', m)
    <2> SUFFICES ASSUME j.id \notin CashOf(tx, m), j.id \notin CashOf(tx', m)
                 PROVE  SumExcludingCredit(m)' = SumExcludingCredit(m)
      OBVIOUS
    <2>1. CashOf(tx', m) = CashOf(tx, m)
      BY <1>2 DEF CashOf
    <2>2. CashOf(tx, m) \in SUBSET Ids /\ \A i \in CashOf(tx, m) : D[i] = C[i]
      BY <1>2 DEF CashOf
    <2>3. /\ SumExcludingCredit(m) = SumFunctionOnSet(C, CashOf(tx, m))
          /\ SumExcludingCredit(m)' = SumFunctionOnSet(D, CashOf(tx', m))
      BY DEF SumExcludingCredit, CashOf
    <2> HIDE DEF C, D
    <2> QED
      BY <2>1, <2>2, <2>3, LedgerConstants, FS_Subset, SumExtends
  <1>4. CASE j.op = "create"
    <2>1. j.row = NoTx /\ j.id \notin CashOf(tx, m)
      BY <1>1, <1>4 DEF JobOK, CashOf, NoTx
    <2>2. ~NewRow(j).credit /\ NewRow(j).month = m
      BY <1>2, <1>3, <2>1 DEF CashOf
    <2>3. ~j.in.credit /\ j.in.month = m
      BY <1>4, <2>2 DEF NewRow
    <2> QED
      BY <1>1, <1>4, <2>3 DEF Affected, HasItems
  <1>5. CASE j.op = "update"
    <2>1. NewRow(j).credit = j.in.credit /\ NewRow(j).month = j.in.month /\ j.row.credit = j.in.credit
      BY <1>1, <1>5 DEF NewRow, JobOK
    <2>2. ~j.in.credit /\ m \in {j.row.month, j.in.month}
      BY <1>1, <1>2, <1>3, <2>1 DEF CashOf
    <2> QED
      BY <1>1, <1>5, <2>2 DEF Affected, HasItems
  <1>6. CASE j.op = "delete"
    <2>1. NewRow(j).state = "deleted"
      BY <1>1, <1>6 DEF NewRow, JobOK, Jobs, TxRows
    <2>2. ~j.row.credit /\ j.row.month = m
      BY <1>1, <1>2, <1>3, <2>1 DEF CashOf
    <2>3. OldParts(j) = {}
      BY <1>1, <2>2 DEF JobOK, Billed, OldParts
    <2> QED
      BY <1>1, <1>6, <2>2, <2>3 DEF Affected, HasItems
  <1> QED
    BY <1>1, <1>4, <1>5, <1>6 DEF JobOK

\* The event of a committed change names every month whose sums the change
\* moved, so that the projector recomputes it; a purchase that leaves a month
\* by an update or a delete counts there too.
THEOREM EventsCoverChanges == LedgerSpec => EventCoversChange
  <1>1. ASSUME LedgerInv, [LedgerNext]_ledgerVars, NEW m \in Months,
               SumExcludingCredit(m)' # SumExcludingCredit(m) \/ SumByMonth(m)' # SumByMonth(m)
        PROVE  m \in event'
    <2>1. CASE UNCHANGED <<tx, inv>>
      BY <1>1, <2>1 DEF SumExcludingCredit, SumByMonth
    <2>2. ASSUME NEW r \in Requests, Commit(r) PROVE m \in event'
      BY <1>1, <2>2, CreditIsCovered, CashIsCovered
    <2> QED
      BY <1>1, <2>1, <2>2, OnlyCommitChanges
  <1>2. LedgerInv /\ [LedgerNext]_ledgerVars =>
          [tx' # tx \/ inv' # inv => \A m \in Months :
              SumExcludingCredit(m)' # SumExcludingCredit(m) \/ SumByMonth(m)' # SumByMonth(m)
              => m \in event']_ledgerVars
    BY <1>1
  <1> QED
    BY <1>2, LedgerInvariant, PTL DEF LedgerSpec, EventCoversChange

-----------------------------------------------------------------------------
(* The ledger is a book of purchases.                                       *)

\* What the invoices of v charge, and what the purchases of t cost.
Charged(v) == SumFunction([k \in Invoices |-> v[k].total])
Owing(t) == [i \in Ids |-> Purchases!Owed(t[i])]

LEMMA OwedIsCents ==
    ASSUME NEW e \in TxRows, NEW rows \in [1..MaxParts -> ItemRows], Billed(e, rows)
    PROVE  Purchases!Owed(e) = CentsIn(rows) /\ Purchases!Owed(e) \in Int
  <1>1. e.cents \in Int /\ e.credit \in BOOLEAN
    BY DEF TxRows
  <1>2. CASE e.state = "live" /\ e.credit
    BY <1>1, <1>2 DEF Billed, Purchases!Owed
  <1>3. CASE ~(e.state = "live" /\ e.credit)
    <2>1. LiveIn(rows) = {}
      BY <1>3 DEF Billed
    <2>2. CentsIn(rows) = 0
      BY <2>1, SumOfNone DEF CentsIn
    <2> QED
      BY <1>3, <2>2 DEF Purchases!Owed
  <1> QED
    BY <1>2, <1>3

LEMMA OwedInAll ==
    ASSUME NEW t \in [Ids -> TxRows], NEW rows \in [Ids -> [1..MaxParts -> ItemRows]], NEW v,
           \A i \in Ids : Billed(t[i], rows[i]),
           Charged(v) = SumFunction([i \in Ids |-> CentsIn(rows[i])])
    PROVE  Charged(v) = SumFunctionOnSet(Owing(t), Ids) /\ Ints(Owing(t), Ids)
  <1>1. \A i \in Ids : Purchases!Owed(t[i]) = CentsIn(rows[i]) /\ Purchases!Owed(t[i]) \in Int
    BY OwedIsCents
  <1>2. Owing(t) = [i \in Ids |-> CentsIn(rows[i])] /\ Ints(Owing(t), Ids)
    BY <1>1 DEF Owing, Ints
  <1> QED
    BY <1>2 DEF SumFunction

LEMMA LedgerIsOwed ==
    ASSUME NEW t, NEW rows, NEW v,
           <<t, rows, v>> = <<tx, items, inv>> \/ <<t, rows, v>> = <<tx, items, inv>>',
           TablesOK /\ TotalsConserved, TablesOK' /\ TotalsConserved'
    PROVE  Charged(v) = SumFunctionOnSet(Owing(t), Ids) /\ Ints(Owing(t), Ids)
  <1>1. t \in [Ids -> TxRows] /\ rows \in [Ids -> [1..MaxParts -> ItemRows]]
    BY DEF TablesOK
  <1>2. \A i \in Ids : Billed(t[i], rows[i])
    BY DEF TablesOK
  <1>3. Charged(v) = SumFunction([i \in Ids |-> CentsIn(rows[i])])
    BY DEF Charged, TotalsConserved, CentsOf, LiveParts, CentsIn
  <1> QED
    BY <1>1, <1>2, <1>3, OwedInAll

\* The invariant of the refinement: cash has no closing day.
CashHasNoClosing == \A i \in Ids : ~tx[i].credit => tx[i].closing = 0

LEMMA NewRowClosing ==
    ASSUME NEW j, JobOK(j), ~j.row.credit => j.row.closing = 0
    PROVE  ~NewRow(j).credit => NewRow(j).closing = 0
  <1>1. CASE j.op = "delete"
    <2>1. j.row \in TxRows
      BY DEF JobOK, Jobs
    <2>2. NewRow(j).credit = j.row.credit /\ NewRow(j).closing = j.row.closing
      BY <1>1, <2>1 DEF NewRow, TxRows
    <2> QED
      BY <2>2
  <1>2. CASE j.op # "delete"
    BY <1>2 DEF NewRow
  <1> QED
    BY <1>1, <1>2

LEMMA ClosingKept ==
    ASSUME LedgerInv, CashHasNoClosing, [LedgerNext]_ledgerVars
    PROVE  CashHasNoClosing'
  <1>1. ASSUME NEW r \in Requests, Commit(r) PROVE CashHasNoClosing'
    <2>1. PICK j : j = job[r]
      OBVIOUS
    <2>2. /\ JobOK(j) /\ j.id \in Ids /\ tx[j.id] = j.row
          /\ tx' = [tx EXCEPT ![j.id] = NewRow(j)] /\ tx \in [Ids -> TxRows]
      BY <1>1, <2>1, CommitIs DEF LedgerInv, TablesOK
    <2>3. ~NewRow(j).credit => NewRow(j).closing = 0
      BY <2>2, NewRowClosing DEF CashHasNoClosing
    <2>4. tx'[j.id] = NewRow(j) /\ \A i \in Ids \ {j.id} : tx'[i] = tx[i]
      BY <2>2
    <2> QED
      BY <2>3, <2>4 DEF CashHasNoClosing
  <1>2. CASE UNCHANGED <<tx, inv>>
    BY <1>2 DEF CashHasNoClosing
  <1> QED
    BY <1>1, <1>2, OnlyCommitChanges

LEMMA RowOfFields ==
    ASSUME NEW e \in TxRows
    PROVE  e = [state |-> e.state, ver |-> e.ver, credit |-> e.credit, card |-> e.card,
                closing |-> e.closing, month |-> e.month, parts |-> e.parts, cents |-> e.cents]
  BY DEF TxRows

LEMMA UpdatedFields ==
    ASSUME NEW e \in TxRows, NEW in
    PROVE  [e EXCEPT !.ver = @ + 1, !.card = in.card, !.month = in.month,
                     !.parts = in.parts, !.cents = in.cents]
             = [state |-> e.state, ver |-> e.ver + 1, credit |-> e.credit, card |-> in.card,
                closing |-> e.closing, month |-> in.month, parts |-> in.parts, cents |-> in.cents]
  <1>0. PICK v : v = e.ver + 1
    OBVIOUS
  <1>1. PICK f : f = [e EXCEPT !.ver = v, !.card = in.card, !.month = in.month,
                               !.parts = in.parts, !.cents = in.cents]
    OBVIOUS
  <1>2. /\ f.state = e.state /\ f.ver = v /\ f.credit = e.credit /\ f.card = in.card
        /\ f.closing = e.closing /\ f.month = in.month /\ f.parts = in.parts /\ f.cents = in.cents
    BY <1>1 DEF TxRows
  <1>3. f = [state |-> f.state, ver |-> f.ver, credit |-> f.credit, card |-> f.card,
             closing |-> f.closing, month |-> f.month, parts |-> f.parts, cents |-> f.cents]
    BY <1>1, RowOfFields
  <1> QED
    BY <1>0, <1>1, <1>2, <1>3

\* What the use case decided is what the book does to the row as it stands.
RowBecomes(e, j) ==
    CASE j.op = "create" -> [state |-> "live", ver |-> 1, credit |-> j.in.credit, card |-> j.in.card,
                             month |-> j.in.month, parts |-> j.in.parts, cents |-> j.in.cents,
                             closing |-> IF j.in.credit THEN Closing[j.in.card] ELSE 0]
      [] j.op = "update" -> [e EXCEPT !.ver = @ + 1, !.card = j.in.card, !.month = j.in.month,
                                      !.parts = j.in.parts, !.cents = j.in.cents]
      [] j.op = "delete" -> [e EXCEPT !.state = "deleted", !.ver = @ + 1]

LEMMA NewRowIs ==
    ASSUME NEW j, JobOK(j), ~j.row.credit => j.row.closing = 0
    PROVE  NewRow(j) = RowBecomes(j.row, j)
  <1>0. j.row \in TxRows
    BY DEF JobOK, Jobs
  <1>1. CASE j.op = "create"
    <2>1. j.row.ver + 1 = 1
      BY <1>1 DEF JobOK, NoTx
    <2> QED
      BY <1>1, <2>1 DEF NewRow, RowBecomes, SnapshotOf
  <1>2. CASE j.op = "update"
    <2>1. (IF j.in.credit THEN SnapshotOf(j) ELSE 0) = j.row.closing
      BY <1>2 DEF JobOK, SnapshotOf
    <2>2. j.row.state = "live" /\ j.row.credit = j.in.credit
      BY <1>2 DEF JobOK
    <2>3. RowBecomes(j.row, j) = [j.row EXCEPT !.ver = @ + 1, !.card = j.in.card, !.month = j.in.month,
                                               !.parts = j.in.parts, !.cents = j.in.cents]
      BY <1>2 DEF RowBecomes
    <2>4. RowBecomes(j.row, j)
            = [state |-> j.row.state, ver |-> j.row.ver + 1, credit |-> j.row.credit, card |-> j.in.card,
               closing |-> j.row.closing, month |-> j.in.month, parts |-> j.in.parts, cents |-> j.in.cents]
      BY <1>0, <2>3, UpdatedFields
    <2>5. NewRow(j)
            = [state |-> "live", ver |-> j.row.ver + 1, credit |-> j.in.credit, card |-> j.in.card,
               month |-> j.in.month, parts |-> j.in.parts, closing |-> j.row.closing, cents |-> j.in.cents]
      BY <1>2, <2>1 DEF NewRow
    <2> QED
      BY <2>2, <2>4, <2>5
  <1>3. CASE j.op = "delete"
    BY <1>3 DEF NewRow, RowBecomes
  <1> QED
    BY <1>1, <1>2, <1>3 DEF JobOK

LEMMA CommitMovesBook ==
    ASSUME LedgerInv, LedgerInv', CashHasNoClosing, NEW r \in Requests, Commit(r)
    PROVE  Purchases!Next
  <1>1. PICK j : j = job[r]
    OBVIOUS
  <1>2. PICK i : i = j.id
    OBVIOUS
  <1>3. PICK e : e = RowBecomes(j.row, j)
    OBVIOUS
  <1>4. /\ JobOK(j) /\ i \in Ids /\ tx[i] = j.row /\ tx \in [Ids -> TxRows]
        /\ tx' = [tx EXCEPT ![i] = NewRow(j)] /\ tx' \in [Ids -> TxRows]
    BY <1>1, <1>2, CommitIs DEF LedgerInv, TablesOK
  <1>5. NewRow(j) = e
    BY <1>3, <1>4, NewRowIs DEF CashHasNoClosing
  <1>6. /\ tx' = [tx EXCEPT ![i] = e] /\ tx'[i] = e
        /\ \A k \in Ids \ {i} : tx'[k] = tx[k]
    BY <1>4, <1>5
  <1>7. Charged(inv') = Charged(inv) - Purchases!Owed(tx[i]) + Purchases!Owed(e)
    <2>1. /\ Charged(inv) = SumFunctionOnSet(Owing(tx), Ids) /\ Ints(Owing(tx), Ids)
          /\ Charged(inv') = SumFunctionOnSet(Owing(tx'), Ids) /\ Ints(Owing(tx'), Ids)
      BY LedgerIsOwed DEF LedgerInv
    <2>2. PICK C, D : C = Owing(tx) /\ D = Owing(tx')
      OBVIOUS
    <2>3. C[i] = Purchases!Owed(tx[i]) /\ D[i] = Purchases!Owed(e)
      BY <1>4, <1>6, <2>2 DEF Owing
    <2>4. D[i] \in Int /\ \A k \in Ids \ {i} : D[k] = C[k]
      BY <1>4, <1>6, <2>1, <2>2 DEF Ints, Owing
    <2>5. SumFunctionOnSet(D, Ids) = SumFunctionOnSet(C, Ids) - C[i] + D[i]
      <3>1. Ints(C, Ids) /\ IsFiniteSet(Ids) /\ i \in Ids
        BY <1>4, <2>1, <2>2, LedgerConstants
      <3> QED
        BY <2>4, <3>1, SumChanges
    <2>6. Charged(inv) = SumFunctionOnSet(C, Ids) /\ Charged(inv') = SumFunctionOnSet(D, Ids)
      BY <2>1, <2>2
    <2> QED
      BY <2>3, <2>5, <2>6, Zenon
  <1>8. Purchases!Becomes(i, e)
    BY <1>6, <1>7 DEF Purchases!Becomes, Charged
  <1>9. CASE j.op = "delete"
    <2>1. tx[i].state = "live" /\ e = [tx[i] EXCEPT !.state = "deleted", !.ver = @ + 1]
      BY <1>3, <1>4, <1>9 DEF JobOK, RowBecomes
    <2>2. Purchases!Delete(i)
      BY <1>8, <2>1 DEF Purchases!Delete
    <2> QED
      BY <1>4, <2>2 DEF Purchases!Next
  <1>10. CASE j.op = "create"
    <2>1. PICK in : in = j.in
      OBVIOUS
    <2>2. in \in Inputs /\ tx[i].state = "absent"
      BY <1>4, <1>10, <2>1 DEF JobOK, NoTx
    <2>3. e = [state |-> "live", ver |-> 1, credit |-> in.credit, card |-> in.card,
               month |-> in.month, parts |-> in.parts, cents |-> in.cents,
               closing |-> IF in.credit THEN Closing[in.card] ELSE 0]
      BY <1>3, <1>10, <2>1 DEF RowBecomes
    <2>4. Purchases!Create(i, in)
      BY <1>8, <2>2, <2>3 DEF Purchases!Create
    <2> QED
      BY <1>4, <2>2, <2>4 DEF Purchases!Next
  <1>11. CASE j.op = "update"
    <2>1. PICK in : in = j.in
      OBVIOUS
    <2>2. in \in Inputs /\ tx[i].state = "live" /\ tx[i].credit = in.credit
      BY <1>4, <1>11, <2>1 DEF JobOK
    <2>3. e = [tx[i] EXCEPT !.ver = @ + 1, !.card = in.card, !.month = in.month,
                            !.parts = in.parts, !.cents = in.cents]
      BY <1>3, <1>4, <1>11, <2>1 DEF RowBecomes
    <2>4. Purchases!Update(i, in)
      BY <1>8, <2>2, <2>3 DEF Purchases!Update
    <2> QED
      BY <1>4, <2>2, <2>4 DEF Purchases!Next
  <1> QED
    BY <1>4, <1>9, <1>10, <1>11 DEF JobOK

\* However requests overlap, stage rows of the same invoices, roll back or lose
\* a version race, each that commits changes one transaction as it stands at
\* that moment, and the cards are billed what the live purchases cost: the
\* ledger implements the book of purchases.
THEOREM LedgerIsAPurchaseBook == LedgerSpec => ImplementsPurchaseBook
  <1>1. LedgerInit => Purchases!Init /\ CashHasNoClosing
    <2> SUFFICES ASSUME LedgerInit PROVE Purchases!Init /\ CashHasNoClosing
      OBVIOUS
    <2>1. LedgerInv
      BY LedgerInitially
    <2>2. \A i \in Ids : tx[i] = NoTx
      BY DEF LedgerInit
    <2>3. \A i \in Ids : Owing(tx)[i] = 0
      BY <2>2 DEF Owing, Purchases!Owed, NoTx
    <2>4. Charged(inv) = SumFunctionOnSet(Owing(tx), Ids)
      <3>1. Charged(inv) = SumFunction([i \in Ids |-> CentsIn(items[i])])
        BY <2>1 DEF LedgerInv, TotalsConserved, Charged, CentsOf, LiveParts, CentsIn
      <3> QED
        BY <2>1, <3>1, OwedInAll DEF LedgerInv, TablesOK
    <2>5. SumFunctionOnSet(Owing(tx), Ids) = 0
      <3>1. {} \in SUBSET Ids /\ Ints(Owing(tx), {})
        BY DEF Ints
      <3> QED
        BY <2>3, <3>1, SumOfZeros, SumOfNone, LedgerConstants
    <2>6. Purchases!Init
      BY <2>4, <2>5 DEF LedgerInit, Purchases!Init, Charged
    <2>7. CashHasNoClosing
      BY <2>2 DEF CashHasNoClosing, NoTx
    <2> QED
      BY <2>6, <2>7
  <1>2. LedgerInv /\ LedgerInv' /\ CashHasNoClosing /\ [LedgerNext]_ledgerVars
          => CashHasNoClosing' /\ [Purchases!Next]_Purchases!vars
    <2> SUFFICES ASSUME LedgerInv, LedgerInv', CashHasNoClosing, [LedgerNext]_ledgerVars
                 PROVE  CashHasNoClosing' /\ [Purchases!Next]_Purchases!vars
      OBVIOUS
    <2>1. CashHasNoClosing'
      BY ClosingKept
    <2>2. CASE \E r \in Requests : Commit(r)
      BY <2>1, <2>2, CommitMovesBook
    <2>3. CASE UNCHANGED <<tx, inv>>
      BY <2>1, <2>3 DEF Purchases!vars
    <2> QED
      BY <2>2, <2>3, OnlyCommitChanges
  <1> QED
    BY <1>1, <1>2, LedgerInvariant, PTL DEF LedgerSpec, ImplementsPurchaseBook, Purchases!Spec

-----------------------------------------------------------------------------
(* The recurring job.                                                       *)

Working == {"insert", "create", "mark"}

\* A run at a template reads its id from the table; a resting process has none.
HostShape ==
    \A h \in Hosts :
        /\ host[h].state \in Working => host[h].at \in Templates
        /\ host[h].state = "idle" => host[h].todo = {}

\* The runs that are about to create, or have created, the transaction of k.
Creating(k) == {h \in Hosts : host[h].state = "create" /\ Key(h) = k}
Marking(k) == {h \in Hosts : host[h].state = "mark" /\ Key(h) = k}

\* A run past the claim of its month finds the month's row; one that is about
\* to complete it has created the transaction.
ClaimRecorded ==
    \A h \in Hosts :
        /\ host[h].state \in {"create", "mark"} => row[Key(h)] # "none"
        /\ host[h].state = "mark" => created[Key(h)] > 0

\* While the row is open every transaction has a run that will mark it or died
\* before it could; once it is completed no new run comes to create one.
RepeatsCounted ==
    \A k \in Keys :
        /\ row[k] # "completed" => created[k] <= mishaps + Cardinality(Marking(k))
        /\ row[k] = "completed" =>
              created[k] + Cardinality(Creating(k)) <= Cardinality(Hosts) + mishaps

\* The day of this month on which t is due.
DueDay(t) == IF template[t].day <= MonthDays[today.month] THEN template[t].day
             ELSE MonthDays[today.month]
Served(t) == created[<<t, today.month>>] > 0
Underway(t) ==
    \E h \in Hosts : \/ t \in host[h].todo
                     \/ host[h].state \in {"insert", "create"} /\ host[h].at = t

OnTime ==
    mishaps = 0 =>
        \A t \in steady :
            /\ template[t].state = "live"
            /\ today.day > DueDay(t) => Served(t)
            /\ today.day = DueDay(t) /\ ran # {} => Served(t) \/ Underway(t)

-----------------------------------------------------------------------------
(* Types.                                                                   *)

LEMMA InitType == RecurringInit => RecurringTypeOK /\ HostShape
  <1> SUFFICES ASSUME RecurringInit PROVE RecurringTypeOK /\ HostShape
    OBVIOUS
  <1>1. \A h \in Hosts : host[h] = Resting
    BY DEF RecurringInit
  <1>2. Resting \in [state : JobStates, todo : SUBSET Templates, at : Templates \cup {0}]
    BY DEF Resting, JobStates
  <1>3. today \in [month : Calendar, day : Nat \ {0}] /\ today.day <= MonthDays[today.month]
    BY RecurringAssumption DEF RecurringInit
  <1>4. NoTemplate \in [state : {"absent", "live", "deleted"}, day : Nat \ {0}]
    BY DEF NoTemplate
  <1>5. RecurringTypeOK
    BY <1>1, <1>2, <1>3, <1>4 DEF RecurringInit, RecurringTypeOK
  <1>6. HostShape
    BY <1>1 DEF HostShape, Resting, Working
  <1>7. QED
    BY <1>5, <1>6

\* A host's record after a step of the host.
LEMMA HostRecord ==
    ASSUME RecurringTypeOK, NEW h \in Hosts
    PROVE  /\ host[h] \in [state : JobStates, todo : SUBSET Templates, at : Templates \cup {0}]
           /\ host[h].state \in JobStates
           /\ host[h].todo \subseteq Templates
           /\ host[h].at \in Templates \cup {0}
           /\ today.month \in Calendar
  BY DEF RecurringTypeOK

LEMMA KeyType ==
    ASSUME RecurringTypeOK, HostShape, NEW h \in Hosts, host[h].state \in Working
    PROVE  Key(h) \in Keys /\ Key(h)[1] = host[h].at
  BY HostRecord DEF HostShape, Key, Keys

LEMMA EditType ==
    ASSUME RecurringTypeOK, HostShape, NEW t \in Templates,
           NEW new \in [state : {"absent", "live", "deleted"}, day : Nat \ {0}], Edit(t, new)
    PROVE  RecurringTypeOK' /\ HostShape'
  <1>1. template' \in [Templates -> [state : {"absent", "live", "deleted"}, day : Nat \ {0}]]
    BY DEF RecurringTypeOK, Edit
  <1>2. edits' \in Nat /\ steady' \subseteq Templates
    BY DEF RecurringTypeOK, Edit
  <1>3. QED
    BY <1>1, <1>2 DEF RecurringTypeOK, Edit, HostShape, Key

\* A step of host h that sets its state and perhaps the tables.
LEMMA StepShape ==
    ASSUME RecurringTypeOK, HostShape, NEW h \in Hosts, NEW l \in JobStates \ {"idle"}, Step(h, l),
           l \in Working => host[h].state \in Working
    PROVE  /\ host' \in [Hosts -> [state : JobStates, todo : SUBSET Templates, at : Templates \cup {0}]]
           /\ \A g \in Hosts : host'[g].todo = host[g].todo /\ host'[g].at = host[g].at
           /\ \A g \in Hosts : host'[g].state = IF g = h THEN l ELSE host[g].state
           /\ HostShape'
  <1>1. host' = [host EXCEPT ![h] = [host[h] EXCEPT !.state = l]]
    BY DEF Step
  <1>2. [host[h] EXCEPT !.state = l]
           \in [state : JobStates, todo : SUBSET Templates, at : Templates \cup {0}]
    BY HostRecord
  <1>3. /\ [host[h] EXCEPT !.state = l].todo = host[h].todo
        /\ [host[h] EXCEPT !.state = l].at = host[h].at
        /\ [host[h] EXCEPT !.state = l].state = l
    BY HostRecord
  <1>4. host \in [Hosts -> [state : JobStates, todo : SUBSET Templates, at : Templates \cup {0}]]
    BY DEF RecurringTypeOK
  <1>5. host' \in [Hosts -> [state : JobStates, todo : SUBSET Templates, at : Templates \cup {0}]]
    BY <1>1, <1>2, <1>4
  <1>6. \A g \in Hosts : host'[g] = IF g = h THEN [host[h] EXCEPT !.state = l] ELSE host[g]
    BY <1>1, <1>4
  <1>7. /\ \A g \in Hosts : host'[g].todo = host[g].todo /\ host'[g].at = host[g].at
        /\ \A g \in Hosts : host'[g].state = IF g = h THEN l ELSE host[g].state
    BY <1>3, <1>6
  <1>8. HostShape'
    BY <1>7 DEF HostShape
  <1>9. QED
    BY <1>5, <1>7, <1>8

LEMMA JobType ==
    ASSUME RecurringTypeOK, HostShape, NEW h \in Hosts, RunJob(h)
    PROVE  RecurringTypeOK' /\ HostShape'
  <1> DEFINE rec == [Resting EXCEPT !.state = "next", !.todo = {t \in Templates : Due(t)}]
  <1>1. /\ rec \in [state : JobStates, todo : SUBSET Templates, at : Templates \cup {0}]
        /\ rec.state = "next"
    BY DEF Resting, JobStates
  <1>2. host' = [host EXCEPT ![h] = rec] /\ host[h].state = "idle"
    BY DEF RunJob
  <1>3. host \in [Hosts -> [state : JobStates, todo : SUBSET Templates, at : Templates \cup {0}]]
    BY DEF RecurringTypeOK
  <1>4. host' \in [Hosts -> [state : JobStates, todo : SUBSET Templates, at : Templates \cup {0}]]
    BY <1>1, <1>2, <1>3
  <1>5. \A g \in Hosts : host'[g] = IF g = h THEN rec ELSE host[g]
    BY <1>2, <1>3
  <1>6. \A l \in locks' : host'[l.by].state = "insert" /\ l.key = Key(l.by)'
    <2> SUFFICES ASSUME NEW l \in locks PROVE host'[l.by].state = "insert" /\ l.key = Key(l.by)'
      BY DEF RunJob
    <2>1. l.by \in Hosts /\ host[l.by].state = "insert" /\ l.key = Key(l.by)
      BY DEF RecurringTypeOK
    <2>2. l.by # h
      BY <2>1, <1>2
    <2>3. QED
      BY <2>1, <2>2, <1>5 DEF Key, RunJob
  <1>7. HostShape'
    BY <1>1, <1>5 DEF HostShape, Working
  <1>8. ran' \subseteq Hosts
    BY DEF RunJob, RecurringTypeOK
  <1>9. QED
    BY <1>4, <1>6, <1>7, <1>8 DEF RunJob, RecurringTypeOK, tables

LEMMA LockType ==
    ASSUME RecurringTypeOK, HostShape, NEW h \in Hosts, NEW t \in Templates, TryAdvisoryLock(h, t)
    PROVE  /\ RecurringTypeOK' /\ HostShape'
           /\ \A g \in Hosts : host'[g].todo = IF g = h THEN host[g].todo \ {t} ELSE host[g].todo
           /\ \A g \in Hosts \ {h} : host'[g] = host[g]
           /\ host'[h].at = t
           /\ \/ host'[h].state = "insert"
              \/ /\ host'[h].state = "next"
                 /\ \E g \in Hosts \ {h} : host[g].state = "insert" /\ host[g].at = t
  <1> DEFINE free == \A l \in locks : l.key # <<t, today.month>>
             st == IF free THEN "insert" ELSE "next"
             rec == [host[h] EXCEPT !.todo = @ \ {t}, !.at = t, !.state = st]
  <1>1. /\ rec \in [state : JobStates, todo : SUBSET Templates, at : Templates \cup {0}]
        /\ rec.state = st /\ rec.todo = host[h].todo \ {t} /\ rec.at = t
    BY HostRecord DEF JobStates
  <1>2. host' = [host EXCEPT ![h] = rec] /\ host[h].state = "next"
    BY HostRecord DEF TryAdvisoryLock, RecurringTypeOK
  <1>3. host \in [Hosts -> [state : JobStates, todo : SUBSET Templates, at : Templates \cup {0}]]
    BY DEF RecurringTypeOK
  <1>4. host' \in [Hosts -> [state : JobStates, todo : SUBSET Templates, at : Templates \cup {0}]]
    BY <1>1, <1>2, <1>3
  <1>5. \A g \in Hosts : host'[g] = IF g = h THEN rec ELSE host[g]
    BY <1>2, <1>3
  <1> DEFINE new == [by |-> h, key |-> <<t, today.month>>]
  <1>6. locks' = (IF free THEN locks \cup {new} ELSE locks) /\ UNCHANGED <<tables, clock>>
    BY DEF TryAdvisoryLock
  <1>7. <<t, today.month>> \in Keys /\ today' = today
    BY <1>6, HostRecord DEF Keys, clock
  <1>8. locks' \subseteq [by : Hosts, key : Keys]
    BY <1>6, <1>7 DEF RecurringTypeOK
  <1>9. \A l \in locks : /\ l.by \in Hosts /\ l.by # h
                         /\ host[l.by].state = "insert" /\ l.key = <<host[l.by].at, today.month>>
    BY <1>2 DEF RecurringTypeOK, Key
  <1>10. \A l \in locks' : host'[l.by].state = "insert" /\ l.key = Key(l.by)'
    <2> SUFFICES ASSUME NEW l \in locks' PROVE host'[l.by].state = "insert" /\ l.key = <<host'[l.by].at, today.month>>
      BY <1>7 DEF Key
    <2>1. CASE l \in locks
      BY <2>1, <1>5, <1>9
    <2>2. CASE l = new /\ free
      BY <2>2, <1>1, <1>5
    <2>3. QED
      BY <2>1, <2>2, <1>6
  <1>11. HostShape'
    <2>1. host'[h].at = t /\ host'[h].state # "idle"
      BY <1>1, <1>5
    <2>2. \A g \in Hosts \ {h} : host'[g] = host[g]
      BY <1>5
    <2>3. QED
      BY <2>1, <2>2 DEF HostShape
  <1>12. RecurringTypeOK'
    BY <1>4, <1>6, <1>8, <1>10 DEF RecurringTypeOK, tables, clock
  <1>13. CASE free
    BY <1>1, <1>5, <1>11, <1>12, <1>13
  <1>14. CASE ~free
    <2>1. PICK l \in locks : l.key = <<t, today.month>>
      BY <1>14
    <2>2. l.by \in Hosts \ {h} /\ host[l.by].state = "insert" /\ host[l.by].at = t
      BY <2>1, <1>9
    <2>3. QED
      BY <2>2, <1>1, <1>5, <1>11, <1>12, <1>14
  <1>15. QED
    BY <1>13, <1>14

LEMMA InsertType ==
    ASSUME RecurringTypeOK, HostShape, NEW h \in Hosts, InsertIfAbsent(h)
    PROVE  RecurringTypeOK' /\ HostShape'
  <1> DEFINE l == IF ShouldProceed(Key(h)) THEN "create" ELSE "next"
  <1>1. host[h].state = "insert" /\ Step(h, l) /\ Unlock(h) /\ UNCHANGED <<template, created, clock>>
    BY DEF InsertIfAbsent
  <1>2. l \in JobStates \ {"idle"} /\ (l \in Working => host[h].state \in Working)
    BY <1>1 DEF JobStates, Working
  <1> HIDE DEF l
  <1>3. /\ host' \in [Hosts -> [state : JobStates, todo : SUBSET Templates, at : Templates \cup {0}]]
        /\ \A g \in Hosts : host'[g].todo = host[g].todo /\ host'[g].at = host[g].at
        /\ \A g \in Hosts : host'[g].state = IF g = h THEN l ELSE host[g].state
        /\ HostShape'
    BY <1>1, <1>2, StepShape
  <1>4. row' \in [Keys -> {"none", "open", "completed"}]
    BY DEF InsertIfAbsent, RecurringTypeOK
  <1>5. locks' \subseteq [by : Hosts, key : Keys]
    BY <1>1 DEF Unlock, RecurringTypeOK
  <1>6. \A k \in locks' : host'[k.by].state = "insert" /\ k.key = Key(k.by)'
    <2> SUFFICES ASSUME NEW k \in locks' PROVE host'[k.by].state = "insert" /\ k.key = Key(k.by)'
      OBVIOUS
    <2>1. k \in locks /\ k.by # h
      BY <1>1 DEF Unlock
    <2>2. k.by \in Hosts /\ host[k.by].state = "insert" /\ k.key = Key(k.by)
      BY <2>1 DEF RecurringTypeOK
    <2>3. today' = today
      BY <1>1 DEF clock
    <2>4. QED
      BY <2>1, <2>2, <2>3, <1>3 DEF Key
  <1>7. QED
    BY <1>1, <1>3, <1>4, <1>5, <1>6 DEF RecurringTypeOK, clock

\* The steps of a run that holds no lock.
LEMMA UnlockedType ==
    ASSUME RecurringTypeOK, HostShape, NEW h \in Hosts, NEW l \in JobStates \ {"idle", "insert"},
           host[h].state \in JobStates \ {"insert"}, Step(h, l),
           l \in Working => host[h].state \in Working,
           row' \in [Keys -> {"none", "open", "completed"}], created' \in [Keys -> Nat],
           UNCHANGED <<template, locks, clock>>
    PROVE  RecurringTypeOK' /\ HostShape'
  <1>1. /\ host' \in [Hosts -> [state : JobStates, todo : SUBSET Templates, at : Templates \cup {0}]]
        /\ \A g \in Hosts : host'[g].todo = host[g].todo /\ host'[g].at = host[g].at
        /\ \A g \in Hosts : host'[g].state = IF g = h THEN l ELSE host[g].state
        /\ HostShape'
    BY StepShape
  <1>2. \A k \in locks' : host'[k.by].state = "insert" /\ k.key = Key(k.by)'
    <2> SUFFICES ASSUME NEW k \in locks PROVE host'[k.by].state = "insert" /\ k.key = Key(k.by)'
      OBVIOUS
    <2>1. k.by \in Hosts /\ host[k.by].state = "insert" /\ k.key = Key(k.by)
      BY DEF RecurringTypeOK
    <2>2. k.by # h
      BY <2>1
    <2>3. QED
      BY <2>1, <2>2, <1>1 DEF Key, clock
  <1>3. QED
    BY <1>1, <1>2 DEF RecurringTypeOK, clock

LEMMA CreateType ==
    ASSUME RecurringTypeOK, HostShape, NEW h \in Hosts, CreateFromTemplate(h)
    PROVE  RecurringTypeOK' /\ HostShape'
  <1>1. created' \in [Keys -> Nat]
    <2>1. Key(h) \in Keys /\ created' = [created EXCEPT ![Key(h)] = created[Key(h)] + 1]
      BY KeyType DEF CreateFromTemplate, Working
    <2>2. created \in [Keys -> Nat]
      BY DEF RecurringTypeOK
    <2>3. created[Key(h)] + 1 \in Nat
      BY <2>1, <2>2
    <2>4. QED
      BY <2>1, <2>2, <2>3
  <1>2. row' \in [Keys -> {"none", "open", "completed"}]
    BY DEF CreateFromTemplate, RecurringTypeOK
  <1>3. "mark" \in JobStates \ {"idle", "insert"} /\ host[h].state \in JobStates \ {"insert"}
        /\ host[h].state \in Working
    BY DEF JobStates, Working, CreateFromTemplate
  <1>4. Step(h, "mark") /\ UNCHANGED <<template, locks, clock>>
    BY DEF CreateFromTemplate
  <1>5. QED
    BY <1>1, <1>2, <1>3, <1>4, UnlockedType

LEMMA MarkType ==
    ASSUME RecurringTypeOK, HostShape, NEW h \in Hosts, MarkCompleted(h)
    PROVE  RecurringTypeOK' /\ HostShape'
  <1>1. created' \in [Keys -> Nat]
    BY DEF MarkCompleted, RecurringTypeOK
  <1>2. row' \in [Keys -> {"none", "open", "completed"}]
    BY DEF MarkCompleted, RecurringTypeOK
  <1>3. "next" \in JobStates \ {"idle", "insert"} /\ host[h].state \in JobStates \ {"insert"}
        /\ "next" \notin Working
    BY DEF JobStates, Working, MarkCompleted
  <1>4. Step(h, "next") /\ UNCHANGED <<template, locks, clock>>
    BY DEF MarkCompleted
  <1>5. QED
    BY <1>1, <1>2, <1>3, <1>4, UnlockedType

\* A run that ends, by itself or by a mishap, rests and holds no lock.
LEMMA RestType ==
    ASSUME RecurringTypeOK, HostShape, NEW h \in Hosts, host' = [host EXCEPT ![h] = Resting],
           locks' \subseteq locks, \A l \in locks' : l.by # h, mishaps' \in Nat,
           UNCHANGED <<today, tables, ran, edits, steady>>
    PROVE  /\ RecurringTypeOK' /\ HostShape'
           /\ \A g \in Hosts : host'[g] = IF g = h THEN Resting ELSE host[g]
  <1>1. /\ Resting \in [state : JobStates, todo : SUBSET Templates, at : Templates \cup {0}]
        /\ Resting.state = "idle" /\ Resting.todo = {}
    BY DEF Resting, JobStates
  <1>2. host \in [Hosts -> [state : JobStates, todo : SUBSET Templates, at : Templates \cup {0}]]
    BY DEF RecurringTypeOK
  <1>3. /\ host' \in [Hosts -> [state : JobStates, todo : SUBSET Templates, at : Templates \cup {0}]]
        /\ \A g \in Hosts : host'[g] = IF g = h THEN Resting ELSE host[g]
    BY <1>1, <1>2
  <1>4. HostShape'
    BY <1>1, <1>3 DEF HostShape, Working
  <1>5. \A l \in locks' : host'[l.by].state = "insert" /\ l.key = Key(l.by)'
    <2> SUFFICES ASSUME NEW l \in locks' PROVE host'[l.by].state = "insert" /\ l.key = Key(l.by)'
      OBVIOUS
    <2>1. l.by \in Hosts /\ l.by # h /\ host[l.by].state = "insert" /\ l.key = Key(l.by)
      BY DEF RecurringTypeOK
    <2>2. QED
      BY <2>1, <1>3 DEF Key
  <1>6. RecurringTypeOK'
    BY <1>3, <1>5 DEF RecurringTypeOK, tables
  <1>7. QED
    BY <1>3, <1>4, <1>6

LEMMA EndsType ==
    ASSUME RecurringTypeOK, HostShape, NEW h \in Hosts, RunEnds(h) \/ RunDies(h)
    PROVE  /\ RecurringTypeOK' /\ HostShape'
           /\ \A g \in Hosts : host'[g] = IF g = h THEN Resting ELSE host[g]
  <1>1. \A l \in locks : host[l.by].state = "insert"
    BY DEF RecurringTypeOK
  <1>2. CASE RunEnds(h)
    <2>1. locks' \subseteq locks /\ \A l \in locks' : l.by # h
      BY <1>1, <1>2 DEF RunEnds
    <2>2. mishaps' \in Nat
      BY <1>2 DEF RunEnds, clock, RecurringTypeOK
    <2>3. host' = [host EXCEPT ![h] = Resting] /\ UNCHANGED <<today, tables, ran, edits, steady>>
      BY <1>2 DEF RunEnds, clock
    <2>4. QED
      BY <2>1, <2>2, <2>3, RestType
  <1>3. CASE RunDies(h)
    <2>1. locks' \subseteq locks /\ \A l \in locks' : l.by # h
      BY <1>3 DEF RunDies, Unlock
    <2>2. mishaps' \in Nat
      BY <1>3 DEF RunDies, RecurringTypeOK
    <2>3. host' = [host EXCEPT ![h] = Resting] /\ UNCHANGED <<today, tables, ran, edits, steady>>
      BY <1>3 DEF RunDies
    <2>4. QED
      BY <2>1, <2>2, <2>3, RestType
  <1>4. QED
    BY <1>2, <1>3

LEMMA NextDayType ==
    ASSUME RecurringTypeOK, HostShape, NextDay
    PROVE  RecurringTypeOK' /\ HostShape'
  <1>1. locks = {}
    BY DEF RecurringTypeOK, NextDay
  <1>2. /\ today \in [month : Calendar, day : Nat \ {0}]
        /\ today.day \in Nat \ {0} /\ today.month \in Calendar
        /\ today.day <= MonthDays[today.month] /\ MonthDays[today.month] \in Nat \ {0}
    BY RecurringAssumption DEF RecurringTypeOK
  <1>3. /\ today' \in [month : Calendar, day : Nat \ {0}]
        /\ today'.day <= MonthDays[today'.month] /\ steady' \subseteq Templates
    <2>1. CASE today.day < MonthDays[today.month]
      <3>1. today' = [today EXCEPT !.day = @ + 1] /\ steady' = steady
        BY <2>1 DEF NextDay
      <3>2. today'.day = today.day + 1 /\ today'.month = today.month
            /\ today' \in [month : Calendar, day : Nat \ {0}]
        BY <3>1, <1>2
      <3>3. QED
        BY <3>1, <3>2, <2>1, <1>2 DEF RecurringTypeOK
    <2>2. CASE ~(today.day < MonthDays[today.month])
      <3>1. /\ today.month + 1 \in Calendar
            /\ today' = [month |-> today.month + 1, day |-> 1]
            /\ steady' = {t \in Templates : template[t].state = "live"}
        BY <2>2 DEF NextDay
      <3>2. MonthDays[today.month + 1] \in Nat \ {0}
        BY <3>1, RecurringAssumption
      <3>3. QED
        BY <3>1, <3>2
    <2>3. QED
      BY <2>1, <2>2
  <1>4. mishaps' \in Nat /\ ran' = {}
    BY DEF NextDay, RecurringTypeOK
  <1>5. QED
    BY <1>1, <1>3, <1>4 DEF NextDay, RecurringTypeOK, HostShape, tables

\* Templates, runs and the calendar keep the types of Recurring.
LEMMA NextType ==
    ASSUME RecurringTypeOK, HostShape, [RecurringNext]_recurringVars
    PROVE  RecurringTypeOK' /\ HostShape'
  <1>1. ASSUME NEW t \in Templates, NEW d \in TemplateDays,
               CreateTemplate(t, d) \/ UpdateTemplate(t, d)
        PROVE  RecurringTypeOK' /\ HostShape'
    <2>1. [state |-> "live", day |-> d] \in [state : {"absent", "live", "deleted"}, day : Nat \ {0}]
      BY RecurringAssumption
    <2>2. Edit(t, [state |-> "live", day |-> d])
      BY <1>1 DEF CreateTemplate, UpdateTemplate
    <2>3. QED
      BY <2>1, <2>2, EditType
  <1>2. ASSUME NEW t \in Templates, DeleteTemplate(t)
        PROVE  RecurringTypeOK' /\ HostShape'
    <2>1. [template[t] EXCEPT !.state = "deleted"]
             \in [state : {"absent", "live", "deleted"}, day : Nat \ {0}]
      BY DEF RecurringTypeOK
    <2>2. QED
      BY <1>2, <2>1, EditType DEF DeleteTemplate
  <1>3. CASE UNCHANGED recurringVars
    BY <1>3 DEF recurringVars, RecurringTypeOK, HostShape, Key
  <1>4. QED
    BY <1>1, <1>2, <1>3, JobType, LockType, InsertType, CreateType, MarkType, EndsType, NextDayType
       DEF RecurringNext

\* The tables, templates and runs are of their types, and no advisory lock
\* outlives the transaction that took it.
THEOREM RecurringTypeCorrect == RecurringSpec => []RecurringTypeOK
  <1>1. RecurringInit => RecurringTypeOK /\ HostShape
    BY InitType
  <1>2. (RecurringTypeOK /\ HostShape) /\ [RecurringNext]_recurringVars => (RecurringTypeOK /\ HostShape)'
    BY NextType
  <1>3. QED
    BY <1>1, <1>2, PTL DEF RecurringSpec

-----------------------------------------------------------------------------
(* Every transaction of a month is paid for.                                *)

LEMMA CardStep ==
    ASSUME NEW S, NEW T, NEW h, IsFiniteSet(S), IsFiniteSet(T), S \ {h} = T \ {h}
    PROVE  /\ Cardinality(S) \in Nat /\ Cardinality(T) \in Nat
           /\ h \in S /\ h \notin T => Cardinality(T) = Cardinality(S) - 1
           /\ h \notin S /\ h \in T => Cardinality(T) = Cardinality(S) + 1
           /\ (h \in S) = (h \in T) => T = S
  <1>1. Cardinality(S) \in Nat /\ Cardinality(T) \in Nat
    BY FS_CardinalityType
  <1>2. ASSUME h \in S, h \notin T PROVE Cardinality(T) = Cardinality(S) - 1
    <2>1. T = S \ {h}
      BY <1>2
    <2>2. QED
      BY <2>1, <1>2, FS_RemoveElement
  <1>3. ASSUME h \notin S, h \in T PROVE Cardinality(T) = Cardinality(S) + 1
    <2>1. T = S \cup {h}
      BY <1>3
    <2>2. QED
      BY <2>1, <1>3, FS_AddElement
  <1>4. QED
    BY <1>1, <1>2, <1>3

\* The runs counted for a month are processes.
LEMMA Counted ==
    ASSUME NEW k
    PROVE  /\ IsFiniteSet(Marking(k)) /\ IsFiniteSet(Creating(k))
           /\ IsFiniteSet(Marking(k)') /\ IsFiniteSet(Creating(k)')
           /\ Cardinality(Marking(k)) \in Nat /\ Cardinality(Creating(k)) \in Nat
           /\ Cardinality(Hosts) \in Nat
           /\ Cardinality(Marking(k)) + Cardinality(Creating(k)) <= Cardinality(Hosts)
  <1>1. IsFiniteSet(Hosts)
    BY RecurringAssumption
  <1>2. /\ Marking(k) \subseteq Hosts /\ Creating(k) \subseteq Hosts
        /\ Marking(k)' \subseteq Hosts /\ Creating(k)' \subseteq Hosts
        /\ Marking(k) \cap Creating(k) = {}
    BY DEF Marking, Creating
  <1>3. /\ IsFiniteSet(Marking(k)) /\ IsFiniteSet(Creating(k))
        /\ IsFiniteSet(Marking(k)') /\ IsFiniteSet(Creating(k)')
    BY <1>1, <1>2, FS_Subset
  <1>4. Cardinality(Marking(k)) \in Nat /\ Cardinality(Creating(k)) \in Nat
        /\ Cardinality(Hosts) \in Nat
    BY <1>1, <1>3, FS_CardinalityType
  <1> DEFINE both == Marking(k) \cup Creating(k)
  <1>5. Cardinality(both) = Cardinality(Marking(k)) + Cardinality(Creating(k))
    <2>1. Cardinality(Marking(k) \cap Creating(k)) = 0
      BY <1>2, FS_EmptySet
    <2>2. Cardinality(both) = Cardinality(Marking(k)) + Cardinality(Creating(k))
                                 - Cardinality(Marking(k) \cap Creating(k))
      BY <1>3, FS_Union
    <2>3. QED
      BY <2>1, <2>2, <1>4
  <1>6. Cardinality(both) <= Cardinality(Hosts)
    BY <1>1, <1>2, FS_Subset
  <1>7. QED
    BY <1>3, <1>4, <1>5, <1>6

\* Only the run that moved changes the counts.
LEMMA OthersCounted ==
    ASSUME RecurringTypeOK, NEW h \in Hosts, NEW k, today' = today,
           \A g \in Hosts \ {h} : host'[g] = host[g] \/ (host'[g].state = host[g].state /\ host'[g].at = host[g].at)
    PROVE  /\ Marking(k) \ {h} = Marking(k)' \ {h}
           /\ Creating(k) \ {h} = Creating(k)' \ {h}
           /\ \A g \in Hosts \ {h} : host'[g].state = host[g].state /\ Key(g)' = Key(g)
  BY DEF Marking, Creating, Key

\* No step of the invariant's tables: the runs counted may only become fewer,
\* against mishaps.
LEMMA FewerCounted ==
    ASSUME RecurringTypeOK, RepeatsCounted, UNCHANGED <<row, created>>,
           mishaps' \in Nat, mishaps' >= mishaps,
           \A k \in Keys : /\ Cardinality(Creating(k)') \in Nat /\ Cardinality(Marking(k)') \in Nat
                           /\ Cardinality(Creating(k)') <= Cardinality(Creating(k))
                           /\ mishaps + Cardinality(Marking(k)) <= mishaps' + Cardinality(Marking(k)')
    PROVE  RepeatsCounted'
  <1> SUFFICES ASSUME NEW k \in Keys
               PROVE  /\ row[k] # "completed" => created[k] <= mishaps' + Cardinality(Marking(k)')
                      /\ row[k] = "completed" =>
                            created[k] + Cardinality(Creating(k)') <= Cardinality(Hosts) + mishaps'
    BY DEF RepeatsCounted
  <1>1. created[k] \in Nat /\ mishaps \in Nat
    BY DEF RecurringTypeOK
  <1>2. Cardinality(Hosts) \in Nat /\ Cardinality(Marking(k)) \in Nat /\ Cardinality(Creating(k)) \in Nat
    BY Counted
  <1>3. /\ row[k] # "completed" => created[k] <= mishaps + Cardinality(Marking(k))
        /\ row[k] = "completed" => created[k] + Cardinality(Creating(k)) <= Cardinality(Hosts) + mishaps
    BY DEF RepeatsCounted
  <1>4. QED
    BY <1>1, <1>2, <1>3

LEMMA CreateCounted ==
    ASSUME RecurringTypeOK, HostShape, RepeatsCounted, NEW h \in Hosts, CreateFromTemplate(h)
    PROVE  RepeatsCounted'
  <1> DEFINE c == Key(h)
  <1>1. /\ host[h].state = "create" /\ Step(h, "mark") /\ UNCHANGED <<row, mishaps, today>>
        /\ created' = [created EXCEPT ![c] = created[c] + 1]
    BY DEF CreateFromTemplate, clock
  <1>2. "mark" \in JobStates \ {"idle"} /\ host[h].state \in Working /\ c \in Keys
    BY <1>1, KeyType DEF JobStates, Working
  <1>3. /\ \A g \in Hosts : host'[g].todo = host[g].todo /\ host'[g].at = host[g].at
        /\ \A g \in Hosts : host'[g].state = IF g = h THEN "mark" ELSE host[g].state
    BY <1>1, <1>2, StepShape
  <1>4. Key(h)' = Key(h)
    BY <1>1, <1>3 DEF Key
  <1> SUFFICES ASSUME NEW k \in Keys
               PROVE  /\ row[k] # "completed" => created'[k] <= mishaps + Cardinality(Marking(k)')
                      /\ row[k] = "completed" =>
                            created'[k] + Cardinality(Creating(k)') <= Cardinality(Hosts) + mishaps
    BY <1>1 DEF RepeatsCounted
  <1>5. /\ row[k] # "completed" => created[k] <= mishaps + Cardinality(Marking(k))
        /\ row[k] = "completed" => created[k] + Cardinality(Creating(k)) <= Cardinality(Hosts) + mishaps
    BY DEF RepeatsCounted
  <1>6. created[k] \in Nat /\ mishaps \in Nat /\ Cardinality(Hosts) \in Nat
    BY Counted DEF RecurringTypeOK
  <1>7. /\ Marking(k) \ {h} = Marking(k)' \ {h} /\ Creating(k) \ {h} = Creating(k)' \ {h}
    BY <1>1, <1>3, OthersCounted
  <1>8. h \notin Marking(k) /\ h \notin Creating(k)'
    BY <1>1, <1>3 DEF Marking, Creating
  <1>9. CASE k = c
    <2>1. h \in Creating(k) /\ h \in Marking(k)'
      BY <1>1, <1>3, <1>4, <1>9 DEF Creating, Marking
    <2>2. /\ Cardinality(Marking(k)') = Cardinality(Marking(k)) + 1
          /\ Cardinality(Creating(k)') = Cardinality(Creating(k)) - 1
          /\ Cardinality(Marking(k)) \in Nat /\ Cardinality(Creating(k)) \in Nat
      BY <2>1, <1>7, <1>8, CardStep, Counted
    <2>3. created'[k] = created[k] + 1
      BY <1>1, <1>9 DEF RecurringTypeOK
    <2>4. QED
      BY <2>2, <2>3, <1>5, <1>6
  <1>10. CASE k # c
    <2>1. h \notin Creating(k) /\ h \notin Marking(k)'
      BY <1>1, <1>3, <1>4, <1>10 DEF Creating, Marking
    <2>2. Marking(k)' = Marking(k) /\ Creating(k)' = Creating(k)
      BY <2>1, <1>7, <1>8
    <2>3. created'[k] = created[k]
      BY <1>1, <1>10 DEF RecurringTypeOK
    <2>4. QED
      BY <2>2, <2>3, <1>5
  <1>11. QED
    BY <1>9, <1>10

LEMMA MarkCounted ==
    ASSUME RecurringTypeOK, HostShape, ClaimRecorded, RepeatsCounted,
           NEW h \in Hosts, MarkCompleted(h)
    PROVE  RepeatsCounted'
  <1> DEFINE c == Key(h)
  <1>1. /\ host[h].state = "mark" /\ Step(h, "next") /\ UNCHANGED <<created, mishaps, today>>
        /\ row' = [row EXCEPT ![c] = IF row[c] = "open" THEN "completed" ELSE row[c]]
    BY DEF MarkCompleted, clock
  <1>2. "next" \in JobStates \ {"idle"} /\ "next" \notin Working
    BY DEF JobStates, Working
  <1>3. /\ \A g \in Hosts : host'[g].todo = host[g].todo /\ host'[g].at = host[g].at
        /\ \A g \in Hosts : host'[g].state = IF g = h THEN "next" ELSE host[g].state
    BY <1>1, <1>2, StepShape
  <1> SUFFICES ASSUME NEW k \in Keys
               PROVE  /\ row'[k] # "completed" => created[k] <= mishaps + Cardinality(Marking(k)')
                      /\ row'[k] = "completed" =>
                            created[k] + Cardinality(Creating(k)') <= Cardinality(Hosts) + mishaps
    BY <1>1 DEF RepeatsCounted
  <1>5. /\ row[k] # "completed" => created[k] <= mishaps + Cardinality(Marking(k))
        /\ row[k] = "completed" => created[k] + Cardinality(Creating(k)) <= Cardinality(Hosts) + mishaps
    BY DEF RepeatsCounted
  <1>6. created[k] \in Nat /\ mishaps \in Nat /\ Cardinality(Hosts) \in Nat
        /\ Cardinality(Marking(k)) \in Nat /\ Cardinality(Creating(k)) \in Nat
        /\ Cardinality(Marking(k)) + Cardinality(Creating(k)) <= Cardinality(Hosts)
    BY Counted DEF RecurringTypeOK
  <1>7. /\ Marking(k) \ {h} = Marking(k)' \ {h} /\ Creating(k) \ {h} = Creating(k)' \ {h}
    BY <1>1, <1>3, OthersCounted
  <1>8. Creating(k)' = Creating(k)
    <2>1. h \notin Creating(k) /\ h \notin Creating(k)'
      BY <1>1, <1>3 DEF Creating
    <2>2. QED
      BY <2>1, <1>7
  <1>9. CASE row'[k] = "completed"
    BY <1>5, <1>6, <1>8, <1>9
  <1>10. CASE row'[k] # "completed"
    <2>1. row'[k] = row[k] /\ row[k] # "completed"
      BY <1>1, <1>10 DEF RecurringTypeOK
    <2>2. CASE k = c
      <3>1. row[k] # "open"
        BY <1>1, <2>2, <1>10 DEF RecurringTypeOK
      <3>2. row[k] # "none"
        BY <2>2, <1>1 DEF ClaimRecorded
      <3>3. row[k] \in {"none", "open", "completed"}
        BY DEF RecurringTypeOK
      <3>4. QED
        BY <3>1, <3>2, <3>3, <2>1
    <2>3. CASE k # c
      <3>1. h \notin Marking(k) /\ h \notin Marking(k)'
        BY <1>1, <1>3, <2>3 DEF Marking
      <3>2. Marking(k)' = Marking(k)
        BY <3>1, <1>7
      <3>3. QED
        BY <3>2, <2>1, <1>5, <1>10
    <2>4. QED
      BY <2>2, <2>3
  <1>11. QED
    BY <1>9, <1>10

LEMMA InsertCounted ==
    ASSUME RecurringTypeOK, HostShape, RepeatsCounted, NEW h \in Hosts, InsertIfAbsent(h)
    PROVE  RepeatsCounted'
  <1> DEFINE c == Key(h)
             l == IF ShouldProceed(c) THEN "create" ELSE "next"
  <1>1. /\ host[h].state = "insert" /\ Step(h, l) /\ UNCHANGED <<created, mishaps, today>>
        /\ row' = [row EXCEPT ![c] = IF row[c] = "none" THEN "open" ELSE row[c]]
    BY DEF InsertIfAbsent, clock
  <1>2. l \in JobStates \ {"idle"} /\ (l \in Working => host[h].state \in Working) /\ l # "mark"
        /\ (l = "create" => row[c] # "completed")
    BY <1>1 DEF JobStates, Working, ShouldProceed
  <1> HIDE DEF l
  <1>3. /\ \A g \in Hosts : host'[g].todo = host[g].todo /\ host'[g].at = host[g].at
        /\ \A g \in Hosts : host'[g].state = IF g = h THEN l ELSE host[g].state
    BY <1>1, <1>2, StepShape
  <1>4. Key(h)' = c
    BY <1>1, <1>3 DEF Key
  <1> SUFFICES ASSUME NEW k \in Keys
               PROVE  /\ row'[k] # "completed" => created[k] <= mishaps + Cardinality(Marking(k)')
                      /\ row'[k] = "completed" =>
                            created[k] + Cardinality(Creating(k)') <= Cardinality(Hosts) + mishaps
    BY <1>1 DEF RepeatsCounted
  <1>5. /\ row[k] # "completed" => created[k] <= mishaps + Cardinality(Marking(k))
        /\ row[k] = "completed" => created[k] + Cardinality(Creating(k)) <= Cardinality(Hosts) + mishaps
    BY DEF RepeatsCounted
  <1>7. /\ Marking(k) \ {h} = Marking(k)' \ {h} /\ Creating(k) \ {h} = Creating(k)' \ {h}
    BY <1>1, <1>3, OthersCounted
  <1>8. Marking(k)' = Marking(k)
    <2>1. h \notin Marking(k) /\ h \notin Marking(k)'
      BY <1>1, <1>2, <1>3 DEF Marking
    <2>2. QED
      BY <2>1, <1>7
  <1>9. row'[k] = "completed" <=> row[k] = "completed"
    BY <1>1 DEF RecurringTypeOK
  <1>10. row[k] = "completed" => Creating(k)' = Creating(k)
    <2>1. ASSUME row[k] = "completed" PROVE h \notin Creating(k) /\ h \notin Creating(k)'
      BY <2>1, <1>1, <1>2, <1>3, <1>4 DEF Creating
    <2>2. QED
      BY <2>1, <1>7
  <1>11. QED
    BY <1>5, <1>8, <1>9, <1>10

LEMMA EndsCounted ==
    ASSUME RecurringTypeOK, HostShape, RepeatsCounted, NEW h \in Hosts, RunEnds(h) \/ RunDies(h)
    PROVE  RepeatsCounted'
  <1>1. \A g \in Hosts : host'[g] = IF g = h THEN Resting ELSE host[g]
    BY EndsType
  <1>2. UNCHANGED <<row, created, today>>
    BY DEF RunEnds, RunDies, tables, clock
  <1>3. mishaps \in Nat /\ mishaps' \in Nat /\ mishaps' >= mishaps
        /\ (host[h].state = "next" \/ mishaps' = mishaps + 1)
    BY DEF RunEnds, RunDies, clock, RecurringTypeOK
  <1>4. Resting.state = "idle"
    BY DEF Resting
  <1>5. ASSUME NEW k \in Keys
        PROVE  /\ Cardinality(Creating(k)') \in Nat /\ Cardinality(Marking(k)') \in Nat
               /\ Cardinality(Creating(k)') <= Cardinality(Creating(k))
               /\ mishaps + Cardinality(Marking(k)) <= mishaps' + Cardinality(Marking(k)')
    <2>1. /\ Marking(k) \ {h} = Marking(k)' \ {h} /\ Creating(k) \ {h} = Creating(k)' \ {h}
      BY <1>1, <1>2, OthersCounted
    <2>2. h \notin Marking(k)' /\ h \notin Creating(k)'
      BY <1>1, <1>4 DEF Marking, Creating
    <2>3. /\ Cardinality(Creating(k)) \in Nat /\ Cardinality(Creating(k)') \in Nat
          /\ h \in Creating(k) => Cardinality(Creating(k)') = Cardinality(Creating(k)) - 1
          /\ h \notin Creating(k) => Creating(k)' = Creating(k)
      BY <2>1, <2>2, Counted, CardStep
    <2>4. /\ Cardinality(Marking(k)) \in Nat /\ Cardinality(Marking(k)') \in Nat
          /\ h \in Marking(k) => Cardinality(Marking(k)') = Cardinality(Marking(k)) - 1
          /\ h \notin Marking(k) => Marking(k)' = Marking(k)
      BY <2>1, <2>2, Counted, CardStep
    <2>5. h \in Marking(k) => mishaps' = mishaps + 1
      BY <1>3 DEF Marking
    <2>6. Cardinality(Creating(k)') <= Cardinality(Creating(k))
      BY <2>3
    <2>7. mishaps + Cardinality(Marking(k)) <= mishaps' + Cardinality(Marking(k)')
      BY <2>4, <2>5, <1>3
    <2>8. QED
      BY <2>3, <2>4, <2>6, <2>7
  <1>6. QED
    BY <1>2, <1>3, <1>5, FewerCounted

LEMMA LockCounted ==
    ASSUME RecurringTypeOK, HostShape, RepeatsCounted, NEW h \in Hosts,
           \/ RunJob(h)
           \/ \E t \in Templates : TryAdvisoryLock(h, t)
    PROVE  RepeatsCounted'
  <1>1. UNCHANGED <<row, created, mishaps, today>>
    BY DEF RunJob, TryAdvisoryLock, tables, clock
  <1>2. host[h].state \notin {"create", "mark"}
    BY DEF RunJob, TryAdvisoryLock
  <1>3. host'[h].state \notin {"create", "mark"} /\ \A g \in Hosts \ {h} : host'[g] = host[g]
    <2>1. CASE RunJob(h)
      <3>1. host'[h].state = "next" /\ \A g \in Hosts \ {h} : host'[g] = host[g]
        BY <2>1 DEF RunJob, RecurringTypeOK, Resting
      <3>2. QED
        BY <3>1
    <2>2. ASSUME NEW t \in Templates, TryAdvisoryLock(h, t)
          PROVE  host'[h].state \notin {"create", "mark"} /\ \A g \in Hosts \ {h} : host'[g] = host[g]
      <3>1. host'[h].state \in {"insert", "next"} /\ \A g \in Hosts \ {h} : host'[g] = host[g]
        BY <2>2, LockType
      <3>2. QED
        BY <3>1
    <2>3. QED
      BY <2>1, <2>2
  <1>4. ASSUME NEW k \in Keys PROVE Creating(k)' = Creating(k) /\ Marking(k)' = Marking(k)
    <2>1. /\ Marking(k) \ {h} = Marking(k)' \ {h} /\ Creating(k) \ {h} = Creating(k)' \ {h}
      BY <1>1, <1>3, OthersCounted
    <2>2. h \notin Marking(k) /\ h \notin Creating(k) /\ h \notin Marking(k)' /\ h \notin Creating(k)'
      BY <1>2, <1>3 DEF Marking, Creating
    <2>3. QED
      BY <2>1, <2>2
  <1>5. QED
    BY <1>1, <1>4 DEF RepeatsCounted

LEMMA NoneAdded ==
    ASSUME NEW m \in Nat, NEW n \in Nat, n >= m, NEW x, NEW y, x = 0, y = 0
    PROVE  m + x <= n + y
  OBVIOUS

\* At the turn of the day nothing is counted.
LEMMA DayCounted ==
    ASSUME RecurringTypeOK, RepeatsCounted, NextDay
    PROVE  RepeatsCounted'
  <1>1. UNCHANGED <<row, created, host>> /\ mishaps \in Nat /\ mishaps' \in Nat /\ mishaps' >= mishaps
    BY DEF NextDay, tables, RecurringTypeOK
  <1>2. ASSUME NEW k \in Keys
        PROVE  Creating(k) = {} /\ Creating(k)' = {} /\ Marking(k) = {} /\ Marking(k)' = {}
    BY <1>1 DEF NextDay, Creating, Marking
  <1>3. Cardinality({}) = 0
    BY FS_EmptySet
  <1>4. ASSUME NEW k \in Keys
        PROVE  /\ Cardinality(Creating(k)') \in Nat /\ Cardinality(Marking(k)') \in Nat
               /\ Cardinality(Creating(k)') <= Cardinality(Creating(k))
               /\ mishaps + Cardinality(Marking(k)) <= mishaps' + Cardinality(Marking(k)')
    <2>1. /\ Cardinality(Creating(k)) = 0 /\ Cardinality(Creating(k)') = 0
          /\ Cardinality(Marking(k)) = 0 /\ Cardinality(Marking(k)') = 0
      BY <1>2, <1>3
    <2>2. mishaps + Cardinality(Marking(k)) <= mishaps' + Cardinality(Marking(k)')
      BY <2>1, <1>1, NoneAdded
    <2>3. 0 \in Nat /\ 0 <= 0
      OBVIOUS
    <2>4. QED
      BY <2>1, <2>2, <2>3
  <1>5. QED
    BY <1>1, <1>4, FewerCounted

\* When a template is edited everything is counted as before.
LEMMA QuietCounted ==
    ASSUME RecurringTypeOK, RepeatsCounted, UNCHANGED <<row, created, mishaps, host, today>>
    PROVE  RepeatsCounted'
  <1>1. ASSUME NEW k \in Keys PROVE Creating(k)' = Creating(k) /\ Marking(k)' = Marking(k)
    BY DEF Creating, Marking, Key
  <1>2. QED
    BY <1>1 DEF RepeatsCounted

-----------------------------------------------------------------------------
(* A completed month has its transaction.                                   *)

\* Hosts at the same step of the same template keep their key.
LEMMA ClaimStep ==
    ASSUME RecurringTypeOK, HostShape, ClaimRecorded, CompletedWasCreated,
           NEW h \in Hosts, \/ InsertIfAbsent(h)
                            \/ CreateFromTemplate(h)
                            \/ MarkCompleted(h)
    PROVE  ClaimRecorded' /\ CompletedWasCreated'
  <1> DEFINE c == Key(h)
  <1>1. /\ today' = today /\ host[h].state \in Working
        /\ row \in [Keys -> {"none", "open", "completed"}] /\ created \in [Keys -> Nat]
    BY DEF InsertIfAbsent, CreateFromTemplate, MarkCompleted, clock, Working, RecurringTypeOK
  <1>2. c \in Keys
    BY <1>1, KeyType
  <1>3. /\ \A k \in Keys : row[k] # "none" => row'[k] # "none"
        /\ \A k \in Keys : created[k] > 0 => created'[k] > 0
        /\ InsertIfAbsent(h) => row'[c] # "none"
        /\ CreateFromTemplate(h) => created'[c] > 0
    <2>1. CASE InsertIfAbsent(h)
      <3>1. row' = [row EXCEPT ![c] = IF row[c] = "none" THEN "open" ELSE row[c]] /\ created' = created
            /\ host[h].state = "insert"
        BY <2>1 DEF InsertIfAbsent
      <3>2. ~CreateFromTemplate(h)
        BY <3>1 DEF CreateFromTemplate
      <3>3. QED
        BY <3>1, <3>2, <1>1, <1>2
    <2>2. CASE CreateFromTemplate(h)
      <3>1. created' = [created EXCEPT ![c] = created[c] + 1] /\ row' = row /\ host[h].state = "create"
        BY <2>2 DEF CreateFromTemplate
      <3>2. ~InsertIfAbsent(h)
        BY <3>1 DEF InsertIfAbsent
      <3>3. \A k \in Keys : created'[k] = IF k = c THEN created[k] + 1 ELSE created[k]
        BY <3>1, <1>1
      <3>4. \A k \in Keys : created[k] \in Nat
        BY <1>1
      <3>5. (\A k \in Keys : created[k] > 0 => created'[k] > 0) /\ created'[c] > 0
        BY <3>3, <3>4, <1>2
      <3>6. QED
        BY <3>1, <3>2, <3>5
    <2>3. CASE MarkCompleted(h)
      <3>1. row' = [row EXCEPT ![c] = IF row[c] = "open" THEN "completed" ELSE row[c]] /\ created' = created
            /\ host[h].state = "mark"
        BY <2>3 DEF MarkCompleted
      <3>2. ~CreateFromTemplate(h) /\ ~InsertIfAbsent(h)
        BY <3>1 DEF CreateFromTemplate, InsertIfAbsent
      <3>3. QED
        BY <3>1, <3>2, <1>1, <1>2
    <2>4. QED
      BY <2>1, <2>2, <2>3
  <1>4. \A g \in Hosts : Key(g)' = Key(g) /\ (g # h => host'[g].state = host[g].state)
    <2>1. ASSUME NEW l \in JobStates \ {"idle"}, Step(h, l), l \in Working => host[h].state \in Working
          PROVE  \A g \in Hosts : Key(g)' = Key(g) /\ (g # h => host'[g].state = host[g].state)
      BY <2>1, <1>1, StepShape DEF Key
    <2>2. \E l \in JobStates \ {"idle"} : Step(h, l)
      BY DEF InsertIfAbsent, CreateFromTemplate, MarkCompleted, JobStates
    <2>3. QED
      BY <2>1, <2>2, <1>1
  <1>5. /\ InsertIfAbsent(h) => host'[h].state # "mark"
        /\ CreateFromTemplate(h) => host[h].state = "create"
        /\ MarkCompleted(h) => host[h].state = "mark" /\ host'[h].state = "next"
    BY HostRecord DEF InsertIfAbsent, CreateFromTemplate, MarkCompleted, Step, RecurringTypeOK
  <1>6. ClaimRecorded'
    <2> SUFFICES ASSUME NEW g \in Hosts
                 PROVE  /\ host'[g].state \in {"create", "mark"} => row'[Key(g)] # "none"
                        /\ host'[g].state = "mark" => created'[Key(g)] > 0
      BY <1>4 DEF ClaimRecorded
    <2>1. CASE g # h
      <3>1. host[g].state \in {"create", "mark"} => Key(g) \in Keys
        BY KeyType DEF Working
      <3>2. QED
        BY <2>1, <3>1, <1>3, <1>4 DEF ClaimRecorded
    <2>2. CASE g = h
      BY <2>2, <1>2, <1>3, <1>5 DEF ClaimRecorded
    <2>3. QED
      BY <2>1, <2>2
  <1>7. CompletedWasCreated'
    <2> SUFFICES ASSUME NEW k \in Keys, row'[k] = "completed" PROVE created'[k] > 0
      BY DEF CompletedWasCreated
    <2>1. row[k] = "completed" \/ (MarkCompleted(h) /\ k = c)
      BY <1>1 DEF InsertIfAbsent, CreateFromTemplate, MarkCompleted
    <2>2. created[k] > 0
      BY <2>1, <1>5 DEF CompletedWasCreated, ClaimRecorded
    <2>3. QED
      BY <2>2, <1>3
  <1>8. QED
    BY <1>6, <1>7

LEMMA ClaimKept ==
    ASSUME ClaimRecorded, CompletedWasCreated, UNCHANGED <<row, created>>,
           \A g \in Hosts : host'[g].state \in {"create", "mark"} =>
                                host'[g].state = host[g].state /\ Key(g)' = Key(g)
    PROVE  ClaimRecorded' /\ CompletedWasCreated'
  BY DEF ClaimRecorded, CompletedWasCreated

LEMMA OtherClaims ==
    ASSUME RecurringTypeOK, HostShape, ClaimRecorded, CompletedWasCreated,
           NEW h \in Hosts, \/ RunJob(h)
                            \/ \E t \in Templates : TryAdvisoryLock(h, t)
                            \/ RunEnds(h)
                            \/ RunDies(h)
    PROVE  ClaimRecorded' /\ CompletedWasCreated'
  <1>1. UNCHANGED <<row, created, today>>
    BY DEF RunJob, TryAdvisoryLock, RunEnds, RunDies, tables, clock
  <1>2. host'[h].state \notin {"create", "mark"} /\ \A g \in Hosts \ {h} : host'[g] = host[g]
    <2>1. ASSUME RunJob(h)
          PROVE  host'[h].state = "next" /\ \A g \in Hosts \ {h} : host'[g] = host[g]
      BY <2>1 DEF RunJob, RecurringTypeOK, Resting
    <2>2. ASSUME NEW t \in Templates, TryAdvisoryLock(h, t)
          PROVE  host'[h].state \in {"insert", "next"} /\ \A g \in Hosts \ {h} : host'[g] = host[g]
      BY <2>2, LockType
    <2>3. ASSUME RunEnds(h) \/ RunDies(h)
          PROVE  host'[h].state = "idle" /\ \A g \in Hosts \ {h} : host'[g] = host[g]
      BY <2>3, EndsType DEF Resting
    <2>4. QED
      BY <2>1, <2>2, <2>3
  <1>3. QED
    BY <1>1, <1>2, ClaimKept DEF Key

-----------------------------------------------------------------------------
(* Every template in force for a month is served in it.                     *)

LEMMA DueIsItsDay ==
    ASSUME RecurringTypeOK, NEW t \in Templates
    PROVE  /\ Due(t) <=> template[t].state = "live" /\ today.day = DueDay(t)
           /\ today.day \in Nat /\ DueDay(t) \in Nat \ {0} /\ DueDay(t) <= MonthDays[today.month]
  <1>1. /\ today.day \in Nat /\ template[t].day \in Nat \ {0}
        /\ today.day <= MonthDays[today.month] /\ MonthDays[today.month] \in Nat \ {0}
    BY RecurringAssumption DEF RecurringTypeOK
  <1>2. QED
    BY <1>1 DEF Due, DueDay

\* A step on the same day that forgets no run and no transaction.
LEMMA OnTimeKept ==
    ASSUME RecurringTypeOK, OnTime, UNCHANGED <<today, template, steady>>,
           mishaps' = 0 => mishaps = 0,
           \A k \in Keys : created[k] > 0 => created'[k] > 0,
           mishaps = 0 =>
              \A t \in steady : today.day = DueDay(t) /\ ran' # {} /\ (ran # {} => Underway(t)) =>
                                   Served(t)' \/ Underway(t)'
    PROVE  OnTime'
  <1> SUFFICES ASSUME mishaps' = 0, NEW t \in steady
               PROVE  /\ template[t].state = "live"
                      /\ today.day > DueDay(t) => Served(t)'
                      /\ today.day = DueDay(t) /\ ran' # {} => Served(t)' \/ Underway(t)'
    BY DEF OnTime, DueDay
  <1>1. mishaps = 0 /\ t \in Templates /\ <<t, today.month>> \in Keys
    BY DEF RecurringTypeOK, Keys
  <1>2. /\ template[t].state = "live"
        /\ today.day > DueDay(t) => Served(t)
        /\ today.day = DueDay(t) /\ ran # {} => Served(t) \/ Underway(t)
    BY <1>1 DEF OnTime
  <1>3. Served(t) => Served(t)'
    BY <1>1 DEF Served
  <1>4. QED
    BY <1>1, <1>2, <1>3

\* The steps of a run other than its start and its end keep a template under
\* way or serve it.
LEMMA RunOnTime ==
    ASSUME RecurringTypeOK, HostShape, OnTime, CompletedWasCreated, NEW h \in Hosts,
           \/ \E t \in Templates : TryAdvisoryLock(h, t)
           \/ InsertIfAbsent(h)
           \/ CreateFromTemplate(h)
           \/ MarkCompleted(h)
           \/ RunEnds(h)
    PROVE  OnTime'
  <1>1. UNCHANGED <<today, template, steady, ran, mishaps>>
    BY DEF TryAdvisoryLock, InsertIfAbsent, CreateFromTemplate, MarkCompleted, RunEnds, tables, clock
  <1>2. \A k \in Keys : created[k] > 0 => created'[k] > 0
    <2>1. CASE created' = created
      BY <2>1
    <2>2. CASE CreateFromTemplate(h)
      <3>1. created' = [created EXCEPT ![Key(h)] = created[Key(h)] + 1]
        BY <2>2 DEF CreateFromTemplate
      <3>2. created \in [Keys -> Nat]
        BY DEF RecurringTypeOK
      <3>3. \A k \in Keys : created'[k] = created[k] \/ created'[k] = created[k] + 1
        BY <3>1, <3>2
      <3>4. \A k \in Keys : created[k] \in Nat
        BY <3>2
      <3>5. QED
        BY <3>3, <3>4
    <2>3. QED
      BY <2>1, <2>2 DEF TryAdvisoryLock, InsertIfAbsent, MarkCompleted, RunEnds, tables
  <1>3. ASSUME NEW t \in steady, Underway(t) PROVE Served(t)' \/ Underway(t)'
    <2>1. PICK g \in Hosts : \/ t \in host[g].todo
                             \/ host[g].state \in {"insert", "create"} /\ host[g].at = t
      BY <1>3 DEF Underway
    <2>2. t \in Templates /\ <<t, today.month>> \in Keys
      BY DEF RecurringTypeOK, Keys
    <2>3. ASSUME NEW u \in Templates, TryAdvisoryLock(h, u) PROVE Underway(t)'
      <3>1. host[h].state = "next"
        BY <2>3 DEF TryAdvisoryLock
      <3>2. CASE g # h \/ (t \in host[g].todo /\ t # u)
        <4>1. /\ \A i \in Hosts : host'[i].todo = IF i = h THEN host[h].todo \ {u} ELSE host[i].todo
              /\ \A i \in Hosts \ {h} : host'[i] = host[i]
          BY <2>3, LockType
        <4>2. CASE g # h
          BY <4>1, <4>2, <2>1 DEF Underway
        <4>3. CASE g = h /\ t \in host[g].todo /\ t # u
          <5>1. t \in host'[h].todo
            BY <4>1, <4>3
          <5>2. QED
            BY <5>1 DEF Underway
        <4>4. QED
          BY <3>2, <4>2, <4>3
      <3>3. CASE g = h /\ t = u
        BY <3>3, <2>3, LockType DEF Underway
      <3>4. QED
        BY <3>1, <3>2, <3>3, <2>1
    <2>4. ASSUME NEW l \in JobStates \ {"idle"}, Step(h, l), l \in Working => host[h].state \in Working,
                 g # h \/ t \in host[g].todo \/ l \in {"insert", "create"}
          PROVE  Underway(t)'
      <3>1. /\ \A i \in Hosts : host'[i].todo = host[i].todo /\ host'[i].at = host[i].at
            /\ \A i \in Hosts : host'[i].state = IF i = h THEN l ELSE host[i].state
        BY <2>4, StepShape
      <3>2. QED
        BY <3>1, <2>1, <2>4 DEF Underway
    <2>5. CASE InsertIfAbsent(h)
      <3>1. host[h].state = "insert" /\ "create" \in JobStates \ {"idle"} /\ "next" \in JobStates \ {"idle"}
            /\ "next" \notin Working /\ host[h].state \in Working
        BY <2>5 DEF InsertIfAbsent, JobStates, Working
      <3>2. CASE ShouldProceed(Key(h))
        <4>1. Step(h, "create")
          BY <2>5, <3>2 DEF InsertIfAbsent
        <4>2. QED
          BY <4>1, <3>1, <2>4
      <3>3. CASE ~ShouldProceed(Key(h))
        <4>1. Step(h, "next")
          BY <2>5, <3>3 DEF InsertIfAbsent
        <4>2. CASE g # h \/ t \in host[g].todo
          BY <4>1, <4>2, <3>1, <2>4
        <4>3. CASE g = h /\ t \notin host[g].todo
          <5>1. Key(h) = <<t, today.month>>
            BY <4>3, <2>1 DEF Key
          <5>2. created[<<t, today.month>>] > 0
            BY <5>1, <3>3, <2>2 DEF ShouldProceed, CompletedWasCreated
          <5>3. QED
            BY <5>2, <1>1, <1>2, <2>2 DEF Served
        <4>4. QED
          BY <4>2, <4>3
      <3>4. QED
        BY <3>2, <3>3
    <2>6. CASE CreateFromTemplate(h)
      <3>1. host[h].state = "create" /\ "mark" \in JobStates \ {"idle"} /\ host[h].state \in Working
            /\ Step(h, "mark") /\ created' = [created EXCEPT ![Key(h)] = created[Key(h)] + 1]
        BY <2>6 DEF CreateFromTemplate, JobStates, Working
      <3>2. CASE g # h \/ t \in host[g].todo
        BY <3>1, <3>2, <2>4
      <3>3. CASE g = h /\ t \notin host[g].todo
        <4>1. Key(h) = <<t, today.month>>
          BY <3>3, <2>1 DEF Key
        <4>2. created'[<<t, today.month>>] = created[<<t, today.month>>] + 1
              /\ created[<<t, today.month>>] \in Nat
          BY <4>1, <3>1, <2>2 DEF RecurringTypeOK
        <4>3. created'[<<t, today.month>>] > 0
          BY <4>2
        <4>4. QED
          BY <4>3, <1>1 DEF Served
      <3>4. QED
        BY <3>2, <3>3
    <2>7. CASE MarkCompleted(h)
      <3>1. host[h].state = "mark" /\ Step(h, "next") /\ "next" \in JobStates \ {"idle"} /\ "next" \notin Working
        BY <2>7 DEF MarkCompleted, JobStates, Working
      <3>2. g # h \/ t \in host[g].todo
        BY <3>1, <2>1
      <3>3. QED
        BY <3>1, <3>2, <2>4
    <2>8. CASE RunEnds(h)
      <3>1. host[h].state = "next" /\ host[h].todo = {}
        BY <2>8 DEF RunEnds
      <3>2. g # h
        BY <3>1, <2>1
      <3>3. QED
        BY <3>2, <2>1, <2>8, EndsType DEF Underway
    <2>9. QED
      BY <2>3, <2>5, <2>6, <2>7, <2>8
  <1>4. QED
    BY <1>1, <1>2, <1>3, OnTimeKept

LEMMA StartOnTime ==
    ASSUME RecurringTypeOK, HostShape, OnTime, NEW h \in Hosts, RunJob(h)
    PROVE  OnTime'
  <1>1. UNCHANGED <<today, template, steady, created, mishaps>>
    BY DEF RunJob, tables
  <1>2. /\ host[h].state = "idle" /\ host[h].todo = {}
        /\ host'[h].todo = {t \in Templates : Due(t)}
        /\ \A g \in Hosts \ {h} : host'[g] = host[g]
    BY DEF RunJob, RecurringTypeOK, Resting, HostShape
  <1>3. mishaps = 0 =>
          \A t \in steady : today.day = DueDay(t) /\ ran' # {} /\ (ran # {} => Underway(t)) =>
                               Served(t)' \/ Underway(t)'
    <2> SUFFICES ASSUME mishaps = 0, NEW t \in steady, today.day = DueDay(t) PROVE Underway(t)'
      OBVIOUS
    <2>1. t \in Templates /\ template[t].state = "live"
      BY DEF RecurringTypeOK, OnTime
    <2>2. t \in host'[h].todo
      BY <2>1, <1>2, DueIsItsDay
    <2>3. QED
      BY <2>2 DEF Underway
  <1>4. QED
    BY <1>1, <1>3, OnTimeKept

LEMMA EditOnTime ==
    ASSUME RecurringTypeOK, OnTime, NEW t \in Templates, NEW new, Edit(t, new)
    PROVE  OnTime'
  <1>1. /\ UNCHANGED <<today, created, host, ran, mishaps>>
        /\ steady' = steady \ {t} /\ \A u \in Templates \ {t} : template'[u] = template[u]
    BY DEF Edit, RecurringTypeOK
  <1>2. steady \subseteq Templates
    BY DEF RecurringTypeOK
  <1>3. ASSUME NEW u \in steady'
        PROVE  /\ u \in steady /\ template'[u] = template[u] /\ DueDay(u)' = DueDay(u)
               /\ Served(u)' = Served(u) /\ Underway(u)' = Underway(u)
    BY <1>1, <1>2 DEF DueDay, Served, Underway
  <1>4. QED
    BY <1>1, <1>3 DEF OnTime

\* The day turns only when every run is over.
LEMMA DayOnTime ==
    ASSUME RecurringTypeOK, HostShape, OnTime, NextDay
    PROVE  /\ OnTime'
           /\ today'.month # today.month /\ mishaps' = 0 => \A t \in steady : Served(t)
  <1>1. UNCHANGED <<template, row, created, host>> /\ ran' = {}
    BY DEF NextDay, tables
  <1>2. \A t \in steady : ~Underway(t)
    BY DEF NextDay, HostShape, Underway
  <1>3. mishaps' = 0 => mishaps = 0 /\ ran # {}
    BY DEF NextDay, RecurringTypeOK
  <1>4. /\ today \in [month : Calendar, day : Nat \ {0}] /\ today.day \in Nat \ {0}
        /\ today.day <= MonthDays[today.month] /\ MonthDays[today.month] \in Nat \ {0}
        /\ today.month \in Nat
    BY RecurringAssumption DEF RecurringTypeOK
  <1>5. ASSUME mishaps' = 0, NEW t \in steady
        PROVE  /\ template[t].state = "live" /\ DueDay(t) \in Nat \ {0}
               /\ DueDay(t) <= MonthDays[today.month]
               /\ today.day >= DueDay(t) => Served(t)
    <2>1. t \in Templates
      BY DEF RecurringTypeOK
    <2>2. /\ template[t].state = "live"
          /\ today.day > DueDay(t) => Served(t)
          /\ today.day = DueDay(t) => Served(t)
      BY <1>2, <1>3, <1>5 DEF OnTime
    <2>3. today.day \in Nat /\ DueDay(t) \in Nat \ {0} /\ DueDay(t) <= MonthDays[today.month]
      BY <2>1, DueIsItsDay
    <2>4. today.day >= DueDay(t) => today.day > DueDay(t) \/ today.day = DueDay(t)
      BY <2>3
    <2>5. QED
      BY <2>2, <2>3, <2>4
  <1>6. CASE today.day < MonthDays[today.month]
    <2>1. today' = [today EXCEPT !.day = @ + 1] /\ steady' = steady
      BY <1>6 DEF NextDay
    <2>2. today'.month = today.month /\ today'.day = today.day + 1
      BY <2>1, <1>4
    <2>3. ASSUME NEW t \in steady PROVE DueDay(t)' = DueDay(t) /\ Served(t)' = Served(t)
      BY <1>1, <2>2 DEF DueDay, Served
    <2>4. ASSUME mishaps' = 0, NEW t \in steady
          PROVE  template[t].state = "live" /\ (today'.day > DueDay(t) => Served(t))
      <3>1. today'.day > DueDay(t) => today.day >= DueDay(t)
        BY <2>2, <1>4, <1>5, <2>4
      <3>2. QED
        BY <3>1, <1>5, <2>4
    <2>5. OnTime'
      BY <1>1, <2>1, <2>3, <2>4 DEF OnTime
    <2>6. QED
      BY <2>2, <2>5
  <1>7. CASE ~(today.day < MonthDays[today.month])
    <2>1. /\ today.month + 1 \in Calendar /\ today' = [month |-> today.month + 1, day |-> 1]
          /\ steady' = {t \in Templates : template[t].state = "live"}
      BY <1>7 DEF NextDay
    <2>2. MonthDays[today.month + 1] \in Nat \ {0}
      BY <2>1, RecurringAssumption
    <2>3. ASSUME NEW t \in steady' PROVE template[t].state = "live" /\ ~(today'.day > DueDay(t)')
      <3>1. t \in Templates /\ template[t].state = "live" /\ template[t].day \in Nat \ {0}
        BY <2>1 DEF RecurringTypeOK
      <3>2. today'.day = 1 /\ today'.month = today.month + 1
        BY <2>1
      <3>3. DueDay(t)' \in Nat \ {0}
        BY <3>1, <3>2, <2>2, <1>1 DEF DueDay
      <3>4. QED
        BY <3>1, <3>2, <3>3
    <2>4. OnTime'
      BY <1>1, <2>3 DEF OnTime
    <2>5. ASSUME mishaps' = 0, NEW t \in steady PROVE Served(t)
      <3>1. today.day >= DueDay(t)
        BY <1>4, <1>5, <1>7, <2>5
      <3>2. QED
        BY <3>1, <1>5, <2>5
    <2>6. QED
      BY <2>4, <2>5
  <1>8. QED
    BY <1>6, <1>7

-----------------------------------------------------------------------------
RecurringInv ==
    /\ RecurringTypeOK /\ HostShape
    /\ ClaimRecorded /\ CompletedWasCreated
    /\ RepeatsCounted /\ OnTime

LEMMA InitInv == RecurringInit => RecurringInv
  <1> SUFFICES ASSUME RecurringInit PROVE RecurringInv
    OBVIOUS
  <1>1. RecurringTypeOK /\ HostShape
    BY InitType
  <1>2. ClaimRecorded /\ CompletedWasCreated
    BY DEF RecurringInit, Resting, ClaimRecorded, CompletedWasCreated
  <1>3. RepeatsCounted
    <2> SUFFICES ASSUME NEW k \in Keys
                 PROVE  row[k] # "completed" /\ created[k] <= mishaps + Cardinality(Marking(k))
      BY DEF RepeatsCounted
    <2>1. row[k] = "none" /\ created[k] = 0 /\ mishaps = 0
      BY DEF RecurringInit
    <2>2. Cardinality(Marking(k)) \in Nat
      BY Counted
    <2>3. QED
      BY <2>1, <2>2
  <1>4. OnTime
    BY DEF RecurringInit, OnTime
  <1>5. QED
    BY <1>1, <1>2, <1>3, <1>4 DEF RecurringInv

LEMMA NextInv == RecurringInv /\ [RecurringNext]_recurringVars => RecurringInv'
  <1> SUFFICES ASSUME RecurringInv, [RecurringNext]_recurringVars PROVE RecurringInv'
    OBVIOUS
  <1>0. /\ RecurringTypeOK /\ HostShape /\ ClaimRecorded /\ CompletedWasCreated
        /\ RepeatsCounted /\ OnTime
    BY DEF RecurringInv
  <1>1. RecurringTypeOK' /\ HostShape'
    BY <1>0, NextType
  <1>2. ASSUME NEW t \in Templates, NEW new, Edit(t, new)
        PROVE  ClaimRecorded' /\ CompletedWasCreated' /\ RepeatsCounted' /\ OnTime'
    <2>1. UNCHANGED <<row, created, mishaps, host, today>>
      BY <1>2 DEF Edit
    <2>2. ClaimRecorded' /\ CompletedWasCreated'
      BY <1>0, <2>1, ClaimKept DEF Key
    <2>3. QED
      BY <1>0, <1>2, <2>1, <2>2, QuietCounted, EditOnTime
  <1>3. ASSUME NEW h \in Hosts, RunJob(h)
        PROVE  ClaimRecorded' /\ CompletedWasCreated' /\ RepeatsCounted' /\ OnTime'
    BY <1>0, <1>3, OtherClaims, LockCounted, StartOnTime
  <1>4. ASSUME NEW h \in Hosts, NEW t \in Templates, TryAdvisoryLock(h, t)
        PROVE  ClaimRecorded' /\ CompletedWasCreated' /\ RepeatsCounted' /\ OnTime'
    BY <1>0, <1>4, OtherClaims, LockCounted, RunOnTime
  <1>5. ASSUME NEW h \in Hosts, InsertIfAbsent(h)
        PROVE  ClaimRecorded' /\ CompletedWasCreated' /\ RepeatsCounted' /\ OnTime'
    BY <1>0, <1>5, ClaimStep, InsertCounted, RunOnTime
  <1>6. ASSUME NEW h \in Hosts, CreateFromTemplate(h)
        PROVE  ClaimRecorded' /\ CompletedWasCreated' /\ RepeatsCounted' /\ OnTime'
    BY <1>0, <1>6, ClaimStep, CreateCounted, RunOnTime
  <1>7. ASSUME NEW h \in Hosts, MarkCompleted(h)
        PROVE  ClaimRecorded' /\ CompletedWasCreated' /\ RepeatsCounted' /\ OnTime'
    BY <1>0, <1>7, ClaimStep, MarkCounted, RunOnTime
  <1>8. ASSUME NEW h \in Hosts, RunEnds(h)
        PROVE  ClaimRecorded' /\ CompletedWasCreated' /\ RepeatsCounted' /\ OnTime'
    BY <1>0, <1>8, OtherClaims, EndsCounted, RunOnTime
  <1>9. ASSUME NEW h \in Hosts, RunDies(h)
        PROVE  ClaimRecorded' /\ CompletedWasCreated' /\ RepeatsCounted' /\ OnTime'
    <2>1. mishaps' # 0
      BY <1>0, <1>9 DEF RunDies, RecurringTypeOK
    <2>2. OnTime'
      BY <2>1 DEF OnTime
    <2>3. QED
      BY <1>0, <1>9, <2>2, OtherClaims, EndsCounted
  <1>10. ASSUME NextDay
         PROVE  ClaimRecorded' /\ CompletedWasCreated' /\ RepeatsCounted' /\ OnTime'
    <2>1. UNCHANGED <<row, created, host>> /\ \A h \in Hosts : host[h].state = "idle"
      BY <1>10 DEF NextDay, tables
    <2>2. ClaimRecorded' /\ CompletedWasCreated'
      BY <1>0, <2>1, ClaimKept
    <2>3. QED
      BY <1>0, <1>10, <2>2, DayCounted, DayOnTime
  <1>11. ASSUME UNCHANGED recurringVars
         PROVE  ClaimRecorded' /\ CompletedWasCreated' /\ RepeatsCounted' /\ OnTime'
    <2>1. UNCHANGED <<row, created, mishaps, host, today>> /\ UNCHANGED <<template, steady, ran>>
      BY <1>11 DEF recurringVars
    <2>2. ClaimRecorded' /\ CompletedWasCreated'
      BY <1>0, <2>1, ClaimKept DEF Key
    <2>3. OnTime'
      BY <1>0, <2>1 DEF OnTime, DueDay, Served, Underway
    <2>4. QED
      BY <1>0, <2>1, <2>2, <2>3, QuietCounted
  <1>12. ASSUME NEW t \in Templates,
                DeleteTemplate(t) \/ \E d \in TemplateDays : CreateTemplate(t, d) \/ UpdateTemplate(t, d)
         PROVE  ClaimRecorded' /\ CompletedWasCreated' /\ RepeatsCounted' /\ OnTime'
    <2>1. \E new : Edit(t, new)
      BY <1>12 DEF CreateTemplate, UpdateTemplate, DeleteTemplate
    <2>2. QED
      BY <2>1, <1>2
  <1>13. ClaimRecorded' /\ CompletedWasCreated' /\ RepeatsCounted' /\ OnTime'
    BY <1>3, <1>4, <1>5, <1>6, <1>7, <1>8, <1>9, <1>10, <1>11, <1>12 DEF RecurringNext
  <1>14. QED
    BY <1>1, <1>13 DEF RecurringInv

\* A materialisation row says "completed" only for a month whose transaction
\* was created.
THEOREM CompletedIsCreated == RecurringSpec => []CompletedWasCreated
  <1>1. RecurringInv => CompletedWasCreated
    BY DEF RecurringInv
  <1>2. QED
    BY InitInv, NextInv, <1>1, PTL DEF RecurringSpec

\* A template's month is materialised at most once for each process and once
\* more for each mishap, however often its day is moved.
THEOREM RepeatsBounded == RecurringSpec => []RepeatsArePaidFor
  <1>1. RecurringInv => RepeatsArePaidFor
    <2> SUFFICES ASSUME RecurringInv, NEW k \in Keys
                 PROVE  created[k] <= Cardinality(Hosts) + mishaps
      BY DEF RepeatsArePaidFor
    <2>1. created[k] \in Nat /\ mishaps \in Nat
      BY DEF RecurringInv, RecurringTypeOK
    <2>2. /\ Cardinality(Hosts) \in Nat
          /\ Cardinality(Marking(k)) \in Nat /\ Cardinality(Creating(k)) \in Nat
          /\ Cardinality(Marking(k)) + Cardinality(Creating(k)) <= Cardinality(Hosts)
      BY Counted
    <2>3. /\ row[k] # "completed" => created[k] <= mishaps + Cardinality(Marking(k))
          /\ row[k] = "completed" =>
                created[k] + Cardinality(Creating(k)) <= Cardinality(Hosts) + mishaps
      BY DEF RecurringInv, RepeatsCounted
    <2>4. QED
      BY <2>1, <2>2, <2>3
  <1>2. QED
    BY InitInv, NextInv, <1>1, PTL DEF RecurringSpec

\* When no run dies and no day is missed, a template in force for a whole
\* month is materialised in it, on the last day when the month is too short.
THEOREM MonthsServed == RecurringSpec => EveryMonthServed
  <1> DEFINE Turn == today'.month # today.month /\ mishaps' = 0 =>
                        \A t \in steady : created[<<t, today.month>>] > 0
  <1>1. RecurringInv /\ [RecurringNext]_recurringVars => [Turn]_recurringVars
    <2> SUFFICES ASSUME RecurringInv, RecurringNext, today' # today PROVE Turn
      BY DEF recurringVars
    <2>1. NextDay
      BY DEF RecurringNext, CreateTemplate, UpdateTemplate, DeleteTemplate, Edit, RunJob,
             TryAdvisoryLock, InsertIfAbsent, CreateFromTemplate, MarkCompleted, RunEnds, RunDies, clock
    <2>2. QED
      BY <2>1, DayOnTime DEF RecurringInv, Served
  <1>2. QED
    BY InitInv, NextInv, <1>1, PTL DEF RecurringSpec, EveryMonthServed

-----------------------------------------------------------------------------
(* The monthly summaries.                                                   *)

\* A recomputation of m is coming.
Coming(m) ==
    \/ events[m] > 0
    \/ \E p \in Processes : m \in timers[p]
    \/ \E s \in Slots : slot[s].state # "idle" /\ slot[s].month = m

Watched(m) == Coming(m) \/ WillBeListed(m) \/ m \in lost

\* What the reconciler read is no longer what the ledger says.
ReadIsStale ==
    \/ reconciler \in {"card", "compare", "upsert"} /\ at.cash # cash[at.month]
    \/ reconciler \in {"compare", "upsert"} /\ at.card # card[at.month]

StaleReadIsWatched == ReadIsStale => Watched(at.month)

SummaryInv == SummaryTypeOK /\ StaleIsWatched /\ StaleReadIsWatched

-----------------------------------------------------------------------------
(* Types.                                                                   *)

LEMMA NoneType ==
    /\ IdleSlot \in Recomputations /\ IdleSlot.state = "idle"
    /\ NoKey \in [month : RefMonths, cash : Nat, card : Nat]
  <1>1. (CHOOSE m \in RefMonths : TRUE) \in RefMonths /\ (CHOOSE p \in Processes : TRUE) \in Processes
    BY SummaryAssumption
  <1>2. QED
    BY <1>1 DEF IdleSlot, Recomputations, NoKey

LEMMA SummaryInitType == SummaryInit => SummaryTypeOK
  <1> SUFFICES ASSUME SummaryInit PROVE SummaryTypeOK
    OBVIOUS
  <1>1. AgeCapDays \in 0..AgeCapDays
    BY SummaryAssumption DEF AgeCapDays
  <1>2. NoSummary \in SummaryRows
    BY DEF NoSummary, SummaryRows
  <1>3. slot \in [Slots -> Recomputations] /\ at \in [month : RefMonths, cash : Nat, card : Nat]
    BY NoneType DEF SummaryInit
  <1>4. summary \in [RefMonths -> SummaryRows] /\ writtenAgo \in [RefMonths -> 0..AgeCapDays]
    BY <1>1, <1>2 DEF SummaryInit
  <1>5. QED
    BY <1>3, <1>4 DEF SummaryInit, SummaryTypeOK, ReconcilerStates

LEMMA LoseType ==
    ASSUME SummaryTypeOK, NEW M \in SUBSET RefMonths, Lose(M)
    PROVE  losses' \in Nat /\ lost' \subseteq RefMonths
  BY DEF SummaryTypeOK, Lose

LEMMA UpsertType ==
    ASSUME SummaryTypeOK, NEW m \in RefMonths, NEW c \in Nat, NEW d \in Nat, Upsert(m, c, d)
    PROVE  /\ summary' \in [RefMonths -> SummaryRows] /\ writtenAgo' \in [RefMonths -> 0..AgeCapDays]
           /\ summary'[m].row = TRUE /\ writtenAgo'[m] = 0
           /\ \A n \in RefMonths \ {m} : summary'[n] = summary[n] /\ writtenAgo'[n] = writtenAgo[n]
  <1> DEFINE new == [cash |-> c, card |-> d, row |-> TRUE]
  <1>1. new \in SummaryRows /\ new.row = TRUE /\ 0 \in 0..AgeCapDays
    BY SummaryAssumption DEF SummaryRows, AgeCapDays
  <1>2. summary' = [summary EXCEPT ![m] = new] /\ writtenAgo' = [writtenAgo EXCEPT ![m] = 0]
    BY DEF Upsert
  <1>3. summary \in [RefMonths -> SummaryRows] /\ writtenAgo \in [RefMonths -> 0..AgeCapDays]
    BY DEF SummaryTypeOK
  <1> HIDE DEF new
  <1>4. QED
    BY <1>1, <1>2, <1>3

\* A slot after a step of its recomputation.
LEMMA SlotStep ==
    ASSUME SummaryTypeOK, NEW s \in Slots
    PROVE  /\ slot[s] \in Recomputations /\ slot[s].month \in RefMonths
           /\ slot[s].cash \in Nat /\ slot[s].card \in Nat
           /\ \A rec \in Recomputations : slot' = [slot EXCEPT ![s] = rec] =>
                 /\ slot' \in [Slots -> Recomputations] /\ slot'[s] = rec
                 /\ \A r \in Slots \ {s} : slot'[r] = slot[r]
  <1>1. slot \in [Slots -> Recomputations]
    BY DEF SummaryTypeOK
  <1>2. slot[s] \in Recomputations
    BY <1>1
  <1>3. QED
    BY <1>1, <1>2 DEF Recomputations

LEMMA SlotsType ==
    ASSUME SummaryTypeOK, NEW s \in Slots,
           \/ \E p \in Processes, m \in RefMonths : Fire(p, m, s)
           \/ SumCash(s)
           \/ SumCard(s)
           \/ Recompute(s)
           \/ RecomputeFails(s)
    PROVE  /\ slot' \in [Slots -> Recomputations]
           /\ \A r \in Slots \ {s} : slot'[r] = slot[r]
           /\ \A p \in Processes, m \in RefMonths :
                 Fire(p, m, s) => slot'[s].state = "cash" /\ slot'[s].month = m
           /\ SumCash(s) \/ SumCard(s) => slot'[s].state # "idle" /\ slot'[s].month = slot[s].month
           /\ Recompute(s) \/ RecomputeFails(s) => slot'[s].state = "idle"
  <1>1. ASSUME NEW p \in Processes, NEW m \in RefMonths, Fire(p, m, s)
        PROVE  /\ slot' \in [Slots -> Recomputations]
               /\ \A r \in Slots \ {s} : slot'[r] = slot[r]
               /\ slot'[s].state = "cash" /\ slot'[s].month = m
    <2> DEFINE rec == [IdleSlot EXCEPT !.state = "cash", !.month = m, !.by = p]
    <2>1. rec \in Recomputations /\ rec.state = "cash" /\ rec.month = m
      BY NoneType DEF Recomputations
    <2>2. slot' = [slot EXCEPT ![s] = rec]
      BY <1>1 DEF Fire
    <2> HIDE DEF rec
    <2>3. QED
      BY <2>1, <2>2, SlotStep
  <1>2. ASSUME SumCash(s)
        PROVE  /\ slot' \in [Slots -> Recomputations]
               /\ \A r \in Slots \ {s} : slot'[r] = slot[r]
               /\ slot'[s].state # "idle" /\ slot'[s].month = slot[s].month
    <2> DEFINE rec == [slot[s] EXCEPT !.state = "card", !.cash = cash[slot[s].month]]
    <2>1. cash[slot[s].month] \in Nat
      BY SlotStep DEF SummaryTypeOK
    <2>2. rec \in Recomputations /\ rec.state = "card" /\ rec.month = slot[s].month
      BY <2>1, SlotStep DEF Recomputations
    <2>3. slot' = [slot EXCEPT ![s] = rec]
      BY <1>2 DEF SumCash
    <2> HIDE DEF rec
    <2>4. QED
      BY <2>2, <2>3, SlotStep
  <1>3. ASSUME SumCard(s)
        PROVE  /\ slot' \in [Slots -> Recomputations]
               /\ \A r \in Slots \ {s} : slot'[r] = slot[r]
               /\ slot'[s].state # "idle" /\ slot'[s].month = slot[s].month
    <2> DEFINE rec == [slot[s] EXCEPT !.state = "upsert", !.card = card[slot[s].month]]
    <2>1. card[slot[s].month] \in Nat
      BY SlotStep DEF SummaryTypeOK
    <2>2. rec \in Recomputations /\ rec.state = "upsert" /\ rec.month = slot[s].month
      BY <2>1, SlotStep DEF Recomputations
    <2>3. slot' = [slot EXCEPT ![s] = rec]
      BY <1>3 DEF SumCard
    <2> HIDE DEF rec
    <2>4. QED
      BY <2>2, <2>3, SlotStep
  <1>4. ASSUME Recompute(s) \/ RecomputeFails(s)
        PROVE  /\ slot' \in [Slots -> Recomputations]
               /\ \A r \in Slots \ {s} : slot'[r] = slot[r]
               /\ slot'[s].state = "idle"
    <2>1. slot' = [slot EXCEPT ![s] = IdleSlot]
      BY <1>4 DEF Recompute, RecomputeFails
    <2>2. QED
      BY <2>1, NoneType, SlotStep
  <1>5. /\ slot' \in [Slots -> Recomputations]
        /\ \A r \in Slots \ {s} : slot'[r] = slot[r]
    BY <1>1, <1>2, <1>3, <1>4
  <1>6. QED
    BY <1>1, <1>2, <1>3, <1>4, <1>5

LEMMA SlotActionsType ==
    ASSUME SummaryTypeOK, NEW s \in Slots,
           \/ \E p \in Processes, m \in RefMonths : Fire(p, m, s)
           \/ SumCash(s)
           \/ SumCard(s)
           \/ Recompute(s)
           \/ RecomputeFails(s)
    PROVE  SummaryTypeOK'
  <1>1. slot' \in [Slots -> Recomputations]
    BY SlotsType
  <1>2. ASSUME NEW p \in Processes, NEW m \in RefMonths, Fire(p, m, s) PROVE SummaryTypeOK'
    <2>1. timers' \in [Processes -> SUBSET RefMonths]
      BY <1>2 DEF Fire, SummaryTypeOK
    <2>2. QED
      BY <1>1, <1>2, <2>1 DEF Fire, SummaryTypeOK, ledgerSide, jobSide
  <1>3. CASE SumCash(s) \/ SumCard(s)
    BY <1>1, <1>3 DEF SumCash, SumCard, SummaryTypeOK, ledgerSide, jobSide
  <1>4. CASE Recompute(s)
    <2>1. Upsert(slot[s].month, slot[s].cash, slot[s].card)
      BY <1>4 DEF Recompute
    <2>2. summary' \in [RefMonths -> SummaryRows] /\ writtenAgo' \in [RefMonths -> 0..AgeCapDays]
      BY <2>1, SlotStep, UpsertType
    <2>3. QED
      BY <1>1, <1>4, <2>2 DEF Recompute, SummaryTypeOK, ledgerSide, jobSide
  <1>5. CASE RecomputeFails(s)
    <2>1. {slot[s].month} \in SUBSET RefMonths
      BY SlotStep
    <2>2. losses' \in Nat /\ lost' \subseteq RefMonths
      BY <1>5, <2>1, LoseType DEF RecomputeFails
    <2>3. QED
      BY <1>1, <1>5, <2>2 DEF RecomputeFails, SummaryTypeOK, ledgerSide, jobSide
  <1>6. QED
    BY <1>2, <1>3, <1>4, <1>5

LEMMA DiesType ==
    ASSUME SummaryTypeOK, NEW p \in Processes, ProcessDies(p)
    PROVE  SummaryTypeOK'
  <1> DEFINE running == {s \in Slots : slot[s].state # "idle" /\ slot[s].by = p}
             M == timers[p] \cup {slot[s].month : s \in running}
  <1>1. M \in SUBSET RefMonths
    BY SlotStep DEF SummaryTypeOK
  <1>2. losses' \in Nat /\ lost' \subseteq RefMonths
    BY <1>1, LoseType DEF ProcessDies
  <1>3. slot' \in [Slots -> Recomputations]
    BY NoneType, SlotStep DEF ProcessDies
  <1>4. timers' \in [Processes -> SUBSET RefMonths]
    BY DEF ProcessDies, SummaryTypeOK
  <1>5. QED
    BY <1>2, <1>3, <1>4 DEF ProcessDies, SummaryTypeOK, ledgerSide, jobSide

LEMMA LedgerSideType ==
    ASSUME SummaryTypeOK, NEW m \in RefMonths,
           Change(m) \/ \E p \in Processes : Schedule(p, m)
    PROVE  SummaryTypeOK'
  <1>1. CASE Change(m)
    <2>1. cash' \in [RefMonths -> Nat] /\ card' \in [RefMonths -> Nat] /\ events' \in [RefMonths -> Nat]
      <3>1. /\ cash \in [RefMonths -> Nat] /\ card \in [RefMonths -> Nat] /\ events \in [RefMonths -> Nat]
            /\ cash[m] + 1 \in Nat /\ card[m] + 1 \in Nat /\ events[m] + 1 \in Nat
        BY DEF SummaryTypeOK
      <3>2. /\ \/ cash' = [cash EXCEPT ![m] = cash[m] + 1] /\ card' = card
               \/ card' = [card EXCEPT ![m] = card[m] + 1] /\ cash' = cash
            /\ events' = [events EXCEPT ![m] = events[m] + 1]
        BY <1>1 DEF Change
      <3>3. QED
        BY <3>1, <3>2
    <2>2. lost' \subseteq RefMonths
      BY <1>1 DEF Change, SummaryTypeOK
    <2>3. QED
      BY <1>1, <2>1, <2>2 DEF Change, SummaryTypeOK, jobSide
  <1>2. ASSUME NEW p \in Processes, Schedule(p, m) PROVE SummaryTypeOK'
    <2>1. events' \in [RefMonths -> Nat]
      <3>1. events \in [RefMonths -> Nat] /\ events[m] > 0 /\ events' = [events EXCEPT ![m] = events[m] - 1]
        BY <1>2 DEF Schedule, SummaryTypeOK
      <3>2. events[m] - 1 \in Nat
        BY <3>1
      <3>3. QED
        BY <3>1, <3>2
    <2>2. timers' \in [Processes -> SUBSET RefMonths]
      BY <1>2 DEF Schedule, SummaryTypeOK
    <2>3. QED
      BY <1>2, <2>1, <2>2 DEF Schedule, SummaryTypeOK, jobSide
  <1>3. QED
    BY <1>1, <1>2

ReconcileStep ==
    \/ ReconcileBegin
    \/ \E m \in RefMonths : ReconcileCash(m)
    \/ ReconcileCard
    \/ ReconcileCompare
    \/ ReconcileUpsert
    \/ ReconcileEnd
    \/ ReconcileFails

LEMMA AtType ==
    ASSUME SummaryTypeOK
    PROVE  /\ at.month \in RefMonths /\ at.cash \in Nat /\ at.card \in Nat
           /\ \A m \in RefMonths : ReconcileCash(m) =>
                 /\ at' \in [month : RefMonths, cash : Nat, card : Nat]
                 /\ at'.month = m /\ at'.cash = cash[m]
           /\ ReconcileCard =>
                 /\ at' \in [month : RefMonths, cash : Nat, card : Nat]
                 /\ at'.month = at.month /\ at'.cash = at.cash /\ at'.card = card[at.month]
  <1>1. at \in [month : RefMonths, cash : Nat, card : Nat]
    BY DEF SummaryTypeOK
  <1>2. ASSUME NEW m \in RefMonths, ReconcileCash(m)
        PROVE  /\ at' \in [month : RefMonths, cash : Nat, card : Nat]
               /\ at'.month = m /\ at'.cash = cash[m]
    <2>1. cash[m] \in Nat
      BY DEF SummaryTypeOK
    <2>2. at' = [NoKey EXCEPT !.month = m, !.cash = cash[m]]
      BY <1>2 DEF ReconcileCash
    <2>3. QED
      BY <2>1, <2>2, NoneType
  <1>3. ASSUME ReconcileCard
        PROVE  /\ at' \in [month : RefMonths, cash : Nat, card : Nat]
               /\ at'.month = at.month /\ at'.cash = at.cash /\ at'.card = card[at.month]
    <2>1. card[at.month] \in Nat
      BY <1>1 DEF SummaryTypeOK
    <2>2. at' = [at EXCEPT !.card = card[at.month]]
      BY <1>3 DEF ReconcileCard
    <2>3. QED
      BY <1>1, <2>1, <2>2
  <1>4. QED
    BY <1>1, <1>2, <1>3

LEMMA ReconcileType ==
    ASSUME SummaryTypeOK, ReconcileStep
    PROVE  SummaryTypeOK'
  <1>1. CASE ReconcileBegin
    BY <1>1 DEF ReconcileBegin, SummaryTypeOK, ledgerSide, ListActiveSince, ReconcilerStates
  <1>2. ASSUME NEW m \in RefMonths, ReconcileCash(m) PROVE SummaryTypeOK'
    <2>1. at' \in [month : RefMonths, cash : Nat, card : Nat]
      BY <1>2, AtType
    <2>2. QED
      BY <1>2, <2>1 DEF ReconcileCash, SummaryTypeOK, ledgerSide, ReconcilerStates
  <1>3. CASE ReconcileCard
    <2>1. at' \in [month : RefMonths, cash : Nat, card : Nat]
      BY <1>3, AtType
    <2>2. QED
      BY <1>3, <2>1 DEF ReconcileCard, SummaryTypeOK, ledgerSide, ReconcilerStates
  <1>4. CASE ReconcileCompare
    BY <1>4 DEF ReconcileCompare, SummaryTypeOK, ledgerSide, ReconcilerStates
  <1>5. CASE ReconcileUpsert
    <2>1. Upsert(at.month, at.cash, at.card)
      BY <1>5 DEF ReconcileUpsert
    <2>2. summary' \in [RefMonths -> SummaryRows] /\ writtenAgo' \in [RefMonths -> 0..AgeCapDays]
      BY <2>1, AtType, UpsertType
    <2>3. QED
      BY <1>5, <2>2 DEF ReconcileUpsert, SummaryTypeOK, ledgerSide, ReconcilerStates
  <1>6. CASE ReconcileEnd
    BY <1>6, NoneType DEF ReconcileEnd, SummaryTypeOK, ledgerSide, ReconcilerStates
  <1>7. CASE ReconcileFails
    <2> DEFINE M == keys \cup (IF reconciler = "next" THEN {} ELSE {at.month})
    <2>1. M \in SUBSET RefMonths
      BY AtType DEF SummaryTypeOK
    <2>2. losses' \in Nat /\ lost' \subseteq RefMonths
      BY <1>7, <2>1, LoseType DEF ReconcileFails
    <2>3. QED
      BY <1>7, <2>2, NoneType DEF ReconcileFails, SummaryTypeOK, ledgerSide, ReconcilerStates
  <1>8. QED
    BY <1>1, <1>2, <1>3, <1>4, <1>5, <1>6, <1>7 DEF ReconcileStep

LEMMA NewDayType ==
    ASSUME SummaryTypeOK, NewDay
    PROVE  SummaryTypeOK'
  <1>1. writtenAgo' \in [RefMonths -> 0..AgeCapDays]
    <2>1. AgeCapDays \in Nat
      BY SummaryAssumption DEF AgeCapDays
    <2>2. ASSUME NEW m \in RefMonths
          PROVE  (IF writtenAgo[m] = AgeCapDays THEN AgeCapDays ELSE writtenAgo[m] + 1) \in 0..AgeCapDays
      <3>1. writtenAgo[m] \in 0..AgeCapDays
        BY DEF SummaryTypeOK
      <3>2. QED
        BY <2>1, <3>1
    <2>3. QED
      BY <2>2 DEF NewDay
  <1>2. QED
    BY <1>1 DEF NewDay, SummaryTypeOK, ledgerSide

LEMMA SummaryNextType == SummaryTypeOK /\ [SummaryNext]_summaryVars => SummaryTypeOK'
  <1> SUFFICES ASSUME SummaryTypeOK, [SummaryNext]_summaryVars PROVE SummaryTypeOK'
    OBVIOUS
  <1>1. CASE UNCHANGED summaryVars
    BY <1>1 DEF summaryVars, SummaryTypeOK
  <1>2. ReconcileStep => SummaryTypeOK'
    BY ReconcileType
  <1>3. QED
    BY <1>1, <1>2, SlotActionsType, DiesType, LedgerSideType, NewDayType DEF SummaryNext, ReconcileStep

\* The sums, the timers, the recomputations and the job are of their types.
THEOREM SummaryTypeCorrect == SummarySpec => []SummaryTypeOK
  BY SummaryInitType, SummaryNextType, PTL DEF SummarySpec

-----------------------------------------------------------------------------
(* A watched month stays watched.                                           *)

LEMMA LoseWatched ==
    ASSUME NEW M, Lose(M), UNCHANGED <<summary, writtenAgo, ranToday>>
    PROVE  /\ \A m \in M : WillBeListed(m)' \/ m \in lost'
           /\ \A m : WillBeListed(m)' <=> WillBeListed(m)
           /\ lost \subseteq lost'
  BY DEF Lose, WillBeListed

\* What was written today is listed today or tomorrow.
LEMMA UpsertWatched ==
    ASSUME SummaryTypeOK, NEW m \in RefMonths, NEW c \in Nat, NEW d \in Nat, Upsert(m, c, d),
           ranToday' = ranToday
    PROVE  /\ WillBeListed(m)'
           /\ \A n \in RefMonths \ {m} : WillBeListed(n)' <=> WillBeListed(n)
  <1>1. /\ summary'[m].row = TRUE /\ writtenAgo'[m] = 0
        /\ \A n \in RefMonths \ {m} : summary'[n] = summary[n] /\ writtenAgo'[n] = writtenAgo[n]
    BY UpsertType
  <1>2. LookbackDays \in Nat \ {0}
    BY SummaryAssumption
  <1>3. \A x \in {0, 1} : 0 + x <= LookbackDays
    BY <1>2
  <1>4. WillBeListed(m)'
    BY <1>1, <1>3 DEF WillBeListed
  <1>5. QED
    BY <1>1, <1>4 DEF WillBeListed

LEMMA LedgerWatched ==
    ASSUME SummaryTypeOK, NEW m \in RefMonths, NEW n \in RefMonths,
           Change(n) \/ \E p \in Processes : Schedule(p, n)
    PROVE  /\ Watched(m) => Watched(m)'
           /\ Change(n) => Coming(n)'
  <1>1. events \in [RefMonths -> Nat] /\ timers \in [Processes -> SUBSET RefMonths]
    BY DEF SummaryTypeOK
  <1>2. CASE Change(n)
    <2>1. events' = [events EXCEPT ![n] = events[n] + 1] /\ lost' = lost \ {n}
          /\ UNCHANGED <<timers, slot, summary, writtenAgo, ranToday>>
      BY <1>2 DEF Change, jobSide
    <2>2. events'[n] = events[n] + 1 /\ events[n] \in Nat /\ \A k \in RefMonths \ {n} : events'[k] = events[k]
      BY <2>1, <1>1
    <2>3. events'[n] > 0
      BY <2>2
    <2>4. Coming(n)'
      BY <2>3 DEF Coming
    <2>5. CASE m = n
      BY <2>4, <2>5, <1>2 DEF Watched
    <2>6. CASE m # n
      BY <2>1, <2>2, <2>4, <2>6 DEF Watched, Coming, WillBeListed
    <2>7. QED
      BY <2>4, <2>5, <2>6
  <1>3. ASSUME NEW p \in Processes, Schedule(p, n)
        PROVE  (Watched(m) => Watched(m)') /\ ~Change(n)
    <2>1. /\ events' = [events EXCEPT ![n] = events[n] - 1] /\ timers' = [timers EXCEPT ![p] = timers[p] \cup {n}]
          /\ UNCHANGED <<slot, summary, writtenAgo, ranToday, lost>>
      BY <1>3 DEF Schedule, jobSide
    <2>2. /\ \A k \in RefMonths \ {n} : events'[k] = events[k]
          /\ \A q \in Processes : timers[q] \subseteq timers'[q]
          /\ n \in timers'[p]
      BY <2>1, <1>1
    <2>3. ~Change(n)
      <3>1. events[n] \in Nat /\ events'[n] = events[n] - 1
        BY <2>1, <1>1
      <3>2. events'[n] # events[n] + 1
        BY <3>1
      <3>3. ASSUME Change(n) PROVE events'[n] = events[n] + 1
        BY <3>3, <1>1 DEF Change
      <3>4. QED
        BY <3>2, <3>3
    <2>4. CASE m = n
      BY <2>2, <2>3, <2>4 DEF Watched, Coming
    <2>5. CASE m # n
      BY <2>1, <2>2, <2>3, <2>5 DEF Watched, Coming, WillBeListed
    <2>6. QED
      BY <2>3, <2>4, <2>5
  <1>4. QED
    BY <1>2, <1>3

\* A recomputation that ends has written the month, or lost it.
LEMMA SlotWatched ==
    ASSUME SummaryTypeOK, NEW m \in RefMonths, NEW s \in Slots,
           \/ \E p \in Processes, n \in RefMonths : Fire(p, n, s)
           \/ SumCash(s)
           \/ SumCard(s)
           \/ Recompute(s)
           \/ RecomputeFails(s)
    PROVE  Watched(m) => Watched(m)'
  <1>1. \A r \in Slots \ {s} : slot'[r] = slot[r]
    BY SlotsType
  <1>2. events' = events
    BY DEF Fire, SumCash, SumCard, Recompute, RecomputeFails, ledgerSide
  <1>3. ASSUME NEW p \in Processes, NEW n \in RefMonths, Fire(p, n, s) PROVE Watched(m) => Watched(m)'
    <2>1. /\ slot[s].state = "idle" /\ slot'[s].state = "cash" /\ slot'[s].month = n
          /\ timers' = [timers EXCEPT ![p] = timers[p] \ {n}]
          /\ UNCHANGED <<summary, writtenAgo, ranToday, lost>>
      BY <1>3, SlotsType DEF Fire, jobSide
    <2>2. \A q \in Processes : timers'[q] = timers[q] \/ timers'[q] = timers[q] \ {n}
      BY <2>1 DEF SummaryTypeOK
    <2>3. CASE m = n
      BY <2>1, <2>3 DEF Watched, Coming
    <2>4. CASE m # n
      BY <2>1, <2>2, <2>4, <1>1, <1>2 DEF Watched, Coming, WillBeListed
    <2>5. QED
      BY <2>3, <2>4
  <1>4. CASE SumCash(s) \/ SumCard(s)
    <2>1. slot'[s].state # "idle" /\ slot'[s].month = slot[s].month
      BY <1>4, SlotsType
    <2>2. UNCHANGED <<timers, summary, writtenAgo, ranToday, lost>>
      BY <1>4 DEF SumCash, SumCard, jobSide
    <2>3. QED
      BY <2>1, <2>2, <1>1, <1>2 DEF Watched, Coming, WillBeListed
  <1>5. CASE Recompute(s)
    <2>1. UNCHANGED <<timers, ranToday, lost>> /\ Upsert(slot[s].month, slot[s].cash, slot[s].card)
      BY <1>5 DEF Recompute, jobSide
    <2> PICK k \in RefMonths : k = slot[s].month
      BY SlotStep
    <2>2. /\ WillBeListed(k)'
          /\ \A n \in RefMonths \ {k} : WillBeListed(n)' <=> WillBeListed(n)
      BY <2>1, SlotStep, UpsertWatched
    <2>3. CASE m = k
      BY <2>2, <2>3 DEF Watched
    <2>4. CASE m # k
      BY <2>1, <2>2, <2>4, <1>1, <1>2 DEF Watched, Coming
    <2>5. QED
      BY <2>3, <2>4
  <1>6. CASE RecomputeFails(s)
    <2>1. Lose({slot[s].month}) /\ UNCHANGED <<timers, summary, writtenAgo, ranToday>>
      BY <1>6 DEF RecomputeFails, jobSide
    <2>2. /\ m = slot[s].month => WillBeListed(m)' \/ m \in lost'
          /\ WillBeListed(m)' <=> WillBeListed(m)
          /\ lost \subseteq lost'
      BY <2>1, LoseWatched
    <2>3. QED
      BY <2>1, <2>2, <1>1, <1>2 DEF Watched, Coming
  <1>7. QED
    BY <1>3, <1>4, <1>5, <1>6

LEMMA DiesWatched ==
    ASSUME SummaryTypeOK, NEW m \in RefMonths, NEW p \in Processes, ProcessDies(p)
    PROVE  Watched(m) => Watched(m)'
  <1> DEFINE running == {s \in Slots : slot[s].state # "idle" /\ slot[s].by = p}
             M == timers[p] \cup {slot[s].month : s \in running}
  <1>1. /\ Lose(M) /\ timers' = [timers EXCEPT ![p] = {}]
        /\ slot' = [s \in Slots |-> IF s \in running THEN IdleSlot ELSE slot[s]]
        /\ UNCHANGED <<events, summary, writtenAgo, ranToday>>
    BY DEF ProcessDies, ledgerSide, jobSide
  <1>2. /\ m \in M => WillBeListed(m)' \/ m \in lost'
        /\ WillBeListed(m)' <=> WillBeListed(m)
        /\ lost \subseteq lost'
    BY <1>1, LoseWatched
  <1>3. CASE m \in M
    BY <1>2, <1>3 DEF Watched
  <1>4. CASE m \notin M
    <2>1. \A q \in Processes : m \in timers[q] => m \in timers'[q]
      BY <1>1, <1>4 DEF SummaryTypeOK
    <2>2. \A s \in Slots : slot[s].state # "idle" /\ slot[s].month = m => slot'[s] = slot[s]
      BY <1>1, <1>4
    <2>3. QED
      BY <1>1, <1>2, <2>1, <2>2 DEF Watched, Coming
  <1>5. QED
    BY <1>3, <1>4

\* The reconciler forgets nothing it has yet to read.
LEMMA ReconcileWatched ==
    ASSUME SummaryTypeOK, NEW m \in RefMonths, ReconcileStep
    PROVE  /\ Watched(m) => Watched(m)' \/ (ReconcileBegin /\ m \in keys')
           /\ ReconcileUpsert /\ at.month = m => Watched(m)'
           /\ ReconcileFails /\ (m \in keys \/ (reconciler # "next" /\ at.month = m)) => Watched(m)'
  <1>1. UNCHANGED <<events, timers, slot>>
    BY DEF ReconcileStep, ReconcileBegin, ReconcileCash, ReconcileCard, ReconcileCompare,
           ReconcileUpsert, ReconcileEnd, ReconcileFails, ledgerSide
  <1>2. Coming(m)' <=> Coming(m)
    BY <1>1 DEF Coming
  <1>3. CASE ReconcileBegin
    <2>1. /\ ranToday = FALSE /\ UNCHANGED <<summary, writtenAgo, lost>>
          /\ keys' = {k \in RefMonths : summary[k].row /\ writtenAgo[k] <= LookbackDays}
          /\ reconciler = "idle"
      BY <1>3 DEF ReconcileBegin, ListActiveSince, SummaryTypeOK
    <2>2. WillBeListed(m) => m \in keys'
      <3>1. writtenAgo[m] \in Nat
        BY DEF SummaryTypeOK
      <3>2. QED
        BY <2>1, <3>1 DEF WillBeListed
    <2>3. ~ReconcileUpsert /\ ~ReconcileFails
      BY <2>1 DEF ReconcileUpsert, ReconcileFails
    <2>4. QED
      BY <2>1, <2>2, <2>3, <1>2, <1>3 DEF Watched
  <1>4. CASE ReconcileUpsert
    <2>1. Upsert(at.month, at.cash, at.card) /\ UNCHANGED <<ranToday, lost>> /\ reconciler = "upsert" /\ reconciler' = "next"
      BY <1>4 DEF ReconcileUpsert
    <2> PICK k \in RefMonths : k = at.month
      BY AtType
    <2>2. WillBeListed(k)' /\ \A n \in RefMonths \ {k} : WillBeListed(n)' <=> WillBeListed(n)
      BY <2>1, AtType, UpsertWatched
    <2>3. ~ReconcileFails
      BY <2>1 DEF ReconcileFails
    <2>4. QED
      BY <2>1, <2>2, <2>3, <1>2 DEF Watched
  <1>5. CASE ReconcileFails
    <2> DEFINE M == keys \cup (IF reconciler = "next" THEN {} ELSE {at.month})
    <2>1. Lose(M) /\ UNCHANGED <<summary, writtenAgo, ranToday>> /\ reconciler' = "idle"
      BY <1>5 DEF ReconcileFails
    <2>2. /\ m \in M => WillBeListed(m)' \/ m \in lost'
          /\ WillBeListed(m)' <=> WillBeListed(m)
          /\ lost \subseteq lost'
      BY <2>1, LoseWatched
    <2>3. ~ReconcileUpsert
      BY <2>1 DEF ReconcileUpsert
    <2>4. QED
      BY <2>2, <2>3, <1>2 DEF Watched
  <1>6. CASE \/ \E k \in RefMonths : ReconcileCash(k)
             \/ ReconcileCard
             \/ ReconcileCompare
             \/ ReconcileEnd
    <2>1. UNCHANGED <<summary, writtenAgo, ranToday, lost>>
      BY <1>6 DEF ReconcileCash, ReconcileCard, ReconcileCompare, ReconcileEnd
    <2>2. Watched(m) => Watched(m)'
      BY <2>1, <1>2 DEF Watched, WillBeListed
    <2>3. QED
      BY <2>2, <1>4, <1>5
  <1>7. QED
    BY <1>3, <1>4, <1>5, <1>6 DEF ReconcileStep

LEMMA DayWatched ==
    ASSUME SummaryTypeOK, NEW m \in RefMonths, NewDay
    PROVE  Watched(m) => Watched(m)'
  <1>1. /\ ranToday = TRUE /\ ranToday' = FALSE /\ UNCHANGED <<events, timers, slot, summary, lost>>
        /\ writtenAgo' = [k \in RefMonths |-> IF writtenAgo[k] = AgeCapDays THEN AgeCapDays ELSE writtenAgo[k] + 1]
    BY DEF NewDay, SummaryTypeOK, ledgerSide
  <1>2. Coming(m)' <=> Coming(m)
    BY <1>1 DEF Coming
  <1>3. ASSUME WillBeListed(m) PROVE WillBeListed(m)'
    <2>1. summary[m].row /\ writtenAgo[m] + 1 <= LookbackDays
      BY <1>1, <1>3 DEF WillBeListed
    <2>2. writtenAgo[m] \in Nat /\ LookbackDays \in Nat /\ AgeCapDays = LookbackDays + 1
      BY SummaryAssumption DEF SummaryTypeOK, AgeCapDays
    <2>3. writtenAgo[m] # AgeCapDays
      BY <2>1, <2>2
    <2>4. writtenAgo'[m] = writtenAgo[m] + 1
      BY <2>3, <1>1
    <2>5. writtenAgo'[m] + 0 <= LookbackDays
      BY <2>1, <2>2, <2>4
    <2>6. QED
      BY <2>1, <2>5, <1>1 DEF WillBeListed
  <1>4. QED
    BY <1>1, <1>2, <1>3 DEF Watched

-----------------------------------------------------------------------------
(* No wrong summary is out of sight.                                        *)

Read(m) == m \in keys \/ (reconciler \notin {"idle", "next"} /\ at.month = m)

LEMMA StaleMeans ==
    StaleIsWatched <=> \A m \in RefMonths : ~Right(m) => Watched(m) \/ Read(m)
  BY DEF StaleIsWatched, Pending, Watched, Coming, Read

\* Steps that move neither the ledger, nor a summary, nor the reconciler.
LEMMA QuietStep ==
    ASSUME SummaryInv, UNCHANGED <<cash, card, summary, reconciler, keys, at>>,
           \A m \in RefMonths : Watched(m) => Watched(m)'
    PROVE  StaleIsWatched' /\ StaleReadIsWatched'
  <1>1. at.month \in RefMonths
    BY AtType DEF SummaryInv
  <1>2. StaleReadIsWatched'
    <2>1. PICK k \in RefMonths : k = at.month
      BY <1>1
    <2>2. ReadIsStale' => Watched(k)
      BY <2>1 DEF ReadIsStale, SummaryInv, StaleReadIsWatched
    <2>3. ReadIsStale' => Watched(k)'
      BY <2>2
    <2>4. Watched(at.month)' <=> Watched(k)'
      BY <2>1
    <2>5. QED
      BY <2>3, <2>4 DEF StaleReadIsWatched
  <1>3. ASSUME NEW m \in RefMonths, ~Right(m)' PROVE Watched(m)' \/ Read(m)'
    <2>1. ~Right(m) /\ (Read(m) => Read(m)')
      BY <1>3 DEF Right, Read
    <2>2. QED
      BY <2>1, StaleMeans DEF SummaryInv
  <1>4. StaleIsWatched'
    BY <1>3 DEF StaleIsWatched, Pending, Watched, Coming, Read
  <1>5. QED
    BY <1>2, <1>4

LEMMA ChangeStep ==
    ASSUME SummaryInv, NEW n \in RefMonths, Change(n)
    PROVE  StaleIsWatched' /\ StaleReadIsWatched'
  <1>1. /\ Coming(n)' /\ \A m \in RefMonths : Watched(m) => Watched(m)'
    BY LedgerWatched DEF SummaryInv
  <1>2. UNCHANGED <<summary, reconciler, keys, at>> /\ at.month \in RefMonths
    BY AtType DEF Change, jobSide, SummaryInv
  <1>3. \A m \in RefMonths \ {n} : cash'[m] = cash[m] /\ card'[m] = card[m]
    BY DEF Change, SummaryInv, SummaryTypeOK
  <1>4. StaleReadIsWatched'
    <2>1. PICK k \in RefMonths : k = at.month
      BY <1>2
    <2>2. CASE k = n
      <3>1. Watched(k)'
        BY <2>2, <1>1 DEF Watched
      <3>2. QED
        BY <3>1, <2>1, <1>2 DEF StaleReadIsWatched
    <2>3. CASE k # n
      <3>1. ReadIsStale' => Watched(k)
        BY <2>1, <2>3, <1>2, <1>3 DEF ReadIsStale, SummaryInv, StaleReadIsWatched
      <3>2. ReadIsStale' => Watched(k)'
        BY <3>1, <1>1
      <3>3. QED
        BY <3>2, <2>1, <1>2 DEF StaleReadIsWatched
    <2>4. QED
      BY <2>2, <2>3
  <1>5. ASSUME NEW m \in RefMonths, ~Right(m)' PROVE Watched(m)' \/ Read(m)'
    <2>1. CASE m = n
      BY <2>1, <1>1 DEF Watched
    <2>2. CASE m # n
      <3>1. ~Right(m) /\ (Read(m) => Read(m)')
        BY <2>2, <1>2, <1>3, <1>5 DEF Right, Read
      <3>2. QED
        BY <3>1, <1>1, StaleMeans DEF SummaryInv
    <2>3. QED
      BY <2>1, <2>2
  <1>6. StaleIsWatched'
    BY <1>5 DEF StaleIsWatched, Pending, Watched, Coming, Read
  <1>7. QED
    BY <1>4, <1>6

\* Whatever a recomputation read, the reconciler will list what it wrote.
LEMMA RecomputeStep ==
    ASSUME SummaryInv, NEW s \in Slots, Recompute(s)
    PROVE  StaleIsWatched' /\ StaleReadIsWatched'
  <1>1. \A m \in RefMonths : Watched(m) => Watched(m)'
    BY SlotWatched DEF SummaryInv
  <1>2. /\ UNCHANGED <<cash, card, ranToday, reconciler, keys, at>> /\ at.month \in RefMonths
        /\ Upsert(slot[s].month, slot[s].cash, slot[s].card)
    BY AtType DEF Recompute, jobSide, ledgerSide, SummaryInv
  <1> PICK k \in RefMonths : k = slot[s].month
    BY SlotStep DEF SummaryInv
  <1>3. WillBeListed(k)' /\ \A m \in RefMonths \ {k} : summary'[m] = summary[m]
    <2> PICK c \in Nat, d \in Nat : c = slot[s].cash /\ d = slot[s].card
      BY SlotStep DEF SummaryInv
    <2>1. SummaryTypeOK /\ Upsert(k, c, d) /\ ranToday' = ranToday
      BY <1>2 DEF SummaryInv
    <2>2. WillBeListed(k)'
      BY <2>1, UpsertWatched
    <2>3. \A m \in RefMonths \ {k} : summary'[m] = summary[m]
      BY <2>1, UpsertType
    <2>4. QED
      BY <2>2, <2>3
  <1>4. StaleReadIsWatched'
    <2>1. PICK j \in RefMonths : j = at.month
      BY <1>2
    <2>2. ReadIsStale' => Watched(j)
      BY <2>1, <1>2 DEF ReadIsStale, SummaryInv, StaleReadIsWatched
    <2>3. ReadIsStale' => Watched(j)'
      BY <2>2, <1>1
    <2>4. QED
      BY <2>3, <2>1, <1>2 DEF StaleReadIsWatched
  <1>5. ASSUME NEW m \in RefMonths, ~Right(m)' PROVE Watched(m)' \/ Read(m)'
    <2>1. CASE m = k
      BY <2>1, <1>3 DEF Watched
    <2>2. CASE m # k
      <3>1. ~Right(m) /\ (Read(m) => Read(m)')
        BY <2>2, <1>2, <1>3, <1>5 DEF Right, Read
      <3>2. QED
        BY <3>1, <1>1, StaleMeans DEF SummaryInv
    <2>3. QED
      BY <2>1, <2>2
  <1>6. StaleIsWatched'
    BY <1>5 DEF StaleIsWatched, Pending, Watched, Coming, Read
  <1>7. QED
    BY <1>4, <1>6

\* What the reconciler read is the ledger's, or its month is watched: when it
\* finds no difference the summary is right or watched.
LEMMA ReconcileStale ==
    ASSUME SummaryInv, ReconcileStep
    PROVE  StaleIsWatched' /\ StaleReadIsWatched'
  <1>1. UNCHANGED <<cash, card>> /\ at.month \in RefMonths /\ SummaryTypeOK
    BY AtType DEF SummaryInv, ReconcileStep, ReconcileBegin, ReconcileCash, ReconcileCard, ReconcileCompare,
           ReconcileUpsert, ReconcileEnd, ReconcileFails, ledgerSide
  <1> PICK k \in RefMonths : k = at.month
    BY <1>1
  <1>2. ReadIsStale => Watched(k)
    BY DEF SummaryInv, StaleReadIsWatched
  <1>3. \A m \in RefMonths : ~Right(m) => Watched(m) \/ Read(m)
    BY StaleMeans DEF SummaryInv
  <1>4. \A m \in RefMonths : /\ Watched(m) => Watched(m)' \/ (ReconcileBegin /\ m \in keys')
                             /\ ReconcileUpsert /\ k = m => Watched(m)'
                             /\ ReconcileFails /\ Read(m) => Watched(m)'
    BY <1>1, ReconcileWatched DEF Read
  <1>5. StaleReadIsWatched'
    <2>1. CASE reconciler' \in {"idle", "next"}
      BY <2>1 DEF StaleReadIsWatched, ReadIsStale
    <2>2. ASSUME NEW m \in RefMonths, ReconcileCash(m) PROVE ~ReadIsStale'
      <3>1. at'.month = m /\ at'.cash = cash[m] /\ reconciler' = "card"
        BY <1>1, <2>2, AtType DEF ReconcileCash
      <3>2. QED
        BY <3>1, <1>1 DEF ReadIsStale
    <2>3. ASSUME ReconcileCard \/ ReconcileCompare, ReadIsStale'
          PROVE  at'.month = k /\ ReadIsStale /\ ~ReconcileBegin
      <3>1. CASE ReconcileCard
        <4>1. /\ at'.month = at.month /\ at'.cash = at.cash /\ at'.card = card[at.month]
              /\ reconciler = "card" /\ reconciler' = "compare"
          BY <1>1, <3>1, AtType DEF ReconcileCard
        <4>2. at.cash # cash[at.month]
          BY <2>3, <4>1, <1>1 DEF ReadIsStale
        <4>3. QED
          BY <4>1, <4>2 DEF ReadIsStale, ReconcileBegin
      <3>2. CASE ReconcileCompare
        <4>1. at' = at /\ reconciler = "compare"
          BY <3>2 DEF ReconcileCompare
        <4>2. QED
          BY <2>3, <4>1, <1>1 DEF ReadIsStale, ReconcileBegin
      <3>3. QED
        BY <2>3, <3>1, <3>2
    <2>4. CASE ReconcileCard \/ ReconcileCompare
      <3>1. ReadIsStale' => Watched(k)' /\ at'.month = k
        BY <2>3, <2>4, <1>2, <1>4
      <3>2. QED
        BY <3>1 DEF StaleReadIsWatched
    <2>5. QED
      BY <2>1, <2>2, <2>4 DEF ReconcileStep, ReconcileBegin, ReconcileUpsert, ReconcileEnd,
                              ReconcileFails, StaleReadIsWatched
  <1>6. ASSUME NEW m \in RefMonths, ~Right(m)' PROVE Watched(m)' \/ Read(m)'
    <2>1. CASE ReconcileBegin
      <3>1. summary' = summary /\ reconciler = "idle" /\ keys' = ListActiveSince
        BY <2>1 DEF ReconcileBegin
      <3>2. ~Right(m)
        BY <3>1, <1>1, <1>6 DEF Right
      <3>3. CASE Watched(m)
        BY <3>3, <1>4 DEF Read
      <3>4. CASE Read(m)
        <4>1. m \in keys /\ keys = {}
          BY <3>1, <3>4, <1>1 DEF Read, SummaryTypeOK
        <4>2. QED
          BY <4>1
      <3>5. QED
        BY <3>2, <3>3, <3>4, <1>3
    <2>2. CASE ReconcileUpsert
      <3>1. Upsert(k, at.cash, at.card) /\ at' = at /\ keys' = keys /\ reconciler = "upsert"
        BY <2>2 DEF ReconcileUpsert
      <3>2. CASE m = k
        BY <2>2, <3>2, <1>4
      <3>3. CASE m # k
        <4> PICK c \in Nat, d \in Nat : c = at.cash /\ d = at.card
          BY <1>1, AtType
        <4>0. SummaryTypeOK /\ Upsert(k, c, d)
          BY <3>1, <1>1
        <4>1. summary'[m] = summary[m]
          BY <4>0, <3>3, UpsertType
        <4>2. ~Right(m)
          BY <4>1, <1>1, <1>6 DEF Right
        <4>3. Read(m) => Read(m)'
          BY <3>1, <3>3 DEF Read
        <4>4. ~ReconcileBegin
          BY <3>1 DEF ReconcileBegin
        <4>5. QED
          BY <4>2, <4>3, <4>4, <1>3, <1>4
      <3>4. QED
        BY <3>2, <3>3
    <2>3. ASSUME ~ReconcileBegin, ~ReconcileUpsert
          PROVE  Watched(m)' \/ Read(m)'
      <3>1. summary' = summary
        BY <2>3 DEF ReconcileStep, ReconcileCash, ReconcileCard, ReconcileCompare, ReconcileEnd, ReconcileFails
      <3>2. ~Right(m)
        BY <3>1, <1>1, <1>6 DEF Right
      <3>3. CASE Watched(m)
        BY <2>3, <3>3, <1>4
      <3>4. CASE Read(m) /\ ~Watched(m)
        <4>1. ASSUME NEW n \in RefMonths, ReconcileCash(n) PROVE Read(m)'
          <5>1. at'.month = n /\ reconciler = "next" /\ reconciler' = "card" /\ keys' = keys \ {n}
            BY <4>1, <1>1, AtType DEF ReconcileCash
          <5>2. QED
            BY <3>4, <5>1 DEF Read
        <4>2. CASE ReconcileCard
          <5>1. at'.month = k /\ reconciler = "card" /\ reconciler' = "compare" /\ keys' = keys
            BY <4>2, <1>1, AtType DEF ReconcileCard
          <5>2. QED
            BY <3>4, <5>1 DEF Read
        <4>3. CASE ReconcileCompare
          <5>1. at' = at /\ keys' = keys /\ reconciler = "compare" /\ reconciler' = IF Differs THEN "upsert" ELSE "next"
            BY <4>3 DEF ReconcileCompare
          <5>2. CASE Differs
            BY <3>4, <5>1, <5>2 DEF Read
          <5>3. CASE ~Differs
            <6>1. summary[k].cash = at.cash /\ summary[k].card = at.card
              BY <5>3 DEF Differs
            <6>2. m = k => ReadIsStale
              BY <6>1, <3>2, <5>1 DEF Right, ReadIsStale
            <6>3. m # k
              BY <6>2, <1>2, <3>4
            <6>4. m \in keys
              BY <6>3, <3>4 DEF Read
            <6>5. QED
              BY <6>4, <5>1 DEF Read
          <5>4. QED
            BY <5>2, <5>3
        <4>4. CASE ReconcileEnd
          BY <3>4, <4>4 DEF ReconcileEnd, Read
        <4>5. CASE ReconcileFails
          BY <3>4, <4>5, <1>4
        <4>6. QED
          BY <2>3, <4>1, <4>2, <4>3, <4>4, <4>5 DEF ReconcileStep
      <3>5. QED
        BY <3>2, <3>3, <3>4, <1>3
    <2>4. QED
      BY <2>1, <2>2, <2>3
  <1>7. StaleIsWatched'
    BY <1>6 DEF StaleIsWatched, Pending, Watched, Coming, Read
  <1>8. QED
    BY <1>5, <1>7

-----------------------------------------------------------------------------
LEMMA SummaryInitInv == SummaryInit => SummaryInv
  <1> SUFFICES ASSUME SummaryInit PROVE SummaryInv
    OBVIOUS
  <1>1. \A m \in RefMonths : Right(m)
    BY DEF SummaryInit, Right, NoSummary
  <1>2. StaleReadIsWatched
    BY DEF SummaryInit, StaleReadIsWatched, ReadIsStale
  <1>3. QED
    BY <1>1, <1>2, SummaryInitType DEF SummaryInv, StaleIsWatched

LEMMA SummaryNextInv == SummaryInv /\ [SummaryNext]_summaryVars => SummaryInv'
  <1> SUFFICES ASSUME SummaryInv, [SummaryNext]_summaryVars PROVE SummaryInv'
    OBVIOUS
  <1>0. SummaryTypeOK /\ SummaryTypeOK'
    BY SummaryNextType DEF SummaryInv
  <1>1. ASSUME NEW s \in Slots, \/ \E p \in Processes, m \in RefMonths : Fire(p, m, s)
                                \/ SumCash(s)
                                \/ SumCard(s)
                                \/ RecomputeFails(s)
        PROVE  StaleIsWatched' /\ StaleReadIsWatched'
    <2>1. UNCHANGED <<cash, card, summary, reconciler, keys, at>>
      BY <1>1 DEF Fire, SumCash, SumCard, RecomputeFails, ledgerSide, jobSide
    <2>2. \A m \in RefMonths : Watched(m) => Watched(m)'
      BY <1>0, <1>1, SlotWatched
    <2>3. QED
      BY <2>1, <2>2, QuietStep
  <1>2. ASSUME NEW p \in Processes, ProcessDies(p) \/ \E m \in RefMonths : Schedule(p, m)
        PROVE  StaleIsWatched' /\ StaleReadIsWatched'
    <2>1. UNCHANGED <<cash, card, summary, reconciler, keys, at>>
      BY <1>2 DEF ProcessDies, Schedule, ledgerSide, jobSide
    <2>2. \A m \in RefMonths : Watched(m) => Watched(m)'
      BY <1>0, <1>2, DiesWatched, LedgerWatched
    <2>3. QED
      BY <2>1, <2>2, QuietStep
  <1>3. ASSUME NewDay PROVE StaleIsWatched' /\ StaleReadIsWatched'
    <2>1. UNCHANGED <<cash, card, summary, reconciler, keys, at>>
      BY <1>3 DEF NewDay, ledgerSide
    <2>2. \A m \in RefMonths : Watched(m) => Watched(m)'
      BY <1>0, <1>3, DayWatched
    <2>3. QED
      BY <2>1, <2>2, QuietStep
  <1>4. ASSUME UNCHANGED summaryVars PROVE StaleIsWatched' /\ StaleReadIsWatched'
    <2>1. UNCHANGED <<cash, card, summary, reconciler, keys, at>>
      BY <1>4 DEF summaryVars
    <2>2. \A m \in RefMonths : Watched(m) => Watched(m)'
      BY <1>4 DEF summaryVars, Watched, Coming, WillBeListed
    <2>3. QED
      BY <2>1, <2>2, QuietStep
  <1>5. ReconcileStep => StaleIsWatched' /\ StaleReadIsWatched'
    BY ReconcileStale
  <1>6. StaleIsWatched' /\ StaleReadIsWatched'
    BY <1>1, <1>2, <1>3, <1>4, <1>5, ChangeStep, RecomputeStep DEF SummaryNext, ReconcileStep
  <1>7. QED
    BY <1>0, <1>6 DEF SummaryInv

\* However recomputations, the reconciler and faults interleave, a wrong
\* summary has a recomputation coming, a read of the reconciler, or lost its
\* last recomputation after it was too old to be listed.
THEOREM StaleSummariesWatched == SummarySpec => []StaleIsWatched
  <1>1. SummaryInv => StaleIsWatched
    BY DEF SummaryInv
  <1>2. QED
    BY SummaryInitInv, SummaryNextInv, <1>1, PTL DEF SummarySpec
=============================================================================
