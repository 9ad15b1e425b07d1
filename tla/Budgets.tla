------------------------------ MODULE Budgets ------------------------------
(***************************************************************************)
(* The budgets of one user in internal/budgets, one row per month with the *)
(* share (basis points) and the planned cents of every root category.      *)
(* Requests run concurrently at READ COMMITTED: a unit of work reads rows   *)
(* without locking them, decides in memory and writes whole rows back.      *)
(***************************************************************************)
EXTENDS Integers, Sequences, FiniteSets, Functions

CONSTANTS
    LastCompetence,   \* months are 1..LastCompetence
    Totals,           \* total_cents a request may name
    Splits,           \* shares a request may name: of each category the last entry and,
                      \* where it is repeated, the points of the entries before
    Percentages,      \* basis points a request may give one category
    BudgetRequests,   \* units of work that may overlap
    MaxBudgetRows,    \* bound on budget ids
    MaxBudgetEdits    \* bound on units of work that decided to write

CanonicalOrder == <<"custo_fixo", "conhecimento", "prazeres", "metas", "liberdade_financeira">>
Slugs == Range(CanonicalOrder)
Competences == 1..LastCompetence
Whole == 10000

WholeSplit(bps) == SumFunction(bps) = Whole

ASSUME BudgetsAssumption ==
    /\ LastCompetence \in Nat /\ MaxBudgetRows \in Nat /\ MaxBudgetEdits \in Nat
    /\ Totals \subseteq Nat \ {0} /\ Percentages \subseteq 0..Whole
    /\ \A split \in Splits :
          /\ DOMAIN split.repeated \subseteq DOMAIN split.last /\ DOMAIN split.last \subseteq Slugs
          /\ split.last \in [DOMAIN split.last -> 0..Whole]
          /\ split.repeated \in [DOMAIN split.repeated -> Nat]

VARIABLES
    budget,        \* the rows with their allocations
    budgetRows,    \* ids given out
    request,       \* units of work between their reads and their writes
    budgetEdits    \* bound

budgetsVars == <<budget, budgetRows, request, budgetEdits>>

NoAllocations == [s \in {} |-> 0]
\* mixed is history: the shares stored are of more than one list.
NoBudget == [id |-> 0, state |-> "none", total |-> 0, auto |-> FALSE,
             bps |-> NoAllocations, planned |-> NoAllocations, mixed |-> FALSE]
IdleRequest == [pc |-> "idle", source |-> NoBudget, month |-> 0, left |-> 0,
                writes |-> [c \in {} |-> NoBudget]]

BudgetsInit ==
    /\ budget = [c \in Competences |-> NoBudget]
    /\ budgetRows = 0
    /\ request = [r \in BudgetRequests |-> IdleRequest]
    /\ budgetEdits = 0

-----------------------------------------------------------------------------
(* AllocationDistributor and DecideEditCategoryPercentage.                  *)

Rank(s) == CHOOSE i \in DOMAIN CanonicalOrder : CanonicalOrder[i] = s
PositionAmong(s, S) == Cardinality({t \in S : Rank(t) <= Rank(s)})

halfEvenRound(raw) ==
    LET quotient == raw \div Whole
        remainder == raw % Whole
    IN  IF 2 * remainder > Whole \/ (2 * remainder = Whole /\ quotient % 2 = 1)
        THEN quotient + 1 ELSE quotient

\* The cents lost or won by rounding go one each to the first categories.
Distribute(total, bps) ==
    LET rounded == [s \in DOMAIN bps |-> halfEvenRound(total * bps[s])]
        diff == total - SumFunction(rounded)
        Adjusted(s) == PositionAmong(s, DOMAIN bps) <= (IF diff > 0 THEN diff ELSE -diff)
    IN  [s \in DOMAIN bps |-> IF Adjusted(s) THEN rounded[s] + (IF diff > 0 THEN 1 ELSE -1)
                                             ELSE rounded[s]]

Others(bps, target) == DOMAIN bps \ {target}

\* The largest of the others, the first in canonical order of equals.
largestOther(bps, target) ==
    CHOOSE s \in Others(bps, target) : \A t \in Others(bps, target) :
        bps[t] < bps[s] \/ (bps[t] = bps[s] /\ Rank(s) <= Rank(t))

applyLeftover(bps, target, leftover) ==
    LET taker == IF Others(bps, target) = {} THEN target ELSE largestOther(bps, target)
    IN  [bps EXCEPT ![taker] = @ + leftover]

Rescaled(bps, target, points) ==
    LET others == SumFunction([s \in Others(bps, target) |-> bps[s]])
    IN  [s \in DOMAIN bps |-> IF s = target THEN points
                              ELSE IF others = 0 THEN 0
                              ELSE ((Whole - points) * bps[s]) \div others]

\* Mutant: the points lost by the integer division stay lost.
EditWithoutLeftover(bps, target, points) == Rescaled(bps, target, points)

\* Shares are rounded down, so the deficit branch of applyLeftover is dead.
DecideEditCategoryPercentage(bps, target, points) ==
    LET shares == Rescaled(bps, target, points)
    IN  applyLeftover(shares, target, Whole - SumFunction(shares))

-----------------------------------------------------------------------------
(* The repository.                                                          *)

upsertAllocation(new, old) ==
    [s \in DOMAIN new \cup DOMAIN old |-> IF s \in DOMAIN new THEN new[s] ELSE old[s]]

\* Activate updates by id whatever the state of the row is by then;
\* allocations are upserted, none is deleted: a category the new list does not
\* name keeps the share it had.
Activate(row, new) ==
    [new EXCEPT !.auto = row.auto, !.bps = upsertAllocation(new.bps, row.bps),
                !.planned = upsertAllocation(new.planned, row.planned),
                !.mixed = new.mixed \/ ~(DOMAIN row.bps \subseteq DOMAIN new.bps)]

Inserts(writes) == {c \in DOMAIN writes : writes[c].id = 0}
Storable(writes) ==
    \A c \in DOMAIN writes : IF c \in Inserts(writes) THEN budget[c].state = "none"
                             ELSE budget[c].id = writes[c].id

SaveAll(writes) ==
    [c \in Competences |->
        IF c \notin DOMAIN writes THEN budget[c]
        ELSE IF c \in Inserts(writes) THEN [writes[c] EXCEPT !.id = budgetRows + 1]
        ELSE Activate(budget[c], writes[c])]

CreateDraft(c, row) ==
    /\ budget[c].state = "none" /\ budgetRows < MaxBudgetRows
    /\ budget' = [budget EXCEPT ![c] = [row EXCEPT !.id = budgetRows + 1]]
    /\ budgetRows' = budgetRows + 1

Unplanned(bps) == [s \in DOMAIN bps |-> 0]
Draft(total, auto, bps, planned, mixed) ==
    [id |-> 0, state |-> "draft", total |-> total, auto |-> auto, bps |-> bps,
     planned |-> planned, mixed |-> mixed]

-----------------------------------------------------------------------------
(* Units of work of a single statement.                                     *)

\* The entries of a request are 100 % together; stored one after the other, the
\* last of a repeated category is the one that stays.
CreateBudget(c, total, split) ==
    /\ SumFunction(split.last) + SumFunction(split.repeated) = Whole
    /\ CreateDraft(c, Draft(total, FALSE, split.last, Unplanned(split.last),
                            DOMAIN split.repeated # {}))
    /\ UNCHANGED <<request, budgetEdits>>

\* EnsureExists, for the first expense of a month.
EnsureExists(c) ==
    /\ CreateDraft(c, Draft(0, TRUE, NoAllocations, NoAllocations, FALSE))
    /\ UNCHANGED <<request, budgetEdits>>

\* The DELETE tests the state again.
DeleteDraft(c) ==
    /\ budget[c].state = "draft"
    /\ budget' = [budget EXCEPT ![c] = NoBudget]
    /\ UNCHANGED <<budgetRows, request, budgetEdits>>

-----------------------------------------------------------------------------
(* Units of work that read, decide and write.                               *)

One(c, row) == [d \in {c} |-> row]

Decide(r, writes) ==
    /\ request[r].pc = "idle" /\ budgetEdits < MaxBudgetEdits
    /\ request' = [request EXCEPT ![r].pc = "write", ![r].writes = writes]
    /\ budgetEdits' = budgetEdits + 1
    /\ UNCHANGED <<budget, budgetRows>>

Activated(row, total, bps) ==
    [row EXCEPT !.state = "active", !.total = total, !.bps = bps,
                !.planned = Distribute(total, bps), !.mixed = FALSE]

ActivateBudget(r, c) ==
    /\ budget[c].state = "draft"
    /\ budget[c].total > 0 /\ WholeSplit(budget[c].bps)
    /\ Decide(r, One(c, Activated(budget[c], budget[c].total, budget[c].bps)))

\* Both edits activate a draft that can be activated.
EditBudgetTotal(r, c, total) ==
    /\ budget[c].state # "none" /\ WholeSplit(budget[c].bps)
    /\ Decide(r, One(c, Activated(budget[c], total, budget[c].bps)))

EditCategoryPercentage(r, c, s, points) ==
    /\ budget[c].state # "none" /\ s \in DOMAIN budget[c].bps
    /\ WholeSplit(budget[c].bps) /\ budget[c].total > 0
    /\ Decide(r, One(c, Activated(budget[c], budget[c].total,
                                DecideEditCategoryPercentage(budget[c].bps, s, points))))

\* RecurrenceSourceValidator.
ValidSource(row) ==
    /\ row.total > 0
    /\ ~(row.auto /\ row.bps = NoAllocations)
    /\ row.state = "draft" => WholeSplit(row.bps)

Rebase(row, source) ==
    [row EXCEPT !.state = "draft", !.total = source.total, !.bps = source.bps,
                !.planned = Distribute(source.total, source.bps), !.mixed = source.mixed]

SyncFutureBudgets(r, c) ==
    LET future == {d \in Competences : d > c /\ budget[d].state = "draft"}
    IN  /\ budget[c].state = "active" /\ ValidSource(budget[c])
        /\ Decide(r, [d \in future |-> Rebase(budget[d], budget[c])])

\* CreateRecurrence reads its source in one unit of work and then writes each
\* month in one of its own.
CreateRecurrence(r, c, months) ==
    /\ request[r].pc = "idle" /\ budgetEdits < MaxBudgetEdits
    /\ budget[c].state # "none" /\ ValidSource(budget[c])
    /\ request' = [request EXCEPT ![r].pc = "month", ![r].source = budget[c],
                                  ![r].month = c + 1, ![r].left = months]
    /\ budgetEdits' = budgetEdits + 1
    /\ UNCHANGED <<budget, budgetRows>>

AfterMonth(q) ==
    IF q.left = 0 \/ q.month > LastCompetence THEN IdleRequest
    ELSE [q EXCEPT !.pc = "month", !.writes = IdleRequest.writes]

MonthDone(q) == [q EXCEPT !.month = @ + 1, !.left = @ - 1]

processMonth(r) ==
    LET q == request[r]
        row == budget[q.month]
        clone == Draft(q.source.total, FALSE, q.source.bps,
                       Distribute(q.source.total, q.source.bps), q.source.mixed)
    IN  /\ q.pc = "month"
        /\ request' = [request EXCEPT ![r] =
               IF row.state = "active" THEN AfterMonth(MonthDone(q))
               ELSE [MonthDone(q) EXCEPT !.pc = "write",
                        !.writes = One(q.month, IF row.state = "none" THEN clone
                                                 ELSE Rebase(row, q.source))]]
        /\ UNCHANGED <<budget, budgetRows, budgetEdits>>

\* A row that is gone, or is there already, rolls the unit of work back.
Write(r) ==
    LET writes == request[r].writes
    IN  /\ request[r].pc = "write"
        /\ IF Storable(writes)
           THEN /\ budget' = SaveAll(writes)
                /\ budgetRows' = budgetRows + Cardinality(Inserts(writes))
                /\ budgetRows' <= MaxBudgetRows
           ELSE UNCHANGED <<budget, budgetRows>>
        /\ request' = [request EXCEPT ![r] = AfterMonth(@)]
        /\ UNCHANGED budgetEdits

-----------------------------------------------------------------------------
BudgetsNext ==
    \/ \E c \in Competences :
          \/ \E total \in Totals, split \in Splits : CreateBudget(c, total, split)
          \/ EnsureExists(c)
          \/ DeleteDraft(c)
    \/ \E r \in BudgetRequests, c \in Competences :
          \/ ActivateBudget(r, c)
          \/ \E total \in Totals : EditBudgetTotal(r, c, total)
          \/ \E s \in Slugs, points \in Percentages : EditCategoryPercentage(r, c, s, points)
          \/ SyncFutureBudgets(r, c)
          \/ \E months \in 1..(LastCompetence - c) : CreateRecurrence(r, c, months)
    \/ \E r \in BudgetRequests : processMonth(r) \/ Write(r)

BudgetsSpec == BudgetsInit /\ [][BudgetsNext]_budgetsVars

-----------------------------------------------------------------------------
BudgetRow(row) ==
    /\ row.id \in 0..MaxBudgetRows /\ row.state \in {"none", "draft", "active"}
    /\ row.total \in Totals \cup {0} /\ row.auto \in BOOLEAN /\ row.mixed \in BOOLEAN
    /\ DOMAIN row.bps \subseteq Slugs /\ DOMAIN row.planned = DOMAIN row.bps
    /\ row.state = "active" => row.total > 0 /\ row.bps # NoAllocations
    /\ \A s \in DOMAIN row.bps : row.bps[s] \in 0..Whole /\ row.planned[s] \in Int

\* The types, and: ids are of one row each, active budgets have what a draft
\* may lack.
BudgetsTypeOK ==
    /\ \A c \in Competences : BudgetRow(budget[c])
    /\ \A c, d \in Competences : budget[c].id = budget[d].id /\ budget[c].id # 0 => c = d
    /\ budgetRows \in 0..MaxBudgetRows /\ budgetEdits \in 0..MaxBudgetEdits
    /\ \A r \in BudgetRequests : request[r].pc \in {"idle", "month", "write"}

\* Nobody is given more than one cent besides the rounding of his own share.
Fair(row) ==
    \A s \in DOMAIN row.bps :
        LET off == row.planned[s] * Whole - row.total * row.bps[s]
        IN  2 * off <= 3 * Whole /\ -2 * off <= 3 * Whole

\* Whatever order concurrent edits, activations, recurrences and deletions
\* commit in, an allocated budget is divided completely: its shares are 100 %
\* and, once planned, its planned cents are its total to the cent, dealt fairly.
\* Only a list that names a category twice, or a write over a row that has a
\* category the new list lacks, makes a budget of which this is not said.
AllocationsAreWhole ==
    \A c \in Competences : budget[c].bps # NoAllocations /\ ~budget[c].mixed =>
        /\ WholeSplit(budget[c].bps)
        /\ budget[c].planned = Unplanned(budget[c].bps) \/ SumFunction(budget[c].planned) = budget[c].total
        /\ budget[c].state = "active" => SumFunction(budget[c].planned) = budget[c].total /\ Fair(budget[c])

=============================================================================
