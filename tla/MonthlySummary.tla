--------------------------- MODULE MonthlySummary ---------------------------
(***************************************************************************)
(* The monthly summaries of internal/transactions, a cache of two sums over *)
(* the ledger.  Events name the months a transaction touched; a worker     *)
(* debounces them per month in memory (the event is acknowledged before    *)
(* anything is computed), recomputes, and a daily job compares the         *)
(* summaries written lately with fresh sums.                               *)
(*                                                                         *)
(* A sum is the number of changes committed to it, so two sums are equal   *)
(* exactly when no change separates them.                                  *)
(***************************************************************************)
EXTENDS Naturals, FiniteSets

CONSTANTS
    RefMonths,      \* ref_month of one user
    Processes,      \* worker processes, each with its Coalescer
    Slots,          \* recomputations that may be running at once
    MaxChanges,     \* bound on committed transactions
    LookbackDays,   \* lookbackHours of the reconciler, in days
    MaxLosses       \* bound on crashes, failed recomputations, missed jobs

ASSUME SummaryAssumption ==
    /\ RefMonths # {} /\ Processes # {}
    /\ MaxChanges \in Nat /\ LookbackDays \in Nat \ {0} /\ MaxLosses \in Nat

VARIABLES
    cash, card,     \* SumByMonthExcludingCredit and SumByMonth of the ledger
    events,         \* undelivered events, per month
    timers,         \* Coalescer.timers of each process
    slot,           \* recomputations in progress
    summary, writtenAgo,   \* transactions_monthly_summary and days since updated_at
    reconciler, keys, at,  \* the reconciler: its state, keys left, sums read
    ranToday,
    losses, lost    \* bound, and months whose recomputation a fault took

summaryVars == <<cash, card, events, timers, slot, summary, writtenAgo, reconciler, keys, at,
                 ranToday, losses, lost>>

NoSummary == [cash |-> 0, card |-> 0, row |-> FALSE]
IdleSlot == [state |-> "idle", month |-> CHOOSE m \in RefMonths : TRUE, by |-> CHOOSE p \in Processes : TRUE,
             cash |-> 0, card |-> 0]
NoKey == [month |-> CHOOSE m \in RefMonths : TRUE, cash |-> 0, card |-> 0]
AgeCapDays == LookbackDays + 1

SummaryInit ==
    /\ cash = [m \in RefMonths |-> 0] /\ card = [m \in RefMonths |-> 0]
    /\ events = [m \in RefMonths |-> 0]
    /\ timers = [p \in Processes |-> {}]
    /\ slot = [s \in Slots |-> IdleSlot]
    /\ summary = [m \in RefMonths |-> NoSummary]
    /\ writtenAgo = [m \in RefMonths |-> AgeCapDays]
    /\ reconciler = "idle" /\ keys = {} /\ at = NoKey
    /\ ranToday = FALSE
    /\ losses = 0 /\ lost = {}

ledgerSide == <<cash, card, events>>
jobSide == <<reconciler, keys, at, ranToday>>

\* The reconciler has yet to list m, today or tomorrow.
WillBeListed(m) ==
    summary[m].row /\ writtenAgo[m] + (IF ranToday THEN 1 ELSE 0) <= LookbackDays

\* A fault loses the months that no later run of the reconciler reads.
Lose(M) ==
    /\ losses < MaxLosses
    /\ losses' = losses + 1
    /\ lost' = lost \cup {m \in M : ~WillBeListed(m)}

-----------------------------------------------------------------------------
(* Events and the debounce.                                                *)

\* A transaction commits with its event; one of the two sums moves.
Change(m) ==
    /\ cash[m] + card[m] < MaxChanges
    /\ \/ cash' = [cash EXCEPT ![m] = @ + 1] /\ UNCHANGED card
       \/ card' = [card EXCEPT ![m] = @ + 1] /\ UNCHANGED cash
    /\ events' = [events EXCEPT ![m] = @ + 1]
    /\ lost' = lost \ {m}
    /\ UNCHANGED <<timers, slot, summary, writtenAgo, jobSide, losses>>

\* Schedule: one timer per month, restarted while events keep coming; Handle
\* returns at once and the outbox marks the event published.
Schedule(p, m) ==
    /\ events[m] > 0
    /\ events' = [events EXCEPT ![m] = @ - 1]
    /\ timers' = [timers EXCEPT ![p] = @ \cup {m}]
    /\ UNCHANGED <<cash, card, slot, summary, writtenAgo, jobSide, losses, lost>>

Fire(p, m, s) ==
    /\ m \in timers[p] /\ slot[s].state = "idle"
    /\ timers' = [timers EXCEPT ![p] = @ \ {m}]
    /\ slot' = [slot EXCEPT ![s] = [IdleSlot EXCEPT !.state = "cash", !.month = m, !.by = p]]
    /\ UNCHANGED <<ledgerSide, summary, writtenAgo, jobSide, losses, lost>>

-----------------------------------------------------------------------------
(* RecomputeMonthlySummary: two sums, each a statement, then the upsert.    *)

SumCash(s) ==
    /\ slot[s].state = "cash"
    /\ slot' = [slot EXCEPT ![s].state = "card", ![s].cash = cash[slot[s].month]]
    /\ UNCHANGED <<ledgerSide, timers, summary, writtenAgo, jobSide, losses, lost>>

SumCard(s) ==
    /\ slot[s].state = "card"
    /\ slot' = [slot EXCEPT ![s].state = "upsert", ![s].card = card[slot[s].month]]
    /\ UNCHANGED <<ledgerSide, timers, summary, writtenAgo, jobSide, losses, lost>>

\* Mutant: updated_at is set by the insert only.
UpsertKeepingAge(m, c, d) ==
    /\ summary' = [summary EXCEPT ![m] = [cash |-> c, card |-> d, row |-> TRUE]]
    /\ writtenAgo' = [writtenAgo EXCEPT ![m] = IF summary[m].row THEN @ ELSE 0]

\* Unconditional: the last writer wins, whatever it read.
Upsert(m, c, d) ==
    /\ summary' = [summary EXCEPT ![m] = [cash |-> c, card |-> d, row |-> TRUE]]
    /\ writtenAgo' = [writtenAgo EXCEPT ![m] = 0]

Recompute(s) ==
    /\ slot[s].state = "upsert"
    /\ Upsert(slot[s].month, slot[s].cash, slot[s].card)
    /\ slot' = [slot EXCEPT ![s] = IdleSlot]
    /\ UNCHANGED <<ledgerSide, timers, jobSide, losses, lost>>

\* An error of the recomputation is logged and nothing else.
RecomputeFails(s) ==
    /\ slot[s].state # "idle"
    /\ Lose({slot[s].month})
    /\ slot' = [slot EXCEPT ![s] = IdleSlot]
    /\ UNCHANGED <<ledgerSide, timers, summary, writtenAgo, jobSide>>

\* A process dies (or Stop runs into its timeout) with timers pending.
ProcessDies(p) ==
    LET running == {s \in Slots : slot[s].state # "idle" /\ slot[s].by = p}
    IN  /\ Lose(timers[p] \cup {slot[s].month : s \in running})
        /\ timers' = [timers EXCEPT ![p] = {}]
        /\ slot' = [s \in Slots |-> IF s \in running THEN IdleSlot ELSE slot[s]]
        /\ UNCHANGED <<ledgerSide, summary, writtenAgo, jobSide>>

-----------------------------------------------------------------------------
(* ReconcileMonthlySummary: no transaction, one key at a time.             *)

ListActiveSince == {m \in RefMonths : summary[m].row /\ writtenAgo[m] <= LookbackDays}

ReconcileBegin ==
    /\ reconciler = "idle" /\ ~ranToday
    /\ keys' = ListActiveSince /\ reconciler' = "next" /\ ranToday' = TRUE
    /\ UNCHANGED <<ledgerSide, timers, slot, summary, writtenAgo, at, losses, lost>>

ReconcileCash(m) ==
    /\ reconciler = "next" /\ m \in keys
    /\ at' = [NoKey EXCEPT !.month = m, !.cash = cash[m]]
    /\ keys' = keys \ {m} /\ reconciler' = "card"
    /\ UNCHANGED <<ledgerSide, timers, slot, summary, writtenAgo, ranToday, losses, lost>>

ReconcileCard ==
    /\ reconciler = "card"
    /\ at' = [at EXCEPT !.card = card[at.month]]
    /\ reconciler' = "compare"
    /\ UNCHANGED <<ledgerSide, timers, slot, summary, writtenAgo, keys, ranToday, losses, lost>>

\* Mutant: the outcome is not compared.
DiffersInCash == summary[at.month].cash # at.cash
Differs == summary[at.month].cash # at.cash \/ summary[at.month].card # at.card

\* Get and, when different, Upsert: two statements.
ReconcileCompare ==
    /\ reconciler = "compare"
    /\ reconciler' = IF Differs THEN "upsert" ELSE "next"
    /\ UNCHANGED <<ledgerSide, timers, slot, summary, writtenAgo, keys, at, ranToday, losses, lost>>

ReconcileUpsert ==
    /\ reconciler = "upsert"
    /\ Upsert(at.month, at.cash, at.card)
    /\ reconciler' = "next"
    /\ UNCHANGED <<ledgerSide, timers, slot, keys, at, ranToday, losses, lost>>

ReconcileEnd ==
    /\ reconciler = "next" /\ keys = {}
    /\ reconciler' = "idle" /\ at' = NoKey
    /\ UNCHANGED <<ledgerSide, timers, slot, summary, writtenAgo, keys, ranToday, losses, lost>>

\* The first error ends the day's run; the keys it did not reach wait for the
\* next one, which lists them again while they are recent.
ReconcileFails ==
    /\ reconciler # "idle"
    /\ Lose(keys \cup (IF reconciler = "next" THEN {} ELSE {at.month}))
    /\ reconciler' = "idle" /\ keys' = {} /\ at' = NoKey
    /\ UNCHANGED <<ledgerSide, timers, slot, summary, writtenAgo, ranToday>>

\* Recomputations take seconds and end on the day they began.
NewDay ==
    /\ ranToday /\ reconciler = "idle" /\ \A s \in Slots : slot[s].state = "idle"
    /\ \A p \in Processes : timers[p] = {}
    /\ ranToday' = FALSE
    /\ writtenAgo' = [m \in RefMonths |-> IF writtenAgo[m] = AgeCapDays THEN AgeCapDays ELSE writtenAgo[m] + 1]
    /\ UNCHANGED <<ledgerSide, timers, slot, summary, reconciler, keys, at, losses, lost>>

-----------------------------------------------------------------------------
SummaryNext ==
    \/ \E m \in RefMonths : Change(m) \/ ReconcileCash(m)
    \/ \E p \in Processes, m \in RefMonths :
          Schedule(p, m) \/ \E s \in Slots : Fire(p, m, s)
    \/ \E s \in Slots : SumCash(s) \/ SumCard(s) \/ Recompute(s) \/ RecomputeFails(s)
    \/ \E p \in Processes : ProcessDies(p)
    \/ ReconcileBegin \/ ReconcileCard \/ ReconcileCompare
    \/ ReconcileUpsert \/ ReconcileEnd \/ ReconcileFails \/ NewDay

SummarySpec == SummaryInit /\ [][SummaryNext]_summaryVars

\* Events are delivered, timers fire, statements return, the job is daily.
SummaryFairness ==
    /\ \A m \in RefMonths : WF_summaryVars(\E p \in Processes : Schedule(p, m))
    /\ \A m \in RefMonths, p \in Processes : WF_summaryVars(\E s \in Slots : Fire(p, m, s))
    /\ \A s \in Slots : WF_summaryVars(SumCash(s) \/ SumCard(s) \/ Recompute(s))
    /\ WF_summaryVars(ReconcileBegin) /\ WF_summaryVars(NewDay)
    /\ WF_summaryVars(\/ \E m \in RefMonths : ReconcileCash(m)
                      \/ ReconcileCard \/ ReconcileCompare \/ ReconcileUpsert \/ ReconcileEnd)
SummaryFairSpec == SummarySpec /\ SummaryFairness

-----------------------------------------------------------------------------
SummaryRows == [cash : Nat, card : Nat, row : BOOLEAN]
Recomputations == [state : {"idle", "cash", "card", "upsert"}, month : RefMonths,
                   by : Processes, cash : Nat, card : Nat]
ReconcilerStates == {"idle", "next", "card", "compare", "upsert"}

\* The types of the ledger's sums, the timers, the recomputations and the job;
\* a job at rest has no month left.
SummaryTypeOK ==
    /\ cash \in [RefMonths -> Nat] /\ card \in [RefMonths -> Nat]
    /\ events \in [RefMonths -> Nat]
    /\ timers \in [Processes -> SUBSET RefMonths]
    /\ slot \in [Slots -> Recomputations]
    /\ summary \in [RefMonths -> SummaryRows]
    /\ writtenAgo \in [RefMonths -> 0..AgeCapDays]
    /\ reconciler \in ReconcilerStates
    /\ keys \subseteq RefMonths /\ (reconciler = "idle" => keys = {})
    /\ at \in [month : RefMonths, cash : Nat, card : Nat]
    /\ ranToday \in BOOLEAN /\ losses \in Nat /\ lost \subseteq RefMonths

Right(m) == summary[m].cash = cash[m] /\ summary[m].card = card[m]
Pending(m) ==
    \/ events[m] > 0
    \/ \E p \in Processes : m \in timers[p]
    \/ \E s \in Slots : slot[s].state # "idle" /\ slot[s].month = m
    \/ m \in keys \/ (reconciler \notin {"idle", "next"} /\ at.month = m)

\* Recomputations overwrite each other in any order and the reconciler writes
\* what it read before; still no wrong summary is out of everybody's sight:
\* a recomputation is under way, the reconciler will list it, or a fault took
\* the last recomputation of a summary too old to be listed.
StaleIsWatched == \A m \in RefMonths :
    ~Right(m) => Pending(m) \/ WillBeListed(m) \/ m \in lost

\* Once no more transactions come, every summary becomes and stays right.
SummariesConverge == \A m \in RefMonths : <>[](Right(m) \/ m \in lost)
=============================================================================
