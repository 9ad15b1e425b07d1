----------------------------- MODULE Expenses -----------------------------
(***************************************************************************)
(* internal/budgets mirrors the outcome transactions of a user as expenses  *)
(* of a budget and evaluates the thresholds of a category after every       *)
(* expense it stores.  Both are driven by outbox events, which one user's   *)
(* feed delivers in order and at least once; a dispatcher that stalls past  *)
(* its lease may run its handler long after the event was redelivered.      *)
(***************************************************************************)
EXTENDS Integers, Sequences, FiniteSets, Functions

CONSTANTS
    Txs, CreditTxs,        \* transactions, and those bought on a card
    Parts,                 \* instalments of a card purchase
    ExpenseAmounts,
    PlannedCents,          \* planned_cents of the category, once the budget is active
    MaxDeliveredAlerts,
    MaxCommands,           \* bound on commands to the ledger
    MaxSeconds,            \* bound on the clock
    MaxDeliveryFaults      \* bound on redelivered, stalled and dead events

ASSUME ExpensesAssumption ==
    /\ CreditTxs \subseteq Txs /\ Parts \in Nat \ {0} /\ ExpenseAmounts \subseteq Nat \ {0}
    /\ PlannedCents \in Nat \ {0} /\ MaxDeliveredAlerts \in Nat
    /\ MaxCommands \in Nat /\ MaxSeconds \in Nat \ {0} /\ MaxDeliveryFaults \in Nat

VARIABLES
    purchase,      \* transactions as the ledger has them
    feed,          \* undelivered outbox events of the user
    stalled,       \* an event whose handler may still run although it was redelivered
    expense,       \* budgets_expenses by identity
    budgetActive, monthOver,
    second,        \* the clock, at the resolution of committed_at
    threshold,     \* budgets_threshold_states
    alerts,        \* budgets_alerts, counted per threshold and state
    lastCommit,    \* second of the latest expense committed, and how many it has
    commands, deliveryFaults,
    diverged       \* transactions whose events were lost, late, or turned them into income

expensesVars == <<purchase, feed, stalled, expense, budgetActive, monthOver, second,
                  threshold, alerts, lastCommit, commands, deliveryFaults, diverged>>

Thresholds == {80, 100}
Items(t) == {<<"card", t, i>> : i \in 1..Parts}
TxKey(t) == <<"transaction", t, 0>>
ExpenseKeys == {TxKey(t) : t \in Txs} \cup UNION {Items(t) : t \in CreditTxs}

NoTransaction == [state |-> "none", amount |-> 0, outcome |-> TRUE]
NoExpense == [state |-> "none", amount |-> 0]
NoEvent == [type |-> "none", tx |-> CHOOSE t \in Txs : TRUE, amount |-> 0, outcome |-> TRUE,
            at |-> 0, retroactive |-> FALSE]
NeverEvaluated == [known |-> FALSE, crossed |-> FALSE, at |-> 0]
NoAlerts == [delivered |-> 0, limited |-> 0, retroactive |-> 0]

ExpensesInit ==
    /\ purchase = [t \in Txs |-> NoTransaction]
    /\ feed = <<>> /\ stalled = NoEvent
    /\ expense = [k \in ExpenseKeys |-> NoExpense]
    /\ budgetActive = FALSE /\ monthOver = FALSE /\ second = 1
    /\ threshold = [th \in Thresholds |-> NeverEvaluated]
    /\ alerts = [th \in Thresholds |-> NoAlerts]
    /\ lastCommit = [at |-> 0, count |-> 0]
    /\ commands = 0 /\ deliveryFaults = 0 /\ diverged = {}

mirror == <<expense, threshold, alerts, lastCommit>>
calendar == <<budgetActive, monthOver, second>>

-----------------------------------------------------------------------------
(* The ledger, as far as budgets sees it: commands and their events.        *)

Command(t, after, type) ==
    /\ commands < MaxCommands
    /\ commands' = commands + 1
    /\ purchase' = [purchase EXCEPT ![t] = after]
    /\ feed' = Append(feed, [NoEvent EXCEPT !.type = type, !.tx = t, !.amount = after.amount,
                                            !.outcome = after.outcome])
    /\ UNCHANGED <<stalled, mirror, calendar, deliveryFaults>>

TransactionCommits(t, a, out) ==
    /\ purchase[t].state = "none"
    /\ t \in CreditTxs => out
    /\ Command(t, [state |-> "live", amount |-> a, outcome |-> out], "created")
    /\ UNCHANGED diverged

TransactionChanges(t, a, out) ==
    /\ purchase[t].state = "live"
    /\ t \in CreditTxs => out
    /\ Command(t, [state |-> "live", amount |-> a, outcome |-> out], "updated")
    /\ diverged' = IF out THEN diverged ELSE diverged \cup {t}

TransactionDisappears(t) ==
    /\ purchase[t].state = "live"
    /\ Command(t, [purchase[t] EXCEPT !.state = "deleted"], "deleted")
    /\ UNCHANGED diverged

-----------------------------------------------------------------------------
(* UpsertExpense and DeleteExpense: what becomes of one row.                *)

\* Mutant: a tombstone is written over.
UpsertOverTombstone(row, a, reconcile) ==
    IF row.state # "live" \/ reconcile THEN [state |-> "live", amount |-> a] ELSE row

UpsertExpense(row, a, reconcile) ==
    CASE row.state = "none" -> [state |-> "live", amount |-> a]
      [] row.state = "live" /\ reconcile -> [state |-> "live", amount |-> a]
      [] OTHER -> row

Upserts(row, reconcile) == row.state = "none" \/ (row.state = "live" /\ reconcile)

DeleteExpense(row) == IF row.state = "live" THEN [row EXCEPT !.state = "deleted"] ELSE row

\* budgets.expense.committed.v1, published with the row.
publishCommitted(n) ==
    LET e == [NoEvent EXCEPT !.type = "committed", !.at = second, !.retroactive = monthOver]
    IN  [i \in 1..n |-> e]

Commits(n) ==
    lastCommit' = IF n = 0 THEN lastCommit
                  ELSE [at |-> second, count |-> n + (IF lastCommit.at = second THEN lastCommit.count ELSE 0)]

-----------------------------------------------------------------------------
(* The consumers.  Handle(e, rest) leaves rest of the feed and appends what  *)
(* the handler publishes.                                                   *)

Stores(keys, a, reconcile, rest) ==
    LET stored == {k \in keys : Upserts(expense[k], reconcile)}
    IN  /\ expense' = [k \in ExpenseKeys |-> IF k \in keys THEN UpsertExpense(expense[k], a, reconcile)
                                             ELSE expense[k]]
        /\ feed' = rest \o publishCommitted(Cardinality(stored))
        /\ Commits(Cardinality(stored))
        /\ UNCHANGED <<threshold, alerts>>

\* Every instalment is a unit of work; done are those that did not fail.
TransactionCreated(e, done, rest) ==
    Stores(IF ~e.outcome THEN {} ELSE IF e.tx \in CreditTxs THEN done ELSE {TxKey(e.tx)},
           e.amount, FALSE, rest)

\* Mutant: the update does not reconcile.
UpdateWithoutReconcile(e, rest) ==
    Stores(IF e.outcome THEN {TxKey(e.tx)} ELSE {}, e.amount, FALSE, rest)

\* The instalments of a card purchase are not looked at.
TransactionUpdated(e, rest) ==
    Stores(IF e.outcome THEN {TxKey(e.tx)} ELSE {}, e.amount, TRUE, rest)

\* Mutant: a deletion publishes nothing.
DeleteSilently(e, rest) ==
    /\ expense' = [expense EXCEPT ![TxKey(e.tx)] = DeleteExpense(@)]
    /\ feed' = rest
    /\ UNCHANGED <<threshold, alerts, lastCommit>>

TransactionDeleted(e, rest) ==
    LET k == TxKey(e.tx)
        n == IF expense[k].state = "live" THEN 1 ELSE 0
    IN  /\ expense' = [expense EXCEPT ![k] = DeleteExpense(@)]
        /\ feed' = rest \o publishCommitted(n)
        /\ Commits(n)
        /\ UNCHANGED <<threshold, alerts>>

\* SumByRoot of the first month: transactions and first instalments.
SumByRoot(rows) ==
    LET counted == {k \in ExpenseKeys : k[3] <= 1 /\ rows[k].state = "live"}
    IN  FoldFunction(LAMBDA x, y : x + y, 0, [k \in counted |-> rows[k].amount])

IsCrossed(spent, th) == spent * 100 >= PlannedCents * th

\* UpsertIfTransition.
UpsertIfTransition(row, crossed, at) ==
    IF row.known /\ at <= row.at THEN row
    ELSE [known |-> TRUE, crossed |-> crossed, at |-> at]

Transitioned(row, new) == ~row.known \/ row.crossed # new.crossed

DecideAlertForInsert(counts, retroactive) ==
    CASE retroactive -> [counts EXCEPT !.retroactive = @ + 1]
      [] ~retroactive /\ counts.delivered >= MaxDeliveredAlerts -> [counts EXCEPT !.limited = @ + 1]
      [] OTHER -> [counts EXCEPT !.delivered = @ + 1]

EvaluateAlert(e, rest) ==
    LET spent == SumByRoot(expense)
        after == [th \in Thresholds |->
                     UpsertIfTransition(threshold[th], IsCrossed(spent, th), e.at)]
    IN  /\ IF ~budgetActive THEN UNCHANGED <<threshold, alerts>>
           ELSE /\ threshold' = after
                /\ alerts' = [th \in Thresholds |->
                       IF Transitioned(threshold[th], after[th]) /\ IsCrossed(spent, th)
                       THEN DecideAlertForInsert(alerts[th], e.retroactive) ELSE alerts[th]]
        /\ feed' = rest
        /\ UNCHANGED <<expense, lastCommit>>

AllParts(e) == IF e.type = "created" /\ e.tx \in CreditTxs THEN Items(e.tx) ELSE {}

Handle(e, done, rest) ==
    \/ e.type = "created" /\ TransactionCreated(e, done, rest)
    \/ e.type = "updated" /\ TransactionUpdated(e, rest)
    \/ e.type = "deleted" /\ TransactionDeleted(e, rest)
    \/ e.type = "committed" /\ EvaluateAlert(e, rest)

-----------------------------------------------------------------------------
(* Delivery.                                                               *)

Deliver ==
    /\ feed # <<>>
    /\ Handle(Head(feed), AllParts(Head(feed)), Tail(feed))
    /\ UNCHANGED <<purchase, stalled, calendar, commands, deliveryFaults, diverged>>

Fault ==
    /\ deliveryFaults < MaxDeliveryFaults
    /\ deliveryFaults' = deliveryFaults + 1

\* An instalment fails, or the process dies before the event is marked.
Redeliver ==
    /\ feed # <<>> /\ Fault
    /\ \E done \in SUBSET AllParts(Head(feed)) : Handle(Head(feed), done, feed)
    /\ UNCHANGED <<purchase, stalled, calendar, commands, diverged>>

\* The lease of the dispatcher that holds the event ends before its handler.
Stall ==
    /\ feed # <<>> /\ stalled = NoEvent /\ Fault
    /\ stalled' = Head(feed)
    /\ UNCHANGED <<purchase, feed, mirror, calendar, commands, diverged>>

StalledHandlerRuns ==
    /\ stalled # NoEvent
    /\ Handle(stalled, AllParts(stalled), feed)
    /\ stalled' = NoEvent
    /\ diverged' = IF stalled.type = "committed" THEN diverged ELSE diverged \cup {stalled.tx}
    /\ UNCHANGED <<purchase, calendar, commands, deliveryFaults>>

\* Its attempts are used up.
DeadLetter ==
    /\ feed # <<>> /\ Fault
    /\ feed' = Tail(feed)
    /\ diverged' = IF Head(feed).type = "committed" THEN diverged ELSE diverged \cup {Head(feed).tx}
    /\ UNCHANGED <<purchase, stalled, mirror, calendar, commands>>

BudgetIsActivated ==
    /\ ~budgetActive /\ budgetActive' = TRUE
    /\ UNCHANGED <<purchase, feed, stalled, mirror, monthOver, second, commands, deliveryFaults, diverged>>

MonthEnds ==
    /\ ~monthOver /\ monthOver' = TRUE /\ second < MaxSeconds
    /\ second' = second + 1
    /\ UNCHANGED <<purchase, feed, stalled, mirror, budgetActive, commands, deliveryFaults, diverged>>

SecondPasses ==
    /\ second < MaxSeconds /\ second' = second + 1
    /\ UNCHANGED <<purchase, feed, stalled, mirror, budgetActive, monthOver, commands, deliveryFaults, diverged>>

ExpensesNext ==
    \/ \E t \in Txs : \/ \E a \in ExpenseAmounts, out \in BOOLEAN :
                            TransactionCommits(t, a, out) \/ TransactionChanges(t, a, out)
                      \/ TransactionDisappears(t)
    \/ Deliver \/ Redeliver \/ Stall \/ StalledHandlerRuns \/ DeadLetter
    \/ BudgetIsActivated \/ MonthEnds \/ SecondPasses

ExpensesSpec == ExpensesInit /\ [][ExpensesNext]_expensesVars

-----------------------------------------------------------------------------
FeedEvents ==
    [type : {"created", "updated", "deleted", "committed"}, tx : Txs,
     amount : ExpenseAmounts \cup {0}, outcome : BOOLEAN, at : 0..MaxSeconds, retroactive : BOOLEAN]

\* The types, and: the limit of delivered alerts.
ExpensesTypeOK ==
    /\ purchase \in [Txs -> [state : {"none", "live", "deleted"},
                             amount : ExpenseAmounts \cup {0}, outcome : BOOLEAN]]
    /\ feed \in Seq(FeedEvents)
    /\ stalled \in FeedEvents \cup {NoEvent}
    /\ expense \in [ExpenseKeys -> [state : {"none", "live", "deleted"}, amount : ExpenseAmounts \cup {0}]]
    /\ budgetActive \in BOOLEAN /\ monthOver \in BOOLEAN /\ second \in 1..MaxSeconds
    /\ threshold \in [Thresholds -> [known : BOOLEAN, crossed : BOOLEAN, at : 0..MaxSeconds]]
    /\ alerts \in [Thresholds -> [delivered : 0..MaxDeliveredAlerts, limited : Nat, retroactive : Nat]]
    /\ lastCommit \in [at : 0..MaxSeconds, count : Nat]
    /\ commands \in 0..MaxCommands /\ deliveryFaults \in 0..MaxDeliveryFaults
    /\ diverged \subseteq Txs

Mirrored(t) ==
    LET live == purchase[t].state = "live" /\ purchase[t].outcome
    IN  /\ live <=> expense[TxKey(t)].state = "live"
        /\ live => expense[TxKey(t)].amount = purchase[t].amount

\* When every event of the user is delivered, however often, the expense of a
\* cash transaction is the transaction: created, updated and deleted with it.
MirrorIsLedger ==
    feed = <<>> => \A t \in Txs \ (CreditTxs \cup diverged) : Mirrored(t)

\* A deletion is final, also for an older event handled after it.
DeletedStaysDeleted ==
    [][\A k \in ExpenseKeys : expense[k].state = "deleted" => expense'[k].state = "deleted"]_expensesVars

\* When the latest expense was evaluated and nothing else was committed in its
\* second, the threshold state is what the sum of the month says.
CrossingsAreRight ==
    feed = <<>> => \A th \in Thresholds :
        (threshold[th].known /\ threshold[th].at = lastCommit.at /\ lastCommit.count = 1)
            => threshold[th].crossed = IsCrossed(SumByRoot(expense), th)

\* Each event is mirrored: whatever is bought, in cash or on a card, counts
\* once and no longer than it exists.
SpentIsLedger ==
    feed = <<>> /\ diverged = {} =>
        \A t \in Txs : LET live == purchase[t].state = "live" /\ purchase[t].outcome
                       IN  ~live => \A k \in ExpenseKeys : k[2] = t => expense[k].state # "live"
=============================================================================
