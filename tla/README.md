# mecontrola: a TLA+ model

mecontrola is a personal-finance assistant that users talk to over WhatsApp. It is one Go
program with an HTTP server and worker processes around a single PostgreSQL database. Almost
nothing that matters is kept in memory: a component is a set of tables, handlers that change them
in transactions, and scheduled jobs that repair what handlers and remote systems left undone. The
behaviours that are hard to test are therefore the interleavings of transactions of several
processes, stale reads, retries, crashes between two transactions, and messages that arrive late,
twice or not at all. That is what these modules model.

Paths below are relative to `src/internal/` unless they start with `docs/` or `migrations/`, which
are in `src/`.

## 1. Inventory

| component | state | operations | interacts with | modules |
|---|---|---|---|---|
| `platform/outbox` | `outbox_events` | insert in the producer's transaction; claim batch, run handlers, mark; reaper; housekeeping | every module publishes and consumes through it | `Outbox`, `OutboxQueue` |
| `platform/workflow` | `workflow_runs`, `workflow_steps` | Start, Resume, step records, compare-and-set save, suspended-run reaper, housekeeping | the conversations of `agents` run on it | `Workflow`, `RunBook` |
| `billing` | subscriptions, processed events, reconciliation checkpoint | webhook use cases, grace-expiration job, reconciliation, binding of a user | Kiwify, onboarding, identity | `Billing` |
| `transactions` | transactions, invoices with items, recurring templates and materialisations, monthly summaries | create, update, delete; invoice deltas; daily materialisation; summary recomputation and reconciliation | card, budgets (events), agents | `Ledger`, `PurchaseBook`, `Recurring`, `MonthlySummary` |
| `budgets` | budgets with allocations, expenses, threshold states, alerts sent | budget life cycle, mirror of transactions as expenses, thresholds, alerts | transactions (events), WhatsApp | `Budgets`, `Expenses`, `ThresholdAlerts` |
| `onboarding` | checkout sessions and tokens, support signals | checkout, payment, activation by message, expiry | billing, identity, WhatsApp | `Activation` |
| `identity` | users, WhatsApp numbers, entitlements | upsert a user, establish a principal, project subscription events | billing, onboarding | part of `Activation` |
| `agents` | deduplication of messages, write ledger, working memory, workflow definitions | first conversation, orders with a confirmation, idempotent writes, replies | workflow, transactions, budgets, card | `Conversation`, `OnboardingFlow` |
| `platform/whatsapp` | `processed_messages` | webhook, dedup, dispatch | onboarding, agents | part of `Conversation` |
| `platform/agent, llm, tool, memory, scorer` | agent runs, threads, memory | model calls, tool calls | agents | part of `Conversation` |
| `platform/worker`, `platform/database` | which job runs; transactions | cron with skip-if-running and deadline; unit of work | all | in the actions of the others |
| `platform/idempotency` | `idempotency_keys` | look up a key, replay or refuse, record an answer | card, transactions | `CardRequests` |
| `card` | cards, reminders sent | create, update, delete with their key; daily invoice-due job and its notifier; invoice of a date | transactions, WhatsApp | `CardRequests`, `InvoiceAlerts`, part of `Ledger` |
| `categories` | category tree and dictionary | search | transactions, budgets | none |
| other `platform`, `bootstrap`, `configs`, `cmd`, migrations, deployment | none of their own | transport, formatting, wiring | all | none |

What makes each correct, and which behaviours are hard:

* **outbox.** An event committed with a business change is handled by every registered handler at
  least once, or dead-lettered for cause; events of one user are handled one at a time and in
  order. Hard: two dispatchers claiming at once on different snapshots, a job that outlives its
  deadline or its row's lock, marks that arrive after the reaper gave the row away, crashes between
  a handler's effect and the mark.
* **workflow.** One active run per correlation key; a resumed run continues exactly where its saved
  state ends; concurrent resumes, the reaper and failures lose no saved progress. Hard: the caller
  works on a snapshot for as long as a step takes (model and database calls), three separate writes
  per step.
* **billing.** A subscription reflects what Kiwify knows, whatever order webhooks arrive in and
  whichever are lost; a user has at most one entitled subscription; paid time is never lost. Hard:
  reordering, duplicates, loss, a lagging remote API with names of its own, read page by page while
  it changes, a watermark, jobs racing webhooks.
* **transactions.** Invoices hold exactly the instalments of the live purchases; a template is
  materialised once a month; a monthly summary converges to the sums of the month. Hard: requests
  that lock the invoices of a card in any order, three units of work per materialisation, an
  acknowledged event whose recomputation waits in memory.
* **budgets.** A budget is divided completely; expenses mirror the transactions that are expenses,
  once each; a crossed threshold is announced once. Hard: reads without locks and writes by id,
  at-least-once and late delivery, an alert that is marked before it is sent.
* **onboarding, identity.** A token activates one number once and only after payment; a paid one
  that expires reaches support. Hard: two numbers at once, expiry racing payment, a race answered
  as success.
* **agents, whatsapp.** A published message is answered and an order written once; a yes confirms
  the question the user was asked; whoever is onboarded has the budget he confirmed. Hard: dedup
  before handling, ledger row after the write, runs left over from crashes, state saved last.
* **idempotency, card.** A repeated request writes once, and a key means one body; an invoice that
  falls due is announced, and announced once. Hard: copies of a request at once, keys that expire,
  records that only some use cases write; two workers and two calendars (UTC, local) at the ends of
  months, a reminder marked before it is sent. *categories* is a read-mostly tree.

`PROJECT.json` lists every hazard at its line with the properties that cover it.

## 2. The modules

Each component has its own module. The theorems about the components are in `OutboxProofs`,
`WorkflowProofs`, `BillingProofs`, `TransactionsProofs` (`Ledger`, `Recurring`, `MonthlySummary`),
`BudgetsProofs` (`Budgets`, `Expenses`, `ThresholdAlerts`), `WhatsAppProofs` (`Activation`,
`Conversation`, `OnboardingFlow`) and `CardProofs` (`CardRequests`, `InvoiceAlerts`); `SumTheorems`
has the lemmas on sums they share. The small instances are `MCOutbox`, `MCWorkflow`, `MCBilling`, `MCLedger`,
`MCExpenses`, `MCCardRequests`, and two that check several modules side by side, `MCMoney`
(`Ledger`, `Recurring`, `Budgets`, `Expenses`, `ThresholdAlerts`, `Conversation`, `Activation`) and
`MCService` (`Outbox`, `OnboardingFlow`, `MonthlySummary`, `CardRequests`, `InvoiceAlerts`).

Some operators come in two versions (`Stuck` and `StuckAtOnce`, `Save` and `SaveSameVersion`, ...).
The specification uses the one named in the tables; the other, marked as a mutant, is the same
operator with one plausible bug, and substituting it violates the property that `PROJECT.json`
pairs it with. They document which part of the code each property depends on.

How the modules meet: the outbox hands out one event of a user at a time and in order, at least
once, late after an expired lease, or not at all after the last attempt. `Expenses`, `Activation`
and `Conversation` take exactly that from it (`SerialPerUser`, `FifoPerUser`, `ImplementsQueue`) as
their feed. `Conversation` and `OnboardingFlow` take from `Workflow` one active run per key, and
calls that take effect as a whole or not at all (`ImplementsRunBook`).

### 2.1 Outbox

Source: `platform/outbox/*.go`, the outbox part of `platform/worker/job`, and the constraints of
`outbox_events` in `migrations/`.

| model | code |
|---|---|
| `status`, `attempts`, `wait`, `lockedBy`, `age` | columns `status`, `attempts`, `next_attempt_at`, `locked_by`, `locked_at`/`published_at`. Time is relative: ticks until, or since |
| `pc`, `cand`, `rows`, `cur`, `snap`, `handler`, `herr`, `jobAge` | local state of one `DispatcherJob.Run` per worker process |
| `done`, `tries`, `late`, `faults` | history and bounds, not in the code |
| `Publish` | insert in the producer's transaction |
| `StartRun`, `Claim`, `ClaimNothing` | `ClaimBatch`: one statement, but under READ COMMITTED its snapshot (which rows, computed by subqueries) and its locked update (which only re-evaluates the row's own columns) see different states; the unique index on in-flight users may refuse it |
| `NextRow`, `HandlerReturns`, `HandlerReturnsLate`, `Abandon`, `FinishRun` | `processClaimed`, `runHandlers`, and the context checks between them |
| `Mark`, `MarkLost` | `mark` with its three store calls, each with the CHECK constraints that may refuse it; a lost transaction is logged and skipped |
| `Crash` | the process dies, or a handler panics and the scheduler recovers it |
| `ResetStuck` | `ReaperJob` |
| `DeletePublished` | one batch of `HousekeepingJob` |

The abstract `OutboxQueue` knows no table, lock or clock: events are queued, under delivery,
delivered, dead or gone, and a failure counter. The refinement mapping renames statuses and maps
the counter to `attempts`.

Abstracted: payloads; batch order; who the producer is. A handler either accepts the event or
returns an error. `PromptHandlers` says that a handler returns when its context is done; the stale
and liveness runs are without it.

### 2.2 Workflow

Source: `platform/workflow` (`engine.go`, `reaper.go`, `housekeeping`) and its Postgres store.

| model | code |
|---|---|
| `status`, `keyOf`, `cursor`, `data`, `version` | `workflow_runs`; of the JSON state the model keeps which resume inputs were merged into it and which steps completed on the way to it |
| `steps` | `workflow_steps` (one attempt per step) |
| `pc`, `key`, `rid`, `ver`, `i`, `cur`, `out` | a goroutine inside `Start` or `Resume` with its snapshot |
| `StartLoad`, `StartInsert`, `StartRefused`, `ResumeOnConflict` | `Start` up to `execute`: check, insert, unique index, resume of the winner's run |
| `Resume` | `Resume` up to `execute` |
| `Execute`, `AppendStep`, `AppendStepFails` | `runStep`: the step function, then its record; a failed record is an error of the step |
| `Save`, `SaveConflicts`, `Reload` | the `finalize` functions, compare-and-set on `version`, and `resolveConflictOrFail` |
| `CallFails` | a crash or failed store call |
| `ReaperLists`, `ReaperSaves` | `StaleSuspendedReaper`: list, then compare-and-set one by one |
| `DeleteCompleted` | `HousekeepingJob` (steps go with their run) |

`Parallel`, `Branch` and the retry policy of a step are not modelled: the root is a sequence or a
single step, as in every workflow the agents define.

The abstract `RunBook` knows no snapshot, version, step record or retry: a key has one open run at
a time, and a call that takes effect does so as a whole, on the run as it stands at that moment. It
begins where the run stopped, takes in an input only if the run was waiting for one, and leaves the
run waiting or ended. Under the refinement mapping a call is the step `Save` that succeeds;
everything a goroutine does before it, and a save that is refused, is a stutter. That a saved state
loses nothing saved before (`NoLostUpdate`) and that a key has one active run
(`OneActiveRunPerKey`) follow from it.

### 2.3 Billing

Source: `billing/` (use cases, transition table, repositories, Kiwify client, jobs) and the indexes
of `billing_subscriptions`.

| model | code |
|---|---|
| `kiwify`, `createdAt`, `soldAt`, `updatedAt`, `sent`, `shown` | Kiwify: its subscriptions, the events it sent, and what its sales API shows, which may lag by less than the window overlap. External, modelled from how the client and the use cases use it |
| `Rows`, `status`, `periodStart`, `periodEnd`, `graceEnd`, `last`, `user` | `billing_subscriptions` (0 is NULL), by `kiwify_order_id` |
| `processed`, `Keys`, `KeyOf` | `billing_processed_events` with its keys |
| `RowOf`, `SaleIdOf` | the two names of an order, below |
| `tx` | a webhook transaction between its read and its write |
| `expiring` | candidates of a grace-job run |
| `run`, `windowStart`, `windowEnd`, `page`, `more`, `pending`, `failed`, `checkpoint` | a reconciliation run, the page it is at, and the watermark |
| `SaleApproved`, `RefundOrChargeback`, `DeliverSale` | `ProcessSaleApproved`, `ProcessRefundOrChargeback`; what they write does not depend on what they read (a sale is an upsert), so they are one action |
| `ReadRow`, `WriteRow`, `Rollback` | `ProcessSubscriptionRenewed`, `-Late`, `-Canceled`: read, `IsRegression`, write |
| `BindUser` | the binding that onboarding's activation does |
| `ListPastDueGraceExpired`, `ExpireOne`, `ExpireFails` | the grace-expiration job |
| `StartRun`, `ListPage`, `ReconcileSale`, `SkipSale`, `SaleFails`, `NextPage`, `MaxPagesReached`, `EndRun`, `RunDies` | `RunReconciliation` and `ReconcileSubscriptions`: the window, then a page of it at a time, each listed when the sales of the one before are done |
| `renewed`, `overwritten`, `left`, `floor` | history, not in the code |

A webhook that never arrives is an event in `sent` nobody handles, one that arrives twice or late
is handled again or later. `Delivered` names the triggers a run lets through.

**Two names of an order.** A webhook has one, `order_id`, which the use cases take for the sale
(the key of the processed event) and for the order (the key of the row). The sales API has an `id`,
taken for the sale, and a `reference`, taken for the order (`client.go:242`,
`reconcile_subscriptions.go:127-137`). Nothing in the code relates them; the collections in
`docs/postman` show them as separate fields, and the tests of the reconciliation give them different
values. So an order may have two rows, one of each name, and two keys.
`SaleIdIsOrderId` and `ReferenceIsOrderId` say whether the names agree; the theorems hold whatever
they say.

**Pages.** `Place` is where the API lists an order, `Position` its number among the sales of the window
at that moment. A sale that changes again leaves the window, and the later ones move up: one may slip
onto a page already read. `left` remembers that this happened during the run, and `floor` is the time
from which runs answer for every sale: such a run answers for nothing before the next window.

### 2.4 Ledger

Source: the transaction use cases of `transactions/`, their decisions and repositories.

| model | code |
|---|---|
| `tx`, `items`, `inv` | `transactions`, `transactions_card_invoice_items`, `transactions_card_invoices` with their versions |
| `event` | the months named by the outbox row of the last commit |
| `pc`, `job`, `staged` | a unit of work: where it is, what it has read, the invoice rows it has written and locked |
| `CreateTransaction`, `UpdateTransaction`, `DeleteTransaction` | the reads before the transaction begins; `GetByID` keeps the row and the items for the compare-and-set |
| `Create`, `Reconcile`, `UpdateWithVersion`, `VersionConflict` | the first write: insert, the origin key that exists already, update or soft delete by version, no row |
| `BuildItem`, `ItemsBuilt` | one invoice per instalment upserted (and locked) in turn; the CHECK on the amounts |
| `GetByMonth`, `ApplyDelta`, `DeltasApplied` | `applyInvoiceDeltasByMonth`, in map order: read a version, then a compare-and-set |
| `Commit`, `Fail` | commit with the event; deadlock victim, lost connection, panic |

The abstract `PurchaseBook` knows no unit of work, lock, instalment or invoice: a request creates,
updates or deletes one transaction as it stands at that moment, and what the cards are billed in all
is what the live credit purchases cost. The mapping takes the totals of all invoices together; a
request's commit is its step, everything before it a stutter. So what a client reads before its
transaction begins never shows: an update that commits was decided on the row it replaces.

`Resolve`, `Split`, `Affected`, `ReplaceItems` are the domain's decisions. Left out: descriptions,
categories, payment methods that are not credit (one stands for all), lists and read models.

### 2.5 Recurring

Source: recurring templates and `materialize_recurring_for_day.go`.

| model | code |
|---|---|
| `template`, `row`, `created` | templates, materialisation rows, and how often a template's transaction of a month was created |
| `locks` | advisory locks, each until its transaction ends |
| `host` | one run of the daily job per process: the templates left, the step it is at |
| `CreateTemplate`, `UpdateTemplate`, `DeleteTemplate` | the use cases, which may move the day |
| `RunJob` | the list of the templates due today, days clamped at the end of the month |
| `TryAdvisoryLock`, `InsertIfAbsent`, `CreateFromTemplate`, `MarkCompleted`, `RunEnds` | the three units of work per template |
| `RunDies`, `NextDay` | an error or a crash anywhere; a day on which the job may not have run |

### 2.6 MonthlySummary

Source: the summary consumer with its `Coalescer`, the recomputation and the daily reconciler.

| model | code |
|---|---|
| `cash`, `card` | the two sums over the ledger, as numbers of committed changes |
| `events`, `timers`, `slot` | undelivered events, debounced months per process, recomputations in progress |
| `summary`, `writtenAgo` | `transactions_monthly_summary` and the days since `updated_at` |
| `reconciler`, `keys`, `at` | the reconciler: keys left, what it read |
| `Schedule`, `Fire`, `SumCash`, `SumCard`, `Recompute`, `RecomputeFails` | the event is acknowledged when the timer is set; each sum is a statement of its own |
| `ReconcileBegin` to `ReconcileEnd` | `ReconcileMonthlySummaries`: list the ones written lately, sum, compare, write |
| `ProcessDies`, `ReconcileFails`, `NewDay` | timers are lost with their process |

### 2.7 Budgets, Expenses, ThresholdAlerts

Source: `budgets/`. Three modules that share no table a property relates.

| model | code |
|---|---|
| `budget`, `budgetRows` | `budgets` and `budgets_allocations`, one row per month of a user; ids given out |
| `request` | a unit of work between its reads and its writes, and the months left of a recurrence |
| `CreateBudget`, `EnsureExists`, `DeleteDraft` | units of work of one statement |
| `ActivateBudget`, `EditBudgetTotal`, `EditCategoryPercentage`, `SyncFutureBudgets`, `CreateRecurrence`, `processMonth`, `Write` | read without lock, decide in memory, write whole rows by id |
| `Splits`, `split.last`, `split.repeated`, `mixed` | the lists a request may send, partial ones and ones that name a category twice (of which the last entry is stored); history: the shares stored are of more than one list |
| `Distribute`, `DecideEditCategoryPercentage`, `upsertAllocation` | the allocation distributor, the edit of one share, the upsert that deletes no allocation |
| `purchase`, `feed` | the ledger's transactions as events tell of them; the events of the user |
| `expense`, `threshold`, `alerts` | `budgets_expenses`, `budgets_threshold_states`, `budgets_alerts` |
| `TransactionCreated`, `TransactionUpdated`, `TransactionDeleted`, `EvaluateAlert` | the four consumers, inside `Deliver`, `Redeliver` (a failed instalment, a lost mark) and `StalledHandlerRuns` (the lease expired) |
| `scan`, `sentRow`, `triggered`, `notifier` | the daily scan's transaction per worker, `budget_alerts_sent`, its events, the handlers that send |
| `Evaluate`, `publishAndPersist`, `IsNotified`, `FindsNoChannel`, `MarkNotified`, `SendText` | scan, publish with the row, and the notifier's steps; a user without channel ends the event |
| `HandlerFails`, `LeaseLost`, `unsent` | the outbox delivers again, or gives the event up after its last attempt; history: alerts nobody will send, and why |

### 2.8 Activation

Source: `onboarding/`, the upsert of a user in `identity/`, the binding in `billing/`.

| model | code |
|---|---|
| `token`, `consumer`, `window`, `expired` | `onboarding_tokens` with the activation window and `expires_at` |
| `subscription`, `owner`, `account` | the sale's subscription, its user, the e-mail of a number's user |
| `attempt` | `onboarding.activation.attempted` events, which carry no user and so are handled concurrently |
| `CreateCheckoutSession`, `ProcessSaleApproved`, `MarkTokenPaid`, `ActivatedAgain` | checkout; the billing event and its consumer, delivered again |
| `FindActivableByMobile`, `LoadByPhone`, `ConsumeMagicToken`, `HandlePaidToken`, `NoMatch` | `ActivateFromInbound`: find the token, then bind and consume in one transaction, or answer |
| `BulkExpire`, `EmitOrphanSignal`, `SignalsLost` | `ExpireTokens`: one statement, then a signal per paid token |

The read of the token is one step, the writes another (they lock the rows they touch until the
commit).

### 2.9 Conversation

Source: `platform/whatsapp/dispatcher`, the inbound consumer, resume dispatcher, write workflows
and write ledger of `agents/`. One thread of an onboarded user, one entry that edits and deletions
are about, one handler at a time.

| model | code |
|---|---|
| `script` | what the user says, as the parsers and the language model make of it |
| `inbox`, `attempts` | the outbox rows of the messages |
| `dedup`, `writeLedger`, `run` | the consumer's dedup rows, the write ledger, the latest run of each workflow |
| `handler` | the goroutine that handles an event |
| `RouteMessage`, `TakeEvent`, `DedupEvent`, `DedupFails`, `CompensateDedup`, `CompensationFails` | webhook, outbox, dedup and its compensation, either of whose statements may fail |
| `ResolveSuspendedRun`, `ResumeRun`, `SaveRun` | the suspended-run index and the resume of a confirmation |
| `FindByKey`, `WriteOrder`, `InsertLedgerRow`, `WriteCallFails` | `IdempotentWrite`: look up, write, record, each committed by itself |
| `AgentTurn`, `StartRun`, `SaveStartedRun`, `ToolFails` | a turn of the model with any tools for the text; the tools start runs |
| `asked`, `unheard` | history: the order the user was asked about last; those whose prompt was saved and then hidden by a later one of its turn, or lost on its way |
| `SendReply`, `MarkLost`, `SendFails`, `TimeOut`, `Crash`, `RunGetsOld`, `ReapStaleRun`, `EditElsewhere` | the rest of the world |

### 2.10 OnboardingFlow

Source: `agents/application/workflows/onboarding_workflow.go` and the use case that routes to it.

| model | code |
|---|---|
| `flow` | the user's run: status, the question it waits with, the monthly budget and its division |
| `turn` | the handler of a message: the call it is at, the state it carries until the save |
| `plan`, `wallet`, `onboarded` | budgets by month, nicknames of cards, the section of the working memory that ends the onboarding |
| `StartOnboarding`, `ResumeOnboarding`, `SaveOnboarding` | start, load and save of the run |
| `WelcomeStep`, `GoalStep`, `MonthlyBudgetStep`, `BudgetReviewStep`, `RecurrenceStep`, `CardsStep` | the questions; what a text means is any answer |
| `ReadSummary`, `DeleteDraftBudget`, `CreateBudgetOfMonth`, `ActivationStep`, `ConclusionStep`, `SummariseOnboarding` | the calls, each committed by itself |
| `OnboardingCallFails`, `OnboardingInterrupted`, `ReapStaleOnboarding`, `MonthTurns` | failures, crashes, the reaper, the clock |

`DecideAllocationKind`, `DecideDistributionBalance` and `centsToBasisPoints` are the arithmetic of
what a user writes: the unit his figures are taken for, the tolerances, the largest remainders.

### 2.11 CardRequests

Source: `platform/idempotency/` (middleware and storage) and the use cases of `card/` that create,
update and delete; the routes of `transactions/` use the same middleware.

| model | code |
|---|---|
| `cards`, `posts`, `record` | cards by id, transactions written per key, `idempotency_keys` (found, and not fresh once `expires_at` is past) |
| `http` | requests in progress: what they have read, their answer |
| `wrote` | history: the bodies whose write committed, per key |
| `Middleware` | a request whose key is not known is served; a known key is replayed or refused, which changes nothing |
| `Answer` | after the answer, the middleware records it if it is a 4xx |
| `CreateCard`, `GetByIDForUser`, `UpdateByIDForUser`, `SoftDeleteCard` | the use cases; an update reads the row unlocked and writes it back whole |
| `Commit`, `PutSucceeds` | the write and its record in one transaction: insert the record, or find the same body unexpired, or roll back with a 500 |
| `CreateTransaction` | the use case of `POST /api/v1/transactions`, which records nothing |
| `Breaks`, `Expires` | a crash, a failed statement or a lost answer; the 24 hours of a record |

Any client may send any of the `Calls` at any time, so repeating, at once or later, needs no state.

### 2.12 InvoiceAlerts

Source: `card/`: `EvaluateInvoiceDueAlerts` with its decider and repositories, the notifier of its
event. `SetDueDay` stands for whatever creates, changes or deletes a card.

| model | code |
|---|---|
| `utcDay`, `MonthLengths` | days counted from 1; months of any lengths. The local date may be a day behind (`LocalLags`) |
| `dueDay`, `reminder`, `dueEvent` | `cards.due_day`, `card_invoice_alerts_sent`, its rows of the outbox by card and date |
| `dueScan`, `ran`, `skipped` | the job's transaction per worker; which workers' job had its turn today, days on which one had none |
| `courier`, `delivered` | the handlers of the event, the messages the channel took |
| `DueDayWindow`, `FindCardsWithInvoiceDueWithin`, `Decide`, `NextDueDate` | listing by days of the month in UTC with a limit, deciding in local days |
| `Scan`, `PublishAndPersist`, `ScanFails` | what is unsent is read; events and rows are written; commit or rollback |
| `Receive`, `CheckNotified`, `MarkNotified`, `Send`, `CourierFails` | `NotifyInvoiceDue`: look, mark by compare-and-set, send; the outbox hands the event out again |

## 3. What the runs check

| run | instance | shows |
|---|---|---|
| `outbox` | 2 dispatchers, 2 events of one user (2 handlers and 1), batch 1, 2 attempts, threshold = timeout, 2 faults | `LiveJobOwnsRows`, `SerialPerUser`, `FifoPerUser`, `ImplementsQueue` |
| `service` | five parts, below, fairness of the summaries | the properties of five modules |
| `outbox_live` | 1 dispatcher, 2 events, slow handlers, 1 fault, fairness | `EventuallySettled` |
| `workflow` | 2 callers, 2 runs of one key, 2 steps, versions up to 3 | `EndReportedIsTrue`, `ImplementsRunBook` |
| `workflow_faults` | 2 callers, 1 run, 3 steps, versions up to 4, 1 fault, fairness | `SucceededRanEverything`, `CursorIsResumePoint`, `RunningEnds` |
| `billing` | 2 orders with other names in the API, 1 user, 2 webhooks at a time, clock to 3, 3 events | `OneEntitledPerUser`, `RenewalsAccumulate` |
| `billing_reconcile` | 2 orders with another reference in the API, one sale a page, only sales by webhook, overlap 2, clock to 3, 3 events, 1 fault, fairness | `CheckpointCoversSales`, `ReconciliationRepairs` |
| `money` | seven parts, below | the properties of seven modules |
| `billing_retro` | 1 order, 4 events | violation: `RetroactiveKeepsStatus` |
| `ledger_totals` | 1 purchase, 1 request | violation: `CreditSumIsItems` |
| `expenses_spent` | 2 purchases, 1 on a card | violation: `SpentIsLedger` |
| `posts_replay` | 1 client, 2 keys, 2 transactions each | violation: `RepeatedPostIsReplayed` |

`money` and `service` check modules side by side: the variable `part` says which one moves. The
modules share no variable, so a behaviour of the composition is one of one part while the others
rest, and its states are the sum of the parts' states, not their product. The parts of `money`:

| part | instance | states | properties |
|---|---|---|---|
| ledger | 2 transactions (3 and 2 versions), 2 cards with different closing days, 2 instalments, 3 months, 2 requests | 123 000 | `InvoicesBillPurchases`, `EventCoversChange`, `ImplementsPurchaseBook` |
| recurring | 1 template, 2 processes, months of 1, 2 and 1 days, 3 edits, 1 mishap | 52 000 | `RepeatsArePaidFor`, `EveryMonthServed` |
| budgets | 2 months, 2 requests, 3 edits, 2 totals, a full split, a partial one and one that repeats a category | 294 000 | `AllocationsAreWhole` |
| expenses | 2 transactions (1 on a card, 2 instalments), 3 commands, 2 seconds, 1 delivery fault | 387 000 | `MirrorIsLedger`, `DeletedStaysDeleted`, `CrossingsAreRight` |
| alerts | 2 categories, 2 workers, 2 notifiers, 2 days, 1 fault (a user without channel, a failure, a dead letter, a lost lease) | 234 000 | `NotifiedOnce`, `RememberedIsSent` |
| conversation | 8 conversations of 2 or 3 messages, 2 attempts, 2 faults, 1 edit elsewhere | 366 000 | `OneWritePerOrder`, `PublishedIsAnswered`, `YesAnswersTheQuestion` |
| activation | 2 tokens (one names no e-mail), 2 numbers, 2 messages, 2 tries, 1 misfortune | 189 000 | `ActivatedOnce`, `ConsumedKeepsOwner`, `ExpiredPaidIsSignalled` |

The parts of `service`:

| part | instance | properties |
|---|---|---|
| outbox | 2 dispatchers, an event with a user and one without user or handler, batch 2, reaper threshold below the timeout, slow handlers | `PublishedWasDelivered`, `PublishedIsFinal`, although marks hit rows that others own |
| onboarding | 1 monthly budget, 3 divisions, 1 card name, 2 months, 1 setback | `OnboardedHasPlan` |
| summary | 1 month, 2 processes, 2 recomputations at once, 3 changes, 1 loss | `StaleIsWatched`, `SummariesConverge` |
| requests | 7 calls with 3 keys, 2 cards, 2 requests at once | `KeyWritesOnce`, `KeyMeansOneBody` |
| reminders | 1 card, due days 1 and 3, months of 3, 3 and 5 days, a window of 2, days 2 to 5, 2 workers, 2 handlers, 1 edit, 1 fault | `InvoiceAnnouncedOnce`, `DueInvoicesAreRemembered` |

**Why the bounds are enough.** Two dispatchers, callers, requests, processes or notifiers are what
a race needs, because every conflict in the code is between two transactions on one row, one index
or one lock. Two events of one user give an order to break; the event without user and handler
covers the other branches of the claim and of `mark`. `MaxAttempts = 2` gives both a retry and a
dead letter; `BaseBackoff = 1` and `MaxBackoff = 2` reach the cap. Counters of time saturate just
above the last threshold they are compared with, so no bound on time is needed in `Outbox`. Three
steps let a run suspend before, in and after the middle; versions up to 4 give three saves. In
`Billing` a clock of 3 with a grace of one tick lets a charge fail, the grace end, the job list the
row and a renewal come between; three events are two sales and a change, or a sale and two renewals
that read the row at once. Pages of one sale let each sale be on a page of its own and slip onto
another; with three ticks no sale slips out of the overlap as well (that needs a clock of 4, an overlap
of 1 and a lookback of 3; the theorem covers it).

In `Ledger` the inputs are two instalments after the closing day, the other card, fewer cents than
instalments, and cash: a purchase can move to the next invoice, to the other card's and back, and
two purchases meet on one invoice. In `Recurring` one template is enough, because the templates'
rows, locks and transactions are keyed by template; of three months the middle one is the one a
template is in force for from its first day to its last, and a day of 3 is clamped in all of them.
`Budgets` has a total of 6 cents, where rounding loses more than it keeps, and one of 1001; its
splits are one of all categories with a share of 0, one of two categories, and the same two with one
of them named twice. In `Expenses` amounts of 4 and 5 against 5 planned cents reach 80 % and 100 %
together and one after the other. The eight conversations contain each kind of order, a yes said
twice, a no, an answer to a detail, an order that replaces a pending one and one text with two
orders. In `Activation` the e-mail rules need one sale with and one without an e-mail. Onboarding's
divisions are accepted in reais one cent over, accepted in percent a tenth over, and refused.
In `CardRequests` two requests at once are what a race on a key needs; the seven calls send a key
again with the same body, with another body and for another operation, collide on a nickname, and
are refused. In `InvoiceAlerts` reminders are kept by card, and cards meet only at the limit of the
list, which one card does not reach; a month ends inside the window for both due days, and day 1 is
reached from the month before.
Symmetry (dispatchers, callers and runs, webhook workers, requests and messages) is used in safety runs only.

**Deadlock** is checked except in `money`, `service`, `expenses_spent` and `posts_replay`, whose parts
really stop: a conversation ends with its last message, an onboarded user is no longer asked, the bounds
on commands run out. `Outbox` itself is checked for deadlock in `outbox`.

**Fairness.** *Outbox*: the cron starts its jobs again and again and the clock runs (`WF`); a step
of a job may be overtaken by the job's deadline, but one that gets its chance again and again before the
deadline is taken in the end (`SF` on claim, next row, each handler, mark). Without the latter a
handler that always outlasts the job's timeout is retried for ever, which the code allows. Crashes
are bounded by `MaxFaults` and not fair. *Workflow*: a goroutine inside the engine runs on (`WF`
per caller); nobody is obliged to call `Resume`. *Billing*: the reconciliation job is started again
and again and goes through its sales (`WF`), the clock runs, Kiwify's API catches up within the
overlap. No webhook is fair. *MonthlySummary*: a delivered event sets its timer, a timer fires, a
recomputation's statements return, the daily job starts and goes on (`WF` each); that is what the
outbox, Go's timers and the scheduler do unless the process dies, and losses are bounded by
`MaxLosses` and remembered in `lost`.


## 4. What is not as documented

Each is a run whose property TLC finds violated; `PROJECT.json` quotes the lines.

1. `RetroactiveKeepsStatus` (`billing_retro`). An event older than the last one applied is discarded
   only if its transition is in the table; otherwise it is applied. A late renewal revives a refunded
   subscription.
2. `CreditSumIsItems` (`ledger_totals`). The runbook says that the credit of a month is the sum of
   its invoice items. `ReplaceItems` moves an instalment to its new invoice and leaves the
   instalment's own `ref_month` as it was; the next change takes the old months from there and
   subtracts from an invoice the instalment has left. Moving a purchase by a month and deleting it
   leaves one invoice above its items and the other below.
3. `SpentIsLedger` (`expenses_spent`). Deleting a card purchase deletes none of the expenses its
   instalments became, so budgets count it for ever.
4. `RepeatedPostIsReplayed` (`posts_replay`). A repeated `POST` of a transaction is to be answered from
   its record. The middleware records refusals only and leaves a success to the use case; creating a
   transaction records none, so repeating it writes a second one.

### Further observations

They came up while reading and modelling; no run is about them unless it says so.

*Outbox.* `attempts` is counted in `mark`, so a delivery ended by a panic, a crash or the deadline is
not counted; a message that always panics is delivered for ever, where
`docs/diagrams/architecture.md:208-209` promises three attempts. Nothing validates that
`OUTBOX_REAPER_STUCK_AFTER` is at least the job timeout (both are 5 minutes by default); below it a late
mark, decided from the attempts read at the claim (`dispatcher.go:165`), may leave a row pending with no
attempt to spare, whose every later mark the CHECK refuses. The
statements of `docs/runbooks/deploy-anti-storm.md` that set `status` to 0 or 5 are refused by the
table's CHECK.

*Workflow.* A definition whose root is one step ends as succeeded when the step returns
`StepStatusFailed` without an error (`engine.go:404`); the architecture document (:472) and the tests
of sequences say failed. A resume after a failed save executes a step again whose record says
completed, as the document accepts (:469). A run left `running` by a crash is reaped by nobody.

*Billing.* Two webhook workers that renew one subscription at once with different times lose a
period (`RenewalsAccumulate` counts the row as `overwritten`). The grace job writes by id what
it listed before, so a renewal in between is overwritten
(`process_subscription_grace_expired.go:93`). A refund whose webhook was lost, of a subscription that a
webhook created, is looked up by the API's reference (`process_refund_or_chargeback.go:61`): if that is
not the `order_id`, no row is found, the sale fails in every run and, since a run with a failure keeps
the watermark (`reconcile_subscriptions.go:92`), every run begins at the same time again;
`docs/diagrams/billing/flow-reconciliation.puml:14-15` says that the subscription is corrected and the
checkpoint moves. A paid sale, reconciled under another reference, gets a second row; under the same
reference but another id, it is approved a second time and its period begins anew. A sale that slips between
two pages is lost if the window is longer than the overlap. A window of more than `reconcileMaxPages`
pages ends in an error, and the next window is longer. The `superseded` mark of a regression is rolled
back by the error returned with it, which its test expects. Without a checkpoint a run looks back an
hour and a quarter only (`run_reconciliation.go:18`). The key of a cancellation holds no time, so a second
cancellation, after a renewal, is answered as already processed
(`process_subscription_canceled.go:45`).

*Ledger.* When an update changes the card, all deltas go to invoices of the new card; a month
without invoice there is a nil dereference in `card_invoice_orchestration.go:112-116`. Invoices have
no CHECK that keeps a total from falling below zero.

*Expenses.* Updating a card purchase adds a second expense; turning an expense into an income keeps
it. Two expenses committed within one second can miss a crossing, because the threshold's state is
compared by time (`expense_committed_publisher.go:60`, `threshold_state_repository.go:50-51`).

*Recurring.* What a failed or missed run leaves undone on a template's day is not made up on another.

*Budgets.* `SyncFutureBudgets` and `CreateRecurrence` write a draft back by id over a budget that was
activated meanwhile. A request may name a category twice: its shares pass the check of the sum
(`commands/create_budget.go:69-71`) and the last entry is stored, so the draft is not 100 % and can only
be deleted or rebased. A request may name some categories only; a list written over a row with others
deletes no allocation (recurrence, synchronisation, an activation meanwhile), and the shares of an active
budget may add up to 200 %. The check of a recurrence's source asks for 100 % of drafts only, so such a
budget is copied to other months. Both are the exceptions (`mixed`) of `AllocationsAreWhole`. A category of 0 % can be planned with −1 cent
(`allocation_distributor.go:60-73`); the deficit branch of `applyLeftover` is never taken.

*ThresholdAlerts.* The row is marked before the message is sent: a failed send is not retried
(`notify_threshold_alert.go:107-120`). A user without a preferred channel ends the event successfully
(:91-99) and one whose handler keeps failing ends as a dead letter: the row stays unmarked, which keeps
the next scan of the day from raising the alert again, and nobody sends it. Two categories that cross in one scan share a key and one
message.

*Conversation.* After the 60-second deadline the compensation of the dedup row runs on the expired
context, so the retry finds a duplicate and the message is lost in silence; a crash after the insert
does the same (`whatsapp_inbound_consumer.go:354-362`), and so does a delete that fails (:358) or an
insert that commits and whose answer is lost (:219-223). The webhook's dedup row commits before the
event is published. Two runs suspended in one turn of the agent block the thread until the reaper
takes them. The turn takes the first tool's text (`agent.go:211-217`), but the guard after it relays the
last one's (`verbatim_relay.go:40`), so the question of the first order is hidden; a tool that fails in the
turn hides all. The destructive run is reaped after 20 minutes and the write run lives for 30: between
the two, when the last question is closed, a yes executes the order whose question was never shown, as it
does for a prompt whose message was lost. `YesAnswersTheQuestion` states exactly this limit. A "no" after a crash between write and save answers that the order was cancelled, though
it was registered; a failed save answers "failed" though the write took effect. An edit executed
again after a crash reports a failure, a recurring order a duplicate.

*CardRequests.* Expired records are never deleted, and a record that is found but expired is an error:
a card request that uses such a key again fails with 500 for ever. Two copies of a request at once are
both served, and the second record is accepted when the body is the same: what keeps a card from being
created twice is the uniqueness of nicknames. The refusal a racing copy gets may be recorded first and
is then what repeats are answered. The hash covers the body only, neither method nor path. `UpdateCard`
reads the row unlocked, writes it back whole and compares no version, so one of two updates at once is
lost (`update_card.go:103`).

*InvoiceAlerts.* A due day that the month does not have (29 to 31) is never listed, although the decider
would clamp it. The limit of the list counts cards already reminded of, so cards behind it wait. The row
is marked before the message is sent: a failed send is not retried. A delayed event is sent with the text
of the day it was evaluated.

*OnboardingFlow.* A crash between the insert and the first save leaves a run `running`, and every
later message gets the fallback answer. The first message of a new run is discarded. An error of the
language model fails the run, and the message, delivered again, starts from the beginning. A restart
after the activation keeps the old active budget although the new division was confirmed ("already
active" is swallowed, :1751). A month that turns between application and confirmation makes the
activation fail or activate an old recurrence draft. A crash after `CreateCard` makes the same
nickname fail the run. The working memory is written before its metadata, so an error between leaves
a user onboarded whose conclusion was never sent. A monthly budget near R$ 100 but more than 5 cents
off makes exact percentages be read as reais and refused every time (483-496).

*Activation.* A lost race is answered as success and commits the loser's binding
(`activate_from_inbound.go:166`): the e-mail index is the only protection, see `ConsumedKeepsOwner`.
An expiry between read and binding commits the binding of an expired token and an orphan signal. A
payment after expiry is not signalled. A second purchase of a known user is never activated by a
message. The row locks of the token and of the subscription are taken in both orders.
`TryFallbackActivation` is not wired.

## 5. What is proved

All proofs are checked by `tlapm` (SMT, Zenon and LS4 backends). They hold for every number of
events, users, processes, runs, orders, templates, months, cards, tokens and messages, and every
value of the bounds, that the named assumptions of the modules allow. Where a theorem needs more
than that, its statement names the assumption. Every safety invariant and every action property that
a run checks is also a theorem.

**`OutboxProofs`.**

- `TypeCorrect`: `TypeOK` is inductive as it stands. It contains `attempts <= MaxAttempts`, which the
  late marks of dispatchers that lost their claim do not break because the CHECK constraints refuse
  them. `PublishedStaysFinal` is the same argument about steps.
- `LiveJobsOwnTheirRows` needs the assumption `ReaperCoversJob`: the reaper's threshold is at least
  the job timeout; the default configuration satisfies it with equality, and without it the theorem is
  false. `LiveJobOwnsRows` alone is not inductive: it does not say why the reaper leaves a live job's
  row alone. `OwnInv` adds that the claim of a row a live job holds is no older than the job
  (`age[e] <= jobAge[d]`), that ownership lasts beyond the deadline while a prompt handler is returning
  (`Protected`), and what a job holds at each point of its run (`JobShape`).
- `PublishedImpliesDelivered` assumes nothing: `DeliveryShape` says that the handlers before the running
  one have accepted unless an error was kept, for a job that owns its row and one that lost it.
- `UsersAreServedSerially` has two halves. That no two events of a user are in processing follows from
  the unique index and from `CandidatesApart` (a claim takes one event per user), without assumptions.
  That no two dispatchers are inside handlers of one user needs `OwnInv`, hence `ReaperCoversJob`, and
  `PromptHandlers`: a handler that outlives its context outlives its claim.
- `UsersAreServedInOrder`: `QueueOrder` says that whatever is begun, held or about to be claimed has
  every earlier event of its user settled or committed later (`Passed`), and `Passed` is stable because
  nothing returns from a settled status.
- `OutboxIsAQueue`: `Outbox` implements `OutboxQueue` under the refinement mapping of the module. The
  initial states agree, and each action is a step of the queue or a stutter; a late mark is a stutter
  or a legal return because `QueueInv` knows whose row it is.

**`WorkflowProofs`.** `RunInv` says where a goroutine stands: before its insert it holds an id nobody
else knows (`Reserved`), afterwards a snapshot of an existing run; while the run still has the
snapshot's version, it is active and the snapshot contains everything the run has saved
(`FreshSnapshot`), and a snapshot of an older version is never saved. From it follow `OneActiveRun`
(the unique index together with the statuses that `Start` and `Resume` may write),
`ReportedEndIsTrue` and, as an action property, `SavesKeepProgress`. `KernelIsABook`: `Workflow`
implements `RunBook`. The initial states agree, and each action is a step of the book or a stutter.
The one that needs an argument is `Save`, because the book says of it what the kernel never tests:
that the call as a whole fits the run as it stands. `BookInv` carries that through the call, from the
load to the save (`CallsAreWhole`): as long as the snapshot's version holds, the inputs in it are the
run's, and the caller's own only if the run waits for one (`InputOf`); at the save it has been through
exactly the steps before the one it stopped at, or through all (`Stopped`). `ProgressInv` adds how far the
snapshot of a caller is (`ProgressOf`: at step `i` its steps before `i` are done), which is why a
waiting run's cursor is its resume point (`WaitsAtResumePoint`) and why a successful sequence
contains every step (`SuccessIsComplete`, under the assumption `Sequential`, that the root is a
sequence: a root that is a single step has no such guarantee, see the observation in section 4).

**`BillingProofs`.** `CheckpointCovers`: nothing falls behind the reconciliation watermark, for any
names the API gives, any page size and order of the list. Its invariant `CheckpointInv` consists of the
bounds on Kiwify's times (`KnownSales`), of `Lag` (the API shows whatever is at least `Overlap` old), of
`WindowFollows` (a window begins `Overlap` before the watermark, the first one at `floor`), and of
`RunCovers`: what the run in progress is responsible for is processed, still in its list, on a page to
come (`ToCome`), or has made it fail, unless a sale left the window. `ToCome` compares the position of a
sale with the pages read, and while nothing leaves the window positions only grow (`PositionGrows`,
`ToComeStays`); `ListPageCovers` is the step that turns a position on the page into an entry of the list.
`Lag` is where the proof uses that the lag of Kiwify's API is below `Overlap`, an assumption on Kiwify
that the code's constant encodes; `EndRunCovers` is where it uses that a failed run keeps the old
watermark, and that a run which a sale left moves `floor`. The theorem is about the name the API gives:
that the row of a webhook is reached is not claimed. `OneEntitled` follows
from the partial unique index alone, once the type invariant holds; it shows that no write of a status
or of a user goes around it, although an order may have two rows. `RenewalsAddUp` (the period ends as
many periods after its start as renewals were recorded, unless the row was written over) and
`PeriodsAreNeverGiven` (never later than what was paid) hold for any number of workers. Their invariant
`PaidInv` says that a row exists only after its order was sold (`RowsAreSold`), that each row is as its
renewals say (`RowIsPaid`), and that what a worker read is the row still, unless another has written it
since and the row is marked `overwritten`, and its event is processed by no other (`SnapshotIsPaid`).

**`TransactionsProofs`.** *Ledger.* `LedgerTypeCorrect`, `InvoicesAreBilled` and `EventsCoverChanges`
rest on `LedgerInv`. That the invoices hold what the live instalments hold is about sums that a
request changes in several statements, so the invariant follows the request: what it read is still the
table's, or an older version that the update will refuse (`ReadOK`); what it has staged moves exactly
the cents of the parts and months it is done with (`MovedOK`); and no two requests stage one invoice
or one transaction (`Locks`, the row locks of the database). At the commit the two sums meet.
`LedgerIsAPurchaseBook` turns this into the promise to a client: the ledger implements
`PurchaseBook`. Only a commit changes the tables (`OnlyCommitChanges`); the row it writes is what the
book does to the row as it stands (`NewRowIs`, from `ReadOK`), and both sums, before and after, are
what the live purchases owe (`OwedInAll`), so the invoices move by the difference of one purchase. It
needs one more invariant, that cash has no closing day (`CashHasNoClosing`). `SplitAdds`: the
instalments of any amount, in any number, add up to it.
*Recurring.* The advisory lock protects only the claim of a month, so a transaction may be repeated;
`RepeatsBounded` says how often: once per process and once more per mishap. `RepeatsArePaidFor` is not
inductive. `RepeatsCounted` charges every transaction to somebody: while the month's row is open, to a
run that is about to mark it or to a mishap; once the row is completed, the runs about to create one
are counted as well, and no new one joins them because claiming needs an open row. `ClaimRecorded` (a
run past its claim has a row, one about to mark it has a transaction) gives `CompletedIsCreated`.
`MonthsServed` is about steps: with no mishap no month ends without the transactions of the templates
in force all month. Its invariant `OnTime` follows the day: after a template's due day it is served;
on the day, once the job ran, it is served or under way.
*MonthlySummary.* `StaleSummariesWatched`: a wrong summary is never out of everybody's sight. The
invariant adds the same of what the reconciler has read (`StaleReadIsWatched`): it writes what it read
several statements ago, so it may make a right summary wrong, and that is harmless because whatever
changed the month since has left an event, a timer or a recomputation behind.

**`BudgetsProofs`.** *Budgets.* `BudgetsTypeCorrect` and `BudgetsAreDividedCompletely`: every row is
automatic and empty, a draft with shares of 100 %, or planned to the cent (`GoodRows`); the same holds
of the rows a request has decided on, which keeps several months under way at once. The arithmetic is
proved for any total and any shares: the cents a total is distributed in add up to it and no category
is more than a cent and its rounding away from its share (`Distributed`); editing one share leaves
the others natural numbers and the sum 100 % (`EditedIsWhole`). Requests may send any list,
partial or with a category twice; `GoodRow` says what is known of a row that is not `mixed`, and
`Upserted` that a list written over the categories of its own row replaces them all. That no two rows
have one id (`IdsAreKeys`) is what makes a write by id reach the row that was read.
*Expenses.* `ExpensesMirrorTheLedger` needs to know what lies between a transaction and its expense:
`Follows` says that the first event of the transaction left in the feed tells what may be stored, and
the last what the transaction is. `ThresholdsFollowTheSum` rests on `EventsNotAhead`: no event and no
threshold state is younger than the latest expense, so a stalled evaluation is refused or sees the
same sum. `DeletionsAreFinal` is about steps: the upsert never writes over a tombstone.
*ThresholdAlerts.* `AlertsSentOnce` rests on `MarkedBySender`: a message was sent, or is about to be,
only by the handler whose update turned the row to `notified`, and only one update does. Redeliveries
are harmless because of that, not because the outbox prevents them. `AlertsNotForgotten` adds
`LeaseHandled`, `SentHasEvent` and `MarkedIsSent`: while a row is unmarked, its event waits or is held
by a handler that will mark it, unless it was given up (`GivenUp`: no channel, or a dead letter); a lost
lease puts the event back.

**`WhatsAppProofs`.** *Activation.* `TokenActivatedOnce` is inductive over the types: binding,
consuming and announcing are one transaction and the update asks for a paid token. `ExpiredSignalled`
and `ConsumedSaleKept` rest on a lemma per writer: which step changes a token's life (`TokenLife`), a
sale's owner (`OwnerChange`) or the signals (`SignalsKept`). `ConsumedSaleKept` is the exact limit of
the race in section 4: the owner of a consumed sale changes only where the e-mail index cannot see it.
*Conversation.* `OrdersTakeEffectOnce`: a write and its ledger row are not one transaction, so the
ledger cannot be the reason for every operation. `OrderIsDone` gives the reason of each one: an edit
took the version its run would need, a deletion removed its target, and the tools of a message whose
dedup row stays never start again (`Spent`). `YesIsForTheQuestionAsked` follows from
`QuestionInv`: the question of every suspended run that waits for a yes was the last one to reach the
user, is in the handler's reply, or is remembered as unheard, and an order under way is one of those;
that the question asked last has no open run if another is executed is `ResolveSuspendedRun`, which
goes on only with a single suspended run. `PublishedMessagesAreAnswered` has its own invariant
(`AnswersInv`): a dedup row without an answer is that of the message in the handler, or of one that a
crash, the deadline, WhatsApp or a failed statement of the dedup table interrupted.
*OnboardingFlow.* `OnboardedUsersHavePlans`: the state of a run is saved last, so run, handler and
budgets may each be behind the others. `ReliesOn` says, of the saved state and of the one in the
handler, what the question it asks takes for granted: at the confirmation that the month's budget is
the one shown, afterwards that it is active. `SharesAreWhole` proves that largest remainders add up to
10000 for any answers, so the code's own check of that sum never fails.

**`CardProofs`.** `RepeatsWriteOnce` and `OneBodyPerKey` hold for any number of clients, keys
and cards. `KeyWritesOnce` is about a moment, the answer of a request that began after the key's first
write committed. The invariant adds why such a request cannot get that far: from its beginning on its
key has a record that is expired (`LateIsRefused`: a known key would have been replayed, and a record
is never deleted nor renewed), so the put in its transaction is refused and the write rolls back.
`InvoicesAnnouncedOnce` rests on `MarkedByOneCourier`, the compare-and-set of `notified_at`.
`DueInvoicesRemembered` has three assumptions that say when a reminder can be promised at all: the
calendar covers the days counted, every month is longer than the window (the code looks at the due
dates of two months only), and the list of the job holds every card (it has a limit and no second
page). The core is a lemma on the calendar: what falls due within the window of a day is what the
job of that day computes, whichever month and local date it is in. `InvoiceTypeCorrect` adds that no
alert is for a date outside the calendar, if it reaches the month after the last day counted.

**`SumTheorems`.** The provers cannot instantiate an induction theorem with an operator. Sums
over sets are therefore reasoned about with a set instead of an operator: the sets for which a fact
holds (`InductionOnSets`), or the numbers for which it fails, whose smallest member leads to a
contradiction (`SmallestOf`). This gives that a sum exists, splits, changes with one summand and is
monotone, and that the recursive function `StartOf` of the calendar exists.

## 6. What is only model-checked

- Liveness (`EventuallySettled`, `RunningEnds`, `ReconciliationRepairs`, `SummariesConverge`): fairness
  and `ENABLED` are out of the prover's reach.
- The disagreements of section 4, which are counterexamples.
- What a theorem assumes and an instance goes beyond: `SerialPerUser` and the others hold in the
  instances under the same assumptions; beyond them nothing is claimed.

`LedgerTypeOK`, `BudgetsTypeOK`, `ExpensesTypeOK`, `NoLostUpdate` and `OneActiveRunPerKey` are proved and
not checked by a run of their own; the last two are implied by `ImplementsRunBook`, which is. No
module declares a `RECURSIVE` operator.

## 7. What is not modelled

Whole components (section 1):

- *categories*: a read-mostly tree and dictionary; search and ranking are pure functions on text.
- *worker, database, observability, HTTP, HTTP client, rate limiter, configuration, bootstrap*: I/O
  and wiring. What the models need of them (transactions, isolation, deadlines, one run of a job at
  a time) is in their actions.

In modelled components:

- *outbox*: validation of event fields. *workflow*: Branch, Parallel and Retry, the JSON codec,
  non-durable runs. *billing*: e-mails, plan lookup, signatures, renewal charges that Kiwify lists
  as sales of their own, clean-up of event keys.
- *transactions*: lists and read models, categories and descriptions. *budgets*: the retention purge,
  the pending-events table (which nothing writes), the summaries the agent reads.
- *card*: banks and the closing day derived from them, lists, the best day of purchase.
  *idempotency*: answers above 64 KiB.
- *onboarding, identity*: outreach (disabled by default), activation e-mail, token page, beacons,
  throttling of the no-match answer, deletion and reanimation of users, entitlements (projected and
  read by nobody). Configured times become orders of events: a token is or is not past its life of 7
  days, an activation in or out of its window of 24 hours.
- *agents*: the workflows for goals, cards, budgets and the treatment name (they use the confirmation
  step and the engine of `Conversation`; none but the creation of a card uses the write ledger, an edit
  of a distribution is five writes and a synchronisation, each committed by itself), audio, the daily limit, scorers and
  read-only tools. The language model is an external choice: any tools for an order, any meaning for
  an answer. `Conversation` is about onboarded users; in `OnboardingFlow` nobody edits the budgets
  over HTTP meanwhile, and the engine's save conflicts only with the reaper, since the outbox hands
  out one message of a user at a time.

## 8. What is left

1. Theorems across modules: that what `Outbox` hands out is what `Expenses` and `Conversation` take as
   their feed (today `ImplementsQueue` on one side and their assumptions on the other), and likewise
   `Workflow` for the runs of `Conversation` and `OnboardingFlow`.
2. The confirmation workflows of budgets (`agents/application/workflows/budget_manage_workflow.go`):
   several writes behind one yes, of which a crash leaves some (an edited division is applied as five
   successive calls of `EditCategoryPercentage`).
3. The combinators of the engine, when a definition uses `Parallel` or `Branch` with suspension.
