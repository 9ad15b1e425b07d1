------------------------------- MODULE Ledger -------------------------------
(***************************************************************************)
(* The ledger of internal/transactions: creating, updating and deleting    *)
(* transactions, the instalments of the credit-card ones and the invoices  *)
(* that accumulate them.                                                   *)
(*                                                                         *)
(* A request is one unit of work at READ COMMITTED.  What it has written   *)
(* stays in staged, whose domain is the invoice rows it has locked, and in *)
(* the lock on its transaction row, until Commit or Rollback; the others   *)
(* read the committed rows and wait for the locked ones.  Days are 1..2    *)
(* and a month is its number.                                              *)
(***************************************************************************)
EXTENDS Integers, FiniteSets, Functions

CONSTANTS
    Ids,            \* transactions: one per origin key of a create
    Cards, Closing, \* [Cards -> Nat], closing day
    LastMonth,      \* bound on months
    MaxParts,       \* bound on instalments (24 in the code)
    Inputs,         \* the commands a client may send
    Requests,       \* concurrent units of work
    MaxTxVersion    \* bound on the changes of each transaction

Months == 1..LastMonth
Invoices == Cards \X Months
NoCard == "none"

ASSUME LedgerAssumption ==
    /\ Ids # {} /\ IsFiniteSet(Ids) /\ IsFiniteSet(Cards)
    /\ LastMonth \in Nat \ {0} /\ MaxParts \in Nat \ {0}
    /\ MaxTxVersion \in [Ids -> Nat]
    /\ Closing \in [Cards -> Nat]
    /\ NoCard \notin Cards
    /\ \A in \in Inputs :
          /\ in.credit \in BOOLEAN /\ in.day \in Nat \ {0} /\ in.cents \in Nat \ {0}
          /\ in.card \in (IF in.credit THEN Cards ELSE {NoCard})
          /\ in.parts \in 1..MaxParts
          /\ in.month \in Months /\ in.month + in.parts \in Months

VARIABLES
    tx,       \* transactions
    items,    \* transactions_card_invoice_items, by (transaction_id, installment_index)
    inv,      \* transactions_card_invoices; ver = 0 is no row
    event,    \* ref_months_affected of the last event published
    pc, job,  \* where a request is, and what it has read
    staged    \* invoice rows a request has written and locked

ledgerVars == <<tx, items, inv, event, pc, job, staged>>

NoTx == [state |-> "absent", ver |-> 0, credit |-> FALSE, card |-> NoCard,
         closing |-> 0, month |-> 1, parts |-> 1, cents |-> 0]
NoItem == [live |-> FALSE, card |-> NoCard, month |-> 1, ref |-> 1, cents |-> 0]
NoItems == [i \in 1..MaxParts |-> NoItem]
NoInput == [credit |-> FALSE, card |-> NoCard, month |-> 1, day |-> 1,
            parts |-> 1, cents |-> 0]
NoJob == [op |-> "none", id |-> CHOOSE i \in Ids : TRUE, in |-> NoInput,
          row |-> NoTx, old |-> NoItems, part |-> 1, todo |-> {}, at |-> 1, seen |-> 0]

LedgerInit ==
    /\ tx = [i \in Ids |-> NoTx]
    /\ items = [i \in Ids |-> NoItems]
    /\ inv = [k \in Invoices |-> [total |-> 0, ver |-> 0]]
    /\ event = {}
    /\ pc = [r \in Requests |-> "idle"]
    /\ job = [r \in Requests |-> NoJob]
    /\ staged = [r \in Requests |-> <<>>]

-----------------------------------------------------------------------------
(* What the domain decides from a command.                                 *)

\* Purchases after the closing day fall in the next month's invoice.
Resolve(in, closing) ==
    [i \in 1..in.parts |->
        in.month + (IF in.day <= closing THEN 0 ELSE 1) + i - 1]

\* The remainder of the division goes to the first instalments.
Split(cents, parts) ==
    [i \in 1..parts |-> cents \div parts + (IF i <= cents % parts THEN 1 ELSE 0)]

\* The closing day is the card's when created, and then the transaction's own.
SnapshotOf(j) == IF j.op = "create" THEN Closing[j.in.card] ELSE j.row.closing
NewMonths(j) == Resolve(j.in, SnapshotOf(j))
NewAmounts(j) == Split(j.in.cents, j.in.parts)

\* The live rows among the instalments of a transaction, and what they cost.
LiveIn(rows) == {i \in 1..MaxParts : rows[i].live}
Amounts(rows) == [i \in 1..MaxParts |-> rows[i].cents]
OldParts(j) == LiveIn(j.old)
OldMonths(j) == {j.old[i].ref : i \in OldParts(j)}
HasItems(j) == IF j.op = "delete" THEN OldParts(j) # {} ELSE j.in.credit

\* Items are read with their ref_month column, not with their invoice's month.
OldByRef(j, m) == SumFunctionOnSet(Amounts(j.old), {i \in OldParts(j) : j.old[i].ref = m})
NewByRef(j, m) ==
    IF j.in.credit THEN SumFunctionOnSet(NewAmounts(j), {i \in 1..j.in.parts : NewMonths(j)[i] = m})
    ELSE 0
Delta(j, m) == NewByRef(j, m) - OldByRef(j, m)

DeltaMonths(j) ==
    OldMonths(j) \cup (IF j.in.credit THEN {NewMonths(j)[i] : i \in 1..j.in.parts} ELSE {})

\* Mutant: only the months the command names.
AffectedByCommand(j) ==
    IF j.op = "delete" THEN OldMonths(j)
    ELSE IF j.in.credit THEN {NewMonths(j)[i] : i \in 1..j.in.parts} ELSE {j.in.month}

\* RefMonthsAffected of the event.
Affected(j) ==
    IF HasItems(j) THEN DeltaMonths(j)
    ELSE (IF j.op = "create" THEN {} ELSE {j.row.month})
         \cup (IF j.op = "delete" THEN {} ELSE {j.in.month})

NewRow(j) ==
    IF j.op = "delete" THEN [j.row EXCEPT !.state = "deleted", !.ver = @ + 1]
    ELSE [state |-> "live", ver |-> j.row.ver + 1, credit |-> j.in.credit,
          card |-> j.in.card, month |-> j.in.month, parts |-> j.in.parts,
          closing |-> IF j.in.credit THEN SnapshotOf(j) ELSE 0, cents |-> j.in.cents]

\* Mutant: the rows are not soft-deleted before the upserts.
ReplaceItemsKeeping(old, j) ==
    [i \in 1..MaxParts |->
        IF j.op = "delete" \/ i > j.in.parts THEN old[i]
        ELSE [live |-> TRUE, card |-> j.in.card, month |-> NewMonths(j)[i],
              ref |-> IF old[i] = NoItem THEN NewMonths(j)[i] ELSE old[i].ref,
              cents |-> NewAmounts(j)[i]]]

\* All rows are soft-deleted, then upserted; the upsert of an existing
\* instalment rewrites invoice and amount and keeps its old ref_month.
ReplaceItems(old, j) ==
    [i \in 1..MaxParts |->
        IF j.op = "delete" \/ i > j.in.parts THEN [old[i] EXCEPT !.live = FALSE]
        ELSE [live |-> TRUE, card |-> j.in.card, month |-> NewMonths(j)[i],
              ref |-> IF old[i] = NoItem THEN NewMonths(j)[i] ELSE old[i].ref,
              cents |-> NewAmounts(j)[i]]]

-----------------------------------------------------------------------------
(* Locks and transactions.                                                 *)

InTx == {"build", "deltas", "apply", "commit"}
RowLocked(r, i) == \E q \in Requests \ {r} : pc[q] \in InTx /\ job[q].id = i
InvoiceLocked(r, k) == \E q \in Requests \ {r} : k \in DOMAIN staged[q]

\* What request r sees of an invoice, and r with one more staged.
Seen(r, k) == IF k \in DOMAIN staged[r] THEN staged[r][k] ELSE inv[k]
Stage(r, k, row) ==
    [staged EXCEPT ![r] = [x \in DOMAIN @ \cup {k} |-> IF x = k THEN row ELSE @[x]]]

Goto(r, l) == pc' = [pc EXCEPT ![r] = l]

\* The uow rolls back on an error, a panic or a cancelled context.
Rollback(r) ==
    /\ Goto(r, "idle")
    /\ job' = [job EXCEPT ![r] = NoJob]
    /\ staged' = [staged EXCEPT ![r] = <<>>]
    /\ UNCHANGED <<tx, items, inv, event>>

-----------------------------------------------------------------------------
(* The use cases.                                                          *)

Begin(r, j) ==
    /\ pc[r] = "idle"
    /\ Goto(r, "write")
    /\ job' = [job EXCEPT ![r] = j]
    /\ UNCHANGED <<tx, items, inv, event, staged>>

CreateTransaction(r, i, in) ==
    Begin(r, [NoJob EXCEPT !.op = "create", !.id = i, !.in = in])

GetByID(r, i, op, in) ==
    /\ tx[i].state = "live"
    /\ tx[i].ver <= MaxTxVersion[i]
    /\ Begin(r, [NoJob EXCEPT !.op = op, !.id = i, !.in = in,
                              !.row = tx[i], !.old = items[i]])

\* guardPaymentMethodMigration: credit stays credit.
UpdateTransaction(r, i, in) ==
    /\ tx[i].credit = in.credit
    /\ GetByID(r, i, "update", in)

DeleteTransaction(r, i) == GetByID(r, i, "delete", NoInput)

\* The first write locks the transaction's row.
WriteRow(r) ==
    /\ pc[r] = "write" /\ ~RowLocked(r, job[r].id)
    /\ Goto(r, IF ~HasItems(job[r]) THEN "commit"
               ELSE IF job[r].op = "delete" THEN "deltas" ELSE "build")
    /\ job' = [job EXCEPT ![r].todo = {m \in DeltaMonths(job[r]) : Delta(job[r], m) # 0}]
    /\ UNCHANGED <<tx, items, inv, event, staged>>

Create(r) == job[r].op = "create" /\ tx[job[r].id].state = "absent" /\ WriteRow(r)

\* The origin key exists: its live transaction is returned, a deleted one is
\* an error; nothing is written.
Reconcile(r) ==
    /\ pc[r] = "write" /\ ~RowLocked(r, job[r].id)
    /\ job[r].op = "create" /\ tx[job[r].id].state # "absent"
    /\ Rollback(r)

\* Mutant: no version in the WHERE clause.
VersionIgnored(r) == tx[job[r].id].state = "live"

VersionHolds(r) ==
    tx[job[r].id].state = "live" /\ tx[job[r].id].ver = job[r].row.ver

UpdateWithVersion(r) == job[r].op # "create" /\ VersionHolds(r) /\ WriteRow(r)

VersionConflict(r) ==
    /\ pc[r] = "write" /\ ~RowLocked(r, job[r].id)
    /\ job[r].op # "create" /\ ~VersionHolds(r)
    /\ Rollback(r)

\* UpsertByMonth: the row, inserted when missing, and its lock.
Upserted(r, k) == IF Seen(r, k).ver = 0 THEN [total |-> 0, ver |-> 1] ELSE Seen(r, k)
Applied(row, delta) ==
    IF delta = 0 THEN row ELSE [total |-> row.total + delta, ver |-> row.ver + 1]

\* One instalment: a create also applies its amount, an update only upserts.
BuildItem(r) ==
    LET j == job[r]
        k == <<j.in.card, NewMonths(j)[j.part]>>
        d == IF j.op = "create" THEN NewAmounts(j)[j.part] ELSE 0
    IN  /\ pc[r] = "build" /\ j.part <= j.in.parts
        /\ ~InvoiceLocked(r, k)
        /\ staged' = Stage(r, k, Applied(Upserted(r, k), d))
        /\ job' = [job EXCEPT ![r].part = @ + 1]
        /\ UNCHANGED <<tx, items, inv, event, pc>>

\* CHECK (amount_cents > 0): fewer cents than instalments cannot be stored.
ItemsStorable(j) == \A i \in 1..j.in.parts : NewAmounts(j)[i] > 0

ItemsBuilt(r) ==
    /\ pc[r] = "build" /\ job[r].part > job[r].in.parts
    /\ IF ItemsStorable(job[r])
       THEN /\ Goto(r, IF job[r].op = "create" THEN "commit" ELSE "deltas")
            /\ UNCHANGED <<tx, items, inv, event, job, staged>>
       ELSE Rollback(r)

DeltaCard(j) == IF j.op = "delete" THEN j.row.card ELSE j.in.card

\* applyInvoiceDeltasByMonth, in map order; an absent invoice is a nil
\* dereference, whose panic rolls back.
GetByMonth(r, m) ==
    /\ pc[r] = "deltas" /\ m \in job[r].todo
    /\ LET row == Seen(r, <<DeltaCard(job[r]), m>>)
       IN  IF row.ver = 0 THEN Rollback(r)
           ELSE /\ Goto(r, "apply")
                /\ job' = [job EXCEPT ![r].at = m, ![r].seen = row.ver]
                /\ UNCHANGED <<tx, items, inv, event, staged>>

ApplyDelta(r) ==
    LET j == job[r]
        k == <<DeltaCard(j), j.at>>
    IN  /\ pc[r] = "apply" /\ ~InvoiceLocked(r, k)
        /\ IF Seen(r, k).ver # j.seen THEN Rollback(r)
           ELSE /\ staged' = Stage(r, k, Applied(Seen(r, k), Delta(j, j.at)))
                /\ job' = [job EXCEPT ![r].todo = @ \ {j.at}]
                /\ Goto(r, "deltas")
                /\ UNCHANGED <<tx, items, inv, event>>

DeltasApplied(r) ==
    /\ pc[r] = "deltas" /\ job[r].todo = {}
    /\ Goto(r, "commit")
    /\ UNCHANGED <<tx, items, inv, event, job, staged>>

\* The event is an outbox row of the same transaction.
Commit(r) ==
    LET j == job[r]
    IN  /\ pc[r] = "commit"
        /\ tx' = [tx EXCEPT ![j.id] = NewRow(j)]
        /\ items' = [items EXCEPT ![j.id] = IF HasItems(j) THEN ReplaceItems(@, j) ELSE @]
        /\ inv' = [k \in Invoices |-> Seen(r, k)]
        /\ event' = Affected(j)
        /\ Goto(r, "idle")
        /\ job' = [job EXCEPT ![r] = NoJob]
        /\ staged' = [staged EXCEPT ![r] = <<>>]

\* A deadlock victim, a lost connection, a cancelled request.
Fail(r) == pc[r] \in InTx /\ Rollback(r)

LedgerNext == \E r \in Requests :
    \/ \E i \in Ids : DeleteTransaction(r, i)
    \/ \E i \in Ids, in \in Inputs : CreateTransaction(r, i, in) \/ UpdateTransaction(r, i, in)
    \/ Create(r) \/ Reconcile(r) \/ UpdateWithVersion(r) \/ VersionConflict(r)
    \/ BuildItem(r) \/ ItemsBuilt(r)
    \/ \E m \in Months : GetByMonth(r, m)
    \/ ApplyDelta(r) \/ DeltasApplied(r) \/ Commit(r) \/ Fail(r)

LedgerSpec == LedgerInit /\ [][LedgerNext]_ledgerVars

-----------------------------------------------------------------------------
LiveParts(i) == LiveIn(items[i])
CentsOf(i) == SumFunctionOnSet(Amounts(items[i]), LiveParts(i))

\* The types of the tables and of the requests' reads.
TxRows == [state : {"absent", "live", "deleted"}, ver : Nat, credit : BOOLEAN,
           card : Cards \cup {NoCard}, closing : Nat, month : Months,
           parts : 1..MaxParts, cents : Nat]
ItemRows == [live : BOOLEAN, card : Cards \cup {NoCard}, month : Months,
             ref : Months, cents : Nat]
InvoiceRows == [total : Int, ver : Nat]
Jobs == [op : {"none", "create", "update", "delete"}, id : Ids,
         in : Inputs \cup {NoInput}, row : TxRows, old : [1..MaxParts -> ItemRows],
         part : Nat, todo : SUBSET Months, at : Months, seen : Nat]

LedgerTypeOK ==
    /\ tx \in [Ids -> TxRows]
    /\ items \in [Ids -> [1..MaxParts -> ItemRows]]
    /\ \A i \in Ids, p \in 1..MaxParts : items[i][p].live => items[i][p].cents > 0
    /\ inv \in [Invoices -> InvoiceRows]
    /\ event \subseteq Months
    /\ pc \in [Requests -> {"idle", "write"} \cup InTx]
    /\ job \in [Requests -> Jobs]
    /\ \A r \in Requests :
          /\ DOMAIN staged[r] \subseteq Invoices
          /\ \A k \in DOMAIN staged[r] : staged[r][k] \in InvoiceRows

\* No interleaving of requests on one transaction or on one invoice, and no
\* rollback, loses or doubles a cent: all invoices together hold exactly the
\* instalments of the live purchases.
TotalsConserved ==
    SumFunction([k \in Invoices |-> inv[k].total]) = SumFunction([i \in Ids |-> CentsOf(i)])

\* After any sequence of updates a live purchase is its instalments: their
\* number, their sum and the card they are billed to; nothing else has any.
PurchaseIsItsItems == \A i \in Ids :
    IF tx[i].state = "live" /\ tx[i].credit
    THEN /\ LiveParts(i) = 1..tx[i].parts
         /\ CentsOf(i) = tx[i].cents
         /\ \A p \in LiveParts(i) : items[i][p].card = tx[i].card
    ELSE LiveParts(i) = {}

\* Whatever requests on one card interleave, roll back or die: the invoices
\* together bill the purchases, and each purchase is billed as its instalments.
InvoicesBillPurchases == TotalsConserved /\ PurchaseIsItsItems

\* What the monthly summary of month m is computed from.
SumExcludingCredit(m) ==
    SumFunctionOnSet([i \in Ids |-> tx[i].cents],
                     {i \in Ids : tx[i].state = "live" /\ ~tx[i].credit /\ tx[i].month = m})
SumByMonth(m) == SumFunction([c \in Cards |-> inv[<<c, m>>].total])

\* The event names every month whose sums its transaction changed, or the
\* summary of that month is never recomputed.
EventCoversChange ==
    [][tx' # tx \/ inv' # inv => \A m \in Months :
          SumExcludingCredit(m)' # SumExcludingCredit(m) \/ SumByMonth(m)' # SumByMonth(m)
          => m \in event']_ledgerVars

\* The ledger implements the book of purchases it promises (PurchaseBook):
\* however requests overlap, each that commits changed one transaction as it
\* stood at the commit, and moved the invoices by what that change is worth.
Purchases == INSTANCE PurchaseBook WITH
    NoEntry <- NoTx,
    entry <- tx,
    billed <- SumFunction([k \in Invoices |-> inv[k].total])

ImplementsPurchaseBook == Purchases!Spec

\* Said by docs/runbooks/transactions.md: the credit of a month is the sum of
\* its card_invoice_items.
CreditSumIsItems == \A m \in Months :
    LET InMonth(i) == {p \in LiveParts(i) : items[i][p].month = m}
    IN  SumByMonth(m) = SumFunction([i \in Ids |-> SumFunctionOnSet(Amounts(items[i]), InMonth(i))])
=============================================================================
