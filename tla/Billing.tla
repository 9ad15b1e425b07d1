------------------------------ MODULE Billing -------------------------------
(***************************************************************************)
(* Subscriptions of internal/billing: Kiwify webhooks that arrive late,    *)
(* twice, out of order or never, the grace-expiration job, the periodic    *)
(* reconciliation with Kiwify's sales, and the binding of a user.          *)
(*                                                                         *)
(* Kiwify itself is the environment: it sells, renews, fails a charge,     *)
(* cancels and refunds, and every such event may be delivered by a webhook *)
(* from then on. One order stands for one Kiwify subscription. Of the two  *)
(* refund triggers (order_refunded, chargeback) one is kept.               *)
(*                                                                         *)
(* A webhook names an order by its order_id, which serves as the sale and  *)
(* as the order; the sales API names it by an id, taken for the sale, and  *)
(* a reference, taken for the order. Nothing in the code relates them.     *)
(***************************************************************************)
EXTENDS Integers, FiniteSets

CONSTANTS
    Orders,      \* Kiwify orders
    Users,
    Workers,     \* goroutines serving webhooks
    Delivered,   \* triggers whose webhooks reach the server at all
    Period,      \* plan duration
    Grace,       \* DefaultGraceWindow
    Overlap,     \* reconciliationWindowOverlap, and bound on the lag of Kiwify's API
    Lookback,    \* reconciliationDefaultLookback
    MaxTime,     \* bound on the clock
    MaxEvents,   \* bound on the events Kiwify sends
    MaxFaults,   \* bound on failures inside a reconciliation run
    MaxWait,     \* bound on the time from an order's creation to its payment
    SaleIdIsOrderId,     \* whether the API's id is the webhooks' order_id
    ReferenceIsOrderId,  \* whether its reference is
    Place,       \* where the sales API lists an order
    PageSize,    \* sales in a page of the API
    MaxPages     \* reconcileMaxPages

ASSUME ParametersAssumption ==
    /\ Period \in Nat \ {0} /\ Grace \in Nat \ {0}
    /\ Overlap \in Nat \ {0} /\ Lookback \in Nat
    /\ MaxTime \in Nat \ {0} /\ MaxEvents \in Nat
    /\ MaxFaults \in Nat /\ MaxWait \in Nat

ASSUME ApiAssumption ==
    /\ IsFiniteSet(Orders)
    /\ SaleIdIsOrderId \in BOOLEAN /\ ReferenceIsOrderId \in BOOLEAN
    /\ Place \in [Orders -> Nat]
    /\ \A o, p \in Orders : Place[o] = Place[p] => o = p
    /\ PageSize \in Nat \ {0} /\ MaxPages \in Nat \ {0}

NoUser == "no user"
ASSUME NoUserAssumption == NoUser \notin Users

Statuses == {"ACTIVE", "PAST_DUE", "CANCELED_PENDING", "EXPIRED", "REFUNDED"}
Entitled == {"ACTIVE", "PAST_DUE", "CANCELED_PENDING"}
Changes == {"subscription_renewed", "subscription_late", "subscription_canceled"}
Triggers == Changes \cup {"order_approved", "order_refunded"}
Event == [via : {"webhook", "api"}, trigger : Triggers, order : Orders, at : 1..MaxTime]

\* A row is what kiwify_order_id names, a key of a sale what its SaleID does.
Rows == Orders \X {"order_id", "reference"}
Keys == [trigger : Triggers,
         of      : Orders \X {"order_id", "id", "subscription"},
         at      : 0..MaxTime]

VARIABLES
    now,
    kiwify, createdAt, soldAt, updatedAt, sent, \* Kiwify's orders, and the events it sent
    shown,                           \* what the sales API shows of an order
    status, periodStart, periodEnd, graceEnd, last, user, \* billing_subscriptions (0 is NULL)
    processed,                       \* billing_processed_events
    tx,                              \* a webhook: after its read, or answering
    expiring,                        \* candidates the grace job has listed
    run, windowStart, windowEnd, page, more, pending, failed, \* a reconciliation run
    checkpoint,                      \* its watermark
    faults,
    \* History. The renewals applied to a row, and the rows whose period was
    \* written over; whether a sale has left the window of the run, and the
    \* time from which runs answer for every sale.
    renewed, overwritten, left, floor

world == <<kiwify, createdAt, soldAt, updatedAt, sent, shown>>
row == <<status, periodStart, periodEnd, graceEnd, last, renewed, overwritten>>
rows == <<row, user, processed>>
window == <<windowStart, windowEnd>>
listing == <<page, more, left>>
watermark == <<checkpoint, floor>>
job == <<run, window, listing, pending, failed, watermark>>
vars == <<now, world, rows, tx, expiring, job, faults>>

Times == 0..MaxTime
Shown == [state : {"none", "paid", "refunded"}, at : Times]
Idle == [state |-> "idle"]
Snapshot == [state     : {"read", "superseded"},
             event     : {e \in Event : e.trigger \in Changes},
             row       : Rows,
             periodEnd : Nat]

TypeOK ==
    /\ now \in 1..MaxTime
    /\ kiwify \in [Orders -> {"none", "active", "late", "canceled", "refunded"}]
    /\ createdAt \in [Orders -> Times] /\ soldAt \in [Orders -> Times]
    /\ updatedAt \in [Orders -> Times]
    /\ sent \subseteq Event
    /\ shown \in [Orders -> Shown]
    /\ status \in [Rows -> Statuses \cup {"absent"}]
    /\ periodStart \in [Rows -> Times] /\ periodEnd \in [Rows -> Nat]
    /\ graceEnd \in [Rows -> Nat]
    /\ \A r \in Rows : (graceEnd[r] # 0) <=> (status[r] = "PAST_DUE")
    /\ last \in [Rows -> Times]
    /\ user \in [Rows -> Users \cup {NoUser}]
    /\ processed \subseteq Keys
    /\ tx \in [Workers -> Snapshot \cup {Idle}]
    /\ expiring \subseteq Rows
    /\ run \in {"idle", "list", "sales"}
    /\ windowStart \in Int /\ windowEnd \in Times /\ checkpoint \in Times
    /\ page \in 1..MaxPages /\ more \in BOOLEAN
    /\ pending \subseteq (Orders \X {"paid", "refunded"} \X Times)
    /\ failed \in BOOLEAN
    /\ faults \in 0..MaxFaults
    /\ renewed \in [Rows -> Nat] /\ overwritten \subseteq Rows
    /\ left \in BOOLEAN /\ floor \in Int

Init ==
    /\ now = 1
    /\ kiwify = [o \in Orders |-> "none"]
    /\ createdAt = [o \in Orders |-> 0] /\ soldAt = [o \in Orders |-> 0]
    /\ updatedAt = [o \in Orders |-> 0]
    /\ sent = {}
    /\ shown = [o \in Orders |-> [state |-> "none", at |-> 0]]
    /\ status = [r \in Rows |-> "absent"]
    /\ periodStart = [r \in Rows |-> 0] /\ periodEnd = [r \in Rows |-> 0]
    /\ graceEnd = [r \in Rows |-> 0]
    /\ last = [r \in Rows |-> 0]
    /\ user = [r \in Rows |-> NoUser]
    /\ processed = {}
    /\ tx = [w \in Workers |-> Idle]
    /\ expiring = {}
    /\ run = "idle" /\ windowStart = 0 /\ windowEnd = 0
    /\ page = 1 /\ more = FALSE /\ pending = {} /\ failed = FALSE
    /\ checkpoint = 0
    /\ faults = 0
    /\ renewed = [r \in Rows |-> 0] /\ overwritten = {}
    /\ left = FALSE /\ floor = 0

(***************************************************************************)
(* Kiwify. Its sales API may show a change late, by less than Overlap.     *)
(***************************************************************************)
Sends(o, trigger, from, to) ==
    /\ Cardinality(sent) < MaxEvents
    /\ kiwify[o] \in from
    /\ kiwify' = [kiwify EXCEPT ![o] = to]
    /\ sent' = sent \cup {[via |-> "webhook", trigger |-> trigger, order |-> o, at |-> now]}
    /\ UNCHANGED <<now, shown, rows, tx, expiring, job, faults>>

\* An order is paid when it is created or later.
Sells(o) ==
    /\ Sends(o, "order_approved", {"none"}, "active")
    /\ \E t \in 1..now : t + MaxWait >= now /\ createdAt' = [createdAt EXCEPT ![o] = t]
    /\ soldAt' = [soldAt EXCEPT ![o] = now]
    /\ updatedAt' = [updatedAt EXCEPT ![o] = now]

Refunds(o) ==
    /\ Sends(o, "order_refunded", {"active", "late", "canceled"}, "refunded")
    /\ updatedAt' = [updatedAt EXCEPT ![o] = now]
    /\ UNCHANGED <<createdAt, soldAt>>

Renews(o) ==
    /\ Sends(o, "subscription_renewed", {"active", "late"}, "active")
    /\ UNCHANGED <<createdAt, soldAt, updatedAt>>
FailsCharge(o) ==
    /\ Sends(o, "subscription_late", {"active", "late"}, "late")
    /\ UNCHANGED <<createdAt, soldAt, updatedAt>>
Cancels(o) ==
    /\ Sends(o, "subscription_canceled", {"active", "late"}, "canceled")
    /\ UNCHANGED <<createdAt, soldAt, updatedAt>>

Sale(o) == [state |-> CASE kiwify[o] = "none" -> "none"
                        [] kiwify[o] = "refunded" -> "refunded"
                        [] OTHER -> "paid",
            at |-> updatedAt[o]]

\* The sales the API lists for the run's window.
Listed == {o \in Orders : shown[o].state # "none"
                          /\ windowStart <= shown[o].at /\ shown[o].at <= windowEnd}

ApiShows(o) ==
    /\ shown[o] # Sale(o)
    /\ shown' = [shown EXCEPT ![o] = Sale(o)]
    /\ left' = (left \/ (run # "idle" /\ o \in Listed /\ updatedAt[o] > windowEnd))
    /\ UNCHANGED <<now, kiwify, createdAt, soldAt, updatedAt, sent, rows, tx, expiring,
                   run, window, page, more, pending, failed, watermark, faults>>

Tick ==
    /\ now < MaxTime
    /\ \A o \in Orders : shown[o] = Sale(o) \/ now + 1 < updatedAt[o] + Overlap
    /\ now' = now + 1
    /\ UNCHANGED <<world, rows, tx, expiring, job, faults>>

(***************************************************************************)
(* billing_processed_events: the key of a sale or a refund is the sale, of *)
(* a cancellation the subscription, of a renewal or a late charge the      *)
(* subscription and the time. Every use case inserts its key first, so two *)
(* transactions of one key follow one another.                             *)
(***************************************************************************)
RowOf(e) == <<e.order, IF e.via = "api" /\ ~ReferenceIsOrderId THEN "reference" ELSE "order_id">>

SaleIdOf(e) == <<e.order, IF e.via = "api" /\ ~SaleIdIsOrderId THEN "id" ELSE "order_id">>

KeyOf(e) ==
    [trigger |-> e.trigger,
     of      |-> IF e.trigger \in Changes THEN <<e.order, "subscription">> ELSE SaleIdOf(e),
     at      |-> IF e.trigger \in {"subscription_renewed", "subscription_late"} THEN e.at ELSE 0]

AlreadyProcessed(e) == KeyOf(e) \in processed
InProgress(e) == \E w \in Workers : tx[w].state = "read" /\ KeyOf(tx[w].event) = KeyOf(e)

\* One entitled subscription per user: the partial unique index. A write it
\* refuses rolls the transaction back.
IndexWithoutPastDue(r, u, st) ==
    u # NoUser /\ st \in {"ACTIVE", "CANCELED_PENDING"} =>
        \A p \in Rows \ {r} : user[p] = u => status[p] \notin {"ACTIVE", "CANCELED_PENDING"}

IndexAllows(r, u, st) ==
    u # NoUser /\ st \in Entitled =>
        \A p \in Rows \ {r} : user[p] = u => status[p] \notin Entitled

Write(r, st, grace, at) ==
    /\ IndexAllows(r, user[r], st)
    /\ status' = [status EXCEPT ![r] = st]
    /\ graceEnd' = [graceEnd EXCEPT ![r] = grace]
    /\ last' = [last EXCEPT ![r] = at]
    /\ UNCHANGED user

(***************************************************************************)
(* Sales and refunds: what they write does not depend on what they read. A *)
(* sale upserts the row of its order; a row that was there keeps the start *)
(* of its period and its user, and loses its end.                          *)
(***************************************************************************)
SaleApproved(e) ==
    /\ ~AlreadyProcessed(e)
    /\ Write(RowOf(e), "ACTIVE", 0, e.at)
    /\ periodStart' = [periodStart EXCEPT ![RowOf(e)] =
                          IF status[RowOf(e)] = "absent" THEN e.at ELSE @]
    /\ periodEnd' = [periodEnd EXCEPT ![RowOf(e)] = e.at + Period]
    /\ overwritten' = IF status[RowOf(e)] = "absent" THEN overwritten
                      ELSE overwritten \cup {RowOf(e)}
    /\ processed' = processed \cup {KeyOf(e)}
    /\ UNCHANGED renewed

RefundOrChargeback(e) ==
    /\ ~AlreadyProcessed(e)
    /\ status[RowOf(e)] # "absent"
    /\ Write(RowOf(e), "REFUNDED", 0, e.at)
    /\ processed' = processed \cup {KeyOf(e)}
    /\ UNCHANGED <<periodStart, periodEnd, renewed, overwritten>>

Apply(e) == IF e.trigger = "order_approved" THEN SaleApproved(e) ELSE RefundOrChargeback(e)

DeliverSale(e) ==
    /\ e \in sent /\ e.trigger \in Delivered \ Changes
    /\ Apply(e)
    /\ UNCHANGED <<now, world, tx, expiring, job, faults>>

(***************************************************************************)
(* Renewals, late charges and cancellations: read the row of the           *)
(* subscription that changed last, decide whether the event is a           *)
(* regression, write.                                                      *)
(***************************************************************************)
CanTransition == [
    ACTIVE           |-> {"ACTIVE", "PAST_DUE", "CANCELED_PENDING", "REFUNDED"},
    PAST_DUE         |-> {"ACTIVE", "PAST_DUE", "CANCELED_PENDING", "EXPIRED", "REFUNDED"},
    CANCELED_PENDING |-> {"ACTIVE", "REFUNDED"},
    EXPIRED          |-> {"ACTIVE", "REFUNDED"},
    REFUNDED         |-> {}]

Target == [subscription_renewed  |-> "ACTIVE",
           subscription_late     |-> "PAST_DUE",
           subscription_canceled |-> "CANCELED_PENDING"]

\* A transition the table does not have is not a regression, and is applied.
IsRegression(r, e) ==
    /\ e.at <= last[r]
    /\ Target[e.trigger] \in CanTransition[status[r]]
    /\ Target[e.trigger] # status[r]

FindByKiwifySubID(o) ==
    {r \in Rows : /\ r[1] = o /\ status[r] # "absent"
                  /\ \A q \in Rows : q[1] = o /\ status[q] # "absent" => last[q] <= last[r]}

\* A regression is marked superseded, but the error returned with it rolls
\* the whole transaction back, the mark included.
ReadRow(w, e) ==
    /\ tx[w] = Idle
    /\ e \in sent /\ e.trigger \in Delivered \cap Changes
    /\ ~AlreadyProcessed(e) /\ ~InProgress(e)
    /\ \E r \in FindByKiwifySubID(e.order) :
        tx' = [tx EXCEPT ![w] = [state |-> IF IsRegression(r, e) THEN "superseded" ELSE "read",
                                 event |-> e, row |-> r, periodEnd |-> periodEnd[r]]]
    /\ UNCHANGED <<now, world, rows, expiring, job, faults>>

NewPeriodFromEvent(read, e) == e.at + Period

NewPeriodEnd(read, e) == read + Period

\* Another renewal has read the row and will write over this one.
ReadByAnother(w) ==
    \E v \in Workers \ {w} : /\ tx[v].state = "read" /\ tx[v].row = tx[w].row
                             /\ tx[v].event.trigger = "subscription_renewed"

ExtendPeriod(w) ==
    LET e == tx[w].event  r == tx[w].row IN
        /\ e.trigger = "subscription_renewed"
        /\ periodEnd' = [periodEnd EXCEPT ![r] = NewPeriodEnd(tx[w].periodEnd, e)]
        /\ renewed' = [renewed EXCEPT ![r] = @ + 1]
        /\ overwritten' = IF ReadByAnother(w) THEN overwritten \cup {r} ELSE overwritten

KeepPeriod(w) ==
    /\ tx[w].event.trigger # "subscription_renewed"
    /\ UNCHANGED <<periodEnd, renewed, overwritten>>

WriteRow(w) ==
    /\ tx[w].state = "read"
    /\ LET e == tx[w].event IN
        /\ Write(tx[w].row, Target[e.trigger],
                 IF e.trigger = "subscription_late" THEN e.at + Grace ELSE 0, e.at)
        /\ processed' = processed \cup {KeyOf(e)}
    /\ ExtendPeriod(w) \/ KeepPeriod(w)
    /\ tx' = [tx EXCEPT ![w] = Idle]
    /\ UNCHANGED <<now, world, periodStart, expiring, job, faults>>

\* The event was superseded, the index refuses the write, the request is
\* cancelled, or the process dies.
Rollback(w) ==
    /\ tx[w] # Idle
    /\ tx' = [tx EXCEPT ![w] = Idle]
    /\ UNCHANGED <<now, world, rows, expiring, job, faults>>

\* Onboarding's binder: whatever user was bound before is replaced.
BindUser(r, u) ==
    /\ status[r] # "absent" /\ user[r] # u
    /\ IndexAllows(r, u, status[r])
    /\ user' = [user EXCEPT ![r] = u]
    /\ UNCHANGED <<now, world, row, processed, tx, expiring, job, faults>>

(***************************************************************************)
(* The grace-expiration job: list, then expire each candidate.             *)
(***************************************************************************)
ListPastDueGraceExpired ==
    /\ expiring = {}
    /\ expiring' = {r \in Rows : status[r] = "PAST_DUE" /\ graceEnd[r] < now}
    /\ expiring' # {}
    /\ UNCHANGED <<now, world, rows, tx, job, faults>>

ExpireOne(r) ==
    /\ r \in expiring /\ expiring' = expiring \ {r}
    /\ Write(r, "EXPIRED", 0, now)
    /\ UNCHANGED <<now, world, periodStart, periodEnd, renewed, overwritten, processed,
                   tx, job, faults>>

ExpireFails(r) ==
    /\ r \in expiring /\ expiring' = expiring \ {r}
    /\ UNCHANGED <<now, world, rows, tx, job, faults>>

(***************************************************************************)
(* Reconciliation: the sales updated in [checkpoint - overlap, now], page  *)
(* by page, those of a page one by one before the next page is asked for.  *)
(* The checkpoint moves only if none failed. The API lists by position: of *)
(* a sale that leaves the window meanwhile, because it changed again, the  *)
(* later ones move up, and one of them may slip onto a page already read.  *)
(***************************************************************************)
WindowWithoutOverlap == IF checkpoint = 0 THEN now - Lookback ELSE checkpoint

WindowStart == (IF checkpoint = 0 THEN now - Lookback ELSE checkpoint) - Overlap

StartRun ==
    /\ run = "idle"
    /\ run' = "list" /\ page' = 1 /\ failed' = FALSE
    /\ windowStart' = WindowStart /\ windowEnd' = now
    /\ left' = FALSE
    /\ floor' = IF checkpoint = 0 THEN windowStart' ELSE floor
    /\ UNCHANGED <<now, world, rows, tx, expiring, more, pending, checkpoint, faults>>

Position(o) == Cardinality({p \in Listed : Place[p] < Place[o]})

Page == {o \in Listed : (page - 1) * PageSize <= Position(o) /\ Position(o) < page * PageSize}

ListPage ==
    /\ run = "list" /\ run' = "sales"
    /\ pending' = {<<o, shown[o].state, shown[o].at>> : o \in Page}
    /\ more' = (Cardinality(Listed) > page * PageSize)
    /\ UNCHANGED <<now, world, rows, tx, expiring, window, page, left, failed, watermark, faults>>

EventOfAnySaleIsPaid(s) ==
    [via |-> "api", trigger |-> "order_approved", order |-> s[1], at |-> createdAt[s[1]]]

EventOf(s) ==
    [via     |-> "api",
     trigger |-> IF s[2] = "paid" THEN "order_approved" ELSE "order_refunded",
     order   |-> s[1],
     at      |-> IF s[2] = "paid" THEN createdAt[s[1]] ELSE s[3]]

ReconcileSale(s) ==
    /\ s \in pending /\ pending' = pending \ {s}
    /\ Apply(EventOf(s))
    /\ UNCHANGED <<now, world, tx, expiring, run, window, listing, failed, watermark, faults>>

SkipSale(s) ==
    /\ s \in pending /\ pending' = pending \ {s}
    /\ AlreadyProcessed(EventOf(s))
    /\ UNCHANGED <<now, world, rows, tx, expiring, run, window, listing, failed, watermark, faults>>

Applicable(e) ==
    /\ ~AlreadyProcessed(e)
    /\ IF e.trigger = "order_approved" THEN IndexAllows(RowOf(e), user[RowOf(e)], "ACTIVE")
       ELSE status[RowOf(e)] # "absent"

\* A refund of a subscription no row of that name has, a write the index
\* refuses, or a fault.
SaleFails(s) ==
    /\ s \in pending /\ pending' = pending \ {s}
    /\ ~AlreadyProcessed(EventOf(s))
    /\ IF Applicable(EventOf(s)) THEN faults < MaxFaults /\ faults' = faults + 1
       ELSE UNCHANGED faults
    /\ failed' = TRUE
    /\ UNCHANGED <<now, world, rows, tx, expiring, run, window, listing, watermark>>

NextPage ==
    /\ run = "sales" /\ pending = {} /\ more /\ page < MaxPages
    /\ run' = "list" /\ page' = page + 1
    /\ UNCHANGED <<now, world, rows, tx, expiring, window, more, left, pending, failed, watermark, faults>>

\* The run is over, and its local variables with it.
Forget ==
    /\ run' = "idle" /\ pending' = {}
    /\ windowStart' = 0 /\ windowEnd' = 0 /\ failed' = FALSE
    /\ page' = 1 /\ more' = FALSE /\ left' = FALSE

MaxPagesReached ==
    /\ run = "sales" /\ pending = {} /\ more /\ page = MaxPages
    /\ Forget
    /\ UNCHANGED <<now, world, rows, tx, expiring, watermark, faults>>

CheckpointAnyway == windowEnd

NewCheckpoint == IF failed THEN checkpoint ELSE windowEnd

\* A run that a sale left answers for nothing before the next window.
AnswersFrom == windowEnd - Overlap + 1

EndRun ==
    /\ run = "sales" /\ pending = {} /\ ~more
    /\ checkpoint' = NewCheckpoint
    /\ floor' = IF left /\ ~failed /\ AnswersFrom > floor THEN AnswersFrom ELSE floor
    /\ Forget
    /\ UNCHANGED <<now, world, rows, tx, expiring, faults>>

\* Kiwify's API or the database fails, or the worker stops in the middle.
RunDies ==
    /\ run # "idle" /\ faults < MaxFaults
    /\ faults' = faults + 1
    /\ Forget
    /\ UNCHANGED <<now, world, rows, tx, expiring, watermark>>

Kiwify == \E o \in Orders : Sells(o) \/ Refunds(o) \/ Renews(o) \/ FailsCharge(o) \/ Cancels(o)

Webhooks ==
    \/ \E e \in sent : DeliverSale(e)
    \/ \E w \in Workers, e \in sent : ReadRow(w, e)
    \/ \E w \in Workers : WriteRow(w) \/ Rollback(w)

GraceJob == ListPastDueGraceExpired \/ \E r \in Rows : ExpireOne(r) \/ ExpireFails(r)

HandleSale(s) == ReconcileSale(s) \/ SkipSale(s) \/ SaleFails(s)

RunGoesOn == ListPage \/ (\E s \in pending : HandleSale(s)) \/ NextPage \/ MaxPagesReached \/ EndRun

Reconciliation == StartRun \/ RunGoesOn \/ RunDies

Next ==
    \/ Kiwify \/ Tick \/ \E o \in Orders : ApiShows(o)
    \/ Webhooks \/ \E r \in Rows, u \in Users : BindUser(r, u)
    \/ GraceJob \/ Reconciliation

Spec == Init /\ [][Next]_vars

\* The scheduler starts the job again and again and a run goes through its
\* sales; Kiwify's API catches up; time passes.
FairSpec ==
    /\ Spec
    /\ WF_vars(StartRun \/ RunGoesOn)
    /\ \A o \in Orders : WF_vars(ApiShows(o))
    /\ WF_vars(Tick)

(***************************************************************************)
(* Properties.                                                             *)
(***************************************************************************)

\* A user never holds two entitled subscriptions, whatever is bound, renewed
\* after expiry or charged late on either of them, and although one order
\* may have two rows.
OneEntitledPerUser ==
    \A r, p \in Rows :
        r # p /\ user[r] # NoUser /\ user[r] = user[p]
            => ~(status[r] \in Entitled /\ status[p] \in Entitled)

\* Nothing falls behind the watermark: a sale or refund that Kiwify knew
\* Overlap before the checkpoint has been processed under the name the API
\* gives it, although the API lags, runs fail, and pages are read one after
\* the other. (Sales older than the first window were never in reach, and a
\* run whose window a sale left while it was read answers for nothing.)
CheckpointCoversSales ==
    \A o \in Orders :
        /\ kiwify[o] # "none" /\ updatedAt[o] >= floor
        /\ updatedAt[o] + Overlap <= checkpoint
        => AlreadyProcessed(EventOf(<<o, Sale(o).state, updatedAt[o]>>))

\* Every renewal that was accepted has extended the paid period by one plan
\* duration, whatever else happens to the row, unless it was written over: by
\* a renewal that had read the row before it, or by the sale approved again.
RenewalsAccumulate ==
    \A r \in Rows : status[r] # "absent" /\ r \notin overwritten =>
        periodEnd[r] = periodStart[r] + Period * (1 + renewed[r])

\* Reconciliation repairs what webhooks miss: a sale whose webhook was lost
\* still gets a subscription (or is refunded before a run sees it), and a
\* refund whose webhook was lost reaches the subscription that the API's
\* reference names, unless the sale slipped between two pages.
ReconciliationRepairs == \A o \in Orders :
    LET byReference == RowOf(EventOf(<<o, "refunded", 0>>)) IN
    /\ kiwify[o] = "active"
         ~> \/ \E r \in Rows : r[1] = o /\ status[r] # "absent"
            \/ kiwify[o] = "refunded" \/ updatedAt[o] < floor
    /\ kiwify[o] = "refunded" /\ status[byReference] # "absent"
         ~> status[byReference] = "REFUNDED" \/ updatedAt[o] < floor

\* "Evento retroativo não modifica status da assinatura": an event older than
\* the last one applied leaves the status alone.
RetroactiveKeepsStatus ==
    [][\A w \in Workers : tx[w].state = "read" /\ tx'[w] = Idle /\ status' # status
        => tx[w].event.at >= last[tx[w].row]]_vars
=============================================================================
