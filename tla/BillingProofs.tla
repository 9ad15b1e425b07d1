---------------------------- MODULE BillingProofs ----------------------------
(***************************************************************************)
(* Proofs about Billing, for any orders, users, workers and time bounds,   *)
(* whichever names the API gives to an order and however it is paged.      *)
(***************************************************************************)
EXTENDS Billing, FiniteSetTheorems, TLAPS

USE DEF NoUser

(***************************************************************************)
(* Times. What Kiwify sold has a time, and so has what its API shows and a *)
(* run has listed. The API lags behind by less than Overlap.               *)
(***************************************************************************)
Known(o) ==
    /\ kiwify[o] # "none" =>
          /\ createdAt[o] \in 1..now /\ soldAt[o] \in 1..now /\ updatedAt[o] \in 1..now
          /\ createdAt[o] <= soldAt[o]
    /\ shown[o].state # "none" =>
          kiwify[o] # "none" /\ shown[o].at \in 1..now /\ shown[o].at <= updatedAt[o]

KnownSales ==
    /\ \A o \in Orders : Known(o)
    /\ \A s \in pending : kiwify[s[1]] # "none" /\ s[3] \in 1..now
    /\ checkpoint <= now /\ windowEnd <= now

\* Kiwify's API has caught up on what happened Overlap ago.
Lag == \A o \in Orders : shown[o] = Sale(o) \/ now < updatedAt[o] + Overlap

SaleOf(o) == <<o, Sale(o).state, updatedAt[o]>>

Before(o, t) ==
    kiwify[o] # "none" /\ updatedAt[o] >= floor /\ updatedAt[o] + Overlap <= t

\* The API will list the order on a page the run has not read yet.
PagesRead == IF run = "list" THEN page - 1 ELSE page
ToCome(o) == (run = "list" \/ more) /\ PagesRead * PageSize <= Position(o)

\* What a run is to deal with is processed, in its list, on a page to come, or
\* has failed, unless a sale left the window.
RunCovers ==
    /\ run # "sales" => pending = {}
    /\ run # "idle" /\ ~left =>
         \A o \in Orders :
            Before(o, windowEnd) /\ windowStart <= updatedAt[o]
                => \/ AlreadyProcessed(EventOf(SaleOf(o)))
                   \/ SaleOf(o) \in pending
                   \/ failed
                   \/ ToCome(o)

\* A window begins where the last one answered for.
WindowFollows ==
    run # "idle" => windowStart = IF checkpoint = 0 THEN floor ELSE checkpoint - Overlap

TimeInv == TypeOK /\ KnownSales

CheckpointInv == TimeInv /\ Lag /\ RunCovers /\ WindowFollows /\ CheckpointCoversSales

(***************************************************************************)
(* Type correctness.                                                       *)
(***************************************************************************)
StatusType ==
    /\ status \in [Rows -> Statuses \cup {"absent"}]
    /\ graceEnd \in [Rows -> Nat]
    /\ \A r \in Rows : (graceEnd[r] # 0) <=> (status[r] = "PAST_DUE")
    /\ last \in [Rows -> Times]
    /\ user \in [Rows -> Users \cup {NoUser}]

RowsType ==
    /\ StatusType
    /\ periodStart \in [Rows -> Times] /\ periodEnd \in [Rows -> Nat]
    /\ processed \subseteq Keys
    /\ renewed \in [Rows -> Nat] /\ overwritten \subseteq Rows

JobType ==
    /\ run \in {"idle", "list", "sales"}
    /\ windowStart \in Int /\ windowEnd \in Times /\ checkpoint \in Times
    /\ page \in 1..MaxPages /\ more \in BOOLEAN
    /\ pending \subseteq (Orders \X {"paid", "refunded"} \X Times)
    /\ failed \in BOOLEAN /\ faults \in 0..MaxFaults
    /\ left \in BOOLEAN /\ floor \in Int

WorldType ==
    /\ now \in 1..MaxTime
    /\ kiwify \in [Orders -> {"none", "active", "late", "canceled", "refunded"}]
    /\ createdAt \in [Orders -> Times] /\ soldAt \in [Orders -> Times]
    /\ updatedAt \in [Orders -> Times]
    /\ sent \subseteq Event
    /\ shown \in [Orders -> Shown]

WorkType == tx \in [Workers -> Snapshot \cup {Idle}] /\ expiring \subseteq Rows

LEMMA TypeParts == TypeOK <=> WorldType /\ RowsType /\ WorkType /\ JobType
  BY DEF TypeOK, WorldType, RowsType, StatusType, WorkType, JobType

LEMMA TypePartsNext == TypeOK' <=> WorldType' /\ RowsType' /\ WorkType' /\ JobType'
  BY DEF TypeOK, WorldType, RowsType, StatusType, WorkType, JobType

LEMMA Parameters ==
    /\ Period \in Nat \ {0} /\ Grace \in Nat \ {0} /\ Overlap \in Nat \ {0} /\ Lookback \in Nat
    /\ MaxTime \in Nat \ {0} /\ MaxFaults \in Nat /\ MaxPages \in Nat \ {0} /\ PageSize \in Nat \ {0}
  BY ParametersAssumption, ApiAssumption

LEMMA WriteType ==
    ASSUME StatusType, NEW r \in Rows, NEW st \in Statuses, NEW grace \in Nat, NEW at \in Times,
           (grace # 0) <=> (st = "PAST_DUE"), Write(r, st, grace, at)
    PROVE  StatusType'
  <1>1. /\ status' = [status EXCEPT ![r] = st] /\ graceEnd' = [graceEnd EXCEPT ![r] = grace]
        /\ last' = [last EXCEPT ![r] = at] /\ user' = user
    BY DEF Write
  <1>2. \A p \in Rows : (graceEnd'[p] # 0) <=> (status'[p] = "PAST_DUE")
    <2> TAKE p \in Rows
    <2>1. CASE p = r
      BY <1>1, <2>1 DEF StatusType
    <2>2. CASE p # r
      BY <1>1, <2>2 DEF StatusType
    <2>3. QED
      BY <2>1, <2>2
  <1>3. QED
    BY <1>1, <1>2 DEF StatusType

LEMMA EventFields ==
    ASSUME NEW e \in Event
    PROVE  /\ e.order \in Orders /\ e.trigger \in Triggers
           /\ e.at \in Times /\ e.at \in Nat \ {0}
           /\ RowOf(e) \in Rows /\ RowOf(e)[1] = e.order /\ KeyOf(e) \in Keys
  <1>1. e.order \in Orders /\ e.trigger \in Triggers /\ e.at \in 1..MaxTime
    BY DEF Event
  <1>2. e.at \in Times /\ e.at \in Nat \ {0} /\ 0 \in Times
    BY <1>1, Parameters DEF Times
  <1>3. RowOf(e) \in Rows /\ RowOf(e)[1] = e.order
    BY <1>1 DEF RowOf, Rows
  <1>4. KeyOf(e) \in Keys
    <2>1. SaleIdOf(e) \in Orders \X {"order_id", "id", "subscription"}
      BY <1>1 DEF SaleIdOf
    <2>2. <<e.order, "subscription">> \in Orders \X {"order_id", "id", "subscription"}
      BY <1>1
    <2>3. QED
      BY <1>1, <1>2, <2>1, <2>2 DEF KeyOf, Keys, Times
  <1>5. QED
    BY <1>1, <1>2, <1>3, <1>4

LEMMA ApplyType ==
    ASSUME RowsType, NEW e \in Event, Apply(e)
    PROVE  RowsType'
  <1>0. PICK r \in Rows : r = RowOf(e)
    BY EventFields
  <1>1. e.at \in Times /\ e.at \in Nat /\ Period \in Nat /\ KeyOf(e) \in Keys
    BY EventFields, Parameters
  <1>2. CASE e.trigger = "order_approved"
    <2>1. /\ Write(r, "ACTIVE", 0, e.at)
          /\ periodStart' = [periodStart EXCEPT ![r] = IF status[r] = "absent" THEN e.at ELSE @]
          /\ periodEnd' = [periodEnd EXCEPT ![r] = e.at + Period]
          /\ overwritten' = IF status[r] = "absent" THEN overwritten ELSE overwritten \cup {r}
          /\ processed' = processed \cup {KeyOf(e)} /\ renewed' = renewed
      BY <1>0, <1>2 DEF Apply, SaleApproved
    <2>2. StatusType'
      BY <1>1, <2>1, WriteType DEF Statuses, RowsType
    <2>3. periodStart' \in [Rows -> Times] /\ periodEnd' \in [Rows -> Nat]
      <3>1. e.at + Period \in Nat
        BY <1>1
      <3>2. QED
        BY <1>1, <2>1, <3>1 DEF RowsType
    <2>4. QED
      BY <1>1, <2>1, <2>2, <2>3 DEF RowsType
  <1>3. CASE e.trigger # "order_approved"
    <2>1. /\ Write(r, "REFUNDED", 0, e.at)
          /\ UNCHANGED <<periodStart, periodEnd, renewed, overwritten>>
          /\ processed' = processed \cup {KeyOf(e)}
      BY <1>0, <1>3 DEF Apply, RefundOrChargeback
    <2>2. StatusType'
      BY <1>1, <2>1, WriteType DEF Statuses, RowsType
    <2>3. QED
      BY <1>1, <2>1, <2>2 DEF RowsType
  <1>4. QED
    BY <1>2, <1>3

\* What a worker that has read a row knows.
Reads(w) == tx[w].state = "read"

LEMMA ReaderFacts ==
    ASSUME TypeOK, NEW w \in Workers, Reads(w)
    PROVE  /\ tx[w].event \in Event /\ tx[w].event.trigger \in Changes /\ tx[w].event.order \in Orders
           /\ tx[w].row \in Rows /\ tx[w].periodEnd \in Nat
  <1>1. tx[w] \in Snapshot
    <2>1. tx[w] \in Snapshot \cup {Idle} /\ tx[w].state = "read"
      BY DEF TypeOK, Reads
    <2>2. Idle.state = "idle"
      BY DEF Idle
    <2> QED
      BY <2>1, <2>2
  <1>2. /\ tx[w].event \in Event /\ tx[w].event.trigger \in Changes
        /\ tx[w].row \in Rows /\ tx[w].periodEnd \in Nat
    BY <1>1 DEF Snapshot
  <1> QED
    BY <1>2, EventFields

\* What it writes of the period.
LEMMA WritesPeriod ==
    ASSUME TypeOK, NEW w \in Workers, WriteRow(w), NEW r, r = tx[w].row
    PROVE  /\ periodStart' = periodStart
           /\ \/ /\ tx[w].event.trigger = "subscription_renewed"
                 /\ periodEnd' = [periodEnd EXCEPT ![r] = tx[w].periodEnd + Period]
                 /\ renewed' = [renewed EXCEPT ![r] = @ + 1]
                 /\ overwritten' = IF ReadByAnother(w) THEN overwritten \cup {r} ELSE overwritten
              \/ /\ tx[w].event.trigger # "subscription_renewed"
                 /\ UNCHANGED <<periodEnd, renewed, overwritten>>
  <1>1. (ExtendPeriod(w) \/ KeepPeriod(w)) /\ periodStart' = periodStart
    BY DEF WriteRow
  <1>2. CASE ExtendPeriod(w)
    BY <1>1, <1>2 DEF ExtendPeriod, NewPeriodEnd
  <1>3. CASE KeepPeriod(w)
    BY <1>1, <1>3 DEF KeepPeriod
  <1> QED
    BY <1>1, <1>2, <1>3

LEMMA WriteRowType ==
    ASSUME TypeOK, NEW w \in Workers, WriteRow(w)
    PROVE  RowsType' /\ WorkType'
  <1>0. PICK e, r : e = tx[w].event /\ r = tx[w].row
    OBVIOUS
  <1>1. e \in Event /\ e.trigger \in Changes /\ r \in Rows /\ tx[w].periodEnd \in Nat
    BY <1>0, ReaderFacts DEF WriteRow, Reads
  <1>2. e.at \in Times /\ e.at \in Nat \ {0} /\ KeyOf(e) \in Keys
    BY <1>1, EventFields
  <1>3. RowsType /\ WorkType
    BY TypeParts
  <1> DEFINE grace == IF e.trigger = "subscription_late" THEN e.at + Grace ELSE 0
  <1>4. /\ Write(r, Target[e.trigger], grace, e.at)
        /\ processed' = processed \cup {KeyOf(e)}
        /\ tx' = [tx EXCEPT ![w] = Idle] /\ expiring' = expiring
    BY <1>0 DEF WriteRow
  <1>5. Target[e.trigger] \in Statuses /\ (Target[e.trigger] = "PAST_DUE" <=> e.trigger = "subscription_late")
    BY <1>1 DEF Target, Changes, Statuses
  <1>6. grace \in Nat /\ (grace # 0 <=> e.trigger = "subscription_late")
    BY <1>2, Parameters
  <1>7. StatusType'
    <2> HIDE DEF grace
    <2> QED
      BY <1>1, <1>2, <1>3, <1>4, <1>5, <1>6, WriteType DEF RowsType
  <1>8. /\ periodStart' \in [Rows -> Times] /\ periodEnd' \in [Rows -> Nat]
        /\ renewed' \in [Rows -> Nat] /\ overwritten' \subseteq Rows
    <2>1. tx[w].periodEnd + Period \in Nat /\ renewed[r] + 1 \in Nat
      BY <1>1, <1>3, Parameters DEF RowsType
    <2>2. QED
      BY <1>0, <1>1, <1>3, <2>1, WritesPeriod DEF RowsType
  <1>9. WorkType'
    BY <1>3, <1>4 DEF WorkType
  <1>10. QED
    BY <1>2, <1>3, <1>4, <1>7, <1>8, <1>9 DEF RowsType

\* An order that Kiwify's API shows, or a run has listed, gives a proper event.
LEMMA EventOfType ==
    ASSUME TimeInv, NEW s \in pending
    PROVE  EventOf(s) \in Event
  <1>1. s \in Orders \X {"paid", "refunded"} \X Times /\ kiwify[s[1]] # "none" /\ s[3] \in 1..now
    BY DEF TimeInv, TypeOK, KnownSales
  <1>2. s[1] \in Orders /\ createdAt[s[1]] \in 1..now /\ now \in 1..MaxTime
    BY <1>1 DEF TimeInv, TypeOK, KnownSales, Known
  <1>3. createdAt[s[1]] \in 1..MaxTime /\ s[3] \in 1..MaxTime
    BY <1>1, <1>2, Parameters
  <1>4. QED
    BY <1>2, <1>3 DEF EventOf, Event, Triggers

LEMMA NowType == TypeOK => now \in 1..MaxTime /\ now \in Times /\ now \in Nat
  <1>1. TypeOK => now \in 1..MaxTime
    BY DEF TypeOK
  <1>2. now \in 1..MaxTime => now \in Times /\ now \in Nat
    BY Parameters DEF Times
  <1>3. QED
    BY <1>1, <1>2

LEMMA FaultsType ==
    ASSUME TypeOK, faults < MaxFaults, faults' = faults + 1
    PROVE  faults' \in 0..MaxFaults
  <1>1. faults \in 0..MaxFaults /\ MaxFaults \in Nat
    BY Parameters DEF TypeOK
  <1> QED
    BY <1>1

LEMMA ForgetType ==
    ASSUME JobType, Forget, checkpoint' \in Times, floor' \in Int, faults' \in 0..MaxFaults
    PROVE  JobType'
  <1>1. 0 \in Times /\ 1 \in 1..MaxPages /\ 0 \in Int
    BY Parameters DEF Times
  <1>2. /\ run' \in {"idle", "list", "sales"} /\ windowStart' \in Int /\ windowEnd' \in Times
        /\ page' \in 1..MaxPages
    BY <1>1 DEF Forget
  <1>3. /\ more' \in BOOLEAN /\ failed' \in BOOLEAN /\ left' \in BOOLEAN
        /\ pending' \subseteq (Orders \X {"paid", "refunded"} \X Times)
    BY DEF Forget
  <1> QED
    BY <1>2, <1>3 DEF JobType

LEMMA StartRunType ==
    ASSUME TypeOK, StartRun
    PROVE  JobType'
  <1>1. WindowStart \in Int
    <2>1. checkpoint \in 0..MaxTime /\ now \in 1..MaxTime
      BY DEF TypeOK, Times
    <2>2. QED
      BY <2>1, Parameters DEF WindowStart
  <1>2. now \in Times /\ 1 \in 1..MaxPages
    BY NowType, Parameters
  <1> QED
    BY <1>1, <1>2 DEF StartRun, TypeOK, JobType

LEMMA ListPageType ==
    ASSUME TypeOK, ListPage
    PROVE  JobType'
  <1>1. \A o \in Orders : shown[o].state # "none" =>
            <<o, shown[o].state, shown[o].at>> \in Orders \X {"paid", "refunded"} \X Times
    BY DEF TypeOK, Shown
  <1>2. \A o \in Page : o \in Orders /\ shown[o].state # "none"
    BY DEF Page, Listed
  <1>3. pending' \subseteq (Orders \X {"paid", "refunded"} \X Times)
    BY <1>1, <1>2 DEF ListPage
  <1>4. run' = "sales" /\ more' \in BOOLEAN
    BY DEF ListPage
  <1>5. UNCHANGED <<windowStart, windowEnd, page, left, failed, checkpoint, floor, faults>>
    BY DEF ListPage, window, watermark
  <1> QED
    BY <1>3, <1>4, <1>5, TypeParts DEF JobType

LEMMA JobStepType ==
    ASSUME TimeInv, Reconciliation
    PROVE  RowsType' /\ JobType'
  <1>0. TypeOK /\ RowsType /\ JobType
    BY TypeParts DEF TimeInv
  <1>1. CASE StartRun
    BY <1>0, <1>1, StartRunType DEF StartRun, rows, row, RowsType, StatusType
  <1>2. CASE ListPage
    BY <1>0, <1>2, ListPageType DEF ListPage, rows, row, RowsType, StatusType
  <1>3. ASSUME NEW s \in pending, ReconcileSale(s)  PROVE RowsType' /\ JobType'
    <2>1. RowsType'
      BY <1>0, <1>3, EventOfType, ApplyType DEF ReconcileSale
    <2>2. QED
      BY <1>0, <1>3, <2>1 DEF ReconcileSale, JobType, window, listing, watermark
  <1>4. ASSUME NEW s \in pending, SkipSale(s)  PROVE RowsType' /\ JobType'
    BY <1>0, <1>4 DEF SkipSale, JobType, rows, row, RowsType, StatusType, window, listing, watermark
  <1>5. ASSUME NEW s \in pending, SaleFails(s)  PROVE RowsType' /\ JobType'
    <2>1. faults' \in 0..MaxFaults
      BY <1>0, <1>5, FaultsType DEF SaleFails, JobType
    <2>2. QED
      BY <1>0, <1>5, <2>1 DEF SaleFails, JobType, rows, row, RowsType, StatusType, window, listing, watermark
  <1>6. CASE NextPage
    <2>1. page + 1 \in 1..MaxPages
      BY <1>0, <1>6, Parameters DEF NextPage, JobType
    <2>2. QED
      BY <1>0, <1>6, <2>1 DEF NextPage, JobType, rows, row, RowsType, StatusType, window, watermark
  <1>7. CASE MaxPagesReached
    BY <1>0, <1>7, ForgetType DEF MaxPagesReached, JobType, rows, row, RowsType, StatusType, watermark
  <1>8. CASE EndRun
    <2>1. checkpoint' \in Times
      BY <1>0, <1>8 DEF EndRun, NewCheckpoint, JobType
    <2>2. floor' \in Int
      <3>1. AnswersFrom \in Int
        BY <1>0, Parameters DEF AnswersFrom, JobType, Times
      <3>2. QED
        BY <1>0, <1>8, <3>1 DEF EndRun, JobType
    <2>3. QED
      BY <1>0, <1>8, <2>1, <2>2, ForgetType DEF EndRun, JobType, rows, row, RowsType, StatusType
  <1>9. CASE RunDies
    <2>1. faults' \in 0..MaxFaults
      BY <1>0, <1>9, FaultsType DEF RunDies
    <2>2. QED
      BY <1>0, <1>9, <2>1, ForgetType DEF RunDies, JobType, rows, row, RowsType, StatusType, watermark
  <1>10. QED
    BY <1>1, <1>2, <1>3, <1>4, <1>5, <1>6, <1>7, <1>8, <1>9 DEF Reconciliation, RunGoesOn, HandleSale

LEMMA SendsType ==
    ASSUME TypeOK, NEW o \in Orders, NEW t \in Triggers, NEW from,
           NEW to \in {"active", "late", "canceled", "refunded"}, Sends(o, t, from, to)
    PROVE  /\ kiwify' \in [Orders -> {"none", "active", "late", "canceled", "refunded"}]
           /\ sent' \subseteq Event
           /\ UNCHANGED <<now, shown, rows, tx, expiring, job, faults>>
  <1>1. [via |-> "webhook", trigger |-> t, order |-> o, at |-> now] \in Event
    BY NowType DEF Event
  <1>2. sent' \subseteq Event
    BY <1>1 DEF Sends, TypeOK
  <1>3. kiwify' = [kiwify EXCEPT ![o] = to]
    BY DEF Sends
  <1>4. kiwify' \in [Orders -> {"none", "active", "late", "canceled", "refunded"}]
    BY <1>3 DEF TypeOK
  <1>5. QED
    BY <1>2, <1>4 DEF Sends

\* What Kiwify does to the times of a sale.
LEMMA KiwifyTimes ==
    ASSUME Kiwify
    PROVE  \E o \in Orders :
              /\ Sells(o) \/ Refunds(o) \/ Renews(o) \/ FailsCharge(o) \/ Cancels(o)
              /\ \/ createdAt' = createdAt
                 \/ \E t \in 1..now : createdAt' = [createdAt EXCEPT ![o] = t]
              /\ soldAt' = soldAt \/ soldAt' = [soldAt EXCEPT ![o] = now]
              /\ updatedAt' = updatedAt \/ updatedAt' = [updatedAt EXCEPT ![o] = now]
  <1>1. PICK o \in Orders : Sells(o) \/ Refunds(o) \/ Renews(o) \/ FailsCharge(o) \/ Cancels(o)
    BY DEF Kiwify
  <1>2. \/ createdAt' = createdAt
        \/ \E t \in 1..now : createdAt' = [createdAt EXCEPT ![o] = t]
    <2>1. CASE Sells(o)
      BY <2>1 DEF Sells
    <2>2. CASE ~Sells(o)
      BY <1>1, <2>2 DEF Refunds, Renews, FailsCharge, Cancels
    <2> QED
      BY <2>1, <2>2
  <1>3. soldAt' = soldAt \/ soldAt' = [soldAt EXCEPT ![o] = now]
    BY <1>1, Zenon DEF Sells, Refunds, Renews, FailsCharge, Cancels
  <1>4. updatedAt' = updatedAt \/ updatedAt' = [updatedAt EXCEPT ![o] = now]
    BY <1>1, Zenon DEF Sells, Refunds, Renews, FailsCharge, Cancels
  <1> QED
    BY <1>1, <1>2, <1>3, <1>4

LEMMA KiwifyRest ==
    ASSUME Kiwify
    PROVE  UNCHANGED <<now, shown, rows, tx, expiring, job, faults>>
  BY DEF Kiwify, Sells, Refunds, Renews, FailsCharge, Cancels, Sends

LEMMA SaleType ==
    ASSUME TypeOK, NEW o \in Orders
    PROVE  Sale(o) \in Shown
  <1>1. CASE kiwify[o] = "none"
    BY <1>1 DEF Sale, Shown, TypeOK
  <1>2. CASE kiwify[o] # "none"
    BY <1>2 DEF Sale, Shown, TypeOK
  <1> QED
    BY <1>1, <1>2

LEMMA TypeStep ==
    ASSUME TimeInv, [Next]_vars
    PROVE  TypeOK'
  <1>0. TypeOK /\ WorldType /\ RowsType /\ WorkType /\ JobType
    BY TypeParts DEF TimeInv
  <1>a. UNCHANGED <<rows>> => RowsType'
    BY <1>0 DEF rows, row, RowsType, StatusType
  <1>b. UNCHANGED <<now, world>> => WorldType'
    BY <1>0 DEF world, WorldType
  <1>c. UNCHANGED <<job, faults>> => JobType'
    BY <1>0 DEF job, window, listing, watermark, JobType
  <1>d. UNCHANGED <<tx, expiring>> => WorkType'
    BY <1>0 DEF WorkType
  <1>1. CASE Kiwify
    <2>1. UNCHANGED <<now, shown, rows, tx, expiring, job, faults>>
      BY <1>1, KiwifyRest
    <2>2. /\ kiwify' \in [Orders -> {"none", "active", "late", "canceled", "refunded"}]
          /\ sent' \subseteq Event
      BY <1>0, <1>1, SendsType DEF Kiwify, Sells, Refunds, Renews, FailsCharge, Cancels, Triggers, Changes
    <2>3. /\ createdAt' \in [Orders -> Times] /\ soldAt' \in [Orders -> Times]
          /\ updatedAt' \in [Orders -> Times]
      <3>1. PICK o \in Orders :
              /\ \/ createdAt' = createdAt
                 \/ \E t \in 1..now : createdAt' = [createdAt EXCEPT ![o] = t]
              /\ soldAt' = soldAt \/ soldAt' = [soldAt EXCEPT ![o] = now]
              /\ updatedAt' = updatedAt \/ updatedAt' = [updatedAt EXCEPT ![o] = now]
        BY <1>1, KiwifyTimes
      <3>2. /\ now \in Times /\ soldAt \in [Orders -> Times] /\ updatedAt \in [Orders -> Times]
            /\ createdAt \in [Orders -> Times]
        BY <1>0, NowType DEF TypeOK
      <3>3. \A t \in 1..now : t \in Times
        BY <1>0, NowType, Parameters DEF Times
      <3>4. createdAt' \in [Orders -> Times]
        BY <3>1, <3>2, <3>3
      <3>5. soldAt' \in [Orders -> Times] /\ updatedAt' \in [Orders -> Times]
        BY <3>1, <3>2
      <3> QED
        BY <3>4, <3>5
    <2>4. WorldType'
      BY <1>0, <2>1, <2>2, <2>3 DEF WorldType
    <2> QED
      BY <1>a, <1>c, <1>d, <2>1, <2>4, TypePartsNext
  <1>2. CASE Tick
    <2>1. now' \in 1..MaxTime
      <3>1. now \in 1..MaxTime /\ now < MaxTime /\ now' = now + 1
        BY <1>0, <1>2 DEF Tick, TypeOK
      <3>2. QED
        BY <3>1, Parameters
    <2>2. UNCHANGED <<world, rows, tx, expiring, job, faults>>
      BY <1>2 DEF Tick
    <2>3. WorldType'
      BY <1>0, <2>1, <2>2 DEF WorldType, world
    <2>4. QED
      BY <1>a, <1>c, <1>d, <2>2, <2>3, TypePartsNext
  <1>3. ASSUME NEW o \in Orders, ApiShows(o)  PROVE TypeOK'
    <2>1. /\ UNCHANGED <<now, kiwify, createdAt, soldAt, updatedAt, sent, rows, tx, expiring>>
          /\ shown' = [shown EXCEPT ![o] = Sale(o)] /\ left' \in BOOLEAN
          /\ UNCHANGED <<run, window, page, more, pending, failed, watermark, faults>>
      BY <1>0, <1>3 DEF ApiShows, JobType
    <2>2. WorldType'
      BY <1>0, <2>1, SaleType DEF WorldType
    <2>3. JobType'
      BY <1>0, <2>1 DEF JobType, window, watermark
    <2>4. QED
      BY <1>a, <1>d, <2>1, <2>2, <2>3, TypePartsNext
  <1>4. ASSUME NEW e \in sent, DeliverSale(e)  PROVE TypeOK'
    <2>1. e \in Event
      BY <1>0 DEF TypeOK
    <2>2. RowsType'
      BY <1>0, <1>4, <2>1, ApplyType DEF DeliverSale
    <2>3. QED
      BY <1>b, <1>c, <1>d, <1>4, <2>2, TypePartsNext DEF DeliverSale
  <1>5. ASSUME NEW w \in Workers, NEW e \in sent, ReadRow(w, e)  PROVE TypeOK'
    <2>1. e \in Event /\ e.trigger \in Changes
      BY <1>0, <1>5 DEF TypeOK, ReadRow
    <2>2. PICK r \in FindByKiwifySubID(e.order) :
            tx' = [tx EXCEPT ![w] = [state |-> IF IsRegression(r, e) THEN "superseded" ELSE "read",
                                     event |-> e, row |-> r, periodEnd |-> periodEnd[r]]]
      BY <1>5 DEF ReadRow
    <2>3. r \in Rows /\ periodEnd[r] \in Nat
      BY <1>0, <2>2 DEF FindByKiwifySubID, TypeOK
    <2>4. [state |-> IF IsRegression(r, e) THEN "superseded" ELSE "read",
           event |-> e, row |-> r, periodEnd |-> periodEnd[r]] \in Snapshot
      BY <2>1, <2>3 DEF Snapshot
    <2>5. WorkType'
      BY <1>0, <1>5, <2>2, <2>4 DEF ReadRow, WorkType
    <2>6. QED
      BY <1>a, <1>b, <1>c, <1>5, <2>5, TypePartsNext DEF ReadRow
  <1>6. ASSUME NEW w \in Workers, WriteRow(w)  PROVE TypeOK'
    <2>1. RowsType' /\ WorkType'
      BY <1>0, <1>6, WriteRowType
    <2>2. QED
      BY <1>b, <1>c, <1>6, <2>1, TypePartsNext DEF WriteRow
  <1>7. ASSUME NEW w \in Workers, Rollback(w)  PROVE TypeOK'
    <2>1. WorkType'
      BY <1>0, <1>7 DEF Rollback, WorkType
    <2>2. QED
      BY <1>a, <1>b, <1>c, <1>7, <2>1, TypePartsNext DEF Rollback
  <1>8. ASSUME NEW r \in Rows, NEW u \in Users, BindUser(r, u)  PROVE TypeOK'
    <2>1. RowsType'
      BY <1>0, <1>8 DEF BindUser, RowsType, StatusType, row
    <2>2. QED
      BY <1>b, <1>c, <1>d, <1>8, <2>1, TypePartsNext DEF BindUser
  <1>9. CASE ListPastDueGraceExpired
    <2>1. WorkType'
      BY <1>0, <1>9 DEF ListPastDueGraceExpired, WorkType
    <2>2. QED
      BY <1>a, <1>b, <1>c, <1>9, <2>1, TypePartsNext DEF ListPastDueGraceExpired
  <1>10. ASSUME NEW r \in Rows, ExpireOne(r)  PROVE TypeOK'
    <2>1. Write(r, "EXPIRED", 0, now) /\ now \in Times /\ StatusType
      BY <1>0, <1>10, NowType DEF ExpireOne, RowsType
    <2>2. StatusType'
      BY <2>1, WriteType DEF Statuses
    <2>3. RowsType' /\ WorkType'
      BY <1>0, <1>10, <2>2 DEF ExpireOne, RowsType, WorkType
    <2>4. QED
      BY <1>b, <1>c, <1>10, <2>3, TypePartsNext DEF ExpireOne
  <1>11. ASSUME NEW r \in Rows, ExpireFails(r)  PROVE TypeOK'
    <2>1. WorkType'
      BY <1>0, <1>11 DEF ExpireFails, WorkType
    <2>2. QED
      BY <1>a, <1>b, <1>c, <1>11, <2>1, TypePartsNext DEF ExpireFails
  <1>12. CASE Reconciliation
    <2>1. UNCHANGED <<now, world, tx, expiring>>
      BY <1>12 DEF Reconciliation, RunGoesOn, HandleSale, StartRun, ListPage, ReconcileSale, SkipSale,
                   SaleFails, NextPage, MaxPagesReached, EndRun, RunDies
    <2>2. QED
      BY <1>b, <1>d, <1>12, <2>1, JobStepType, TypePartsNext
  <1>13. CASE UNCHANGED vars
    BY <1>a, <1>b, <1>c, <1>d, <1>13, TypePartsNext DEF vars
  <1>14. QED
    BY <1>1, <1>2, <1>3, <1>4, <1>5, <1>6, <1>7, <1>8, <1>9, <1>10, <1>11, <1>12, <1>13
       DEF Next, Webhooks, GraceJob

(***************************************************************************)
(* Times and the lag of the API.                                           *)
(***************************************************************************)

\* Kiwify either makes a sale or a refund now, or changes what no sale shows.
LEMMA KiwifyFrame ==
    ASSUME TimeInv, Kiwify, NEW o \in Orders
    PROVE  \/ /\ kiwify'[o] # "none" /\ updatedAt'[o] = now
              /\ createdAt'[o] \in 1..now /\ soldAt'[o] \in 1..now /\ createdAt'[o] <= soldAt'[o]
           \/ /\ kiwify'[o] # "none" <=> kiwify[o] # "none"
              /\ updatedAt'[o] = updatedAt[o]
              /\ createdAt'[o] = createdAt[o] /\ soldAt'[o] = soldAt[o]
              /\ Sale(o)' = Sale(o)
  <1>0. TypeOK /\ now \in Nat /\ now \in 1..now
    <2>1. TypeOK /\ now \in 1..MaxTime
      BY DEF TimeInv, TypeOK
    <2>2. QED
      BY <2>1, Parameters
  <1>1. PICK p \in Orders :
          /\ Sells(p) \/ Refunds(p) \/ Renews(p) \/ FailsCharge(p) \/ Cancels(p)
          /\ \/ createdAt' = createdAt
             \/ \E t \in 1..now : createdAt' = [createdAt EXCEPT ![p] = t]
          /\ soldAt' = soldAt \/ soldAt' = [soldAt EXCEPT ![p] = now]
          /\ updatedAt' = updatedAt \/ updatedAt' = [updatedAt EXCEPT ![p] = now]
    BY KiwifyTimes
  <1>2. CASE o # p
    <2>1. kiwify'[o] = kiwify[o]
      BY <1>0, <1>1, <1>2 DEF Sells, Refunds, Renews, FailsCharge, Cancels, Sends, TypeOK
    <2>2. createdAt'[o] = createdAt[o] /\ updatedAt'[o] = updatedAt[o] /\ soldAt'[o] = soldAt[o]
      BY <1>0, <1>1, <1>2 DEF TypeOK
    <2>3. QED
      BY <2>1, <2>2 DEF Sale
  <1>3. CASE o = p /\ Sells(p)
    <2>1. /\ kiwify' = [kiwify EXCEPT ![o] = "active"]
          /\ \E t \in 1..now : createdAt' = [createdAt EXCEPT ![o] = t]
          /\ soldAt' = [soldAt EXCEPT ![o] = now] /\ updatedAt' = [updatedAt EXCEPT ![o] = now]
      BY <1>3 DEF Sells, Sends
    <2>2. PICK t \in 1..now : createdAt' = [createdAt EXCEPT ![o] = t]
      BY <2>1
    <2>3. /\ kiwify'[o] # "none" /\ updatedAt'[o] = now /\ soldAt'[o] = now /\ createdAt'[o] = t
      BY <1>0, <2>1, <2>2 DEF TypeOK
    <2>4. QED
      BY <1>0, <2>3
  <1>4. CASE o = p /\ Refunds(p)
    <2>1. /\ kiwify[o] # "none" /\ kiwify'[o] = "refunded" /\ updatedAt'[o] = now
          /\ soldAt' = soldAt /\ createdAt' = createdAt
      BY <1>0, <1>4 DEF Refunds, Sends, TypeOK
    <2>2. createdAt[o] \in 1..now /\ soldAt[o] \in 1..now /\ createdAt[o] <= soldAt[o]
      BY <2>1 DEF TimeInv, KnownSales, Known
    <2>3. QED
      BY <2>1, <2>2
  <1>5. CASE o = p /\ (Renews(p) \/ FailsCharge(p) \/ Cancels(p))
    <2>1. /\ kiwify[o] \in {"active", "late"} /\ kiwify'[o] \in {"active", "late", "canceled"}
          /\ updatedAt' = updatedAt /\ soldAt' = soldAt /\ createdAt' = createdAt
      BY <1>0, <1>5 DEF Renews, FailsCharge, Cancels, Sends, TypeOK
    <2>2. Sale(o)' = Sale(o)
      BY <2>1 DEF Sale
    <2>3. QED
      BY <2>1, <2>2
  <1>6. QED
    BY <1>1, <1>2, <1>3, <1>4, <1>5

\* Every other step but Tick and ApiShows leaves Kiwify and the clock alone.
LEMMA OthersRest ==
    ASSUME [Next]_vars, ~Kiwify, ~Tick, ~ \E o \in Orders : ApiShows(o), ~Reconciliation
    PROVE  UNCHANGED <<now, world, job>> /\ processed \subseteq processed'
  BY DEF Next, Webhooks, GraceJob, DeliverSale, Apply, SaleApproved, RefundOrChargeback, ReadRow, WriteRow,
         Rollback, BindUser, ListPastDueGraceExpired, ExpireOne, ExpireFails, vars, rows

LEMMA ReconciliationRest ==
    ASSUME TypeOK, Reconciliation
    PROVE  /\ UNCHANGED <<now, world>> /\ processed \subseteq processed'
           /\ ListPage \/ pending' \subseteq pending
           /\ windowEnd' \in {windowEnd, 0, now} /\ checkpoint' \in {checkpoint, windowEnd}
  BY DEF Reconciliation, RunGoesOn, HandleSale, StartRun, ListPage, ReconcileSale, SkipSale, SaleFails,
         NextPage, MaxPagesReached, EndRun, RunDies, Forget, Apply, SaleApproved, RefundOrChargeback,
         NewCheckpoint, rows, window, watermark

LEMMA KnownStep ==
    ASSUME TimeInv, [Next]_vars
    PROVE  KnownSales'
  <1>0. TypeOK /\ now \in 1..MaxTime /\ MaxTime \in Nat /\ now \in Nat /\ 0 <= now
    <2>1. TypeOK /\ now \in 1..MaxTime
      BY DEF TimeInv, TypeOK
    <2>2. QED
      BY <2>1, Parameters
  <1>t. \A o \in Orders : updatedAt[o] \in 0..MaxTime
    BY <1>0 DEF TypeOK, Times
  <1>1. CASE Kiwify
    <2>1. UNCHANGED <<now, shown, rows, tx, expiring, job>>
      BY <1>1, KiwifyRest
    <2>2. ASSUME NEW o \in Orders
          PROVE  Known(o)' /\ (kiwify[o] # "none" => kiwify'[o] # "none")
      <3>1. now \in 1..now /\ Known(o)
        BY <1>0 DEF TimeInv, KnownSales
      <3>2. CASE /\ kiwify'[o] # "none" /\ updatedAt'[o] = now
                 /\ createdAt'[o] \in 1..now /\ soldAt'[o] \in 1..now /\ createdAt'[o] <= soldAt'[o]
        BY <1>0, <2>1, <3>1, <3>2 DEF Known
      <3>3. CASE /\ kiwify'[o] # "none" <=> kiwify[o] # "none"
                 /\ updatedAt'[o] = updatedAt[o]
                 /\ createdAt'[o] = createdAt[o] /\ soldAt'[o] = soldAt[o]
        BY <2>1, <3>1, <3>3 DEF Known
      <3>4. QED
        BY <1>1, <3>2, <3>3, KiwifyFrame
    <2>3. \A s \in pending' : kiwify'[s[1]] # "none" /\ s[3] \in 1..now'
      BY <1>0, <2>1, <2>2 DEF TimeInv, KnownSales, TypeOK, job
    <2>4. QED
      BY <2>1, <2>2, <2>3 DEF TimeInv, KnownSales, job, window, watermark
  <1>2. CASE Tick
    <2>1. now' = now + 1 /\ UNCHANGED <<world, job>>
      BY <1>2 DEF Tick
    <2>2. \A n \in 1..now : n \in 1..now'
      BY <1>0, <2>1
    <2>3. checkpoint' <= now' /\ windowEnd' <= now'
      <3>1. checkpoint \in 0..MaxTime /\ windowEnd \in 0..MaxTime /\ checkpoint <= now /\ windowEnd <= now
        BY DEF TimeInv, TypeOK, KnownSales, Times
      <3>2. QED
        BY <1>0, <2>1, <3>1, Parameters DEF job, window, watermark
    <2>4. QED
      BY <2>1, <2>2, <2>3 DEF TimeInv, KnownSales, Known, world, job
  <1>3. ASSUME NEW o \in Orders, ApiShows(o)  PROVE KnownSales'
    <2>1. /\ UNCHANGED <<now, kiwify, createdAt, soldAt, updatedAt, pending, checkpoint, windowEnd>>
          /\ shown' = [shown EXCEPT ![o] = Sale(o)]
      BY <1>3 DEF ApiShows, window, watermark
    <2>2. Sale(o).state # "none" =>
            kiwify[o] # "none" /\ Sale(o).at \in 1..now /\ Sale(o).at <= updatedAt[o]
      <3>1. updatedAt[o] <= updatedAt[o]
        BY <1>t
      <3>2. Sale(o).state # "none" => kiwify[o] # "none"
        BY DEF Sale
      <3>3. Sale(o).at = updatedAt[o] /\ Known(o)
        BY DEF Sale, TimeInv, KnownSales
      <3>4. QED
        BY <3>1, <3>2, <3>3 DEF Known
    <2>3. \A p \in Orders : Known(p)'
      <3> SUFFICES ASSUME NEW p \in Orders PROVE Known(p)'
        OBVIOUS
      <3>1. Known(p)
        BY DEF TimeInv, KnownSales
      <3>2. CASE p = o
        <4>1. shown'[p] = Sale(o)
          BY <1>0, <2>1, <3>2 DEF TypeOK
        <4> HIDE DEF Sale
        <4> QED
          BY <2>1, <2>2, <3>1, <3>2, <4>1 DEF Known
      <3>3. CASE p # o
        <4>1. shown'[p] = shown[p]
          BY <1>0, <2>1, <3>3 DEF TypeOK
        <4> QED
          BY <2>1, <3>1, <4>1 DEF Known
      <3> QED
        BY <3>2, <3>3
    <2>4. QED
      BY <2>1, <2>3 DEF TimeInv, KnownSales
  <1>4. CASE Reconciliation
    <2>1. /\ UNCHANGED <<now, world>>
          /\ ListPage \/ pending' \subseteq pending
          /\ windowEnd' \in {windowEnd, 0, now} /\ checkpoint' \in {checkpoint, windowEnd}
      BY <1>0, <1>4, ReconciliationRest
    <2>2. checkpoint' <= now' /\ windowEnd' <= now' /\ \A o \in Orders : Known(o)'
      BY <1>0, <2>1 DEF TimeInv, KnownSales, Known, world
    <2>3. CASE ListPage
      <3>1. \A s \in pending' : \E o \in Orders :
                s = <<o, shown[o].state, shown[o].at>> /\ shown[o].state # "none"
        BY <2>3 DEF ListPage, Page, Listed
      <3>2. \A s \in pending' : kiwify[s[1]] # "none" /\ s[3] \in 1..now
        BY <3>1 DEF TimeInv, KnownSales, Known
      <3>3. QED
        BY <2>1, <2>2, <3>2 DEF KnownSales, world
    <2>4. CASE pending' \subseteq pending
      BY <2>1, <2>2, <2>4 DEF TimeInv, KnownSales, world
    <2>5. QED
      BY <2>1, <2>3, <2>4
  <1>5. CASE UNCHANGED <<now, world, job>>
    BY <1>5 DEF TimeInv, KnownSales, Known, world, job, window, watermark
  <1>6. QED
    BY <1>1, <1>2, <1>3, <1>4, <1>5, OthersRest

\* A sale is visible to every run that starts Overlap after it, or later.
LEMMA LagStep ==
    ASSUME TimeInv, Lag, [Next]_vars
    PROVE  Lag'
  <1>0. TypeOK /\ now \in Nat /\ Overlap \in Nat \ {0}
    BY NowType, Parameters DEF TimeInv
  <1>1. CASE Kiwify
    <2> SUFFICES ASSUME NEW o \in Orders  PROVE shown'[o] = Sale(o)' \/ now' < updatedAt'[o] + Overlap
      BY DEF Lag
    <2>1. now' = now /\ shown' = shown
      BY <1>1, KiwifyRest
    <2>2. shown[o] = Sale(o) \/ now < updatedAt[o] + Overlap
      BY DEF Lag
    <2>3. CASE updatedAt'[o] = now
      BY <1>0, <2>1, <2>3
    <2>4. CASE updatedAt'[o] = updatedAt[o] /\ Sale(o)' = Sale(o)
      BY <2>1, <2>2, <2>4
    <2>5. QED
      BY <1>1, <2>3, <2>4, KiwifyFrame
  <1>2. CASE Tick
    BY <1>2 DEF Tick, Lag, Sale, world
  <1>3. ASSUME NEW o \in Orders, ApiShows(o)  PROVE Lag'
    BY <1>0, <1>3 DEF ApiShows, Lag, Sale, TypeOK
  <1>4. CASE UNCHANGED <<now, world>>
    BY <1>4 DEF Lag, Sale, world
  <1>5. QED
    BY <1>0, <1>1, <1>2, <1>3, <1>4, OthersRest, ReconciliationRest

(***************************************************************************)
(* Pages. A sale keeps its position, or moves towards a later page, until  *)
(* another one leaves the window.                                          *)
(***************************************************************************)
LEMMA PositionBounds ==
    ASSUME NEW o \in Orders
    PROVE  /\ Position(o) \in Nat /\ Cardinality(Listed) \in Nat
           /\ o \in Listed => Position(o) < Cardinality(Listed)
  <1> DEFINE S == {p \in Listed : Place[p] < Place[o]}
  <1>1. IsFiniteSet(Listed)
    <2>1. Listed \subseteq Orders
      BY DEF Listed
    <2> QED
      BY <2>1, ApiAssumption, FS_Subset
  <1>2. S \subseteq Listed
    OBVIOUS
  <1>3. IsFiniteSet(S) /\ Cardinality(S) <= Cardinality(Listed) /\ (Cardinality(Listed) = Cardinality(S) => Listed = S)
    BY <1>1, <1>2, FS_Subset
  <1>4. Cardinality(S) \in Nat /\ Cardinality(Listed) \in Nat
    BY <1>1, <1>3, FS_CardinalityType
  <1>5. o \in Listed => S # Listed
    <2>1. Place[o] \in Nat
      BY ApiAssumption
    <2> QED
      BY <2>1
  <1>6. Position(o) = Cardinality(S)
    BY DEF Position
  <1> HIDE DEF S
  <1> QED
    BY <1>3, <1>4, <1>5, <1>6

LEMMA PositionGrows ==
    ASSUME NEW o \in Orders, Listed \subseteq Listed'
    PROVE  Position(o) <= Position(o)'
  <1> DEFINE S == {p \in Listed : Place[p] < Place[o]}
             T == {p \in Listed' : Place[p] < Place[o]}
  <1>1. IsFiniteSet(T)
    <2>1. T \subseteq Orders
      BY DEF Listed
    <2> QED
      BY <2>1, ApiAssumption, FS_Subset
  <1>2. S \subseteq T
    OBVIOUS
  <1>3. Cardinality(S) <= Cardinality(T)
    BY <1>1, <1>2, FS_Subset
  <1>4. Position(o) = Cardinality(S) /\ Position(o)' = Cardinality(T)
    BY DEF Position
  <1> HIDE DEF S, T
  <1> QED
    BY <1>3, <1>4

LEMMA ToComeStays ==
    ASSUME TypeOK, NEW o \in Orders, ToCome(o), Listed \subseteq Listed',
           UNCHANGED <<run, page, more>>, Position(o)' \in Nat
    PROVE  ToCome(o)'
  <1>1. Position(o) <= Position(o)' /\ Position(o) \in Nat
    BY PositionGrows, PositionBounds
  <1>2. PagesRead' = PagesRead
    BY DEF PagesRead
  <1>3. PagesRead * PageSize \in Nat
    <2>0. page \in 1..MaxPages
      BY DEF TypeOK
    <2>1. page \in Nat \ {0}
      BY <2>0, Parameters
    <2>2. PagesRead \in Nat
      BY <2>1 DEF PagesRead
    <2> QED
      BY <2>2, Parameters
  <1> DEFINE k == PagesRead * PageSize
             a == Position(o)
             b == Position(o)'
  <1>4. k <= a /\ a <= b /\ k \in Nat /\ a \in Nat /\ b \in Nat
    BY <1>1, <1>3 DEF ToCome
  <1> HIDE DEF k, a, b
  <1>5. k <= b
    BY <1>4
  <1>6. PagesRead' * PageSize = k /\ Position(o)' = b /\ (run' = "list" \/ more')
    BY <1>2 DEF ToCome, k, b
  <1> QED
    BY <1>5, <1>6 DEF ToCome

LEMMA PositionNext == \A o \in Orders : Position(o)' \in Nat
  <1> SUFFICES ASSUME NEW o \in Orders PROVE Position(o)' \in Nat
    OBVIOUS
  <1> DEFINE T == {p \in Listed' : Place[p] < Place[o]}
  <1>1. IsFiniteSet(T)
    <2>1. T \subseteq Orders
      BY DEF Listed
    <2> QED
      BY <2>1, ApiAssumption, FS_Subset
  <1>2. Cardinality(T) \in Nat
    BY <1>1, FS_CardinalityType
  <1> QED
    BY <1>2 DEF Position

(***************************************************************************)
(* The checkpoint.                                                         *)
(***************************************************************************)

\* A sale that is processed stays so while nothing happens to it.
LEMMA StaysProcessed ==
    ASSUME NEW o \in Orders, processed \subseteq processed',
           Sale(o)' = Sale(o), updatedAt'[o] = updatedAt[o], createdAt'[o] = createdAt[o],
           AlreadyProcessed(EventOf(SaleOf(o)))
    PROVE  AlreadyProcessed(EventOf(SaleOf(o)))'
  <1>1. SaleOf(o)' = SaleOf(o)
    BY DEF SaleOf
  <1>2. EventOf(SaleOf(o))' = EventOf(SaleOf(o))
    BY <1>1 DEF EventOf, SaleOf
  <1>3. KeyOf(EventOf(SaleOf(o))) \in processed
    BY DEF AlreadyProcessed
  <1>4. KeyOf(EventOf(SaleOf(o)))' = KeyOf(EventOf(SaleOf(o)))
    BY <1>2 DEF KeyOf, SaleIdOf
  <1>5. QED
    BY <1>3, <1>4 DEF AlreadyProcessed

\* While the sales do not change, the run's list may lose what gets processed
\* or fails.
LEMMA RunCoversFrame ==
    ASSUME TypeOK, RunCovers, WindowFollows,
           UNCHANGED <<kiwify, createdAt, updatedAt, run, window, floor, checkpoint, page, more>>,
           left => left', run # "idle" /\ ~left' => Listed \subseteq Listed',
           processed \subseteq processed', pending' \subseteq pending,
           \A o \in Orders : SaleOf(o) \in pending =>
               \/ AlreadyProcessed(EventOf(SaleOf(o)))' \/ SaleOf(o) \in pending' \/ failed',
           failed => failed'
    PROVE  RunCovers' /\ WindowFollows'
  <1>1. WindowFollows' /\ (run' # "sales" => pending' = {})
    BY DEF WindowFollows, RunCovers, window
  <1> SUFFICES ASSUME run' # "idle", ~left', NEW o \in Orders,
                      Before(o, windowEnd)', windowStart' <= updatedAt'[o]
               PROVE  \/ AlreadyProcessed(EventOf(SaleOf(o)))' \/ SaleOf(o)' \in pending' \/ failed'
                      \/ ToCome(o)'
    BY <1>1 DEF RunCovers
  <1>2. /\ Before(o, windowEnd) /\ run # "idle" /\ ~left /\ windowStart <= updatedAt[o]
        /\ Sale(o)' = Sale(o) /\ SaleOf(o)' = SaleOf(o)
    BY DEF Before, Sale, SaleOf, window
  <1>3. AlreadyProcessed(EventOf(SaleOf(o))) \/ SaleOf(o) \in pending \/ failed \/ ToCome(o)
    BY <1>2 DEF RunCovers
  <1>4. CASE ToCome(o)
    BY <1>4, PositionNext, ToComeStays
  <1>5. CASE AlreadyProcessed(EventOf(SaleOf(o)))
    BY <1>2, <1>5, StaysProcessed
  <1>6. QED
    BY <1>2, <1>3, <1>4, <1>5

LEMMA CheckpointFrame ==
    ASSUME CheckpointCoversSales, UNCHANGED <<kiwify, createdAt, updatedAt, checkpoint, floor>>,
           processed \subseteq processed'
    PROVE  CheckpointCoversSales'
  <1> SUFFICES ASSUME NEW o \in Orders, Before(o, checkpoint)'
               PROVE  AlreadyProcessed(EventOf(SaleOf(o)))'
    BY DEF CheckpointCoversSales, Before, SaleOf
  <1>1. AlreadyProcessed(EventOf(SaleOf(o))) /\ Sale(o)' = Sale(o)
    BY DEF CheckpointCoversSales, Before, SaleOf, Sale
  <1>2. QED
    BY <1>1, StaysProcessed

\* What Kiwify does now is too recent for any window or checkpoint.
LEMMA KiwifyKeepsCovered ==
    ASSUME TimeInv, Kiwify, NEW o \in Orders, NEW t \in Nat, t <= now, Before(o, t)'
    PROVE  /\ Before(o, t) /\ SaleOf(o)' = SaleOf(o) /\ updatedAt'[o] = updatedAt[o]
           /\ AlreadyProcessed(EventOf(SaleOf(o))) => AlreadyProcessed(EventOf(SaleOf(o)))'
  <1>0. now \in Nat /\ Overlap \in Nat \ {0} /\ t' = t
    BY NowType, Parameters DEF TimeInv
  <1>1. floor' = floor /\ processed' = processed
    BY KiwifyRest DEF job, rows, watermark
  <1>2. kiwify'[o] # "none" /\ updatedAt'[o] >= floor' /\ updatedAt'[o] + Overlap <= t
    BY <1>0 DEF Before
  <1>3. updatedAt'[o] # now
    BY <1>0, <1>2
  <1>4. /\ kiwify[o] # "none" /\ updatedAt'[o] = updatedAt[o] /\ createdAt'[o] = createdAt[o]
        /\ Sale(o)' = Sale(o)
    BY <1>2, <1>3, KiwifyFrame
  <1>5. Before(o, t) /\ SaleOf(o)' = SaleOf(o)
    BY <1>1, <1>2, <1>4 DEF Before, SaleOf
  <1>6. QED
    BY <1>1, <1>4, <1>5, StaysProcessed

LEMMA NaturalTimes ==
    ASSUME TypeOK
    PROVE  /\ checkpoint \in Nat /\ windowEnd \in Nat /\ windowStart \in Int /\ floor \in Int
           /\ page \in Nat \ {0}
           /\ \A o \in Orders : updatedAt[o] \in Nat
  <1>1. /\ checkpoint \in Times /\ windowEnd \in Times /\ windowStart \in Int /\ floor \in Int
        /\ page \in 1..MaxPages
        /\ \A o \in Orders : updatedAt[o] \in Times
    BY DEF TypeOK
  <1>2. \A t \in Times : t \in Nat
    BY DEF Times
  <1>3. QED
    BY <1>1, <1>2, Parameters

\* A run begins with every sale of its window to come.
LEMMA StartRunCovers ==
    ASSUME CheckpointInv, StartRun
    PROVE  RunCovers' /\ WindowFollows' /\ CheckpointCoversSales'
  <1>0. /\ TypeOK /\ now \in Nat /\ checkpoint \in Nat /\ Overlap \in Nat \ {0}
        /\ UNCHANGED <<kiwify, createdAt, updatedAt, checkpoint, pending>> /\ processed' = processed
        /\ run = "idle" /\ run' = "list" /\ page' = 1
        /\ windowStart' = WindowStart /\ floor' = IF checkpoint = 0 THEN WindowStart ELSE floor
    <2>1. TypeOK /\ checkpoint \in Nat
      BY NaturalTimes DEF CheckpointInv, TimeInv
    <2>2. QED
      BY <2>1, NowType, Parameters DEF StartRun, world, rows
  <1>1. RunCovers'
    <2>1. pending' = {}
      BY <1>0 DEF CheckpointInv, RunCovers
    <2>2. \A o \in Orders : ToCome(o)'
      <3> SUFFICES ASSUME NEW o \in Orders PROVE ToCome(o)'
        OBVIOUS
      <3>1. PagesRead' = 0
        BY <1>0 DEF PagesRead
      <3>2. Position(o)' \in Nat
        BY PositionNext
      <3>3. PagesRead' * PageSize = 0
        BY <3>1, Parameters
      <3>4. PagesRead' * PageSize <= Position(o)'
        BY <3>2, <3>3
      <3> QED
        BY <1>0, <3>4 DEF ToCome
    <2> QED
      BY <2>1, <2>2 DEF RunCovers
  <1>2. WindowFollows'
    BY <1>0 DEF WindowFollows, WindowStart
  <1>3. CheckpointCoversSales'
    <2> SUFFICES ASSUME NEW o \in Orders, Before(o, checkpoint)'
                 PROVE  AlreadyProcessed(EventOf(SaleOf(o)))'
      BY DEF CheckpointCoversSales, Before, SaleOf
    <2>1. updatedAt[o] \in Nat
      BY <1>0, NaturalTimes
    <2>2. kiwify[o] # "none" /\ updatedAt[o] + Overlap <= checkpoint /\ updatedAt[o] >= floor'
      BY <1>0 DEF Before
    <2>3. checkpoint # 0
      BY <1>0, <2>1, <2>2
    <2>4. Before(o, checkpoint)
      BY <1>0, <2>2, <2>3 DEF Before
    <2>5. AlreadyProcessed(EventOf(SaleOf(o)))
      BY <2>4 DEF CheckpointInv, CheckpointCoversSales, Before, SaleOf
    <2>6. QED
      BY <1>0, <2>5, StaysProcessed DEF Sale
  <1> QED
    BY <1>1, <1>2, <1>3

\* Of the sales to come, a page takes those that are not on a later one.
LEMMA ListPageCovers ==
    ASSUME CheckpointInv, ListPage
    PROVE  RunCovers' /\ WindowFollows' /\ CheckpointCoversSales'
  <1>0. /\ TypeOK /\ RunCovers /\ WindowFollows /\ CheckpointCoversSales /\ Lag /\ KnownSales
        /\ now \in Nat /\ Overlap \in Nat \ {0} /\ PageSize \in Nat \ {0} /\ page \in Nat \ {0}
        /\ windowEnd \in Nat /\ windowStart \in Int
    BY NowType, NaturalTimes, Parameters DEF CheckpointInv, TimeInv
  <1>1. /\ run = "list" /\ run' = "sales"
        /\ UNCHANGED <<kiwify, createdAt, updatedAt, shown, processed, window, page, left, failed,
                       checkpoint, floor>>
        /\ pending' = {<<o, shown[o].state, shown[o].at>> : o \in Page}
        /\ more' = (Cardinality(Listed) > page * PageSize)
    BY DEF ListPage, world, rows, watermark
  <1>2. WindowFollows' /\ CheckpointCoversSales'
    BY <1>0, <1>1, CheckpointFrame DEF WindowFollows, window
  <1>3. RunCovers'
    <2> SUFFICES ASSUME ~left', NEW o \in Orders, Before(o, windowEnd)', windowStart' <= updatedAt'[o]
                 PROVE  \/ AlreadyProcessed(EventOf(SaleOf(o)))' \/ SaleOf(o)' \in pending' \/ failed'
                        \/ ToCome(o)'
      BY <1>1 DEF RunCovers
    <2>1. /\ Before(o, windowEnd) /\ ~left /\ windowStart <= updatedAt[o]
          /\ Sale(o)' = Sale(o) /\ SaleOf(o)' = SaleOf(o)
      BY <1>1 DEF Before, Sale, SaleOf, window
    <2>2. AlreadyProcessed(EventOf(SaleOf(o))) \/ failed \/ ToCome(o)
      BY <1>0, <1>1, <2>1 DEF RunCovers
    <2>3. CASE AlreadyProcessed(EventOf(SaleOf(o)))
      BY <1>1, <2>1, <2>3, StaysProcessed
    <2>4. CASE ToCome(o)
      <3>1. o \in Listed /\ shown[o] = Sale(o)
        <4>1. updatedAt[o] \in Nat /\ kiwify[o] # "none" /\ updatedAt[o] + Overlap <= windowEnd
              /\ windowEnd <= now
          BY <1>0, <2>1, NaturalTimes DEF Before, KnownSales
        <4>2. updatedAt[o] + Overlap <= now /\ updatedAt[o] <= windowEnd
          BY <1>0, <4>1
        <4>3. shown[o] = Sale(o)
          <5>1. shown[o] = Sale(o) \/ now < updatedAt[o] + Overlap
            BY <1>0 DEF Lag
          <5> QED
            BY <1>0, <4>1, <4>2, <5>1
        <4>4. shown[o].state # "none" /\ shown[o].at = updatedAt[o]
          BY <4>1, <4>3 DEF Sale
        <4> QED
          BY <2>1, <4>2, <4>3, <4>4 DEF Listed
      <3>2. (page - 1) * PageSize <= Position(o)
        BY <1>1, <2>4 DEF ToCome, PagesRead
      <3>3. Position(o) \in Nat /\ Cardinality(Listed) \in Nat /\ Position(o) < Cardinality(Listed)
        BY <3>1, PositionBounds
      <3>4. CASE Position(o) < page * PageSize
        <4>1. o \in Page
          BY <3>1, <3>2, <3>4 DEF Page
        <4>2. <<o, shown[o].state, shown[o].at>> = SaleOf(o)
          BY <3>1 DEF SaleOf, Sale
        <4> QED
          BY <1>1, <2>1, <4>1, <4>2
      <3>5. CASE ~(Position(o) < page * PageSize)
        <4>1. page * PageSize \in Nat
          BY <1>0
        <4> DEFINE k == page * PageSize
                   a == Position(o)
                   n == Cardinality(Listed)
        <4>2. k \in Nat /\ a \in Nat /\ n \in Nat /\ a < n /\ ~(a < k)
          BY <3>3, <3>5, <4>1
        <4> HIDE DEF k, a, n
        <4>3. n > k /\ k <= a
          BY <4>2
        <4>4. more' /\ PagesRead' * PageSize <= Position(o)
          BY <1>1, <4>3 DEF k, a, n, PagesRead
        <4>5. Position(o)' = Position(o)
          BY <1>1 DEF Position, Listed, window
        <4> QED
          BY <4>4, <4>5 DEF ToCome
      <3> QED
        BY <3>4, <3>5
    <2> QED
      BY <1>1, <2>2, <2>3, <2>4
  <1> QED
    BY <1>2, <1>3

\* A run that ends answers for its window, and the window for what follows the
\* last checkpoint; one that a sale left answers for nothing before AnswersFrom.
LEMMA EndRunCovers ==
    ASSUME CheckpointInv, EndRun
    PROVE  CheckpointCoversSales'
  <1>0. /\ TypeOK /\ RunCovers /\ WindowFollows /\ CheckpointCoversSales
        /\ Overlap \in Nat \ {0} /\ windowEnd \in Nat /\ checkpoint \in Nat
        /\ windowStart \in Int /\ floor \in Int
    BY NaturalTimes, Parameters DEF CheckpointInv, TimeInv
  <1>1. /\ UNCHANGED <<kiwify, createdAt, updatedAt>> /\ processed' = processed
        /\ run = "sales" /\ pending = {} /\ ~more
        /\ checkpoint' = IF failed THEN checkpoint ELSE windowEnd
        /\ floor' = IF left /\ ~failed /\ AnswersFrom > floor THEN AnswersFrom ELSE floor
    BY DEF EndRun, NewCheckpoint, world, rows
  <1>2. CASE failed
    BY <1>0, <1>1, <1>2, CheckpointFrame
  <1>3. CASE ~failed
    <2> SUFFICES ASSUME NEW o \in Orders, Before(o, checkpoint)'
                 PROVE  AlreadyProcessed(EventOf(SaleOf(o)))'
      BY DEF CheckpointCoversSales, Before, SaleOf
    <2>1. /\ updatedAt[o] \in Nat /\ kiwify[o] # "none" /\ updatedAt[o] + Overlap <= windowEnd
          /\ updatedAt[o] >= floor'
      BY <1>0, <1>1, <1>3, NaturalTimes DEF Before
    <2>2. ~left
      <3> SUFFICES ASSUME left PROVE FALSE
        OBVIOUS
      <3>1. floor' >= windowEnd - Overlap + 1
        BY <1>0, <1>1, <1>3 DEF AnswersFrom
      <3>2. floor' \in Int
        BY <1>0, <1>1 DEF AnswersFrom
      <3> QED
        BY <1>0, <2>1, <3>1, <3>2
    <2>3. floor' = floor /\ Before(o, windowEnd)
      BY <1>1, <2>1, <2>2 DEF Before
    <2>4. AlreadyProcessed(EventOf(SaleOf(o)))
      <3>1. CASE windowStart <= updatedAt[o]
        BY <1>0, <1>1, <1>3, <2>2, <2>3, <3>1 DEF RunCovers, ToCome
      <3>2. CASE ~(windowStart <= updatedAt[o])
        <4>1. windowStart = IF checkpoint = 0 THEN floor ELSE checkpoint - Overlap
          BY <1>0, <1>1 DEF WindowFollows
        <4>2. checkpoint # 0
          BY <1>0, <2>1, <2>3, <3>2, <4>1
        <4>3. updatedAt[o] + Overlap <= checkpoint
          BY <1>0, <2>1, <3>2, <4>1, <4>2
        <4> QED
          BY <1>0, <2>1, <2>3, <4>3 DEF CheckpointCoversSales, SaleOf
      <3> QED
        BY <3>1, <3>2
    <2> QED
      BY <1>1, <2>4, StaysProcessed DEF Sale
  <1> QED
    BY <1>2, <1>3

LEMMA ReconciliationCovers ==
    ASSUME CheckpointInv, Reconciliation
    PROVE  RunCovers' /\ WindowFollows' /\ CheckpointCoversSales'
  <1>0. TypeOK /\ RunCovers /\ WindowFollows /\ CheckpointCoversSales
    BY DEF CheckpointInv, TimeInv
  <1>1. /\ UNCHANGED <<now, kiwify, createdAt, soldAt, updatedAt, shown>> /\ processed \subseteq processed'
    BY <1>0, ReconciliationRest DEF world
  <1>2. CASE StartRun
    BY <1>2, StartRunCovers
  <1>3. CASE ListPage
    BY <1>3, ListPageCovers
  <1>a. ASSUME UNCHANGED <<run, window, listing, watermark>>, pending' \subseteq pending, failed => failed',
               \A o \in Orders : SaleOf(o) \in pending =>
                   \/ AlreadyProcessed(EventOf(SaleOf(o)))' \/ SaleOf(o) \in pending' \/ failed'
        PROVE  RunCovers' /\ WindowFollows' /\ CheckpointCoversSales'
    <2>1. UNCHANGED <<kiwify, createdAt, updatedAt, run, window, floor, checkpoint, page, more, left>>
      BY <1>1, <1>a DEF listing, watermark
    <2>2. Listed' = Listed
      BY <1>1, <1>a DEF Listed, window
    <2>3. RunCovers' /\ WindowFollows'
      BY <1>0, <1>1, <1>a, <2>1, <2>2, RunCoversFrame
    <2>4. CheckpointCoversSales'
      BY <1>0, <1>1, <2>1, CheckpointFrame
    <2> QED
      BY <2>3, <2>4
  <1>4. ASSUME NEW s \in pending, ReconcileSale(s)  PROVE RunCovers' /\ WindowFollows' /\ CheckpointCoversSales'
    <2>1. /\ KeyOf(EventOf(s)) \in processed' /\ EventOf(s)' = EventOf(s)
          /\ UNCHANGED <<run, window, listing, watermark, failed>>
          /\ pending' = pending \ {s}
      BY <1>1, <1>4 DEF ReconcileSale, Apply, SaleApproved, RefundOrChargeback, EventOf
    <2>2. AlreadyProcessed(EventOf(s))'
      BY <2>1 DEF AlreadyProcessed, KeyOf, SaleIdOf
    <2>3. \A o \in Orders : SaleOf(o)' = SaleOf(o)
      BY <1>1 DEF SaleOf, Sale
    <2>4. QED
      BY <1>a, <2>1, <2>2, <2>3
  <1>5. ASSUME NEW s \in pending, SkipSale(s)  PROVE RunCovers' /\ WindowFollows' /\ CheckpointCoversSales'
    <2>1. /\ UNCHANGED <<run, window, listing, watermark, failed, processed>>
          /\ pending' = pending \ {s} /\ EventOf(s)' = EventOf(s)
      BY <1>1, <1>5 DEF SkipSale, rows, EventOf
    <2>2. AlreadyProcessed(EventOf(s))'
      BY <1>5, <2>1 DEF SkipSale, AlreadyProcessed, KeyOf, SaleIdOf
    <2>3. \A o \in Orders : SaleOf(o)' = SaleOf(o)
      BY <1>1 DEF SaleOf, Sale
    <2>4. QED
      BY <1>a, <2>1, <2>2, <2>3
  <1>6. ASSUME NEW s \in pending, SaleFails(s)  PROVE RunCovers' /\ WindowFollows' /\ CheckpointCoversSales'
    <2>1. UNCHANGED <<run, window, listing, watermark>> /\ pending' \subseteq pending /\ failed'
      BY <1>6 DEF SaleFails
    <2> QED
      BY <1>a, <2>1
  <1>7. CASE NextPage
    <2>1. /\ run = "sales" /\ run' = "list" /\ page' = page + 1 /\ pending = {} /\ pending' = {} /\ more
          /\ UNCHANGED <<window, left, failed, checkpoint, floor>>
      BY <1>7 DEF NextPage, watermark
    <2>2. CheckpointCoversSales' /\ WindowFollows'
      BY <1>0, <1>1, <2>1, CheckpointFrame DEF WindowFollows, window
    <2>3. RunCovers'
      <3> SUFFICES ASSUME ~left', NEW o \in Orders, Before(o, windowEnd)', windowStart' <= updatedAt'[o]
                   PROVE  AlreadyProcessed(EventOf(SaleOf(o)))' \/ failed' \/ ToCome(o)'
        BY <2>1 DEF RunCovers
      <3>1. Before(o, windowEnd) /\ ~left /\ windowStart <= updatedAt[o] /\ Sale(o)' = Sale(o)
        BY <1>1, <2>1 DEF Before, Sale, window
      <3>2. AlreadyProcessed(EventOf(SaleOf(o))) \/ failed \/ ToCome(o)
        BY <1>0, <2>1, <3>1 DEF RunCovers
      <3>3. Position(o)' = Position(o)
        BY <1>1, <2>1 DEF Position, Listed, window
      <3>4. PagesRead' = PagesRead
        <4>1. page \in Nat
          BY <1>0, NaturalTimes
        <4> QED
          BY <2>1, <4>1 DEF PagesRead
      <3>5. ToCome(o) => ToCome(o)'
        BY <2>1, <3>3, <3>4 DEF ToCome
      <3> QED
        BY <1>1, <2>1, <3>1, <3>2, <3>5, StaysProcessed
    <2> QED
      BY <2>2, <2>3
  <1>b. ASSUME Forget  PROVE RunCovers' /\ WindowFollows'
    BY <1>b DEF Forget, RunCovers, WindowFollows
  <1>8. CASE MaxPagesReached \/ RunDies
    <2>1. Forget /\ UNCHANGED <<checkpoint, floor>>
      BY <1>8 DEF MaxPagesReached, RunDies, watermark
    <2> QED
      BY <1>0, <1>1, <1>b, <2>1, CheckpointFrame
  <1>9. CASE EndRun
    BY <1>9, <1>b, EndRunCovers DEF EndRun
  <1> QED
    BY <1>2, <1>3, <1>4, <1>5, <1>6, <1>7, <1>8, <1>9 DEF Reconciliation, RunGoesOn, HandleSale

\* A sale shown anew stays in the window, or else it has left it.
LEMMA ApiShowsCovers ==
    ASSUME CheckpointInv, NEW o \in Orders, ApiShows(o)
    PROVE  RunCovers' /\ WindowFollows' /\ CheckpointCoversSales'
  <1>0. TypeOK /\ KnownSales /\ RunCovers /\ WindowFollows /\ CheckpointCoversSales
    BY DEF CheckpointInv, TimeInv
  <1>1. /\ UNCHANGED <<kiwify, createdAt, updatedAt, run, window, page, more, pending, failed,
                       checkpoint, floor>>
        /\ processed' = processed /\ shown' = [shown EXCEPT ![o] = Sale(o)]
        /\ left' = (left \/ (run # "idle" /\ o \in Listed /\ updatedAt[o] > windowEnd))
    BY DEF ApiShows, rows, watermark
  <1>2. run # "idle" /\ ~left' => Listed \subseteq Listed'
    <2> SUFFICES ASSUME run # "idle", ~left', NEW p \in Listed PROVE p \in Listed'
      OBVIOUS
    <2>1. p \in Orders /\ shown[p].state # "none" /\ windowStart <= shown[p].at /\ shown[p].at <= windowEnd
      BY DEF Listed
    <2>2. CASE p # o
      <3>1. shown'[p] = shown[p]
        BY <1>0, <1>1, <2>1, <2>2 DEF TypeOK
      <3> QED
        BY <1>1, <2>1, <3>1 DEF Listed, window
    <2>3. CASE p = o
      <3>1. shown'[o] = Sale(o) /\ Sale(o).at = updatedAt[o]
        BY <1>0, <1>1 DEF TypeOK, Sale
      <3>2. kiwify[o] # "none" /\ shown[o].at \in 1..now /\ shown[o].at <= updatedAt[o]
        BY <1>0, <2>1, <2>3 DEF KnownSales, Known
      <3>3. ~(updatedAt[o] > windowEnd)
        BY <1>1, <2>3
      <3>4. /\ windowStart \in Int /\ windowEnd \in Nat /\ updatedAt[o] \in Nat /\ now \in Nat
        BY <1>0, NaturalTimes, NowType
      <3>5. windowStart <= updatedAt[o] /\ updatedAt[o] <= windowEnd
        BY <2>1, <2>3, <3>2, <3>3, <3>4
      <3>6. Sale(o).state # "none"
        BY <3>2 DEF Sale
      <3> QED
        BY <1>1, <2>3, <3>1, <3>5, <3>6 DEF Listed, window
    <2> QED
      BY <2>2, <2>3
  <1>3. \A p \in Orders : SaleOf(p)' = SaleOf(p)
    BY <1>1 DEF SaleOf, Sale
  <1>4. RunCovers' /\ WindowFollows'
    BY <1>0, <1>1, <1>2, <1>3, RunCoversFrame
  <1> QED
    BY <1>0, <1>1, <1>4, CheckpointFrame

LEMMA KiwifyCovers ==
    ASSUME CheckpointInv, Kiwify
    PROVE  RunCovers' /\ WindowFollows' /\ CheckpointCoversSales'
  <1>0. TimeInv /\ TypeOK /\ RunCovers /\ WindowFollows /\ CheckpointCoversSales
    BY DEF CheckpointInv, TimeInv
  <1>1. /\ UNCHANGED <<run, windowStart, windowEnd, page, more, left, pending, failed, checkpoint, floor, shown>>
        /\ windowEnd \in Nat /\ windowEnd <= now /\ checkpoint \in Nat /\ checkpoint <= now
    BY <1>0, KiwifyRest, NaturalTimes DEF job, window, listing, watermark, TimeInv, KnownSales
  <1>2. WindowFollows' /\ (run' # "sales" => pending' = {})
    BY <1>0, <1>1 DEF WindowFollows, RunCovers
  <1>3. RunCovers'
    <2> SUFFICES ASSUME run' # "idle", ~left', NEW o \in Orders, Before(o, windowEnd)',
                        windowStart' <= updatedAt'[o]
                 PROVE  \/ AlreadyProcessed(EventOf(SaleOf(o)))' \/ SaleOf(o)' \in pending' \/ failed'
                        \/ ToCome(o)'
      BY <1>2 DEF RunCovers
    <2>1. PICK t \in Nat : t = windowEnd /\ t <= now
      BY <1>1
    <2>2. Before(o, t)'
      BY <1>1, <2>1 DEF Before
    <2>3. /\ Before(o, t) /\ SaleOf(o)' = SaleOf(o) /\ updatedAt'[o] = updatedAt[o]
          /\ AlreadyProcessed(EventOf(SaleOf(o))) => AlreadyProcessed(EventOf(SaleOf(o)))'
      BY <1>0, <2>1, <2>2, KiwifyKeepsCovered
    <2>4. AlreadyProcessed(EventOf(SaleOf(o))) \/ SaleOf(o) \in pending \/ failed \/ ToCome(o)
      BY <1>0, <1>1, <2>1, <2>3 DEF RunCovers
    <2>5. ToCome(o)' <=> ToCome(o)
      <3>1. Position(o)' = Position(o)
        BY <1>1 DEF Position, Listed
      <3> QED
        BY <1>1, <3>1 DEF ToCome, PagesRead
    <2> QED
      BY <1>1, <2>3, <2>4, <2>5
  <1>4. CheckpointCoversSales'
    <2> SUFFICES ASSUME NEW o \in Orders, Before(o, checkpoint)'
                 PROVE  AlreadyProcessed(EventOf(SaleOf(o)))'
      BY DEF CheckpointCoversSales, Before, SaleOf
    <2>1. PICK t \in Nat : t = checkpoint /\ t <= now
      BY <1>1
    <2>2. Before(o, t)'
      BY <1>1, <2>1 DEF Before
    <2>3. Before(o, t) /\ (AlreadyProcessed(EventOf(SaleOf(o))) => AlreadyProcessed(EventOf(SaleOf(o)))')
      BY <1>0, <2>1, <2>2, KiwifyKeepsCovered
    <2> QED
      BY <1>0, <2>1, <2>3 DEF CheckpointCoversSales, Before, SaleOf
  <1> QED
    BY <1>2, <1>3, <1>4

LEMMA CheckpointStep ==
    ASSUME CheckpointInv, [Next]_vars
    PROVE  CheckpointInv'
  <1>0. TimeInv /\ TypeOK /\ Lag /\ RunCovers /\ WindowFollows /\ CheckpointCoversSales
    BY DEF CheckpointInv, TimeInv
  <1>1. TimeInv' /\ Lag'
    BY <1>0, TypeStep, KnownStep, LagStep DEF TimeInv
  <1>2. RunCovers' /\ WindowFollows' /\ CheckpointCoversSales'
    <2>1. CASE Kiwify
      BY <2>1, KiwifyCovers
    <2>2. CASE Reconciliation
      BY <2>2, ReconciliationCovers
    <2>3. CASE \E o \in Orders : ApiShows(o)
      BY <2>3, ApiShowsCovers
    <2>4. CASE UNCHANGED <<kiwify, createdAt, updatedAt, shown, job>> /\ processed \subseteq processed'
      <3>1. \A p \in Orders : SaleOf(p)' = SaleOf(p)
        BY <2>4 DEF SaleOf, Sale
      <3>2. UNCHANGED <<run, window, page, more, left, pending, failed, checkpoint, floor>>
        BY <2>4 DEF job, listing, watermark
      <3>3. Listed' = Listed
        BY <2>4, <3>2 DEF Listed, window
      <3>4. RunCovers' /\ WindowFollows'
        BY <1>0, <2>4, <3>1, <3>2, <3>3, RunCoversFrame
      <3> QED
        BY <1>0, <2>4, <3>2, <3>4, CheckpointFrame
    <2>5. CASE Tick
      BY <2>4, <2>5 DEF Tick, world, rows
    <2> QED
      BY <2>1, <2>2, <2>3, <2>4, <2>5, OthersRest DEF world
  <1> QED
    BY <1>1, <1>2 DEF CheckpointInv

LEMMA InitialState == Init => CheckpointInv /\ OneEntitledPerUser
  <1> SUFFICES ASSUME Init PROVE CheckpointInv /\ OneEntitledPerUser
    OBVIOUS
  <1>1. now \in 1..MaxTime /\ faults \in 0..MaxFaults /\ 0 \in Times /\ 0 \in Nat /\ 0 \in Int
        /\ 1 \in 1..MaxPages
    <2>1. now = 1 /\ faults = 0
      BY DEF Init
    <2>2. QED
      BY <2>1, Parameters DEF Times
  <1>2. TypeOK
    <2>1. shown \in [Orders -> Shown]
      BY <1>1 DEF Init, Shown
    <2>2. WorldType
      BY <1>1, <2>1 DEF Init, WorldType
    <2>3. StatusType
      BY <1>1 DEF Init, StatusType
    <2>4. RowsType
      BY <1>1, <2>3 DEF Init, RowsType
    <2>5. WorkType /\ JobType
      BY <1>1 DEF Init, WorkType, JobType
    <2>6. QED
      BY <2>2, <2>4, <2>5, TypeParts
  <1>3. KnownSales
    <2>1. checkpoint <= now /\ windowEnd <= now
      <3>1. checkpoint = 0 /\ windowEnd = 0 /\ now = 1
        BY DEF Init
      <3>2. QED
        BY <3>1
    <2>2. \A o \in Orders : kiwify[o] = "none" /\ shown[o].state = "none"
      BY DEF Init
    <2>3. pending = {}
      BY DEF Init
    <2>4. QED
      BY <2>1, <2>2, <2>3 DEF KnownSales, Known
  <1>4. Lag
    BY DEF Init, Lag, Sale
  <1>5. RunCovers /\ WindowFollows /\ CheckpointCoversSales /\ OneEntitledPerUser
    BY DEF Init, RunCovers, WindowFollows, CheckpointCoversSales, OneEntitledPerUser
  <1>6. QED
    BY <1>2, <1>3, <1>4, <1>5 DEF CheckpointInv, TimeInv

\* Every row, event, window and snapshot stays in its domain; in particular a
\* subscription has an end of grace exactly when it is past due.
THEOREM TypeCorrect == Spec => []TypeOK
  <1>1. Init => TimeInv
    BY InitialState DEF CheckpointInv
  <1>2. TimeInv /\ [Next]_vars => TimeInv'
    BY TypeStep, KnownStep DEF TimeInv
  <1>3. TimeInv => TypeOK
    BY DEF TimeInv
  <1>4. QED
    BY <1>1, <1>2, <1>3, PTL DEF Spec

\* The reconciliation checkpoint never leaves behind a sale or a refund that
\* nobody processed under the name the API gives it, whatever the size of its
\* pages, and although it lags, sales fail and runs die; a run whose window a
\* sale left while it was read answers for nothing before the next window.
THEOREM CheckpointCovers == Spec => []CheckpointCoversSales
  <1>1. Init => CheckpointInv
    BY InitialState
  <1>2. CheckpointInv /\ [Next]_vars => CheckpointInv'
    BY CheckpointStep
  <1>3. CheckpointInv => CheckpointCoversSales
    BY DEF CheckpointInv
  <1>4. QED
    BY <1>1, <1>2, <1>3, PTL DEF Spec

(***************************************************************************)
(* One entitled subscription per user.                                     *)
(***************************************************************************)
LEMMA WriteKeepsOne ==
    ASSUME TypeOK, OneEntitledPerUser, NEW r \in Rows, NEW st, NEW grace, NEW at,
           Write(r, st, grace, at)
    PROVE  OneEntitledPerUser'
  <1> SUFFICES ASSUME NEW p \in Rows, NEW q \in Rows, p # q, user'[p] # NoUser, user'[p] = user'[q],
                      status'[p] \in Entitled, status'[q] \in Entitled
               PROVE  FALSE
    BY DEF OneEntitledPerUser
  <1>1. user' = user /\ status' = [status EXCEPT ![r] = st] /\ IndexAllows(r, user[r], st)
    BY DEF Write
  <1>2. \A x \in Rows : status'[x] = IF x = r THEN st ELSE status[x]
    BY <1>1 DEF TypeOK
  <1>3. CASE p = r
    BY <1>1, <1>2, <1>3 DEF IndexAllows
  <1>4. CASE q = r
    BY <1>1, <1>2, <1>4 DEF IndexAllows
  <1>5. CASE p # r /\ q # r
    BY <1>1, <1>2, <1>5 DEF OneEntitledPerUser
  <1>6. QED
    BY <1>3, <1>4, <1>5

LEMMA BindKeepsOne ==
    ASSUME TypeOK, OneEntitledPerUser, NEW r \in Rows, NEW u \in Users, BindUser(r, u)
    PROVE  OneEntitledPerUser'
  <1> SUFFICES ASSUME NEW p \in Rows, NEW q \in Rows, p # q, user'[p] # NoUser, user'[p] = user'[q],
                      status'[p] \in Entitled, status'[q] \in Entitled
               PROVE  FALSE
    BY DEF OneEntitledPerUser
  <1>1. status' = status /\ user' = [user EXCEPT ![r] = u] /\ IndexAllows(r, u, status[r])
    BY DEF BindUser, row
  <1>2. u # NoUser
    BY NoUserAssumption
  <1>3. \A x \in Rows : user'[x] = IF x = r THEN u ELSE user[x]
    BY <1>1 DEF TypeOK
  <1>4. CASE p = r
    BY <1>1, <1>2, <1>3, <1>4 DEF IndexAllows
  <1>5. CASE q = r
    BY <1>1, <1>2, <1>3, <1>5 DEF IndexAllows
  <1>6. CASE p # r /\ q # r
    BY <1>1, <1>3, <1>6 DEF OneEntitledPerUser
  <1>7. QED
    BY <1>4, <1>5, <1>6

LEMMA OneEntitledStep ==
    ASSUME TimeInv, OneEntitledPerUser, [Next]_vars
    PROVE  OneEntitledPerUser'
  <1>0. TypeOK
    BY DEF TimeInv
  <1>1. ASSUME NEW e \in Event, Apply(e)  PROVE OneEntitledPerUser'
    <2>1. \E st, grace, at : Write(RowOf(e), st, grace, at)
      BY <1>1 DEF Apply, SaleApproved, RefundOrChargeback
    <2>2. QED
      BY <1>0, <2>1, EventFields, WriteKeepsOne
  <1>2. ASSUME NEW w \in Workers, WriteRow(w)  PROVE OneEntitledPerUser'
    <2>1. tx[w].row \in Rows
      BY <1>0, <1>2, ReaderFacts DEF WriteRow, Reads
    <2>2. \E st, grace, at : Write(tx[w].row, st, grace, at)
      BY <1>2 DEF WriteRow
    <2>3. QED
      BY <1>0, <2>1, <2>2, WriteKeepsOne
  <1>3. ASSUME NEW r \in Rows, ExpireOne(r)  PROVE OneEntitledPerUser'
    BY <1>0, <1>3, WriteKeepsOne DEF ExpireOne
  <1>4. ASSUME NEW s \in pending, ReconcileSale(s)  PROVE OneEntitledPerUser'
    BY <1>1, <1>4, EventOfType DEF ReconcileSale
  <1>5. ASSUME NEW e \in sent, DeliverSale(e)  PROVE OneEntitledPerUser'
    BY <1>0, <1>1, <1>5 DEF DeliverSale, TypeOK
  <1>6. ASSUME NEW r \in Rows, NEW u \in Users, BindUser(r, u)  PROVE OneEntitledPerUser'
    BY <1>0, <1>6, BindKeepsOne
  <1>7. CASE UNCHANGED <<status, user>>
    BY <1>7 DEF OneEntitledPerUser
  <1>8. QED
    <2>1. CASE Webhooks
      BY <1>2, <1>5, <1>7, <2>1 DEF Webhooks, ReadRow, Rollback, rows, row
    <2>2. CASE GraceJob
      BY <1>3, <1>7, <2>2 DEF GraceJob, ListPastDueGraceExpired, ExpireFails, rows, row
    <2>3. CASE Reconciliation
      BY <1>4, <1>7, <2>3 DEF Reconciliation, RunGoesOn, HandleSale, StartRun, ListPage, SkipSale, SaleFails,
                              NextPage, MaxPagesReached, EndRun, RunDies, rows, row
    <2>4. CASE Kiwify \/ Tick \/ (\E o \in Orders : ApiShows(o)) \/ UNCHANGED vars
      BY <1>7, <2>4, KiwifyRest DEF Tick, ApiShows, vars, rows, row
    <2>5. QED
      BY <1>6, <2>1, <2>2, <2>3, <2>4 DEF Next

\* No user is ever bound to two entitled subscriptions, whichever webhooks,
\* bindings, reconciliation runs and expiries write to them.
THEOREM OneEntitled == Spec => []OneEntitledPerUser
  <1>1. Init => TimeInv /\ OneEntitledPerUser
    BY InitialState DEF CheckpointInv
  <1>2. (TimeInv /\ OneEntitledPerUser) /\ [Next]_vars => (TimeInv /\ OneEntitledPerUser)'
    BY TypeStep, KnownStep, OneEntitledStep DEF TimeInv
  <1>3. QED
    BY <1>1, <1>2, PTL DEF Spec

(***************************************************************************)
(* What was paid is what a subscription runs for.                          *)
(***************************************************************************)

\* The renewals of an order that were processed, once each.
RenewalKeys(o) ==
    {k \in processed : k.trigger = "subscription_renewed" /\ k.of = <<o, "subscription">>}
PaidUntil(o) == soldAt[o] + Period * (1 + Cardinality(RenewalKeys(o)))

\* Kiwify sends what it sold.
SalesAgree ==
    \A e \in sent :
        kiwify[e.order] # "none" /\ (e.trigger = "order_approved" => e.at <= soldAt[e.order])

\* A subscription begins with its sale; only one that began is renewed, or
\* listed by the grace job.
RowsAreSold ==
    /\ \A r \in Rows : status[r] # "absent" => kiwify[r[1]] # "none"
    /\ \A r \in Rows : status[r] = "absent" => renewed[r] = 0
    /\ \A r \in expiring : status[r] # "absent"

RowIsPaid(r) ==
    status[r] # "absent" =>
        /\ periodEnd[r] <= PaidUntil(r[1])
        /\ r \notin overwritten => periodEnd[r] = periodStart[r] + Period * (1 + renewed[r])

\* A worker's event is not applied yet and no other worker has it. What it
\* read of the period is still there, unless it was written over since, and
\* never more than was paid.
SnapshotIsPaid(w) ==
    Reads(w) =>
        /\ status[tx[w].row] # "absent" /\ tx[w].row[1] = tx[w].event.order
        /\ KeyOf(tx[w].event) \notin processed
        /\ tx[w].periodEnd <= PaidUntil(tx[w].row[1])
        /\ tx[w].event.trigger = "subscription_renewed" =>
              tx[w].row \in overwritten \/ tx[w].periodEnd = periodEnd[tx[w].row]
        /\ \A v \in Workers \ {w} : Reads(v) => KeyOf(tx[v].event) # KeyOf(tx[w].event)

PaidInv ==
    /\ IsFiniteSet(processed) /\ SalesAgree /\ RowsAreSold
    /\ \A r \in Rows : RowIsPaid(r)
    /\ \A w \in Workers : SnapshotIsPaid(w)

LEMMA RowOrder == \A r \in Rows : r[1] \in Orders
  BY DEF Rows

LEMMA PaidInitially == Init => PaidInv
  <1> SUFFICES ASSUME Init PROVE PaidInv
    OBVIOUS
  <1>1. IsFiniteSet(processed) /\ SalesAgree /\ RowsAreSold
    BY FS_EmptySet DEF Init, SalesAgree, RowsAreSold
  <1>2. \A r \in Rows : RowIsPaid(r)
    BY DEF Init, RowIsPaid
  <1>3. \A w \in Workers : SnapshotIsPaid(w)
    BY DEF Init, SnapshotIsPaid, Reads, Idle
  <1> QED
    BY <1>1, <1>2, <1>3 DEF PaidInv

LEMMA Times1 ==
    ASSUME NEW p \in Nat, NEW n \in Nat
    PROVE  /\ p * (1 + n) \in Nat /\ p <= p * (1 + n) /\ p * (1 + 0) = p
           /\ p * (1 + (n + 1)) = p * (1 + n) + p
  OBVIOUS

LEMMA RenewalsFinite ==
    ASSUME TypeOK, IsFiniteSet(processed), NEW o \in Orders
    PROVE  /\ IsFiniteSet(RenewalKeys(o)) /\ Cardinality(RenewalKeys(o)) \in Nat /\ PaidUntil(o) \in Nat
           /\ soldAt[o] \in Nat /\ soldAt[o] + Period <= PaidUntil(o)
  <1>1. IsFiniteSet(RenewalKeys(o)) /\ Cardinality(RenewalKeys(o)) \in Nat
    <2>1. RenewalKeys(o) \subseteq processed
      BY DEF RenewalKeys
    <2>2. IsFiniteSet(RenewalKeys(o))
      BY <2>1, FS_Subset
    <2> QED
      BY <2>2, FS_CardinalityType
  <1>2. soldAt[o] \in Nat
    <2>1. soldAt[o] \in 0..MaxTime
      BY DEF TypeOK, Times
    <2> QED
      BY <2>1, Parameters
  <1> DEFINE n == Cardinality(RenewalKeys(o))
             d == Period * (1 + n)
  <1>3. d \in Nat /\ Period <= d /\ Period \in Nat
    BY <1>1, Times1, Parameters
  <1>4. PaidUntil(o) = soldAt[o] + d
    BY DEF PaidUntil
  <1> HIDE DEF d
  <1>5. PaidUntil(o) \in Nat /\ soldAt[o] + Period <= PaidUntil(o)
    BY <1>2, <1>3, <1>4
  <1> QED
    BY <1>1, <1>2, <1>5

\* A step that applies no event and reads no row.
LEMMA PaidFrame ==
    ASSUME PaidInv, TypeOK,
           UNCHANGED <<kiwify, soldAt, sent, processed, periodStart, periodEnd, renewed, overwritten>>,
           \A r \in Rows : status'[r] = "absent" <=> status[r] = "absent",
           \A r \in expiring' : status'[r] # "absent",
           \A w \in Workers : tx'[w] = tx[w] \/ tx'[w].state # "read"
    PROVE  PaidInv'
  <1>1. /\ IsFiniteSet(processed) /\ SalesAgree /\ RowsAreSold
        /\ \A r \in Rows : RowIsPaid(r)
        /\ \A w \in Workers : SnapshotIsPaid(w)
    BY DEF PaidInv
  <1>2. \A o : PaidUntil(o)' = PaidUntil(o)
    BY DEF PaidUntil, RenewalKeys
  <1>3. SalesAgree' /\ RowsAreSold'
    BY <1>1 DEF SalesAgree, RowsAreSold
  <1>4. \A r \in Rows : RowIsPaid(r)'
    BY <1>1, <1>2 DEF RowIsPaid
  <1>5. \A w \in Workers : Reads(w)' => Reads(w) /\ tx'[w] = tx[w]
    BY DEF Reads
  <1>6. ASSUME NEW w \in Workers PROVE SnapshotIsPaid(w)'
    <2> SUFFICES ASSUME Reads(w)' PROVE SnapshotIsPaid(w)'
      BY DEF SnapshotIsPaid
    <2>1. Reads(w) /\ tx'[w] = tx[w] /\ tx[w].row \in Rows
      BY <1>5, ReaderFacts
    <2>2. SnapshotIsPaid(w)
      BY <1>1
    <2>3. /\ \A v \in Workers \ {w} : Reads(v)' => KeyOf(tx'[v].event) # KeyOf(tx'[w].event)
          /\ KeyOf(tx'[w].event) \notin processed'
      BY <1>5, <2>1, <2>2 DEF SnapshotIsPaid
    <2> QED
      BY <1>2, <2>1, <2>2, <2>3 DEF SnapshotIsPaid, KeyOf, SaleIdOf
  <1> QED
    BY <1>1, <1>3, <1>4, <1>6 DEF PaidInv

LEMMA KiwifyPaid ==
    ASSUME PaidInv, TypeOK, Kiwify
    PROVE  PaidInv'
  <1>1. /\ IsFiniteSet(processed) /\ SalesAgree /\ RowsAreSold
        /\ \A r \in Rows : RowIsPaid(r)
        /\ \A w \in Workers : SnapshotIsPaid(w)
    BY DEF PaidInv
  <1>2. UNCHANGED <<now, status, periodStart, periodEnd, renewed, overwritten, processed, tx, expiring>>
    BY KiwifyRest DEF rows, row
  <1>3. PICK p \in Orders : Sells(p) \/ Refunds(p) \/ Renews(p) \/ FailsCharge(p) \/ Cancels(p)
    BY DEF Kiwify
  <1>4. \A o \in Orders : kiwify[o] # "none" => kiwify'[o] # "none" /\ soldAt'[o] = soldAt[o]
    BY <1>3 DEF Sells, Refunds, Renews, FailsCharge, Cancels, Sends, TypeOK
  <1>5. \A e \in sent : e.order \in Orders
    BY EventFields DEF TypeOK
  <1>6. SalesAgree'
    <2> SUFFICES ASSUME NEW e \in sent'
                 PROVE  kiwify'[e.order] # "none" /\ (e.trigger = "order_approved" => e.at <= soldAt'[e.order])
      BY DEF SalesAgree
    <2>1. CASE e \in sent
      BY <1>1, <1>4, <1>5, <2>1 DEF SalesAgree
    <2>2. CASE e \notin sent
      <3>1. CASE Sells(p)
        <4>1. e = [via |-> "webhook", trigger |-> "order_approved", order |-> p, at |-> now]
          BY <2>2, <3>1 DEF Sells, Sends
        <4>2. kiwify'[p] = "active" /\ soldAt'[p] = now
          BY <3>1 DEF Sells, Sends, TypeOK
        <4>3. now <= now
          BY NowType
        <4> QED
          BY <4>1, <4>2, <4>3
      <3>2. CASE ~Sells(p)
        <4>1. PICK t, from, to : Sends(p, t, from, to) /\ t # "order_approved" /\ to # "none"
          BY <1>3, <3>2 DEF Refunds, Renews, FailsCharge, Cancels
        <4>2. e = [via |-> "webhook", trigger |-> t, order |-> p, at |-> now]
          BY <2>2, <4>1 DEF Sends
        <4>3. kiwify'[p] = to
          BY <4>1 DEF Sends, TypeOK
        <4> QED
          BY <4>1, <4>2, <4>3
      <3> QED
        BY <3>1, <3>2
    <2> QED
      BY <2>1, <2>2
  <1>7. \A o \in Orders : kiwify[o] # "none" => PaidUntil(o)' = PaidUntil(o)
    BY <1>2, <1>4 DEF PaidUntil, RenewalKeys
  <1>8. \A r \in Rows : status[r] # "absent" => PaidUntil(r[1])' = PaidUntil(r[1])
    BY <1>1, <1>7, RowOrder DEF RowsAreSold
  <1>9. RowsAreSold'
    BY <1>1, <1>2, <1>4, RowOrder DEF RowsAreSold
  <1>10. \A r \in Rows : RowIsPaid(r)'
    BY <1>1, <1>2, <1>8 DEF RowIsPaid
  <1>11. ASSUME NEW w \in Workers PROVE SnapshotIsPaid(w)'
    <2> SUFFICES ASSUME Reads(w) PROVE SnapshotIsPaid(w)'
      BY <1>2 DEF SnapshotIsPaid, Reads
    <2>1. SnapshotIsPaid(w) /\ tx[w].row \in Rows
      BY <1>1, ReaderFacts
    <2> QED
      BY <1>2, <1>8, <2>1 DEF SnapshotIsPaid, Reads, KeyOf, SaleIdOf
  <1> QED
    BY <1>1, <1>2, <1>6, <1>9, <1>10, <1>11 DEF PaidInv

\* A sale starts the period; a second one of its row writes it over. A refund
\* leaves it alone.
LEMMA ApplyPaid ==
    ASSUME PaidInv, TypeOK, NEW e \in Event, Apply(e), e.trigger \in {"order_approved", "order_refunded"},
           kiwify[e.order] # "none", e.trigger = "order_approved" => e.at <= soldAt[e.order],
           UNCHANGED <<kiwify, soldAt, sent, tx, expiring>>
    PROVE  PaidInv'
  <1>0. PICK r \in Rows, k \in Keys : r = RowOf(e) /\ k = KeyOf(e)
    BY EventFields
  <1>1. /\ IsFiniteSet(processed) /\ SalesAgree /\ RowsAreSold
        /\ \A p \in Rows : RowIsPaid(p)
        /\ \A w \in Workers : SnapshotIsPaid(w)
    BY DEF PaidInv
  <1>2. e.order \in Orders /\ e.at \in Nat /\ r[1] = e.order
    BY <1>0, EventFields
  <1>3. processed' = processed \cup {k} /\ renewed' = renewed
    BY <1>0 DEF Apply, SaleApproved, RefundOrChargeback
  <1>4. status'[r] # "absent" /\ \A p \in Rows \ {r} : status'[p] = status[p]
    <2>1. PICK st, grace, at : Write(r, st, grace, at) /\ st # "absent"
      BY <1>0 DEF Apply, SaleApproved, RefundOrChargeback
    <2>2. status' = [status EXCEPT ![r] = st]
      BY <2>1 DEF Write
    <2> QED
      BY <2>1, <2>2 DEF TypeOK
  <1>5. \/ /\ e.trigger = "order_approved"
           /\ periodStart' = [periodStart EXCEPT ![r] = IF status[r] = "absent" THEN e.at ELSE @]
           /\ periodEnd' = [periodEnd EXCEPT ![r] = e.at + Period]
           /\ overwritten' = IF status[r] = "absent" THEN overwritten ELSE overwritten \cup {r}
        \/ /\ e.trigger # "order_approved" /\ status[r] # "absent"
           /\ UNCHANGED <<periodStart, periodEnd, overwritten>>
    BY <1>0 DEF Apply, SaleApproved, RefundOrChargeback
  <1>6. \A o : RenewalKeys(o)' = RenewalKeys(o)
    <2>1. k.trigger = e.trigger
      BY <1>0 DEF KeyOf
    <2> QED
      BY <1>3, <2>1 DEF RenewalKeys
  <1>7. \A o : PaidUntil(o)' = PaidUntil(o)
    BY <1>6 DEF PaidUntil
  <1>8. IsFiniteSet(processed')
    BY <1>1, <1>3, FS_AddElement
  <1>9. SalesAgree'
    BY <1>1 DEF SalesAgree
  <1>10. RowsAreSold'
    <2>1. \A p \in Rows : status'[p] # "absent" => kiwify'[p[1]] # "none"
      BY <1>1, <1>2, <1>4 DEF RowsAreSold
    <2>2. \A p \in Rows : status'[p] = "absent" => renewed'[p] = 0
      BY <1>1, <1>3, <1>4 DEF RowsAreSold
    <2>3. \A p \in expiring' : status'[p] # "absent"
      BY <1>1, <1>4 DEF RowsAreSold, TypeOK
    <2> QED
      BY <2>1, <2>2, <2>3 DEF RowsAreSold
  <1>11. ASSUME NEW p \in Rows PROVE RowIsPaid(p)'
    <2>1. CASE p # r
      <3>1. /\ periodEnd'[p] = periodEnd[p] /\ periodStart'[p] = periodStart[p]
            /\ p \in overwritten' <=> p \in overwritten
        BY <1>5, <2>1 DEF TypeOK
      <3> QED
        BY <1>1, <1>3, <1>4, <1>7, <2>1, <3>1 DEF RowIsPaid
    <2>2. CASE p = r /\ e.trigger = "order_approved"
      <3>1. periodEnd'[r] = e.at + Period
        BY <1>5, <2>2 DEF TypeOK
      <3>2. e.at + Period <= PaidUntil(r[1])'
        <4>1. soldAt[e.order] \in Nat /\ soldAt[e.order] + Period <= PaidUntil(e.order) /\ PaidUntil(e.order) \in Nat
          BY <1>1, <1>2, RenewalsFinite
        <4>2. e.at + Period <= PaidUntil(e.order)
          BY <1>2, <2>2, <4>1, Parameters
        <4> QED
          BY <1>2, <1>7, <4>2
      <3>3. r \notin overwritten' => periodEnd'[r] = periodStart'[r] + Period * (1 + renewed'[r])
        <4> SUFFICES ASSUME r \notin overwritten'
                     PROVE  periodEnd'[r] = periodStart'[r] + Period * (1 + renewed'[r])
          OBVIOUS
        <4>1. status[r] = "absent" /\ periodStart'[r] = e.at
          BY <1>5, <2>2 DEF TypeOK
        <4>2. renewed'[r] = 0
          BY <1>1, <1>3, <4>1 DEF RowsAreSold
        <4> QED
          BY <1>2, <3>1, <4>1, <4>2, Parameters
      <3> QED
        BY <2>2, <3>1, <3>2, <3>3 DEF RowIsPaid
    <2>3. CASE p = r /\ e.trigger # "order_approved"
      BY <1>1, <1>3, <1>5, <1>7, <2>3 DEF RowIsPaid
    <2> QED
      BY <2>1, <2>2, <2>3
  <1>12. ASSUME NEW w \in Workers PROVE SnapshotIsPaid(w)'
    <2> SUFFICES ASSUME Reads(w) PROVE SnapshotIsPaid(w)'
      BY DEF SnapshotIsPaid, Reads
    <2>0. PICK q \in Rows : q = tx[w].row
      BY ReaderFacts
    <2>1. SnapshotIsPaid(w) /\ tx[w].event.trigger \in Changes
      BY <1>1, ReaderFacts
    <2>2. KeyOf(tx[w].event) # k
      BY <1>0, <2>1 DEF Changes, KeyOf
    <2>3. status[q] # "absent" /\ status'[q] # "absent"
      BY <1>4, <2>0, <2>1 DEF SnapshotIsPaid
    <2>4. q \in overwritten' \/ periodEnd'[q] = periodEnd[q]
      <3>1. CASE q = r
        BY <1>5, <2>3, <3>1
      <3>2. CASE q # r
        BY <1>5, <3>2 DEF TypeOK
      <3> QED
        BY <3>1, <3>2
    <2>5. overwritten \subseteq overwritten'
      BY <1>5
    <2> QED
      BY <1>3, <1>7, <2>0, <2>1, <2>2, <2>3, <2>4, <2>5 DEF SnapshotIsPaid, Reads, KeyOf, SaleIdOf
  <1> QED
    BY <1>8, <1>9, <1>10, <1>11, <1>12 DEF PaidInv

LEMMA ReadRowPaid ==
    ASSUME PaidInv, TypeOK, NEW w \in Workers, NEW e \in sent, ReadRow(w, e)
    PROVE  PaidInv'
  <1>1. /\ IsFiniteSet(processed) /\ SalesAgree /\ RowsAreSold
        /\ \A r \in Rows : RowIsPaid(r)
        /\ \A v \in Workers : SnapshotIsPaid(v)
    BY DEF PaidInv
  <1>2. UNCHANGED <<kiwify, soldAt, sent, status, periodStart, periodEnd, renewed, overwritten, processed, expiring>>
    BY DEF ReadRow, world, rows, row
  <1>3. ~AlreadyProcessed(e) /\ ~InProgress(e)
    BY DEF ReadRow
  <1>4. PICK r \in FindByKiwifySubID(e.order) :
          tx' = [tx EXCEPT ![w] = [state |-> IF IsRegression(r, e) THEN "superseded" ELSE "read",
                                   event |-> e, row |-> r, periodEnd |-> periodEnd[r]]]
    BY DEF ReadRow
  <1>5. r \in Rows /\ r[1] = e.order /\ status[r] # "absent"
    BY <1>4 DEF FindByKiwifySubID
  <1>6. /\ tx'[w].event = e /\ tx'[w].row = r /\ tx'[w].periodEnd = periodEnd[r]
        /\ \A v \in Workers \ {w} : tx'[v] = tx[v]
    BY <1>4 DEF TypeOK
  <1>7. \A o : PaidUntil(o)' = PaidUntil(o)
    BY <1>2 DEF PaidUntil, RenewalKeys
  <1>8. SalesAgree' /\ RowsAreSold' /\ \A p \in Rows : RowIsPaid(p)'
    BY <1>1, <1>2, <1>7 DEF SalesAgree, RowsAreSold, RowIsPaid
  <1>9. KeyOf(e) \notin processed /\ \A v \in Workers : Reads(v) => KeyOf(tx[v].event) # KeyOf(e)
    BY <1>3 DEF AlreadyProcessed, InProgress, Reads
  <1>10. ASSUME NEW v \in Workers PROVE SnapshotIsPaid(v)'
    <2>1. CASE v = w
      <3>1. periodEnd[r] <= PaidUntil(r[1])
        BY <1>1, <1>5 DEF RowIsPaid
      <3>2. \A x \in Workers \ {w} : Reads(x)' => KeyOf(tx'[x].event) # KeyOf(e)
        BY <1>6, <1>9 DEF Reads
      <3> QED
        BY <1>2, <1>5, <1>6, <1>7, <1>9, <2>1, <3>1, <3>2 DEF SnapshotIsPaid, KeyOf, SaleIdOf
    <2>2. CASE v # w
      <3> SUFFICES ASSUME Reads(v) PROVE SnapshotIsPaid(v)'
        BY <1>6, <2>2 DEF SnapshotIsPaid, Reads
      <3>1. SnapshotIsPaid(v)
        BY <1>1
      <3>2. \A x \in Workers \ {v} : Reads(x)' => KeyOf(tx'[x].event) # KeyOf(tx[v].event)
        BY <1>6, <1>9, <2>2, <3>1 DEF SnapshotIsPaid, Reads
      <3> QED
        BY <1>2, <1>6, <1>7, <2>2, <3>1, <3>2 DEF SnapshotIsPaid, Reads, KeyOf, SaleIdOf
    <2> QED
      BY <2>1, <2>2
  <1> QED
    BY <1>1, <1>2, <1>8, <1>10 DEF PaidInv

\* A renewal adds one plan duration to what it read, and to what was paid.
LEMMA WriteRowPaid ==
    ASSUME PaidInv, TypeOK, NEW w \in Workers, WriteRow(w)
    PROVE  PaidInv'
  <1>0. PICK e, r : e = tx[w].event /\ r = tx[w].row
    OBVIOUS
  <1> DEFINE o == r[1]
             read == tx[w].periodEnd
             k == KeyOf(e)
  <1>1. /\ IsFiniteSet(processed) /\ SalesAgree /\ RowsAreSold
        /\ \A p \in Rows : RowIsPaid(p)
        /\ \A v \in Workers : SnapshotIsPaid(v)
    BY DEF PaidInv
  <1>2. Reads(w)
    BY DEF WriteRow, Reads
  <1>3. e \in Event /\ e.trigger \in Changes /\ r \in Rows /\ o \in Orders /\ read \in Nat
    BY <1>0, <1>2, ReaderFacts, RowOrder
  <1>4. /\ status[r] # "absent" /\ k \notin processed /\ e.order = o
        /\ read <= PaidUntil(o)
        /\ e.trigger = "subscription_renewed" => r \in overwritten \/ read = periodEnd[r]
    BY <1>0, <1>1, <1>2 DEF SnapshotIsPaid
  <1>5. /\ UNCHANGED <<kiwify, soldAt, sent, expiring, periodStart>> /\ processed' = processed \cup {k}
        /\ status' = [status EXCEPT ![r] = Target[e.trigger]]
        /\ tx' = [tx EXCEPT ![w] = Idle]
    BY <1>0 DEF WriteRow, Write, world
  <1>6. \/ /\ e.trigger = "subscription_renewed"
           /\ periodEnd' = [periodEnd EXCEPT ![r] = read + Period]
           /\ renewed' = [renewed EXCEPT ![r] = @ + 1]
           /\ overwritten' = IF ReadByAnother(w) THEN overwritten \cup {r} ELSE overwritten
        \/ /\ e.trigger # "subscription_renewed"
           /\ UNCHANGED <<periodEnd, renewed, overwritten>>
    BY <1>0, WritesPeriod
  <1>7. Target[e.trigger] # "absent"
    BY <1>3 DEF Target, Changes
  <1>8. /\ status'[r] # "absent" /\ ~Reads(w)'
        /\ \A p \in Rows \ {r} : status'[p] = status[p]
        /\ \A v \in Workers \ {w} : tx'[v] = tx[v]
    <2>1. Idle.state # "read"
      BY DEF Idle
    <2> QED
      BY <1>3, <1>5, <1>7, <2>1 DEF TypeOK, Reads
  <1>9. /\ \A p \in Rows \ {r} : periodEnd'[p] = periodEnd[p] /\ renewed'[p] = renewed[p]
        /\ overwritten \subseteq overwritten' /\ overwritten' \subseteq overwritten \cup {r}
    BY <1>6 DEF TypeOK
  <1>10. IsFiniteSet(processed')
    BY <1>1, <1>5, FS_AddElement
  <1>11. SalesAgree'
    BY <1>1, <1>5 DEF SalesAgree
  <1>12. RowsAreSold'
    <2>1. \A p \in Rows : status'[p] # "absent" => kiwify'[p[1]] # "none"
      BY <1>1, <1>4, <1>5, <1>8 DEF RowsAreSold
    <2>2. \A p \in Rows : status'[p] = "absent" => renewed'[p] = 0
      BY <1>1, <1>8, <1>9 DEF RowsAreSold
    <2>3. \A p \in expiring' : status'[p] # "absent"
      BY <1>1, <1>5, <1>8 DEF RowsAreSold, TypeOK
    <2> QED
      BY <2>1, <2>2, <2>3 DEF RowsAreSold
  <1>13. PaidUntil(o) \in Nat /\ periodEnd[r] \in Nat /\ periodStart[r] \in Nat /\ renewed[r] \in Nat
    <2>1. periodStart[r] \in Nat
      <3>1. periodStart[r] \in 0..MaxTime
        BY <1>3 DEF TypeOK, Times
      <3> QED
        BY <3>1, Parameters
    <2> QED
      BY <1>1, <1>3, <2>1, RenewalsFinite DEF TypeOK
  <1>14. /\ PaidUntil(o)' = PaidUntil(o) + (IF e.trigger = "subscription_renewed" THEN Period ELSE 0)
         /\ \A p \in Orders \ {o} : PaidUntil(p)' = PaidUntil(p)
    <2>0. k.trigger = e.trigger /\ k.of = <<o, "subscription">>
      BY <1>3, <1>4 DEF KeyOf
    <2>1. CASE e.trigger = "subscription_renewed"
      <3> DEFINE n == Cardinality(RenewalKeys(o))
      <3>1. RenewalKeys(o)' = RenewalKeys(o) \cup {k} /\ k \notin RenewalKeys(o)
        BY <1>4, <1>5, <2>0, <2>1 DEF RenewalKeys
      <3>2. IsFiniteSet(RenewalKeys(o)) /\ n \in Nat /\ soldAt[o] \in Nat
        BY <1>1, <1>3, RenewalsFinite
      <3>3. Cardinality(RenewalKeys(o)') = n + 1
        BY <3>1, <3>2, FS_AddElement
      <3>4. PaidUntil(o)' = soldAt[o] + Period * (1 + (n + 1)) /\ PaidUntil(o) = soldAt[o] + Period * (1 + n)
        BY <1>5, <3>3 DEF PaidUntil
      <3>5. Period * (1 + (n + 1)) = Period * (1 + n) + Period /\ Period * (1 + n) \in Nat
        BY <3>2, Times1, Parameters
      <3> DEFINE a == Period * (1 + n)
                 b == Period * (1 + (n + 1))
      <3>6. PaidUntil(o)' = soldAt[o] + b /\ PaidUntil(o) = soldAt[o] + a /\ b = a + Period /\ a \in Nat
        BY <3>4, <3>5
      <3> HIDE DEF n, a, b
      <3>7. PaidUntil(o)' = PaidUntil(o) + Period
        BY <3>2, <3>6, Parameters
      <3>8. \A p \in Orders \ {o} : RenewalKeys(p)' = RenewalKeys(p)
        BY <1>5, <2>0 DEF RenewalKeys
      <3> QED
        BY <1>5, <2>1, <3>7, <3>8 DEF PaidUntil
    <2>2. CASE e.trigger # "subscription_renewed"
      <3>1. \A p : RenewalKeys(p)' = RenewalKeys(p)
        BY <1>5, <2>0, <2>2 DEF RenewalKeys
      <3>2. \A p : PaidUntil(p)' = PaidUntil(p)
        BY <1>5, <3>1 DEF PaidUntil
      <3> QED
        BY <1>13, <2>2, <3>2
    <2> QED
      BY <2>1, <2>2
  <1>15. PaidUntil(o)' \in Nat /\ PaidUntil(o) <= PaidUntil(o)'
    <2> HIDE DEF o
    <2> QED
      BY <1>13, <1>14, Parameters
  <1>16. RowIsPaid(r)'
    <2>1. /\ periodEnd[r] <= PaidUntil(o)
          /\ r \notin overwritten => periodEnd[r] = periodStart[r] + Period * (1 + renewed[r])
      BY <1>1, <1>3, <1>4 DEF RowIsPaid
    <2>2. CASE e.trigger = "subscription_renewed"
      <3>1. periodEnd'[r] = read + Period /\ renewed'[r] = renewed[r] + 1
        BY <1>3, <1>6, <2>2 DEF TypeOK
      <3>2. periodEnd'[r] <= PaidUntil(o)'
        <4> HIDE DEF o, read
        <4> QED
          BY <1>3, <1>4, <1>13, <1>14, <2>2, <3>1, Parameters
      <3>3. ASSUME r \notin overwritten'
            PROVE  periodEnd'[r] = periodStart'[r] + Period * (1 + renewed'[r])
        <4>1. read = periodStart[r] + Period * (1 + renewed[r])
          BY <1>4, <1>9, <2>1, <2>2, <3>3
        <4>2. /\ Period * (1 + (renewed[r] + 1)) = Period * (1 + renewed[r]) + Period
              /\ Period * (1 + renewed[r]) \in Nat
          BY <1>13, Times1, Parameters
        <4> DEFINE a == Period * (1 + renewed[r])
                   b == Period * (1 + (renewed[r] + 1))
        <4>3. read = periodStart[r] + a /\ b = a + Period /\ a \in Nat
          BY <4>1, <4>2
        <4> HIDE DEF a, b, read
        <4>4. read + Period = periodStart[r] + b
          BY <1>13, <4>3, Parameters
        <4> QED
          BY <1>5, <3>1, <4>4 DEF b
      <3> QED
        BY <3>2, <3>3 DEF RowIsPaid
    <2>3. CASE e.trigger # "subscription_renewed"
      <3>1. UNCHANGED <<periodEnd, renewed, overwritten, periodStart>> /\ PaidUntil(o)' = PaidUntil(o)
        BY <1>5, <1>6, <1>13, <1>14, <2>3
      <3> QED
        BY <2>1, <3>1 DEF RowIsPaid
    <2> QED
      BY <2>2, <2>3
  <1>17. ASSUME NEW p \in Rows PROVE RowIsPaid(p)'
    <2>1. CASE p # r
      <3>1. RowIsPaid(p) /\ p[1] \in Orders /\ (p \in overwritten' <=> p \in overwritten)
            /\ periodEnd'[p] = periodEnd[p] /\ renewed'[p] = renewed[p] /\ periodStart'[p] = periodStart[p]
            /\ status'[p] = status[p]
        BY <1>1, <1>5, <1>8, <1>9, <2>1, RowOrder
      <3>2. status[p] # "absent" => periodEnd[p] <= PaidUntil(p[1])'
        <4>1. CASE p[1] # o
          BY <1>14, <3>1, <4>1 DEF RowIsPaid
        <4>2. CASE p[1] = o
          <5> DEFINE a == periodEnd[p]
                     b == PaidUntil(o)
                     c == PaidUntil(o)'
          <5>1. a \in Nat /\ b \in Nat /\ c \in Nat /\ b <= c
            BY <1>13, <1>15 DEF TypeOK
          <5>2. status[p] # "absent" => a <= b
            BY <3>1, <4>2 DEF RowIsPaid
          <5> HIDE DEF a, b, c, o
          <5>3. status[p] # "absent" => a <= c
            BY <5>1, <5>2
          <5> QED
            BY <4>2, <5>3 DEF a, c
        <4> QED
          BY <4>1, <4>2
      <3> QED
        BY <3>1, <3>2 DEF RowIsPaid
    <2> QED
      BY <1>16, <2>1
  <1>18. ASSUME NEW v \in Workers PROVE SnapshotIsPaid(v)'
    <2> SUFFICES ASSUME Reads(v), v # w PROVE SnapshotIsPaid(v)'
      BY <1>8 DEF SnapshotIsPaid, Reads
    <2>0. PICK f, q : f = tx[v].event /\ q = tx[v].row
      OBVIOUS
    <2>1. /\ q \in Rows /\ q[1] \in Orders /\ tx[v].periodEnd \in Nat /\ tx'[v] = tx[v]
          /\ status[q] # "absent" /\ q[1] = f.order
          /\ KeyOf(f) \notin processed /\ tx[v].periodEnd <= PaidUntil(q[1])
          /\ f.trigger = "subscription_renewed" => q \in overwritten \/ tx[v].periodEnd = periodEnd[q]
          /\ \A x \in Workers \ {v} : Reads(x) => KeyOf(tx[x].event) # KeyOf(f)
      BY <1>1, <1>8, <2>0, ReaderFacts, RowOrder DEF SnapshotIsPaid
    <2>2. KeyOf(f) \notin processed' /\ status'[q] # "absent"
      <3>1. KeyOf(f) # k
        BY <1>0, <1>2, <2>1
      <3> QED
        BY <1>5, <1>8, <2>1, <3>1
    <2>3. tx[v].periodEnd <= PaidUntil(q[1])'
      <3>1. CASE q[1] # o
        BY <1>14, <2>1, <3>1
      <3>2. CASE q[1] = o
        <4> DEFINE a == tx[v].periodEnd
                   b == PaidUntil(o)
                   c == PaidUntil(o)'
        <4>1. a \in Nat /\ b \in Nat /\ c \in Nat /\ a <= b /\ b <= c
          BY <1>13, <1>15, <2>1, <3>2
        <4> HIDE DEF a, b, c, o
        <4>2. a <= c
          BY <4>1
        <4> QED
          BY <3>2, <4>2 DEF a, c
      <3> QED
        BY <3>1, <3>2
    <2>4. f.trigger = "subscription_renewed" => q \in overwritten' \/ tx[v].periodEnd = periodEnd'[q]
      <3> SUFFICES ASSUME f.trigger = "subscription_renewed"
                   PROVE  q \in overwritten' \/ tx[v].periodEnd = periodEnd'[q]
        OBVIOUS
      <3>1. CASE q = r /\ e.trigger = "subscription_renewed"
        <4>1. ReadByAnother(w)
          BY <1>0, <2>0, <3>1 DEF ReadByAnother, Reads
        <4> QED
          BY <1>6, <3>1, <4>1
      <3>2. CASE ~(q = r /\ e.trigger = "subscription_renewed")
        <4>1. periodEnd'[q] = periodEnd[q]
          BY <1>6, <1>9, <2>1, <3>2
        <4> QED
          BY <1>9, <2>1, <4>1
      <3> QED
        BY <3>1, <3>2
    <2>5. \A x \in Workers \ {v} : Reads(x)' => Reads(x) /\ tx'[x] = tx[x]
      BY <1>8 DEF Reads
    <2> QED
      BY <2>0, <2>1, <2>2, <2>3, <2>4, <2>5 DEF SnapshotIsPaid, KeyOf, SaleIdOf
  <1> QED
    BY <1>10, <1>11, <1>12, <1>17, <1>18 DEF PaidInv

LEMMA PaidStep ==
    ASSUME TimeInv, PaidInv, [Next]_vars
    PROVE  PaidInv'
  <1>0. TypeOK /\ RowsAreSold /\ SalesAgree
    BY DEF TimeInv, PaidInv
  <1>1. ASSUME NEW s \in pending, ReconcileSale(s) PROVE PaidInv'
    <2>1. EventOf(s) \in Event
      BY EventOfType
    <2>2. s[1] \in Orders /\ kiwify[s[1]] # "none" /\ Known(s[1])
      BY <1>0 DEF TypeOK, TimeInv, KnownSales
    <2>3. /\ EventOf(s).trigger \in {"order_approved", "order_refunded"} /\ EventOf(s).order = s[1]
          /\ EventOf(s).trigger = "order_approved" => EventOf(s).at <= soldAt[s[1]]
      BY <2>2 DEF EventOf, Known
    <2>4. Apply(EventOf(s)) /\ UNCHANGED <<kiwify, soldAt, sent, tx, expiring>>
      BY <1>1 DEF ReconcileSale, world
    <2> QED
      BY <1>0, <2>1, <2>2, <2>3, <2>4, ApplyPaid
  <1>2. ASSUME NEW e \in sent, DeliverSale(e) PROVE PaidInv'
    <2>1. e \in Event /\ e.trigger \in {"order_approved", "order_refunded"}
      BY <1>0, <1>2, EventFields DEF TypeOK, DeliverSale, Triggers
    <2>2. Apply(e) /\ UNCHANGED <<kiwify, soldAt, sent, tx, expiring>>
      BY <1>2 DEF DeliverSale, world
    <2>3. kiwify[e.order] # "none" /\ (e.trigger = "order_approved" => e.at <= soldAt[e.order])
      BY <1>0 DEF SalesAgree
    <2> QED
      BY <1>0, <2>1, <2>2, <2>3, ApplyPaid
  <1>f. ASSUME UNCHANGED <<kiwify, soldAt, sent, processed, periodStart, periodEnd, renewed, overwritten>>,
               \A r \in Rows : status'[r] = "absent" <=> status[r] = "absent",
               \A r \in expiring' : status'[r] # "absent",
               \A w \in Workers : tx'[w] = tx[w] \/ tx'[w].state # "read"
        PROVE  PaidInv'
    BY <1>0, <1>f, PaidFrame
  <1>3. ASSUME NEW w \in Workers, Rollback(w) PROVE PaidInv'
    <2>1. \A v \in Workers : tx'[v] = tx[v] \/ tx'[v].state # "read"
      BY <1>0, <1>3 DEF Rollback, TypeOK, Idle
    <2>2. UNCHANGED <<kiwify, soldAt, sent, processed, periodStart, periodEnd, renewed, overwritten, status, expiring>>
      BY <1>3 DEF Rollback, world, rows, row
    <2> QED
      BY <1>0, <1>f, <2>1, <2>2 DEF RowsAreSold
  <1>4. ASSUME NEW r \in Rows, ExpireOne(r) PROVE PaidInv'
    <2>1. /\ UNCHANGED <<kiwify, soldAt, sent, processed, periodStart, periodEnd, renewed, overwritten, tx>>
          /\ expiring' \subseteq expiring
          /\ status' = [status EXCEPT ![r] = "EXPIRED"] /\ r \in expiring
      BY <1>4 DEF ExpireOne, Write, world
    <2>2. \A p \in Rows : status'[p] = "absent" <=> status[p] = "absent"
      BY <1>0, <2>1 DEF TypeOK, RowsAreSold
    <2>3. \A p \in expiring' : status'[p] # "absent"
      BY <1>0, <2>1, <2>2 DEF TypeOK, RowsAreSold
    <2> QED
      BY <1>f, <2>1, <2>2, <2>3
  <1>5. CASE ListPastDueGraceExpired
    <2>1. UNCHANGED <<kiwify, soldAt, sent, processed, periodStart, periodEnd, renewed, overwritten, tx, status>>
      BY <1>5 DEF ListPastDueGraceExpired, world, rows, row
    <2>2. \A p \in expiring' : status'[p] # "absent"
      BY <1>5, <2>1 DEF ListPastDueGraceExpired
    <2> QED
      BY <1>f, <2>1, <2>2
  <1>6. ASSUME UNCHANGED <<kiwify, soldAt, sent, processed, row, tx>>, expiring' \subseteq expiring
        PROVE  PaidInv'
    <2>1. UNCHANGED <<status, periodStart, periodEnd, renewed, overwritten>>
      BY <1>6 DEF row
    <2> QED
      BY <1>0, <1>6, <1>f, <2>1 DEF RowsAreSold
  <1>7. CASE Webhooks
    BY <1>0, <1>2, <1>3, <1>7, ReadRowPaid, WriteRowPaid DEF Webhooks
  <1>8. CASE GraceJob
    BY <1>4, <1>5, <1>6, <1>8 DEF GraceJob, ExpireFails, world, rows
  <1>9. CASE Reconciliation
    BY <1>1, <1>6, <1>9 DEF Reconciliation, RunGoesOn, HandleSale, StartRun, ListPage, SkipSale, SaleFails,
                            NextPage, MaxPagesReached, EndRun, RunDies, world, rows
  <1>10. CASE Kiwify
    BY <1>0, <1>10, KiwifyPaid
  <1>11. CASE Tick \/ (\E o \in Orders : ApiShows(o)) \/ (\E r \in Rows, u \in Users : BindUser(r, u))
              \/ UNCHANGED vars
    BY <1>6, <1>11 DEF Tick, ApiShows, BindUser, vars, world, rows
  <1> QED
    BY <1>7, <1>8, <1>9, <1>10, <1>11 DEF Next

LEMMA PaidInvariant == Spec => [](TimeInv /\ PaidInv)
  <1>1. Init => TimeInv /\ PaidInv
    BY InitialState, PaidInitially DEF CheckpointInv
  <1>2. (TimeInv /\ PaidInv) /\ [Next]_vars => (TimeInv /\ PaidInv)'
    BY TypeStep, KnownStep, PaidStep DEF TimeInv
  <1> QED
    BY <1>1, <1>2, PTL DEF Spec

\* Whatever webhooks are handled at the same time, no renewal is lost unless
\* its row is written over, by a renewal that had read it before or by the sale
\* approved again: the period runs as many plan durations as were applied.
THEOREM RenewalsAddUp == Spec => []RenewalsAccumulate
  <1>1. PaidInv => RenewalsAccumulate
    BY DEF PaidInv, RowIsPaid, RenewalsAccumulate
  <1> QED
    BY <1>1, PaidInvariant, PTL

\* No subscription runs past what was paid for it, whatever webhooks come
\* twice, late or at the same time.
NeverMoreThanPaid == \A r \in Rows : status[r] # "absent" => periodEnd[r] <= PaidUntil(r[1])

\* However many workers read the same period end at once, they lose renewals
\* and never add one: the period ends no later than what was paid.
THEOREM PeriodsAreNeverGiven == Spec => []NeverMoreThanPaid
  <1>1. PaidInv => NeverMoreThanPaid
    BY DEF PaidInv, RowIsPaid, NeverMoreThanPaid
  <1> QED
    BY <1>1, PaidInvariant, PTL
=============================================================================
