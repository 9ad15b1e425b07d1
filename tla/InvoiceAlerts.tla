----------------------------- MODULE InvoiceAlerts -----------------------------
(***************************************************************************)
(* The reminders of internal/card that an invoice falls due: a daily job   *)
(* lists the cards whose due day is near, publishes an event and remembers *)
(* the reminder in one transaction; a consumer sends the message.          *)
(*                                                                         *)
(* Days are counted from 1.  The job lists by the days of UTC and decides  *)
(* by those of America/Sao_Paulo, which may be one behind.                 *)
(***************************************************************************)
EXTENDS Naturals, Sequences, FiniteSets

CONSTANTS
    InvoiceCards,      \* cards, numbered as they are listed
    CardDueDays,       \* due_day
    MonthLengths,      \* sequence of months
    WindowDays,        \* InvoiceDueWindowDays
    ScanLimit,         \* InvoiceDueScanLimit
    LocalLags,         \* days that the local date may be behind
    CardHosts,         \* workers that run the job
    Couriers,          \* handlers of the event that may run at once
    LastUtcDay, MaxDueEdits, MaxCardFaults  \* bounds

ASSUME InvoiceAssumption ==
    /\ InvoiceCards \subseteq Nat /\ IsFiniteSet(InvoiceCards)
    /\ MonthLengths \in Seq(Nat \ {0}) /\ CardDueDays \subseteq Nat \ {0}
    /\ LocalLags \subseteq {0, 1} /\ WindowDays \in Nat \ {0} /\ ScanLimit \in Nat \ {0}
    /\ LastUtcDay \in Nat \ {0, 1} /\ MaxDueEdits \in Nat /\ MaxCardFaults \in Nat

VARIABLES
    utcDay,
    dueDay, setAt,   \* due day of each card, 0 without one, and the day it was set
    dueEdits,
    dueScan, ran,    \* per host, the job's transaction; hosts whose job ran today
    skipped,         \* history: days on which some host's job did not run
    reminder,        \* card_invoice_alerts_sent by card and date
    dueEvent,        \* outbox events by card and date
    courier,         \* per handler: the event and the step it is at
    delivered,       \* messages the channel took, by card and date
    cardFaults

invoiceVars == <<utcDay, dueDay, setAt, dueEdits, dueScan, ran, skipped, reminder, dueEvent,
                 courier, delivered, cardFaults>>

-----------------------------------------------------------------------------
(* The calendar.                                                            *)

MonthNumbers == 1..Len(MonthLengths)
StartOf[m \in MonthNumbers] == IF m = 1 THEN 1 ELSE StartOf[m - 1] + MonthLengths[m - 1]
Dates == 1..(StartOf[Len(MonthLengths)] + MonthLengths[Len(MonthLengths)] - 1)
MonthAt(d) == CHOOSE m \in MonthNumbers : d \in StartOf[m]..(StartOf[m] + MonthLengths[m] - 1)
DayInMonth(d) == d - StartOf[MonthAt(d)] + 1

\* clamp: a due day that the month does not have is its last day.
DateIn(m, day) ==
    StartOf[m] - 1 + (IF day > MonthLengths[m] THEN MonthLengths[m] ELSE day)

\* Mutant: the next month is not looked at.
DueDateThisMonth(day, today) == DateIn(MonthAt(today), day)

NextDueDate(day, today) ==
    LET date == DateIn(MonthAt(today), day)
    IN  IF date < today THEN DateIn(MonthAt(today) + 1, day) ELSE date

InvoiceKeys == InvoiceCards \X Dates
IdleCourier == [pc |-> "idle", key |-> CHOOSE k \in InvoiceKeys : TRUE]

InvoiceInit ==
    /\ utcDay = 2
    /\ dueDay = [c \in InvoiceCards |-> 0] /\ setAt = [c \in InvoiceCards |-> 0]
    /\ dueEdits = 0
    /\ dueScan = [h \in CardHosts |-> [pc |-> "idle", alerts |-> {}]]
    /\ ran = {} /\ skipped = {}
    /\ reminder = [k \in InvoiceKeys |-> "none"]
    /\ dueEvent = [k \in InvoiceKeys |-> [pending |-> 0, taken |-> 0]]
    /\ courier = [n \in Couriers |-> IdleCourier]
    /\ delivered = [k \in InvoiceKeys |-> 0]
    /\ cardFaults = 0

cardSide == <<dueDay, setAt, dueEdits>>
courierSide == <<dueEvent, courier, delivered>>

InvoiceFault == cardFaults < MaxCardFaults /\ cardFaults' = cardFaults + 1

\* A card is created, its due day changed, or (0) the card deleted.
SetDueDay(c, day) ==
    /\ dueEdits < MaxDueEdits /\ dueDay[c] # day
    /\ dueDay' = [dueDay EXCEPT ![c] = day]
    /\ setAt' = [setAt EXCEPT ![c] = utcDay]
    /\ dueEdits' = dueEdits + 1
    /\ UNCHANGED <<utcDay, dueScan, ran, skipped, reminder, courierSide, cardFaults>>

\* The job takes seconds; a day without it needs a fault.
NextUtcDay ==
    /\ utcDay < LastUtcDay /\ utcDay' = utcDay + 1
    /\ \A h \in CardHosts : dueScan[h].pc = "idle"
    /\ IF ran = CardHosts THEN UNCHANGED <<skipped, cardFaults>>
       ELSE InvoiceFault /\ skipped' = skipped \cup {utcDay}
    /\ ran' = {}
    /\ UNCHANGED <<cardSide, dueScan, reminder, courierSide>>

-----------------------------------------------------------------------------
(* EvaluateInvoiceDueAlerts.                                                *)

\* dueDayWindow: the days of the month, in UTC, one more than the window.
DueDayWindow == {DayInMonth(utcDay + i) : i \in 0..(WindowDays + 1)}

\* The first ScanLimit cards, those already reminded of included.
FindCardsWithInvoiceDueWithin ==
    LET near == {c \in InvoiceCards : dueDay[c] \in DueDayWindow}
    IN  {c \in near : Cardinality({b \in near : b < c}) < ScanLimit}

Decide(today) ==
    {k \in {<<c, NextDueDate(dueDay[c], today)>> : c \in FindCardsWithInvoiceDueWithin} :
        k[2] - today \in 0..WindowDays}

\* ListSentForDueDates
Unsent(found) == {k \in found : reminder[k] = "none"}

Scan(h, lag) ==
    /\ dueScan[h].pc = "idle" /\ h \notin ran
    /\ dueScan' = [dueScan EXCEPT ![h] = [pc |-> "publish", alerts |-> Unsent(Decide(utcDay - lag))]]
    /\ UNCHANGED <<utcDay, cardSide, ran, skipped, reminder, courierSide, cardFaults>>

\* Each alert is published and marked, then the commit.  InsertSent leaves a
\* row that is there alone.
PublishAndPersist(h) ==
    LET found == dueScan[h].alerts
    IN  /\ dueScan[h].pc = "publish"
        /\ dueEvent' = [k \in InvoiceKeys |-> IF k \in found
                            THEN [dueEvent[k] EXCEPT !.pending = @ + 1] ELSE dueEvent[k]]
        /\ reminder' = [k \in InvoiceKeys |->
                            IF k \in Unsent(found) THEN "sent" ELSE reminder[k]]
        /\ dueScan' = [dueScan EXCEPT ![h] = [pc |-> "idle", alerts |-> {}]]
        /\ ran' = ran \cup {h}
        /\ UNCHANGED <<utcDay, cardSide, skipped, courier, delivered, cardFaults>>

\* The transaction rolls back, and the job has had its turn.
ScanFails(h) ==
    /\ dueScan[h].pc = "publish" /\ InvoiceFault
    /\ dueScan' = [dueScan EXCEPT ![h] = [pc |-> "idle", alerts |-> {}]]
    /\ ran' = ran \cup {h} /\ skipped' = skipped \cup {utcDay}
    /\ UNCHANGED <<utcDay, cardSide, reminder, courierSide>>

-----------------------------------------------------------------------------
(* InvoiceDueNotifier and NotifyInvoiceDue.                                 *)

dueJobSide == <<utcDay, cardSide, dueScan, ran, skipped>>
CourierAt(n, pc) == courier' = [courier EXCEPT ![n].pc = pc]

\* The outbox hands out the event.
Receive(n, k) ==
    /\ courier[n].pc = "idle" /\ dueEvent[k].pending > 0
    /\ dueEvent' = [dueEvent EXCEPT ![k] = [pending |-> @.pending - 1, taken |-> @.taken + 1]]
    /\ courier' = [courier EXCEPT ![n] = [pc |-> "check", key |-> k]]
    /\ UNCHANGED <<dueJobSide, reminder, delivered, cardFaults>>

Finish(n) ==
    /\ courier' = [courier EXCEPT ![n] = IdleCourier]
    /\ dueEvent' = [dueEvent EXCEPT ![courier[n].key].taken = IF @ = 0 THEN 0 ELSE @ - 1]

\* A user without a channel is not notified, and the event is done.
CheckNotified(n) ==
    /\ courier[n].pc = "check"
    /\ \/ reminder[courier[n].key] = "sent" /\ CourierAt(n, "mark") /\ UNCHANGED dueEvent
       \/ Finish(n)
    /\ UNCHANGED <<dueJobSide, reminder, delivered, cardFaults>>

\* Mutant: the update does not test notified_at.
MarkNotifiedAnyway(n) ==
    /\ courier[n].pc = "mark"
    /\ reminder' = [reminder EXCEPT ![courier[n].key] = "notified"]
    /\ CourierAt(n, "send")
    /\ UNCHANGED <<dueJobSide, dueEvent, delivered, cardFaults>>

MarkNotified(n) ==
    /\ courier[n].pc = "mark"
    /\ IF reminder[courier[n].key] = "sent"
       THEN /\ reminder' = [reminder EXCEPT ![courier[n].key] = "notified"]
            /\ CourierAt(n, "send") /\ UNCHANGED dueEvent
       ELSE Finish(n) /\ UNCHANGED reminder
    /\ UNCHANGED <<dueJobSide, delivered, cardFaults>>

Send(n) ==
    /\ courier[n].pc = "send"
    /\ delivered' = [delivered EXCEPT ![courier[n].key] = @ + 1]
    /\ Finish(n)
    /\ UNCHANGED <<dueJobSide, reminder, cardFaults>>

\* A call fails or the worker dies: the event comes again, the mark stays, and
\* the channel may have taken the message.
CourierFails(n) ==
    /\ courier[n].pc # "idle" /\ InvoiceFault
    /\ dueEvent' = [dueEvent EXCEPT ![courier[n].key] =
          IF @.taken = 0 THEN @ ELSE [pending |-> @.pending + 1, taken |-> @.taken - 1]]
    /\ courier' = [courier EXCEPT ![n] = IdleCourier]
    /\ \/ UNCHANGED delivered
       \/ /\ courier[n].pc = "send"
          /\ delivered' = [delivered EXCEPT ![courier[n].key] = @ + 1]
    /\ UNCHANGED <<dueJobSide, reminder>>

InvoiceNext ==
    \/ \E c \in InvoiceCards, day \in CardDueDays \cup {0} : SetDueDay(c, day)
    \/ NextUtcDay
    \/ \E h \in CardHosts :
          (\E lag \in LocalLags : Scan(h, lag)) \/ PublishAndPersist(h) \/ ScanFails(h)
    \/ \E n \in Couriers :
          \/ \E k \in InvoiceKeys : Receive(n, k)
          \/ CheckNotified(n) \/ MarkNotified(n) \/ Send(n) \/ CourierFails(n)

InvoiceSpec == InvoiceInit /\ [][InvoiceNext]_invoiceVars

-----------------------------------------------------------------------------
\* The types of the calendar, the table, the events and the handlers.
InvoiceTypeOK ==
    /\ utcDay \in 2..LastUtcDay
    /\ dueDay \in [InvoiceCards -> CardDueDays \cup {0}]
    /\ setAt \in [InvoiceCards -> 0..LastUtcDay] /\ dueEdits \in 0..MaxDueEdits
    /\ dueScan \in [CardHosts -> [pc : {"idle", "publish"}, alerts : SUBSET InvoiceKeys]]
    /\ ran \subseteq CardHosts /\ skipped \subseteq 2..LastUtcDay
    /\ reminder \in [InvoiceKeys -> {"none", "sent", "notified"}]
    /\ dueEvent \in [InvoiceKeys -> [pending : Nat, taken : Nat]]
    /\ courier \in [Couriers -> [pc : {"idle", "check", "mark", "send"}, key : InvoiceKeys]]
    /\ delivered \in [InvoiceKeys -> Nat] /\ cardFaults \in 0..MaxCardFaults

\* Two workers evaluate at the same hour and publish an event each, and events
\* come again; an invoice is announced at most once.
InvoiceAnnouncedOnce ==
    \A k \in InvoiceKeys :
        delivered[k] + Cardinality({n \in Couriers : courier[n].pc = "send" /\ courier[n].key = k}) <= 1

\* The date c falls due on when its due day is in every month.
FallsDue(c, date) ==
    dueDay[c] # 0 /\ dueDay[c] <= MonthLengths[MonthAt(date)] /\ DateIn(MonthAt(date), dueDay[c]) = date

\* No invoice falls due unannounced, across the ends of months and of UTC and
\* local days, if the job ran on a single day of the window after the due day
\* was set.  (Due days that the month does not have are never listed.)
DueInvoicesAreRemembered ==
    [][utcDay' # utcDay =>
        \A c \in InvoiceCards :
            /\ FallsDue(c, utcDay)
            /\ \E d \in 2..utcDay : d + WindowDays > utcDay /\ d > setAt[c] /\ d \notin skipped'
            => reminder[<<c, utcDay>>] # "none"]_invoiceVars
=============================================================================
