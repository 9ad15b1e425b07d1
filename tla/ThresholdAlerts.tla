-------------------------- MODULE ThresholdAlerts --------------------------
(***************************************************************************)
(* The proactive alerts of internal/budgets: an hourly job on every worker  *)
(* compares the categories of an active budget with their ratios, publishes *)
(* an event and remembers the day's alert in one transaction; a consumer    *)
(* sends the message.  One budget; the alert of a category that accumulates *)
(* (metas) is of another kind than the alert of one that is spent.          *)
(***************************************************************************)
EXTENDS Naturals, FiniteSets

CONSTANTS
    SpentCategories, GoalCategories,
    AlertHosts,        \* workers that run the job
    Notifiers,         \* handlers of the notification that may run at once
    MaxRefDays,        \* bound on days
    MaxAlertFaults     \* bound on crashes, failed calls, lost leases and missing channels

ASSUME AlertsAssumption ==
    /\ SpentCategories \cap GoalCategories = {} /\ SpentCategories \cup GoalCategories # {}
    /\ IsFiniteSet(Notifiers)
    /\ MaxRefDays \in Nat \ {0} /\ MaxAlertFaults \in Nat

VARIABLES
    over,          \* categories whose ratio is reached
    refDay,
    scan,          \* per host: the job's transaction
    sentRow,       \* budget_alerts_sent by kind and day
    triggered,     \* outbox events: pending, taken, done
    notifier,      \* per handler: the event and the step it is at
    messages,      \* messages the channel took, by kind and day
    unsent,        \* history: keys given up on, with the reason
    alertFaults

alertsVars == <<over, refDay, scan, sentRow, triggered, notifier, messages, unsent, alertFaults>>

AlertCategories == SpentCategories \cup GoalCategories
Kind(s) == IF s \in GoalCategories THEN "goal_achieved" ELSE "category_threshold"
AlertKeys == {"goal_achieved", "category_threshold"} \X (1..MaxRefDays)
KeyOf(e) == <<Kind(e[1]), e[2]>>
AlertEvents == AlertCategories \X (1..MaxRefDays)
Reasons == {"no channel", "dead letter", "send failed"}
IdleNotifier == [pc |-> "idle", event |-> CHOOSE e \in AlertEvents : TRUE]

AlertsInit ==
    /\ over = {} /\ refDay = 1
    /\ scan = [h \in AlertHosts |-> [pc |-> "idle", alerts |-> {}]]
    /\ sentRow = [k \in AlertKeys |-> "none"]
    /\ triggered = [e \in AlertEvents |-> [pending |-> 0, taken |-> 0]]
    /\ notifier = [n \in Notifiers |-> IdleNotifier]
    /\ messages = [k \in AlertKeys |-> 0]
    /\ unsent = {} /\ alertFaults = 0

notifierSide == <<triggered, notifier, messages, unsent>>

AlertFault ==
    /\ alertFaults < MaxAlertFaults
    /\ alertFaults' = alertFaults + 1

CategoryCrosses(s) ==
    /\ s \notin over /\ over' = over \cup {s}
    /\ UNCHANGED <<refDay, scan, sentRow, notifierSide, alertFaults>>

NextRefDay ==
    /\ refDay < MaxRefDays /\ refDay' = refDay + 1
    /\ UNCHANGED <<over, scan, sentRow, notifierSide, alertFaults>>

-----------------------------------------------------------------------------
(* EvaluateThresholdAlerts.                                                 *)

\* The map of what was sent is not updated inside the loop: two categories of
\* one kind, crossed by the same scan, are two events with one key.
DecideAlerts(day) == {e \in {<<s, day>> : s \in over} : sentRow[KeyOf(e)] = "none"}

\* A scan that decides nothing changes nothing.
Evaluate(h) ==
    /\ scan[h].pc = "idle" /\ DecideAlerts(refDay) # {}
    /\ scan' = [scan EXCEPT ![h] = [pc |-> "publish", alerts |-> DecideAlerts(refDay)]]
    /\ UNCHANGED <<over, refDay, sentRow, notifierSide, alertFaults>>

\* publishAndPersist for each alert, and the commit.  InsertSent leaves a row
\* that is there alone.
publishAndPersist(h) ==
    LET found == scan[h].alerts
    IN  /\ scan[h].pc = "publish"
        /\ triggered' = [e \in AlertEvents |-> IF e \in found
                            THEN [triggered[e] EXCEPT !.pending = @ + 1] ELSE triggered[e]]
        /\ sentRow' = [k \in AlertKeys |-> IF sentRow[k] = "none" /\ \E e \in found : KeyOf(e) = k
                                           THEN "sent" ELSE sentRow[k]]
        /\ scan' = [scan EXCEPT ![h] = [pc |-> "idle", alerts |-> {}]]
        /\ UNCHANGED <<over, refDay, notifier, messages, unsent, alertFaults>>

ScanRollsBack(h) ==
    /\ scan[h].pc = "publish" /\ AlertFault
    /\ scan' = [scan EXCEPT ![h] = [pc |-> "idle", alerts |-> {}]]
    /\ UNCHANGED <<over, refDay, sentRow, notifierSide>>

-----------------------------------------------------------------------------
(* ThresholdAlertNotifier and NotifyThresholdAlert.                         *)

alertSide == <<over, refDay, scan, sentRow>>
At(n) == KeyOf(notifier[n].event)
StepTo(n, pc) == notifier' = [notifier EXCEPT ![n].pc = pc]

Take(n, e) ==
    /\ notifier[n].pc = "idle" /\ triggered[e].pending > 0
    /\ triggered' = [triggered EXCEPT ![e] = [pending |-> @.pending - 1, taken |-> @.taken + 1]]
    /\ notifier' = [notifier EXCEPT ![n] = [pc |-> "check", event |-> e]]
    /\ UNCHANGED <<alertSide, messages, unsent, alertFaults>>

\* The handler is over and the event published, unless its lease was lost.
Done(n) ==
    /\ notifier' = [notifier EXCEPT ![n] = IdleNotifier]
    /\ triggered' = [triggered EXCEPT ![notifier[n].event].taken = IF @ = 0 THEN 0 ELSE @ - 1]

GiveUp(n, why) == unsent' = unsent \cup {<<At(n), why>>}

\* Mutant: any row of the day counts as notified.
IsRemembered(n) ==
    /\ notifier[n].pc = "check"
    /\ IF sentRow[At(n)] = "none" THEN StepTo(n, "mark") /\ UNCHANGED triggered ELSE Done(n)
    /\ UNCHANGED <<alertSide, messages, unsent, alertFaults>>

IsNotified(n) ==
    /\ notifier[n].pc = "check"
    /\ IF sentRow[At(n)] = "sent" THEN StepTo(n, "mark") /\ UNCHANGED triggered ELSE Done(n)
    /\ UNCHANGED <<alertSide, messages, unsent, alertFaults>>

\* The handler of a user without a channel returns nil: the event is published
\* and the row stays as it is.
FindsNoChannel(n) ==
    /\ notifier[n].pc = "check" /\ sentRow[At(n)] = "sent" /\ AlertFault
    /\ Done(n) /\ GiveUp(n, "no channel")
    /\ UNCHANGED <<alertSide, messages>>

\* Mutant: the update does not test notified_at.
MarkAgain(n) ==
    /\ notifier[n].pc = "mark"
    /\ sentRow' = [sentRow EXCEPT ![At(n)] = "notified"]
    /\ StepTo(n, "send")
    /\ UNCHANGED <<over, refDay, scan, triggered, messages, unsent, alertFaults>>

MarkNotified(n) ==
    /\ notifier[n].pc = "mark"
    /\ IF sentRow[At(n)] = "sent"
       THEN /\ sentRow' = [sentRow EXCEPT ![At(n)] = "notified"]
            /\ StepTo(n, "send") /\ UNCHANGED triggered
       ELSE Done(n) /\ UNCHANGED sentRow
    /\ UNCHANGED <<over, refDay, scan, messages, unsent, alertFaults>>

SendText(n) ==
    /\ notifier[n].pc = "send"
    /\ messages' = [messages EXCEPT ![At(n)] = @ + 1]
    /\ Done(n)
    /\ UNCHANGED <<alertSide, unsent, alertFaults>>

\* The event is retried, and a retry finds the row marked; or its attempts are
\* used up and the outbox puts it with the failed ones.
HandlerFails(n) ==
    LET e == notifier[n].event
        copies == triggered[e]
        why == IF notifier[n].pc = "send" THEN "send failed" ELSE "dead letter"
    IN  /\ notifier[n].pc # "idle" /\ AlertFault
        /\ \/ /\ triggered' = [triggered EXCEPT ![e] = IF copies.taken = 0 THEN copies
                                 ELSE [pending |-> copies.pending + 1, taken |-> copies.taken - 1]]
              /\ IF why = "send failed" THEN GiveUp(n, why) ELSE UNCHANGED unsent
           \/ /\ copies.taken > 0
              /\ triggered' = [triggered EXCEPT ![e].taken = @ - 1]
              /\ GiveUp(n, why)
        /\ notifier' = [notifier EXCEPT ![n] = IdleNotifier]
        /\ UNCHANGED <<alertSide, messages>>

\* The event is redelivered while its handler goes on.
LeaseLost(e) ==
    /\ triggered[e].taken > 0 /\ AlertFault
    /\ triggered' = [triggered EXCEPT ![e] = [pending |-> @.pending + 1, taken |-> @.taken - 1]]
    /\ UNCHANGED <<alertSide, notifier, messages, unsent>>

AlertsNext ==
    \/ \E s \in AlertCategories : CategoryCrosses(s)
    \/ NextRefDay
    \/ \E h \in AlertHosts : Evaluate(h) \/ publishAndPersist(h) \/ ScanRollsBack(h)
    \/ \E n \in Notifiers : \/ \E e \in AlertEvents : Take(n, e)
                            \/ IsNotified(n) \/ FindsNoChannel(n)
                            \/ MarkNotified(n) \/ SendText(n) \/ HandlerFails(n)
    \/ \E e \in AlertEvents : LeaseLost(e)

AlertsSpec == AlertsInit /\ [][AlertsNext]_alertsVars

-----------------------------------------------------------------------------
AlertsTypeOK ==
    /\ over \subseteq AlertCategories /\ refDay \in 1..MaxRefDays
    /\ scan \in [AlertHosts -> [pc : {"idle", "publish"}, alerts : SUBSET AlertEvents]]
    /\ sentRow \in [AlertKeys -> {"none", "sent", "notified"}]
    /\ triggered \in [AlertEvents -> [pending : Nat, taken : Nat]]
    /\ notifier \in [Notifiers -> [pc : {"idle", "check", "mark", "send"}, event : AlertEvents]]
    /\ messages \in [AlertKeys -> Nat] /\ unsent \subseteq AlertKeys \X Reasons
    /\ alertFaults \in 0..MaxAlertFaults

Senders(k) == {n \in Notifiers : notifier[n].pc = "send" /\ At(n) = k}

\* Workers scan at the same hour, events are redelivered and handlers outlive
\* their leases; a kind is still announced at most once a day.
NotifiedOnce ==
    \A k \in AlertKeys : messages[k] + Cardinality(Senders(k)) <= 1

\* No alert is forgotten: of a remembered one that nobody marked there is an
\* event or a handler that will, unless a handler found the user without a
\* channel or the outbox gave its event up; and what was marked was sent, is
\* about to be, or failed in the very last step.
RememberedIsSent ==
    \A k \in AlertKeys :
        /\ sentRow[k] = "sent" =>
              \/ \E e \in AlertEvents : KeyOf(e) = k /\ triggered[e].pending > 0
              \/ \E n \in Notifiers : notifier[n].pc \in {"check", "mark"} /\ At(n) = k
              \/ <<k, "no channel">> \in unsent \/ <<k, "dead letter">> \in unsent
        /\ sentRow[k] = "notified" =>
              messages[k] = 1 \/ Senders(k) # {} \/ <<k, "send failed">> \in unsent
=============================================================================
