--------------------------- MODULE BudgetsProofs ---------------------------
(***************************************************************************)
(* Proofs about internal/budgets, for any values of the constants:          *)
(* ThresholdAlerts, that an alert is one message and is not forgotten;      *)
(* Expenses, that deletions are final, that thresholds follow the sum and   *)
(* that the expenses mirror the ledger; Budgets, that what is divided is    *)
(* divided completely.                                                      *)
(***************************************************************************)
EXTENDS ThresholdAlerts, Expenses, Budgets, SumTheorems, SequenceTheorems

Handlers == [pc : {"idle", "check", "mark", "send"}, event : AlertEvents]
Copies == [pending : Nat, taken : Nat]

\* Handlers at an event, whether or not they still hold its lease.
Handling(e) == {n \in Notifiers : notifier[n].pc # "idle" /\ notifier[n].event = e}

\* A message is sent, or about to be, only by the handler that marked the row.
MarkedBySender ==
    \A k \in AlertKeys :
        messages[k] + Cardinality(Senders(k)) <= IF sentRow[k] = "notified" THEN 1 ELSE 0

\* Every lease has its handler.
LeaseHandled == \A e \in AlertEvents : triggered[e].taken <= Cardinality(Handling(e))

\* Nobody will send for it: a handler found no channel, or the event is dead.
GivenUp(k) == <<k, "no channel">> \in unsent \/ <<k, "dead letter">> \in unsent

\* As long as the row is not marked its event is in the outbox.
SentHasEvent ==
    \A k \in AlertKeys : sentRow[k] = "sent" =>
        \/ GivenUp(k)
        \/ \E e \in AlertEvents : KeyOf(e) = k /\ triggered[e].pending + triggered[e].taken > 0

MarkedIsSent ==
    \A k \in AlertKeys :
        sentRow[k] = "notified" =>
            messages[k] = 1 \/ Senders(k) # {} \/ <<k, "send failed">> \in unsent

\* The two outcomes of a handler that fails.
Requeued(n) ==
    LET copies == triggered[notifier[n].event]
    IN  /\ HandlerFails(n)
        /\ triggered' = [triggered EXCEPT ![notifier[n].event] = IF copies.taken = 0 THEN copies
                             ELSE [pending |-> copies.pending + 1, taken |-> copies.taken - 1]]

DeadLettered(n) ==
    /\ HandlerFails(n) /\ triggered[notifier[n].event].taken > 0
    /\ triggered' = [triggered EXCEPT ![notifier[n].event].taken = @ - 1]
    /\ <<At(n), IF notifier[n].pc = "send" THEN "send failed" ELSE "dead letter">> \in unsent'

-----------------------------------------------------------------------------
(* Types.                                                                   *)

LEMMA EventType ==
    /\ \A e \in AlertEvents : KeyOf(e) \in AlertKeys
    /\ IdleNotifier \in Handlers /\ IdleNotifier.pc = "idle"
  <1>1. ASSUME NEW e \in AlertEvents PROVE KeyOf(e) \in AlertKeys
    BY DEF AlertEvents, KeyOf, Kind, AlertKeys
  <1>2. 1 \in 1..MaxRefDays
    BY AlertsAssumption
  <1>3. \E e : e \in AlertEvents
    <2>1. PICK s : s \in AlertCategories
      BY AlertsAssumption DEF AlertCategories
    <2>2. <<s, 1>> \in AlertEvents
      BY <2>1, <1>2 DEF AlertEvents
    <2>3. QED
      BY <2>2
  <1>4. (CHOOSE e \in AlertEvents : TRUE) \in AlertEvents
    BY <1>3
  <1>5. QED
    BY <1>1, <1>4 DEF IdleNotifier, Handlers

LEMMA AlertsInitType == AlertsInit => AlertsTypeOK
  <1> SUFFICES ASSUME AlertsInit PROVE AlertsTypeOK
    OBVIOUS
  <1>1. /\ over \subseteq AlertCategories /\ refDay \in 1..MaxRefDays
        /\ alertFaults \in 0..MaxAlertFaults
    BY AlertsAssumption DEF AlertsInit
  <1>2. notifier \in [Notifiers -> Handlers]
    BY EventType DEF AlertsInit
  <1>3. QED
    BY <1>1, <1>2 DEF AlertsInit, AlertsTypeOK, Handlers

LEMMA ScanType ==
    ASSUME AlertsTypeOK, NEW h \in AlertHosts, Evaluate(h) \/ ScanRollsBack(h) \/ publishAndPersist(h)
    PROVE  AlertsTypeOK'
  <1>1. DecideAlerts(refDay) \subseteq AlertEvents
    BY DEF AlertsTypeOK, DecideAlerts, AlertEvents
  <1>2. CASE Evaluate(h)
    <2>1. scan' \in [AlertHosts -> [pc : {"idle", "publish"}, alerts : SUBSET AlertEvents]]
      BY <1>1, <1>2 DEF Evaluate, AlertsTypeOK
    <2>2. QED
      BY <2>1, <1>2 DEF Evaluate, AlertsTypeOK, notifierSide
  <1>3. CASE ScanRollsBack(h)
    <2>1. scan' \in [AlertHosts -> [pc : {"idle", "publish"}, alerts : SUBSET AlertEvents]]
      BY <1>3 DEF ScanRollsBack, AlertsTypeOK
    <2>2. alertFaults' \in 0..MaxAlertFaults
      BY <1>3, AlertsAssumption DEF ScanRollsBack, AlertFault, AlertsTypeOK
    <2>3. QED
      BY <2>1, <2>2, <1>3 DEF ScanRollsBack, AlertsTypeOK, notifierSide
  <1>4. CASE publishAndPersist(h)
    <2>1. scan' \in [AlertHosts -> [pc : {"idle", "publish"}, alerts : SUBSET AlertEvents]]
      BY <1>4 DEF publishAndPersist, AlertsTypeOK
    <2>2. sentRow' \in [AlertKeys -> {"none", "sent", "notified"}]
      BY <1>4 DEF publishAndPersist, AlertsTypeOK
    <2>3. triggered' \in [AlertEvents -> [pending : Nat, taken : Nat]]
      <3>1. ASSUME NEW e \in AlertEvents
            PROVE  /\ [triggered[e] EXCEPT !.pending = @ + 1] \in [pending : Nat, taken : Nat]
                   /\ triggered[e] \in [pending : Nat, taken : Nat]
        BY DEF AlertsTypeOK
      <3>2. QED
        BY <3>1, <1>4 DEF publishAndPersist
    <2>4. QED
      BY <2>1, <2>2, <2>3, <1>4 DEF publishAndPersist, AlertsTypeOK
  <1>5. QED
    BY <1>2, <1>3, <1>4

\* One handler moves: to its next step with its event, to a new event, or to rest.
LEMMA HandlerSteps ==
    ASSUME AlertsTypeOK, NEW n \in Notifiers
    PROVE  /\ \A pc \in {"check", "mark", "send"} : StepTo(n, pc) =>
                 /\ notifier' \in [Notifiers -> Handlers]
                 /\ notifier'[n].pc = pc /\ notifier'[n].event = notifier[n].event
                 /\ \A m \in Notifiers \ {n} : notifier'[m] = notifier[m]
           /\ notifier' = [notifier EXCEPT ![n] = IdleNotifier] =>
                 /\ notifier' \in [Notifiers -> Handlers] /\ notifier'[n].pc = "idle"
                 /\ \A m \in Notifiers \ {n} : notifier'[m] = notifier[m]
           /\ notifier[n] \in Handlers /\ notifier[n].event \in AlertEvents /\ At(n) \in AlertKeys
  <1>1. notifier \in [Notifiers -> Handlers]
    BY DEF AlertsTypeOK, Handlers
  <1>2. /\ notifier[n] \in Handlers /\ notifier[n].event \in AlertEvents /\ At(n) \in AlertKeys
    BY <1>1, EventType DEF Handlers, At
  <1>3. ASSUME NEW pc \in {"check", "mark", "send"}, StepTo(n, pc)
        PROVE  /\ notifier' \in [Notifiers -> Handlers]
               /\ notifier'[n].pc = pc /\ notifier'[n].event = notifier[n].event
               /\ \A m \in Notifiers \ {n} : notifier'[m] = notifier[m]
    <2> DEFINE rec == [notifier[n] EXCEPT !.pc = pc]
    <2>1. rec \in Handlers /\ rec.pc = pc /\ rec.event = notifier[n].event
      BY <1>2 DEF Handlers
    <2>2. notifier' = [notifier EXCEPT ![n] = rec]
      BY <1>3 DEF StepTo
    <2>3. QED
      BY <2>1, <2>2, <1>1
  <1>4. ASSUME notifier' = [notifier EXCEPT ![n] = IdleNotifier]
        PROVE  /\ notifier' \in [Notifiers -> Handlers] /\ notifier'[n].pc = "idle"
               /\ \A m \in Notifiers \ {n} : notifier'[m] = notifier[m]
    BY <1>1, <1>4, EventType
  <1>5. QED
    BY <1>2, <1>3, <1>4

LEMMA DoneType ==
    ASSUME AlertsTypeOK, NEW n \in Notifiers, Done(n)
    PROVE  /\ notifier' \in [Notifiers -> Handlers]
           /\ triggered' \in [AlertEvents -> Copies]
           /\ \A e \in AlertEvents :
                 /\ triggered'[e].pending = triggered[e].pending
                 /\ e # notifier[n].event => triggered'[e] = triggered[e]
                 /\ e = notifier[n].event =>
                       triggered'[e].taken = IF triggered[e].taken = 0 THEN 0 ELSE triggered[e].taken - 1
  <1> DEFINE f == notifier[n].event
             rec == [triggered[f] EXCEPT !.taken = IF @ = 0 THEN 0 ELSE @ - 1]
  <1>1. f \in AlertEvents /\ triggered \in [AlertEvents -> Copies] /\ triggered[f] \in Copies
    BY HandlerSteps DEF AlertsTypeOK, Copies
  <1>2. /\ rec \in Copies /\ rec.pending = triggered[f].pending
        /\ rec.taken = IF triggered[f].taken = 0 THEN 0 ELSE triggered[f].taken - 1
    BY <1>1 DEF Copies
  <1>3. triggered' = [triggered EXCEPT ![f] = rec]
    BY DEF Done
  <1> HIDE DEF rec
  <1>4. /\ triggered' \in [AlertEvents -> Copies] /\ triggered'[f] = rec
        /\ \A e \in AlertEvents : e # f => triggered'[e] = triggered[e]
    BY <1>1, <1>2, <1>3
  <1>5. notifier' \in [Notifiers -> Handlers]
    BY HandlerSteps DEF Done
  <1>6. QED
    BY <1>2, <1>4, <1>5

\* What a step of handler n does to the events.
LEMMA CopiesMove ==
    ASSUME AlertsTypeOK, NEW e \in AlertEvents,
           \/ \E n \in Notifiers : Take(n, e)
           \/ LeaseLost(e)
           \/ \E n \in Notifiers : Requeued(n) /\ notifier[n].event = e
    PROVE  /\ triggered' \in [AlertEvents -> Copies]
           /\ \A f \in AlertEvents \ {e} : triggered'[f] = triggered[f]
           /\ triggered'[e].pending + triggered'[e].taken = triggered[e].pending + triggered[e].taken
           /\ \A n \in Notifiers : Take(n, e) => triggered'[e].taken = triggered[e].taken + 1
           /\ (LeaseLost(e) \/ \E n \in Notifiers : Requeued(n) /\ notifier[n].event = e) =>
                 triggered'[e].taken = IF triggered[e].taken = 0 THEN 0 ELSE triggered[e].taken - 1
  <1> DEFINE p == triggered[e].pending
             t == triggered[e].taken
             up == [pending |-> p + 1, taken |-> t - 1]
             down == [pending |-> p - 1, taken |-> t + 1]
  <1>1. p \in Nat /\ t \in Nat /\ triggered \in [AlertEvents -> Copies]
    BY DEF AlertsTypeOK, Copies
  <1>0. alertFaults # alertFaults + 1
    BY AlertsAssumption DEF AlertsTypeOK
  <1>2. CASE \E n \in Notifiers : Take(n, e)
    <2>1. triggered' = [triggered EXCEPT ![e] = down] /\ p > 0
      BY <1>2 DEF Take
    <2>2. down \in Copies /\ down.pending + down.taken = p + t
      BY <1>1, <2>1 DEF Copies
    <2>3. /\ triggered'[e] = down /\ triggered' \in [AlertEvents -> Copies]
          /\ \A f \in AlertEvents \ {e} : triggered'[f] = triggered[f]
      BY <2>1, <2>2, <1>1
    <2>4. ~LeaseLost(e) /\ \A n \in Notifiers : ~(Requeued(n) /\ notifier[n].event = e)
      BY <1>0, <1>2 DEF Take, LeaseLost, Requeued, HandlerFails, AlertFault
    <2>5. QED
      BY <2>2, <2>3, <2>4
  <1>3. CASE LeaseLost(e) \/ \E n \in Notifiers : Requeued(n) /\ notifier[n].event = e
    <2>1. triggered' = [triggered EXCEPT ![e] = IF t = 0 THEN triggered[e] ELSE up]
      <3>1. CASE LeaseLost(e)
        <4>1. t # 0 /\ triggered' = [triggered EXCEPT ![e] = up]
          BY <3>1, <1>1 DEF LeaseLost
        <4>2. QED
          BY <4>1
      <3>2. ASSUME NEW n \in Notifiers, Requeued(n), notifier[n].event = e
            PROVE  triggered' = [triggered EXCEPT ![e] = IF t = 0 THEN triggered[e] ELSE up]
        BY <3>2 DEF Requeued
      <3>3. QED
        BY <1>3, <3>1, <3>2
    <2>2. ASSUME t # 0 PROVE up \in Copies /\ up.pending + up.taken = p + t
      BY <1>1, <2>2 DEF Copies
    <2>3. /\ triggered'[e] = IF t = 0 THEN triggered[e] ELSE up
          /\ \A f \in AlertEvents \ {e} : triggered'[f] = triggered[f]
          /\ triggered' \in [AlertEvents -> Copies]
      BY <2>1, <2>2, <1>1
    <2>4. \A n \in Notifiers : ~Take(n, e)
      BY <1>0, <1>3 DEF Take, LeaseLost, Requeued, HandlerFails, AlertFault
    <2>5. CASE t = 0
      BY <2>3, <2>4, <2>5
    <2>6. CASE t # 0
      BY <2>2, <2>3, <2>4, <2>6
    <2>7. QED
      BY <2>5, <2>6
  <1>4. QED
    BY <1>2, <1>3

\* An event whose attempts are used up is handled no more.
LEMMA DeadCopies ==
    ASSUME AlertsTypeOK, NEW n \in Notifiers, DeadLettered(n)
    PROVE  /\ triggered' \in [AlertEvents -> Copies]
           /\ \A e \in AlertEvents :
                 /\ triggered'[e].pending = triggered[e].pending
                 /\ e # notifier[n].event => triggered'[e] = triggered[e]
                 /\ e = notifier[n].event => triggered'[e].taken = triggered[e].taken - 1
  <1> DEFINE f == notifier[n].event
             rec == [triggered[f] EXCEPT !.taken = @ - 1]
  <1>1. /\ f \in AlertEvents /\ triggered \in [AlertEvents -> Copies] /\ triggered[f] \in Copies
        /\ triggered[f].taken > 0
    BY HandlerSteps DEF AlertsTypeOK, Copies, DeadLettered
  <1>2. /\ rec \in Copies /\ rec.pending = triggered[f].pending
        /\ rec.taken = triggered[f].taken - 1
    BY <1>1 DEF Copies
  <1>3. triggered' = [triggered EXCEPT ![f] = rec]
    BY DEF DeadLettered
  <1> HIDE DEF rec
  <1>4. /\ triggered' \in [AlertEvents -> Copies] /\ triggered'[f] = rec
        /\ \A e \in AlertEvents : e # f => triggered'[e] = triggered[e]
    BY <1>1, <1>2, <1>3
  <1>5. QED
    BY <1>2, <1>4

LEMMA FailureIs ==
    ASSUME AlertsTypeOK, NEW n \in Notifiers, HandlerFails(n)
    PROVE  /\ Requeued(n) \/ DeadLettered(n)
           /\ notifier[n].pc # "idle" /\ notifier' = [notifier EXCEPT ![n] = IdleNotifier]
           /\ UNCHANGED <<over, refDay, scan, sentRow, messages>>
           /\ alertFaults' \in 0..MaxAlertFaults
           /\ unsent \subseteq unsent' /\ unsent' \subseteq AlertKeys \X Reasons
           /\ notifier[n].pc = "send" => <<At(n), "send failed">> \in unsent'
  <1>1. At(n) \in AlertKeys
    BY HandlerSteps
  <1>2. alertFaults' \in 0..MaxAlertFaults
    <2>1. AlertFault
      BY DEF HandlerFails
    <2>2. QED
      BY <2>1, AlertsAssumption DEF AlertFault, AlertsTypeOK
  <1>3. \/ unsent' = unsent /\ notifier[n].pc # "send"
        \/ unsent' = unsent \cup {<<At(n), "send failed">>}
        \/ unsent' = unsent \cup {<<At(n), "dead letter">>} /\ notifier[n].pc # "send"
    BY DEF HandlerFails, GiveUp
  <1>4. /\ unsent \subseteq unsent' /\ unsent' \subseteq AlertKeys \X Reasons
        /\ notifier[n].pc = "send" => <<At(n), "send failed">> \in unsent'
    <2>1. \A why \in {"send failed", "dead letter"} : <<At(n), why>> \in AlertKeys \X Reasons
      BY <1>1 DEF Reasons
    <2>2. unsent \subseteq AlertKeys \X Reasons
      BY DEF AlertsTypeOK
    <2>3. QED
      BY <1>3, <2>1, <2>2
  <1>5. Requeued(n) \/ DeadLettered(n)
    BY DEF Requeued, DeadLettered, HandlerFails, GiveUp
  <1>6. QED
    BY <1>2, <1>4, <1>5 DEF HandlerFails, alertSide

LEMMA NotifierType ==
    ASSUME AlertsTypeOK, NEW n \in Notifiers,
           \/ \E e \in AlertEvents : Take(n, e)
           \/ IsNotified(n)
           \/ FindsNoChannel(n)
           \/ MarkNotified(n)
           \/ SendText(n)
           \/ HandlerFails(n)
    PROVE  AlertsTypeOK'
  <1>1. \A e \in AlertEvents : Take(n, e) => [pc |-> "check", event |-> e] \in Handlers
    BY DEF Handlers
  <1>2. notifier \in [Notifiers -> Handlers] /\ triggered \in [AlertEvents -> Copies]
    BY DEF AlertsTypeOK, Handlers, Copies
  <1>3. /\ notifier' \in [Notifiers -> Handlers] /\ triggered' \in [AlertEvents -> Copies]
        /\ sentRow' \in [AlertKeys -> {"none", "sent", "notified"}]
        /\ messages' \in [AlertKeys -> Nat] /\ unsent' \subseteq AlertKeys \X Reasons
        /\ alertFaults' \in 0..MaxAlertFaults /\ UNCHANGED <<over, refDay, scan>>
    <2>1. ASSUME NEW e \in AlertEvents, Take(n, e)
          PROVE  /\ notifier' \in [Notifiers -> Handlers] /\ triggered' \in [AlertEvents -> Copies]
                 /\ UNCHANGED <<sentRow, messages, unsent, alertFaults, over, refDay, scan>>
      <3>1. triggered' \in [AlertEvents -> Copies]
        BY <2>1, CopiesMove
      <3>2. notifier' = [notifier EXCEPT ![n] = [pc |-> "check", event |-> e]]
        BY <2>1 DEF Take
      <3>3. QED
        BY <2>1, <3>1, <3>2, <1>1, <1>2 DEF Take, alertSide
    <2>2. CASE IsNotified(n)
      <3>1. \/ StepTo(n, "mark") /\ triggered' = triggered
            \/ Done(n)
        BY <2>2 DEF IsNotified
      <3>2. notifier' \in [Notifiers -> Handlers] /\ triggered' \in [AlertEvents -> Copies]
        BY <3>1, <1>2, HandlerSteps, DoneType
      <3>3. QED
        BY <2>2, <3>2 DEF IsNotified, alertSide, AlertsTypeOK
    <2>3. CASE MarkNotified(n)
      <3>1. \/ StepTo(n, "send") /\ triggered' = triggered
            \/ Done(n)
        BY <2>3 DEF MarkNotified
      <3>2. notifier' \in [Notifiers -> Handlers] /\ triggered' \in [AlertEvents -> Copies]
        BY <3>1, <1>2, HandlerSteps, DoneType
      <3>3. sentRow' \in [AlertKeys -> {"none", "sent", "notified"}]
        BY <2>3 DEF MarkNotified, AlertsTypeOK
      <3>4. QED
        BY <2>3, <3>2, <3>3 DEF MarkNotified, AlertsTypeOK
    <2>4. CASE SendText(n)
      <3>1. notifier' \in [Notifiers -> Handlers] /\ triggered' \in [AlertEvents -> Copies]
        BY <2>4, DoneType DEF SendText
      <3>2. messages' \in [AlertKeys -> Nat]
        <4>1. At(n) \in AlertKeys /\ messages \in [AlertKeys -> Nat]
          BY HandlerSteps DEF AlertsTypeOK
        <4>2. messages' = [messages EXCEPT ![At(n)] = messages[At(n)] + 1]
          BY <2>4 DEF SendText
        <4>3. messages[At(n)] + 1 \in Nat
          BY <4>1
        <4>4. QED
          BY <4>1, <4>2, <4>3
      <3>3. QED
        BY <2>4, <3>1, <3>2 DEF SendText, alertSide, AlertsTypeOK
    <2>5. CASE HandlerFails(n)
      <3>1. triggered' \in [AlertEvents -> Copies]
        BY <2>5, HandlerSteps, CopiesMove, DeadCopies, FailureIs
      <3>2. notifier' \in [Notifiers -> Handlers]
        BY <2>5, HandlerSteps, FailureIs
      <3>3. QED
        BY <2>5, <3>1, <3>2, FailureIs DEF AlertsTypeOK
    <2>6. CASE FindsNoChannel(n)
      <3>1. notifier' \in [Notifiers -> Handlers] /\ triggered' \in [AlertEvents -> Copies]
        BY <2>6, DoneType DEF FindsNoChannel
      <3>2. alertFaults' \in 0..MaxAlertFaults
        <4>1. AlertFault
          BY <2>6 DEF FindsNoChannel
        <4>2. QED
          BY <4>1, AlertsAssumption DEF AlertFault, AlertsTypeOK
      <3>3. unsent' \subseteq AlertKeys \X Reasons
        <4>1. unsent' = unsent \cup {<<At(n), "no channel">>}
          BY <2>6 DEF FindsNoChannel, GiveUp
        <4>2. <<At(n), "no channel">> \in AlertKeys \X Reasons
          BY HandlerSteps DEF Reasons
        <4>3. QED
          BY <4>1, <4>2 DEF AlertsTypeOK
      <3>4. QED
        BY <2>6, <3>1, <3>2, <3>3 DEF FindsNoChannel, alertSide, AlertsTypeOK
    <2>7. QED
      BY <2>1, <2>2, <2>3, <2>4, <2>5, <2>6 DEF AlertsTypeOK
  <1>4. QED
    BY <1>3 DEF AlertsTypeOK, Handlers, Copies

LEMMA AlertsNextType == AlertsTypeOK /\ [AlertsNext]_alertsVars => AlertsTypeOK'
  <1> SUFFICES ASSUME AlertsTypeOK, [AlertsNext]_alertsVars PROVE AlertsTypeOK'
    OBVIOUS
  <1>1. ASSUME NEW s \in AlertCategories, CategoryCrosses(s) PROVE AlertsTypeOK'
    BY <1>1 DEF CategoryCrosses, AlertsTypeOK, notifierSide
  <1>2. ASSUME NextRefDay PROVE AlertsTypeOK'
    <2>1. refDay' \in 1..MaxRefDays
      BY <1>2, AlertsAssumption DEF NextRefDay, AlertsTypeOK
    <2>2. QED
      BY <1>2, <2>1 DEF NextRefDay, AlertsTypeOK, notifierSide
  <1>3. ASSUME NEW e \in AlertEvents, LeaseLost(e) PROVE AlertsTypeOK'
    <2>1. triggered' \in [AlertEvents -> [pending : Nat, taken : Nat]]
      BY <1>3, CopiesMove DEF Copies
    <2>2. alertFaults' \in 0..MaxAlertFaults
      BY <1>3, AlertsAssumption DEF LeaseLost, AlertFault, AlertsTypeOK
    <2>3. QED
      BY <1>3, <2>1, <2>2 DEF LeaseLost, AlertsTypeOK, alertSide
  <1>4. ASSUME UNCHANGED alertsVars PROVE AlertsTypeOK'
    BY <1>4 DEF alertsVars, AlertsTypeOK
  <1>5. QED
    BY <1>1, <1>2, <1>3, <1>4, ScanType, NotifierType DEF AlertsNext

\* The job, the sent rows, the events and their handlers are of their types.
THEOREM AlertsTypeCorrect == AlertsSpec => []AlertsTypeOK
  BY AlertsInitType, AlertsNextType, PTL DEF AlertsSpec

-----------------------------------------------------------------------------
(* The steps of the job, the budget and the clock.                          *)

AlertsInv == AlertsTypeOK /\ MarkedBySender /\ LeaseHandled /\ SentHasEvent /\ MarkedIsSent

LEMMA NumbersOf ==
    ASSUME AlertsTypeOK
    PROVE  /\ \A e \in AlertEvents : triggered[e].pending \in Nat /\ triggered[e].taken \in Nat
           /\ \A k \in AlertKeys : messages[k] \in Nat /\ sentRow[k] \in {"none", "sent", "notified"}
  BY DEF AlertsTypeOK

LEMMA HandlersFinite ==
    ASSUME NEW x
    PROVE  /\ IsFiniteSet(Handling(x)) /\ IsFiniteSet(Senders(x))
           /\ IsFiniteSet(Handling(x)') /\ IsFiniteSet(Senders(x)')
           /\ Cardinality(Handling(x)) \in Nat /\ Cardinality(Senders(x)) \in Nat
           /\ Cardinality(Handling(x)') \in Nat /\ Cardinality(Senders(x)') \in Nat
  <1>1. /\ Handling(x) \subseteq Notifiers /\ Senders(x) \subseteq Notifiers
        /\ Handling(x)' \subseteq Notifiers /\ Senders(x)' \subseteq Notifiers
    BY DEF Handling, Senders
  <1>2. /\ IsFiniteSet(Handling(x)) /\ IsFiniteSet(Senders(x))
        /\ IsFiniteSet(Handling(x)') /\ IsFiniteSet(Senders(x)')
    BY <1>1, AlertsAssumption, FS_Subset
  <1>3. QED
    BY <1>2, FS_CardinalityType

\* A step that moves no handler and marks no row, loses no event and adds no lease.
LEMMA UnhandledStep ==
    ASSUME AlertsInv, AlertsTypeOK', UNCHANGED <<notifier, messages, unsent>>,
           \A k \in AlertKeys : /\ sentRow'[k] = "notified" <=> sentRow[k] = "notified"
                                /\ sentRow'[k] = "sent" => \/ sentRow[k] = "sent"
                                      \/ \E e \in AlertEvents : /\ KeyOf(e) = k
                                            /\ triggered'[e].pending > 0,
           \A e \in AlertEvents : /\ triggered'[e].taken <= triggered[e].taken
                                  /\ triggered'[e].pending + triggered'[e].taken >=
                                        triggered[e].pending + triggered[e].taken
    PROVE  AlertsInv'
  <1>1. \A x : Handling(x)' = Handling(x) /\ Senders(x)' = Senders(x)
    BY DEF Handling, Senders, At, KeyOf, Kind
  <1>2. MarkedBySender'
    BY <1>1 DEF AlertsInv, MarkedBySender
  <1>3. LeaseHandled'
    <2> SUFFICES ASSUME NEW e \in AlertEvents PROVE triggered'[e].taken <= Cardinality(Handling(e))
      BY <1>1 DEF LeaseHandled
    <2>1. triggered[e].taken <= Cardinality(Handling(e)) /\ triggered'[e].taken <= triggered[e].taken
      BY DEF AlertsInv, LeaseHandled
    <2>2. /\ triggered[e].taken \in Nat /\ triggered'[e].taken \in Nat
          /\ Cardinality(Handling(e)) \in Nat
      BY HandlersFinite DEF AlertsInv, AlertsTypeOK
    <2>3. QED
      BY <2>1, <2>2
  <1>4. SentHasEvent'
    <2> SUFFICES ASSUME NEW k \in AlertKeys, sentRow'[k] = "sent", ~GivenUp(k)
                 PROVE  \E e \in AlertEvents :
                           KeyOf(e) = k /\ triggered'[e].pending + triggered'[e].taken > 0
      BY DEF SentHasEvent, GivenUp, KeyOf, Kind
    <2>1. \A e \in AlertEvents : /\ triggered'[e].pending \in Nat /\ triggered'[e].taken \in Nat
                                 /\ triggered[e].pending \in Nat /\ triggered[e].taken \in Nat
      BY DEF AlertsInv, AlertsTypeOK
    <2>2. CASE sentRow[k] = "sent"
      <3>1. PICK e \in AlertEvents : KeyOf(e) = k /\ triggered[e].pending + triggered[e].taken > 0
        BY <2>2 DEF AlertsInv, SentHasEvent
      <3>2. triggered'[e].pending + triggered'[e].taken >= triggered[e].pending + triggered[e].taken
        OBVIOUS
      <3>3. triggered'[e].pending + triggered'[e].taken > 0
        BY <2>1, <3>1, <3>2
      <3>4. QED
        BY <3>1, <3>3
    <2>3. CASE \E e \in AlertEvents : KeyOf(e) = k /\ triggered'[e].pending > 0
      <3>1. PICK e \in AlertEvents : KeyOf(e) = k /\ triggered'[e].pending > 0
        BY <2>3
      <3>2. triggered'[e].pending + triggered'[e].taken > 0
        BY <2>1, <3>1
      <3>3. QED
        BY <3>1, <3>2
    <2>4. QED
      BY <2>2, <2>3
  <1>5. MarkedIsSent'
    BY <1>1 DEF AlertsInv, MarkedIsSent
  <1>6. QED
    BY <1>2, <1>3, <1>4, <1>5 DEF AlertsInv

LEMMA PublishStep ==
    ASSUME AlertsInv, AlertsTypeOK', NEW h \in AlertHosts, publishAndPersist(h)
    PROVE  AlertsInv'
  <1> DEFINE found == scan[h].alerts
  <1>1. /\ UNCHANGED <<notifier, messages, unsent>>
        /\ triggered' = [e \in AlertEvents |-> IF e \in found
                            THEN [triggered[e] EXCEPT !.pending = @ + 1] ELSE triggered[e]]
        /\ sentRow' = [k \in AlertKeys |-> IF sentRow[k] = "none" /\ \E e \in found : KeyOf(e) = k
                                           THEN "sent" ELSE sentRow[k]]
    BY DEF publishAndPersist
  <1>2. found \subseteq AlertEvents
    BY DEF AlertsInv, AlertsTypeOK
  <1>3. ASSUME NEW e \in AlertEvents
        PROVE  /\ triggered'[e].taken = triggered[e].taken /\ triggered[e].taken \in Nat
               /\ triggered[e].pending \in Nat
               /\ triggered'[e].pending = IF e \in found THEN triggered[e].pending + 1
                                          ELSE triggered[e].pending
    <2>1. triggered[e] \in [pending : Nat, taken : Nat]
      BY DEF AlertsInv, AlertsTypeOK
    <2>2. triggered'[e] = IF e \in found THEN [triggered[e] EXCEPT !.pending = @ + 1] ELSE triggered[e]
      BY <1>1
    <2>3. QED
      BY <2>1, <2>2
  <1>4. \A e \in AlertEvents : /\ triggered'[e].taken <= triggered[e].taken
                               /\ triggered'[e].pending + triggered'[e].taken >=
                                     triggered[e].pending + triggered[e].taken
                               /\ e \in found => triggered'[e].pending > 0
    BY <1>3
  <1>5. ASSUME NEW k \in AlertKeys
        PROVE  /\ sentRow'[k] = "notified" <=> sentRow[k] = "notified"
               /\ sentRow'[k] = "sent" => \/ sentRow[k] = "sent"
                     \/ \E e \in AlertEvents : KeyOf(e) = k /\ triggered'[e].pending > 0
    <2>1. sentRow'[k] = IF sentRow[k] = "none" /\ \E e \in found : KeyOf(e) = k
                        THEN "sent" ELSE sentRow[k]
      BY <1>1
    <2>2. QED
      BY <2>1, <1>2, <1>4
  <1>6. QED
    BY <1>1, <1>4, <1>5, UnhandledStep

LEMMA OtherStep ==
    ASSUME AlertsInv, AlertsTypeOK',
           \/ \E s \in AlertCategories : CategoryCrosses(s)
           \/ NextRefDay
           \/ \E h \in AlertHosts : Evaluate(h) \/ ScanRollsBack(h)
           \/ \E e \in AlertEvents : LeaseLost(e)
           \/ UNCHANGED alertsVars
    PROVE  AlertsInv'
  <1>1. UNCHANGED <<notifier, messages, unsent, sentRow>>
    BY DEF CategoryCrosses, NextRefDay, Evaluate, ScanRollsBack, LeaseLost, alertsVars, notifierSide, alertSide
  <1>2. \A e \in AlertEvents : /\ triggered'[e].taken <= triggered[e].taken
                               /\ triggered'[e].pending + triggered'[e].taken >=
                                     triggered[e].pending + triggered[e].taken
    <2>1. CASE triggered' = triggered
      BY <2>1, NumbersOf DEF AlertsInv
    <2>2. ASSUME NEW f \in AlertEvents, LeaseLost(f)
          PROVE  \A e \in AlertEvents : /\ triggered'[e].taken <= triggered[e].taken
                               /\ triggered'[e].pending + triggered'[e].taken >=
                                     triggered[e].pending + triggered[e].taken
      <3>1. /\ \A e \in AlertEvents \ {f} : triggered'[e] = triggered[e]
            /\ triggered'[f].pending + triggered'[f].taken = triggered[f].pending + triggered[f].taken
            /\ triggered'[f].taken = IF triggered[f].taken = 0 THEN 0 ELSE triggered[f].taken - 1
        BY <2>2, CopiesMove DEF AlertsInv
      <3>2. \A e \in AlertEvents : triggered[e].pending \in Nat /\ triggered[e].taken \in Nat
        BY NumbersOf DEF AlertsInv
      <3>3. triggered'[f].taken <= triggered[f].taken
        BY <3>1, <3>2
      <3>4. triggered'[f].pending + triggered'[f].taken >= triggered[f].pending + triggered[f].taken
        BY <3>1, <3>2
      <3>5. QED
        BY <3>1, <3>2, <3>3, <3>4
    <2>3. QED
      BY <2>1, <2>2 DEF CategoryCrosses, NextRefDay, Evaluate, ScanRollsBack, alertsVars, notifierSide
  <1>3. QED
    BY <1>1, <1>2, UnhandledStep

-----------------------------------------------------------------------------
(* The steps of the handlers.                                               *)

LEMMA CardStep ==
    ASSUME NEW S, NEW T, NEW n, IsFiniteSet(S), IsFiniteSet(T), S \ {n} = T \ {n}
    PROVE  /\ Cardinality(S) \in Nat /\ Cardinality(T) \in Nat
           /\ n \in S /\ n \notin T => Cardinality(T) = Cardinality(S) - 1
           /\ n \notin S /\ n \in T => Cardinality(T) = Cardinality(S) + 1
           /\ (n \in S) = (n \in T) => T = S
  <1>1. Cardinality(S) \in Nat /\ Cardinality(T) \in Nat
    BY FS_CardinalityType
  <1>2. ASSUME n \in S, n \notin T PROVE Cardinality(T) = Cardinality(S) - 1
    <2>1. T = S \ {n}
      BY <1>2
    <2>2. QED
      BY <2>1, <1>2, FS_RemoveElement
  <1>3. ASSUME n \notin S, n \in T PROVE Cardinality(T) = Cardinality(S) + 1
    <2>1. T = S \cup {n}
      BY <1>3
    <2>2. QED
      BY <2>1, <1>3, FS_AddElement
  <1>4. QED
    BY <1>1, <1>2, <1>3

LEMMA HandlerFrame ==
    ASSUME NEW n \in Notifiers, \A m \in Notifiers \ {n} : notifier'[m] = notifier[m], NEW x
    PROVE  /\ Handling(x) \ {n} = Handling(x)' \ {n}
           /\ Senders(x) \ {n} = Senders(x)' \ {n}
           /\ n \in Handling(x) <=> notifier[n].pc # "idle" /\ notifier[n].event = x
           /\ n \in Handling(x)' <=> notifier'[n].pc # "idle" /\ notifier'[n].event = x
           /\ n \in Senders(x) <=> notifier[n].pc = "send" /\ At(n) = x
           /\ n \in Senders(x)' <=> notifier'[n].pc = "send" /\ At(n)' = x
  BY DEF Handling, Senders, At, KeyOf, Kind

\* A handler that rests gives back a lease, unless it had lost it.
LEMMA RestHandled ==
    ASSUME AlertsInv, NEW n \in Notifiers,
           \A m \in Notifiers \ {n} : notifier'[m] = notifier[m],
           notifier[n].pc # "idle", notifier'[n].pc = "idle",
           \A e \in AlertEvents :
              triggered'[e].taken = IF e = notifier[n].event /\ triggered[e].taken # 0
                                    THEN triggered[e].taken - 1 ELSE triggered[e].taken
    PROVE  LeaseHandled'
  <1> SUFFICES ASSUME NEW e \in AlertEvents PROVE triggered'[e].taken <= Cardinality(Handling(e)')
    BY DEF LeaseHandled
  <1>1. /\ triggered[e].taken \in Nat /\ triggered[e].taken <= Cardinality(Handling(e))
    BY NumbersOf DEF AlertsInv, LeaseHandled
  <1>2. /\ Handling(e) \ {n} = Handling(e)' \ {n} /\ n \notin Handling(e)'
        /\ n \in Handling(e) <=> notifier[n].event = e
    BY HandlerFrame
  <1>3. CASE e = notifier[n].event
    <2>1. /\ Cardinality(Handling(e)') = Cardinality(Handling(e)) - 1
          /\ Cardinality(Handling(e)') \in Nat /\ Cardinality(Handling(e)) \in Nat
      BY <1>2, <1>3, HandlersFinite, CardStep
    <2>2. triggered'[e].taken = IF triggered[e].taken # 0 THEN triggered[e].taken - 1
                                ELSE triggered[e].taken
      BY <1>3
    <2>3. QED
      BY <1>1, <2>1, <2>2
  <1>4. CASE e # notifier[n].event
    <2>1. triggered'[e].taken = triggered[e].taken
      BY <1>4
    <2>2. n \notin Handling(e)
      BY <1>2, <1>4
    <2>3. Handling(e)' = Handling(e)
      <3>1. Handling(e) \ {n} = Handling(e)' \ {n} /\ n \notin Handling(e)'
        BY <1>2
      <3>2. QED
        BY <3>1, <2>2
    <2>4. QED
      BY <1>1, <2>1, <2>3
  <1>5. QED
    BY <1>3, <1>4

\* What the end of a handler does when the row it is at is not waiting for it.
LEMMA DoneStep ==
    ASSUME AlertsInv, NEW n \in Notifiers, notifier[n].pc # "idle", Done(n),
           sentRow' = sentRow, unsent \subseteq unsent',
           \A k \in AlertKeys : k = At(n) /\ sentRow[k] = "sent" => GivenUp(k)'
    PROVE  LeaseHandled' /\ SentHasEvent'
  <1>1. /\ \A m \in Notifiers \ {n} : notifier'[m] = notifier[m]
        /\ notifier'[n].pc = "idle" /\ notifier[n].event \in AlertEvents
    BY HandlerSteps DEF Done, AlertsInv
  <1>2. \A e \in AlertEvents :
           /\ triggered'[e].pending = triggered[e].pending
           /\ e # notifier[n].event => triggered'[e] = triggered[e]
           /\ e = notifier[n].event =>
                 triggered'[e].taken = IF triggered[e].taken = 0 THEN 0 ELSE triggered[e].taken - 1
    BY DoneType DEF AlertsInv
  <1>3. \A e \in AlertEvents :
           triggered'[e].taken = IF e = notifier[n].event /\ triggered[e].taken # 0
                                 THEN triggered[e].taken - 1 ELSE triggered[e].taken
    BY <1>2
  <1>4. LeaseHandled'
    BY <1>1, <1>3, RestHandled
  <1>5. SentHasEvent'
    <2> SUFFICES ASSUME NEW k \in AlertKeys, sentRow[k] = "sent", ~GivenUp(k)'
                 PROVE  \E e \in AlertEvents :
                           KeyOf(e) = k /\ triggered'[e].pending + triggered'[e].taken > 0
      BY DEF SentHasEvent, KeyOf, Kind
    <2>0. ~GivenUp(k)
      BY DEF GivenUp
    <2>1. PICK e \in AlertEvents : KeyOf(e) = k /\ triggered[e].pending + triggered[e].taken > 0
      BY <2>0 DEF AlertsInv, SentHasEvent
    <2>2. e # notifier[n].event
      BY <2>1 DEF At
    <2>3. QED
      BY <2>1, <2>2, <1>2
  <1>6. QED
    BY <1>4, <1>5

\* A handler that goes on keeps its event.
LEMMA GoesOn ==
    ASSUME AlertsInv, NEW n \in Notifiers, NEW pc \in {"check", "mark", "send"},
           notifier[n].pc # "idle", StepTo(n, pc), triggered' = triggered, unsent' = unsent,
           \A k \in AlertKeys : sentRow'[k] = "sent" => sentRow[k] = "sent"
    PROVE  LeaseHandled' /\ SentHasEvent'
  <1>1. /\ notifier'[n].pc = pc /\ notifier'[n].event = notifier[n].event
        /\ \A m \in Notifiers \ {n} : notifier'[m] = notifier[m]
    BY HandlerSteps DEF AlertsInv
  <1>2. \A e : Handling(e)' = Handling(e)
    <2> SUFFICES ASSUME NEW e PROVE Handling(e)' = Handling(e)
      OBVIOUS
    <2>1. Handling(e) \ {n} = Handling(e)' \ {n} /\ (n \in Handling(e) <=> n \in Handling(e)')
      BY <1>1, HandlerFrame
    <2>2. QED
      BY <2>1
  <1>3. LeaseHandled'
    BY <1>2 DEF AlertsInv, LeaseHandled
  <1>4. SentHasEvent'
    BY DEF AlertsInv, SentHasEvent, GivenUp, KeyOf, Kind
  <1>5. QED
    BY <1>3, <1>4

\* Steps that neither mark a row nor send, by a handler that is not sending.
LEMMA NothingSent ==
    ASSUME AlertsInv, NEW n \in Notifiers, UNCHANGED <<sentRow, messages>>,
           unsent \subseteq unsent',
           \A m \in Notifiers \ {n} : notifier'[m] = notifier[m],
           notifier[n].pc # "send", notifier'[n].pc # "send"
    PROVE  MarkedBySender' /\ MarkedIsSent'
  <1>1. \A k : Senders(k)' = Senders(k)
    <2> SUFFICES ASSUME NEW k PROVE Senders(k)' = Senders(k)
      OBVIOUS
    <2>1. Senders(k) \ {n} = Senders(k)' \ {n} /\ n \notin Senders(k) /\ n \notin Senders(k)'
      BY HandlerFrame
    <2>2. QED
      BY <2>1
  <1>2. QED
    BY <1>1 DEF AlertsInv, MarkedBySender, MarkedIsSent

LEMMA TakeStep ==
    ASSUME AlertsInv, AlertsTypeOK', NEW n \in Notifiers, NEW e \in AlertEvents, Take(n, e)
    PROVE  AlertsInv'
  <1> DEFINE rec == [pc |-> "check", event |-> e]
  <1>1. /\ notifier[n].pc = "idle" /\ notifier' = [notifier EXCEPT ![n] = rec]
        /\ UNCHANGED <<sentRow, messages, unsent>>
    BY DEF Take, alertSide
  <1>2. /\ notifier'[n] = rec /\ \A m \in Notifiers \ {n} : notifier'[m] = notifier[m]
    BY <1>1 DEF AlertsInv, AlertsTypeOK
  <1>3. notifier'[n].pc = "check" /\ notifier'[n].event = e
    BY <1>2
  <1>4. /\ \A f \in AlertEvents \ {e} : triggered'[f] = triggered[f]
        /\ triggered'[e].pending + triggered'[e].taken = triggered[e].pending + triggered[e].taken
        /\ triggered'[e].taken = triggered[e].taken + 1
    BY CopiesMove DEF AlertsInv
  <1>5. MarkedBySender' /\ MarkedIsSent'
    BY <1>1, <1>2, <1>3, NothingSent
  <1>6. LeaseHandled'
    <2> SUFFICES ASSUME NEW f \in AlertEvents PROVE triggered'[f].taken <= Cardinality(Handling(f)')
      BY DEF LeaseHandled
    <2>1. /\ Handling(f) \ {n} = Handling(f)' \ {n} /\ n \notin Handling(f)
          /\ n \in Handling(f)' <=> f = e
      BY <1>1, <1>2, <1>3, HandlerFrame
    <2>2. triggered[f].taken \in Nat /\ triggered[f].taken <= Cardinality(Handling(f))
      BY NumbersOf DEF AlertsInv, LeaseHandled
    <2>3. CASE f = e
      <3>1. /\ Cardinality(Handling(f)') = Cardinality(Handling(f)) + 1
            /\ Cardinality(Handling(f)) \in Nat
        BY <2>1, <2>3, HandlersFinite, CardStep
      <3>2. triggered'[f].taken = triggered[f].taken + 1
        BY <2>3, <1>4
      <3>3. QED
        BY <2>2, <3>1, <3>2
    <2>4. CASE f # e
      <3>1. Handling(f)' = Handling(f) /\ triggered'[f] = triggered[f]
        BY <2>1, <2>4, <1>4
      <3>2. QED
        BY <2>2, <3>1
    <2>5. QED
      BY <2>3, <2>4
  <1>7. SentHasEvent'
    <2>1. \A f \in AlertEvents : triggered'[f].pending + triggered'[f].taken
                                    = triggered[f].pending + triggered[f].taken
      BY <1>4
    <2>2. QED
      BY <1>1, <2>1 DEF AlertsInv, SentHasEvent, GivenUp, KeyOf, Kind
  <1>8. QED
    BY <1>5, <1>6, <1>7 DEF AlertsInv

LEMMA IsNotifiedStep ==
    ASSUME AlertsInv, AlertsTypeOK', NEW n \in Notifiers, IsNotified(n)
    PROVE  AlertsInv'
  <1>1. /\ notifier[n].pc = "check" /\ UNCHANGED <<sentRow, messages, unsent>>
        /\ \/ StepTo(n, "mark") /\ triggered' = triggered
           \/ sentRow[At(n)] # "sent" /\ Done(n)
    BY DEF IsNotified, alertSide
  <1>2. CASE StepTo(n, "mark") /\ triggered' = triggered
    <2>1. LeaseHandled' /\ SentHasEvent'
      BY <1>1, <1>2, GoesOn
    <2>2. notifier'[n].pc = "mark" /\ \A m \in Notifiers \ {n} : notifier'[m] = notifier[m]
      BY <1>2, HandlerSteps DEF AlertsInv
    <2>3. MarkedBySender' /\ MarkedIsSent'
      BY <1>1, <2>2, NothingSent
    <2>4. QED
      BY <2>1, <2>3 DEF AlertsInv
  <1>3. CASE sentRow[At(n)] # "sent" /\ Done(n)
    <2>1. LeaseHandled' /\ SentHasEvent'
      BY <1>1, <1>3, DoneStep
    <2>2. notifier'[n].pc = "idle" /\ \A m \in Notifiers \ {n} : notifier'[m] = notifier[m]
      BY <1>3, HandlerSteps DEF AlertsInv, Done
    <2>3. MarkedBySender' /\ MarkedIsSent'
      BY <1>1, <2>2, NothingSent
    <2>4. QED
      BY <2>1, <2>3 DEF AlertsInv
  <1>4. QED
    BY <1>1, <1>2, <1>3

LEMMA NoChannelStep ==
    ASSUME AlertsInv, AlertsTypeOK', NEW n \in Notifiers, FindsNoChannel(n)
    PROVE  AlertsInv'
  <1>1. /\ notifier[n].pc = "check" /\ Done(n) /\ UNCHANGED <<sentRow, messages>>
        /\ unsent' = unsent \cup {<<At(n), "no channel">>}
    BY DEF FindsNoChannel, GiveUp, alertSide
  <1>2. \A k \in AlertKeys : k = At(n) => GivenUp(k)'
    BY <1>1 DEF GivenUp
  <1>3. LeaseHandled' /\ SentHasEvent'
    BY <1>1, <1>2, DoneStep
  <1>4. notifier'[n].pc = "idle" /\ \A m \in Notifiers \ {n} : notifier'[m] = notifier[m]
    BY <1>1, HandlerSteps DEF AlertsInv, Done
  <1>5. MarkedBySender' /\ MarkedIsSent'
    BY <1>1, <1>4, NothingSent
  <1>6. QED
    BY <1>3, <1>5 DEF AlertsInv

LEMMA MarkStep ==
    ASSUME AlertsInv, AlertsTypeOK', NEW n \in Notifiers, MarkNotified(n)
    PROVE  AlertsInv'
  <1>1. /\ notifier[n].pc = "mark" /\ UNCHANGED <<messages, unsent>>
        /\ \/ /\ sentRow[At(n)] = "sent" /\ sentRow' = [sentRow EXCEPT ![At(n)] = "notified"]
              /\ StepTo(n, "send") /\ triggered' = triggered
           \/ sentRow[At(n)] # "sent" /\ Done(n) /\ sentRow' = sentRow
    BY DEF MarkNotified
  <1>2. CASE /\ sentRow[At(n)] = "sent" /\ sentRow' = [sentRow EXCEPT ![At(n)] = "notified"]
             /\ StepTo(n, "send") /\ triggered' = triggered
    <2>1. At(n) \in AlertKeys /\ sentRow \in [AlertKeys -> {"none", "sent", "notified"}]
      BY HandlerSteps DEF AlertsInv, AlertsTypeOK
    <2>2. \A k \in AlertKeys : sentRow'[k] = IF k = At(n) THEN "notified" ELSE sentRow[k]
      BY <1>2, <2>1
    <2>3. \A k \in AlertKeys : sentRow'[k] = "sent" => sentRow[k] = "sent"
      BY <2>2
    <2>4. LeaseHandled' /\ SentHasEvent'
      BY <1>1, <1>2, <2>3, GoesOn
    <2>5. /\ notifier'[n].pc = "send" /\ notifier'[n].event = notifier[n].event
          /\ \A m \in Notifiers \ {n} : notifier'[m] = notifier[m]
      BY <1>2, HandlerSteps DEF AlertsInv
    <2>6. At(n)' = At(n)
      BY <2>5 DEF At, KeyOf, Kind
    <2>7. \A k \in AlertKeys : /\ Senders(k) \ {n} = Senders(k)' \ {n} /\ n \notin Senders(k)
                               /\ n \in Senders(k)' <=> k = At(n)
      BY <1>1, <2>5, <2>6, HandlerFrame
    <2>8. MarkedBySender'
      <3> SUFFICES ASSUME NEW k \in AlertKeys
                   PROVE  messages[k] + Cardinality(Senders(k)') <=
                             IF sentRow'[k] = "notified" THEN 1 ELSE 0
        BY <1>1 DEF MarkedBySender
      <3>1. messages[k] + Cardinality(Senders(k)) <= IF sentRow[k] = "notified" THEN 1 ELSE 0
        BY DEF AlertsInv, MarkedBySender
      <3>2. messages[k] \in Nat
        BY NumbersOf DEF AlertsInv
      <3>3. CASE k = At(n)
        <4>1. Cardinality(Senders(k)') = Cardinality(Senders(k)) + 1 /\ Cardinality(Senders(k)) \in Nat
          BY <3>3, <2>7, HandlersFinite, CardStep
        <4>2. sentRow'[k] = "notified" /\ sentRow[k] # "notified"
          BY <3>3, <2>2, <1>2
        <4>3. messages[k] + Cardinality(Senders(k)) <= 0
          BY <3>1, <4>2
        <4>4. messages[k] + Cardinality(Senders(k)') <= 1
          BY <4>1, <4>3, <3>2
        <4>5. QED
          BY <4>2, <4>4
      <3>4. CASE k # At(n)
        <4>1. Senders(k)' = Senders(k) /\ sentRow'[k] = sentRow[k]
          BY <3>4, <2>2, <2>7
        <4>2. QED
          BY <3>1, <4>1
      <3>5. QED
        BY <3>3, <3>4
    <2>9. MarkedIsSent'
      <3> SUFFICES ASSUME NEW k \in AlertKeys, sentRow'[k] = "notified"
                   PROVE  messages[k] = 1 \/ Senders(k)' # {} \/ <<k, "send failed">> \in unsent
        BY <1>1 DEF MarkedIsSent
      <3>1. CASE k = At(n)
        BY <3>1, <2>7
      <3>2. CASE k # At(n)
        <4>1. Senders(k)' = Senders(k) /\ sentRow[k] = "notified"
          BY <3>2, <2>2, <2>7
        <4>2. QED
          BY <4>1 DEF AlertsInv, MarkedIsSent
      <3>3. QED
        BY <3>1, <3>2
    <2>10. QED
      BY <2>4, <2>8, <2>9 DEF AlertsInv
  <1>3. CASE sentRow[At(n)] # "sent" /\ Done(n) /\ sentRow' = sentRow
    <2>1. LeaseHandled' /\ SentHasEvent'
      BY <1>1, <1>3, DoneStep
    <2>2. notifier'[n].pc = "idle" /\ \A m \in Notifiers \ {n} : notifier'[m] = notifier[m]
      BY <1>3, HandlerSteps DEF AlertsInv, Done
    <2>3. MarkedBySender' /\ MarkedIsSent'
      BY <1>1, <1>3, <2>2, NothingSent
    <2>4. QED
      BY <2>1, <2>3 DEF AlertsInv
  <1>4. QED
    BY <1>1, <1>2, <1>3

\* A sender holds the only right to send: nothing was sent under its key.
LEMMA SenderIsAlone ==
    ASSUME AlertsInv, NEW n \in Notifiers, notifier[n].pc = "send"
    PROVE  /\ sentRow[At(n)] = "notified" /\ messages[At(n)] = 0
           /\ Cardinality(Senders(At(n))) = 1 /\ n \in Senders(At(n))
  <1> DEFINE k == At(n)
  <1>1. k \in AlertKeys /\ n \in Senders(k)
    BY HandlerSteps DEF AlertsInv, Senders
  <1>2. Cardinality(Senders(k)) \in Nat /\ Cardinality(Senders(k)) # 0
    BY <1>1, HandlersFinite, FS_EmptySet
  <1>3. messages[k] \in Nat /\ messages[k] + Cardinality(Senders(k)) <= IF sentRow[k] = "notified" THEN 1 ELSE 0
    BY <1>1, NumbersOf DEF AlertsInv, MarkedBySender
  <1>4. sentRow[k] = "notified"
    BY <1>2, <1>3
  <1>5. messages[k] + Cardinality(Senders(k)) <= 1
    BY <1>3, <1>4
  <1>6. messages[k] = 0 /\ Cardinality(Senders(k)) = 1
    BY <1>2, <1>3, <1>5
  <1>7. QED
    BY <1>1, <1>4, <1>6

LEMMA SendStep ==
    ASSUME AlertsInv, AlertsTypeOK', NEW n \in Notifiers, SendText(n)
    PROVE  AlertsInv'
  <1>1. /\ notifier[n].pc = "send" /\ Done(n) /\ UNCHANGED <<sentRow, unsent>>
        /\ messages' = [messages EXCEPT ![At(n)] = messages[At(n)] + 1]
    BY DEF SendText, alertSide
  <1> PICK sent \in AlertKeys : sent = At(n)
    BY HandlerSteps DEF AlertsInv
  <1>2. sentRow[sent] = "notified" /\ messages[sent] = 0 /\ Cardinality(Senders(sent)) = 1
    BY <1>1, SenderIsAlone
  <1>3. LeaseHandled' /\ SentHasEvent'
    BY <1>1, <1>2, DoneStep
  <1>4. notifier'[n].pc = "idle" /\ \A m \in Notifiers \ {n} : notifier'[m] = notifier[m]
    BY <1>1, HandlerSteps DEF AlertsInv, Done
  <1>5. \A k \in AlertKeys : /\ Senders(k) \ {n} = Senders(k)' \ {n} /\ n \notin Senders(k)'
                             /\ n \in Senders(k) <=> sent = k
    BY <1>1, <1>4, HandlerFrame
  <1>6. \A k \in AlertKeys : messages'[k] = IF k = sent THEN 1 ELSE messages[k]
    BY <1>1, <1>2 DEF AlertsInv, AlertsTypeOK
  <1>7. Cardinality(Senders(sent)') = 0
    <2>1. Cardinality(Senders(sent)') = Cardinality(Senders(sent)) - 1
      BY <1>5, HandlersFinite, CardStep
    <2>2. QED
      BY <2>1, <1>2
  <1>8. ASSUME NEW k \in AlertKeys, k # sent PROVE Senders(k)' = Senders(k)
    <2>1. Senders(k) \ {n} = Senders(k)' \ {n} /\ n \notin Senders(k)' /\ n \notin Senders(k)
      BY <1>5, <1>8
    <2>2. QED
      BY <2>1
  <1>9. MarkedBySender'
    <2> SUFFICES ASSUME NEW k \in AlertKeys
                 PROVE  messages'[k] + Cardinality(Senders(k)') <=
                           IF sentRow[k] = "notified" THEN 1 ELSE 0
      BY <1>1 DEF MarkedBySender
    <2>1. CASE k = sent
      <3>1. messages'[k] = 1 /\ Cardinality(Senders(k)') = 0 /\ sentRow[k] = "notified"
        BY <2>1, <1>2, <1>6, <1>7
      <3>2. QED
        BY <3>1
    <2>2. CASE k # sent
      <3>1. messages'[k] = messages[k] /\ Senders(k)' = Senders(k)
        BY <2>2, <1>6, <1>8
      <3>2. QED
        BY <3>1 DEF AlertsInv, MarkedBySender
    <2>3. QED
      BY <2>1, <2>2
  <1>10. MarkedIsSent'
    <2> SUFFICES ASSUME NEW k \in AlertKeys, sentRow[k] = "notified"
                 PROVE  messages'[k] = 1 \/ Senders(k)' # {} \/ <<k, "send failed">> \in unsent
      BY <1>1 DEF MarkedIsSent
    <2>1. CASE k = sent
      BY <2>1, <1>6
    <2>2. CASE k # sent
      <3>1. messages'[k] = messages[k] /\ Senders(k)' = Senders(k)
        BY <2>2, <1>6, <1>8
      <3>2. QED
        BY <3>1 DEF AlertsInv, MarkedIsSent
    <2>3. QED
      BY <2>1, <2>2
  <1>11. QED
    BY <1>3, <1>9, <1>10 DEF AlertsInv

LEMMA FailStep ==
    ASSUME AlertsInv, AlertsTypeOK', NEW n \in Notifiers, HandlerFails(n)
    PROVE  AlertsInv'
  <1>1. /\ notifier[n].pc # "idle" /\ notifier' = [notifier EXCEPT ![n] = IdleNotifier]
        /\ UNCHANGED <<sentRow, messages>> /\ unsent \subseteq unsent'
        /\ notifier[n].pc = "send" => <<At(n), "send failed">> \in unsent'
        /\ Requeued(n) \/ DeadLettered(n)
    BY FailureIs DEF AlertsInv
  <1>2. notifier'[n].pc = "idle" /\ \A m \in Notifiers \ {n} : notifier'[m] = notifier[m]
    BY <1>1, HandlerSteps DEF AlertsInv
  <1> PICK f \in AlertEvents : f = notifier[n].event
    BY HandlerSteps DEF AlertsInv
  <1>3. /\ \A e \in AlertEvents \ {f} : triggered'[e] = triggered[e]
        /\ Requeued(n) => triggered'[f].pending + triggered'[f].taken
                              = triggered[f].pending + triggered[f].taken
        /\ triggered'[f].taken = IF triggered[f].taken = 0 THEN 0 ELSE triggered[f].taken - 1
    <2>1. triggered[f].taken \in Nat
      BY NumbersOf DEF AlertsInv
    <2>2. CASE Requeued(n)
      BY <2>2, CopiesMove DEF AlertsInv
    <2>3. CASE DeadLettered(n)
      <3>1. triggered[f].taken > 0
        BY <2>3 DEF DeadLettered
      <3>2. QED
        BY <2>1, <2>2, <2>3, <3>1, DeadCopies DEF AlertsInv
    <2>4. QED
      BY <1>1, <2>2, <2>3
  <1>4. LeaseHandled'
    <2>1. \A e \in AlertEvents :
             triggered'[e].taken = IF e = notifier[n].event /\ triggered[e].taken # 0
                                   THEN triggered[e].taken - 1 ELSE triggered[e].taken
      BY <1>3
    <2>2. QED
      BY <1>1, <1>2, <2>1, RestHandled
  <1>5. SentHasEvent'
    <2>1. CASE Requeued(n)
      <3>1. \A e \in AlertEvents : triggered'[e].pending + triggered'[e].taken
                                      = triggered[e].pending + triggered[e].taken
        BY <1>3, <2>1
      <3>2. QED
        BY <1>1, <3>1 DEF AlertsInv, SentHasEvent, GivenUp, KeyOf, Kind
    <2>2. CASE DeadLettered(n)
      <3> SUFFICES ASSUME NEW k \in AlertKeys, sentRow[k] = "sent", ~GivenUp(k)'
                   PROVE  \E e \in AlertEvents :
                             KeyOf(e) = k /\ triggered'[e].pending + triggered'[e].taken > 0
        BY <1>1 DEF SentHasEvent, KeyOf, Kind
      <3>1. ~GivenUp(k)
        BY <1>1 DEF GivenUp
      <3>2. k # At(n)
        <4>1. ASSUME k = At(n) PROVE FALSE
          <5>1. notifier[n].pc # "send"
            BY <4>1, SenderIsAlone
          <5>2. <<k, "dead letter">> \in unsent'
            BY <2>2, <4>1, <5>1 DEF DeadLettered
          <5>3. QED
            BY <5>2 DEF GivenUp
        <4>2. QED
          BY <4>1
      <3>3. PICK e \in AlertEvents : KeyOf(e) = k /\ triggered[e].pending + triggered[e].taken > 0
        BY <3>1 DEF AlertsInv, SentHasEvent
      <3>4. e # f
        BY <3>2, <3>3 DEF At
      <3>5. QED
        BY <1>3, <3>3, <3>4
    <2>3. QED
      BY <1>1, <2>1, <2>2
  <1>6. ASSUME NEW k \in AlertKeys, ~(notifier[n].pc = "send" /\ At(n) = k)
        PROVE  Senders(k)' = Senders(k)
    <2>1. Senders(k) \ {n} = Senders(k)' \ {n} /\ n \notin Senders(k)' /\ n \notin Senders(k)
      BY <1>2, <1>6, HandlerFrame
    <2>2. QED
      BY <2>1
  <1>7. MarkedBySender'
    <2> SUFFICES ASSUME NEW k \in AlertKeys
                 PROVE  messages[k] + Cardinality(Senders(k)') <=
                           IF sentRow[k] = "notified" THEN 1 ELSE 0
      BY <1>1 DEF MarkedBySender
    <2>1. messages[k] + Cardinality(Senders(k)) <= IF sentRow[k] = "notified" THEN 1 ELSE 0
      BY DEF AlertsInv, MarkedBySender
    <2>2. CASE notifier[n].pc = "send" /\ At(n) = k
      <3>1. Senders(k) \ {n} = Senders(k)' \ {n} /\ n \notin Senders(k)' /\ n \in Senders(k)
        BY <1>2, <2>2, HandlerFrame
      <3>2. /\ Cardinality(Senders(k)') = Cardinality(Senders(k)) - 1
            /\ Cardinality(Senders(k)) = 1 /\ messages[k] = 0 /\ sentRow[k] = "notified"
        BY <3>1, <2>2, HandlersFinite, CardStep, SenderIsAlone
      <3>3. messages[k] + Cardinality(Senders(k)') <= 1
        BY <3>2
      <3>4. QED
        BY <3>2, <3>3
    <2>3. CASE ~(notifier[n].pc = "send" /\ At(n) = k)
      BY <2>1, <2>3, <1>6
    <2>4. QED
      BY <2>2, <2>3
  <1>8. MarkedIsSent'
    <2> SUFFICES ASSUME NEW k \in AlertKeys, sentRow[k] = "notified"
                 PROVE  messages[k] = 1 \/ Senders(k)' # {} \/ <<k, "send failed">> \in unsent'
      BY <1>1 DEF MarkedIsSent
    <2>1. CASE notifier[n].pc = "send" /\ At(n) = k
      BY <2>1, <1>1
    <2>2. CASE ~(notifier[n].pc = "send" /\ At(n) = k)
      <3>1. Senders(k)' = Senders(k) /\ unsent \subseteq unsent'
        BY <2>2, <1>1, <1>6
      <3>2. QED
        BY <3>1 DEF AlertsInv, MarkedIsSent
    <2>3. QED
      BY <2>1, <2>2
  <1>9. QED
    BY <1>4, <1>5, <1>7, <1>8 DEF AlertsInv

-----------------------------------------------------------------------------
LEMMA AlertsInitInv == AlertsInit => AlertsInv
  <1> SUFFICES ASSUME AlertsInit PROVE AlertsInv
    OBVIOUS
  <1>1. AlertsTypeOK
    BY AlertsInitType
  <1>2. \A k \in AlertKeys : sentRow[k] = "none" /\ messages[k] = 0
    BY DEF AlertsInit
  <1>3. \A k : Senders(k) = {}
    BY EventType DEF AlertsInit, Senders
  <1>4. MarkedBySender
    <2>1. \A k \in AlertKeys : Cardinality(Senders(k)) = 0
      BY <1>3, FS_EmptySet
    <2>2. QED
      BY <1>2, <2>1 DEF MarkedBySender
  <1>5. LeaseHandled
    <2>1. \A e \in AlertEvents : triggered[e].taken = 0
      BY DEF AlertsInit
    <2>2. QED
      BY <2>1, HandlersFinite DEF LeaseHandled
  <1>6. SentHasEvent /\ MarkedIsSent
    BY <1>2 DEF SentHasEvent, MarkedIsSent
  <1>7. QED
    BY <1>1, <1>4, <1>5, <1>6 DEF AlertsInv

LEMMA AlertsNextInv == AlertsInv /\ [AlertsNext]_alertsVars => AlertsInv'
  <1> SUFFICES ASSUME AlertsInv, [AlertsNext]_alertsVars PROVE AlertsInv'
    OBVIOUS
  <1>1. AlertsTypeOK'
    BY AlertsNextType DEF AlertsInv
  <1>2. QED
    BY <1>1, OtherStep, PublishStep, TakeStep, IsNotifiedStep, NoChannelStep, MarkStep, SendStep, FailStep
       DEF AlertsNext

\* Workers scan at the same time, events are redelivered, handlers outlive
\* their leases: an alert is announced at most once a day.
THEOREM AlertsSentOnce == AlertsSpec => []NotifiedOnce
  <1>1. AlertsInv => NotifiedOnce
    <2> SUFFICES ASSUME AlertsInv, NEW k \in AlertKeys
                 PROVE  messages[k] + Cardinality(Senders(k)) <= 1
      BY DEF NotifiedOnce
    <2>1. messages[k] + Cardinality(Senders(k)) <= IF sentRow[k] = "notified" THEN 1 ELSE 0
      BY DEF AlertsInv, MarkedBySender
    <2>2. messages[k] \in Nat /\ Cardinality(Senders(k)) \in Nat
      BY NumbersOf, HandlersFinite DEF AlertsInv
    <2>3. CASE sentRow[k] = "notified"
      BY <2>1, <2>3
    <2>4. CASE sentRow[k] # "notified"
      <3>1. messages[k] + Cardinality(Senders(k)) <= 0
        BY <2>1, <2>4
      <3>2. QED
        BY <3>1, <2>2
    <2>5. QED
      BY <2>3, <2>4
  <1>2. QED
    BY AlertsInitInv, AlertsNextInv, <1>1, PTL DEF AlertsSpec

\* An alert the job remembered is in the outbox, with a handler or sent, unless
\* its handler found the user without a channel (NotifyThresholdAlert ends with
\* nil and leaves the row unmarked), the outbox used up its attempts, or the send
\* after its mark failed.
THEOREM AlertsNotForgotten == AlertsSpec => []RememberedIsSent
  <1>1. AlertsInv => RememberedIsSent
    <2> SUFFICES ASSUME AlertsInv, NEW k \in AlertKeys
                 PROVE  /\ sentRow[k] = "sent" =>
                             \/ \E e \in AlertEvents : KeyOf(e) = k /\ triggered[e].pending > 0
                             \/ \E n \in Notifiers : notifier[n].pc \in {"check", "mark"} /\ At(n) = k
                             \/ GivenUp(k)
                        /\ sentRow[k] = "notified" =>
                             messages[k] = 1 \/ Senders(k) # {} \/ <<k, "send failed">> \in unsent
      BY DEF RememberedIsSent, GivenUp
    <2>1. ASSUME sentRow[k] = "sent", ~GivenUp(k)
          PROVE  \/ \E e \in AlertEvents : KeyOf(e) = k /\ triggered[e].pending > 0
                 \/ \E n \in Notifiers : notifier[n].pc \in {"check", "mark"} /\ At(n) = k
      <3>1. PICK e \in AlertEvents : KeyOf(e) = k /\ triggered[e].pending + triggered[e].taken > 0
        BY <2>1 DEF AlertsInv, SentHasEvent
      <3>2. /\ triggered[e].pending \in Nat /\ triggered[e].taken \in Nat
            /\ triggered[e].taken <= Cardinality(Handling(e)) /\ Cardinality(Handling(e)) \in Nat
        BY NumbersOf, HandlersFinite DEF AlertsInv, LeaseHandled
      <3>3. CASE triggered[e].pending > 0
        BY <3>1, <3>3
      <3>4. CASE ~(triggered[e].pending > 0)
        <4>1. Cardinality(Handling(e)) # 0
          BY <3>1, <3>2, <3>4
        <4>2. Handling(e) # {}
          BY <4>1, FS_EmptySet
        <4>3. PICK n \in Notifiers : notifier[n].pc # "idle" /\ notifier[n].event = e
          BY <4>2 DEF Handling
        <4>4. At(n) = k
          BY <4>3, <3>1 DEF At
        <4>5. notifier[n].pc # "send"
          BY <4>4, <2>1, SenderIsAlone
        <4>6. notifier[n].pc \in {"check", "mark"}
          BY <4>3, <4>5, HandlerSteps DEF AlertsInv, Handlers
        <4>7. QED
          BY <4>4, <4>6
      <3>5. QED
        BY <3>3, <3>4
    <2>2. QED
      BY <2>1 DEF AlertsInv, MarkedIsSent
  <1>2. QED
    BY AlertsInitInv, AlertsNextInv, <1>1, PTL DEF AlertsSpec

-----------------------------------------------------------------------------
(***************************************************************************)
(* Expenses: what one handler may do to the mirror and to the feed.        *)
(***************************************************************************)
ExpenseRows == [state : {"none", "live", "deleted"}, amount : ExpenseAmounts \cup {0}]
Bought == [state : {"none", "live", "deleted"}, amount : ExpenseAmounts \cup {0}, outcome : BOOLEAN]
TxEventTypes == {"created", "updated", "deleted"}

LEMMA NoEventFields ==
    \E t : /\ NoEvent \in [type : {"none"}, tx : {t}, amount : {0}, outcome : {TRUE}, at : {0},
                           retroactive : {FALSE}]
           /\ Txs # {} => t \in Txs
  <1> DEFINE t == CHOOSE x \in Txs : TRUE
  <1>1. Txs # {} => t \in Txs
    OBVIOUS
  <1>2. NoEvent = [type |-> "none", tx |-> t, amount |-> 0, outcome |-> TRUE,
                   at |-> 0, retroactive |-> FALSE]
    BY DEF NoEvent
  <1> HIDE DEF t
  <1> QED
    BY <1>1, <1>2

\* The event of a command that left a transaction as row.
CommandEvent(type, t, row) ==
    [NoEvent EXCEPT !.type = type, !.tx = t, !.amount = row.amount, !.outcome = row.outcome]

LEMMA CommandEventTyped ==
    ASSUME NEW t \in Txs, NEW row \in Bought, NEW type \in TxEventTypes
    PROVE  LET e == CommandEvent(type, t, row)
           IN  /\ e \in FeedEvents
               /\ e.type = type /\ e.tx = t /\ e.amount = row.amount
               /\ e.outcome = row.outcome /\ e.at = 0
  <1>1. row.amount \in ExpenseAmounts \cup {0} /\ row.outcome \in BOOLEAN
    BY DEF Bought
  <1>2. PICK x : NoEvent \in [type : {"none"}, tx : {x}, amount : {0}, outcome : {TRUE}, at : {0},
                              retroactive : {FALSE}]
    BY NoEventFields
  <1>3. 0 \in 0..MaxSeconds
    BY ExpensesAssumption
  <1> QED
    BY <1>1, <1>2, <1>3 DEF FeedEvents, TxEventTypes, CommandEvent

\* Events of expenses committed: one for each, stamped with the current second.
LEMMA CommittedEvents ==
    ASSUME ExpensesTypeOK, NEW n \in Nat, Txs # {}
    PROVE  /\ publishCommitted(n) \in Seq(FeedEvents) /\ Len(publishCommitted(n)) = n
           /\ \A i \in 1..n : /\ publishCommitted(n)[i].type = "committed"
                              /\ publishCommitted(n)[i].at = second
  <1> DEFINE e == [NoEvent EXCEPT !.type = "committed", !.at = second, !.retroactive = monthOver]
  <1>1. PICK x \in Txs : NoEvent \in [type : {"none"}, tx : {x}, amount : {0}, outcome : {TRUE},
                                      at : {0}, retroactive : {FALSE}]
    BY NoEventFields
  <1>2. second \in 0..MaxSeconds /\ monthOver \in BOOLEAN
    BY ExpensesAssumption DEF ExpensesTypeOK
  <1>3. e \in FeedEvents /\ e.type = "committed" /\ e.at = second
    BY <1>1, <1>2 DEF FeedEvents
  <1>4. publishCommitted(n) = [i \in 1..n |-> e]
    BY DEF publishCommitted
  <1> HIDE DEF e
  <1> QED
    BY <1>3, <1>4

\* The rows an event may touch are finitely many, and rows.
LEMMA KeysTouched ==
    ASSUME NEW t \in Txs
    PROVE  /\ TxKey(t) \in ExpenseKeys /\ IsFiniteSet({TxKey(t)})
           /\ t \in CreditTxs => Items(t) \subseteq ExpenseKeys
           /\ \A S \in SUBSET Items(t) : IsFiniteSet(S)
           /\ \A u \in Txs : TxKey(u) \notin Items(t) /\ (TxKey(u) = TxKey(t) => u = t)
  <1>1. IsFiniteSet(Items(t))
    <2> DEFINE f == [i \in 1..Parts |-> <<"card", t, i>>]
    <2>1. f \in Surjection(1..Parts, Items(t))
      BY DEF Surjection, Items
    <2>2. IsFiniteSet(1..Parts)
      BY FS_Interval, ExpensesAssumption
    <2> QED
      BY <2>1, <2>2, FS_Surjection DEF ExistsSurjection
  <1>2. \A S \in SUBSET Items(t) : IsFiniteSet(S)
    BY <1>1, FS_Subset
  <1>3. \A u \in Txs : TxKey(u) \notin Items(t) /\ (TxKey(u) = TxKey(t) => u = t)
    BY DEF TxKey, Items
  <1> QED
    BY <1>2, <1>3, FS_Singleton DEF ExpenseKeys

LEMMA UpsertRow ==
    ASSUME NEW row \in ExpenseRows, NEW a \in ExpenseAmounts \cup {0}, NEW reconcile \in BOOLEAN
    PROVE  /\ UpsertExpense(row, a, reconcile) \in ExpenseRows
           /\ ~Upserts(row, reconcile) => UpsertExpense(row, a, reconcile) = row
           /\ Upserts(row, reconcile) =>
                UpsertExpense(row, a, reconcile) = [state |-> "live", amount |-> a]
           /\ row.state = "deleted" => ~Upserts(row, reconcile)
  <1>1. CASE row.state = "none"
    BY <1>1 DEF UpsertExpense, Upserts, ExpenseRows
  <1>2. CASE row.state = "live" /\ reconcile
    BY <1>2 DEF UpsertExpense, Upserts, ExpenseRows
  <1>3. CASE row.state # "none" /\ ~(row.state = "live" /\ reconcile)
    BY <1>3 DEF UpsertExpense, Upserts, ExpenseRows
  <1> QED
    BY <1>1, <1>2, <1>3

LEMMA DeleteRow ==
    ASSUME NEW row \in ExpenseRows
    PROVE  /\ DeleteExpense(row) \in ExpenseRows
           /\ row.state # "live" => DeleteExpense(row) = row
           /\ row.state \in {"live", "deleted"} => DeleteExpense(row).state = "deleted"
           /\ DeleteExpense(row).state # "live"
  BY DEF DeleteExpense, ExpenseRows

\* The state of the mirror after a handler of e: what is in the feed, which row
\* changed and how, and when the thresholds may change.
Handled(e, rest) ==
    /\ expense' \in [ExpenseKeys -> ExpenseRows]
    /\ \A k \in ExpenseKeys : expense[k].state = "deleted" => expense'[k].state = "deleted"
    /\ \A t \in Txs : e.type = "committed" \/ t # e.tx => expense'[TxKey(t)] = expense[TxKey(t)]
    /\ e.tx \notin CreditTxs =>
        LET old == expense[TxKey(e.tx)]
            new == expense'[TxKey(e.tx)]
        IN  /\ e.type = "created" => new = IF e.outcome THEN UpsertExpense(old, e.amount, FALSE) ELSE old
            /\ e.type = "updated" => new = IF e.outcome THEN UpsertExpense(old, e.amount, TRUE) ELSE old
            /\ e.type = "deleted" => new = DeleteExpense(old)
    /\ \E n \in Nat : /\ feed' = rest \o publishCommitted(n)
                      /\ Commits(n)
                      /\ n = 0 => expense' = expense
                      /\ n # 0 => e.type # "committed"
    /\ e.type # "committed" => UNCHANGED <<threshold, alerts>>
    /\ e.type = "committed" => EvaluateAlert(e, rest)

LEMMA StoresRows ==
    ASSUME ExpensesTypeOK, NEW keys \in SUBSET ExpenseKeys, IsFiniteSet(keys),
           NEW a \in ExpenseAmounts \cup {0}, NEW reconcile \in BOOLEAN, NEW rest,
           Stores(keys, a, reconcile, rest)
    PROVE  /\ expense' \in [ExpenseKeys -> ExpenseRows]
           /\ \A k \in ExpenseKeys :
                /\ expense'[k] = IF k \in keys THEN UpsertExpense(expense[k], a, reconcile)
                                 ELSE expense[k]
                /\ expense[k].state = "deleted" => expense'[k].state = "deleted"
           /\ \E n \in Nat : /\ feed' = rest \o publishCommitted(n) /\ Commits(n)
                             /\ n = 0 => expense' = expense
           /\ UNCHANGED <<threshold, alerts>>
  <1> DEFINE stored == {k \in keys : Upserts(expense[k], reconcile)}
  <1>0. expense \in [ExpenseKeys -> ExpenseRows]
    BY DEF ExpensesTypeOK, ExpenseRows
  <1>1. /\ expense' = [k \in ExpenseKeys |-> IF k \in keys THEN UpsertExpense(expense[k], a, reconcile)
                                             ELSE expense[k]]
        /\ feed' = rest \o publishCommitted(Cardinality(stored)) /\ Commits(Cardinality(stored))
        /\ UNCHANGED <<threshold, alerts>>
    BY DEF Stores
  <1>2. \A k \in ExpenseKeys :
          /\ UpsertExpense(expense[k], a, reconcile) \in ExpenseRows
          /\ ~Upserts(expense[k], reconcile) => UpsertExpense(expense[k], a, reconcile) = expense[k]
          /\ expense[k].state = "deleted" => UpsertExpense(expense[k], a, reconcile) = expense[k]
    BY <1>0, UpsertRow
  <1>3. IsFiniteSet(stored) /\ Cardinality(stored) \in Nat
    BY FS_Subset, FS_CardinalityType
  <1>4. Cardinality(stored) = 0 => expense' = expense
    <2> SUFFICES ASSUME stored = {} PROVE expense' = expense
      BY <1>3, FS_EmptySet
    <2>1. \A k \in ExpenseKeys : expense'[k] = expense[k]
      BY <1>1, <1>2
    <2> QED
      BY <1>0, <1>1, <2>1
  <1> HIDE DEF stored
  <1> QED
    BY <1>0, <1>1, <1>2, <1>3, <1>4

LEMMA HandleStep ==
    ASSUME ExpensesTypeOK, NEW e \in FeedEvents, NEW done \in SUBSET AllParts(e),
           NEW rest \in Seq(FeedEvents), Handle(e, done, rest)
    PROVE  Handled(e, rest)
  <1>0. /\ expense \in [ExpenseKeys -> ExpenseRows] /\ e.tx \in Txs /\ TxKey(e.tx) \in ExpenseKeys
        /\ e.amount \in ExpenseAmounts \cup {0}
        /\ \A t \in Txs : TxKey(t) \in ExpenseKeys
    BY KeysTouched DEF ExpensesTypeOK, ExpenseRows, FeedEvents
  <1>1. CASE e.type = "created"
    <2> DEFINE keys == IF ~e.outcome THEN {} ELSE IF e.tx \in CreditTxs THEN done ELSE {TxKey(e.tx)}
    <2>1. Stores(keys, e.amount, FALSE, rest)
      BY <1>1 DEF Handle, TransactionCreated
    <2>2. keys \in SUBSET ExpenseKeys /\ IsFiniteSet(keys)
      BY <1>0, <1>1, KeysTouched, FS_EmptySet DEF AllParts
    <2>3. \A t \in Txs : t # e.tx => TxKey(t) \notin keys
      BY <1>0, <1>1, KeysTouched DEF AllParts
    <2>4. e.tx \notin CreditTxs => keys = IF e.outcome THEN {TxKey(e.tx)} ELSE {}
      OBVIOUS
    <2> HIDE DEF keys
    <2> QED
      <3>1. /\ expense' \in [ExpenseKeys -> ExpenseRows]
            /\ \A k \in ExpenseKeys :
                 /\ expense'[k] = IF k \in keys THEN UpsertExpense(expense[k], e.amount, FALSE)
                                  ELSE expense[k]
                 /\ expense[k].state = "deleted" => expense'[k].state = "deleted"
            /\ \E n \in Nat : /\ feed' = rest \o publishCommitted(n) /\ Commits(n)
                              /\ n = 0 => expense' = expense
            /\ UNCHANGED <<threshold, alerts>>
        BY <1>0, <2>1, <2>2, StoresRows
      <3>2. \A t \in Txs : t # e.tx => expense'[TxKey(t)] = expense[TxKey(t)]
        BY <1>0, <2>3, <3>1
      <3>3. e.tx \notin CreditTxs =>
              expense'[TxKey(e.tx)] = IF e.outcome THEN UpsertExpense(expense[TxKey(e.tx)], e.amount, FALSE)
                                      ELSE expense[TxKey(e.tx)]
        BY <1>0, <2>4, <3>1
      <3> QED
        BY <1>1, <3>1, <3>2, <3>3 DEF Handled
  <1>2. CASE e.type = "updated"
    <2> DEFINE keys == IF e.outcome THEN {TxKey(e.tx)} ELSE {}
    <2>1. Stores(keys, e.amount, TRUE, rest)
      BY <1>2 DEF Handle, TransactionUpdated
    <2>2. keys \in SUBSET ExpenseKeys /\ IsFiniteSet(keys)
      BY <1>0, KeysTouched, FS_EmptySet
    <2>3. \A t \in Txs : t # e.tx => TxKey(t) \notin keys
      BY <1>0, KeysTouched
    <2>4. keys = IF e.outcome THEN {TxKey(e.tx)} ELSE {}
      OBVIOUS
    <2> HIDE DEF keys
    <2> QED
      <3>1. /\ expense' \in [ExpenseKeys -> ExpenseRows]
            /\ \A k \in ExpenseKeys :
                 /\ expense'[k] = IF k \in keys THEN UpsertExpense(expense[k], e.amount, TRUE)
                                  ELSE expense[k]
                 /\ expense[k].state = "deleted" => expense'[k].state = "deleted"
            /\ \E n \in Nat : /\ feed' = rest \o publishCommitted(n) /\ Commits(n)
                              /\ n = 0 => expense' = expense
            /\ UNCHANGED <<threshold, alerts>>
        BY <1>0, <2>1, <2>2, StoresRows
      <3>2. \A t \in Txs : t # e.tx => expense'[TxKey(t)] = expense[TxKey(t)]
        BY <1>0, <2>3, <3>1
      <3>3. e.tx \notin CreditTxs =>
              expense'[TxKey(e.tx)] = IF e.outcome THEN UpsertExpense(expense[TxKey(e.tx)], e.amount, TRUE)
                                      ELSE expense[TxKey(e.tx)]
        BY <1>0, <2>4, <3>1
      <3> QED
        BY <1>2, <3>1, <3>2, <3>3 DEF Handled
  <1>3. CASE e.type = "deleted"
    <2> DEFINE k == TxKey(e.tx)
               n == IF expense[k].state = "live" THEN 1 ELSE 0
    <2>1. /\ expense' = [expense EXCEPT ![k] = DeleteExpense(@)]
          /\ feed' = rest \o publishCommitted(n) /\ Commits(n)
          /\ UNCHANGED <<threshold, alerts>>
      BY <1>3 DEF Handle, TransactionDeleted
    <2>2. /\ DeleteExpense(expense[k]) \in ExpenseRows
          /\ expense[k].state # "live" => DeleteExpense(expense[k]) = expense[k]
      BY <1>0, DeleteRow
    <2>3. n \in Nat /\ (n = 0 => expense' = expense)
      BY <1>0, <2>1, <2>2
    <2>4. \A t \in Txs : t # e.tx => TxKey(t) # k
      BY <1>0, KeysTouched
    <2>5. /\ k \in ExpenseKeys /\ expense'[k] = DeleteExpense(expense[k])
          /\ \A x \in ExpenseKeys \ {k} : expense'[x] = expense[x]
          /\ expense' \in [ExpenseKeys -> ExpenseRows]
      BY <1>0, <2>1, <2>2
    <2> HIDE DEF k, n
    <2>6. \A x \in ExpenseKeys : expense[x].state = "deleted" => expense'[x].state = "deleted"
      BY <2>2, <2>5
    <2>7. \A t \in Txs : t # e.tx => expense'[TxKey(t)] = expense[TxKey(t)]
      BY <1>0, <2>4, <2>5
    <2> QED
      BY <1>3, <2>1, <2>3, <2>5, <2>6, <2>7 DEF Handled, k
  <1>4. CASE e.type = "committed"
    <2>1. EvaluateAlert(e, rest)
      BY <1>4 DEF Handle
    <2>2. /\ feed' = rest \o publishCommitted(0) /\ Commits(0)
      BY <2>1, ConcatEmptySeq DEF EvaluateAlert, publishCommitted, Commits
    <2> QED
      BY <1>0, <1>4, <2>1, <2>2 DEF Handled, EvaluateAlert
  <1> QED
    BY <1>1, <1>2, <1>3, <1>4 DEF FeedEvents

LEMMA EvaluateTypes ==
    ASSUME ExpensesTypeOK, NEW e \in FeedEvents, NEW rest, EvaluateAlert(e, rest)
    PROVE  /\ threshold' \in [Thresholds -> [known : BOOLEAN, crossed : BOOLEAN, at : 0..MaxSeconds]]
           /\ alerts' \in [Thresholds -> [delivered : 0..MaxDeliveredAlerts, limited : Nat,
                                          retroactive : Nat]]
  <1> DEFINE after == [th \in Thresholds |->
                         UpsertIfTransition(threshold[th], IsCrossed(SumByRoot(expense), th), e.at)]
  <1>0. CASE ~budgetActive
    BY <1>0 DEF EvaluateAlert, ExpensesTypeOK
  <1>1. CASE budgetActive
    <2>1. \A th \in Thresholds : IsCrossed(SumByRoot(expense), th) \in BOOLEAN
      BY DEF IsCrossed
    <2>2. threshold' = after
      BY <1>1 DEF EvaluateAlert
    <2>3. \A th \in Thresholds : after[th] \in [known : BOOLEAN, crossed : BOOLEAN, at : 0..MaxSeconds]
      BY <2>1 DEF UpsertIfTransition, ExpensesTypeOK, FeedEvents
    <2>4. ASSUME NEW c \in [delivered : 0..MaxDeliveredAlerts, limited : Nat, retroactive : Nat]
          PROVE  DecideAlertForInsert(c, e.retroactive)
                   \in [delivered : 0..MaxDeliveredAlerts, limited : Nat, retroactive : Nat]
      <3>0. e.retroactive \in BOOLEAN
        BY DEF FeedEvents
      <3>1. CASE e.retroactive
        BY <3>1 DEF DecideAlertForInsert
      <3>2. CASE ~e.retroactive /\ c.delivered >= MaxDeliveredAlerts
        BY <3>2 DEF DecideAlertForInsert
      <3>3. CASE ~e.retroactive /\ ~(c.delivered >= MaxDeliveredAlerts)
        <4>1. DecideAlertForInsert(c, e.retroactive) = [c EXCEPT !.delivered = @ + 1]
          BY <3>3 DEF DecideAlertForInsert
        <4>2. c.delivered + 1 \in 0..MaxDeliveredAlerts
          BY <3>3, ExpensesAssumption
        <4> QED
          BY <4>1, <4>2
      <3> QED
        BY <3>0, <3>1, <3>2, <3>3
    <2>5. alerts' = [th \in Thresholds |->
                       IF Transitioned(threshold[th], after[th]) /\ IsCrossed(SumByRoot(expense), th)
                       THEN DecideAlertForInsert(alerts[th], e.retroactive) ELSE alerts[th]]
      BY <1>1 DEF EvaluateAlert
    <2> HIDE DEF after
    <2>6. threshold' \in [Thresholds -> [known : BOOLEAN, crossed : BOOLEAN, at : 0..MaxSeconds]]
      BY <2>2, <2>3 DEF after
    <2> QED
      BY <2>4, <2>5, <2>6 DEF ExpensesTypeOK
  <1> QED
    BY <1>0, <1>1

\* What a handler leaves in the mirror, the feed and the alerts is typed.
LEMMA HandledTypes ==
    ASSUME ExpensesTypeOK, NEW e \in FeedEvents, NEW rest \in Seq(FeedEvents), Handled(e, rest)
    PROVE  /\ expense' \in [ExpenseKeys -> ExpenseRows]
           /\ feed' \in Seq(FeedEvents)
           /\ threshold' \in [Thresholds -> [known : BOOLEAN, crossed : BOOLEAN, at : 0..MaxSeconds]]
           /\ alerts' \in [Thresholds -> [delivered : 0..MaxDeliveredAlerts, limited : Nat,
                                          retroactive : Nat]]
           /\ lastCommit' \in [at : 0..MaxSeconds, count : Nat]
  <1>0. Txs # {}
    BY DEF FeedEvents
  <1>1. PICK n \in Nat : feed' = rest \o publishCommitted(n) /\ Commits(n)
    BY DEF Handled
  <1>2. feed' \in Seq(FeedEvents)
    BY <1>0, <1>1, CommittedEvents, ConcatProperties
  <1>3. lastCommit' \in [at : 0..MaxSeconds, count : Nat]
    <2>1. second \in 0..MaxSeconds /\ lastCommit \in [at : 0..MaxSeconds, count : Nat]
      BY ExpensesAssumption DEF ExpensesTypeOK
    <2>2. n + (IF lastCommit.at = second THEN lastCommit.count ELSE 0) \in Nat
      BY <2>1
    <2> QED
      BY <1>1, <2>1, <2>2 DEF Commits
  <1>4. /\ threshold' \in [Thresholds -> [known : BOOLEAN, crossed : BOOLEAN, at : 0..MaxSeconds]]
        /\ alerts' \in [Thresholds -> [delivered : 0..MaxDeliveredAlerts, limited : Nat,
                                       retroactive : Nat]]
    <2>1. CASE e.type = "committed"
      BY <2>1, EvaluateTypes DEF Handled
    <2>2. CASE e.type # "committed"
      BY <2>2 DEF Handled, ExpensesTypeOK
    <2> QED
      BY <2>1, <2>2
  <1> QED
    BY <1>2, <1>3, <1>4 DEF Handled

LEMMA HeadAndTail ==
    ASSUME ExpensesTypeOK, feed # <<>>
    PROVE  /\ Head(feed) \in FeedEvents /\ Tail(feed) \in Seq(FeedEvents)
           /\ Len(feed) \in Nat \ {0} /\ Head(feed) = feed[1]
           /\ Len(Tail(feed)) = Len(feed) - 1
           /\ \A i \in 1..(Len(feed) - 1) : Tail(feed)[i] = feed[i + 1]
  BY HeadTailProperties, EmptySeq DEF ExpensesTypeOK

\* Every step either runs a handler, of the head or of the stalled event, or
\* leaves the mirror alone.
LEMMA ExpensesStepCases ==
    ASSUME ExpensesTypeOK, [ExpensesNext]_expensesVars
    PROVE  \/ /\ feed # <<>> /\ Handled(Head(feed), Tail(feed))
              /\ UNCHANGED <<purchase, stalled, calendar, commands, diverged, deliveryFaults>>
           \/ /\ feed # <<>> /\ Handled(Head(feed), feed)
              /\ deliveryFaults' \in 0..MaxDeliveryFaults
              /\ UNCHANGED <<purchase, stalled, calendar, commands, diverged>>
           \/ /\ stalled \in FeedEvents /\ Handled(stalled, feed) /\ stalled' = NoEvent
              /\ diverged' = IF stalled.type = "committed" THEN diverged ELSE diverged \cup {stalled.tx}
              /\ UNCHANGED <<purchase, calendar, commands, deliveryFaults>>
           \/ /\ feed # <<>> /\ feed' = Tail(feed) /\ deliveryFaults' \in 0..MaxDeliveryFaults
              /\ diverged' = IF Head(feed).type = "committed" THEN diverged
                             ELSE diverged \cup {Head(feed).tx}
              /\ UNCHANGED <<purchase, stalled, mirror, calendar, commands>>
           \/ /\ feed # <<>> /\ stalled' = Head(feed) /\ deliveryFaults' \in 0..MaxDeliveryFaults
              /\ UNCHANGED <<purchase, feed, mirror, calendar, commands, diverged>>
           \/ /\ second' \in second..MaxSeconds /\ budgetActive' \in BOOLEAN /\ monthOver' \in BOOLEAN
              /\ UNCHANGED <<purchase, feed, stalled, mirror, commands, deliveryFaults, diverged>>
           \/ \E t \in Txs, a \in ExpenseAmounts, out \in BOOLEAN :
                 TransactionCommits(t, a, out) \/ TransactionChanges(t, a, out)
           \/ \E t \in Txs : TransactionDisappears(t)
  <1> USE ExpensesAssumption
  <1>1. ASSUME Fault PROVE deliveryFaults' \in 0..MaxDeliveryFaults
    BY <1>1 DEF Fault, ExpensesTypeOK
  <1>2. CASE Deliver
    BY <1>2, HeadAndTail, HandleStep DEF Deliver
  <1>3. CASE Redeliver
    <2>1. PICK done \in SUBSET AllParts(Head(feed)) : Handle(Head(feed), done, feed)
      BY <1>3 DEF Redeliver
    <2>2. Handled(Head(feed), feed) /\ feed # <<>>
      BY <1>3, <2>1, HeadAndTail, HandleStep DEF Redeliver, ExpensesTypeOK
    <2> QED
      BY <1>1, <1>3, <2>2 DEF Redeliver
  <1>4. CASE Stall
    BY <1>1, <1>4 DEF Stall
  <1>5. CASE StalledHandlerRuns
    <2>1. stalled \in FeedEvents
      BY <1>5 DEF StalledHandlerRuns, ExpensesTypeOK
    <2>2. Handled(stalled, feed)
      BY <1>5, <2>1, HandleStep DEF StalledHandlerRuns, ExpensesTypeOK
    <2> QED
      BY <1>5, <2>1, <2>2 DEF StalledHandlerRuns
  <1>6. CASE DeadLetter
    BY <1>1, <1>6 DEF DeadLetter
  <1>7. CASE BudgetIsActivated \/ MonthEnds \/ SecondPasses \/ UNCHANGED expensesVars
    <2>1. second' \in second..MaxSeconds /\ budgetActive' \in BOOLEAN /\ monthOver' \in BOOLEAN
      <3>0. second \in 1..MaxSeconds /\ budgetActive \in BOOLEAN /\ monthOver \in BOOLEAN
        BY DEF ExpensesTypeOK
      <3>1. CASE BudgetIsActivated
        BY <3>0, <3>1 DEF BudgetIsActivated
      <3>2. CASE MonthEnds
        BY <3>0, <3>2 DEF MonthEnds
      <3>3. CASE SecondPasses
        BY <3>0, <3>3 DEF SecondPasses
      <3>4. CASE UNCHANGED expensesVars
        BY <3>0, <3>4 DEF expensesVars
      <3> QED
        BY <1>7, <3>1, <3>2, <3>3, <3>4
    <2>2. UNCHANGED <<purchase, feed, stalled, mirror, commands, deliveryFaults, diverged>>
      BY <1>7 DEF BudgetIsActivated, MonthEnds, SecondPasses, expensesVars, mirror
    <2> QED
      BY <2>1, <2>2
  <1> QED
    BY <1>2, <1>3, <1>4, <1>5, <1>6, <1>7 DEF ExpensesNext

\* What a command of the ledger does: its row, and one event behind the others.
CommandOf(t, after, type) ==
    /\ purchase' = [purchase EXCEPT ![t] = after]
    /\ commands' \in 0..MaxCommands
    /\ UNCHANGED <<stalled, mirror, calendar, deliveryFaults>>
    /\ feed' \in Seq(FeedEvents) /\ Len(feed') = Len(feed) + 1
    /\ \A i \in 1..Len(feed) : feed'[i] = feed[i]
    /\ LET e == feed'[Len(feed) + 1]
       IN  e.type = type /\ e.tx = t /\ e.amount = after.amount /\ e.outcome = after.outcome /\ e.at = 0

LEMMA CommandStep ==
    ASSUME ExpensesTypeOK, NEW t \in Txs, NEW after \in Bought, NEW type \in TxEventTypes,
           Command(t, after, type)
    PROVE  CommandOf(t, after, type)
  <1> DEFINE e == CommandEvent(type, t, after)
  <1>1. /\ e \in FeedEvents /\ e.type = type /\ e.tx = t /\ e.amount = after.amount
        /\ e.outcome = after.outcome /\ e.at = 0
    BY CommandEventTyped
  <1>2. feed' = Append(feed, e)
    BY DEF Command, CommandEvent
  <1>3. commands' \in 0..MaxCommands
    BY ExpensesAssumption DEF Command, ExpensesTypeOK
  <1>4. feed \in Seq(FeedEvents)
    BY DEF ExpensesTypeOK
  <1> HIDE DEF e
  <1>5. /\ feed' \in Seq(FeedEvents) /\ Len(feed') = Len(feed) + 1
        /\ \A i \in 1..Len(feed) : feed'[i] = feed[i]
        /\ feed'[Len(feed) + 1] = e
    BY <1>1, <1>2, <1>4
  <1> QED
    BY <1>1, <1>3, <1>5 DEF Command, CommandOf

LEMMA ExpensesTypeStep ==
    ASSUME ExpensesTypeOK, [ExpensesNext]_expensesVars
    PROVE  ExpensesTypeOK'
  <1> USE ExpensesAssumption
  <1>1. ASSUME NEW e \in FeedEvents, NEW rest \in Seq(FeedEvents), Handled(e, rest),
               stalled' \in {stalled, NoEvent}, deliveryFaults' \in 0..MaxDeliveryFaults,
               diverged' \subseteq Txs, UNCHANGED <<purchase, calendar, commands>>
        PROVE  ExpensesTypeOK'
    BY <1>1, HandledTypes DEF ExpensesTypeOK, ExpenseRows, calendar
  <1>2. CASE /\ feed # <<>> /\ Handled(Head(feed), Tail(feed))
             /\ UNCHANGED <<purchase, stalled, calendar, commands, diverged, deliveryFaults>>
    BY <1>1, <1>2, HeadAndTail DEF ExpensesTypeOK
  <1>3. CASE /\ feed # <<>> /\ Handled(Head(feed), feed)
             /\ deliveryFaults' \in 0..MaxDeliveryFaults
             /\ UNCHANGED <<purchase, stalled, calendar, commands, diverged>>
    BY <1>1, <1>3, HeadAndTail DEF ExpensesTypeOK
  <1>4. CASE /\ stalled \in FeedEvents /\ Handled(stalled, feed) /\ stalled' = NoEvent
             /\ diverged' = IF stalled.type = "committed" THEN diverged ELSE diverged \cup {stalled.tx}
             /\ UNCHANGED <<purchase, calendar, commands, deliveryFaults>>
    <2>1. diverged' \subseteq Txs
      BY <1>4 DEF ExpensesTypeOK, FeedEvents
    <2> QED
      BY <1>1, <1>4, <2>1 DEF ExpensesTypeOK
  <1>5. CASE /\ feed # <<>> /\ feed' = Tail(feed) /\ deliveryFaults' \in 0..MaxDeliveryFaults
             /\ diverged' = IF Head(feed).type = "committed" THEN diverged
                            ELSE diverged \cup {Head(feed).tx}
             /\ UNCHANGED <<purchase, stalled, mirror, calendar, commands>>
    <2>1. diverged' \subseteq Txs /\ feed' \in Seq(FeedEvents)
      BY <1>5, HeadAndTail DEF ExpensesTypeOK, FeedEvents
    <2> QED
      BY <1>5, <2>1 DEF ExpensesTypeOK, mirror, calendar
  <1>6. CASE /\ feed # <<>> /\ stalled' = Head(feed) /\ deliveryFaults' \in 0..MaxDeliveryFaults
             /\ UNCHANGED <<purchase, feed, mirror, calendar, commands, diverged>>
    BY <1>6, HeadAndTail DEF ExpensesTypeOK, mirror, calendar
  <1>7. CASE /\ second' \in second..MaxSeconds /\ budgetActive' \in BOOLEAN /\ monthOver' \in BOOLEAN
             /\ UNCHANGED <<purchase, feed, stalled, mirror, commands, deliveryFaults, diverged>>
    BY <1>7 DEF ExpensesTypeOK, mirror
  <1>8. ASSUME NEW t \in Txs, NEW after \in Bought, NEW type \in TxEventTypes,
               Command(t, after, type), diverged' \in {diverged, diverged \cup {t}}
        PROVE  ExpensesTypeOK'
    <2>1. CommandOf(t, after, type)
      BY <1>8, CommandStep
    <2> QED
      BY <1>8, <2>1 DEF ExpensesTypeOK, CommandOf, Bought, mirror, calendar
  <1>9. ASSUME NEW t \in Txs, NEW a \in ExpenseAmounts, NEW out \in BOOLEAN,
               TransactionCommits(t, a, out) \/ TransactionChanges(t, a, out)
        PROVE  ExpensesTypeOK'
    <2>1. [state |-> "live", amount |-> a, outcome |-> out] \in Bought
      BY DEF Bought
    <2> QED
      BY <1>8, <1>9, <2>1 DEF TransactionCommits, TransactionChanges, TxEventTypes
  <1>10. ASSUME NEW t \in Txs, TransactionDisappears(t) PROVE ExpensesTypeOK'
    <2>0. purchase[t] \in Bought
      BY DEF Bought, ExpensesTypeOK
    <2>1. [purchase[t] EXCEPT !.state = "deleted"] \in Bought
      BY <2>0 DEF Bought
    <2> QED
      BY <1>8, <1>10, <2>1 DEF TransactionDisappears, TxEventTypes
  <1> QED
    BY <1>2, <1>3, <1>4, <1>5, <1>6, <1>7, <1>9, <1>10, ExpensesStepCases

LEMMA ExpensesTypeInitially == ExpensesInit => ExpensesTypeOK
  <1> USE ExpensesAssumption
  <1> SUFFICES ASSUME ExpensesInit PROVE ExpensesTypeOK
    OBVIOUS
  <1>1. /\ purchase \in [Txs -> [state : {"none", "live", "deleted"},
                                 amount : ExpenseAmounts \cup {0}, outcome : BOOLEAN]]
        /\ expense \in [ExpenseKeys -> [state : {"none", "live", "deleted"},
                                        amount : ExpenseAmounts \cup {0}]]
    BY DEF ExpensesInit, NoTransaction, NoExpense
  <1>2. /\ threshold \in [Thresholds -> [known : BOOLEAN, crossed : BOOLEAN, at : 0..MaxSeconds]]
        /\ alerts \in [Thresholds -> [delivered : 0..MaxDeliveredAlerts, limited : Nat,
                                      retroactive : Nat]]
        /\ lastCommit \in [at : 0..MaxSeconds, count : Nat]
    BY DEF ExpensesInit, NeverEvaluated, NoAlerts
  <1>3. feed \in Seq(FeedEvents)
    BY EmptySeq DEF ExpensesInit
  <1>4. stalled = NoEvent /\ budgetActive \in BOOLEAN /\ monthOver \in BOOLEAN /\ second \in 1..MaxSeconds
    <2>1. stalled = NoEvent
      BY DEF ExpensesInit
    <2>2. budgetActive \in BOOLEAN /\ monthOver \in BOOLEAN
      BY DEF ExpensesInit
    <2>3. second \in 1..MaxSeconds
      BY DEF ExpensesInit
    <2> QED
      BY <2>1, <2>2, <2>3
  <1>5. commands \in 0..MaxCommands /\ deliveryFaults \in 0..MaxDeliveryFaults
    BY DEF ExpensesInit
  <1>6. diverged \subseteq Txs
    BY DEF ExpensesInit
  <1> QED
    BY <1>1, <1>2, <1>3, <1>4, <1>5, <1>6 DEF ExpensesTypeOK

\* Transactions, the feed, the mirror, threshold states and alerts are well
\* typed; no threshold has more delivered alerts than its limit.
THEOREM ExpensesTypeCorrect == ExpensesSpec => []ExpensesTypeOK
  BY ExpensesTypeInitially, ExpensesTypeStep, PTL DEF ExpensesSpec

\* A deleted expense stays deleted, also when an older created or updated event
\* is handled after the deletion: the upsert never touches a tombstone.
THEOREM DeletionsAreFinal == ExpensesSpec => DeletedStaysDeleted
  <1>1. ExpensesTypeOK /\ [ExpensesNext]_expensesVars =>
          \A k \in ExpenseKeys : expense[k].state = "deleted" => expense'[k].state = "deleted"
    <2> SUFFICES ASSUME ExpensesTypeOK, [ExpensesNext]_expensesVars
                 PROVE  \A k \in ExpenseKeys :
                          expense[k].state = "deleted" => expense'[k].state = "deleted"
      OBVIOUS
    <2>1. \/ \E e, rest : Handled(e, rest)
          \/ expense' = expense
      BY ExpensesStepCases DEF mirror, TransactionCommits, TransactionChanges,
                               TransactionDisappears, Command
    <2> QED
      BY <2>1 DEF Handled
  <1> QED
    BY <1>1, ExpensesTypeInitially, ExpensesTypeStep, PTL DEF ExpensesSpec, DeletedStaysDeleted

-----------------------------------------------------------------------------
(***************************************************************************)
(* Thresholds.  No event and no threshold state is younger than the latest  *)
(* expense; hence a second expense of the same second is counted, and one   *)
(* of a later second makes every threshold state older than itself.         *)
(***************************************************************************)
EventsNotAhead ==
    /\ lastCommit.at <= second /\ (lastCommit.count = 0 => lastCommit.at = 0)
    /\ \A th \in Thresholds : threshold[th].at <= lastCommit.at
    /\ \A i \in 1..Len(feed) : feed[i].at <= lastCommit.at
    /\ stalled.at <= lastCommit.at

CrossedIsCurrent(th) ==
    threshold[th].known /\ threshold[th].at = lastCommit.at /\ lastCommit.count = 1
        => threshold[th].crossed = IsCrossed(SumByRoot(expense), th)

CrossInv == ExpensesTypeOK /\ EventsNotAhead /\ \A th \in Thresholds : CrossedIsCurrent(th)

\* SumByRoot looks at the expenses alone.
LEMMA SpentOfSameRows == expense' = expense => SumByRoot(expense)' = SumByRoot(expense)
  <1>1. ASSUME NEW r, NEW s, r = s PROVE SumByRoot(r) = SumByRoot(s)
    BY <1>1
  <1>2. SumByRoot(expense)' = SumByRoot(expense')
    OBVIOUS
  <1> QED
    BY <1>1, <1>2

LEMMA HandledCross ==
    ASSUME CrossInv, NEW e \in FeedEvents, NEW rest \in Seq(FeedEvents), Handled(e, rest),
           e.at <= lastCommit.at, \A i \in 1..Len(rest) : rest[i].at <= lastCommit.at,
           UNCHANGED calendar, stalled' \in {stalled, NoEvent}
    PROVE  EventsNotAhead' /\ (\A th \in Thresholds : CrossedIsCurrent(th))'
  <1> USE ExpensesAssumption
  <1>0. /\ ExpensesTypeOK /\ EventsNotAhead /\ second' = second /\ second \in 1..MaxSeconds
        /\ lastCommit \in [at : 0..MaxSeconds, count : Nat]
        /\ threshold \in [Thresholds -> [known : BOOLEAN, crossed : BOOLEAN, at : 0..MaxSeconds]]
        /\ Txs # {}
    BY DEF CrossInv, ExpensesTypeOK, calendar, FeedEvents
  <1>1. PICK n \in Nat : /\ feed' = rest \o publishCommitted(n) /\ Commits(n)
                         /\ n = 0 => expense' = expense
                         /\ n # 0 => e.type # "committed"
    BY DEF Handled
  <1>2. /\ Len(feed') = Len(rest) + n
        /\ \A i \in 1..Len(rest) : feed'[i] = rest[i]
        /\ \A i \in (Len(rest) + 1)..(Len(rest) + n) : feed'[i].at = second
    <2>1. /\ publishCommitted(n) \in Seq(FeedEvents) /\ Len(publishCommitted(n)) = n
          /\ \A i \in 1..n : publishCommitted(n)[i].at = second
      BY <1>0, CommittedEvents
    <2> DEFINE new == publishCommitted(n)
    <2>2. feed' = rest \o new /\ new \in Seq(FeedEvents) /\ Len(new) = n /\ rest \in Seq(FeedEvents)
      BY <1>1, <2>1
    <2>3. \A i \in 1..n : new[i].at = second
      BY <2>1
    <2> HIDE DEF new
    <2>4. /\ Len(feed') = Len(rest) + n
          /\ \A i \in 1..Len(rest) : feed'[i] = rest[i]
          /\ \A i \in 1..n : feed'[Len(rest) + i] = new[i]
      <3>1. /\ Len(rest \o new) = Len(rest) + Len(new)
            /\ \A i \in 1..(Len(rest) + Len(new)) :
                 (rest \o new)[i] = IF i <= Len(rest) THEN rest[i] ELSE new[i - Len(rest)]
        BY <2>2, ConcatProperties
      <3> QED
        BY <2>2, <3>1
    <2>5. ASSUME NEW i \in (Len(rest) + 1)..(Len(rest) + n)
          PROVE  feed'[i].at = second
      <3>1. i - Len(rest) \in 1..n /\ Len(rest) + (i - Len(rest)) = i
        BY <2>2
      <3> QED
        BY <2>3, <2>4, <3>1
    <2> QED
      BY <2>4, <2>5
  <1>3. stalled'.at <= lastCommit.at
    <2>1. NoEvent.at = 0
      BY DEF NoEvent
    <2> QED
      BY <1>0, <2>1 DEF EventsNotAhead
  <1>4. n = 0 => lastCommit' = lastCommit
    BY <1>1 DEF Commits
  <1>5. n # 0 => /\ lastCommit'.at = second /\ lastCommit'.count \in Nat \ {0}
                 /\ lastCommit'.count = 1 => lastCommit.at # second
    <2> SUFFICES ASSUME n # 0
                 PROVE  /\ lastCommit'.at = second /\ lastCommit'.count \in Nat \ {0}
                        /\ lastCommit'.count = 1 => lastCommit.at # second
      OBVIOUS
    <2>1. lastCommit' = [at |-> second, count |-> n + (IF lastCommit.at = second THEN lastCommit.count ELSE 0)]
      BY <1>1 DEF Commits
    <2>2. lastCommit.at = second => lastCommit.count # 0
      BY <1>0 DEF EventsNotAhead
    <2> QED
      BY <1>0, <2>1, <2>2
  <1>6. \A th \in Thresholds :
          \/ threshold'[th] = threshold[th]
          \/ /\ n = 0 /\ threshold'[th].at = e.at
             /\ threshold'[th].crossed = IsCrossed(SumByRoot(expense), th)
    <2>1. CASE e.type # "committed" \/ ~budgetActive
      BY <2>1 DEF Handled, EvaluateAlert
    <2>2. CASE e.type = "committed" /\ budgetActive
      <3>1. threshold' = [th \in Thresholds |->
                            UpsertIfTransition(threshold[th], IsCrossed(SumByRoot(expense), th), e.at)]
        BY <2>2 DEF Handled, EvaluateAlert
      <3>2. n = 0
        BY <1>1, <2>2
      <3> QED
        BY <3>1, <3>2 DEF UpsertIfTransition
    <2> QED
      BY <2>1, <2>2
  <1>7. EventsNotAhead'
    <2>1. CASE n = 0
      <3>1. lastCommit' = lastCommit /\ Len(feed') = Len(rest)
        BY <1>2, <1>4, <2>1
      <3>2. \A th \in Thresholds : threshold'[th].at <= lastCommit.at
        BY <1>0, <1>6 DEF EventsNotAhead
      <3>3. \A i \in 1..Len(feed') : feed'[i].at <= lastCommit.at
        BY <1>2, <3>1
      <3> QED
        BY <1>0, <1>3, <3>1, <3>2, <3>3 DEF EventsNotAhead
    <2>2. CASE n # 0
      <3>1. lastCommit'.at = second' /\ lastCommit'.count # 0 /\ lastCommit.at <= second
        BY <1>0, <1>5, <2>2 DEF EventsNotAhead
      <3>2. \A th \in Thresholds : threshold'[th].at <= second
        BY <1>0, <1>6, <2>2, <3>1 DEF EventsNotAhead
      <3>3. \A i \in 1..Len(feed') : feed'[i].at <= second
        <4> SUFFICES ASSUME NEW i \in 1..Len(feed') PROVE feed'[i].at <= second
          OBVIOUS
        <4>1. CASE i \in 1..Len(rest)
          <5>1. rest[i] \in FeedEvents
            BY <4>1
          <5> QED
            BY <1>0, <1>2, <3>1, <4>1, <5>1 DEF FeedEvents
        <4>2. CASE i \in (Len(rest) + 1)..(Len(rest) + n)
          <5>1. feed'[i].at = second
            BY <1>2, <4>2
          <5> QED
            BY <1>0, <5>1
        <4> QED
          BY <1>2, <4>1, <4>2
      <3>4. stalled'.at <= second
        <4>1. stalled'.at \in Int
          <5>1. NoEvent.at \in Int
            BY DEF NoEvent
          <5>2. stalled \in FeedEvents \cup {NoEvent}
            BY <1>0 DEF ExpensesTypeOK
          <5> QED
            BY <5>1, <5>2 DEF FeedEvents
        <4> QED
          BY <1>0, <1>3, <3>1, <4>1
      <3> QED
        BY <1>0, <3>1, <3>2, <3>3, <3>4 DEF EventsNotAhead
    <2> QED
      BY <2>1, <2>2
  <1>8. ASSUME NEW th \in Thresholds PROVE CrossedIsCurrent(th)'
    <2>1. CASE n = 0
      <3>1. SumByRoot(expense)' = SumByRoot(expense) /\ lastCommit' = lastCommit
        BY <1>1, <1>4, <2>1, SpentOfSameRows
      <3>2. IsCrossed(SumByRoot(expense), th)' = IsCrossed(SumByRoot(expense), th)
        BY <3>1 DEF IsCrossed
      <3>3. CrossedIsCurrent(th)
        BY DEF CrossInv
      <3> QED
        BY <1>6, <3>1, <3>2, <3>3 DEF CrossedIsCurrent
    <2>2. CASE n # 0
      <3>1. threshold'[th] = threshold[th] /\ threshold[th].at <= lastCommit.at /\ lastCommit.at <= second
        BY <1>0, <1>6, <2>2 DEF EventsNotAhead
      <3>2. lastCommit'.at = second /\ (lastCommit'.count = 1 => lastCommit.at # second)
        BY <1>5, <2>2
      <3>3. ~(threshold'[th].at = lastCommit'.at /\ lastCommit'.count = 1)
        BY <1>0, <3>1, <3>2
      <3> QED
        BY <3>3 DEF CrossedIsCurrent
    <2> QED
      BY <2>1, <2>2
  <1> QED
    BY <1>7, <1>8

\* The clock runs on, events are dropped or set aside: nothing is evaluated.
LEMMA QuietCross ==
    ASSUME CrossInv, UNCHANGED mirror, second' >= second, second' \in Int,
           \A i \in 1..Len(feed)' : feed'[i].at <= lastCommit.at, stalled'.at <= lastCommit.at
    PROVE  EventsNotAhead' /\ (\A th \in Thresholds : CrossedIsCurrent(th))'
  <1>1. SumByRoot(expense)' = SumByRoot(expense)
    BY SpentOfSameRows DEF mirror
  <1>2. \A th \in Thresholds : IsCrossed(SumByRoot(expense), th)' = IsCrossed(SumByRoot(expense), th)
    BY <1>1 DEF IsCrossed
  <1>3. \A th \in Thresholds : CrossedIsCurrent(th)'
    BY <1>2 DEF CrossInv, CrossedIsCurrent, mirror
  <1>4. EventsNotAhead'
    BY ExpensesAssumption DEF CrossInv, EventsNotAhead, ExpensesTypeOK, mirror
  <1> QED
    BY <1>3, <1>4

LEMMA CrossStep == CrossInv /\ [ExpensesNext]_expensesVars => CrossInv'
  <1> USE ExpensesAssumption
  <1> DEFINE Rest == EventsNotAhead' /\ (\A th \in Thresholds : CrossedIsCurrent(th))'
  <1> SUFFICES ASSUME CrossInv, [ExpensesNext]_expensesVars PROVE Rest
    BY ExpensesTypeStep DEF CrossInv
  <1>0. /\ ExpensesTypeOK /\ EventsNotAhead /\ feed \in Seq(FeedEvents) /\ second \in 1..MaxSeconds
        /\ lastCommit.at \in 0..MaxSeconds
        /\ \A i \in 1..Len(feed) : feed[i].at <= lastCommit.at
        /\ stalled.at <= lastCommit.at /\ NoEvent.at <= lastCommit.at
    BY DEF CrossInv, EventsNotAhead, ExpensesTypeOK, NoEvent
  <1>1. CASE /\ feed # <<>> /\ Handled(Head(feed), Tail(feed))
             /\ UNCHANGED <<purchase, stalled, calendar, commands, diverged, deliveryFaults>>
    <2>1. /\ Head(feed) \in FeedEvents /\ Tail(feed) \in Seq(FeedEvents)
          /\ Head(feed).at <= lastCommit.at
          /\ \A i \in 1..Len(Tail(feed)) : Tail(feed)[i].at <= lastCommit.at
      BY <1>0, <1>1, HeadAndTail
    <2> QED
      BY <1>1, <2>1, HandledCross
  <1>2. CASE /\ feed # <<>> /\ Handled(Head(feed), feed)
             /\ deliveryFaults' \in 0..MaxDeliveryFaults
             /\ UNCHANGED <<purchase, stalled, calendar, commands, diverged>>
    <2>1. Head(feed) \in FeedEvents /\ Head(feed).at <= lastCommit.at
      BY <1>0, <1>2, HeadAndTail
    <2> QED
      BY <1>0, <1>2, <2>1, HandledCross
  <1>3. CASE /\ stalled \in FeedEvents /\ Handled(stalled, feed) /\ stalled' = NoEvent
             /\ diverged' = IF stalled.type = "committed" THEN diverged ELSE diverged \cup {stalled.tx}
             /\ UNCHANGED <<purchase, calendar, commands, deliveryFaults>>
    BY <1>0, <1>3, HandledCross
  <1>4. CASE /\ feed # <<>> /\ feed' = Tail(feed) /\ deliveryFaults' \in 0..MaxDeliveryFaults
             /\ diverged' = IF Head(feed).type = "committed" THEN diverged
                            ELSE diverged \cup {Head(feed).tx}
             /\ UNCHANGED <<purchase, stalled, mirror, calendar, commands>>
    <2>1. \A i \in 1..Len(feed)' : feed'[i].at <= lastCommit.at
      BY <1>0, <1>4, HeadAndTail
    <2> QED
      BY <1>0, <1>4, <2>1, QuietCross DEF calendar
  <1>5. CASE /\ feed # <<>> /\ stalled' = Head(feed) /\ deliveryFaults' \in 0..MaxDeliveryFaults
             /\ UNCHANGED <<purchase, feed, mirror, calendar, commands, diverged>>
    <2>1. stalled'.at <= lastCommit.at
      BY <1>0, <1>5, HeadAndTail
    <2> QED
      BY <1>0, <1>5, <2>1, QuietCross DEF calendar
  <1>6. CASE /\ second' \in second..MaxSeconds /\ budgetActive' \in BOOLEAN /\ monthOver' \in BOOLEAN
             /\ UNCHANGED <<purchase, feed, stalled, mirror, commands, deliveryFaults, diverged>>
    BY <1>0, <1>6, QuietCross
  <1>7. ASSUME NEW t \in Txs, NEW after \in Bought, NEW type \in TxEventTypes,
               Command(t, after, type)
        PROVE  Rest
    <2>1. /\ CommandOf(t, after, type)
      BY <1>0, <1>7, CommandStep
    <2>2. \A i \in 1..Len(feed)' : feed'[i].at <= lastCommit.at
      BY <1>0, <2>1 DEF CommandOf
    <2> QED
      BY <1>0, <2>1, <2>2, QuietCross DEF CommandOf, calendar
  <1>8. ASSUME NEW t \in Txs, NEW a \in ExpenseAmounts, NEW out \in BOOLEAN,
               TransactionCommits(t, a, out) \/ TransactionChanges(t, a, out)
        PROVE  Rest
    <2>1. [state |-> "live", amount |-> a, outcome |-> out] \in Bought
      BY DEF Bought
    <2> HIDE DEF Rest
    <2> QED
      BY <1>7, <1>8, <2>1 DEF TransactionCommits, TransactionChanges, TxEventTypes
  <1>9. ASSUME NEW t \in Txs, TransactionDisappears(t) PROVE Rest
    <2>0. purchase[t] \in Bought
      BY <1>0 DEF Bought, ExpensesTypeOK
    <2>1. [purchase[t] EXCEPT !.state = "deleted"] \in Bought
      BY <2>0 DEF Bought
    <2> HIDE DEF Rest
    <2> QED
      BY <1>7, <1>9, <2>1 DEF TransactionDisappears, TxEventTypes
  <1> HIDE DEF Rest
  <1> QED
    BY <1>0, <1>1, <1>2, <1>3, <1>4, <1>5, <1>6, <1>8, <1>9, ExpensesStepCases

\* When every event of the user is handled and the latest expense was the only
\* one of its second, each threshold evaluated at it is crossed exactly when
\* the sum of the month's expenses crosses it: redelivered and stalled
\* evaluations are older than the state they meet, or see the same sum.
THEOREM ThresholdsFollowTheSum == ExpensesSpec => []CrossingsAreRight
  <1>1. ExpensesInit => CrossInv
    <2> SUFFICES ASSUME ExpensesInit PROVE EventsNotAhead /\ \A th \in Thresholds : CrossedIsCurrent(th)
      BY ExpensesTypeInitially DEF CrossInv
    <2>1. /\ lastCommit.at = 0 /\ lastCommit.count = 0 /\ second = 1 /\ Len(feed) = 0 /\ stalled.at = 0
      BY DEF ExpensesInit, NoEvent
    <2>2. \A th \in Thresholds : threshold[th].at = 0
      BY DEF ExpensesInit, NeverEvaluated
    <2> QED
      BY <2>1, <2>2 DEF EventsNotAhead, CrossedIsCurrent
  <1>2. CrossInv => CrossingsAreRight
    BY DEF CrossInv, CrossedIsCurrent, CrossingsAreRight
  <1> QED
    BY <1>1, <1>2, CrossStep, PTL DEF ExpensesSpec

-----------------------------------------------------------------------------
(***************************************************************************)
(* The mirror.  An expense lags its transaction by the events of that       *)
(* transaction still in the feed: the first of them says what may have been *)
(* stored already, the last of them what the transaction is.                *)
(***************************************************************************)
EventOf(f, t, i) == i \in 1..Len(f) /\ f[i].tx = t /\ f[i].type # "committed"
FirstOf(f, t, i) == \A j : EventOf(f, t, j) => i <= j
LastOf(f, t, i) == \A j : EventOf(f, t, j) => j <= i

\* The row x is the expense of the transaction p.
RowMirrors(p, x) ==
    /\ (p.state = "live" /\ p.outcome) <=> x.state = "live"
    /\ p.state = "live" /\ p.outcome => x.amount = p.amount

EventFits(f, t, p, x, i) ==
    /\ f[i].type = "created" => /\ FirstOf(f, t, i) /\ x.state # "deleted"
                                /\ x.state = "live" => f[i].outcome /\ x.amount = f[i].amount
    /\ f[i].type = "updated" => f[i].outcome /\ x.state # "deleted"
    /\ f[i].type = "deleted" => LastOf(f, t, i) /\ p.state = "deleted"
    /\ LastOf(f, t, i) /\ f[i].type # "deleted" =>
           p.state = "live" /\ p.amount = f[i].amount /\ p.outcome = f[i].outcome

\* Between the transaction p and its row x lie the events of t in f.
Follows(f, t, p, x) ==
    /\ p.state = "none" => x.state = "none" /\ \A i : ~EventOf(f, t, i)
    /\ (\A i : ~EventOf(f, t, i)) => RowMirrors(p, x)
    /\ x.state = "deleted" => p.state = "deleted"
    /\ \A i : EventOf(f, t, i) => EventFits(f, t, p, x, i)

\* Cash transactions whose events were all delivered.
MirroredTxs == Txs \ (CreditTxs \cup diverged)

MirrorInv ==
    ExpensesTypeOK /\ \A t \in MirroredTxs : Follows(feed, t, purchase[t], expense[TxKey(t)])

\* Events of other transactions, and those of expenses, do not matter.
LEMMA SameEventsFollow ==
    ASSUME NEW f, NEW g, NEW t, NEW p, NEW x,
           \A i : EventOf(g, t, i) <=> EventOf(f, t, i),
           \A i : EventOf(f, t, i) => g[i] = f[i],
           Follows(f, t, p, x)
    PROVE  Follows(g, t, p, x)
  <1>1. ASSUME NEW i, EventOf(g, t, i) PROVE EventFits(g, t, p, x, i)
    <2>1. EventFits(f, t, p, x, i) /\ g[i] = f[i]
      BY <1>1 DEF Follows
    <2>2. (FirstOf(g, t, i) <=> FirstOf(f, t, i)) /\ (LastOf(g, t, i) <=> LastOf(f, t, i))
      BY DEF FirstOf, LastOf
    <2> QED
      BY <2>1, <2>2 DEF EventFits
  <1> QED
    BY <1>1 DEF Follows

\* An event of another transaction leaves the feed.
LEMMA TailFollows ==
    ASSUME NEW S, NEW f \in Seq(S), f # <<>>, NEW t, NEW p, NEW x, ~EventOf(f, t, 1),
           Follows(f, t, p, x)
    PROVE  Follows(Tail(f), t, p, x)
  <1> DEFINE g == Tail(f)
  <1>1. /\ g \in Seq(S) /\ Len(f) \in Nat \ {0} /\ Len(g) = Len(f) - 1
        /\ \A i \in 1..Len(g) : g[i] = f[i + 1]
    BY HeadTailProperties, EmptySeq
  <1> HIDE DEF g
  <1>2. \A i : EventOf(g, t, i) => i \in Nat /\ EventOf(f, t, i + 1) /\ g[i] = f[i + 1]
    BY <1>1 DEF EventOf
  <1>3. \A i : EventOf(f, t, i) => i \in Nat /\ i # 1 /\ EventOf(g, t, i - 1)
    BY <1>1 DEF EventOf
  <1>4. ASSUME NEW i, EventOf(g, t, i) PROVE EventFits(g, t, p, x, i)
    <2>1. EventFits(f, t, p, x, i + 1) /\ g[i] = f[i + 1] /\ i \in Nat
      BY <1>2, <1>4 DEF Follows
    <2>2. FirstOf(f, t, i + 1) => FirstOf(g, t, i)
      BY <1>2, <2>1 DEF FirstOf
    <2>3. LastOf(f, t, i + 1) => LastOf(g, t, i)
      BY <1>2, <2>1 DEF LastOf
    <2>4. LastOf(g, t, i) => LastOf(f, t, i + 1)
      <3> SUFFICES ASSUME LastOf(g, t, i), NEW j, EventOf(f, t, j) PROVE j <= i + 1
        BY DEF LastOf
      <3>1. j \in Nat /\ j - 1 <= i
        BY <1>3 DEF LastOf
      <3> QED
        BY <2>1, <3>1
    <2> QED
      BY <2>1, <2>2, <2>3, <2>4 DEF EventFits
  <1>5. (\A i : ~EventOf(g, t, i)) <=> \A i : ~EventOf(f, t, i)
    BY <1>2, <1>3
  <1>6. Follows(g, t, p, x)
    BY <1>4, <1>5 DEF Follows
  <1> QED
    BY <1>6 DEF g

\* What the handler of the event e makes of the row old of its transaction.
HandledRow(e, old) ==
    CASE e.type = "created" -> IF e.outcome THEN UpsertExpense(old, e.amount, FALSE) ELSE old
      [] e.type = "updated" -> IF e.outcome THEN UpsertExpense(old, e.amount, TRUE) ELSE old
      [] e.type = "deleted" -> DeleteExpense(old)

\* The first event of the transaction, as Follows describes it.
LEMMA HeadEvent ==
    ASSUME NEW f \in Seq(FeedEvents), NEW t, NEW p, NEW x, EventOf(f, t, 1), Follows(f, t, p, x)
    PROVE  /\ f[1] \in FeedEvents /\ EventFits(f, t, p, x, 1)
           /\ f[1].type \in TxEventTypes /\ f[1].amount \in ExpenseAmounts \cup {0}
           /\ f[1].outcome \in BOOLEAN
  <1>1. 1 \in 1..Len(f) /\ f[1].type # "committed"
    BY DEF EventOf
  <1>2. f[1] \in FeedEvents
    BY <1>1
  <1>3. EventFits(f, t, p, x, 1)
    BY DEF Follows
  <1> QED
    BY <1>1, <1>2, <1>3 DEF FeedEvents, TxEventTypes

\* The first event of the transaction is handled and stays, because it will be
\* redelivered: handling it again changes nothing.
LEMMA HeadFollows ==
    ASSUME NEW f \in Seq(FeedEvents), NEW t, NEW p \in Bought, NEW x \in ExpenseRows, EventOf(f, t, 1),
           Follows(f, t, p, x)
    PROVE  Follows(f, t, p, HandledRow(f[1], x))
  <1> DEFINE y == HandledRow(f[1], x)
  <1>0. /\ f[1] \in FeedEvents /\ EventFits(f, t, p, x, 1)
        /\ f[1].type \in TxEventTypes /\ f[1].amount \in ExpenseAmounts \cup {0}
        /\ f[1].outcome \in BOOLEAN
    BY HeadEvent
  <1>1. \A i : EventOf(f, t, i) => i \in Nat /\ i >= 1 /\ EventFits(f, t, p, x, i)
    BY DEF EventOf, Follows
  <1>2. CASE f[1].type = "created"
    <2>1. y = IF f[1].outcome THEN UpsertExpense(x, f[1].amount, FALSE) ELSE x
      BY <1>2 DEF HandledRow
    <2>2. x.state # "deleted" /\ (x.state = "live" => f[1].outcome /\ x.amount = f[1].amount)
      BY <1>0, <1>2 DEF EventFits
    <2>3. y.state # "deleted" /\ (y.state = "live" => f[1].outcome /\ y.amount = f[1].amount)
      <3>1. CASE ~f[1].outcome
        BY <2>1, <2>2, <3>1
      <3>2. CASE f[1].outcome /\ x.state = "live"
        BY <2>1, <2>2, <3>2, <1>0, UpsertRow DEF Upserts
      <3>3. CASE f[1].outcome /\ x.state = "none"
        <4>1. y = [state |-> "live", amount |-> f[1].amount]
          BY <2>1, <3>3, <1>0, UpsertRow DEF Upserts
        <4> QED
          BY <4>1, <3>3
      <3> QED
        BY <1>0, <2>2, <3>1, <3>2, <3>3 DEF ExpenseRows
    <2> HIDE DEF y
    <2>4. ASSUME NEW i, EventOf(f, t, i) PROVE EventFits(f, t, p, y, i)
      <3>1. f[i].type = "created" => i = 1
        BY <1>1, <2>4 DEF EventFits, FirstOf
      <3> QED
        BY <1>1, <2>3, <2>4, <3>1 DEF EventFits
    <2>5. Follows(f, t, p, y)
      BY <2>3, <2>4 DEF Follows
    <2> QED
      BY <2>5 DEF y
  <1>3. CASE f[1].type = "updated"
    <2>1. x.state # "deleted" /\ f[1].outcome
      BY <1>0, <1>3 DEF EventFits
    <2>2. y = UpsertExpense(x, f[1].amount, TRUE)
      BY <1>3, <2>1 DEF HandledRow
    <2>3. y = [state |-> "live", amount |-> f[1].amount]
      <3>1. Upserts(x, TRUE)
        BY <2>1 DEF Upserts, ExpenseRows
      <3> QED
        BY <1>0, <2>2, <3>1, UpsertRow
    <2>4. y.state = "live" /\ y.amount = f[1].amount
      BY <2>3
    <2> HIDE DEF y
    <2>5. ASSUME NEW i, EventOf(f, t, i) PROVE EventFits(f, t, p, y, i)
      <3>1. f[i].type # "created"
        BY <1>1, <1>3, <2>5 DEF EventFits, FirstOf
      <3> QED
        BY <1>1, <2>4, <2>5, <3>1 DEF EventFits
    <2>6. Follows(f, t, p, y)
      BY <2>4, <2>5 DEF Follows
    <2> QED
      BY <2>6 DEF y
  <1>4. CASE f[1].type = "deleted"
    <2>1. LastOf(f, t, 1) /\ p.state = "deleted"
      BY <1>0, <1>4 DEF EventFits
    <2>2. y = DeleteExpense(x)
      BY <1>4 DEF HandledRow
    <2> HIDE DEF y
    <2>3. ASSUME NEW i, EventOf(f, t, i) PROVE EventFits(f, t, p, y, i)
      <3>1. i = 1
        BY <1>1, <2>1, <2>3 DEF LastOf
      <3> QED
        BY <1>4, <2>1, <3>1 DEF EventFits
    <2>4. Follows(f, t, p, y)
      BY <2>1, <2>3 DEF Follows
    <2> QED
      BY <2>4 DEF y
  <1> QED
    BY <1>0, <1>2, <1>3, <1>4 DEF TxEventTypes

\* What has been handled may leave the feed; after the last event the row is
\* the transaction.
LEMMA HandledTailFollows ==
    ASSUME NEW f \in Seq(FeedEvents), NEW t, NEW p \in Bought, NEW x \in ExpenseRows, EventOf(f, t, 1),
           Follows(f, t, p, x)
    PROVE  Follows(Tail(f), t, p, HandledRow(f[1], x))
  <1> DEFINE y == HandledRow(f[1], x)
             g == Tail(f)
  <1>0. /\ f[1] \in FeedEvents /\ EventFits(f, t, p, x, 1) /\ EventFits(f, t, p, y, 1)
        /\ f[1].type \in TxEventTypes /\ f[1].amount \in ExpenseAmounts \cup {0}
        /\ f[1].outcome \in BOOLEAN /\ Follows(f, t, p, y)
    <2>1. Follows(f, t, p, y)
      BY HeadFollows
    <2>2. EventFits(f, t, p, y, 1)
      BY <2>1 DEF Follows
    <2> QED
      BY <2>1, <2>2, HeadEvent
  <1>1. /\ g \in Seq(FeedEvents) /\ Len(f) \in Nat \ {0} /\ Len(g) = Len(f) - 1
        /\ \A i \in 1..Len(g) : g[i] = f[i + 1]
    BY HeadTailProperties, EmptySeq DEF EventOf
  <1>2. (\A i : ~EventOf(g, t, i)) => RowMirrors(p, y)
    <2> SUFFICES ASSUME \A i : ~EventOf(g, t, i) PROVE RowMirrors(p, y)
      OBVIOUS
    <2>1. LastOf(f, t, 1)
      <3> SUFFICES ASSUME NEW j, EventOf(f, t, j) PROVE j <= 1
        BY DEF LastOf
      <3>1. ~EventOf(g, t, j - 1)
        OBVIOUS
      <3> HIDE DEF g
      <3> QED
        BY <1>1, <3>1 DEF EventOf
    <2>2. CASE f[1].type = "created"
      <3>1. p.state = "live" /\ p.amount = f[1].amount /\ p.outcome = f[1].outcome
        BY <1>0, <2>1, <2>2 DEF EventFits
      <3>2. y.state = "live" => f[1].outcome /\ y.amount = f[1].amount
        BY <1>0, <2>2 DEF EventFits
      <3>3. f[1].outcome => y.state = "live"
        <4> SUFFICES ASSUME f[1].outcome PROVE y.state = "live"
          OBVIOUS
        <4>1. y = UpsertExpense(x, f[1].amount, FALSE)
          BY <2>2 DEF HandledRow
        <4>2. CASE x.state = "live"
          BY <1>0, <4>1, <4>2, UpsertRow DEF Upserts
        <4>3. CASE x.state # "live"
          <5>1. x.state = "none"
            BY <1>0, <2>2, <4>3 DEF EventFits, ExpenseRows
          <5>2. Upserts(x, FALSE)
            BY <5>1 DEF Upserts
          <5>3. y = [state |-> "live", amount |-> f[1].amount]
            BY <1>0, <4>1, <5>2, UpsertRow
          <5> QED
            BY <5>3
        <4> QED
          BY <4>2, <4>3
      <3> QED
        BY <1>0, <3>1, <3>2, <3>3 DEF RowMirrors
    <2>3. CASE f[1].type = "updated"
      <3>1. p.state = "live" /\ p.amount = f[1].amount /\ p.outcome /\ x.state # "deleted"
        BY <1>0, <2>1, <2>3 DEF EventFits
      <3>2. y = UpsertExpense(x, f[1].amount, TRUE)
        BY <1>0, <2>3 DEF HandledRow, EventFits
      <3>3. y = [state |-> "live", amount |-> f[1].amount]
        <4>1. Upserts(x, TRUE)
          BY <3>1 DEF Upserts, ExpenseRows
        <4> QED
          BY <1>0, <3>2, <4>1, UpsertRow
      <3>4. y.state = "live" /\ y.amount = f[1].amount
        BY <3>3
      <3> QED
        BY <3>1, <3>4 DEF RowMirrors
    <2>4. CASE f[1].type = "deleted"
      <3>1. p.state = "deleted" /\ y.state # "live"
        BY <1>0, <2>4, DeleteRow DEF EventFits, HandledRow
      <3> QED
        BY <3>1 DEF RowMirrors
    <2> QED
      BY <1>0, <2>2, <2>3, <2>4 DEF TxEventTypes
  <1> HIDE DEF g, y
  <1>3. \A i : EventOf(g, t, i) => i \in Nat \ {0} /\ EventOf(f, t, i + 1) /\ g[i] = f[i + 1]
    BY <1>1 DEF EventOf
  <1>4. ASSUME NEW i, EventOf(g, t, i) PROVE EventFits(g, t, p, y, i)
    <2>1. EventFits(f, t, p, y, i + 1) /\ g[i] = f[i + 1] /\ i \in Nat \ {0}
      BY <1>0, <1>3, <1>4 DEF Follows
    <2>2. ~FirstOf(f, t, i + 1)
      BY <2>1 DEF FirstOf
    <2>3. LastOf(f, t, i + 1) => LastOf(g, t, i)
      BY <1>3, <2>1 DEF LastOf
    <2>4. LastOf(g, t, i) => LastOf(f, t, i + 1)
      <3> SUFFICES ASSUME LastOf(g, t, i), NEW j, EventOf(f, t, j) PROVE j <= i + 1
        BY DEF LastOf
      <3>1. CASE j = 1
        BY <2>1, <3>1
      <3>2. CASE j # 1
        <4>1. j \in Nat /\ EventOf(g, t, j - 1)
          BY <1>1, <3>2 DEF EventOf
        <4>2. j - 1 <= i
          BY <4>1 DEF LastOf
        <4> QED
          BY <2>1, <4>1, <4>2
      <3> QED
        BY <3>1, <3>2
    <2> QED
      BY <2>1, <2>2, <2>3, <2>4 DEF EventFits
  <1>5. Follows(g, t, p, y)
    BY <1>0, <1>2, <1>3, <1>4 DEF Follows
  <1> QED
    BY <1>5 DEF g, y

\* Behind the events of the feed come those of other transactions or expenses.
LEMMA OthersFollow ==
    ASSUME NEW f \in Seq(FeedEvents), NEW g \in Seq(FeedEvents), NEW t, NEW p, NEW x,
           Len(g) >= Len(f), \A i \in 1..Len(f) : g[i] = f[i],
           \A i \in (Len(f) + 1)..Len(g) : g[i].type = "committed" \/ g[i].tx # t,
           Follows(f, t, p, x)
    PROVE  Follows(g, t, p, x)
  <1>1. ASSUME NEW i PROVE EventOf(g, t, i) <=> EventOf(f, t, i)
    <2>1. i \in 1..Len(g) => i \in 1..Len(f) \/ i \in (Len(f) + 1)..Len(g)
      OBVIOUS
    <2>2. i \in 1..Len(f) => i \in 1..Len(g)
      OBVIOUS
    <2> QED
      BY <2>1, <2>2 DEF EventOf
  <1>2. \A i : EventOf(f, t, i) => g[i] = f[i]
    BY DEF EventOf
  <1> QED
    BY <1>1, <1>2, SameEventsFollow

\* A command of the ledger on t itself: its event is the last one of t.
LEMMA OwnCommandFollows ==
    ASSUME NEW f \in Seq(FeedEvents), NEW g \in Seq(FeedEvents), NEW t, NEW p \in Bought,
           NEW q \in Bought, NEW x,
           Len(g) = Len(f) + 1, \A i \in 1..Len(f) : g[i] = f[i], g[Len(g)].tx = t,
           Follows(f, t, p, x),
           \/ /\ p.state = "none" /\ g[Len(g)].type = "created" /\ q.state = "live"
              /\ q.amount = g[Len(g)].amount /\ q.outcome = g[Len(g)].outcome
           \/ /\ p.state = "live" /\ g[Len(g)].type = "updated" /\ q.state = "live" /\ q.outcome
              /\ q.amount = g[Len(g)].amount /\ q.outcome = g[Len(g)].outcome
           \/ p.state = "live" /\ g[Len(g)].type = "deleted" /\ q.state = "deleted"
    PROVE  Follows(g, t, q, x)
  <1> DEFINE n == Len(g)
  <1>0. n \in Nat \ {0} /\ n = Len(f) + 1 /\ EventOf(g, t, n) /\ LastOf(g, t, n)
    BY DEF EventOf, LastOf
  <1>1. \A i : EventOf(g, t, i) => i = n \/ (i \in Nat /\ i < n /\ EventOf(f, t, i) /\ g[i] = f[i])
    BY <1>0 DEF EventOf
  <1>2. \A i : EventOf(f, t, i) => i \in Nat /\ i < n /\ EventOf(g, t, i) /\ EventFits(f, t, p, x, i)
                                   /\ g[i] = f[i]
    BY <1>0 DEF EventOf, Follows
  <1>3. p.state = "none" => x.state = "none" /\ \A i : ~EventOf(f, t, i)
    BY DEF Follows
  <1>4. p.state = "live" => x.state # "deleted" /\ \A i : EventOf(f, t, i) => f[i].type # "deleted"
    BY <1>2 DEF Follows, EventFits
  <1>5. ASSUME NEW i, EventOf(g, t, i), i # n PROVE EventFits(g, t, q, x, i)
    <2>1. /\ i \in Nat /\ i < n /\ EventOf(f, t, i) /\ g[i] = f[i] /\ EventFits(f, t, p, x, i)
          /\ p.state # "none" /\ f[i].type # "deleted"
      BY <1>1, <1>2, <1>3, <1>4, <1>5
    <2>2. FirstOf(f, t, i) => FirstOf(g, t, i)
      BY <1>1, <2>1 DEF FirstOf
    <2>3. ~LastOf(g, t, i)
      BY <1>0, <2>1 DEF LastOf
    <2> QED
      BY <2>1, <2>2, <2>3 DEF EventFits
  <1>6. EventFits(g, t, q, x, n)
    <2>1. p.state = "none" => FirstOf(g, t, n)
      BY <1>0, <1>1, <1>3 DEF FirstOf
    <2> QED
      BY <1>0, <1>3, <1>4, <2>1 DEF EventFits
  <1> HIDE DEF n
  <1>7. q.state # "none" /\ (x.state = "deleted" => q.state = "deleted")
    BY <1>3, <1>4 DEF Follows
  <1> QED
    BY <1>0, <1>5, <1>6, <1>7 DEF Follows

\* What a handler publishes are events of expenses.
LEMMA HandledFeed ==
    ASSUME ExpensesTypeOK, NEW e \in FeedEvents, NEW rest \in Seq(FeedEvents), Handled(e, rest),
           NEW t, NEW p, NEW x, Follows(rest, t, p, x)
    PROVE  Follows(feed', t, p, x)
  <1>1. PICK n \in Nat : feed' = rest \o publishCommitted(n)
    BY DEF Handled
  <1> DEFINE new == publishCommitted(n)
  <1>2. /\ new \in Seq(FeedEvents) /\ Len(new) = n
        /\ \A i \in 1..n : new[i].type = "committed"
    BY CommittedEvents DEF FeedEvents
  <1>3. feed' = rest \o new
    BY <1>1
  <1> HIDE DEF new
  <1>4. /\ feed' \in Seq(FeedEvents) /\ Len(feed') = Len(rest) + n
        /\ \A i \in 1..(Len(rest) + n) :
             feed'[i] = IF i <= Len(rest) THEN rest[i] ELSE new[i - Len(rest)]
    BY <1>2, <1>3, ConcatProperties
  <1>5. ASSUME NEW i \in (Len(rest) + 1)..Len(feed') PROVE feed'[i].type = "committed"
    <2>1. i \in 1..(Len(rest) + n) /\ ~(i <= Len(rest)) /\ i - Len(rest) \in 1..n
      BY <1>4
    <2> QED
      BY <1>2, <1>4, <2>1
  <1>6. Len(feed') >= Len(rest) /\ \A i \in 1..Len(rest) : feed'[i] = rest[i]
    BY <1>4
  <1> QED
    BY <1>4, <1>5, <1>6, OthersFollow

LEMMA HandledMirror ==
    ASSUME ExpensesTypeOK, NEW e \in FeedEvents, NEW rest, Handled(e, rest), NEW t \in Txs \ CreditTxs
    PROVE  expense'[TxKey(t)] = IF e.type # "committed" /\ e.tx = t
                                THEN HandledRow(e, expense[TxKey(t)]) ELSE expense[TxKey(t)]
  <1>1. CASE e.type = "committed" \/ t # e.tx
    BY <1>1 DEF Handled
  <1>2. CASE e.type = "created" /\ t = e.tx
    BY <1>2 DEF Handled, HandledRow
  <1>3. CASE e.type = "updated" /\ t = e.tx
    BY <1>3 DEF Handled, HandledRow
  <1>4. CASE e.type = "deleted" /\ t = e.tx
    BY <1>4 DEF Handled, HandledRow
  <1> QED
    BY <1>1, <1>2, <1>3, <1>4 DEF FeedEvents

\* One transaction over one step.
LEMMA MirrorStepOf ==
    ASSUME MirrorInv, [ExpensesNext]_expensesVars, NEW t \in MirroredTxs'
    PROVE  Follows(feed', t, purchase'[t], expense'[TxKey(t)])
  <1> DEFINE k == TxKey(t)
             Goal == Follows(feed', t, purchase'[t], expense'[TxKey(t)])
  <1>0. /\ ExpensesTypeOK /\ feed \in Seq(FeedEvents) /\ t \in Txs \ CreditTxs /\ t \notin diverged'
        /\ purchase \in [Txs -> Bought] /\ purchase[t] \in Bought /\ k \in ExpenseKeys
        /\ expense[k] \in ExpenseRows
    BY KeysTouched DEF MirrorInv, ExpensesTypeOK, MirroredTxs, Bought, ExpenseRows
  <1>1. t \notin diverged => Follows(feed, t, purchase[t], expense[k])
    BY <1>0 DEF MirrorInv, MirroredTxs
  <1> HIDE DEF k, Goal
  <1>2. CASE /\ feed # <<>> /\ Handled(Head(feed), Tail(feed))
             /\ UNCHANGED <<purchase, stalled, calendar, commands, diverged, deliveryFaults>>
    <2>0. Head(feed) \in FeedEvents /\ Tail(feed) \in Seq(FeedEvents) /\ Head(feed) = feed[1]
      BY <1>0, <1>2, HeadAndTail
    <2>1. Follows(feed, t, purchase[t], expense[k])
      BY <1>0, <1>1, <1>2
    <2>2. Follows(Tail(feed), t, purchase[t], expense'[k])
      <3>1. CASE EventOf(feed, t, 1)
        <4>1. expense'[k] = HandledRow(feed[1], expense[k])
          BY <1>0, <1>2, <2>0, <3>1, HandledMirror DEF EventOf, k
        <4> QED
          BY <1>0, <2>1, <3>1, <4>1, HandledTailFollows
      <3>2. CASE ~EventOf(feed, t, 1)
        <4>0. 1 \in 1..Len(feed)
          BY <1>0, <1>2, HeadAndTail
        <4>1. expense'[k] = expense[k]
          BY <1>0, <1>2, <2>0, <3>2, <4>0, HandledMirror DEF EventOf, k
        <4> QED
          BY <1>0, <1>2, <2>1, <3>2, <4>1, TailFollows
      <3> QED
        BY <3>1, <3>2
    <2> QED
      BY <1>0, <1>2, <2>0, <2>2, HandledFeed DEF Goal, k
  <1>3. CASE /\ feed # <<>> /\ Handled(Head(feed), feed)
             /\ deliveryFaults' \in 0..MaxDeliveryFaults
             /\ UNCHANGED <<purchase, stalled, calendar, commands, diverged>>
    <2>0. Head(feed) \in FeedEvents /\ Head(feed) = feed[1] /\ 1 \in 1..Len(feed)
      BY <1>0, <1>3, HeadAndTail
    <2>1. Follows(feed, t, purchase[t], expense[k])
      BY <1>0, <1>1, <1>3
    <2>2. Follows(feed, t, purchase[t], expense'[k])
      <3>1. CASE EventOf(feed, t, 1)
        <4>1. expense'[k] = HandledRow(feed[1], expense[k])
          BY <1>0, <1>3, <2>0, <3>1, HandledMirror DEF EventOf, k
        <4> QED
          BY <1>0, <2>1, <3>1, <4>1, HeadFollows
      <3>2. CASE ~EventOf(feed, t, 1)
        <4>1. expense'[k] = expense[k]
          BY <1>0, <1>3, <2>0, <3>2, HandledMirror DEF EventOf, k
        <4> QED
          BY <2>1, <4>1
      <3> QED
        BY <3>1, <3>2
    <2> QED
      BY <1>0, <1>3, <2>0, <2>2, HandledFeed DEF Goal, k
  <1>4. CASE /\ stalled \in FeedEvents /\ Handled(stalled, feed) /\ stalled' = NoEvent
             /\ diverged' = IF stalled.type = "committed" THEN diverged ELSE diverged \cup {stalled.tx}
             /\ UNCHANGED <<purchase, calendar, commands, deliveryFaults>>
    <2>1. t \notin diverged /\ (stalled.type = "committed" \/ stalled.tx # t)
      BY <1>0, <1>4
    <2>2. expense'[k] = expense[k]
      BY <1>0, <1>4, <2>1, HandledMirror DEF k
    <2> QED
      BY <1>0, <1>1, <1>4, <2>1, <2>2, HandledFeed DEF Goal, k
  <1>5. CASE /\ feed # <<>> /\ feed' = Tail(feed) /\ deliveryFaults' \in 0..MaxDeliveryFaults
             /\ diverged' = IF Head(feed).type = "committed" THEN diverged
                            ELSE diverged \cup {Head(feed).tx}
             /\ UNCHANGED <<purchase, stalled, mirror, calendar, commands>>
    <2>1. t \notin diverged /\ ~EventOf(feed, t, 1)
      BY <1>0, <1>5, HeadAndTail DEF EventOf
    <2>2. Follows(Tail(feed), t, purchase[t], expense[k])
      BY <1>0, <1>1, <1>5, <2>1, TailFollows
    <2> QED
      BY <1>5, <2>2 DEF Goal, mirror, k
  <1>6. CASE \/ /\ feed # <<>> /\ stalled' = Head(feed) /\ deliveryFaults' \in 0..MaxDeliveryFaults
                /\ UNCHANGED <<purchase, feed, mirror, calendar, commands, diverged>>
             \/ /\ second' \in second..MaxSeconds /\ budgetActive' \in BOOLEAN /\ monthOver' \in BOOLEAN
                /\ UNCHANGED <<purchase, feed, stalled, mirror, commands, deliveryFaults, diverged>>
    BY <1>0, <1>1, <1>6 DEF Goal, mirror, k
  <1>7. ASSUME NEW u \in Txs, NEW after \in Bought, NEW type \in TxEventTypes,
               Command(u, after, type), t \notin diverged,
               u = t => \/ purchase[t].state = "none" /\ type = "created" /\ after.state = "live"
                        \/ /\ purchase[t].state = "live" /\ type = "updated" /\ after.state = "live"
                           /\ after.outcome
                        \/ purchase[t].state = "live" /\ type = "deleted" /\ after.state = "deleted"
        PROVE  Goal
    <2>1. CommandOf(u, after, type)
      BY <1>0, <1>7, CommandStep
    <2>2. /\ feed' \in Seq(FeedEvents) /\ Len(feed') = Len(feed) + 1
          /\ \A i \in 1..Len(feed) : feed'[i] = feed[i]
          /\ LET e == feed'[Len(feed')]
             IN  e.type = type /\ e.tx = u /\ e.amount = after.amount /\ e.outcome = after.outcome
          /\ expense' = expense
      BY <2>1 DEF CommandOf, mirror
    <2>3. CASE u = t
      <3>1. purchase'[t] = after
        BY <1>0, <2>1, <2>3 DEF CommandOf
      <3> DEFINE g == feed'
      <3>2. /\ g \in Seq(FeedEvents) /\ Len(g) = Len(feed) + 1 /\ \A i \in 1..Len(feed) : g[i] = feed[i]
            /\ g[Len(g)].tx = t /\ g[Len(g)].type = type /\ g[Len(g)].amount = after.amount
            /\ g[Len(g)].outcome = after.outcome
        BY <2>2, <2>3
      <3> HIDE DEF g
      <3>3. Follows(g, t, after, expense[k])
        BY <1>0, <1>1, <1>7, <2>3, <3>2, OwnCommandFollows
      <3> QED
        BY <2>2, <3>1, <3>3 DEF Goal, k, g
    <2>4. CASE u # t
      <3>1. purchase'[t] = purchase[t]
        BY <1>0, <2>1, <2>4 DEF CommandOf
      <3>2. \A i \in (Len(feed) + 1)..Len(feed') : feed'[i].tx # t
        <4>1. \A i \in (Len(feed) + 1)..Len(feed') : i = Len(feed')
          BY <1>0, <2>2
        <4> QED
          BY <2>2, <2>4, <4>1
      <3>3. Len(feed') >= Len(feed)
        BY <1>0, <2>2
      <3>4. Follows(feed', t, purchase[t], expense[k])
        BY <1>0, <1>1, <1>7, <2>2, <3>2, <3>3, OthersFollow
      <3> QED
        BY <2>2, <3>1, <3>4 DEF Goal, k
    <2> QED
      BY <2>3, <2>4
  <1>8. ASSUME NEW u \in Txs, NEW a \in ExpenseAmounts, NEW out \in BOOLEAN,
               TransactionCommits(u, a, out)
        PROVE  Goal
    <2>1. LET row == [state |-> "live", amount |-> a, outcome |-> out]
          IN  row \in Bought /\ row.state = "live"
      BY DEF Bought
    <2>2. t \notin diverged
      BY <1>0, <1>8 DEF TransactionCommits
    <2> QED
      BY <1>7, <1>8, <2>1, <2>2 DEF TransactionCommits, TxEventTypes
  <1>9. ASSUME NEW u \in Txs, NEW a \in ExpenseAmounts, NEW out \in BOOLEAN,
               TransactionChanges(u, a, out)
        PROVE  Goal
    <2>1. LET row == [state |-> "live", amount |-> a, outcome |-> out]
          IN  row \in Bought /\ row.state = "live" /\ row.outcome = out
      BY DEF Bought
    <2>2. t \notin diverged /\ (u = t => out)
      BY <1>0, <1>9 DEF TransactionChanges
    <2> QED
      BY <1>7, <1>9, <2>1, <2>2 DEF TransactionChanges, TxEventTypes
  <1>10. ASSUME NEW u \in Txs, TransactionDisappears(u) PROVE Goal
    <2>0. purchase[u] \in Bought
      BY <1>0
    <2>1. LET row == [purchase[u] EXCEPT !.state = "deleted"]
          IN  row \in Bought /\ row.state = "deleted"
      BY <2>0 DEF Bought
    <2>2. t \notin diverged
      BY <1>0, <1>10 DEF TransactionDisappears
    <2> QED
      BY <1>7, <1>10, <2>1, <2>2 DEF TransactionDisappears, TxEventTypes
  <1>11. ASSUME NEW u \in Txs, NEW a \in ExpenseAmounts, NEW out \in BOOLEAN,
                TransactionCommits(u, a, out) \/ TransactionChanges(u, a, out)
         PROVE  Goal
    BY <1>8, <1>9, <1>11
  <1> QED
    BY <1>0, <1>2, <1>3, <1>4, <1>5, <1>6, <1>10, <1>11, ExpensesStepCases DEF Goal

\* The expense of a cash transaction whose events were all delivered, in the
\* order of the feed but however often, is the transaction: live when it is a
\* live outcome, with its amount, and otherwise not live.
THEOREM ExpensesMirrorTheLedger == ExpensesSpec => []MirrorIsLedger
  <1>1. ExpensesInit => MirrorInv
    <2> SUFFICES ASSUME ExpensesInit, NEW t \in MirroredTxs
                 PROVE  Follows(feed, t, purchase[t], expense[TxKey(t)])
      BY ExpensesTypeInitially DEF MirrorInv
    <2>1. purchase[t] = NoTransaction /\ expense[TxKey(t)] = NoExpense /\ Len(feed) = 0
      BY KeysTouched DEF ExpensesInit, MirroredTxs
    <2>2. \A i : ~EventOf(feed, t, i)
      BY <2>1 DEF EventOf
    <2> QED
      BY <2>1, <2>2 DEF Follows, RowMirrors, NoTransaction, NoExpense
  <1>2. MirrorInv /\ [ExpensesNext]_expensesVars => MirrorInv'
    <2>1. MirrorInv /\ [ExpensesNext]_expensesVars => ExpensesTypeOK'
      BY ExpensesTypeStep DEF MirrorInv
    <2> QED
      BY <2>1, MirrorStepOf DEF MirrorInv
  <1>3. MirrorInv => MirrorIsLedger
    <2> SUFFICES ASSUME MirrorInv, feed = <<>>, NEW t \in Txs \ (CreditTxs \cup diverged)
                 PROVE  Mirrored(t)
      BY DEF MirrorIsLedger
    <2>1. \A i : ~EventOf(feed, t, i)
      BY DEF EventOf
    <2>2. RowMirrors(purchase[t], expense[TxKey(t)])
      BY <2>1 DEF MirrorInv, MirroredTxs, Follows
    <2> QED
      BY <2>2 DEF Mirrored, RowMirrors
  <1> QED
    BY <1>1, <1>2, <1>3, PTL DEF ExpensesSpec

-----------------------------------------------------------------------------
(* The division of a budget.                                                *)

LEMMA Products == \A x, y \in Int : x * y \in Int
  OBVIOUS

LEMMA SumIsOnSet == \A f : SumFunction(f) = SumFunctionOnSet(f, DOMAIN f)
  BY DEF SumFunction

LEMMA SlugFacts ==
    /\ IsFiniteSet(Slugs)
    /\ \A s \in Slugs : Rank(s) \in 1..5 /\ CanonicalOrder[Rank(s)] = s
  <1>1. DOMAIN CanonicalOrder = 1..5
    BY DEF CanonicalOrder
  <1>2. Slugs = {CanonicalOrder[i] : i \in 1..5}
    BY <1>1 DEF Slugs, Range
  <1> DEFINE c(i) == {CanonicalOrder[i]}
  <1>3. Slugs = (((c(1) \cup c(2)) \cup c(3)) \cup c(4)) \cup c(5)
    BY <1>2
  <1>4. IsFiniteSet(Slugs)
    <2>1. IsFiniteSet(c(1)) /\ IsFiniteSet(c(2)) /\ IsFiniteSet(c(3)) /\ IsFiniteSet(c(4)) /\ IsFiniteSet(c(5))
      BY FS_Singleton
    <2> HIDE DEF c
    <2> QED
      BY <1>3, <2>1, FS_Union
  <1>5. ASSUME NEW s \in Slugs PROVE Rank(s) \in 1..5 /\ CanonicalOrder[Rank(s)] = s
    <2>1. \E i \in DOMAIN CanonicalOrder : CanonicalOrder[i] = s
      BY <1>1, <1>2
    <2> QED
      BY <1>1, <2>1 DEF Rank
  <1> QED
    BY <1>4, <1>5

\* The categories in canonical order, and those that come first.
Before(S) == [s \in S |-> {t \in S : Rank(t) < Rank(s)}]

LEMMA FirstCategories ==
    ASSUME NEW S \in SUBSET Slugs, NEW k \in Nat, k <= Cardinality(S)
    PROVE  Cardinality({s \in S : PositionAmong(s, S) <= k}) = k
  <1>0. /\ IsFiniteSet(S) /\ \A s \in S : Rank(s) \in Nat
        /\ \A s, t \in S : Rank(s) = Rank(t) => s = t
    BY SlugFacts, FS_Subset
  <1>1. Line(S, Before(S))
    BY <1>0 DEF Line, Before
  <1>2. ASSUME NEW s \in S
        PROVE  PositionAmong(s, S) <= k <=> Cardinality(Before(S)[s] \cap S) < k
    <2> DEFINE b == Before(S)[s] \cap S
    <2>1. /\ b = {t \in S : Rank(t) < Rank(s)} /\ s \notin b
          /\ {t \in S : Rank(t) <= Rank(s)} = b \cup {s}
      BY <1>0 DEF Before
    <2>2. IsFiniteSet(b) /\ Cardinality(b) \in Nat
      BY <1>0, FS_Subset, FS_CardinalityType
    <2>3. PositionAmong(s, S) = Cardinality(b \cup {s})
      BY <2>1 DEF PositionAmong
    <2>4. Cardinality(b \cup {s}) = Cardinality(b) + 1
      BY <2>1, <2>2, FS_AddElement
    <2>5. PositionAmong(s, S) <= k <=> Cardinality(b) < k
      <3> HIDE DEF b
      <3> QED
        BY <2>2, <2>3, <2>4
    <2> QED
      BY <2>5
  <1>3. {s \in S : PositionAmong(s, S) <= k} = First(S, Before(S), k)
    BY <1>2 DEF First
  <1> QED
    BY <1>0, <1>1, <1>3, FirstAreAsMany

LEMMA HalfEven ==
    \A n \in Int : /\ halfEvenRound(n) \in Int
                  /\ 2 * n <= 20000 * halfEvenRound(n) + 10000
                  /\ 20000 * halfEvenRound(n) <= 2 * n + 10000
  BY DEF halfEvenRound, Whole

\* Whatever the total and the shares are, Distribute plans the total to the
\* cent, and each category gets its share but for a cent and the rounding.
THEOREM Distributed ==
    ASSUME NEW S \in SUBSET Slugs, NEW bps \in [S -> Int], SumFunction(bps) = Whole,
           NEW total \in Int
    PROVE  /\ Distribute(total, bps) \in [S -> Int] /\ SumFunction(Distribute(total, bps)) = total
           /\ \A s \in S : LET off == Distribute(total, bps)[s] * Whole - total * bps[s]
                           IN  2 * off <= 3 * Whole /\ -2 * off <= 3 * Whole
  <1> DEFINE raw == [s \in S |-> total * bps[s]]
             rounded == [s \in S |-> halfEvenRound(total * bps[s])]
             diff == total - SumFunction(rounded)
             k == IF diff > 0 THEN diff ELSE -diff
             sign == IF diff > 0 THEN 1 ELSE -1
             chosen == {s \in S : PositionAmong(s, S) <= k}
             planned == [s \in S |-> IF s \in chosen THEN rounded[s] + sign ELSE rounded[s]]
  <1>1. Distribute(total, bps) = planned
    BY DEF Distribute
  <1>2. IsFiniteSet(S) /\ Cardinality(S) \in Nat
    BY SlugFacts, FS_Subset, FS_CardinalityType
  <1>3. /\ raw \in [S -> Int] /\ rounded \in [S -> Int]
        /\ \A s \in S : /\ raw[s] = total * bps[s]
                        /\ 2 * raw[s] <= 20000 * rounded[s] + 10000
                        /\ 20000 * rounded[s] <= 2 * raw[s] + 10000
    <2>1. \A s \in S : total * bps[s] \in Int
      BY Products
    <2>2. \A s \in S : rounded[s] = halfEvenRound(raw[s]) /\ raw[s] = total * bps[s]
      OBVIOUS
    <2>3. raw \in [S -> Int]
      BY <2>1
    <2>4. \A s \in S : /\ halfEvenRound(raw[s]) \in Int
                        /\ 2 * raw[s] <= 20000 * halfEvenRound(raw[s]) + 10000
                        /\ 20000 * halfEvenRound(raw[s]) <= 2 * raw[s] + 10000
      <3>1. ASSUME NEW s \in S
            PROVE  /\ halfEvenRound(raw[s]) \in Int
                   /\ 2 * raw[s] <= 20000 * halfEvenRound(raw[s]) + 10000
                   /\ 20000 * halfEvenRound(raw[s]) <= 2 * raw[s] + 10000
        <4>1. raw[s] \in Int
          BY <2>3
        <4>2. PICK n : n = raw[s]
          OBVIOUS
        <4>3. n \in Int
          BY <4>1, <4>2
        <4>4. /\ halfEvenRound(n) \in Int
              /\ 2 * n <= 20000 * halfEvenRound(n) + 10000
              /\ 20000 * halfEvenRound(n) <= 2 * n + 10000
          BY <4>3, HalfEven
        <4> HIDE DEF raw
        <4> QED
          BY <4>2, <4>4
      <3> QED
        BY <3>1
    <2>5. rounded \in [S -> Int]
      <3>1. \A s \in S : rounded[s] \in Int
        BY <2>2, <2>4
      <3> QED
        BY <3>1
    <2> HIDE DEF raw, rounded
    <2> QED
      BY <2>2, <2>3, <2>4, <2>5
  <1> HIDE DEF raw
  <1>4. SumFunction(raw) = total * 10000
    BY <1>2, <1>3, SumTimes, SumIsOnSet DEF Whole, Ints
  <1>5. SumFunction(rounded) \in Int
    BY <1>2, <1>3, SumType, SumIsOnSet DEF Ints
  <1> HIDE DEF rounded
  <1> DEFINE twice == [s \in S |-> 2 * raw[s]]
             scaled == [s \in S |-> 20000 * rounded[s]]
  <1>6. /\ twice \in [S -> Int] /\ scaled \in [S -> Int] /\ Ints(twice, S) /\ Ints(scaled, S)
        /\ \A s \in S : /\ twice[s] = 2 * raw[s] /\ scaled[s] = 20000 * rounded[s]
                        /\ twice[s] <= scaled[s] + 10000 /\ scaled[s] <= twice[s] + 10000
    BY <1>3 DEF Ints
  <1> HIDE DEF twice, scaled
  <1>7. SumFunctionOnSet(twice, S) = 2 * SumFunctionOnSet(raw, S)
    BY <1>2, <1>3, <1>6, SumTimes DEF Ints
  <1>8. SumFunctionOnSet(scaled, S) = 20000 * SumFunctionOnSet(rounded, S)
    BY <1>2, <1>3, <1>6, SumTimes DEF Ints
  <1>9. SumFunctionOnSet(twice, S) <= SumFunctionOnSet(scaled, S) + 10000 * Cardinality(S)
    BY <1>2, <1>6, SumWithin
  <1>10. SumFunctionOnSet(scaled, S) <= SumFunctionOnSet(twice, S) + 10000 * Cardinality(S)
    BY <1>2, <1>6, SumWithin
  <1>11. SumFunctionOnSet(raw, S) = total * 10000 /\ SumFunctionOnSet(rounded, S) = SumFunction(rounded)
    BY <1>3, <1>4, SumIsOnSet
  <1>12. k \in Nat /\ k <= Cardinality(S) /\ ((k = diff /\ sign = 1) \/ (k = -diff /\ sign = -1))
    <2>1. diff \in Int /\ diff = total - SumFunction(rounded)
      BY <1>5
    <2>2. 2 * (total * 10000) <= 20000 * SumFunction(rounded) + 10000 * Cardinality(S)
      BY <1>7, <1>8, <1>9, <1>11
    <2>3. 20000 * SumFunction(rounded) <= 2 * (total * 10000) + 10000 * Cardinality(S)
      BY <1>7, <1>8, <1>10, <1>11
    <2>4. 2 * diff <= Cardinality(S) /\ -2 * diff <= Cardinality(S)
      BY <1>2, <1>5, <2>1, <2>2, <2>3
    <2>5. diff \in Int /\ diff <= Cardinality(S) /\ -diff <= Cardinality(S)
      BY <1>2, <2>1, <2>4
    <2> HIDE DEF diff
    <2>6. CASE diff > 0
      <3>1. k = diff /\ sign = 1
        BY <2>6
      <3> QED
        BY <1>2, <2>5, <2>6, <3>1
    <2>7. CASE ~(diff > 0)
      <3>1. k = -diff /\ sign = -1
        BY <2>7
      <3> QED
        BY <1>2, <2>5, <2>7, <3>1
    <2> QED
      BY <2>6, <2>7
  <1>13. Cardinality(chosen) = k
    BY <1>12, FirstCategories
  <1>14. sign \in {1, -1} /\ sign * k = diff
    BY <1>5, <1>12
  <1>15. total = SumFunction(rounded) + diff
    BY <1>5
  <1>16. chosen \in SUBSET S
    OBVIOUS
  <1> HIDE DEF k, sign, chosen, diff
  <1> DEFINE extra == [s \in S |-> IF s \in chosen THEN sign ELSE 0]
             mark == [s \in S |-> IF s \in chosen THEN 1 ELSE 0]
  <1>17. /\ planned \in [S -> Int] /\ Ints(extra, S) /\ Ints(mark, S) /\ Ints(rounded, S)
         /\ \A s \in S : /\ planned[s] = rounded[s] + extra[s] /\ extra[s] = sign * mark[s]
                         /\ mark[s] = IF s \in chosen THEN 1 ELSE 0
    BY <1>3, <1>14 DEF Ints
  <1>18. \A s \in S : planned[s] <= rounded[s] + 1 /\ rounded[s] - 1 <= planned[s]
    BY <1>3, <1>14
  <1> HIDE DEF planned, extra, mark
  <1>19. SumFunctionOnSet(mark, S) = k
    BY <1>2, <1>13, <1>16, <1>17, SumCounts
  <1>20. SumFunctionOnSet(extra, S) = sign * SumFunctionOnSet(mark, S)
    BY <1>2, <1>14, <1>17, SumTimes
  <1>21. SumFunctionOnSet(planned, S) = SumFunctionOnSet(rounded, S) + SumFunctionOnSet(extra, S)
    BY <1>2, <1>17, SumAdds
  <1>22. SumFunction(planned) = total
    BY <1>11, <1>14, <1>15, <1>17, <1>19, <1>20, <1>21, SumIsOnSet
  <1>23. ASSUME NEW s \in S
         PROVE  LET off == planned[s] * Whole - total * bps[s]
                IN  2 * off <= 3 * Whole /\ -2 * off <= 3 * Whole
    <2>1. planned[s] \in Int /\ rounded[s] \in Int /\ raw[s] \in Int /\ raw[s] = total * bps[s]
      BY <1>3, <1>17
    <2> QED
      BY <1>3, <1>18, <2>1 DEF Whole
  <1> QED
    BY <1>1, <1>17, <1>22, <1>23

-----------------------------------------------------------------------------
(* The edit of one share.                                                   *)

LEMMA Quotients ==
    /\ \A a \in Int, n \in Nat \ {0} : a \div n \in Int /\ n * (a \div n) <= a
    /\ \A a \in Nat, n \in Nat \ {0} : a \div n \in Nat
  OBVIOUS

LEMMA Cancels == \A a, b \in Int, n \in Nat \ {0} : n * a <= b * n => a <= b
  <1> SUFFICES ASSUME NEW a \in Int, NEW b \in Int, NEW n \in Nat \ {0}, n * a <= b * n, b + 1 <= a
               PROVE  FALSE
    OBVIOUS
  <1>1. n * (a - (b + 1)) >= 0
    <2>1. \A x, y \in Nat : x * y >= 0
      OBVIOUS
    <2>2. a - (b + 1) \in Nat /\ n \in Nat
      OBVIOUS
    <2> QED
      BY <2>1, <2>2
  <1>2. n * (a - (b + 1)) = n * a - b * n - n
    OBVIOUS
  <1> QED
    BY <1>1, <1>2, Products

LEMMA NatSum ==
    ASSUME NEW f, NEW S, IsFiniteSet(S), \A x \in S : f[x] \in Nat
    PROVE  SumFunctionOnSet(f, S) \in Nat
  <1> DEFINE zero == [x \in S |-> 0]
  <1>1. Ints(f, S) /\ Ints(zero, S) /\ \A x \in S : zero[x] = 0 /\ zero[x] <= f[x]
    BY DEF Ints
  <1> HIDE DEF zero
  <1>2. SumFunctionOnSet(zero, S) = 0
    <2>1. {} \in SUBSET S /\ Ints(zero, {})
      BY DEF Ints
    <2> QED
      BY <1>1, <2>1, SumOfZeros, SumOfNone
  <1>3. SumFunctionOnSet(zero, S) <= SumFunctionOnSet(f, S)
    BY <1>1, SumMonotone
  <1> QED
    BY <1>1, <1>2, <1>3, SumType

LEMMA LargestOther ==
    ASSUME NEW S \in SUBSET Slugs, NEW bps \in [S -> Int], NEW target, Others(bps, target) # {}
    PROVE  largestOther(bps, target) \in Others(bps, target)
  <1> DEFINE O == Others(bps, target)
             B == [s \in O |-> {t \in O : bps[t] < bps[s] \/ (bps[t] = bps[s] /\ Rank(s) < Rank(t))}]
  <1>1. O \in SUBSET S /\ IsFiniteSet(O)
    BY SlugFacts, FS_Subset DEF Others
  <1>2. /\ \A s \in O : Rank(s) \in Nat /\ bps[s] \in Int
        /\ \A s, t \in O : Rank(s) = Rank(t) => s = t
    BY <1>1, SlugFacts
  <1> HIDE DEF O
  <1>3. Line(O, B)
    BY <1>2 DEF Line
  <1>4. PICK m \in O : \A x \in O \ {m} : x \in B[m]
    BY <1>1, <1>3, LastOfLine DEF O
  <1>5. \A t \in O : bps[t] < bps[m] \/ (bps[t] = bps[m] /\ Rank(m) <= Rank(t))
    <2> SUFFICES ASSUME NEW t \in O
                 PROVE  bps[t] < bps[m] \/ (bps[t] = bps[m] /\ Rank(m) <= Rank(t))
      OBVIOUS
    <2>1. CASE t = m
      BY <1>2, <2>1
    <2>2. CASE t # m
      BY <1>2, <1>4, <2>2
    <2> QED
      BY <2>1, <2>2
  <1> QED
    BY <1>4, <1>5 DEF largestOther, O

\* DecideEditCategoryPercentage: whatever share is edited, and whatever the
\* others were, the shares remain natural numbers and 100 %.
THEOREM EditedIsWhole ==
    ASSUME NEW S \in SUBSET Slugs, NEW bps \in [S -> Nat], NEW target \in S, NEW points \in 0..Whole
    PROVE  /\ DecideEditCategoryPercentage(bps, target, points) \in [S -> Nat]
           /\ WholeSplit(DecideEditCategoryPercentage(bps, target, points))
  <1> DEFINE O == Others(bps, target)
             part == [s \in O |-> bps[s]]
             others == SumFunction(part)
             shares == Rescaled(bps, target, points)
             left == Whole - points
  <1>1. O = S \ {target} /\ IsFiniteSet(S) /\ IsFiniteSet(O) /\ left \in Nat /\ points \in Nat /\ DOMAIN bps = S
    BY SlugFacts, FS_Subset DEF Others, Whole
  <1>2. part \in [O -> Nat] /\ (\A s \in O : part[s] = bps[s]) /\ Ints(part, O)
    BY <1>1 DEF Ints
  <1>3. others \in Nat /\ others = SumFunctionOnSet(part, O)
    <2>1. SumFunction(part) = SumFunctionOnSet(part, O)
      BY SumIsOnSet
    <2> HIDE DEF part, O
    <2> QED
      BY <1>1, <1>2, <2>1, NatSum
  <1>4. shares = [s \in S |-> IF s = target THEN points
                              ELSE IF others = 0 THEN 0 ELSE (left * bps[s]) \div others]
    BY <1>1 DEF Rescaled
  <1>5. /\ \A s \in O : left * part[s] \in Nat
        /\ \A x, y \in Nat : x * y \in Nat
    BY <1>1, <1>2
  <1> HIDE DEF O, part, others, shares, left
  <1>6. shares \in [S -> Nat] /\ shares[target] = points
    <2>1. ASSUME NEW s \in S, s # target, others # 0 PROVE (left * bps[s]) \div others \in Nat
      <3>1. left * bps[s] \in Nat /\ others \in Nat \ {0}
        BY <1>1, <1>3, <1>5, <2>1
      <3> HIDE DEF left
      <3> QED
        BY <3>1, Quotients
    <2> QED
      BY <1>1, <1>4, <2>1
  <1>7. SumFunctionOnSet(shares, O) <= left /\ SumFunctionOnSet(shares, O) \in Nat
    <2>1. Ints(shares, O) /\ SumFunctionOnSet(shares, O) \in Nat
      BY <1>1, <1>6, NatSum DEF Ints
    <2>2. CASE others = 0
      <3>1. \A s \in O : shares[s] = 0
        BY <1>1, <1>4, <2>2
      <3>2. {} \in SUBSET O /\ Ints(shares, {})
        BY DEF Ints
      <3>3. SumFunctionOnSet(shares, O) = 0
        BY <1>1, <3>1, <3>2, SumOfZeros, SumOfNone
      <3> QED
        BY <1>1, <2>1, <3>3
    <2>3. CASE others # 0
      <3> DEFINE up == [s \in O |-> others * shares[s]]
                 down == [s \in O |-> left * part[s]]
      <3>1. \A s \in O : up[s] = others * shares[s] /\ down[s] = left * part[s] /\ up[s] <= down[s]
        <4> SUFFICES ASSUME NEW s \in O PROVE others * shares[s] <= left * part[s]
          OBVIOUS
        <4>1. shares[s] = (left * part[s]) \div others
          BY <1>1, <1>2, <1>4, <2>3
        <4>2. left * part[s] \in Int /\ others \in Nat \ {0}
          BY <1>3, <1>5, <2>3
        <4> QED
          BY <4>1, <4>2, Quotients
      <3>2. Ints(up, O) /\ Ints(down, O)
        BY <1>1, <1>2, <1>3, <1>6, Products DEF Ints
      <3> HIDE DEF up, down
      <3>3. SumFunctionOnSet(up, O) <= SumFunctionOnSet(down, O)
        BY <1>1, <3>1, <3>2, SumMonotone
      <3>4. SumFunctionOnSet(up, O) = others * SumFunctionOnSet(shares, O)
        <4>1. others \in Int /\ Ints(shares, O) /\ \A s \in O : up[s] = others * shares[s]
          BY <1>3, <2>1, <3>1
        <4> QED
          BY <1>1, <4>1, SumTimes
      <3>5. SumFunctionOnSet(down, O) = left * SumFunctionOnSet(part, O)
        BY <1>1, <1>2, <3>1, SumTimes
      <3>6. others * SumFunctionOnSet(shares, O) <= left * others
        BY <1>3, <3>3, <3>4, <3>5
      <3> QED
        BY <1>1, <1>3, <2>1, <2>3, <3>6, Cancels
    <2> QED
      BY <2>2, <2>3
  <1>8. SumFunctionOnSet(shares, S) = points + SumFunctionOnSet(shares, O)
    BY <1>1, <1>6, SumSplit DEF Ints
  <1> DEFINE total == SumFunctionOnSet(shares, S)
             leftover == Whole - SumFunction(shares)
             taker == IF Others(shares, target) = {} THEN target ELSE largestOther(shares, target)
             result == [shares EXCEPT ![taker] = @ + leftover]
  <1>9. DOMAIN shares = S /\ SumFunction(shares) = total
    BY <1>6, SumIsOnSet
  <1>10. leftover \in Nat /\ total + leftover = Whole /\ total \in Nat
    BY <1>1, <1>7, <1>8, <1>9 DEF left, Whole
  <1>11. taker \in S
    <2>1. shares \in [S -> Int] /\ Others(shares, target) \subseteq S
      BY <1>6, <1>9 DEF Others
    <2> QED
      BY <2>1, LargestOther
  <1>12. DecideEditCategoryPercentage(bps, target, points) = result
    BY DEF DecideEditCategoryPercentage, applyLeftover, shares
  <1> HIDE DEF taker, leftover, total
  <1>13. /\ result \in [S -> Nat] /\ result[taker] = shares[taker] + leftover
         /\ \A s \in S \ {taker} : result[s] = shares[s]
    BY <1>6, <1>9, <1>10, <1>11
  <1> HIDE DEF result
  <1>14. SumFunctionOnSet(result, S) = SumFunctionOnSet(shares, S) - shares[taker] + result[taker]
    BY <1>1, <1>6, <1>11, <1>13, SumChanges DEF Ints
  <1>15. shares[taker] \in Nat
    BY <1>6, <1>11
  <1>16. SumFunctionOnSet(result, S) = Whole
    <2>1. SumFunctionOnSet(shares, S) = total
      BY DEF total
    <2> QED
      BY <1>10, <1>13, <1>14, <1>15, <2>1
  <1>17. SumFunction(result) = SumFunctionOnSet(result, S)
    BY <1>13, SumIsOnSet
  <1> QED
    BY <1>12, <1>13, <1>16, <1>17 DEF WholeSplit

-----------------------------------------------------------------------------
(* The inductive invariant of the budgets.                                  *)

\* Lists of shares and plans name any of the categories.
Shares == UNION {[D -> 0..Whole] : D \in SUBSET Slugs}
Plans == UNION {[D -> Int] : D \in SUBSET Slugs}
Rows == [id : 0..MaxBudgetRows, state : {"none", "draft", "active"}, total : Totals \cup {0},
         auto : BOOLEAN, bps : Shares, planned : Plans, mixed : BOOLEAN]

Planned(row) == SumFunction(row.planned) = row.total /\ Fair(row)
Divided(row) ==
    /\ WholeSplit(row.bps)
    /\ Planned(row) \/ (row.state # "active" /\ row.planned = Unplanned(row.bps))

\* The rows there may be, and those a unit of work may have decided to write.
GoodRow(row) ==
    /\ row \in Rows /\ DOMAIN row.planned = DOMAIN row.bps
    /\ row.state # "none" <=> row.id # 0
    /\ row.state = "active" => row.bps # NoAllocations
    /\ row.bps # NoAllocations => row.total \in Totals
    /\ row.bps # NoAllocations /\ ~row.mixed => Divided(row)
GoodRows == {row \in Rows : GoodRow(row)}
GoodWrite(row) ==
    /\ row \in Rows /\ DOMAIN row.planned = DOMAIN row.bps
    /\ row.state # "none" /\ row.bps # NoAllocations /\ row.total \in Totals
    /\ ~row.mixed => WholeSplit(row.bps) /\ Planned(row)
GoodWrites == {row \in Rows : GoodWrite(row)}

\* What a recurrence copies.
GoodSource(row) ==
    /\ row.total \in Totals /\ row.bps # NoAllocations
    /\ ~row.mixed => WholeSplit(row.bps)

Decided == UNION {[D -> GoodWrites] : D \in SUBSET Competences}
Requests == [pc : {"idle", "month", "write"}, source : GoodRows, month : Nat, left : Nat,
             writes : Decided]
RequestOK(q) ==
    /\ q \in Requests
    /\ q.pc = "idle" => q.left = 0
    /\ q.pc = "month" => q.left # 0 /\ q.month \in Competences
    /\ q.left # 0 => q.month # 0 /\ GoodSource(q.source)
    /\ \A c, d \in DOMAIN q.writes : q.writes[c].id = 0 => c = d

IdsAreKeys ==
    /\ budgetRows \in 0..MaxBudgetRows
    /\ \A c \in Competences : budget[c].id <= budgetRows
    /\ \A c, d \in Competences : budget[c].id = budget[d].id /\ budget[c].id # 0 => c = d

BudgetsInv ==
    /\ budget \in [Competences -> GoodRows]
    /\ IdsAreKeys
    /\ budgetEdits \in 0..MaxBudgetEdits
    /\ request \in [BudgetRequests -> Requests]
    /\ \A r \in BudgetRequests : RequestOK(request[r])

LEMMA NothingFacts ==
    /\ NoAllocations \in Shares /\ NoAllocations \in Plans /\ DOMAIN NoAllocations = {}
    /\ SumFunction(NoAllocations) = 0 /\ ~WholeSplit(NoAllocations)
    /\ \A bps \in Shares : DOMAIN bps = {} => bps = NoAllocations
  <1>1. NoAllocations \in [{} -> 0..Whole] /\ NoAllocations \in [{} -> Int] /\ {} \in SUBSET Slugs
    BY DEF NoAllocations
  <1>2. SumFunction(NoAllocations) = 0
    <2>1. SumFunction(NoAllocations) = SumFunctionOnSet(NoAllocations, {})
      BY SumIsOnSet DEF NoAllocations
    <2> QED
      BY <2>1, SumOfNone
  <1>3. ASSUME NEW bps \in Shares, DOMAIN bps = {} PROVE bps = NoAllocations
    <2>1. PICK D \in SUBSET Slugs : bps \in [D -> 0..Whole]
      BY DEF Shares
    <2>2. bps = [s \in {} |-> bps[s]]
      BY <1>3, <2>1
    <2> QED
      BY <2>2 DEF NoAllocations
  <1>4. NoAllocations \in Shares /\ NoAllocations \in Plans
    BY <1>1 DEF Shares, Plans
  <1>5. ~WholeSplit(NoAllocations)
    BY <1>2 DEF WholeSplit, Whole
  <1>6. DOMAIN NoAllocations = {}
    BY DEF NoAllocations
  <1> QED
    BY <1>2, <1>3, <1>4, <1>5, <1>6

LEMMA SharesFacts ==
    ASSUME NEW bps \in Shares
    PROVE  /\ DOMAIN bps \in SUBSET Slugs /\ bps \in [DOMAIN bps -> 0..Whole]
           /\ bps \in [DOMAIN bps -> Nat] /\ bps \in [DOMAIN bps -> Int]
  <1>1. PICK D \in SUBSET Slugs : bps \in [D -> 0..Whole]
    BY DEF Shares
  <1>2. \A n \in 0..Whole : n \in Nat /\ n \in Int
    BY DEF Whole
  <1> QED
    BY <1>1, <1>2

LEMMA PlansFacts ==
    ASSUME NEW planned \in Plans
    PROVE  DOMAIN planned \in SUBSET Slugs /\ planned \in [DOMAIN planned -> Int]
  <1>1. PICK D \in SUBSET Slugs : planned \in [D -> Int]
    BY DEF Plans
  <1> QED
    BY <1>1

\* The plan of a list of shares; of a whole one, when they are 100 %.
LEMMA PlanOf ==
    ASSUME NEW total \in Totals, NEW bps \in Shares
    PROVE  /\ Distribute(total, bps) \in Plans /\ DOMAIN Distribute(total, bps) = DOMAIN bps
           /\ WholeSplit(bps) =>
                /\ SumFunction(Distribute(total, bps)) = total
                /\ \A s \in DOMAIN bps :
                       LET off == Distribute(total, bps)[s] * Whole - total * bps[s]
                       IN  2 * off <= 3 * Whole /\ -2 * off <= 3 * Whole
  <1> DEFINE S == DOMAIN bps
             rounded == [s \in S |-> halfEvenRound(total * bps[s])]
             diff == total - SumFunction(rounded)
             k == IF diff > 0 THEN diff ELSE -diff
             sign == IF diff > 0 THEN 1 ELSE -1
             planned == [s \in S |-> IF PositionAmong(s, S) <= k THEN rounded[s] + sign ELSE rounded[s]]
  <1>1. S \in SUBSET Slugs /\ bps \in [S -> Int] /\ total \in Int
    BY SharesFacts, BudgetsAssumption
  <1>2. Distribute(total, bps) = planned
    BY DEF Distribute
  <1>3. \A s \in S : rounded[s] \in Int
    <2> TAKE s \in S
    <2>1. total * bps[s] \in Int
      BY <1>1, Products
    <2> QED
      BY <2>1, HalfEven
  <1>4. sign \in Int
    OBVIOUS
  <1> HIDE DEF rounded, k, sign
  <1>5. planned \in [S -> Int] /\ DOMAIN planned = S
    BY <1>3, <1>4
  <1> HIDE DEF planned
  <1>6. planned \in Plans
    BY <1>1, <1>5 DEF Plans
  <1>7. ASSUME WholeSplit(bps)
        PROVE  /\ SumFunction(Distribute(total, bps)) = total
               /\ \A s \in S : LET off == Distribute(total, bps)[s] * Whole - total * bps[s]
                               IN  2 * off <= 3 * Whole /\ -2 * off <= 3 * Whole
    <2>1. SumFunction(bps) = Whole
      BY <1>7 DEF WholeSplit
    <2> HIDE DEF S
    <2> QED
      BY <1>1, <2>1, Distributed
  <1> QED
    BY <1>2, <1>5, <1>6, <1>7

\* A row of a list of shares and of its plan can be written.
LEMMA PlannedRow ==
    ASSUME NEW row, row \in Rows, row.state # "none", row.total \in Totals, row.bps # NoAllocations,
           row.planned = Distribute(row.total, row.bps), ~row.mixed => WholeSplit(row.bps)
    PROVE  row \in GoodWrites
  <1>1. row.bps \in Shares
    BY DEF Rows
  <1>2. DOMAIN row.planned = DOMAIN row.bps
    BY <1>1, PlanOf
  <1>3. WholeSplit(row.bps) => Planned(row)
    BY <1>1, PlanOf DEF Planned, Fair
  <1> QED
    BY <1>2, <1>3 DEF GoodWrites, GoodWrite

LEMMA GoodFacts ==
    /\ \A row \in GoodRows : row \in Rows /\ GoodRow(row)
    /\ \A row \in GoodWrites : row \in Rows /\ GoodWrite(row)
    /\ \A row \in GoodWrites : row.id # 0 => row \in GoodRows
    /\ NoBudget \in GoodRows
  <1>1. \A row \in GoodWrites : row.id # 0 => row \in GoodRows
    BY DEF GoodWrites, GoodWrite, GoodRows, GoodRow, Divided
  <1>2. NoBudget \in Rows
    BY BudgetsAssumption, NothingFacts DEF NoBudget, Rows
  <1>3. GoodRow(NoBudget)
    BY <1>2 DEF NoBudget, GoodRow
  <1> QED
    BY <1>1, <1>2, <1>3 DEF GoodRows, GoodWrites

LEMMA EditedShares ==
    ASSUME NEW bps \in Shares, WholeSplit(bps), NEW s \in DOMAIN bps, NEW points \in Percentages
    PROVE  /\ DecideEditCategoryPercentage(bps, s, points) \in Shares
           /\ WholeSplit(DecideEditCategoryPercentage(bps, s, points))
  <1> DEFINE e == DecideEditCategoryPercentage(bps, s, points)
             D == DOMAIN bps
  <1>1. e \in [D -> Nat] /\ WholeSplit(e) /\ D \in SUBSET Slugs
    <2>1. D \in SUBSET Slugs /\ bps \in [D -> Nat] /\ s \in D /\ points \in 0..Whole
      BY SharesFacts, BudgetsAssumption
    <2> HIDE DEF D
    <2> QED
      BY <2>1, EditedIsWhole
  <1> HIDE DEF e, D
  <1>2. ASSUME NEW t \in D PROVE e[t] \in 0..Whole
    <2>1. IsFiniteSet(D) /\ IsFiniteSet(D \ {t})
      BY <1>1, SlugFacts, FS_Subset
    <2>2. SumFunctionOnSet(e, D) = e[t] + SumFunctionOnSet(e, D \ {t})
      BY <1>1, <2>1, SumSplit DEF Ints
    <2>3. SumFunctionOnSet(e, D \ {t}) \in Nat
      BY <1>1, <2>1, NatSum
    <2>4. SumFunctionOnSet(e, D) = Whole
      BY <1>1, SumIsOnSet DEF WholeSplit
    <2>5. e[t] \in Nat
      BY <1>1
    <2>6. \A x, y \in Nat : x + y = Whole => x \in 0..Whole
      BY DEF Whole
    <2> QED
      BY <2>2, <2>3, <2>4, <2>5, <2>6
  <1>3. e \in [D -> 0..Whole]
    BY <1>1, <1>2
  <1>4. e \in Shares
    BY <1>1, <1>3 DEF Shares
  <1> QED
    BY <1>1, <1>4 DEF e

LEMMA IdleIsOK ==
    /\ IdleRequest \in Requests /\ RequestOK(IdleRequest)
    /\ IdleRequest.writes \in Decided /\ DOMAIN IdleRequest.writes = {}
  <1>1. NoBudget \in GoodRows
    BY GoodFacts
  <1>2. IdleRequest.writes \in Decided /\ DOMAIN IdleRequest.writes = {}
    <2> DEFINE w == [c \in {} |-> NoBudget]
    <2>1. w \in [{} -> GoodWrites] /\ DOMAIN w = {} /\ {} \in SUBSET Competences
      OBVIOUS
    <2> HIDE DEF w
    <2>2. w \in Decided
      BY <2>1 DEF Decided
    <2> QED
      BY <2>1, <2>2 DEF IdleRequest, w
  <1>3. IdleRequest \in Requests
    BY <1>1, <1>2 DEF IdleRequest, Requests
  <1>4. IdleRequest.pc = "idle" /\ IdleRequest.left = 0
    BY DEF IdleRequest
  <1> QED
    BY <1>2, <1>3, <1>4 DEF RequestOK

LEMMA BudgetsInitially == BudgetsInit => BudgetsInv
  <1> SUFFICES ASSUME BudgetsInit PROVE BudgetsInv
    OBVIOUS
  <1>0. MaxBudgetRows \in Nat /\ MaxBudgetEdits \in Nat
    BY BudgetsAssumption
  <1>1. NoBudget \in GoodRows /\ NoBudget.id = 0
    BY GoodFacts DEF NoBudget
  <1> QED
    BY <1>0, <1>1, IdleIsOK DEF BudgetsInit, BudgetsInv, IdsAreKeys

\* A new row takes the next id.
LEMMA CreatesRow ==
    ASSUME BudgetsInv, NEW c \in Competences, NEW row, CreateDraft(c, row),
           [row EXCEPT !.id = budgetRows + 1] \in GoodRows,
           [row EXCEPT !.id = budgetRows + 1].id = budgetRows + 1,
           UNCHANGED <<request, budgetEdits>>
    PROVE  BudgetsInv'
  <1> DEFINE new == [row EXCEPT !.id = budgetRows + 1]
  <1>1. budget' = [budget EXCEPT ![c] = new] /\ new \in GoodRows /\ new.id = budgetRows + 1
    BY DEF CreateDraft
  <1>2. budgetRows \in Nat /\ MaxBudgetRows \in Nat /\ budgetRows' = budgetRows + 1 /\ budgetRows < MaxBudgetRows
    BY BudgetsAssumption DEF CreateDraft, BudgetsInv, IdsAreKeys
  <1> HIDE DEF new
  <1>3. budget' \in [Competences -> GoodRows] /\ budget'[c] = new /\ \A d \in Competences \ {c} : budget'[d] = budget[d]
    BY <1>1 DEF BudgetsInv
  <1>4. \A d \in Competences : budget[d].id \in Nat
    BY <1>2, GoodFacts DEF BudgetsInv, Rows
  <1>5. IdsAreKeys'
    <2>1. \A d \in Competences : budget[d].id <= budgetRows
      BY DEF BudgetsInv, IdsAreKeys
    <2>2. \A d, e \in Competences : budget[d].id = budget[e].id /\ budget[d].id # 0 => d = e
      BY DEF BudgetsInv, IdsAreKeys
    <2>3. \A d \in Competences : budget'[d].id <= budgetRows + 1
      BY <1>1, <1>2, <1>3, <1>4, <2>1
    <2>4. ASSUME NEW d \in Competences, NEW e \in Competences,
                 budget'[d].id = budget'[e].id, budget'[d].id # 0
          PROVE  d = e
      BY <1>1, <1>2, <1>3, <1>4, <2>1, <2>2, <2>4
    <2> QED
      BY <1>2, <2>3, <2>4 DEF IdsAreKeys
  <1> QED
    BY <1>3, <1>5 DEF BudgetsInv

LEMMA CreateBudgetKeeps ==
    ASSUME BudgetsInv, NEW c \in Competences, NEW total \in Totals, NEW split \in Splits,
           CreateBudget(c, total, split)
    PROVE  BudgetsInv'
  <1> DEFINE bps == split.last
             plan == Unplanned(bps)
             twice == DOMAIN split.repeated # {}
             row == Draft(total, FALSE, bps, plan, twice)
             new == [row EXCEPT !.id = budgetRows + 1]
  <1>1. /\ bps \in Shares /\ DOMAIN split.repeated \subseteq DOMAIN bps
        /\ split.repeated = [s \in DOMAIN split.repeated |-> split.repeated[s]]
    BY BudgetsAssumption DEF Shares
  <1>2. budgetRows + 1 \in 1..MaxBudgetRows /\ MaxBudgetRows \in Nat
    BY BudgetsAssumption DEF CreateBudget, CreateDraft, BudgetsInv, IdsAreKeys
  <1>3. plan \in Plans /\ DOMAIN plan = DOMAIN bps
    <2>1. DOMAIN bps \in SUBSET Slugs /\ plan \in [DOMAIN bps -> Int]
      BY <1>1, SharesFacts DEF Unplanned
    <2> HIDE DEF plan
    <2> QED
      BY <2>1 DEF Plans
  <1>4. ASSUME ~twice PROVE WholeSplit(bps)
    <2>1. SumFunction(split.repeated) = 0
      BY <1>1, <1>4, SumIsOnSet, SumOfNone
    <2>2. SumFunction(bps) \in Int
      <3>1. DOMAIN bps \in SUBSET Slugs /\ bps \in [DOMAIN bps -> Int]
        BY <1>1, SharesFacts
      <3> QED
        BY <3>1, SlugFacts, FS_Subset, SumType, SumIsOnSet DEF Ints
    <2> QED
      BY <2>1, <2>2 DEF CreateBudget, WholeSplit
  <1>5. bps # NoAllocations
    <2> SUFFICES ASSUME bps = NoAllocations PROVE FALSE
      OBVIOUS
    <2>1. ~twice
      BY <1>1, NothingFacts
    <2> QED
      BY <1>4, <2>1, NothingFacts
  <1>6. /\ new \in Rows /\ new.id = budgetRows + 1 /\ new.state = "draft" /\ new.total = total
        /\ new.bps = bps /\ new.planned = plan /\ new.mixed = twice
    <2>1. twice \in BOOLEAN /\ budgetRows + 1 \in 0..MaxBudgetRows
      BY <1>2
    <2> HIDE DEF twice, plan, bps
    <2>2. /\ new.id = budgetRows + 1 /\ new.state = "draft" /\ new.total = total /\ new.auto = FALSE
          /\ new.bps = bps /\ new.planned = plan /\ new.mixed = twice
      BY DEF Draft
    <2>3. new = [k \in {"id", "state", "total", "auto", "bps", "planned", "mixed"} |-> new[k]]
      BY DEF Draft
    <2> HIDE DEF new
    <2>4. new = [id |-> new.id, state |-> new.state, total |-> new.total, auto |-> new.auto,
                 bps |-> new.bps, planned |-> new.planned, mixed |-> new.mixed]
      BY <2>3
    <2>5. new \in Rows
      BY <1>1, <1>3, <2>1, <2>2, <2>4 DEF Rows
    <2> QED
      BY <2>2, <2>5
  <1> HIDE DEF new
  <1>7. ~new.mixed => Divided(new)
    BY <1>4, <1>6 DEF Divided
  <1>8. new \in GoodRows
    BY <1>2, <1>3, <1>5, <1>6, <1>7 DEF GoodRows, GoodRow
  <1> QED
    BY <1>6, <1>8, CreatesRow DEF CreateBudget, new

LEMMA EnsureExistsKeeps ==
    ASSUME BudgetsInv, NEW c \in Competences, EnsureExists(c)
    PROVE  BudgetsInv'
  <1> DEFINE row == Draft(0, TRUE, NoAllocations, NoAllocations, FALSE)
             new == [row EXCEPT !.id = budgetRows + 1]
  <1>1. budgetRows + 1 \in 1..MaxBudgetRows /\ MaxBudgetRows \in Nat
    BY BudgetsAssumption DEF EnsureExists, CreateDraft, BudgetsInv, IdsAreKeys
  <1>2. NoAllocations \in Shares /\ NoAllocations \in Plans
    BY NothingFacts
  <1>3. /\ new \in Rows /\ new.id = budgetRows + 1 /\ new.state = "draft"
        /\ new.bps = NoAllocations /\ new.planned = NoAllocations
    <2>1. budgetRows + 1 \in 0..MaxBudgetRows
      BY <1>1
    <2>2. /\ new.id = budgetRows + 1 /\ new.state = "draft" /\ new.total = 0 /\ new.auto = TRUE
          /\ new.bps = NoAllocations /\ new.planned = NoAllocations /\ new.mixed = FALSE
      BY DEF Draft
    <2>3. new = [k \in {"id", "state", "total", "auto", "bps", "planned", "mixed"} |-> new[k]]
      BY DEF Draft
    <2> HIDE DEF new
    <2>4. new = [id |-> new.id, state |-> new.state, total |-> new.total, auto |-> new.auto,
                 bps |-> new.bps, planned |-> new.planned, mixed |-> new.mixed]
      BY <2>3
    <2>5. new \in Rows
      BY <1>2, <2>1, <2>2, <2>4 DEF Rows
    <2> QED
      BY <2>2, <2>5
  <1> HIDE DEF new
  <1>4. new \in GoodRows
    BY <1>1, <1>3 DEF GoodRows, GoodRow
  <1> QED
    BY <1>3, <1>4, CreatesRow DEF EnsureExists, new

LEMMA DeleteDraftKeeps ==
    ASSUME BudgetsInv, NEW c \in Competences, DeleteDraft(c)
    PROVE  BudgetsInv'
  <1>1. NoBudget \in GoodRows /\ NoBudget.id = 0
    BY GoodFacts DEF NoBudget
  <1>2. /\ budget' \in [Competences -> GoodRows] /\ budget'[c] = NoBudget
        /\ \A d \in Competences \ {c} : budget'[d] = budget[d]
    BY <1>1 DEF DeleteDraft, BudgetsInv
  <1>3. IdsAreKeys'
    BY <1>1, <1>2 DEF DeleteDraft, BudgetsInv, IdsAreKeys
  <1> QED
    BY <1>2, <1>3 DEF DeleteDraft, BudgetsInv

-----------------------------------------------------------------------------
\* What a unit of work may have decided to write.
LEMMA DecidesWrites ==
    ASSUME BudgetsInv, NEW r \in BudgetRequests, NEW writes \in Decided, Decide(r, writes),
           \A c, d \in DOMAIN writes : writes[c].id = 0 => c = d
    PROVE  BudgetsInv'
  <1> DEFINE q == [request[r] EXCEPT !.pc = "write", !.writes = writes]
  <1>1. request[r] \in Requests /\ RequestOK(request[r])
    BY DEF BudgetsInv
  <1>2. request' = [request EXCEPT ![r] = q]
    BY DEF Decide
  <1>3. q \in Requests /\ q.pc = "write" /\ q.left = 0 /\ q.writes = writes
    BY <1>1 DEF Requests, RequestOK, Decide
  <1> HIDE DEF q
  <1>4. RequestOK(q)
    BY <1>3 DEF RequestOK
  <1>5. request' \in [BudgetRequests -> Requests] /\ \A s \in BudgetRequests : RequestOK(request'[s])
    BY <1>2, <1>3, <1>4 DEF BudgetsInv
  <1>6. budgetEdits' \in 0..MaxBudgetEdits
    BY BudgetsAssumption DEF Decide, BudgetsInv
  <1> QED
    BY <1>5, <1>6 DEF Decide, BudgetsInv, IdsAreKeys

\* One row, with a list of shares and its plan.
LEMMA DecidesRow ==
    ASSUME BudgetsInv, NEW c \in Competences, budget[c].state # "none",
           NEW state \in {"draft", "active"}, NEW total \in Totals, NEW bps \in Shares,
           NEW mixed \in BOOLEAN, bps # NoAllocations, ~mixed => WholeSplit(bps)
    PROVE  /\ [budget[c] EXCEPT !.state = state, !.total = total, !.bps = bps,
                                !.planned = Distribute(total, bps), !.mixed = mixed] \in GoodWrites
           /\ [budget[c] EXCEPT !.state = state, !.total = total, !.bps = bps,
                                !.planned = Distribute(total, bps), !.mixed = mixed].id # 0
  <1>1. budget[c] \in Rows /\ budget[c].id # 0
    BY GoodFacts DEF BudgetsInv, GoodRow
  <1> DEFINE p == Distribute(total, bps)
             new == [budget[c] EXCEPT !.state = state, !.total = total, !.bps = bps, !.planned = p,
                                      !.mixed = mixed]
  <1>2. p \in Plans
    BY PlanOf
  <1> HIDE DEF p
  <1>3. new \in Rows
    BY <1>1, <1>2 DEF Rows
  <1>4. /\ new.id = budget[c].id /\ new.planned = p /\ new.total = total /\ new.bps = bps
        /\ new.state = state /\ new.mixed = mixed
    BY <1>1 DEF Rows
  <1> HIDE DEF new
  <1>5. new.planned = Distribute(new.total, new.bps)
    BY <1>4 DEF p
  <1>6. new \in GoodWrites
    BY <1>3, <1>4, <1>5, PlannedRow
  <1>7. new.id # 0
    BY <1>1, <1>4
  <1> QED
    BY <1>6, <1>7 DEF new, p

LEMMA OneIsDecided ==
    ASSUME NEW c \in Competences, NEW row \in GoodWrites
    PROVE  One(c, row) \in Decided /\ \A d, e \in DOMAIN One(c, row) : d = e
  <1>1. One(c, row) \in [{c} -> GoodWrites] /\ {c} \in SUBSET Competences
    BY DEF One
  <1> QED
    BY <1>1 DEF Decided

LEMMA ActivatesKeeps ==
    ASSUME BudgetsInv, NEW r \in BudgetRequests, NEW c \in Competences, budget[c].state # "none",
           NEW total \in Totals, NEW bps \in Shares, WholeSplit(bps),
           Decide(r, One(c, Activated(budget[c], total, bps)))
    PROVE  BudgetsInv'
  <1> DEFINE row == Activated(budget[c], total, bps)
  <1>1. row \in GoodWrites
    BY DecidesRow, NothingFacts DEF Activated
  <1> HIDE DEF row
  <1>2. One(c, row) \in Decided /\ \A d, e \in DOMAIN One(c, row) : d = e
    BY <1>1, OneIsDecided
  <1>3. Decide(r, One(c, row))
    BY DEF row
  <1> QED
    BY <1>2, <1>3, DecidesWrites

\* The rows an edit reads have the shares of a total.
LEMMA EditableRow ==
    ASSUME BudgetsInv, NEW c \in Competences, WholeSplit(budget[c].bps)
    PROVE  budget[c].bps \in Shares /\ budget[c].total \in Totals
  <1>1. budget[c] \in Rows /\ GoodRow(budget[c]) /\ budget[c].bps # NoAllocations
    BY NothingFacts, GoodFacts DEF BudgetsInv
  <1> QED
    BY <1>1 DEF GoodRow, Rows

\* What is valid as a source can be copied.
LEMMA ValidIsGood ==
    ASSUME BudgetsInv, NEW c \in Competences, budget[c].state # "none", ValidSource(budget[c])
    PROVE  GoodSource(budget[c]) /\ budget[c].bps \in Shares /\ budget[c].mixed \in BOOLEAN
  <1>1. /\ budget[c] \in Rows /\ GoodRow(budget[c]) /\ budget[c].bps \in Shares
        /\ budget[c].mixed \in BOOLEAN /\ budget[c].state \in {"none", "draft", "active"}
    BY GoodFacts DEF BudgetsInv, Rows
  <1>2. CASE budget[c].state = "draft"
    BY <1>1, <1>2, NothingFacts DEF ValidSource, GoodSource, GoodRow
  <1>3. CASE budget[c].state = "active"
    BY <1>1, <1>3 DEF GoodSource, GoodRow, Divided
  <1> QED
    BY <1>1, <1>2, <1>3

LEMMA SyncKeeps ==
    ASSUME BudgetsInv, NEW r \in BudgetRequests, NEW c \in Competences, SyncFutureBudgets(r, c)
    PROVE  BudgetsInv'
  <1> DEFINE future == {d \in Competences : d > c /\ budget[d].state = "draft"}
             writes == [d \in future |-> Rebase(budget[d], budget[c])]
  <1>1. GoodSource(budget[c]) /\ budget[c].bps \in Shares /\ budget[c].mixed \in BOOLEAN
    BY ValidIsGood DEF SyncFutureBudgets
  <1>2. \A d \in future : /\ Rebase(budget[d], budget[c]) \in GoodWrites
                          /\ Rebase(budget[d], budget[c]).id # 0
    <2> TAKE d \in future
    <2>1. d \in Competences /\ budget[d].state # "none"
      OBVIOUS
    <2> HIDE DEF future, writes
    <2> DEFINE total == budget[c].total
               bps == budget[c].bps
               mixed == budget[c].mixed
    <2>2. total \in Totals /\ bps \in Shares /\ mixed \in BOOLEAN /\ bps # NoAllocations
          /\ (~mixed => WholeSplit(bps))
      BY <1>1 DEF GoodSource
    <2>3. Rebase(budget[d], budget[c]) =
            [budget[d] EXCEPT !.state = "draft", !.total = total, !.bps = bps,
                              !.planned = Distribute(total, bps), !.mixed = mixed]
      BY DEF Rebase
    <2> HIDE DEF total, bps, mixed
    <2>4. /\ [budget[d] EXCEPT !.state = "draft", !.total = total, !.bps = bps,
                               !.planned = Distribute(total, bps), !.mixed = mixed] \in GoodWrites
          /\ [budget[d] EXCEPT !.state = "draft", !.total = total, !.bps = bps,
                               !.planned = Distribute(total, bps), !.mixed = mixed].id # 0
      BY <2>1, <2>2, DecidesRow
    <2> QED
      BY <2>3, <2>4
  <1>3. future \in SUBSET Competences
    OBVIOUS
  <1>4. Decide(r, writes)
    BY DEF SyncFutureBudgets
  <1> HIDE DEF future
  <1>5. writes \in [future -> GoodWrites] /\ \A d \in DOMAIN writes : writes[d].id # 0
    BY <1>2
  <1> HIDE DEF writes
  <1>6. writes \in Decided
    BY <1>3, <1>5 DEF Decided
  <1> QED
    BY <1>4, <1>5, <1>6, DecidesWrites

LEMMA RecurrenceKeeps ==
    ASSUME BudgetsInv, NEW r \in BudgetRequests, NEW c \in Competences,
           NEW months \in 1..(LastCompetence - c), CreateRecurrence(r, c, months)
    PROVE  BudgetsInv'
  <1> DEFINE q == [request[r] EXCEPT !.pc = "month", !.source = budget[c], !.month = c + 1, !.left = months]
  <1>1. request[r] \in Requests /\ RequestOK(request[r]) /\ budget[c] \in GoodRows
    BY DEF BudgetsInv
  <1>2. request' = [request EXCEPT ![r] = q]
    BY DEF CreateRecurrence
  <1>3. GoodSource(budget[c])
    BY ValidIsGood DEF CreateRecurrence
  <1>4. months \in Nat \ {0} /\ c + 1 \in Nat \ {0} /\ c + 1 \in Competences
    BY BudgetsAssumption DEF Competences
  <1>5. /\ q \in Requests /\ q.pc = "month" /\ q.left = months /\ q.month = c + 1
        /\ q.writes = request[r].writes /\ q.source = budget[c]
    BY <1>1, <1>4 DEF Requests
  <1> HIDE DEF q
  <1>6. RequestOK(q)
    BY <1>1, <1>3, <1>4, <1>5 DEF RequestOK
  <1>7. request' \in [BudgetRequests -> Requests] /\ \A s \in BudgetRequests : RequestOK(request'[s])
    BY <1>2, <1>5, <1>6 DEF BudgetsInv
  <1>8. budgetEdits' \in 0..MaxBudgetEdits
    BY BudgetsAssumption DEF CreateRecurrence, BudgetsInv
  <1> QED
    BY <1>7, <1>8 DEF CreateRecurrence, BudgetsInv, IdsAreKeys

LEMMA NextMonthOK ==
    ASSUME NEW q \in Requests,
           q.left # 0 => q.month # 0 /\ GoodSource(q.source)
    PROVE  AfterMonth(q) \in Requests /\ RequestOK(AfterMonth(q))
  <1>2. CASE q.left = 0 \/ q.month > LastCompetence
    BY <1>2, IdleIsOK DEF AfterMonth
  <1>3. CASE ~(q.left = 0 \/ q.month > LastCompetence)
    <2> DEFINE w == IdleRequest.writes
               n == [q EXCEPT !.pc = "month", !.writes = w]
    <2>1. w \in Decided /\ DOMAIN w = {}
      BY IdleIsOK
    <2> HIDE DEF w
    <2>2. /\ n \in Requests /\ n.pc = "month" /\ n.left = q.left /\ n.month = q.month
          /\ n.source = q.source /\ n.writes = w
      BY <2>1 DEF Requests
    <2>3. AfterMonth(q) = n
      BY <1>3 DEF AfterMonth, w
    <2> HIDE DEF n
    <2>4. q.left # 0 /\ q.month \in Nat
      BY <1>3 DEF Requests
    <2>5. n.month # 0 => n.month \in Competences
      BY <1>3, <2>2, <2>4, BudgetsAssumption DEF Competences
    <2>6. RequestOK(n)
      BY <2>1, <2>2, <2>4, <2>5 DEF RequestOK
    <2> QED
      BY <2>2, <2>3, <2>6
  <1> QED
    BY <1>2, <1>3

\* A month of a recurrence: the clone of the source, or a draft rebased on it.
LEMMA ProcessMonthKeeps ==
    ASSUME BudgetsInv, NEW r \in BudgetRequests, processMonth(r)
    PROVE  BudgetsInv'
  <1> DEFINE q == request[r]
             row == budget[q.month]
             src == q.source
             done == MonthDone(q)
             clone == Draft(src.total, FALSE, src.bps, Distribute(src.total, src.bps), src.mixed)
             new == IF row.state = "none" THEN clone ELSE Rebase(row, src)
             write == [done EXCEPT !.pc = "write", !.writes = One(q.month, new)]
             next == IF row.state = "active" THEN AfterMonth(done) ELSE write
  <1>1. q \in Requests /\ RequestOK(q) /\ q.pc = "month"
    BY DEF BudgetsInv, processMonth
  <1>2. /\ q.left \in Nat \ {0} /\ q.month \in Competences /\ q.month \in Nat
        /\ GoodSource(src) /\ src.bps \in Shares /\ src.mixed \in BOOLEAN
    BY <1>1, GoodFacts DEF RequestOK, Requests, Rows
  <1>3. request' = [request EXCEPT ![r] = next]
    BY DEF processMonth
  <1>4. row \in GoodRows /\ row.state \in {"none", "draft", "active"}
    BY <1>2, GoodFacts DEF BudgetsInv, Rows
  <1>5. /\ done \in Requests /\ done.left \in Nat /\ done.month \in Nat \ {0}
        /\ done.pc = "month" /\ done.source = src /\ done.writes = q.writes
    <2>1. q.month + 1 \in Nat \ {0} /\ q.left - 1 \in Nat
      BY <1>2
    <2> HIDE DEF q
    <2>2. done \in Requests /\ done.left = q.left - 1 /\ done.month = q.month + 1
      BY <1>1, <2>1 DEF MonthDone, Requests
    <2>3. done.pc = "month" /\ done.source = src /\ done.writes = q.writes
      BY <1>1, <2>1 DEF MonthDone, Requests
    <2> HIDE DEF done
    <2> QED
      BY <2>1, <2>2, <2>3
  <1>6. new \in GoodWrites
    <2>1. CASE row.state = "none"
      <3> DEFINE p == Distribute(src.total, src.bps)
      <3>1. p \in Plans /\ src.total \in Totals /\ src.bps # NoAllocations
        BY <1>2, PlanOf DEF GoodSource
      <3>2. 0 \in 0..MaxBudgetRows
        BY BudgetsAssumption
      <3> HIDE DEF p
      <3>3. /\ clone \in Rows /\ clone.total = src.total /\ clone.bps = src.bps
            /\ clone.planned = p /\ clone.mixed = src.mixed /\ clone.state = "draft"
        BY <1>2, <3>1, <3>2 DEF Draft, Rows, p
      <3> HIDE DEF clone
      <3>4. clone \in GoodWrites
        BY <1>2, <3>1, <3>3, PlannedRow DEF p, GoodSource
      <3> QED
        BY <2>1, <3>4
    <2>2. CASE row.state # "none"
      <3>1. Rebase(row, src) \in GoodWrites
        BY <1>2, <2>2, DecidesRow DEF Rebase, GoodSource
      <3> QED
        BY <2>2, <3>1
    <2> QED
      BY <2>1, <2>2
  <1> HIDE DEF new, row
  <1>7. One(q.month, new) \in Decided /\ \A d, e \in DOMAIN One(q.month, new) : d = e
    BY <1>2, <1>6, OneIsDecided
  <1>8. next \in Requests /\ RequestOK(next)
    <2>1. CASE row.state = "active"
      <3> HIDE DEF done
      <3>2. AfterMonth(done) \in Requests /\ RequestOK(AfterMonth(done))
        BY <1>2, <1>5, NextMonthOK
      <3> QED
        BY <2>1, <3>2
    <2>2. CASE row.state # "active"
      <3> DEFINE w == One(q.month, new)
      <3>1. /\ write \in Requests /\ write.pc = "write" /\ write.left = done.left
            /\ write.month = done.month /\ write.source = src /\ write.writes = w
        <4> HIDE DEF w, done
        <4> QED
          BY <1>5, <1>7 DEF Requests, w
      <3> HIDE DEF w, write, src, q
      <3>2. RequestOK(write)
        BY <1>2, <1>5, <1>7, <3>1 DEF RequestOK, w
      <3> QED
        BY <2>2, <3>1, <3>2
    <2> QED
      BY <2>1, <2>2
  <1> HIDE DEF next
  <1>9. request' \in [BudgetRequests -> Requests] /\ \A s \in BudgetRequests : RequestOK(request'[s])
    BY <1>3, <1>8 DEF BudgetsInv
  <1> QED
    BY <1>9 DEF processMonth, BudgetsInv, IdsAreKeys

-----------------------------------------------------------------------------
LEMMA Upserted ==
    ASSUME NEW new, NEW old, new = [s \in DOMAIN new |-> new[s]], DOMAIN old \subseteq DOMAIN new
    PROVE  upsertAllocation(new, old) = new
  <1>1. DOMAIN new \cup DOMAIN old = DOMAIN new
    OBVIOUS
  <1> QED
    BY <1>1 DEF upsertAllocation

LEMMA UpsertedMapping ==
    ASSUME NEW new, NEW old, NEW T, new \in [DOMAIN new -> T], old \in [DOMAIN old -> T]
    PROVE  /\ upsertAllocation(new, old) \in [DOMAIN new \cup DOMAIN old -> T]
           /\ DOMAIN upsertAllocation(new, old) = DOMAIN new \cup DOMAIN old
  BY DEF upsertAllocation

\* An update writes the row that was decided, whatever was committed meanwhile,
\* or a row of more than one list.
LEMMA UpdatesRow ==
    ASSUME NEW row \in GoodRows, NEW new \in GoodWrites, row.id = new.id, new.id # 0
    PROVE  Activate(row, new) \in GoodRows /\ Activate(row, new).id = row.id
  <1>1. row \in Rows /\ GoodRow(row) /\ new \in Rows /\ GoodWrite(new)
    BY GoodFacts
  <1>2. /\ row.bps \in Shares /\ row.planned \in Plans /\ new.bps \in Shares /\ new.planned \in Plans
        /\ DOMAIN row.planned = DOMAIN row.bps /\ DOMAIN new.planned = DOMAIN new.bps
        /\ row.auto \in BOOLEAN /\ new.mixed \in BOOLEAN
    BY <1>1 DEF Rows, GoodRow, GoodWrite
  <1> DEFINE E == DOMAIN new.bps \cup DOMAIN row.bps
             kept == DOMAIN row.bps \subseteq DOMAIN new.bps
             shares == upsertAllocation(new.bps, row.bps)
             plan == upsertAllocation(new.planned, row.planned)
             m == new.mixed \/ ~kept
             a == [new EXCEPT !.auto = row.auto, !.bps = shares, !.planned = plan, !.mixed = m]
  <1>3. shares \in [E -> 0..Whole] /\ plan \in [E -> Int] /\ DOMAIN shares = E /\ DOMAIN plan = E
    <2>1. shares \in [E -> 0..Whole] /\ DOMAIN shares = E
      <3>1. new.bps \in [DOMAIN new.bps -> 0..Whole] /\ row.bps \in [DOMAIN row.bps -> 0..Whole]
        BY <1>2, SharesFacts
      <3> QED
        BY <3>1, UpsertedMapping
    <2>2. plan \in [E -> Int] /\ DOMAIN plan = E
      <3>1. new.planned \in [DOMAIN new.planned -> Int] /\ row.planned \in [DOMAIN row.planned -> Int]
        BY <1>2, PlansFacts
      <3>2. DOMAIN new.planned \cup DOMAIN row.planned = E
        BY <1>2
      <3> HIDE DEF E
      <3> QED
        BY <3>1, <3>2, UpsertedMapping
    <2> QED
      BY <2>1, <2>2
  <1>4. E \in SUBSET Slugs /\ E # {}
    BY <1>1, <1>2, SharesFacts, NothingFacts DEF GoodWrite
  <1>5. ASSUME kept PROVE shares = new.bps /\ plan = new.planned
    <2>1. new.bps = [s \in DOMAIN new.bps |-> new.bps[s]]
      BY <1>2, SharesFacts
    <2>2. new.planned = [s \in DOMAIN new.planned |-> new.planned[s]]
      BY <1>2, PlansFacts
    <2>3. DOMAIN row.planned \subseteq DOMAIN new.planned
      BY <1>2, <1>5
    <2> QED
      BY <1>5, <2>1, <2>2, <2>3, Upserted
  <1>6. shares \in Shares /\ plan \in Plans /\ m \in BOOLEAN
    <2> HIDE DEF E, shares, plan
    <2> QED
      BY <1>3, <1>4 DEF Shares, Plans
  <1>7. Activate(row, new) = a
    BY DEF Activate
  <1> HIDE DEF shares, plan, m
  <1>8. /\ a \in Rows /\ a.id = new.id /\ a.state = new.state /\ a.total = new.total
        /\ a.bps = shares /\ a.planned = plan /\ a.mixed = m
    BY <1>1, <1>2, <1>6 DEF Rows
  <1> HIDE DEF a
  <1>9. ASSUME ~m PROVE Divided(a)
    <2>1. kept /\ ~new.mixed
      BY <1>9 DEF m
    <2>2. WholeSplit(new.bps) /\ Planned(new)
      BY <1>1, <2>1 DEF GoodWrite
    <2>3. a.bps = new.bps /\ a.planned = new.planned /\ a.total = new.total
      BY <1>5, <1>8, <2>1
    <2> QED
      BY <2>2, <2>3 DEF Divided, Planned, Fair
  <1>10. a.bps # NoAllocations
    BY <1>3, <1>4, <1>8, NothingFacts
  <1>11. DOMAIN a.planned = DOMAIN a.bps
    BY <1>3, <1>8
  <1>12. a.state # "none" /\ a.total \in Totals
    BY <1>1, <1>8 DEF GoodWrite
  <1>13. GoodRow(a)
    BY <1>8, <1>9, <1>10, <1>11, <1>12 DEF GoodRow
  <1> QED
    BY <1>7, <1>8, <1>13 DEF GoodRows

LEMMA InsertsRow ==
    ASSUME NEW new \in GoodWrites, NEW id \in 1..MaxBudgetRows
    PROVE  [new EXCEPT !.id = id] \in GoodRows /\ [new EXCEPT !.id = id].id = id
  <1> DEFINE a == [new EXCEPT !.id = id]
  <1>1. new \in Rows /\ GoodWrite(new)
    BY GoodFacts
  <1>2. id \in 0..MaxBudgetRows /\ id # 0
    BY BudgetsAssumption
  <1>3. /\ a \in Rows /\ a.id = id /\ a.state = new.state /\ a.total = new.total
        /\ a.bps = new.bps /\ a.planned = new.planned /\ a.mixed = new.mixed
    BY <1>1, <1>2 DEF Rows
  <1> HIDE DEF a
  <1>4. ~a.mixed => Divided(a)
    BY <1>1, <1>3 DEF GoodWrite, Divided, Planned, Fair
  <1>5. GoodRow(a)
    BY <1>1, <1>2, <1>3, <1>4 DEF GoodRow, GoodWrite
  <1> QED
    BY <1>3, <1>5 DEF a, GoodRows

LEMMA SavesRows ==
    ASSUME BudgetsInv, NEW writes \in Decided, Storable(writes),
           \A c, d \in DOMAIN writes : writes[c].id = 0 => c = d,
           budget' = SaveAll(writes), budgetRows' = budgetRows + Cardinality(Inserts(writes)),
           budgetRows' <= MaxBudgetRows
    PROVE  budget' \in [Competences -> GoodRows] /\ IdsAreKeys'
  <1>0. budgetRows \in Nat /\ MaxBudgetRows \in Nat /\ budgetRows <= MaxBudgetRows
    BY BudgetsAssumption DEF BudgetsInv, IdsAreKeys
  <1>1. /\ DOMAIN writes \subseteq Competences
        /\ \A c \in DOMAIN writes : writes[c] \in GoodWrites
    BY DEF Decided
  <1>2. \A c \in Competences : budget[c] \in GoodRows /\ budget[c].id \in Nat /\ budget[c].id <= budgetRows
    <2>1. \A c \in Competences : budget[c] \in GoodRows /\ budget[c].id <= budgetRows
      BY DEF BudgetsInv, IdsAreKeys
    <2>2. \A c \in Competences : budget[c].id \in 0..MaxBudgetRows
      BY <2>1, GoodFacts DEF Rows
    <2> QED
      BY <1>0, <2>1, <2>2
  <1>3. \A c, d \in Competences : budget[c].id = budget[d].id /\ budget[c].id # 0 => c = d
    BY DEF BudgetsInv, IdsAreKeys
  <1>5. CASE Inserts(writes) = {}
    <2>1. budgetRows' = budgetRows
      BY <1>0, <1>5, FS_EmptySet
    <2>2. ASSUME NEW c \in Competences PROVE budget'[c] \in GoodRows /\ budget'[c].id = budget[c].id
      <3>1. CASE c \notin DOMAIN writes
        BY <1>2, <3>1 DEF SaveAll
      <3>2. CASE c \in DOMAIN writes
        <4>1. budget[c].id = writes[c].id /\ writes[c].id # 0
          BY <1>5, <3>2 DEF Storable, Inserts
        <4>2. budget'[c] = Activate(budget[c], writes[c])
          BY <1>5, <3>2 DEF SaveAll
        <4> QED
          BY <1>1, <1>2, <3>2, <4>1, <4>2, UpdatesRow
      <3> QED
        BY <3>1, <3>2
    <2>3. budget' \in [Competences -> GoodRows]
      BY <2>2 DEF SaveAll
    <2> QED
      BY <1>0, <1>2, <1>3, <2>1, <2>2, <2>3 DEF IdsAreKeys
  <1>6. CASE Inserts(writes) # {}
    <2>1. PICK x \in DOMAIN writes : writes[x].id = 0
      BY <1>6 DEF Inserts
    <2>2. DOMAIN writes = {x} /\ Inserts(writes) = {x} /\ x \in Competences
      BY <1>1, <2>1 DEF Inserts
    <2>3. budgetRows' = budgetRows + 1 /\ budgetRows + 1 \in 1..MaxBudgetRows
      <3>1. Cardinality(Inserts(writes)) = 1
        BY <2>2, FS_Singleton
      <3> QED
        BY <1>0, <3>1
    <2>4. budget'[x] \in GoodRows /\ budget'[x].id = budgetRows + 1
      <3>1. budget'[x] = [writes[x] EXCEPT !.id = budgetRows + 1]
        BY <2>2 DEF SaveAll
      <3> QED
        BY <1>1, <2>1, <2>3, <3>1, InsertsRow
    <2>5. \A c \in Competences : c # x => budget'[c] = budget[c]
      BY <2>2 DEF SaveAll
    <2>6. budget' \in [Competences -> GoodRows]
      BY <1>2, <2>4, <2>5 DEF SaveAll
    <2>7. \A c \in Competences : budget'[c].id <= budgetRows'
      BY <1>0, <1>2, <2>3, <2>4, <2>5
    <2>8. ASSUME NEW c \in Competences, NEW d \in Competences,
                 budget'[c].id = budget'[d].id, budget'[c].id # 0
          PROVE  c = d
      BY <1>0, <1>2, <1>3, <2>4, <2>5, <2>8
    <2> QED
      BY <1>0, <2>3, <2>6, <2>7, <2>8 DEF IdsAreKeys
  <1> QED
    BY <1>5, <1>6

LEMMA WriteKeeps ==
    ASSUME BudgetsInv, NEW r \in BudgetRequests, Write(r)
    PROVE  BudgetsInv'
  <1> DEFINE q == request[r]
  <1>1. q \in Requests /\ RequestOK(q) /\ q.writes \in Decided
    BY DEF BudgetsInv, Requests
  <1>2. request' = [request EXCEPT ![r] = AfterMonth(q)]
    BY DEF Write
  <1>3. request' \in [BudgetRequests -> Requests] /\ \A s \in BudgetRequests : RequestOK(request'[s])
    <2>1. AfterMonth(q) \in Requests /\ RequestOK(AfterMonth(q))
      BY <1>1, NextMonthOK DEF RequestOK
    <2> QED
      BY <1>2, <2>1 DEF BudgetsInv
  <1>4. budget' \in [Competences -> GoodRows] /\ IdsAreKeys'
    <2>1. CASE Storable(q.writes)
      BY <1>1, <2>1, SavesRows DEF Write, RequestOK
    <2>2. CASE ~Storable(q.writes)
      BY <2>2 DEF Write, BudgetsInv, IdsAreKeys
    <2> QED
      BY <2>1, <2>2
  <1> QED
    BY <1>3, <1>4 DEF Write, BudgetsInv

LEMMA BudgetsStep ==
    ASSUME BudgetsInv, [BudgetsNext]_budgetsVars
    PROVE  BudgetsInv'
  <1>1. ASSUME NEW c \in Competences, NEW total \in Totals, NEW split \in Splits, CreateBudget(c, total, split)
        PROVE  BudgetsInv'
    BY <1>1, CreateBudgetKeeps
  <1>2. ASSUME NEW c \in Competences, EnsureExists(c) PROVE BudgetsInv'
    BY <1>2, EnsureExistsKeeps
  <1>3. ASSUME NEW c \in Competences, DeleteDraft(c) PROVE BudgetsInv'
    BY <1>3, DeleteDraftKeeps
  <1>4. ASSUME NEW r \in BudgetRequests, NEW c \in Competences, ActivateBudget(r, c) PROVE BudgetsInv'
    BY <1>4, EditableRow, ActivatesKeeps DEF ActivateBudget
  <1>5. ASSUME NEW r \in BudgetRequests, NEW c \in Competences, NEW total \in Totals,
               EditBudgetTotal(r, c, total)
        PROVE  BudgetsInv'
    BY <1>5, EditableRow, ActivatesKeeps DEF EditBudgetTotal
  <1>6. ASSUME NEW r \in BudgetRequests, NEW c \in Competences, NEW s \in Slugs,
               NEW points \in Percentages, EditCategoryPercentage(r, c, s, points)
        PROVE  BudgetsInv'
    BY <1>6, EditableRow, EditedShares, ActivatesKeeps DEF EditCategoryPercentage
  <1>7. ASSUME NEW r \in BudgetRequests, NEW c \in Competences, SyncFutureBudgets(r, c) PROVE BudgetsInv'
    BY <1>7, SyncKeeps
  <1>8. ASSUME NEW r \in BudgetRequests, NEW c \in Competences,
               NEW months \in 1..(LastCompetence - c), CreateRecurrence(r, c, months)
        PROVE  BudgetsInv'
    BY <1>8, RecurrenceKeeps
  <1>9. ASSUME NEW r \in BudgetRequests, processMonth(r) PROVE BudgetsInv'
    BY <1>9, ProcessMonthKeeps
  <1>10. ASSUME NEW r \in BudgetRequests, Write(r) PROVE BudgetsInv'
    BY <1>10, WriteKeeps
  <1>11. CASE UNCHANGED budgetsVars
    BY <1>11 DEF budgetsVars, BudgetsInv, IdsAreKeys
  <1> QED
    BY <1>1, <1>2, <1>3, <1>4, <1>5, <1>6, <1>7, <1>8, <1>9, <1>10, <1>11 DEF BudgetsNext

\* Budgets have their types: the id of a row is its own, and what is active
\* has a total and shares (entities.Budget, budget_repository).
THEOREM BudgetsTypeCorrect == BudgetsSpec => []BudgetsTypeOK
  <1>1. BudgetsInv => BudgetsTypeOK
    <2> SUFFICES ASSUME BudgetsInv PROVE BudgetsTypeOK
      OBVIOUS
    <2>1. ASSUME NEW c \in Competences PROVE BudgetRow(budget[c])
      <3> DEFINE row == budget[c]
      <3>1. row \in Rows /\ GoodRow(row)
        BY GoodFacts DEF BudgetsInv
      <3>2. /\ row.id \in 0..MaxBudgetRows /\ row.state \in {"none", "draft", "active"}
            /\ row.total \in Totals \cup {0} /\ row.auto \in BOOLEAN /\ row.mixed \in BOOLEAN
            /\ row.bps \in Shares /\ row.planned \in Plans
        BY <3>1 DEF Rows
      <3>3. row.state = "active" => row.total > 0 /\ row.bps # NoAllocations
        BY <3>1, BudgetsAssumption DEF GoodRow
      <3>4. DOMAIN row.bps \in SUBSET Slugs /\ DOMAIN row.planned = DOMAIN row.bps
        BY <3>1, <3>2, SharesFacts DEF GoodRow
      <3>5. \A s \in DOMAIN row.bps : row.bps[s] \in 0..Whole /\ row.planned[s] \in Int
        BY <3>2, <3>4, SharesFacts, PlansFacts
      <3> QED
        BY <3>2, <3>3, <3>4, <3>5 DEF BudgetRow
    <2>2. \A r \in BudgetRequests : request[r].pc \in {"idle", "month", "write"}
      BY DEF BudgetsInv, Requests
    <2> QED
      BY <2>1, <2>2 DEF BudgetsInv, IdsAreKeys, BudgetsTypeOK
  <1> QED
    BY <1>1, BudgetsInitially, BudgetsStep, PTL DEF BudgetsSpec

\* Whatever lists of shares the requests name and whatever order concurrent
\* edits, activations, recurrences and deletions commit in, a budget whose shares
\* are of one list is divided completely: its shares are 100 %, its planned cents
\* its total to the cent, each within a cent and the rounding of its share
\* (allocation_distributor.go, budget_repository).
THEOREM BudgetsAreDividedCompletely == BudgetsSpec => []AllocationsAreWhole
  <1>1. BudgetsInv => AllocationsAreWhole
    <2> SUFFICES ASSUME BudgetsInv, NEW c \in Competences,
                        budget[c].bps # NoAllocations, ~budget[c].mixed
                 PROVE  /\ WholeSplit(budget[c].bps)
                        /\ \/ budget[c].planned = Unplanned(budget[c].bps)
                           \/ SumFunction(budget[c].planned) = budget[c].total
                        /\ budget[c].state = "active" =>
                             SumFunction(budget[c].planned) = budget[c].total /\ Fair(budget[c])
      BY DEF AllocationsAreWhole
    <2>1. GoodRow(budget[c])
      BY GoodFacts DEF BudgetsInv
    <2> QED
      BY <2>1 DEF GoodRow, Divided, Planned
  <1> QED
    BY <1>1, BudgetsInitially, BudgetsStep, PTL DEF BudgetsSpec

=============================================================================
