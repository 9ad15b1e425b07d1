----------------------------- MODULE Recurring -----------------------------
(***************************************************************************)
(* Recurring templates of internal/transactions and the daily job that     *)
(* turns them into transactions.  A run lists the templates due today,     *)
(* and for each one claims the month in one transaction (advisory lock,    *)
(* row), creates the transaction in a second one and marks the row         *)
(* completed in a third.  What a template says (amount, category, card) is *)
(* left out; that its creation may be refused as a duplicate is the choice *)
(* of not creating it.                                                     *)
(***************************************************************************)
EXTENDS Naturals, FiniteSets

CONSTANTS
    Templates,      \* ids, numbers: the job reads them in this order
    MonthDays,      \* days of each month of the calendar, a sequence
    TemplateDays,   \* values of day_of_month
    Hosts,          \* worker processes running the job
    MaxEdits,       \* bound on creations, updates and deletions of templates
    MaxMishaps      \* bound on crashes, errors and missed days

Calendar == DOMAIN MonthDays

ASSUME RecurringAssumption ==
    /\ Templates \subseteq Nat /\ TemplateDays \subseteq Nat \ {0}
    /\ Calendar \subseteq Nat /\ 1 \in Calendar
    /\ \A m \in Calendar : MonthDays[m] \in Nat \ {0}
    /\ IsFiniteSet(Hosts)
    /\ MaxEdits \in Nat /\ MaxMishaps \in Nat

VARIABLES
    today,       \* [month, day], in America/Sao_Paulo
    template,    \* transactions_recurring_templates
    row,         \* transactions_recurring_materializations
    created,     \* transactions made of a template in a month
    locks,       \* advisory locks, by holder
    host,        \* what each process is doing
    ran,         \* processes whose job ran today
    edits, mishaps,
    steady       \* history: templates untouched this month

recurringVars == <<today, template, row, created, locks, host, ran, edits, mishaps, steady>>

Keys == Templates \X Calendar
NoTemplate == [state |-> "absent", day |-> 1]
Resting == [state |-> "idle", todo |-> {}, at |-> 0]

RecurringInit ==
    /\ today = [month |-> 1, day |-> 1]
    /\ template = [t \in Templates |-> NoTemplate]
    /\ row = [k \in Keys |-> "none"]
    /\ created = [k \in Keys |-> 0]
    /\ locks = {}
    /\ host = [h \in Hosts |-> Resting]
    /\ ran = {}
    /\ edits = 0 /\ mishaps = 0 /\ steady = {}

tables == <<template, row, created>>
clock == <<today, ran, edits, mishaps, steady>>

-----------------------------------------------------------------------------
(* The templates.                                                          *)

Edit(t, new) ==
    /\ edits < MaxEdits
    /\ edits' = edits + 1
    /\ template' = [template EXCEPT ![t] = new]
    /\ steady' = steady \ {t}
    /\ UNCHANGED <<today, row, created, locks, host, ran, mishaps>>

CreateTemplate(t, d) ==
    template[t].state = "absent" /\ Edit(t, [state |-> "live", day |-> d])
UpdateTemplate(t, d) ==
    template[t].state = "live" /\ Edit(t, [state |-> "live", day |-> d])
DeleteTemplate(t) ==
    template[t].state = "live" /\ Edit(t, [template[t] EXCEPT !.state = "deleted"])

-----------------------------------------------------------------------------
(* The job.                                                                *)

\* Mutant: no clamp to the last day of a short month.
DueOnItsDay(t) == template[t].state = "live" /\ template[t].day = today.day

\* On the last day also the templates of the days this month does not have.
Due(t) ==
    /\ template[t].state = "live"
    /\ \/ template[t].day = today.day
       \/ today.day = MonthDays[today.month] /\ template[t].day > today.day

\* FindActiveByDayOfMonth and DecideMaterializeForDay; one run a day.
RunJob(h) ==
    /\ host[h].state = "idle" /\ h \notin ran
    /\ ran' = ran \cup {h}
    /\ host' = [host EXCEPT ![h] = [Resting EXCEPT !.state = "next",
                                        !.todo = {t \in Templates : Due(t)}]]
    /\ UNCHANGED <<today, tables, locks, edits, mishaps, steady>>

Key(h) == <<host[h].at, today.month>>
Step(h, l) == host' = [host EXCEPT ![h].state = l]
Unlock(h) == locks' = {l \in locks : l.by # h}

\* pg_try_advisory_xact_lock: whoever does not get it leaves the template.
TryAdvisoryLock(h, t) ==
    /\ host[h].state = "next" /\ t \in host[h].todo
    /\ \A u \in host[h].todo : t <= u
    /\ LET free == \A l \in locks : l.key # <<t, today.month>>
       IN  /\ locks' = IF free THEN locks \cup {[by |-> h, key |-> <<t, today.month>>]}
                       ELSE locks
           /\ host' = [host EXCEPT ![h].todo = @ \ {t}, ![h].at = t,
                                   ![h].state = IF free THEN "insert" ELSE "next"]
    /\ UNCHANGED <<tables, clock>>

\* Mutant: the row's existence is not asked for its completion.
ProceedAlways(k) == TRUE

\* The row is new, or an earlier run did not complete it.
ShouldProceed(k) == row[k] # "completed"

\* InsertIfAbsent and IsCompleted; the commit releases the lock.
InsertIfAbsent(h) ==
    /\ host[h].state = "insert"
    /\ row' = [row EXCEPT ![Key(h)] = IF @ = "none" THEN "open" ELSE @]
    /\ Step(h, IF ShouldProceed(Key(h)) THEN "create" ELSE "next")
    /\ Unlock(h)
    /\ UNCHANGED <<template, created, clock>>

\* CreateTransaction commits by itself and carries no origin key.
CreateFromTemplate(h) ==
    /\ host[h].state = "create"
    /\ created' = [created EXCEPT ![Key(h)] = @ + 1]
    /\ Step(h, "mark")
    /\ UNCHANGED <<template, row, locks, clock>>

MarkCompleted(h) ==
    /\ host[h].state = "mark"
    /\ row' = [row EXCEPT ![Key(h)] = IF @ = "open" THEN "completed" ELSE @]
    /\ Step(h, "next")
    /\ UNCHANGED <<template, created, locks, clock>>

RunEnds(h) ==
    /\ host[h].state = "next" /\ host[h].todo = {}
    /\ host' = [host EXCEPT ![h] = Resting]
    /\ UNCHANGED <<tables, locks, clock>>

\* A crash, or the first error, which ends the run.
RunDies(h) ==
    /\ host[h].state # "idle" /\ mishaps < MaxMishaps
    /\ mishaps' = mishaps + 1
    /\ host' = [host EXCEPT ![h] = Resting]
    /\ Unlock(h)
    /\ UNCHANGED <<today, tables, ran, edits, steady>>

\* Runs last minutes.  A day on which no process ran the job is a mishap.
NextDay ==
    /\ \A h \in Hosts : host[h].state = "idle"
    /\ ran # {} \/ mishaps < MaxMishaps
    /\ mishaps' = IF ran = {} THEN mishaps + 1 ELSE mishaps
    /\ ran' = {}
    /\ IF today.day < MonthDays[today.month]
       THEN today' = [today EXCEPT !.day = @ + 1] /\ UNCHANGED steady
       ELSE /\ today.month + 1 \in Calendar
            /\ today' = [month |-> today.month + 1, day |-> 1]
            /\ steady' = {t \in Templates : template[t].state = "live"}
    /\ UNCHANGED <<tables, locks, host, edits>>

RecurringNext ==
    \/ \E t \in Templates :
          \/ DeleteTemplate(t)
          \/ \E d \in TemplateDays : CreateTemplate(t, d) \/ UpdateTemplate(t, d)
    \/ \E h \in Hosts :
          \/ RunJob(h) \/ InsertIfAbsent(h) \/ CreateFromTemplate(h)
          \/ MarkCompleted(h) \/ RunEnds(h) \/ RunDies(h)
          \/ \E t \in Templates : TryAdvisoryLock(h, t)
    \/ NextDay

RecurringSpec == RecurringInit /\ [][RecurringNext]_recurringVars

-----------------------------------------------------------------------------
JobStates == {"idle", "next", "insert", "create", "mark"}

\* The types of the tables and of the runs; no advisory lock outlives the
\* transaction that took it.
RecurringTypeOK ==
    /\ today \in [month : Calendar, day : Nat \ {0}] /\ today.day <= MonthDays[today.month]
    /\ template \in [Templates -> [state : {"absent", "live", "deleted"}, day : Nat \ {0}]]
    /\ row \in [Keys -> {"none", "open", "completed"}]
    /\ created \in [Keys -> Nat]
    /\ locks \subseteq [by : Hosts, key : Keys]
    /\ \A l \in locks : host[l.by].state = "insert" /\ l.key = Key(l.by)
    /\ host \in [Hosts -> [state : JobStates, todo : SUBSET Templates, at : Templates \cup {0}]]
    /\ ran \subseteq Hosts /\ steady \subseteq Templates
    /\ edits \in Nat /\ mishaps \in Nat

\* A month's transaction is repeated only by processes that found the row open
\* together or by a run that died between creating and marking: at most one
\* for each process and one more for each mishap, whatever the templates' days
\* are moved to.
RepeatsArePaidFor == \A k \in Keys : created[k] <= Cardinality(Hosts) + mishaps

\* A completed month has its transaction.
CompletedWasCreated == \A k \in Keys : row[k] = "completed" => created[k] > 0

\* Without mishaps every template in force for a whole month is materialised
\* in it, also the ones whose day the month does not have.
EveryMonthServed ==
    [][today'.month # today.month /\ mishaps' = 0 =>
          \A t \in steady : created[<<t, today.month>>] > 0]_recurringVars
=============================================================================
