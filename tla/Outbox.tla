------------------------------- MODULE Outbox -------------------------------
(***************************************************************************)
(* The transactional outbox of internal/platform/outbox: business          *)
(* transactions insert rows, dispatcher jobs claim, deliver and mark them, *)
(* the reaper gives abandoned rows back and housekeeping deletes old ones. *)
(* Postgres is the shared state; every action is one transaction (claim    *)
(* has two parts, its snapshot and its update) or one handler call.        *)
(*                                                                         *)
(* Time is relative: a row carries the ticks since locked_at or            *)
(* published_at, a job the ticks since its context was created, and every  *)
(* counter saturates once no comparison can tell larger values apart.      *)
(***************************************************************************)
EXTENDS Naturals, FiniteSets

CONSTANTS
    Events,         \* event ids
    Users, NoUser,  \* aggregate_user_id, or NULL
    UserOf,         \* [Events -> Users \cup {NoUser}]
    Rank,           \* (occurred_at, created_at, id) as an injective number
    HandlerCount,   \* handlers registered for the event's type
    Dispatchers,    \* dispatcher jobs, one per worker process
    BatchSize,      \* OUTBOX_DISPATCHER_BATCH_SIZE
    MaxAttempts,    \* OUTBOX_RETRY_MAX_ATTEMPTS
    BaseBackoff, MaxBackoff, \* OUTBOX_RETRY_BASE_BACKOFF, _MAX_BACKOFF
    JobTimeout,     \* DispatcherJob.Timeout
    StuckAfter,     \* OUTBOX_REAPER_STUCK_AFTER
    Retention,      \* OUTBOX_HOUSEKEEPING_RETENTION_DAYS
    PromptHandlers, \* handlers return once their context is done
    MaxFaults       \* bound on crashes, handler panics and lost transactions

ASSUME ParametersAssumption ==
    /\ NoUser \notin Users
    /\ UserOf \in [Events -> Users \cup {NoUser}]
    /\ Rank \in [Events -> Nat]
    /\ \A e, f \in Events : Rank[e] = Rank[f] => e = f
    /\ HandlerCount \in [Events -> Nat]
    /\ BatchSize \in Nat \ {0}
    /\ MaxAttempts \in Nat \ {0}
    /\ BaseBackoff \in Nat /\ MaxBackoff \in Nat
    /\ JobTimeout \in Nat \ {0}
    /\ StuckAfter \in Nat /\ Retention \in Nat
    /\ PromptHandlers \in BOOLEAN
    /\ MaxFaults \in Nat

ASSUME NobodyAssumption == "nobody" \notin Dispatchers

Nobody == "nobody"  \* locked_by IS NULL

Status == {"absent", "pending", "processing", "published", "failed", "deleted"}
Settled == {"published", "failed", "deleted"}
JobPc == {"idle", "claim", "next", "handle", "mark"}

AgeCap == StuckAfter + Retention + 1
WaitCap == 2 * (BaseBackoff + MaxBackoff)

VARIABLES
    status, attempts, \* outbox_events columns
    wait,             \* ticks until next_attempt_at
    lockedBy,         \* locked_by
    age,              \* ticks since locked_at (processing) or published_at
    pc,               \* where a dispatcher job is
    cand,             \* rows its claim's snapshot selected
    rows,             \* claimed rows it has not dealt with yet
    cur,              \* {row being processed}, or {}
    snap,             \* attempts as returned by the claim
    handler,          \* index of the running handler
    herr,             \* joined error of the handlers run so far
    jobAge,           \* ticks since the job's context was created
    done,             \* history: handlers that have accepted the event
    begun,            \* history: events whose delivery was begun
    late,             \* history: events inserted after a later one of the user
    faults            \* crashes, panics and lost transactions so far

table == <<status, attempts, wait, lockedBy, age>>
job == <<pc, cand, rows, cur, snap, handler, herr, jobAge>>
history == <<done, begun, late>>
vars == <<table, job, history, faults>>

TypeOK ==
    /\ status \in [Events -> Status]
    /\ attempts \in [Events -> 0..MaxAttempts]
    /\ wait \in [Events -> 0..WaitCap]
    /\ lockedBy \in [Events -> Dispatchers \cup {Nobody}]
    /\ age \in [Events -> 0..AgeCap]
    /\ pc \in [Dispatchers -> JobPc]
    /\ cand \in [Dispatchers -> SUBSET Events]
    /\ rows \in [Dispatchers -> SUBSET Events]
    /\ cur \in [Dispatchers -> SUBSET Events]
    /\ snap \in [Dispatchers -> [Events -> 0..MaxAttempts]]
    /\ handler \in [Dispatchers -> Nat]
    /\ herr \in [Dispatchers -> {"none", "no_handlers", "failed"}]
    /\ jobAge \in [Dispatchers -> 0..JobTimeout]
    /\ done \in [Events -> SUBSET Nat]
    /\ begun \subseteq Events
    /\ late \subseteq Events
    /\ faults \in 0..MaxFaults

Init ==
    /\ status = [e \in Events |-> "absent"]
    /\ attempts = [e \in Events |-> 0]
    /\ wait = [e \in Events |-> 0]
    /\ lockedBy = [e \in Events |-> Nobody]
    /\ age = [e \in Events |-> 0]
    /\ pc = [d \in Dispatchers |-> "idle"]
    /\ cand = [d \in Dispatchers |-> {}]
    /\ rows = [d \in Dispatchers |-> {}]
    /\ cur = [d \in Dispatchers |-> {}]
    /\ snap = [d \in Dispatchers |-> [e \in Events |-> 0]]
    /\ handler = [d \in Dispatchers |-> 0]
    /\ herr = [d \in Dispatchers |-> "none"]
    /\ jobAge = [d \in Dispatchers |-> 0]
    /\ done = [e \in Events |-> {}]
    /\ begun = {}
    /\ late = {}
    /\ faults = 0

(***************************************************************************)
(* Insert: the row is committed with the business change, with a fresh id, *)
(* pending and due at once. occurred_at comes from the producer, so a row  *)
(* may be committed after rows of the same user that sort behind it.       *)
(***************************************************************************)
SameUser(e, f) == UserOf[e] = UserOf[f] /\ UserOf[e] # NoUser

Earlier(f, e) == SameUser(f, e) /\ Rank[f] < Rank[e]

Publish(e) ==
    /\ status[e] = "absent"
    /\ status' = [status EXCEPT ![e] = "pending"]
    /\ late' = late \cup {x \in {e} : \E f \in Events : Earlier(e, f) /\ status[f] # "absent"}
    /\ UNCHANGED <<attempts, wait, lockedBy, age, job, done, begun, faults>>

(***************************************************************************)
(* ClaimBatch. The statement's snapshot picks the head of each user's      *)
(* queue; the update then locks each row, looks again at the row's own     *)
(* columns (not at the subqueries), and is refused as a whole by the       *)
(* unique index on in-flight users.                                        *)
(***************************************************************************)
Due(e) == status[e] = "pending" /\ wait[e] = 0

UserInFlight(e) == \E p \in Events : SameUser(p, e) /\ status[p] = "processing"

\* Mutant of Claimable: the head-of-queue subquery is missing.
ClaimableAnyOrder == {e \in Events : Due(e) /\ ~UserInFlight(e)}

Claimable ==
    {e \in Events : /\ Due(e)
                    /\ ~UserInFlight(e)
                    /\ ~ \E f \in Events : Earlier(f, e) /\ status[f] = "pending"}

Batch == {e \in Claimable :
            Cardinality({f \in Claimable : Rank[f] < Rank[e]}) < BatchSize}

Expired(d) == jobAge[d] >= JobTimeout

\* A run whose snapshot selects nothing changes nothing.
StartRun(d) ==
    /\ pc[d] = "idle"
    /\ Batch # {}
    /\ pc' = [pc EXCEPT ![d] = "claim"]
    /\ cand' = [cand EXCEPT ![d] = Batch]
    /\ jobAge' = [jobAge EXCEPT ![d] = 0]
    /\ UNCHANGED <<table, rows, cur, snap, handler, herr, history, faults>>

\* The job returns: its local state is gone.
EndJob(d) ==
    /\ pc' = [pc EXCEPT ![d] = "idle"]
    /\ cand' = [cand EXCEPT ![d] = {}]
    /\ rows' = [rows EXCEPT ![d] = {}]
    /\ cur' = [cur EXCEPT ![d] = {}]
    /\ snap' = [snap EXCEPT ![d] = [e \in Events |-> 0]]
    /\ handler' = [handler EXCEPT ![d] = 0]
    /\ herr' = [herr EXCEPT ![d] = "none"]
    /\ jobAge' = [jobAge EXCEPT ![d] = 0]

\* Mutant of Locked: the row is not looked at again once it is locked.
LockedUnchecked(d) == cand[d]

Locked(d) == {e \in cand[d] : Due(e)}

\* Mutant of ClaimRefused: no unique index on in-flight users.
ClaimNeverRefused(d) == FALSE

ClaimRefused(d) == \E e \in Locked(d) : UserInFlight(e)

Claim(d) ==
    /\ pc[d] = "claim" /\ ~Expired(d)
    /\ Locked(d) # {} /\ ~ClaimRefused(d)
    /\ status' = [e \in Events |-> IF e \in Locked(d) THEN "processing" ELSE status[e]]
    /\ lockedBy' = [e \in Events |-> IF e \in Locked(d) THEN d ELSE lockedBy[e]]
    /\ age' = [e \in Events |-> IF e \in Locked(d) THEN 0 ELSE age[e]]
    /\ pc' = [pc EXCEPT ![d] = "next"]
    /\ cand' = [cand EXCEPT ![d] = {}]
    /\ rows' = [rows EXCEPT ![d] = Locked(d)]
    /\ snap' = [snap EXCEPT ![d] = [e \in Events |-> IF e \in Locked(d) THEN attempts[e] ELSE 0]]
    /\ UNCHANGED <<attempts, wait, cur, handler, herr, jobAge, history, faults>>

\* Unique violation (deferred), nothing left to lock, or the context is done.
ClaimNothing(d) ==
    /\ pc[d] = "claim"
    /\ Expired(d) \/ Locked(d) = {} \/ ClaimRefused(d)
    /\ EndJob(d)
    /\ UNCHANGED <<table, history, faults>>

(***************************************************************************)
(* processClaimed, runHandlers and mark. RETURNING gives the rows in no    *)
(* particular order.                                                       *)
(***************************************************************************)
NextRow(d, e) ==
    /\ pc[d] = "next" /\ e \in rows[d] /\ ~Expired(d)
    /\ cur' = [cur EXCEPT ![d] = {e}]
    /\ rows' = [rows EXCEPT ![d] = @ \ {e}]
    /\ pc' = [pc EXCEPT ![d] = IF HandlerCount[e] = 0 THEN "mark" ELSE "handle"]
    /\ herr' = [herr EXCEPT ![d] = IF HandlerCount[e] = 0 THEN "no_handlers" ELSE "none"]
    /\ handler' = [handler EXCEPT ![d] = IF HandlerCount[e] = 0 THEN 0 ELSE 1]
    /\ begun' = begun \cup {e}
    /\ UNCHANGED <<table, cand, snap, jobAge, done, late, faults>>

\* Mutant of JoinError: the last handler's result replaces the earlier ones.
LastError(d, ok) == IF ok THEN "none" ELSE "failed"

\* errors.Join over the handlers run so far.
JoinError(d, ok) == IF ok THEN herr[d] ELSE "failed"

\* A handler returns in time: the next one is called, or all have returned.
HandlerReturns(d, ok) ==
    /\ pc[d] = "handle" /\ ~Expired(d)
    /\ \E e \in cur[d] :
        /\ done' = [done EXCEPT ![e] = @ \cup {h \in {handler[d]} : ok}]
        /\ pc' = [pc EXCEPT ![d] = IF handler[d] < HandlerCount[e] THEN "handle" ELSE "mark"]
        /\ handler' = [handler EXCEPT ![d] = IF @ < HandlerCount[e] THEN @ + 1 ELSE 0]
    /\ herr' = [herr EXCEPT ![d] = JoinError(d, ok)]
    /\ UNCHANGED <<table, cand, rows, cur, snap, jobAge, begun, late, faults>>

\* A handler returns after the deadline: no further handler, no mark.
HandlerReturnsLate(d, ok) ==
    /\ pc[d] = "handle" /\ Expired(d)
    /\ \E e \in cur[d] : done' = [done EXCEPT ![e] = @ \cup {h \in {handler[d]} : ok}]
    /\ EndJob(d)
    /\ UNCHANGED <<table, begun, late, faults>>

\* The other rows of an expired job are skipped too, and left processing.
Abandon(d) ==
    /\ pc[d] \in {"next", "mark"} /\ Expired(d)
    /\ EndJob(d)
    /\ UNCHANGED <<table, history, faults>>

FinishRun(d) ==
    /\ pc[d] = "next" /\ rows[d] = {} /\ ~Expired(d)
    /\ EndJob(d)
    /\ UNCHANGED <<table, history, faults>>

(***************************************************************************)
(* The marks update by id alone. The table's CHECKs refuse an update that  *)
(* takes published_at's row out of status 3 or attempts past the maximum;  *)
(* a deleted row is not there to update. Either way the table is as before.*)
(***************************************************************************)
\* Mutant of Accepts: the CHECK on published_at is missing.
AcceptsUnpublish(e, st, att) == status[e] # "deleted" /\ att <= MaxAttempts

Accepts(e, st, att) ==
    /\ status[e] # "deleted"
    /\ status[e] = "published" => st = "published"
    /\ att <= MaxAttempts

UpdateRow(e, st, att, w) ==
    IF Accepts(e, st, att)
    THEN /\ status' = [status EXCEPT ![e] = st]
         /\ attempts' = [attempts EXCEPT ![e] = att]
         /\ wait' = [wait EXCEPT ![e] = w]
         /\ lockedBy' = [lockedBy EXCEPT ![e] = Nobody]
         /\ age' = [age EXCEPT ![e] = 0]
    ELSE UNCHANGED table

MarkPublished(e) == UpdateRow(e, "published", attempts[e], wait[e])

MarkFailed(e) == UpdateRow(e, "failed", attempts[e] + 1, wait[e])

\* RetryBaseBackoff doubled per attempt up to RetryMaxBackoff, 20% jitter.
Nominal(n) == IF n = 0 \/ BaseBackoff * 2^n <= MaxBackoff THEN BaseBackoff * 2^n ELSE MaxBackoff

CalcBackoff(n) == {b \in 0..WaitCap : /\ 5 * b >= 4 * Nominal(n)
                                      /\ 5 * b <= 6 * Nominal(n)}

MarkPendingRetry(e, n) == \E b \in CalcBackoff(n) : UpdateRow(e, "pending", attempts[e] + 1, b)

RowDone(d) ==
    /\ pc' = [pc EXCEPT ![d] = "next"]
    /\ cur' = [cur EXCEPT ![d] = {}]
    /\ snap' = [snap EXCEPT ![d] = [e \in Events |-> IF e \in cur[d] THEN 0 ELSE @[e]]]
    /\ herr' = [herr EXCEPT ![d] = "none"]
    /\ UNCHANGED <<cand, rows, handler, jobAge>>

Exhausted(d, e) == snap[d][e] + 1 >= MaxAttempts

Mark(d) ==
    /\ pc[d] = "mark" /\ ~Expired(d)
    /\ \E e \in cur[d] :
        CASE herr[d] = "none" -> MarkPublished(e)
          [] herr[d] = "no_handlers" -> MarkFailed(e)
          [] herr[d] = "failed" /\ Exhausted(d, e) -> MarkFailed(e)
          [] OTHER -> MarkPendingRetry(e, snap[d][e])
    /\ RowDone(d)
    /\ UNCHANGED <<history, faults>>

\* The mark's transaction is lost; the job goes on with its other rows.
MarkLost(d) ==
    /\ pc[d] = "mark"
    /\ faults < MaxFaults /\ faults' = faults + 1
    /\ RowDone(d)
    /\ UNCHANGED <<table, history>>

\* The process dies, or a handler panics and the scheduler recovers.
Crash(d) ==
    /\ pc[d] # "idle"
    /\ faults < MaxFaults /\ faults' = faults + 1
    /\ EndJob(d)
    /\ UNCHANGED <<table, history>>

(***************************************************************************)
(* ReaperJob, HousekeepingJob and the clock.                               *)
(***************************************************************************)
\* Mutants of Stuck: locked_at is not compared; the wrong status is.
StuckAtOnce == {e \in Events : status[e] = "processing"}
StuckFailed == {e \in Events : status[e] = "failed" /\ age[e] > StuckAfter}

Stuck == {e \in Events : status[e] = "processing" /\ age[e] > StuckAfter}

ResetStuck ==
    /\ Stuck # {}
    /\ status' = [e \in Events |-> IF e \in Stuck THEN "pending" ELSE status[e]]
    /\ lockedBy' = [e \in Events |-> IF e \in Stuck THEN Nobody ELSE lockedBy[e]]
    /\ age' = [e \in Events |-> IF e \in Stuck THEN 0 ELSE age[e]]
    /\ UNCHANGED <<attempts, wait, job, history, faults>>

\* One batch of DeletePublishedBatch; Run repeats it until none is left.
DeletePublished(S) ==
    /\ S # {}
    /\ \A e \in S : status[e] = "published" /\ age[e] > Retention
    /\ status' = [e \in Events |-> IF e \in S THEN "deleted" ELSE status[e]]
    /\ age' = [e \in Events |-> IF e \in S THEN 0 ELSE age[e]]
    /\ UNCHANGED <<attempts, wait, lockedBy, job, history, faults>>

\* With prompt handlers no handler outlives its context by a tick.
Tick ==
    /\ PromptHandlers => \A d \in Dispatchers : ~(pc[d] = "handle" /\ Expired(d))
    /\ wait' = [e \in Events |-> IF wait[e] > 0 THEN wait[e] - 1 ELSE 0]
    /\ age' = [e \in Events |-> IF status[e] \in {"processing", "published"} /\ age[e] < AgeCap
                                THEN age[e] + 1 ELSE age[e]]
    /\ jobAge' = [d \in Dispatchers |-> IF pc[d] # "idle" /\ ~Expired(d)
                                        THEN jobAge[d] + 1 ELSE jobAge[d]]
    /\ UNCHANGED <<status, attempts, lockedBy, pc, cand, rows, cur, snap, handler, herr,
                   history, faults>>

Dispatch(d) ==
    \/ StartRun(d) \/ Claim(d) \/ ClaimNothing(d)
    \/ \E e \in Events : NextRow(d, e)
    \/ \E ok \in BOOLEAN : HandlerReturns(d, ok)
    \/ \E ok \in BOOLEAN : HandlerReturnsLate(d, ok)
    \/ Mark(d) \/ Abandon(d) \/ FinishRun(d)

Next ==
    \/ \E e \in Events : Publish(e)
    \/ \E d \in Dispatchers : Dispatch(d)
    \/ \E d \in Dispatchers : MarkLost(d)
    \/ \E d \in Dispatchers : Crash(d)
    \/ ResetStuck
    \/ \E S \in SUBSET Events : DeletePublished(S)
    \/ Tick

Spec == Init /\ [][Next]_vars

(***************************************************************************)
(* Fairness. The cron keeps starting the jobs and the clock keeps running. *)
(* A job may be overtaken by its deadline, but not for ever: a step that   *)
(* again and again has its chance before the deadline is taken in the end. *)
(***************************************************************************)
Fairness ==
    /\ WF_vars(Tick)
    /\ WF_vars(ResetStuck)
    /\ \A d \in Dispatchers :
        /\ WF_vars(Dispatch(d))
        /\ SF_vars(Claim(d))
        /\ SF_vars(\E e \in Events : NextRow(d, e))
        /\ \A e \in Events : \A h \in 1..HandlerCount[e] :
            SF_vars(e \in cur[d] /\ handler[d] = h /\ \E ok \in BOOLEAN : HandlerReturns(d, ok))
        /\ SF_vars(Mark(d))

FairSpec == Spec /\ Fairness

(***************************************************************************)
(* Properties.                                                             *)
(***************************************************************************)

\* At least once: a row is published (and may be deleted) only when every
\* handler registered for it has accepted the event (runHandlers, mark).
PublishedWasDelivered ==
    \A e \in Events : status[e] \in {"published", "deleted"}
                        => HandlerCount[e] > 0 /\ 1..HandlerCount[e] \subseteq done[e]

\* The rows a dispatcher still holds before its deadline are its own: still
\* in processing, locked by it, and with the attempts it read at the claim,
\* so mark (which updates by id alone) never hits a row somebody else owns.
HeldRows(d) == rows[d] \cup cur[d]

LiveJobOwnsRows ==
    \A d \in Dispatchers : ~Expired(d) =>
        \A e \in HeldRows(d) : /\ status[e] = "processing"
                               /\ lockedBy[e] = d
                               /\ snap[d][e] = attempts[e]

\* outbox_events_user_inflight_uidx, and what it is there for: no two
\* dispatchers are inside handlers for events of one user at the same time.
SerialPerUser ==
    /\ \A e, f \in Events : status[e] = "processing" /\ status[f] = "processing"
                              /\ SameUser(e, f) => e = f
    /\ \A c, d \in Dispatchers : c # d /\ pc[c] = "handle" /\ pc[d] = "handle" =>
        \A e \in cur[c], f \in cur[d] : e # f /\ ~SameUser(e, f)

\* Per-user FIFO: delivery of an event begins only after every earlier event
\* of the user is settled, except events committed behind a later one.
FifoPerUser ==
    \A e, f \in Events : Earlier(f, e) /\ e \in begun /\ f \notin late
                            => status[f] \in Settled \cup {"absent"}

\* A row that reached published stays so until housekeeping deletes it, a
\* deleted row never comes back, and attempts never go down, whatever marks
\* arrive late: the table's CHECKs stand in for the guards mark lacks.
PublishedIsFinal ==
    [][\A e \in Events :
        /\ status[e] = "published" => status'[e] \in {"published", "deleted"}
        /\ status[e] = "deleted" => status'[e] = "deleted"
        /\ attempts'[e] >= attempts[e]]_vars

\* Every committed event is delivered or dead-lettered in the end, through
\* retries, expired runs, lost marks and crashes.
EventuallySettled == \A e \in Events : status[e] = "pending" ~> status[e] \in Settled

\* The outbox implements the queue it promises (OutboxQueue).
PhaseOf(st) == CASE st = "absent" -> "absent"
                 [] st = "pending" -> "queued"
                 [] st = "processing" -> "delivering"
                 [] st = "published" -> "delivered"
                 [] st = "failed" -> "dead"
                 [] st = "deleted" -> "gone"

Queue == INSTANCE OutboxQueue WITH
    Routable <- {e \in Events : HandlerCount[e] > 0},
    MaxFailures <- MaxAttempts,
    phase <- [e \in Events |-> PhaseOf(status[e])],
    failures <- attempts

ImplementsQueue == Queue!Spec
=============================================================================
