------------------------------ MODULE Workflow ------------------------------
(***************************************************************************)
(* The durable workflow kernel of internal/platform/workflow: callers of   *)
(* Engine.Start and Engine.Resume race on the runs of a correlation key    *)
(* through the Postgres store, with the suspended-run reaper and the       *)
(* housekeeping job beside them. Every action is one store call or one     *)
(* step execution; a caller keeps its snapshot in between.                 *)
(*                                                                         *)
(* Of a run's JSON state the model keeps which resume inputs were merged   *)
(* into it (inputs) and which steps completed on the way to it (done).     *)
(***************************************************************************)
EXTENDS Integers, FiniteSets

CONSTANTS
    Keys,        \* (workflow, correlation_key) pairs
    Callers,     \* goroutines that call Start or Resume
    Runs,        \* run ids
    StepCount,   \* steps of the root sequence
    Sequential,  \* the root is a Sequence; otherwise it is a single step
    MaxVersion,  \* bound: no Resume on a run of this version
    MaxFaults    \* bound on crashes and failed store calls

ASSUME ParametersAssumption ==
    /\ StepCount \in Nat \ {0}
    /\ Sequential \in BOOLEAN
    /\ ~Sequential => StepCount = 1
    /\ MaxVersion \in Nat \ {0} /\ MaxFaults \in Nat

NoRun == "no run"
NoKey == "no key"
ASSUME NamesAssumption == NoRun \notin Runs /\ NoKey \notin Keys

Steps == 0..(StepCount - 1)
Active == {"running", "suspended"}
Terminal == {"succeeded", "failed"}
Data == [inputs : SUBSET Callers, done : SUBSET Steps]
NoData == [inputs |-> {}, done |-> {}]

VARIABLES
    status, keyOf, cursor, data, version, \* workflow_runs
    steps,                                \* workflow_steps, by seq (attempt is always 1)
    pc,                                   \* where a caller is
    key, rid, ver, i, cur,                \* its correlation key and snapshot
    out,                                  \* outcome of its step, then status to save
    reported,                             \* history: how callers were told a run ended
    listed,                               \* version the reaper listed, or 0
    faults

store == <<status, keyOf, cursor, data, version, steps>>
caller == <<pc, key, rid, ver, i, cur, out>>
vars == <<store, caller, reported, listed, faults>>

TypeOK ==
    /\ status \in [Runs -> Active \cup Terminal \cup {"absent", "deleted"}]
    /\ keyOf \in [Runs -> Keys \cup {NoKey}]
    /\ cursor \in [Runs -> Steps]
    /\ data \in [Runs -> Data]
    /\ version \in [Runs -> Nat]
    /\ steps \in [Runs -> [Steps -> {"none", "completed", "suspended", "failed"}]]
    /\ pc \in [Callers -> {"idle", "insert", "conflict", "execute", "record", "save", "reload"}]
    /\ key \in [Callers -> Keys \cup {NoKey}]
    /\ rid \in [Callers -> Runs \cup {NoRun}]
    /\ ver \in [Callers -> Nat]
    /\ i \in [Callers -> Steps]
    /\ cur \in [Callers -> Data]
    /\ out \in [Callers -> {"none", "completed", "suspended", "failed", "error", "succeeded"}]
    /\ reported \in [Runs -> SUBSET Terminal]
    /\ listed \in [Runs -> Nat]
    /\ faults \in 0..MaxFaults

Init ==
    /\ status = [r \in Runs |-> "absent"]
    /\ keyOf = [r \in Runs |-> NoKey]
    /\ cursor = [r \in Runs |-> 0]
    /\ data = [r \in Runs |-> NoData]
    /\ version = [r \in Runs |-> 0]
    /\ steps = [r \in Runs |-> [s \in Steps |-> "none"]]
    /\ pc = [c \in Callers |-> "idle"]
    /\ key = [c \in Callers |-> NoKey]
    /\ rid = [c \in Callers |-> NoRun]
    /\ ver = [c \in Callers |-> 0]
    /\ i = [c \in Callers |-> 0]
    /\ cur = [c \in Callers |-> NoData]
    /\ out = [c \in Callers |-> "none"]
    /\ reported = [r \in Runs |-> {}]
    /\ listed = [r \in Runs |-> 0]
    /\ faults = 0

ActiveRuns(k) == {r \in Runs : keyOf[r] = k /\ status[r] \in Active}

(***************************************************************************)
(* The caller's local state: taking a snapshot, and returning.             *)
(***************************************************************************)
SnapshotAtZero(c, r, inputs) ==
    /\ pc' = [pc EXCEPT ![c] = "execute"]
    /\ key' = [key EXCEPT ![c] = keyOf[r]]
    /\ rid' = [rid EXCEPT ![c] = r]
    /\ ver' = [ver EXCEPT ![c] = version[r]]
    /\ i' = [i EXCEPT ![c] = 0]
    /\ cur' = [cur EXCEPT ![c] = [data[r] EXCEPT !.inputs = @ \cup inputs]]
    /\ UNCHANGED out

Snapshot(c, r, inputs) ==
    /\ pc' = [pc EXCEPT ![c] = "execute"]
    /\ key' = [key EXCEPT ![c] = keyOf[r]]
    /\ rid' = [rid EXCEPT ![c] = r]
    /\ ver' = [ver EXCEPT ![c] = version[r]]
    /\ i' = [i EXCEPT ![c] = cursor[r]]
    /\ cur' = [cur EXCEPT ![c] = [data[r] EXCEPT !.inputs = @ \cup inputs]]
    /\ UNCHANGED out

Return(c) ==
    /\ pc' = [pc EXCEPT ![c] = "idle"]
    /\ key' = [key EXCEPT ![c] = NoKey]
    /\ rid' = [rid EXCEPT ![c] = NoRun]
    /\ ver' = [ver EXCEPT ![c] = 0]
    /\ i' = [i EXCEPT ![c] = 0]
    /\ cur' = [cur EXCEPT ![c] = NoData]
    /\ out' = [out EXCEPT ![c] = "none"]

(***************************************************************************)
(* Start: look for an active run, insert a new one, and if the unique      *)
(* index on active keys refuses it, run the one that is there.             *)
(***************************************************************************)
NewIds == {r \in Runs : status[r] = "absent" /\ \A c \in Callers : rid[c] # r}

StartLoad(c, k) ==
    /\ pc[c] = "idle"
    /\ \/ ActiveRuns(k) # {} /\ Return(c) \* ErrRunAlreadyExists
       \/ /\ ActiveRuns(k) = {}
          /\ \E r \in NewIds : rid' = [rid EXCEPT ![c] = r]
          /\ key' = [key EXCEPT ![c] = k]
          /\ pc' = [pc EXCEPT ![c] = "insert"]
          /\ UNCHANGED <<ver, i, cur, out>>
    /\ UNCHANGED <<store, reported, listed, faults>>

KeyNeverTaken(k) == FALSE

KeyIsTaken(k) == ActiveRuns(k) # {}

StartInsert(c) ==
    /\ pc[c] = "insert" /\ ~KeyIsTaken(key[c])
    /\ status' = [status EXCEPT ![rid[c]] = "running"]
    /\ keyOf' = [keyOf EXCEPT ![rid[c]] = key[c]]
    /\ version' = [version EXCEPT ![rid[c]] = 1]
    /\ pc' = [pc EXCEPT ![c] = "execute"]
    /\ ver' = [ver EXCEPT ![c] = 1]
    /\ UNCHANGED <<cursor, data, steps, key, rid, i, cur, out, reported, listed, faults>>

StartRefused(c) ==
    /\ pc[c] = "insert" /\ KeyIsTaken(key[c])
    /\ pc' = [pc EXCEPT ![c] = "conflict"]
    /\ UNCHANGED <<store, key, rid, ver, i, cur, out, reported, listed, faults>>

ResumeOnConflict(c) ==
    /\ pc[c] = "conflict"
    /\ \/ \E r \in ActiveRuns(key[c]) : Snapshot(c, r, {})
       \/ ActiveRuns(key[c]) = {} /\ Return(c)
    /\ UNCHANGED <<store, reported, listed, faults>>

(***************************************************************************)
(* Resume: only a suspended run; its input is merged into the snapshot.    *)
(***************************************************************************)
Resumable(k) == {r \in ActiveRuns(k) : status[r] = "suspended"}

Resume(c, k) ==
    /\ pc[c] = "idle"
    /\ \/ \E r \in Resumable(k) :
            version[r] < MaxVersion /\ Snapshot(c, r, {c})
       \/ Resumable(k) = {} /\ Return(c)
    /\ UNCHANGED <<store, reported, listed, faults>>

(***************************************************************************)
(* execute, runStep and the finalize functions. A step may return          *)
(* completed, suspended, failed without an error, or an error.             *)
(***************************************************************************)
Execute(c, o) ==
    /\ pc[c] = "execute"
    /\ out' = [out EXCEPT ![c] = o]
    /\ pc' = [pc EXCEPT ![c] = "record"]
    /\ UNCHANGED <<store, key, rid, ver, i, cur, reported, listed, faults>>

RecordStatus(o) == IF o = "error" THEN "failed" ELSE o

VerdictUnfinalized(o) == CASE o = "completed" -> "succeeded"
                           [] o \in {"failed", "error"} -> "running"
                           [] o = "suspended" -> "suspended"

\* A single-step root looks only at the error and at suspended.
Verdict(o) == CASE o = "completed" -> "succeeded"
                [] o = "failed" -> IF Sequential THEN "failed" ELSE "succeeded"
                [] o = "error" -> "failed"
                [] o = "suspended" -> "suspended"

NextStepPastFailure(c, o) ==
    IF o \in {"completed", "failed"} /\ i[c] + 1 < StepCount
    THEN /\ i' = [i EXCEPT ![c] = @ + 1]
         /\ out' = [out EXCEPT ![c] = "none"]
         /\ pc' = [pc EXCEPT ![c] = "execute"]
    ELSE /\ out' = [out EXCEPT ![c] = Verdict(o)]
         /\ pc' = [pc EXCEPT ![c] = "save"]
         /\ UNCHANGED i

NextStep(c, o) ==
    IF o = "completed" /\ i[c] + 1 < StepCount
    THEN /\ i' = [i EXCEPT ![c] = @ + 1]
         /\ out' = [out EXCEPT ![c] = "none"]
         /\ pc' = [pc EXCEPT ![c] = "execute"]
    ELSE /\ out' = [out EXCEPT ![c] = Verdict(o)]
         /\ pc' = [pc EXCEPT ![c] = "save"]
         /\ UNCHANGED i

AppendStep(c) ==
    /\ pc[c] = "record" /\ status[rid[c]] # "deleted"
    /\ steps' = [steps EXCEPT ![rid[c]][i[c]] = RecordStatus(out[c])]
    /\ cur' = [cur EXCEPT ![c].done = IF out[c] = "completed" THEN @ \cup {i[c]} ELSE @]
    /\ NextStep(c, out[c])
    /\ UNCHANGED <<status, keyOf, cursor, data, version, key, rid, ver, reported, listed, faults>>

\* The run's row is gone (foreign key), or the call fails: an error of the step.
AppendStepFails(c) ==
    /\ pc[c] = "record"
    /\ IF status[rid[c]] = "deleted" THEN UNCHANGED faults
       ELSE faults < MaxFaults /\ faults' = faults + 1
    /\ NextStep(c, "error")
    /\ UNCHANGED <<store, key, rid, ver, cur, reported, listed>>

CasUnversioned(r, v) == status[r] # "deleted"

CasHolds(r, v) == status[r] # "deleted" /\ version[r] = v

SaveSameVersion(c) ==
    /\ pc[c] = "save" /\ CasHolds(rid[c], ver[c])
    /\ status' = [status EXCEPT ![rid[c]] = out[c]]
    /\ cursor' = [cursor EXCEPT ![rid[c]] = IF out[c] = "suspended" THEN i[c] ELSE @]
    /\ data' = [data EXCEPT ![rid[c]] = cur[c]]
    /\ Return(c)
    /\ reported' = [reported EXCEPT ![rid[c]] = @ \cup ({out[c]} \cap Terminal)]
    /\ UNCHANGED <<keyOf, version, steps, listed, faults>>

Save(c) ==
    /\ pc[c] = "save" /\ CasHolds(rid[c], ver[c])
    /\ status' = [status EXCEPT ![rid[c]] = out[c]]
    /\ cursor' = [cursor EXCEPT ![rid[c]] = IF out[c] = "suspended" THEN i[c] ELSE @]
    /\ data' = [data EXCEPT ![rid[c]] = cur[c]]
    /\ version' = [version EXCEPT ![rid[c]] = @ + 1]
    /\ Return(c)
    /\ reported' = [reported EXCEPT ![rid[c]] = @ \cup ({out[c]} \cap Terminal)]
    /\ UNCHANGED <<keyOf, steps, listed, faults>>

SaveConflicts(c) ==
    /\ pc[c] = "save" /\ ~CasHolds(rid[c], ver[c])
    /\ pc' = [pc EXCEPT ![c] = "reload"]
    /\ UNCHANGED <<store, key, rid, ver, i, cur, out, reported, listed, faults>>

\* resolveConflictOrFail: the caller is given the state of the active run of
\* the key, or an error; the model keeps neither.
Reload(c) ==
    /\ pc[c] = "reload"
    /\ Return(c)
    /\ UNCHANGED <<store, reported, listed, faults>>

\* The process dies, or a store call of the caller fails: it goes no further.
CallFails(c) ==
    /\ pc[c] # "idle"
    /\ faults < MaxFaults /\ faults' = faults + 1
    /\ Return(c)
    /\ UNCHANGED <<store, reported, listed>>

(***************************************************************************)
(* StaleSuspendedReaper and HousekeepingJob. How long a run has been       *)
(* suspended or ended is left open: any may be old enough.                 *)
(***************************************************************************)
ReaperLists(r) ==
    /\ status[r] = "suspended" /\ listed[r] = 0
    /\ listed' = [listed EXCEPT ![r] = version[r]]
    /\ UNCHANGED <<store, caller, reported, faults>>

ReaperSaves(r) ==
    /\ listed[r] > 0
    /\ listed' = [listed EXCEPT ![r] = 0]
    /\ IF CasHolds(r, listed[r])
       THEN /\ status' = [status EXCEPT ![r] = "failed"]
            /\ version' = [version EXCEPT ![r] = @ + 1]
       ELSE UNCHANGED <<status, version>>
    /\ UNCHANGED <<keyOf, cursor, data, steps, caller, reported, faults>>

DeleteCompleted(r) ==
    /\ status[r] \in Terminal
    /\ status' = [status EXCEPT ![r] = "deleted"]
    /\ steps' = [steps EXCEPT ![r] = [s \in Steps |-> "none"]]
    /\ UNCHANGED <<keyOf, cursor, data, version, caller, reported, listed, faults>>

Call(c) ==
    \/ StartInsert(c) \/ StartRefused(c) \/ ResumeOnConflict(c)
    \/ \E o \in {"completed", "suspended", "failed", "error"} : Execute(c, o)
    \/ AppendStep(c) \/ AppendStepFails(c)
    \/ Save(c) \/ SaveConflicts(c) \/ Reload(c)

Next ==
    \/ \E c \in Callers, k \in Keys : StartLoad(c, k) \/ Resume(c, k)
    \/ \E c \in Callers : Call(c)
    \/ \E c \in Callers : CallFails(c)
    \/ \E r \in Runs : ReaperLists(r) \/ ReaperSaves(r) \/ DeleteCompleted(r)

Spec == Init /\ [][Next]_vars

\* A goroutine that is inside the engine keeps running.
FairSpec == Spec /\ \A c \in Callers : WF_vars(Call(c))

(***************************************************************************)
(* Properties.                                                             *)
(***************************************************************************)

\* Whatever Starts race, a correlation key has at most one active run
\* (StartLoad's check alone would not do).
OneActiveRunPerKey == \A k \in Keys : Cardinality(ActiveRuns(k)) <= 1

\* The stored state of a run that succeeded is one that every step of its
\* sequence has been through, also when other callers, resumes and failed
\* step records interleaved.
SucceededRanEverything ==
    \A r \in Runs : status[r] = "succeeded" => data[r].done = Steps

\* A run that waits does so at the first step its stored state has not been
\* through, so a resume neither skips nor replays a step of that state.
CursorIsResumePoint ==
    \A r \in Runs : status[r] \in Active => data[r].done = 0..(cursor[r] - 1)

\* Lost updates: what a saved state has taken in (resume inputs, completed
\* steps) is never dropped by a later save of a caller with an older
\* snapshot, and an ended run is not revived.
NoLostUpdate ==
    [][\A r \in Runs :
        /\ data[r].inputs \subseteq data'[r].inputs
        /\ data[r].done \subseteq data'[r].done
        /\ status[r] \in Terminal => status'[r] \in {status[r], "deleted"}]_vars

\* A caller that was told its run ended is right, for ever after.
EndReportedIsTrue ==
    \A r \in Runs : status[r] # "deleted" => reported[r] \subseteq {status[r]}

\* Unless a process dies or a store call fails, a run does not stay in
\* running: whoever inserted it ends or suspends it. (Nothing else could:
\* Resume and the reaper only look at suspended runs.)
RunningEnds ==
    \A r \in Runs : status[r] = "running" ~> status[r] # "running" \/ faults > 0

\* The kernel implements the book of runs it promises (RunBook): although a
\* call works on a snapshot while others save, each call that is saved took
\* effect as a whole on the run as it stood then.
Book == INSTANCE RunBook WITH
    phase <- status,
    taken <- [r \in Runs |-> data[r].inputs],
    done <- [r \in Runs |-> data[r].done]

ImplementsRunBook == Book!Spec
=============================================================================
