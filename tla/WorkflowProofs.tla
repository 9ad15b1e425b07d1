--------------------------- MODULE WorkflowProofs ---------------------------
(***************************************************************************)
(* Proofs about Workflow, for any keys, callers, runs and number of steps. *)
(***************************************************************************)
EXTENDS Workflow, FiniteSetTheorems, TLAPS

USE DEF NoRun, NoKey

Outcomes == {"completed", "suspended", "failed", "error"}

(***************************************************************************)
(* The strengthening. A caller either holds a run id nobody else knows of  *)
(* (before its insert) or a snapshot of a run that exists. A snapshot whose*)
(* version is still the run's is of an active run and contains its state;  *)
(* an older one is never saved.                                            *)
(***************************************************************************)
Holding == {"insert", "conflict"}
Working == {"execute", "record", "save"}

Fresh(c) == pc[c] \in Working /\ CasHolds(rid[c], ver[c])

ShapeOf(c) ==
    /\ pc[c] = "idle" => rid[c] = NoRun
    /\ pc[c] \in {"idle"} \cup Holding => i[c] = 0 /\ cur[c] = NoData
    /\ pc[c] \in Holding => rid[c] \in Runs /\ key[c] \in Keys /\ status[rid[c]] = "absent"
    /\ pc[c] \in Working \cup {"reload"} =>
        rid[c] \in Runs /\ status[rid[c]] # "absent" /\ ver[c] <= version[rid[c]]
    /\ pc[c] = "record" => out[c] \in Outcomes
    /\ pc[c] \in {"save", "reload"} => out[c] \in {"succeeded", "failed", "suspended"}

CallerShape == \A c \in Callers : ShapeOf(c)

Reserved ==
    \A c, d \in Callers : c # d /\ pc[c] \in Holding => rid[d] # rid[c]

FreshSnapshot ==
    \A c \in Callers : Fresh(c) =>
        /\ status[rid[c]] \in Active
        /\ data[rid[c]].inputs \subseteq cur[c].inputs
        /\ data[rid[c]].done \subseteq cur[c].done

RunShape ==
    \A r \in Runs :
        /\ status[r] = "absent" =>
            data[r] = NoData /\ cursor[r] = 0 /\ reported[r] = {} /\ listed[r] = 0
        /\ listed[r] <= version[r]
        /\ listed[r] > 0 /\ CasHolds(r, listed[r]) => status[r] = "suspended"

OneActive ==
    \A r, s \in Runs :
        keyOf[r] = keyOf[s] /\ status[r] \in Active /\ status[s] \in Active => r = s

RunInv ==
    /\ TypeOK /\ CallerShape /\ Reserved /\ FreshSnapshot
    /\ RunShape /\ OneActive /\ EndReportedIsTrue

\* Where a caller is in the sequence.
ProgressOf(c) ==
    /\ pc[c] \in {"execute", "record"} => cur[c].done = 0..(i[c] - 1)
    /\ pc[c] = "save" /\ out[c] = "suspended" => cur[c].done = 0..(i[c] - 1)
    /\ pc[c] = "save" /\ out[c] = "succeeded" /\ Sequential => cur[c].done = Steps

Progress == \A c \in Callers : ProgressOf(c)

ProgressInv ==
    /\ RunInv /\ Progress /\ CursorIsResumePoint
    /\ Sequential => SucceededRanEverything

LEMMA StepsFacts == StepCount \in Nat \ {0} /\ 0 \in Steps /\ Steps \subseteq Nat
  BY ParametersAssumption DEF Steps

LEMMA ReturnType ==
    ASSUME TypeOK, NEW c \in Callers, Return(c)
    PROVE  /\ pc' \in [Callers -> {"idle", "insert", "conflict", "execute", "record", "save", "reload"}]
           /\ key' \in [Callers -> Keys \cup {NoKey}]
           /\ rid' \in [Callers -> Runs \cup {NoRun}]
           /\ ver' \in [Callers -> Nat]
           /\ i' \in [Callers -> Steps]
           /\ cur' \in [Callers -> Data]
           /\ out' \in [Callers -> {"none", "completed", "suspended", "failed", "error", "succeeded"}]
  BY StepsFacts DEF TypeOK, Return, Data, NoData

LEMMA SnapshotType ==
    ASSUME TypeOK, NEW c \in Callers, NEW r \in Runs, NEW S \in SUBSET Callers, Snapshot(c, r, S)
    PROVE  /\ pc' \in [Callers -> {"idle", "insert", "conflict", "execute", "record", "save", "reload"}]
           /\ key' \in [Callers -> Keys \cup {NoKey}]
           /\ rid' \in [Callers -> Runs \cup {NoRun}]
           /\ ver' \in [Callers -> Nat]
           /\ i' \in [Callers -> Steps]
           /\ cur' \in [Callers -> Data]
           /\ out' \in [Callers -> {"none", "completed", "suspended", "failed", "error", "succeeded"}]
  <1>1. [data[r] EXCEPT !.inputs = @ \cup S] \in Data
    <2>1. data[r] \in Data
      BY DEF TypeOK
    <2>2. QED
      BY <2>1 DEF Data
  <1>2. QED
    BY <1>1 DEF TypeOK, Snapshot

LEMMA NextStepType ==
    ASSUME TypeOK, NEW c \in Callers, NEW o \in Outcomes, NextStep(c, o)
    PROVE  /\ pc' \in [Callers -> {"idle", "insert", "conflict", "execute", "record", "save", "reload"}]
           /\ i' \in [Callers -> Steps]
           /\ out' \in [Callers -> {"none", "completed", "suspended", "failed", "error", "succeeded"}]
  <1>1. Verdict(o) \in {"succeeded", "failed", "suspended"}
    BY DEF Verdict, Outcomes
  <1>2. CASE o = "completed" /\ i[c] + 1 < StepCount
    <2>1. i[c] + 1 \in Steps
      <3>1. i[c] \in Steps
        BY DEF TypeOK
      <3>2. QED
        BY <1>2, <3>1, StepsFacts DEF Steps
    <2>2. QED
      BY <1>2, <2>1, ZenonT(60) DEF NextStep, TypeOK
  <1>3. CASE ~(o = "completed" /\ i[c] + 1 < StepCount)
    <2>1. /\ out' = [out EXCEPT ![c] = Verdict(o)]
          /\ pc' = [pc EXCEPT ![c] = "save"]
          /\ i' = i
      BY <1>3 DEF NextStep
    <2>2. QED
      BY <1>1, <2>1 DEF TypeOK
  <1>4. QED
    BY <1>2, <1>3

LEMMA CallType ==
    ASSUME TypeOK, CallerShape, NEW c \in Callers, Call(c)
    PROVE  TypeOK'
  <1>1. CASE StartInsert(c)
    BY <1>1 DEF TypeOK, CallerShape, ShapeOf, StartInsert, Active, Holding
  <1>2. CASE StartRefused(c)
    BY <1>2 DEF TypeOK, StartRefused, store
  <1>3. CASE ResumeOnConflict(c)
    <2>1. CASE \E r \in ActiveRuns(key[c]) : Snapshot(c, r, {})
      <3>1. PICK r \in Runs : Snapshot(c, r, {})
        BY <2>1 DEF ActiveRuns
      <3>2. QED
        BY <1>3, <3>1, SnapshotType DEF TypeOK, ResumeOnConflict, store
    <2>2. CASE Return(c)
      BY <1>3, <2>2, ReturnType DEF TypeOK, ResumeOnConflict, store
    <2>3. QED
      BY <1>3, <2>1, <2>2 DEF ResumeOnConflict
  <1>4. CASE \E o \in {"completed", "suspended", "failed", "error"} : Execute(c, o)
    <2>1. PICK o \in Outcomes : Execute(c, o)
      BY <1>4 DEF Outcomes
    <2>2. QED
      BY <2>1 DEF TypeOK, Execute, store, Outcomes
  <1>5. CASE AppendStep(c)
    <2>1. rid[c] \in Runs /\ out[c] \in Outcomes /\ i[c] \in Steps
      BY <1>5 DEF AppendStep, CallerShape, ShapeOf, TypeOK, Working
    <2>2. steps' \in [Runs -> [Steps -> {"none", "completed", "suspended", "failed"}]]
      BY <1>5, <2>1 DEF AppendStep, TypeOK, RecordStatus, Outcomes
    <2>3. cur' \in [Callers -> Data]
      <3>1. cur[c] \in Data /\ {i[c]} \subseteq Steps
        BY <2>1 DEF TypeOK
      <3>2. [cur[c] EXCEPT !.done = IF out[c] = "completed" THEN @ \cup {i[c]} ELSE @] \in Data
        BY <3>1 DEF Data
      <3>3. cur' = [cur EXCEPT ![c] = [cur[c] EXCEPT !.done =
                        IF out[c] = "completed" THEN @ \cup {i[c]} ELSE @]]
        BY <1>5 DEF AppendStep
      <3>4. QED
        BY <3>2, <3>3 DEF TypeOK
    <2>4. QED
      BY <1>5, <2>1, <2>2, <2>3, NextStepType DEF AppendStep, TypeOK
  <1>6. CASE AppendStepFails(c)
    <2>1. faults' \in 0..MaxFaults
      <3>1. faults \in 0..MaxFaults /\ MaxFaults \in Nat
        BY ParametersAssumption DEF TypeOK
      <3>2. QED
        BY <1>6, <3>1 DEF AppendStepFails
    <2>2. QED
      BY <1>6, <2>1, NextStepType DEF AppendStepFails, TypeOK, store, Outcomes
  <1>7. CASE Save(c)
    <2>1. rid[c] \in Runs /\ out[c] \in {"succeeded", "failed", "suspended"}
      BY <1>7 DEF Save, CallerShape, ShapeOf, Working
    <2>2. /\ status' \in [Runs -> Active \cup Terminal \cup {"absent", "deleted"}]
          /\ cursor' \in [Runs -> Steps]
          /\ data' \in [Runs -> Data]
      BY <1>7, <2>1 DEF Save, TypeOK, Active, Terminal
    <2>3. version' \in [Runs -> Nat]
      <3>1. version \in [Runs -> Nat] /\ version' = [version EXCEPT ![rid[c]] = version[rid[c]] + 1]
        BY <1>7 DEF Save, TypeOK
      <3>2. QED
        BY <2>1, <3>1
    <2>4. reported' \in [Runs -> SUBSET Terminal]
      BY <1>7, <2>1 DEF Save, TypeOK
    <2>5. QED
      BY <1>7, <2>2, <2>3, <2>4, ReturnType DEF Save, TypeOK
  <1>8. CASE SaveConflicts(c)
    BY <1>8 DEF TypeOK, SaveConflicts, store
  <1>9. CASE Reload(c)
    BY <1>9, ReturnType DEF TypeOK, Reload, store
  <1>10. QED
    BY <1>1, <1>2, <1>3, <1>4, <1>5, <1>6, <1>7, <1>8, <1>9 DEF Call

LEMMA TypeStep ==
    ASSUME TypeOK, CallerShape, RunShape, [Next]_vars
    PROVE  TypeOK'
  <1>1. ASSUME NEW c \in Callers, NEW k \in Keys, StartLoad(c, k)  PROVE TypeOK'
    <2>1. CASE Return(c)
      BY <1>1, <2>1, ReturnType DEF TypeOK, StartLoad, store
    <2>2. CASE ~Return(c)
      <3>1. PICK r \in Runs : rid' = [rid EXCEPT ![c] = r]
        BY <1>1, <2>2 DEF StartLoad, NewIds
      <3>2. /\ key' = [key EXCEPT ![c] = k] /\ pc' = [pc EXCEPT ![c] = "insert"]
            /\ UNCHANGED <<ver, i, cur, out, store, reported, listed, faults>>
        BY <1>1, <2>2 DEF StartLoad
      <3>3. /\ rid' \in [Callers -> Runs \cup {NoRun}] /\ key' \in [Callers -> Keys \cup {NoKey}]
            /\ pc' \in [Callers -> {"idle", "insert", "conflict", "execute", "record", "save", "reload"}]
        BY <3>1, <3>2 DEF TypeOK
      <3>4. QED
        BY <3>2, <3>3 DEF TypeOK, store
    <2>3. QED
      BY <2>1, <2>2
  <1>2. ASSUME NEW c \in Callers, NEW k \in Keys, Resume(c, k)  PROVE TypeOK'
    <2>1. CASE \E r \in Resumable(k) : Snapshot(c, r, {c})
      <3>1. PICK r \in Runs : Snapshot(c, r, {c})
        BY <2>1 DEF Resumable, ActiveRuns
      <3>2. QED
        BY <1>2, <3>1, SnapshotType DEF TypeOK, Resume, store
    <2>2. CASE Return(c)
      BY <1>2, <2>2, ReturnType DEF TypeOK, Resume, store
    <2>3. QED
      BY <1>2, <2>1, <2>2 DEF Resume
  <1>3. ASSUME NEW c \in Callers, Call(c)  PROVE TypeOK'
    BY <1>3, CallType
  <1>4. ASSUME NEW c \in Callers, CallFails(c)  PROVE TypeOK'
    <2>1. faults' \in 0..MaxFaults
      <3>1. faults \in 0..MaxFaults /\ MaxFaults \in Nat
        BY ParametersAssumption DEF TypeOK
      <3>2. QED
        BY <1>4, <3>1 DEF CallFails
    <2>2. QED
      BY <1>4, <2>1, ReturnType DEF TypeOK, CallFails, store
  <1>5. ASSUME NEW r \in Runs, ReaperLists(r)  PROVE TypeOK'
    BY <1>5 DEF TypeOK, ReaperLists, store, caller
  <1>6. ASSUME NEW r \in Runs, ReaperSaves(r)  PROVE TypeOK'
    <2>1. UNCHANGED <<keyOf, cursor, data, steps, caller, reported, faults>>
      BY <1>6 DEF ReaperSaves
    <2>2. listed' \in [Runs -> Nat]
      BY <1>6 DEF TypeOK, ReaperSaves
    <2>3. /\ status' = [status EXCEPT ![r] = "failed"] \/ status' = status
          /\ version' = [version EXCEPT ![r] = version[r] + 1] \/ version' = version
      BY <1>6 DEF ReaperSaves
    <2>4. status' \in [Runs -> Active \cup Terminal \cup {"absent", "deleted"}]
      BY <2>3 DEF TypeOK, Terminal
    <2>5. version' \in [Runs -> Nat]
      <3>1. version \in [Runs -> Nat]
        BY DEF TypeOK
      <3>2. QED
        BY <2>3, <3>1
    <2>6. QED
      BY <2>1, <2>2, <2>4, <2>5 DEF TypeOK, caller
  <1>7. ASSUME NEW r \in Runs, DeleteCompleted(r)  PROVE TypeOK'
    BY <1>7 DEF TypeOK, DeleteCompleted, caller
  <1>8. CASE UNCHANGED vars
    BY <1>8 DEF TypeOK, vars, store, caller
  <1>9. QED
    BY <1>1, <1>2, <1>3, <1>4, <1>5, <1>6, <1>7, <1>8 DEF Next

(***************************************************************************)
(* The strengthening is kept. Steps of one caller leave the others as they *)
(* are; a step that writes a run moves its version past theirs.            *)
(***************************************************************************)
CallerSame(d) ==
    /\ pc'[d] = pc[d] /\ key'[d] = key[d] /\ rid'[d] = rid[d] /\ ver'[d] = ver[d]
    /\ i'[d] = i[d] /\ cur'[d] = cur[d] /\ out'[d] = out[d]

LEMMA ReturnFrame ==
    ASSUME TypeOK, NEW c \in Callers, Return(c)
    PROVE  /\ pc'[c] = "idle" /\ rid'[c] = NoRun /\ i'[c] = 0 /\ cur'[c] = NoData
           /\ \A d \in Callers \ {c} : CallerSame(d)
  BY ZenonT(60) DEF TypeOK, Return, CallerSame

LEMMA SnapshotFrame ==
    ASSUME TypeOK, NEW c \in Callers, NEW r \in Runs, NEW S \in SUBSET Callers, Snapshot(c, r, S)
    PROVE  /\ pc'[c] = "execute" /\ rid'[c] = r /\ ver'[c] = version[r] /\ i'[c] = cursor[r]
           /\ cur'[c].inputs = data[r].inputs \cup S /\ cur'[c].done = data[r].done
           /\ \A d \in Callers \ {c} : CallerSame(d)
  <1>1. data[r] \in Data
    BY DEF TypeOK
  <1>2. /\ [data[r] EXCEPT !.inputs = @ \cup S].inputs = data[r].inputs \cup S
        /\ [data[r] EXCEPT !.inputs = @ \cup S].done = data[r].done
    BY <1>1 DEF Data
  <1>3. /\ pc'[c] = "execute" /\ rid'[c] = r /\ ver'[c] = version[r] /\ i'[c] = cursor[r]
        /\ cur'[c] = [data[r] EXCEPT !.inputs = @ \cup S]
        /\ \A d \in Callers \ {c} : CallerSame(d)
    BY ZenonT(60) DEF TypeOK, Snapshot, CallerSame
  <1>4. QED
    BY <1>2, <1>3

\* Nothing the shape of a caller depends on has changed.
LEMMA ShapeKept ==
    ASSUME NEW d \in Callers, ShapeOf(d), CallerSame(d), UNCHANGED <<status, version>>
    PROVE  ShapeOf(d)'
  BY DEF ShapeOf, CallerSame, Holding, Working

\* A caller that returns, with the store as it was.
LEMMA ReturnKeeps ==
    ASSUME RunInv, NEW c \in Callers, Return(c), UNCHANGED <<store, reported, listed>>
    PROVE  /\ CallerShape' /\ Reserved' /\ FreshSnapshot' /\ RunShape' /\ OneActive'
           /\ EndReportedIsTrue'
  <1>1. /\ pc'[c] = "idle" /\ rid'[c] = NoRun /\ i'[c] = 0 /\ cur'[c] = NoData
        /\ \A d \in Callers \ {c} : CallerSame(d)
    BY ReturnFrame DEF RunInv
  <1>2. CallerShape'
    <2>1. ShapeOf(c)'
      BY <1>1 DEF ShapeOf, Holding, Working
    <2>2. \A d \in Callers \ {c} : ShapeOf(d)'
      BY <1>1, ShapeKept DEF RunInv, CallerShape, store
    <2>3. QED
      BY <2>1, <2>2 DEF CallerShape
  <1>3. Reserved'
    <2>1. \A d \in Callers : pc[d] \in Holding => rid[d] # NoRun
      BY NamesAssumption DEF RunInv, CallerShape, ShapeOf
    <2>2. ASSUME NEW d \in Callers, NEW e \in Callers, d # e, pc'[d] \in Holding  PROVE rid'[e] # rid'[d]
      <3>1. d # c /\ pc[d] \in Holding /\ rid'[d] = rid[d]
        BY <1>1, <2>2 DEF CallerSame, Holding
      <3>2. CASE e = c
        BY <1>1, <2>1, <3>1, <3>2
      <3>3. CASE e # c
        BY <1>1, <2>2, <3>1, <3>3 DEF RunInv, Reserved, CallerSame
      <3>4. QED
        BY <3>2, <3>3
    <2>3. QED
      BY <2>2 DEF Reserved
  <1>4. FreshSnapshot'
    BY <1>1 DEF RunInv, FreshSnapshot, Fresh, CasHolds, CallerSame, store, Working
  <1>5. RunShape' /\ OneActive' /\ EndReportedIsTrue'
    BY DEF RunInv, RunShape, OneActive, EndReportedIsTrue, CasHolds, store
  <1>6. QED
    BY <1>2, <1>3, <1>4, <1>5

\* A caller that takes a snapshot of an active run.
LEMMA SnapshotKeeps ==
    ASSUME RunInv, NEW c \in Callers, NEW r \in Runs, NEW S \in SUBSET Callers, Snapshot(c, r, S),
           status[r] \in Active, UNCHANGED <<store, reported, listed>>
    PROVE  /\ CallerShape' /\ Reserved' /\ FreshSnapshot' /\ RunShape' /\ OneActive'
           /\ EndReportedIsTrue'
  <1>1. /\ pc'[c] = "execute" /\ rid'[c] = r /\ ver'[c] = version[r] /\ i'[c] = cursor[r]
        /\ cur'[c].inputs = data[r].inputs \cup S /\ cur'[c].done = data[r].done
        /\ \A d \in Callers \ {c} : CallerSame(d)
    BY SnapshotFrame DEF RunInv
  <1>2. CallerShape'
    <2>1. version[r] \in Nat
      BY DEF RunInv, TypeOK
    <2>2. ShapeOf(c)'
      BY <1>1, <2>1 DEF ShapeOf, store, Holding, Working, Active
    <2>3. \A d \in Callers \ {c} : ShapeOf(d)'
      BY <1>1, ShapeKept DEF RunInv, CallerShape, store
    <2>4. QED
      BY <2>2, <2>3 DEF CallerShape
  <1>3. Reserved'
    <2>1. \A d \in Callers : pc[d] \in Holding => rid[d] # r
      BY DEF RunInv, CallerShape, ShapeOf, Active
    <2>2. QED
      BY <1>1, <2>1 DEF RunInv, Reserved, CallerSame, Holding
  <1>4. FreshSnapshot'
    BY <1>1 DEF RunInv, FreshSnapshot, Fresh, CasHolds, CallerSame, store, Working
  <1>5. RunShape' /\ OneActive' /\ EndReportedIsTrue'
    BY DEF RunInv, RunShape, OneActive, EndReportedIsTrue, CasHolds, store
  <1>6. QED
    BY <1>2, <1>3, <1>4, <1>5

LEMMA StartLoadKeeps ==
    ASSUME RunInv, NEW c \in Callers, NEW k \in Keys, StartLoad(c, k)
    PROVE  /\ CallerShape' /\ Reserved' /\ FreshSnapshot' /\ RunShape' /\ OneActive'
           /\ EndReportedIsTrue'
  <1>0. UNCHANGED <<store, reported, listed>> /\ pc[c] = "idle"
    BY DEF StartLoad
  <1>1. CASE Return(c)
    BY <1>0, <1>1, ReturnKeeps
  <1>2. CASE ~Return(c)
    <2>1. PICK r \in NewIds : rid' = [rid EXCEPT ![c] = r]
      BY <1>2 DEF StartLoad
    <2>2. /\ pc'[c] = "insert" /\ rid'[c] = r /\ key'[c] = k /\ i'[c] = i[c] /\ cur'[c] = cur[c]
          /\ \A d \in Callers \ {c} : CallerSame(d)
      BY <1>2, <2>1, ZenonT(60) DEF StartLoad, CallerSame, RunInv, TypeOK
    <2>3. r \in Runs /\ status[r] = "absent" /\ \A d \in Callers : rid[d] # r
      BY <2>1 DEF NewIds
    <2>4. CallerShape'
      <3>1. ShapeOf(c)'
        BY <1>0, <2>2, <2>3 DEF RunInv, CallerShape, ShapeOf, store, Holding, Working
      <3>2. \A d \in Callers \ {c} : ShapeOf(d)'
        BY <1>0, <2>2, ShapeKept DEF RunInv, CallerShape, store
      <3>3. QED
        BY <3>1, <3>2 DEF CallerShape
    <2>5. Reserved'
      BY <1>0, <2>2, <2>3 DEF RunInv, Reserved, CallerSame
    <2>6. FreshSnapshot'
      BY <1>0, <2>2 DEF RunInv, FreshSnapshot, Fresh, CasHolds, CallerSame, store, Working
    <2>7. RunShape' /\ OneActive' /\ EndReportedIsTrue'
      BY <1>0 DEF RunInv, RunShape, OneActive, EndReportedIsTrue, CasHolds, store
    <2>8. QED
      BY <2>4, <2>5, <2>6, <2>7
  <1>3. QED
    BY <1>1, <1>2

LEMMA StartInsertKeeps ==
    ASSUME RunInv, NEW c \in Callers, StartInsert(c)
    PROVE  /\ CallerShape' /\ Reserved' /\ FreshSnapshot' /\ RunShape' /\ OneActive'
           /\ EndReportedIsTrue'
  <1> DEFINE r == rid[c]
  <1>1. /\ r \in Runs /\ key[c] \in Keys /\ status[r] = "absent"
        /\ i[c] = 0 /\ cur[c] = NoData
        /\ data[r] = NoData /\ reported[r] = {} /\ listed[r] = 0
    BY DEF RunInv, StartInsert, CallerShape, ShapeOf, Holding, RunShape
  <1>2. \A d \in Callers \ {c} : rid[d] # r
    BY DEF RunInv, StartInsert, Reserved, Holding
  <1>3. /\ pc'[c] = "execute" /\ ver'[c] = 1 /\ rid'[c] = r /\ i'[c] = 0 /\ cur'[c] = NoData
        /\ \A d \in Callers \ {c} : CallerSame(d)
    BY <1>1, ZenonT(60) DEF StartInsert, CallerSame, RunInv, TypeOK
  <1>4. /\ status'[r] = "running" /\ keyOf'[r] = key[c] /\ version'[r] = 1 /\ data'[r] = NoData
        /\ \A s \in Runs \ {r} : /\ status'[s] = status[s] /\ keyOf'[s] = keyOf[s]
                                 /\ version'[s] = version[s] /\ data'[s] = data[s]
    BY <1>1, ZenonT(60) DEF StartInsert, RunInv, TypeOK
  <1>5. UNCHANGED <<cursor, reported, listed>>
    BY DEF StartInsert
  <1>6. CallerShape'
    <2>1. ShapeOf(c)'
      BY <1>1, <1>3, <1>4 DEF ShapeOf, Holding, Working
    <2>2. ASSUME NEW d \in Callers \ {c}  PROVE ShapeOf(d)'
      <3>1. ShapeOf(d) /\ CallerSame(d) /\ rid[d] # r
        BY <1>2, <1>3 DEF RunInv, CallerShape
      <3>2. rid[d] \in Runs => status'[rid[d]] = status[rid[d]] /\ version'[rid[d]] = version[rid[d]]
        BY <1>4, <3>1
      <3>3. QED
        BY <3>1, <3>2 DEF ShapeOf, CallerSame, Holding, Working
    <2>3. QED
      BY <2>1, <2>2 DEF CallerShape
  <1>7. Reserved'
    BY <1>2, <1>3 DEF RunInv, Reserved, CallerSame, Holding
  <1>8. FreshSnapshot'
    <2> SUFFICES ASSUME NEW d \in Callers, Fresh(d)'
                 PROVE  /\ status'[rid'[d]] \in Active
                        /\ data'[rid'[d]].inputs \subseteq cur'[d].inputs
                        /\ data'[rid'[d]].done \subseteq cur'[d].done
      BY DEF FreshSnapshot
    <2>1. CASE d = c
      BY <1>3, <1>4, <2>1 DEF Active
    <2>2. CASE d # c
      <3>1. rid'[d] = rid[d] /\ rid[d] # r /\ pc[d] \in Working
        BY <1>2, <1>3, <2>2 DEF CallerSame, Fresh
      <3>2. rid[d] \in Runs
        BY <3>1 DEF RunInv, CallerShape, ShapeOf
      <3>3. Fresh(d)
        BY <1>3, <1>4, <2>2, <3>1, <3>2 DEF Fresh, CasHolds, CallerSame
      <3>4. QED
        BY <1>3, <1>4, <2>2, <3>1, <3>2, <3>3 DEF RunInv, FreshSnapshot, CallerSame
    <2>3. QED
      BY <2>1, <2>2
  <1>9. RunShape'
    BY <1>1, <1>4, <1>5 DEF RunInv, RunShape, CasHolds
  <1>10. OneActive'
    <2>1. \A s \in Runs : keyOf[s] = key[c] => status[s] \notin Active
      BY DEF StartInsert, KeyIsTaken, ActiveRuns
    <2>2. QED
      BY <1>1, <1>4, <2>1 DEF RunInv, OneActive
  <1>11. EndReportedIsTrue'
    BY <1>1, <1>4, <1>5 DEF RunInv, EndReportedIsTrue
  <1>12. QED
    BY <1>6, <1>7, <1>8, <1>9, <1>10, <1>11

\* A caller goes one step on inside the engine; the store's runs are as before.
LEMMA AdvanceKeeps ==
    ASSUME RunInv, NEW c \in Callers, ShapeOf(c)',
           UNCHANGED <<status, keyOf, cursor, data, version, rid, ver, reported, listed>>,
           pc[c] \notin Working => pc'[c] \notin Working,
           pc[c] \notin Holding => pc'[c] \notin Holding,
           cur[c].inputs \subseteq cur'[c].inputs, cur[c].done \subseteq cur'[c].done,
           \A d \in Callers \ {c} : CallerSame(d)
    PROVE  /\ CallerShape' /\ Reserved' /\ FreshSnapshot' /\ RunShape' /\ OneActive'
           /\ EndReportedIsTrue'
  <1>1. CallerShape'
    BY ShapeKept DEF RunInv, CallerShape
  <1>2. Reserved'
    BY DEF RunInv, Reserved, CallerSame
  <1>3. FreshSnapshot'
    BY DEF RunInv, FreshSnapshot, Fresh, CasHolds, CallerSame
  <1>4. RunShape' /\ OneActive' /\ EndReportedIsTrue'
    BY DEF RunInv, RunShape, OneActive, EndReportedIsTrue, CasHolds
  <1>5. QED
    BY <1>1, <1>2, <1>3, <1>4

LEMMA NextStepFrame ==
    ASSUME TypeOK, NEW c \in Callers, NEW o \in Outcomes, NextStep(c, o)
    PROVE  /\ \/ pc'[c] = "execute"
              \/ pc'[c] = "save" /\ out'[c] \in {"succeeded", "failed", "suspended"}
           /\ \A d \in Callers \ {c} : pc'[d] = pc[d] /\ i'[d] = i[d] /\ out'[d] = out[d]
  <1>1. Verdict(o) \in {"succeeded", "failed", "suspended"}
    BY DEF Verdict, Outcomes
  <1>2. CASE o = "completed" /\ i[c] + 1 < StepCount
    BY <1>2, ZenonT(60) DEF NextStep, TypeOK
  <1>3. CASE ~(o = "completed" /\ i[c] + 1 < StepCount)
    <2>1. /\ out' = [out EXCEPT ![c] = Verdict(o)]
          /\ pc' = [pc EXCEPT ![c] = "save"]
          /\ i' = i
      BY <1>3 DEF NextStep
    <2>2. QED
      BY <1>1, <2>1 DEF TypeOK
  <1>4. QED
    BY <1>2, <1>3

LEMMA InsideKeeps ==
    ASSUME RunInv, NEW c \in Callers,
           \/ StartRefused(c)
           \/ \E o \in Outcomes : Execute(c, o)
           \/ AppendStep(c) \/ AppendStepFails(c) \/ SaveConflicts(c)
    PROVE  /\ CallerShape' /\ Reserved' /\ FreshSnapshot' /\ RunShape' /\ OneActive'
           /\ EndReportedIsTrue'
  <1>0. TypeOK /\ ShapeOf(c) /\ cur[c] \in Data
    BY DEF RunInv, CallerShape, TypeOK
  <1>1. CASE StartRefused(c)
    <2>1. ShapeOf(c)'
      BY <1>0, <1>1 DEF StartRefused, TypeOK, ShapeOf, store, Holding, Working
    <2>2. \A d \in Callers \ {c} : CallerSame(d)
      BY <1>0, <1>1 DEF StartRefused, TypeOK, CallerSame
    <2>3. QED
      BY <1>0, <1>1, <2>1, <2>2, AdvanceKeeps DEF StartRefused, store, TypeOK, Holding, Working
  <1>2. CASE \E o \in Outcomes : Execute(c, o)
    <2>0. PICK o \in Outcomes : Execute(c, o)
      BY <1>2
    <2>1. ShapeOf(c)'
      BY <1>0, <2>0 DEF Execute, TypeOK, ShapeOf, store, Holding, Working
    <2>2. \A d \in Callers \ {c} : CallerSame(d)
      BY <1>0, <2>0 DEF Execute, TypeOK, CallerSame
    <2>3. QED
      BY <1>0, <2>0, <2>1, <2>2, AdvanceKeeps DEF Execute, store, TypeOK, Holding, Working
  <1>3. CASE AppendStep(c)
    <2>1. out[c] \in Outcomes /\ NextStep(c, out[c]) /\ pc[c] = "record"
      BY <1>0, <1>3 DEF AppendStep, ShapeOf
    <2>2. /\ \/ pc'[c] = "execute"
             \/ pc'[c] = "save" /\ out'[c] \in {"succeeded", "failed", "suspended"}
          /\ \A d \in Callers \ {c} : pc'[d] = pc[d] /\ i'[d] = i[d] /\ out'[d] = out[d]
      BY <1>0, <2>1, NextStepFrame
    <2>3. UNCHANGED <<status, keyOf, cursor, data, version, key, rid, ver, reported, listed>>
      BY <1>3 DEF AppendStep
    <2>4. cur' = [cur EXCEPT ![c] = [cur[c] EXCEPT !.done =
                    IF out[c] = "completed" THEN @ \cup {i[c]} ELSE @]]
      BY <1>3 DEF AppendStep
    <2>5. /\ cur[c].inputs \subseteq cur'[c].inputs /\ cur[c].done \subseteq cur'[c].done
          /\ \A d \in Callers \ {c} : cur'[d] = cur[d]
      BY <1>0, <2>4 DEF TypeOK, Data
    <2>6. ShapeOf(c)'
      BY <1>0, <2>1, <2>2, <2>3 DEF ShapeOf, Holding, Working
    <2>7. \A d \in Callers \ {c} : CallerSame(d)
      BY <2>2, <2>3, <2>5 DEF CallerSame
    <2>8. QED
      BY <2>1, <2>2, <2>3, <2>5, <2>6, <2>7, AdvanceKeeps DEF Holding, Working
  <1>4. CASE AppendStepFails(c)
    <2>1. NextStep(c, "error") /\ "error" \in Outcomes /\ pc[c] = "record"
      BY <1>4 DEF AppendStepFails, Outcomes
    <2>2. /\ \/ pc'[c] = "execute"
             \/ pc'[c] = "save" /\ out'[c] \in {"succeeded", "failed", "suspended"}
          /\ \A d \in Callers \ {c} : pc'[d] = pc[d] /\ i'[d] = i[d] /\ out'[d] = out[d]
      BY <1>0, <2>1, NextStepFrame
    <2>3. UNCHANGED <<status, keyOf, cursor, data, version, key, rid, ver, cur, reported, listed>>
      BY <1>4 DEF AppendStepFails, store
    <2>4. ShapeOf(c)'
      BY <1>0, <2>1, <2>2, <2>3 DEF ShapeOf, Holding, Working
    <2>5. \A d \in Callers \ {c} : CallerSame(d)
      BY <2>2, <2>3 DEF CallerSame
    <2>6. QED
      BY <2>1, <2>2, <2>3, <2>4, <2>5, AdvanceKeeps DEF Holding, Working
  <1>5. CASE SaveConflicts(c)
    <2>1. ShapeOf(c)'
      BY <1>0, <1>5 DEF SaveConflicts, TypeOK, ShapeOf, store, Holding, Working
    <2>2. \A d \in Callers \ {c} : CallerSame(d)
      BY <1>0, <1>5 DEF SaveConflicts, TypeOK, CallerSame
    <2>3. QED
      BY <1>0, <1>5, <2>1, <2>2, AdvanceKeeps DEF SaveConflicts, store, TypeOK, Holding, Working
  <1>6. QED
    BY <1>1, <1>2, <1>3, <1>4, <1>5

\* The compare-and-set: every other snapshot of the run is older from now on.
LEMMA SaveKeeps ==
    ASSUME RunInv, NEW c \in Callers, Save(c)
    PROVE  /\ CallerShape' /\ Reserved' /\ FreshSnapshot' /\ RunShape' /\ OneActive'
           /\ EndReportedIsTrue'
  <1> DEFINE r == rid[c]
  <1>1. /\ r \in Runs /\ ver[c] = version[r] /\ version[r] \in Nat
        /\ out[c] \in {"succeeded", "failed", "suspended"}
        /\ status[r] \in Active
    BY DEF RunInv, TypeOK, CallerShape, ShapeOf, FreshSnapshot, Fresh, CasHolds, Working, Save
  <1>2. /\ pc'[c] = "idle" /\ rid'[c] = NoRun /\ i'[c] = 0 /\ cur'[c] = NoData
        /\ \A d \in Callers \ {c} : CallerSame(d)
    BY ReturnFrame DEF RunInv, Save
  <1>3. /\ status'[r] = out[c] /\ version'[r] = version[r] + 1
        /\ \A s \in Runs \ {r} : /\ status'[s] = status[s] /\ version'[s] = version[s]
                                 /\ data'[s] = data[s] /\ cursor'[s] = cursor[s]
                                 /\ reported'[s] = reported[s]
    BY <1>1, ZenonT(30) DEF Save, RunInv, TypeOK
  <1>4. reported'[r] = reported[r] \cup ({out[c]} \cap Terminal)
    BY <1>1 DEF Save, RunInv, TypeOK
  <1>5. UNCHANGED <<keyOf, listed>>
    BY DEF Save
  <1>6. CallerShape'
    <2>1. ShapeOf(c)'
      BY <1>2 DEF ShapeOf, Holding, Working
    <2>2. ASSUME NEW d \in Callers \ {c}  PROVE ShapeOf(d)'
      <3>1. ShapeOf(d) /\ CallerSame(d) /\ ver[d] \in Nat
        BY <1>2 DEF RunInv, CallerShape, TypeOK
      <3>2. CASE rid[d] = r
        <4>1. status[r] # "absent" /\ status'[r] # "absent"
          BY <1>1, <1>3 DEF Active
        <4>2. ver[d] <= version[r] => ver[d] <= version'[r]
          BY <1>1, <1>3, <3>1
        <4>3. QED
          BY <3>1, <3>2, <4>1, <4>2 DEF ShapeOf, CallerSame
      <3>3. CASE rid[d] # r
        <4>1. rid[d] \in Runs => status'[rid[d]] = status[rid[d]] /\ version'[rid[d]] = version[rid[d]]
          BY <1>3, <3>3
        <4>2. QED
          BY <3>1, <4>1 DEF ShapeOf, CallerSame, Holding, Working
      <3>4. QED
        BY <3>2, <3>3
    <2>3. QED
      BY <2>1, <2>2 DEF CallerShape
  <1>7. Reserved'
    <2>1. \A d \in Callers : pc[d] \in Holding => rid[d] # NoRun
      BY NamesAssumption DEF RunInv, CallerShape, ShapeOf
    <2>2. ASSUME NEW d \in Callers, NEW e \in Callers, d # e, pc'[d] \in Holding  PROVE rid'[e] # rid'[d]
      <3>1. d # c /\ pc[d] \in Holding /\ rid'[d] = rid[d]
        BY <1>2, <2>2 DEF CallerSame, Holding
      <3>2. CASE e = c
        BY <1>2, <2>1, <3>1, <3>2
      <3>3. CASE e # c
        BY <1>2, <2>2, <3>1, <3>3 DEF RunInv, Reserved, CallerSame
      <3>4. QED
        BY <3>2, <3>3
    <2>3. QED
      BY <2>2 DEF Reserved
  <1>8. FreshSnapshot'
    <2> SUFFICES ASSUME NEW d \in Callers, Fresh(d)'
                 PROVE  /\ status'[rid'[d]] \in Active
                        /\ data'[rid'[d]].inputs \subseteq cur'[d].inputs
                        /\ data'[rid'[d]].done \subseteq cur'[d].done
      BY DEF FreshSnapshot
    <2>1. d # c /\ CallerSame(d) /\ pc[d] \in Working
      BY <1>2 DEF Fresh, Working, CallerSame
    <2>2. rid[d] \in Runs /\ ver[d] <= version[rid[d]] /\ ver[d] \in Nat
      BY <2>1 DEF RunInv, CallerShape, ShapeOf, TypeOK
    <2>3. rid[d] # r
      BY <1>1, <1>3, <2>1, <2>2 DEF Fresh, CasHolds, CallerSame
    <2>4. Fresh(d)
      BY <1>3, <2>1, <2>2, <2>3 DEF Fresh, CasHolds, CallerSame
    <2>5. QED
      BY <1>3, <2>1, <2>2, <2>3, <2>4 DEF RunInv, FreshSnapshot, CallerSame
  <1>9. RunShape'
    <2> SUFFICES ASSUME NEW s \in Runs
                 PROVE  /\ status'[s] = "absent" =>
                            /\ data'[s] = NoData /\ cursor'[s] = 0 /\ reported'[s] = {}
                            /\ listed'[s] = 0
                        /\ listed'[s] <= version'[s]
                        /\ listed'[s] > 0 /\ CasHolds(s, listed[s])' => status'[s] = "suspended"
      BY DEF RunShape, CasHolds
    <2>1. listed[s] <= version[s] /\ listed[s] \in Nat /\ version[s] \in Nat
      BY DEF RunInv, RunShape, TypeOK
    <2>2. CASE s = r
      BY <1>1, <1>3, <1>5, <2>1, <2>2 DEF CasHolds
    <2>3. CASE s # r
      BY <1>3, <1>5, <2>1, <2>3 DEF RunInv, RunShape, CasHolds
    <2>4. QED
      BY <2>2, <2>3
  <1>10. OneActive'
    BY <1>1, <1>3, <1>5 DEF RunInv, OneActive
  <1>11. EndReportedIsTrue'
    <2>1. reported[r] \subseteq {status[r]} /\ reported[r] \subseteq Terminal
      BY <1>1 DEF RunInv, EndReportedIsTrue, TypeOK, Active
    <2>2. reported[r] = {}
      BY <1>1, <2>1 DEF Active, Terminal
    <2>3. QED
      BY <1>3, <1>4, <2>2 DEF RunInv, EndReportedIsTrue
  <1>12. QED
    BY <1>6, <1>7, <1>8, <1>9, <1>10, <1>11

\* The jobs beside the callers: a run fails or goes, no caller moves.
LEMMA JobsKeep ==
    ASSUME RunInv, NEW r \in Runs, ReaperLists(r) \/ ReaperSaves(r) \/ DeleteCompleted(r)
    PROVE  /\ CallerShape' /\ Reserved' /\ FreshSnapshot' /\ RunShape' /\ OneActive'
           /\ EndReportedIsTrue'
  <1>0. UNCHANGED <<pc, key, rid, ver, i, cur, out, keyOf, cursor, data, reported>>
    BY DEF ReaperLists, ReaperSaves, DeleteCompleted, store, caller
  <1>1. version[r] \in Nat /\ listed[r] \in Nat
    BY DEF RunInv, TypeOK
  <1>2. \A s \in Runs \ {r} : status'[s] = status[s] /\ version'[s] = version[s] /\ listed'[s] = listed[s]
    BY ZenonT(60) DEF ReaperLists, ReaperSaves, DeleteCompleted, store, RunInv, TypeOK
  <1>3. \/ /\ status'[r] = status[r] /\ version'[r] = version[r]
           /\ listed'[r] = 0 \/ (listed'[r] = version[r] /\ status[r] = "suspended")
        \/ /\ status[r] = "suspended" /\ status'[r] = "failed"
           /\ version'[r] = version[r] + 1 /\ listed'[r] = 0
        \/ /\ status[r] \in Terminal /\ status'[r] = "deleted"
           /\ version'[r] = version[r] /\ listed'[r] = listed[r]
    <2>1. CASE ReaperLists(r)
      BY <2>1 DEF ReaperLists, store, RunInv, TypeOK
    <2>2. CASE ReaperSaves(r)
      <3>1. listed'[r] = 0
        BY <2>2 DEF ReaperSaves, RunInv, TypeOK
      <3>2. CASE CasHolds(r, listed[r])
        <4>1. status[r] = "suspended"
          BY <2>2, <3>2 DEF ReaperSaves, RunInv, RunShape
        <4>2. status'[r] = "failed" /\ version'[r] = version[r] + 1
          BY <2>2, <3>2 DEF ReaperSaves, RunInv, TypeOK
        <4>3. QED
          BY <3>1, <4>1, <4>2
      <3>3. CASE ~CasHolds(r, listed[r])
        BY <2>2, <3>1, <3>3 DEF ReaperSaves
      <3>4. QED
        BY <3>2, <3>3
    <2>3. CASE DeleteCompleted(r)
      BY <2>3 DEF DeleteCompleted, RunInv, TypeOK
    <2>4. QED
      BY <2>1, <2>2, <2>3
  <1>4. CallerShape'
    <2> SUFFICES ASSUME NEW d \in Callers  PROVE ShapeOf(d)'
      BY DEF CallerShape
    <2>1. ShapeOf(d) /\ ver[d] \in Nat
      BY DEF RunInv, CallerShape, TypeOK
    <2>2. CASE rid[d] = r
      <3>1. status[r] # "absent" <=> status'[r] # "absent"
        BY <1>3 DEF Terminal
      <3>2. ver[d] <= version[r] => ver[d] <= version'[r]
        BY <1>1, <1>3, <2>1
      <3>3. status[r] = "absent" => status'[r] = "absent"
        BY <1>3 DEF Terminal
      <3>4. QED
        BY <1>0, <2>1, <2>2, <3>1, <3>2, <3>3 DEF ShapeOf
    <2>3. CASE rid[d] # r
      <3>1. rid[d] \in Runs => status'[rid[d]] = status[rid[d]] /\ version'[rid[d]] = version[rid[d]]
        BY <1>2, <2>3
      <3>2. QED
        BY <1>0, <2>1, <3>1 DEF ShapeOf, Holding, Working
    <2>4. QED
      BY <2>2, <2>3
  <1>5. Reserved'
    BY <1>0 DEF RunInv, Reserved
  <1>6. FreshSnapshot'
    <2> SUFFICES ASSUME NEW d \in Callers, Fresh(d)'
                 PROVE  /\ status'[rid[d]] \in Active
                        /\ data[rid[d]].inputs \subseteq cur[d].inputs
                        /\ data[rid[d]].done \subseteq cur[d].done
      BY <1>0 DEF FreshSnapshot
    <2>1. rid[d] \in Runs /\ ver[d] <= version[rid[d]] /\ ver[d] \in Nat
      BY <1>0 DEF RunInv, CallerShape, ShapeOf, TypeOK, Fresh
    <2>2. Fresh(d) /\ status'[rid[d]] = status[rid[d]]
      BY <1>0, <1>1, <1>2, <1>3, <2>1 DEF Fresh, CasHolds
    <2>3. QED
      BY <2>2 DEF RunInv, FreshSnapshot
  <1>7. RunShape'
    <2> SUFFICES ASSUME NEW s \in Runs
                 PROVE  /\ status'[s] = "absent" =>
                            /\ data'[s] = NoData /\ cursor'[s] = 0 /\ reported'[s] = {}
                            /\ listed'[s] = 0
                        /\ listed'[s] <= version'[s]
                        /\ listed'[s] > 0 /\ CasHolds(s, listed[s])' => status'[s] = "suspended"
      BY DEF RunShape, CasHolds
    <2>1. CASE s = r
      <3>1. listed[r] <= version[r]
        BY DEF RunInv, RunShape
      <3>2. QED
        BY <1>0, <1>1, <1>3, <2>1, <3>1 DEF RunInv, RunShape, CasHolds, Terminal
    <2>2. CASE s # r
      BY <1>0, <1>2, <2>2 DEF RunInv, RunShape, CasHolds
    <2>3. QED
      BY <2>1, <2>2
  <1>8. OneActive'
    BY <1>0, <1>2, <1>3 DEF RunInv, OneActive, Active
  <1>9. EndReportedIsTrue'
    <2>1. status[r] = "suspended" => reported[r] = {}
      BY ZenonT(60) DEF RunInv, EndReportedIsTrue, TypeOK, Terminal
    <2>2. QED
      BY <1>0, <1>2, <1>3, <2>1 DEF RunInv, EndReportedIsTrue
  <1>10. QED
    BY <1>4, <1>5, <1>6, <1>7, <1>8, <1>9

LEMMA RunStep == RunInv /\ [Next]_vars => RunInv'
  <1> SUFFICES ASSUME RunInv, [Next]_vars  PROVE RunInv'
    OBVIOUS
  <1>1. TypeOK'
    BY TypeStep DEF RunInv
  <1>2. ASSUME NEW c \in Callers, NEW k \in Keys, StartLoad(c, k)  PROVE RunInv'
    BY <1>1, <1>2, StartLoadKeeps DEF RunInv
  <1>3. ASSUME NEW c \in Callers, NEW k \in Keys, Resume(c, k)  PROVE RunInv'
    <2>0. UNCHANGED <<store, reported, listed>>
      BY <1>3 DEF Resume
    <2>1. CASE Return(c)
      BY <1>1, <2>0, <2>1, ReturnKeeps DEF RunInv
    <2>2. CASE \E r \in Resumable(k) : Snapshot(c, r, {c})
      <3>1. PICK r \in Runs : Snapshot(c, r, {c}) /\ status[r] \in Active
        BY <2>2 DEF Resumable, ActiveRuns
      <3>2. QED
        BY <1>1, <2>0, <3>1, SnapshotKeeps DEF RunInv
    <2>3. QED
      BY <1>3, <2>1, <2>2 DEF Resume
  <1>4. ASSUME NEW c \in Callers, Call(c)  PROVE RunInv'
    <2>1. CASE StartInsert(c)
      BY <1>1, <2>1, StartInsertKeeps DEF RunInv
    <2>2. CASE ResumeOnConflict(c)
      <3>0. UNCHANGED <<store, reported, listed>>
        BY <2>2 DEF ResumeOnConflict
      <3>1. CASE Return(c)
        BY <1>1, <3>0, <3>1, ReturnKeeps DEF RunInv
      <3>2. CASE \E r \in ActiveRuns(key[c]) : Snapshot(c, r, {})
        <4>1. PICK r \in Runs : Snapshot(c, r, {}) /\ status[r] \in Active
          BY <3>2 DEF ActiveRuns
        <4>2. QED
          BY <1>1, <3>0, <4>1, SnapshotKeeps DEF RunInv
      <3>3. QED
        BY <2>2, <3>1, <3>2 DEF ResumeOnConflict
    <2>3. CASE Save(c)
      BY <1>1, <2>3, SaveKeeps DEF RunInv
    <2>4. CASE Reload(c)
      BY <1>1, <2>4, ReturnKeeps DEF RunInv, Reload
    <2>5. CASE \/ StartRefused(c)
               \/ \E o \in Outcomes : Execute(c, o)
               \/ AppendStep(c) \/ AppendStepFails(c) \/ SaveConflicts(c)
      BY <1>1, <2>5, InsideKeeps DEF RunInv
    <2>6. QED
      BY <1>4, <2>1, <2>2, <2>3, <2>4, <2>5 DEF Call, Outcomes
  <1>5. ASSUME NEW c \in Callers, CallFails(c)  PROVE RunInv'
    BY <1>1, <1>5, ReturnKeeps DEF RunInv, CallFails
  <1>6. ASSUME NEW r \in Runs, ReaperLists(r) \/ ReaperSaves(r) \/ DeleteCompleted(r)  PROVE RunInv'
    BY <1>1, <1>6, JobsKeep DEF RunInv
  <1>7. CASE UNCHANGED vars
    BY <1>1, <1>7, ZenonT(30) DEF RunInv, CallerShape, ShapeOf, Reserved, FreshSnapshot, Fresh, CasHolds, RunShape,
                OneActive, EndReportedIsTrue, vars, store, caller
  <1>8. QED
    BY <1>2, <1>3, <1>4, <1>5, <1>6, <1>7 DEF Next

LEMMA RunInvInit == Init => RunInv
  <1> SUFFICES ASSUME Init  PROVE RunInv
    OBVIOUS
  <1>1. TypeOK
    <2>1. NoData \in Data
      BY DEF NoData, Data
    <2>2. /\ status \in [Runs -> Active \cup Terminal \cup {"absent", "deleted"}]
          /\ keyOf \in [Runs -> Keys \cup {NoKey}]
          /\ cursor \in [Runs -> Steps] /\ data \in [Runs -> Data]
          /\ version \in [Runs -> Nat] /\ listed \in [Runs -> Nat]
          /\ reported \in [Runs -> SUBSET Terminal]
      BY <2>1, StepsFacts DEF Init
    <2>3. steps \in [Runs -> [Steps -> {"none", "completed", "suspended", "failed"}]]
      BY DEF Init
    <2>4. faults \in 0..MaxFaults
      <3>1. faults = 0
        BY DEF Init
      <3>2. QED
        BY <3>1, ParametersAssumption
    <2>5. QED
      BY <2>1, <2>2, <2>3, <2>4, StepsFacts DEF Init, TypeOK
  <1>2. CallerShape /\ Reserved /\ FreshSnapshot
    BY DEF Init, CallerShape, ShapeOf, Reserved, FreshSnapshot, Fresh, Holding, Working
  <1>3. RunShape
    <2>1. \A r \in Runs : /\ status[r] = "absent" /\ data[r] = NoData /\ cursor[r] = 0
                          /\ reported[r] = {} /\ listed[r] = 0 /\ version[r] = 0
      BY DEF Init
    <2>2. QED
      BY <2>1 DEF RunShape
  <1>4. OneActive /\ EndReportedIsTrue
    BY DEF Init, OneActive, EndReportedIsTrue, Active
  <1>5. QED
    BY <1>1, <1>2, <1>3, <1>4 DEF RunInv

\* The strengthening holds in every reachable state.
THEOREM RunInvariant == Spec => []RunInv
  BY RunInvInit, RunStep, PTL DEF Spec

\* Type correctness of the store and of its callers.
THEOREM TypeCorrect == Spec => []TypeOK
  <1>1. RunInv => TypeOK
    BY DEF RunInv
  <1>2. QED
    BY <1>1, RunInvariant, PTL

\* At most one run of a correlation key is running or suspended, however
\* many goroutines Start, Resume and reap it at once.
THEOREM OneActiveRun == Spec => []OneActiveRunPerKey
  <1>1. RunInv => OneActiveRunPerKey
    <2> SUFFICES ASSUME RunInv, NEW k \in Keys
                 PROVE  Cardinality(ActiveRuns(k)) <= 1
      BY DEF OneActiveRunPerKey
    <2>1. CASE ActiveRuns(k) = {}
      BY <2>1, FS_EmptySet
    <2>2. CASE ActiveRuns(k) # {}
      <3>1. PICK r : r \in ActiveRuns(k)
        BY <2>2
      <3>2. ActiveRuns(k) = {r}
        BY <3>1 DEF ActiveRuns, RunInv, OneActive
      <3>3. Cardinality({r}) = 1
        BY FS_Singleton
      <3>4. QED
        BY <3>2, <3>3
    <2>3. QED
      BY <2>1, <2>2
  <1>2. QED
    BY <1>1, RunInvariant, PTL

\* A caller that Start or Resume told that its run succeeded or failed is
\* right, whoever else works on the run.
THEOREM ReportedEndIsTrue == Spec => []EndReportedIsTrue
  <1>1. RunInv => EndReportedIsTrue
    BY DEF RunInv
  <1>2. QED
    BY <1>1, RunInvariant, PTL

\* No save of a caller drops what an earlier save recorded, and no ended run
\* is revived: the version in the compare-and-set is enough, although the
\* snapshot is kept for as long as a step runs.
THEOREM SavesKeepProgress == Spec => NoLostUpdate
  <1> DEFINE Kept(r) ==
        /\ data[r].inputs \subseteq data'[r].inputs
        /\ data[r].done \subseteq data'[r].done
        /\ status[r] \in Terminal => status'[r] \in {status[r], "deleted"}
  <1>1. RunInv /\ [Next]_vars => [\A r \in Runs : Kept(r)]_vars
    <2> SUFFICES ASSUME RunInv, Next, NEW r \in Runs  PROVE Kept(r)
      OBVIOUS
    <2>1. CASE \E c \in Callers : Save(c)
      <3>1. PICK c \in Callers : Save(c)
        BY <2>1
      <3>2. rid[c] \in Runs /\ Fresh(c)
        BY <3>1 DEF Save, RunInv, CallerShape, ShapeOf, Fresh, Working
      <3>3. /\ status[rid[c]] \in Active
            /\ data[rid[c]].inputs \subseteq cur[c].inputs
            /\ data[rid[c]].done \subseteq cur[c].done
        BY <3>2 DEF RunInv, FreshSnapshot
      <3>4. CASE r = rid[c]
        BY <3>1, <3>3, <3>4 DEF Save, RunInv, TypeOK, Active, Terminal
      <3>5. CASE r # rid[c]
        BY <3>1, <3>5 DEF Save, RunInv, TypeOK
      <3>6. QED
        BY <3>4, <3>5
    <2>2. CASE \E c \in Callers : StartInsert(c)
      <3>1. PICK c \in Callers : StartInsert(c)
        BY <2>2
      <3>2. status[rid[c]] = "absent" /\ rid[c] \in Runs /\ data' = data
        BY <3>1 DEF StartInsert, RunInv, CallerShape, ShapeOf, Holding
      <3>3. QED
        BY <3>1, <3>2 DEF StartInsert, RunInv, TypeOK, Terminal
    <2>3. CASE \E s \in Runs : ReaperSaves(s)
      <3>1. PICK s \in Runs : ReaperSaves(s)
        BY <2>3
      <3>2. CasHolds(s, listed[s]) => status[s] = "suspended"
        BY <3>1 DEF ReaperSaves, RunInv, RunShape
      <3>3. QED
        BY <3>1, <3>2 DEF ReaperSaves, RunInv, TypeOK, Terminal
    <2>4. CASE \E s \in Runs : DeleteCompleted(s)
      BY <2>4 DEF DeleteCompleted, RunInv, TypeOK
    <2>5. CASE UNCHANGED <<status, data>>
      BY <2>5
    <2>6. QED
      BY <2>1, <2>2, <2>3, <2>4, <2>5
         DEF Next, Call, StartLoad, Resume, StartRefused, ResumeOnConflict, Execute, AppendStep,
             AppendStepFails, SaveConflicts, Reload, CallFails, ReaperLists, store
  <1>2. QED
    BY <1>1, RunInvariant, PTL DEF Spec, NoLostUpdate

(***************************************************************************)
(* Progress: the completed steps of a snapshot are those before its index. *)
(***************************************************************************)
LEMMA AppendStepProgress ==
    ASSUME RunInv, NEW c \in Callers, ProgressOf(c), AppendStep(c)
    PROVE  ProgressOf(c)'
  <1>1. /\ pc[c] = "record" /\ out[c] \in Outcomes /\ i[c] \in 0..(StepCount - 1)
        /\ cur[c] \in Data /\ NextStep(c, out[c]) /\ StepCount \in Nat /\ Sequential \in BOOLEAN
    BY ParametersAssumption DEF AppendStep, RunInv, CallerShape, ShapeOf, TypeOK, Steps
  <1>2. cur[c].done = 0..(i[c] - 1)
    BY <1>1 DEF ProgressOf
  <1>3. cur'[c].done = IF out[c] = "completed" THEN cur[c].done \cup {i[c]} ELSE cur[c].done
    <2>1. cur'[c] = [cur[c] EXCEPT !.done = IF out[c] = "completed" THEN @ \cup {i[c]} ELSE @]
      BY DEF AppendStep, RunInv, TypeOK
    <2>2. QED
      BY <1>1, <2>1 DEF Data
  <1>4. CASE out[c] = "completed"
    <2>1. cur'[c].done = 0..i[c]
      BY <1>1, <1>2, <1>3, <1>4
    <2>2. CASE i[c] + 1 < StepCount
      <3>1. pc'[c] = "execute" /\ i'[c] = i[c] + 1
        BY <1>1, <1>4, <2>2, ZenonT(60) DEF NextStep, RunInv, TypeOK
      <3>2. QED
        BY <1>1, <2>1, <3>1 DEF ProgressOf
    <2>3. CASE ~(i[c] + 1 < StepCount)
      <3>1. pc'[c] = "save" /\ out'[c] = "succeeded"
        BY <1>1, <1>4, <2>3, ZenonT(30) DEF NextStep, Verdict, RunInv, TypeOK
      <3>2. cur'[c].done = Steps
        BY <1>1, <2>1, <2>3 DEF Steps
      <3>3. QED
        BY <3>1, <3>2 DEF ProgressOf
    <2>4. QED
      BY <2>2, <2>3
  <1>5. CASE out[c] # "completed"
    <2>1. pc'[c] = "save" /\ out'[c] = Verdict(out[c]) /\ i'[c] = i[c]
      BY <1>1, <1>5 DEF NextStep, RunInv, TypeOK
    <2>2. cur'[c].done = 0..(i'[c] - 1)
      BY <1>2, <1>3, <1>5, <2>1
    <2>3. Sequential => out'[c] # "succeeded"
      BY <1>1, <1>5, <2>1 DEF Verdict, Outcomes
    <2>4. QED
      BY <2>1, <2>2, <2>3 DEF ProgressOf
  <1>6. QED
    BY <1>4, <1>5

LEMMA ProgressStep ==
    ASSUME ProgressInv, [Next]_vars
    PROVE  Progress'
  <1>0. RunInv /\ TypeOK /\ Progress
    BY DEF ProgressInv, RunInv
  <1>1. ASSUME NEW c \in Callers, \A d \in Callers \ {c} : CallerSame(d), ProgressOf(c)'
        PROVE  Progress'
    BY <1>0, <1>1 DEF Progress, ProgressOf, CallerSame
  <1>2. ASSUME NEW c \in Callers, Return(c)  PROVE Progress'
    <2>1. pc'[c] = "idle" /\ \A d \in Callers \ {c} : CallerSame(d)
      BY <1>0, <1>2, ReturnFrame
    <2>2. ProgressOf(c)'
      BY <2>1 DEF ProgressOf
    <2>3. QED
      BY <1>1, <2>1, <2>2
  <1>3. ASSUME NEW c \in Callers, NEW r \in Runs, NEW S \in SUBSET Callers, Snapshot(c, r, S),
               status[r] \in Active
        PROVE  Progress'
    <2>1. /\ pc'[c] = "execute" /\ i'[c] = cursor[r] /\ cur'[c].done = data[r].done
          /\ \A d \in Callers \ {c} : CallerSame(d)
      BY <1>0, <1>3, SnapshotFrame
    <2>2. data[r].done = 0..(cursor[r] - 1)
      BY <1>3 DEF ProgressInv, CursorIsResumePoint
    <2>3. ProgressOf(c)'
      BY <2>1, <2>2 DEF ProgressOf
    <2>4. QED
      BY <1>1, <2>1, <2>3
  <1>4. ASSUME NEW c \in Callers, NEW k \in Keys, StartLoad(c, k)  PROVE Progress'
    <2>1. CASE Return(c)
      BY <1>2, <2>1
    <2>2. CASE ~Return(c)
      <3>1. pc'[c] = "insert" /\ \A d \in Callers \ {c} : CallerSame(d)
        BY <1>0, <1>4, <2>2, ZenonT(60) DEF StartLoad, CallerSame, TypeOK
      <3>2. ProgressOf(c)'
        BY <3>1 DEF ProgressOf
      <3>3. QED
        BY <1>1, <3>1, <3>2
    <2>3. QED
      BY <2>1, <2>2
  <1>5. ASSUME NEW c \in Callers, NEW k \in Keys, Resume(c, k)  PROVE Progress'
    <2>1. CASE \E r \in Resumable(k) : Snapshot(c, r, {c})
      <3>1. PICK r \in Runs : Snapshot(c, r, {c}) /\ status[r] \in Active
        BY <2>1 DEF Resumable, ActiveRuns
      <3>2. QED
        BY <1>3, <3>1
    <2>2. QED
      BY <1>2, <1>5, <2>1 DEF Resume
  <1>6. ASSUME NEW c \in Callers, Call(c)  PROVE Progress'
    <2>1. CASE StartInsert(c)
      <3>1. /\ pc'[c] = "execute" /\ i'[c] = i[c] /\ cur'[c] = cur[c]
            /\ \A d \in Callers \ {c} : CallerSame(d)
        BY <1>0, <2>1 DEF StartInsert, CallerSame, TypeOK
      <3>2. i[c] = 0 /\ cur[c].done = {}
        <4>1. i[c] = 0 /\ cur[c] = NoData
          BY <1>0, <2>1 DEF StartInsert, RunInv, CallerShape, ShapeOf, Holding
        <4>2. QED
          BY <4>1 DEF NoData
      <3>3. ProgressOf(c)'
        BY <3>1, <3>2 DEF ProgressOf
      <3>4. QED
        BY <1>1, <3>1, <3>3
    <2>2. CASE ResumeOnConflict(c)
      <3>1. CASE \E r \in ActiveRuns(key[c]) : Snapshot(c, r, {})
        <4>1. PICK r \in Runs : Snapshot(c, r, {}) /\ status[r] \in Active
          BY <3>1 DEF ActiveRuns
        <4>2. QED
          BY <1>3, <4>1
      <3>2. QED
        BY <1>2, <2>2, <3>1 DEF ResumeOnConflict
    <2>3. CASE Save(c) \/ Reload(c)
      BY <1>2, <2>3 DEF Save, Reload
    <2>4. CASE AppendStep(c)
      <3>1. out[c] \in Outcomes /\ NextStep(c, out[c])
        BY <1>0, <2>4 DEF AppendStep, RunInv, CallerShape, ShapeOf
      <3>2. \A d \in Callers \ {c} : pc'[d] = pc[d] /\ i'[d] = i[d] /\ out'[d] = out[d]
        BY <1>0, <3>1, NextStepFrame
      <3>3. \A d \in Callers \ {c} : CallerSame(d)
        BY <1>0, <2>4, <3>2 DEF AppendStep, CallerSame, TypeOK
      <3>4. QED
        BY <1>0, <1>1, <2>4, <3>3, AppendStepProgress DEF Progress
    <2>5. CASE AppendStepFails(c)
      <3>1. /\ pc'[c] = "save" /\ out'[c] = "failed"
            /\ \A d \in Callers \ {c} : CallerSame(d)
        BY <1>0, <2>5, ZenonT(60) DEF AppendStepFails, NextStep, Verdict, CallerSame, TypeOK, store
      <3>2. ProgressOf(c)'
        BY <3>1 DEF ProgressOf
      <3>3. QED
        BY <1>1, <3>1, <3>2
    <2>6. CASE StartRefused(c) \/ SaveConflicts(c)
      <3>1. /\ pc'[c] \in {"conflict", "reload"}
            /\ \A d \in Callers \ {c} : CallerSame(d)
        BY <1>0, <2>6 DEF StartRefused, SaveConflicts, CallerSame, TypeOK
      <3>2. ProgressOf(c)'
        BY <3>1 DEF ProgressOf
      <3>3. QED
        BY <1>1, <3>1, <3>2
    <2>7. CASE \E o \in Outcomes : Execute(c, o)
      <3>1. /\ pc[c] = "execute" /\ pc'[c] = "record" /\ i' = i /\ cur' = cur
            /\ \A d \in Callers \ {c} : CallerSame(d)
        BY <1>0, <2>7, ZenonT(60) DEF Execute, CallerSame, TypeOK
      <3>2. ProgressOf(c)'
        BY <1>0, <3>1 DEF Progress, ProgressOf
      <3>3. QED
        BY <1>1, <3>1, <3>2
    <2>8. QED
      BY <1>6, <2>1, <2>2, <2>3, <2>4, <2>5, <2>6, <2>7 DEF Call, Outcomes
  <1>7. ASSUME NEW c \in Callers, CallFails(c)  PROVE Progress'
    BY <1>2, <1>7 DEF CallFails
  <1>8. CASE UNCHANGED caller
    BY <1>0, <1>8 DEF Progress, ProgressOf, caller
  <1>9. QED
    BY <1>4, <1>5, <1>6, <1>7, <1>8 DEF Next, ReaperLists, ReaperSaves, DeleteCompleted, vars

LEMMA ResumePointStep ==
    ASSUME ProgressInv, [Next]_vars
    PROVE  /\ CursorIsResumePoint'
           /\ Sequential => SucceededRanEverything'
  <1>0. RunInv /\ TypeOK
    BY DEF ProgressInv, RunInv
  <1> SUFFICES ASSUME NEW r \in Runs
               PROVE  /\ status'[r] \in Active => data'[r].done = 0..(cursor'[r] - 1)
                      /\ Sequential /\ status'[r] = "succeeded" => data'[r].done = Steps
    BY DEF CursorIsResumePoint, SucceededRanEverything
  <1>1. /\ status[r] \in Active => data[r].done = 0..(cursor[r] - 1)
        /\ Sequential /\ status[r] = "succeeded" => data[r].done = Steps
    BY DEF ProgressInv, CursorIsResumePoint, SucceededRanEverything
  <1>2. CASE \E c \in Callers : Save(c)
    <2>1. PICK c \in Callers : Save(c)
      BY <1>2
    <2>2. rid[c] \in Runs /\ out[c] \in {"succeeded", "failed", "suspended"} /\ pc[c] = "save"
      BY <1>0, <2>1 DEF Save, RunInv, CallerShape, ShapeOf, Working
    <2>3. CASE r = rid[c]
      <3>1. /\ status'[r] = out[c] /\ data'[r] = cur[c]
            /\ out[c] = "suspended" => cursor'[r] = i[c]
        BY <1>0, <2>1, <2>2, <2>3 DEF Save, TypeOK
      <3>2. /\ out[c] = "suspended" => cur[c].done = 0..(i[c] - 1)
            /\ out[c] = "succeeded" /\ Sequential => cur[c].done = Steps
        BY <2>2 DEF ProgressInv, Progress, ProgressOf
      <3>3. QED
        BY <2>2, <3>1, <3>2 DEF Active
    <2>4. CASE r # rid[c]
      <3>1. status'[r] = status[r] /\ data'[r] = data[r] /\ cursor'[r] = cursor[r]
        BY <1>0, <2>1, <2>4 DEF Save, TypeOK
      <3>2. QED
        BY <1>1, <3>1
    <2>5. QED
      BY <2>3, <2>4
  <1>3. CASE \E c \in Callers : StartInsert(c)
    <2>1. PICK c \in Callers : StartInsert(c)
      BY <1>3
    <2>2. /\ rid[c] \in Runs /\ status[rid[c]] = "absent" /\ data' = data /\ cursor' = cursor
          /\ data[rid[c]] = NoData /\ cursor[rid[c]] = 0
      BY <1>0, <2>1 DEF StartInsert, RunInv, CallerShape, ShapeOf, Holding, RunShape
    <2>3. CASE r = rid[c]
      <3>1. status'[r] = "running" /\ data'[r].done = {} /\ cursor'[r] = 0
        <4>1. status'[r] = "running" /\ data'[r] = NoData
          BY <1>0, <2>1, <2>2, <2>3 DEF StartInsert, TypeOK
        <4>2. QED
          BY <2>2, <2>3, <4>1 DEF NoData
      <3>2. QED
        BY <3>1
    <2>4. CASE r # rid[c]
      <3>1. status'[r] = status[r]
        BY <1>0, <2>1, <2>4 DEF StartInsert, TypeOK
      <3>2. QED
        BY <1>1, <2>2, <3>1
    <2>5. QED
      BY <2>3, <2>4
  <1>4. CASE \E s \in Runs : ReaperSaves(s) \/ DeleteCompleted(s)
    <2>1. /\ data' = data /\ cursor' = cursor
          /\ status'[r] \in {status[r], "failed", "deleted"}
      <3>1. PICK s \in Runs : ReaperSaves(s) \/ DeleteCompleted(s)
        BY <1>4
      <3>2. /\ data' = data /\ cursor' = cursor
            /\ \/ status' = [status EXCEPT ![s] = "failed"]
               \/ status' = [status EXCEPT ![s] = "deleted"]
               \/ status' = status
        BY <3>1 DEF ReaperSaves, DeleteCompleted
      <3>3. QED
        BY <1>0, <3>2 DEF TypeOK
    <2>2. QED
      BY <1>1, <2>1 DEF Active
  <1>5. CASE UNCHANGED <<status, data, cursor>>
    BY <1>1, <1>5
  <1>6. QED
    BY <1>2, <1>3, <1>4, <1>5
       DEF Next, Call, StartLoad, Resume, StartRefused, ResumeOnConflict, Execute, AppendStep,
           AppendStepFails, SaveConflicts, Reload, CallFails, ReaperLists, store, vars

\* The positions of callers and the cursors of runs agree in every reachable state.
THEOREM ProgressInvariant == Spec => []ProgressInv
  <1>1. Init => ProgressInv
    <2> SUFFICES ASSUME Init  PROVE Progress /\ CursorIsResumePoint /\ SucceededRanEverything
      BY RunInvInit DEF ProgressInv
    <2>1. Progress
      BY DEF Init, Progress, ProgressOf
    <2>2. CursorIsResumePoint /\ SucceededRanEverything
      BY DEF Init, CursorIsResumePoint, SucceededRanEverything, Active
    <2>3. QED
      BY <2>1, <2>2
  <1>2. ProgressInv /\ [Next]_vars => ProgressInv'
    BY RunStep, ProgressStep, ResumePointStep DEF ProgressInv
  <1>3. QED
    BY <1>1, <1>2, PTL DEF Spec

\* A run that waits does so exactly where its saved state ends, whatever
\* failed or raced: resuming neither skips nor replays a step of that state.
THEOREM WaitsAtResumePoint == Spec => []CursorIsResumePoint
  <1>1. ProgressInv => CursorIsResumePoint
    BY DEF ProgressInv
  <1>2. QED
    BY <1>1, ProgressInvariant, PTL

\* The state of a sequence that succeeded has been through every step.
THEOREM SuccessIsComplete == ASSUME Sequential PROVE Spec => []SucceededRanEverything
  <1>1. ProgressInv => SucceededRanEverything
    BY DEF ProgressInv
  <1>2. QED
    BY <1>1, ProgressInvariant, PTL

(***************************************************************************)
(* The kernel as a book of runs. What a caller has in hand while its       *)
(* version still holds: the run's inputs with at most its own beside them, *)
(* the latter only of a run that waits; and, when it saves, the steps up to*)
(* where it stopped.                                                       *)
(***************************************************************************)
InputOf(c) ==
    Fresh(c) => \/ cur[c].inputs = data[rid[c]].inputs
                \/ status[rid[c]] = "suspended" /\ cur[c].inputs = data[rid[c]].inputs \cup {c}

Stopped(c) ==
    pc[c] = "save" =>
        \/ cur[c].done = 0..(i[c] - 1) /\ ~(Sequential /\ out[c] = "succeeded")
        \/ cur[c].done = Steps /\ out[c] = "succeeded"

CallsAreWhole == \A c \in Callers : InputOf(c) /\ Stopped(c)

BookInv == ProgressInv /\ CallsAreWhole

\* A caller that did nothing keeps its inputs, if its run is as it was or its
\* version no longer holds.
LEMMA InputKept ==
    ASSUME NEW d \in Callers, InputOf(d), CallerSame(d),
           \/ Fresh(d)' => /\ status'[rid[d]] = status[rid[d]] /\ version'[rid[d]] = version[rid[d]]
                           /\ data'[rid[d]] = data[rid[d]]
    PROVE  InputOf(d)'
  <1>1. CASE ~Fresh(d)'
    BY <1>1 DEF InputOf
  <1>2. CASE Fresh(d)'
    BY <1>2 DEF InputOf, Fresh, CasHolds, CallerSame
  <1>3. QED
    BY <1>1, <1>2

LEMMA StoppedKept ==
    ASSUME NEW d \in Callers, Stopped(d), CallerSame(d)
    PROVE  Stopped(d)'
  BY DEF Stopped, CallerSame

\* A caller that moves while the runs stand still.
LEMMA WholeByCaller ==
    ASSUME BookInv, NEW c \in Callers, UNCHANGED <<status, version, data>>,
           \A d \in Callers \ {c} : CallerSame(d), InputOf(c)', Stopped(c)'
    PROVE  CallsAreWhole'
  <1>1. ASSUME NEW d \in Callers \ {c}  PROVE InputOf(d)' /\ Stopped(d)'
    <2>1. InputOf(d) /\ Stopped(d) /\ CallerSame(d)
      BY DEF BookInv, CallsAreWhole
    <2>2. QED
      BY <2>1, InputKept, StoppedKept
  <1>2. QED
    BY <1>1 DEF CallsAreWhole

LEMMA WholeAway ==
    ASSUME BookInv, NEW c \in Callers, UNCHANGED <<status, version, data>>,
           \A d \in Callers \ {c} : CallerSame(d), pc'[c] \notin Working
    PROVE  CallsAreWhole'
  <1>1. InputOf(c)' /\ Stopped(c)'
    BY DEF InputOf, Stopped, Fresh, Working
  <1>2. QED
    BY <1>1, WholeByCaller

LEMMA WholeSnapshot ==
    ASSUME BookInv, NEW c \in Callers, NEW r \in Runs, NEW S \in SUBSET Callers, Snapshot(c, r, S),
           S = {} \/ (S = {c} /\ status[r] = "suspended"), UNCHANGED store
    PROVE  CallsAreWhole'
  <1>1. /\ pc'[c] = "execute" /\ rid'[c] = r /\ cur'[c].inputs = data[r].inputs \cup S
        /\ \A d \in Callers \ {c} : CallerSame(d)
    BY SnapshotFrame DEF BookInv, ProgressInv, RunInv
  <1>2. UNCHANGED <<status, version, data>>
    BY DEF store
  <1>3. InputOf(c)' /\ Stopped(c)'
    BY <1>1, <1>2 DEF InputOf, Stopped
  <1>4. QED
    BY <1>1, <1>2, <1>3, WholeByCaller

\* Where a caller stops, and that its inputs stay what they were.
LEMMA StepStops ==
    ASSUME BookInv, NEW c \in Callers, AppendStep(c) \/ AppendStepFails(c)
    PROVE  CallsAreWhole'
  <1>0. RunInv /\ TypeOK /\ InputOf(c) /\ ProgressOf(c)
    BY DEF BookInv, ProgressInv, Progress, RunInv, CallsAreWhole
  <1>1. /\ pc[c] = "record" /\ out[c] \in Outcomes /\ i[c] \in 0..(StepCount - 1)
        /\ cur[c] \in Data /\ StepCount \in Nat /\ Sequential \in BOOLEAN
        /\ UNCHANGED <<status, data, version, key, rid, ver>>
    BY <1>0, ParametersAssumption
       DEF AppendStep, AppendStepFails, RunInv, CallerShape, ShapeOf, TypeOK, Steps, store
  <1>2. cur[c].done = 0..(i[c] - 1)
    BY <1>0, <1>1 DEF ProgressOf
  <1>3. PICK o \in Outcomes :
          /\ NextStep(c, o)
          /\ \A d \in Callers \ {c} : cur'[d] = cur[d]
          /\ cur'[c].inputs = cur[c].inputs
          /\ cur'[c].done = IF o = "completed" THEN cur[c].done \cup {i[c]} ELSE cur[c].done
    <2>1. CASE AppendStep(c)
      <3>1. cur' = [cur EXCEPT ![c] = [cur[c] EXCEPT !.done =
                        IF out[c] = "completed" THEN @ \cup {i[c]} ELSE @]]
        BY <2>1 DEF AppendStep
      <3>2. /\ \A d \in Callers \ {c} : cur'[d] = cur[d]
            /\ cur'[c] = [cur[c] EXCEPT !.done = IF out[c] = "completed" THEN @ \cup {i[c]} ELSE @]
        BY <1>0, <3>1 DEF TypeOK
      <3>3. NextStep(c, out[c])
        BY <2>1 DEF AppendStep
      <3>4. QED
        BY <1>1, <3>2, <3>3 DEF Data
    <2>2. CASE AppendStepFails(c)
      BY <2>2 DEF AppendStepFails, Outcomes
    <2>3. QED
      BY <2>1, <2>2
  <1>4. \A d \in Callers \ {c} : CallerSame(d)
    <2>1. \A d \in Callers \ {c} : pc'[d] = pc[d] /\ i'[d] = i[d] /\ out'[d] = out[d]
      BY <1>0, <1>3, NextStepFrame
    <2>2. QED
      BY <1>1, <1>3, <2>1 DEF CallerSame
  <1>5. InputOf(c)'
    BY <1>0, <1>1, <1>3 DEF InputOf, Fresh, CasHolds, Working
  <1>6. Stopped(c)'
    <2>1. CASE o = "completed" /\ i[c] + 1 < StepCount
      <3>1. pc'[c] = "execute"
        <4>1. pc' = [pc EXCEPT ![c] = "execute"]
          BY <1>3, <2>1, Zenon DEF NextStep
        <4>2. QED
          BY <1>0, <4>1 DEF TypeOK
      <3>2. QED
        BY <3>1 DEF Stopped
    <2>2. CASE o = "completed" /\ ~(i[c] + 1 < StepCount)
      <3>1. out'[c] = "succeeded"
        <4>1. out' = [out EXCEPT ![c] = Verdict(o)] /\ Verdict(o) = "succeeded"
          BY <1>3, <2>2 DEF NextStep, Verdict
        <4>2. QED
          BY <1>0, <4>1 DEF TypeOK
      <3>2. i[c] = StepCount - 1
        BY <1>1, <2>2
      <3>3. cur'[c].done = 0..i[c]
        BY <1>1, <1>2, <1>3, <2>2
      <3>4. QED
        BY <3>1, <3>2, <3>3 DEF Stopped, Steps
    <2>3. CASE o # "completed"
      <3>1. out'[c] = Verdict(o) /\ i' = i
        <4>1. out' = [out EXCEPT ![c] = Verdict(o)] /\ i' = i
          BY <1>3, <2>3, Zenon DEF NextStep
        <4>2. QED
          BY <1>0, <4>1 DEF TypeOK
      <3>2. Sequential => out'[c] # "succeeded"
        BY <1>1, <2>3, <3>1 DEF Verdict, Outcomes
      <3>3. cur'[c].done = 0..(i'[c] - 1)
        BY <1>2, <1>3, <2>3, <3>1
      <3>4. QED
        BY <3>2, <3>3 DEF Stopped
    <2>4. QED
      BY <2>1, <2>2, <2>3
  <1>7. QED
    BY <1>1, <1>4, <1>5, <1>6, WholeByCaller

\* The insert, the save and the jobs: whoever else holds the run has lost it.
LEMMA WholeInsert ==
    ASSUME BookInv, NEW c \in Callers, StartInsert(c)
    PROVE  CallsAreWhole'
  <1> DEFINE r == rid[c]
  <1>0. RunInv /\ TypeOK
    BY DEF BookInv, ProgressInv, RunInv
  <1>1. r \in Runs /\ cur[c] = NoData /\ data[r] = NoData /\ data' = data
    BY <1>0 DEF RunInv, StartInsert, CallerShape, ShapeOf, Holding, RunShape
  <1>2. \A d \in Callers \ {c} : rid[d] # r
    BY <1>0 DEF RunInv, StartInsert, Reserved, Holding
  <1>3. /\ pc'[c] = "execute" /\ rid'[c] = r /\ cur'[c] = cur[c]
        /\ \A d \in Callers \ {c} : CallerSame(d)
    BY <1>0, <1>1 DEF StartInsert, CallerSame, TypeOK
  <1>4. \A s \in Runs \ {r} : status'[s] = status[s] /\ version'[s] = version[s]
    BY <1>0, <1>1 DEF StartInsert, TypeOK
  <1>5. InputOf(c)' /\ Stopped(c)'
    BY <1>1, <1>3 DEF InputOf, Stopped
  <1>6. ASSUME NEW d \in Callers \ {c}  PROVE InputOf(d)' /\ Stopped(d)'
    <2>1. InputOf(d) /\ Stopped(d) /\ CallerSame(d) /\ ShapeOf(d)
      BY <1>0, <1>3 DEF BookInv, CallsAreWhole, RunInv, CallerShape
    <2>2. Fresh(d)' => rid[d] \in Runs \ {r}
      BY <1>2, <2>1 DEF Fresh, ShapeOf, CallerSame, Working
    <2>3. QED
      BY <1>1, <1>4, <2>1, <2>2, InputKept, StoppedKept
  <1>7. QED
    BY <1>5, <1>6 DEF CallsAreWhole

LEMMA WholeWrite ==
    ASSUME BookInv, NEW r \in Runs, version[r] \in Nat,
           \A s \in Runs \ {r} : status'[s] = status[s] /\ version'[s] = version[s] /\ data'[s] = data[s],
           status'[r] = "deleted" \/ version'[r] = version[r] + 1,
           NEW S \in SUBSET Callers, \A d \in Callers \ S : CallerSame(d),
           \A d \in S : pc'[d] = "idle"
    PROVE  CallsAreWhole'
  <1>1. ASSUME NEW d \in S  PROVE InputOf(d)' /\ Stopped(d)'
    BY <1>1 DEF InputOf, Stopped, Fresh, Working
  <1>2. ASSUME NEW d \in Callers \ S  PROVE InputOf(d)' /\ Stopped(d)'
    <2>1. InputOf(d) /\ Stopped(d) /\ CallerSame(d) /\ ShapeOf(d) /\ ver[d] \in Nat
      BY DEF BookInv, ProgressInv, RunInv, TypeOK, CallsAreWhole, CallerShape
    <2>2. Fresh(d)' => rid[d] \in Runs /\ ver[d] <= version[rid[d]]
      BY <2>1 DEF Fresh, ShapeOf, CallerSame
    <2>3. Fresh(d)' => rid[d] # r
      <3>1. Fresh(d)' /\ rid[d] = r => status'[r] # "deleted" /\ version'[r] = ver[d]
        BY <2>1 DEF Fresh, CasHolds, CallerSame
      <3>2. QED
        BY <2>1, <2>2, <3>1
    <2>4. QED
      BY <2>1, <2>2, <2>3, InputKept, StoppedKept
  <1>3. QED
    BY <1>1, <1>2 DEF CallsAreWhole

LEMMA WholeStep ==
    ASSUME BookInv, [Next]_vars
    PROVE  CallsAreWhole'
  <1>0. RunInv /\ TypeOK
    BY DEF BookInv, ProgressInv, RunInv
  <1>1. ASSUME NEW c \in Callers, Return(c), UNCHANGED store  PROVE CallsAreWhole'
    <2>1. pc'[c] \notin Working /\ \A d \in Callers \ {c} : CallerSame(d)
      BY <1>0, <1>1, ReturnFrame DEF Working
    <2>2. QED
      BY <1>1, <2>1, WholeAway DEF store
  <1>2. ASSUME NEW c \in Callers, NEW k \in Keys, StartLoad(c, k)  PROVE CallsAreWhole'
    <2>1. UNCHANGED store
      BY <1>2 DEF StartLoad
    <2>2. CASE ~Return(c)
      <3>1. pc'[c] = "insert" /\ \A d \in Callers \ {c} : CallerSame(d)
        BY <1>0, <1>2, <2>2, ZenonT(60) DEF StartLoad, CallerSame, TypeOK
      <3>2. QED
        BY <2>1, <3>1, WholeAway DEF store, Working
    <2>3. QED
      BY <1>1, <2>1, <2>2
  <1>3. ASSUME NEW c \in Callers, NEW k \in Keys, Resume(c, k)  PROVE CallsAreWhole'
    <2>1. UNCHANGED store
      BY <1>3 DEF Resume
    <2>2. CASE \E r \in Resumable(k) : Snapshot(c, r, {c})
      <3>1. PICK r \in Runs : Snapshot(c, r, {c}) /\ status[r] = "suspended"
        BY <2>2 DEF Resumable, ActiveRuns
      <3>2. QED
        BY <2>1, <3>1, WholeSnapshot
    <2>3. QED
      BY <1>1, <1>3, <2>1, <2>2 DEF Resume
  <1>4. ASSUME NEW c \in Callers, Call(c)  PROVE CallsAreWhole'
    <2>1. CASE StartInsert(c)
      BY <2>1, WholeInsert
    <2>2. CASE ResumeOnConflict(c)
      <3>1. UNCHANGED store
        BY <2>2 DEF ResumeOnConflict
      <3>2. CASE \E r \in ActiveRuns(key[c]) : Snapshot(c, r, {})
        <4>1. PICK r \in Runs : Snapshot(c, r, {})
          BY <3>2 DEF ActiveRuns
        <4>2. QED
          BY <3>1, <4>1, WholeSnapshot
      <3>3. QED
        BY <1>1, <2>2, <3>1, <3>2 DEF ResumeOnConflict
    <2>3. CASE Save(c)
      <3>1. rid[c] \in Runs /\ version[rid[c]] \in Nat
        BY <1>0, <2>3 DEF Save, RunInv, CallerShape, ShapeOf, Working, TypeOK
      <3>2. version' = [version EXCEPT ![rid[c]] = version[rid[c]] + 1]
        BY <2>3 DEF Save
      <3>3. \A s \in Runs \ {rid[c]} :
              status'[s] = status[s] /\ version'[s] = version[s] /\ data'[s] = data[s]
        BY <1>0, <2>3, <3>1, <3>2, Zenon DEF Save, TypeOK
      <3>4. version'[rid[c]] = version[rid[c]] + 1
        BY <1>0, <3>1, <3>2 DEF TypeOK
      <3>5. pc'[c] = "idle" /\ \A d \in Callers \ {c} : CallerSame(d)
        BY <1>0, <2>3, ReturnFrame DEF Save
      <3>6. {c} \in SUBSET Callers /\ \A d \in {c} : pc'[d] = "idle"
        BY <3>5
      <3>7. QED
        BY <3>1, <3>3, <3>4, <3>5, <3>6, WholeWrite, Zenon
    <2>4. CASE Reload(c)
      BY <1>1, <2>4 DEF Reload
    <2>5. CASE StartRefused(c) \/ SaveConflicts(c)
      <3>1. pc'[c] \in {"conflict", "reload"} /\ \A d \in Callers \ {c} : CallerSame(d)
        BY <1>0, <2>5 DEF StartRefused, SaveConflicts, CallerSame, TypeOK
      <3>2. QED
        BY <2>5, <3>1, WholeAway DEF StartRefused, SaveConflicts, store, Working
    <2>6. CASE \E o \in Outcomes : Execute(c, o)
      <3>1. /\ pc[c] = "execute" /\ pc'[c] = "record" /\ UNCHANGED <<store, rid, ver, cur>>
            /\ \A d \in Callers \ {c} : CallerSame(d)
        BY <1>0, <2>6, ZenonT(60) DEF Execute, CallerSame, TypeOK
      <3>2. InputOf(c)' /\ Stopped(c)'
        BY <3>1 DEF BookInv, CallsAreWhole, InputOf, Stopped, Fresh, CasHolds, Working, store
      <3>3. QED
        BY <3>1, <3>2, WholeByCaller DEF store
    <2>7. CASE AppendStep(c) \/ AppendStepFails(c)
      BY <2>7, StepStops
    <2>8. QED
      BY <1>4, <2>1, <2>2, <2>3, <2>4, <2>5, <2>6, <2>7 DEF Call, Outcomes
  <1>5. ASSUME NEW c \in Callers, CallFails(c)  PROVE CallsAreWhole'
    BY <1>1, <1>5 DEF CallFails
  <1>6. ASSUME NEW r \in Runs, ReaperSaves(r) \/ DeleteCompleted(r)  PROVE CallsAreWhole'
    <2>1. data' = data /\ caller' = caller
      BY <1>6 DEF ReaperSaves, DeleteCompleted
    <2>2. \A d \in Callers : CallerSame(d)
      BY <2>1 DEF caller, CallerSame
    <2>3. CASE UNCHANGED <<status, version>>
      BY <2>1, <2>2, <2>3, InputKept, StoppedKept DEF BookInv, CallsAreWhole
    <2>4. CASE ~UNCHANGED <<status, version>>
      <3>1. /\ version[r] \in Nat /\ status \in [Runs -> Active \cup Terminal \cup {"absent", "deleted"}]
            /\ version \in [Runs -> Nat]
        BY <1>0 DEF TypeOK
      <3>2. \/ status' = [status EXCEPT ![r] = "deleted"] /\ version' = version
            \/ status' = [status EXCEPT ![r] = "failed"] /\ version' = [version EXCEPT ![r] = version[r] + 1]
        BY <1>6, <2>4 DEF ReaperSaves, DeleteCompleted
      <3>3. \A s \in Runs \ {r} : status'[s] = status[s] /\ version'[s] = version[s] /\ data'[s] = data[s]
        BY <2>1, <3>1, <3>2
      <3>4. status'[r] = "deleted" \/ version'[r] = version[r] + 1
        BY <3>1, <3>2
      <3>5. /\ {} \in SUBSET Callers /\ \A d \in Callers \ {} : CallerSame(d)
            /\ \A d \in {} : pc'[d] = "idle"
        BY <2>2
      <3>6. QED
        BY <3>1, <3>3, <3>4, <3>5, WholeWrite, Zenon
    <2>5. QED
      BY <2>3, <2>4
  <1>7. CASE UNCHANGED <<store, caller>>
    <2>1. \A d \in Callers : CallerSame(d)
      BY <1>7 DEF caller, CallerSame
    <2>2. QED
      BY <1>7, <2>1, InputKept, StoppedKept DEF BookInv, CallsAreWhole, store
  <1>8. QED
    BY <1>2, <1>3, <1>4, <1>5, <1>6, <1>7 DEF Next, ReaperLists, vars

THEOREM BookInvariant == Spec => []BookInv
  <1>1. Init => CallsAreWhole
    BY DEF Init, CallsAreWhole, InputOf, Stopped, Fresh, Working
  <1>2. BookInv /\ [Next]_vars => CallsAreWhole'
    BY WholeStep
  <1>3. ProgressInv /\ CallsAreWhole => BookInv
    BY DEF BookInv
  <1>4. QED
    BY <1>1, <1>2, <1>3, ProgressInvariant, PTL DEF Spec

\* The tables as the book sees them.
BookInputs == [r \in Runs |-> data[r].inputs]
BookDone == [r \in Runs |-> data[r].done]

LEMMA BookStutters ==
    ASSUME UNCHANGED <<status, keyOf, data>>
    PROVE  UNCHANGED Book!vars
  BY DEF Book!vars

LEMMA SaveIsCall ==
    ASSUME BookInv, NEW c \in Callers, Save(c)
    PROVE  Book!Next
  <1>0. RunInv /\ TypeOK /\ InputOf(c) /\ Stopped(c)
    BY DEF BookInv, ProgressInv, RunInv, CallsAreWhole
  <1>1. PICK r \in Runs, end \in {"suspended", "failed", "succeeded"} : r = rid[c] /\ end = out[c]
    BY <1>0 DEF Save, RunInv, CallerShape, ShapeOf, Working
  <1>2. /\ pc[c] = "save" /\ Fresh(c) /\ i[c] \in 0..(StepCount - 1) /\ cur[c] \in Data
        /\ data[r] \in Data /\ StepCount \in Nat \ {0} /\ Sequential \in BOOLEAN
    BY <1>0, <1>1, ParametersAssumption DEF Save, Fresh, Working, TypeOK, Steps
  <1>3. /\ status[r] \in Active /\ data[r].inputs \subseteq cur[c].inputs
        /\ data[r].done \subseteq cur[c].done
    BY <1>0, <1>1, <1>2 DEF RunInv, FreshSnapshot
  <1>4. PICK input \in {{}} \cup {{d} : d \in Callers} :
            /\ input # {} => status[r] = "suspended"
            /\ data[r].inputs \cup input = cur[c].inputs
    <2>1. CASE cur[c].inputs = data[r].inputs
      BY <2>1
    <2>2. CASE status[r] = "suspended" /\ cur[c].inputs = data[r].inputs \cup {c}
      BY <2>2
    <2>3. QED
      BY <1>0, <1>1, <1>2, <2>1, <2>2 DEF InputOf
  <1>5. PICK n \in 0..StepCount : cur[c].done = 0..(n - 1) /\ Book!Reaches(n, end)
    <2>1. CASE cur[c].done = 0..(i[c] - 1) /\ ~(Sequential /\ end = "succeeded")
      <3>1. i[c] \in 0..StepCount /\ i[c] < StepCount
        BY <1>2
      <3>2. QED
        BY <1>1, <2>1, <3>1 DEF Book!Reaches
    <2>2. CASE cur[c].done = Steps /\ end = "succeeded"
      <3>1. StepCount \in 0..StepCount
        BY <1>2
      <3>2. QED
        BY <2>2, <3>1 DEF Book!Reaches, Steps
    <2>3. QED
      BY <1>0, <1>1, <1>2, <2>1, <2>2 DEF Stopped
  <1>6. /\ status' = [status EXCEPT ![r] = end] /\ keyOf' = keyOf
        /\ data' = [data EXCEPT ![r] = cur[c]]
    BY <1>1 DEF Save
  <1>7. BookInputs' = [BookInputs EXCEPT ![r] = BookInputs[r] \cup input]
    BY <1>0, <1>4, <1>6 DEF BookInputs, TypeOK
  <1>8. BookDone' = [BookDone EXCEPT ![r] = Book!Upto(n)]
    BY <1>0, <1>5, <1>6 DEF BookDone, TypeOK, Book!Upto
  <1>9. Book!Call(r, input, n, end)
    <2>1. status[r] \in Book!Open /\ (input # {} => status[r] = "suspended")
      BY <1>3, <1>4 DEF Book!Open, Active
    <2>2. BookDone[r] \subseteq Book!Upto(n) /\ Book!Reaches(n, end)
      BY <1>3, <1>5 DEF BookDone, Book!Upto
    <2>3. QED
      BY <1>6, <1>7, <1>8, <2>1, <2>2 DEF Book!Call, BookInputs, BookDone
  <1>10. QED
    BY <1>9 DEF Book!Next

LEMMA BookStep ==
    ASSUME BookInv, [Next]_vars
    PROVE  Book!Next \/ UNCHANGED Book!vars
  <1>0. RunInv /\ TypeOK
    BY DEF BookInv, ProgressInv, RunInv
  <1>1. CASE \E c \in Callers : Save(c)
    BY <1>1, SaveIsCall
  <1>2. CASE \E c \in Callers : StartInsert(c)
    <2>1. PICK c \in Callers : StartInsert(c)
      BY <1>2
    <2>2. rid[c] \in Runs /\ key[c] \in Keys /\ status[rid[c]] = "absent"
      BY <1>0, <2>1 DEF StartInsert, RunInv, CallerShape, ShapeOf, Holding
    <2>3. \A s \in Runs : keyOf[s] = key[c] => status[s] \notin Book!Open
      BY <2>1 DEF StartInsert, KeyIsTaken, ActiveRuns, Active, Book!Open
    <2>4. /\ status' = [status EXCEPT ![rid[c]] = "running"]
          /\ keyOf' = [keyOf EXCEPT ![rid[c]] = key[c]] /\ data' = data
      BY <2>1 DEF StartInsert
    <2>5. Book!Begin(rid[c], key[c])
      BY <2>2, <2>3, <2>4 DEF Book!Begin
    <2>6. QED
      BY <2>2, <2>5 DEF Book!Next
  <1>3. ASSUME NEW r \in Runs, ReaperSaves(r)  PROVE Book!Next \/ UNCHANGED Book!vars
    <2>1. UNCHANGED <<keyOf, data>>
      BY <1>3 DEF ReaperSaves
    <2>2. CASE CasHolds(r, listed[r])
      <3>1. status[r] = "suspended" /\ status' = [status EXCEPT ![r] = "failed"]
        BY <1>0, <1>3, <2>2 DEF ReaperSaves, RunInv, RunShape
      <3>2. Book!GiveUp(r)
        BY <2>1, <3>1 DEF Book!GiveUp
      <3>3. QED
        BY <3>2 DEF Book!Next
    <2>3. CASE ~CasHolds(r, listed[r])
      <3>1. UNCHANGED status
        BY <1>3, <2>3 DEF ReaperSaves
      <3>2. QED
        BY <2>1, <3>1, BookStutters
    <2>4. QED
      BY <2>2, <2>3
  <1>4. ASSUME NEW r \in Runs, DeleteCompleted(r)  PROVE Book!Next
    <2>1. Book!Forget(r)
      BY <1>4 DEF DeleteCompleted, Book!Forget, Terminal
    <2>2. QED
      BY <2>1 DEF Book!Next
  <1>5. CASE UNCHANGED <<status, keyOf, data>>
    BY <1>5, BookStutters
  <1>6. QED
    BY <1>1, <1>2, <1>3, <1>4, <1>5
       DEF Next, Call, StartLoad, Resume, StartRefused, ResumeOnConflict, Execute, AppendStep,
           AppendStepFails, SaveConflicts, Reload, CallFails, ReaperLists, store, vars

\* The kernel is the book of runs it promises: a key's runs follow one
\* another, and a call that is saved, however many others it raced with, took
\* effect as a whole on the run as it stood at the save - from where the run
\* stopped, with its input only if the run was waiting for one.
THEOREM KernelIsABook == Spec => ImplementsRunBook
  <1>1. Init => Book!Init
    <2> SUFFICES ASSUME Init  PROVE Book!Init
      OBVIOUS
    <2>1. \A r \in Runs : data[r].inputs = {} /\ data[r].done = {}
      <3>1. \A r \in Runs : data[r] = NoData
        BY DEF Init
      <3>2. QED
        BY <3>1 DEF NoData
    <2>2. BookInputs = [r \in Runs |-> {}] /\ BookDone = [r \in Runs |-> {}]
      BY <2>1 DEF BookInputs, BookDone
    <2>3. QED
      BY <2>2 DEF Init, Book!Init, BookInputs, BookDone
  <1>2. BookInv /\ [Next]_vars => [Book!Next]_Book!vars
    BY BookStep
  <1>3. QED
    BY <1>1, <1>2, BookInvariant, PTL DEF Spec, ImplementsRunBook, Book!Spec
=============================================================================
