---------------------------- MODULE OutboxProofs ----------------------------
(***************************************************************************)
(* Proofs about Outbox, for any events, users, dispatchers and bounds.     *)
(***************************************************************************)
EXTENDS Outbox, TLAPS

USE DEF Nobody

LEMMA EndJobType ==
    ASSUME TypeOK, NEW d \in Dispatchers, EndJob(d)
    PROVE  /\ pc' \in [Dispatchers -> JobPc]
           /\ cand' \in [Dispatchers -> SUBSET Events]
           /\ rows' \in [Dispatchers -> SUBSET Events]
           /\ cur' \in [Dispatchers -> SUBSET Events]
           /\ snap' \in [Dispatchers -> [Events -> 0..MaxAttempts]]
           /\ handler' \in [Dispatchers -> Nat]
           /\ herr' \in [Dispatchers -> {"none", "no_handlers", "failed"}]
           /\ jobAge' \in [Dispatchers -> 0..JobTimeout]
    BY ParametersAssumption DEF TypeOK, EndJob, JobPc

LEMMA UpdateRowType ==
    ASSUME TypeOK, NEW e \in Events, NEW st \in Status, NEW att \in Nat,
           NEW w \in 0..WaitCap, UpdateRow(e, st, att, w)
    PROVE  /\ status' \in [Events -> Status]
           /\ attempts' \in [Events -> 0..MaxAttempts]
           /\ wait' \in [Events -> 0..WaitCap]
           /\ lockedBy' \in [Events -> Dispatchers \cup {Nobody}]
           /\ age' \in [Events -> 0..AgeCap]
  <1>1. CASE Accepts(e, st, att)
    <2>1. /\ status' = [status EXCEPT ![e] = st]
          /\ attempts' = [attempts EXCEPT ![e] = att]
          /\ wait' = [wait EXCEPT ![e] = w]
          /\ lockedBy' = [lockedBy EXCEPT ![e] = Nobody]
          /\ age' = [age EXCEPT ![e] = 0]
      BY <1>1 DEF UpdateRow
    <2>2. att \in 0..MaxAttempts /\ 0 \in 0..AgeCap
      BY <1>1, ParametersAssumption DEF Accepts, AgeCap
    <2>3. QED
      BY <2>1, <2>2 DEF TypeOK
  <1>2. CASE ~Accepts(e, st, att)
    BY <1>2 DEF UpdateRow, TypeOK, table
  <1>3. QED
    BY <1>1, <1>2

\* What Mark does to the table, as one update of the row the job is at.
LEMMA MarkUpdates ==
    ASSUME TypeOK, NEW d \in Dispatchers, Mark(d)
    PROVE  \E e \in cur[d], w \in 0..WaitCap :
             \/ herr[d] = "none" /\ UpdateRow(e, "published", attempts[e], w)
             \/ herr[d] = "no_handlers" /\ UpdateRow(e, "failed", attempts[e] + 1, w)
             \/ /\ herr[d] = "failed" /\ Exhausted(d, e)
                /\ UpdateRow(e, "failed", attempts[e] + 1, w)
             \/ /\ herr[d] = "failed" /\ ~Exhausted(d, e)
                /\ UpdateRow(e, "pending", attempts[e] + 1, w)
  <1>1. PICK e \in cur[d] :
        CASE herr[d] = "none" -> MarkPublished(e)
          [] herr[d] = "no_handlers" -> MarkFailed(e)
          [] herr[d] = "failed" /\ Exhausted(d, e) -> MarkFailed(e)
          [] OTHER -> MarkPendingRetry(e, snap[d][e])
    BY DEF Mark
  <1>2. e \in Events /\ wait[e] \in 0..WaitCap
    BY DEF TypeOK
  <1>3. herr[d] \in {"none", "no_handlers", "failed"}
    BY DEF TypeOK
  <1>4. CASE herr[d] = "none"
    <2>1. UpdateRow(e, "published", attempts[e], wait[e])
      BY <1>1, <1>4 DEF MarkPublished
    <2>2. QED
      BY <2>1, <1>2, <1>4
  <1>5. CASE herr[d] = "no_handlers"
    <2>1. UpdateRow(e, "failed", attempts[e] + 1, wait[e])
      BY <1>1, <1>5 DEF MarkFailed
    <2>2. QED
      BY <2>1, <1>2, <1>5
  <1>6. CASE herr[d] = "failed" /\ Exhausted(d, e)
    <2>1. UpdateRow(e, "failed", attempts[e] + 1, wait[e])
      BY <1>1, <1>6 DEF MarkFailed
    <2>2. QED
      BY <2>1, <1>2, <1>6
  <1>7. CASE herr[d] = "failed" /\ ~Exhausted(d, e)
    <2>1. MarkPendingRetry(e, snap[d][e])
      BY <1>1, <1>7
    <2>2. PICK b \in CalcBackoff(snap[d][e]) : UpdateRow(e, "pending", attempts[e] + 1, b)
      BY <2>1 DEF MarkPendingRetry
    <2>3. b \in 0..WaitCap
      BY <2>2 DEF CalcBackoff
    <2>4. QED
      BY <2>2, <2>3, <1>7
  <1>8. QED
    BY <1>3, <1>4, <1>5, <1>6, <1>7

LEMMA UpdateRowFrame ==
    ASSUME TypeOK, NEW e \in Events, NEW st, NEW att, NEW w, UpdateRow(e, st, att, w)
    PROVE  \A f \in Events \ {e} :
              /\ status'[f] = status[f] /\ attempts'[f] = attempts[f]
              /\ lockedBy'[f] = lockedBy[f] /\ age'[f] = age[f]
  <1>1. CASE Accepts(e, st, att)
    BY <1>1 DEF TypeOK, UpdateRow
  <1>2. CASE ~Accepts(e, st, att)
    BY <1>2 DEF UpdateRow, table
  <1>3. QED
    BY <1>1, <1>2

\* Mark touches no row but the one the job is at.
LEMMA MarkFrame ==
    ASSUME TypeOK, NEW d \in Dispatchers, Mark(d)
    PROVE  \E e \in cur[d] : \A f \in Events \ {e} :
              /\ status'[f] = status[f] /\ attempts'[f] = attempts[f]
              /\ lockedBy'[f] = lockedBy[f] /\ age'[f] = age[f]
  <1>1. PICK e \in cur[d] : \E st, att, w : UpdateRow(e, st, att, w)
    BY MarkUpdates
  <1>2. e \in Events
    BY DEF TypeOK
  <1>3. QED
    BY <1>1, <1>2, UpdateRowFrame

LEMMA DispatchType ==
    ASSUME TypeOK, NEW d \in Dispatchers, Dispatch(d)
    PROVE  TypeOK'
  <1> USE ParametersAssumption
  <1>1. CASE StartRun(d)
    <2>1. Batch \subseteq Events
      BY DEF Batch, Claimable
    <2>2. QED
      BY <1>1, <2>1, SMTT(30) DEF TypeOK, StartRun, table, history, JobPc
  <1>2. CASE Claim(d)
    <2>1. Locked(d) \subseteq Events
      BY DEF Locked, TypeOK
    <2>2. /\ status' \in [Events -> Status]
          /\ lockedBy' \in [Events -> Dispatchers \cup {Nobody}]
          /\ age' \in [Events -> 0..AgeCap]
      BY <1>2 DEF TypeOK, Claim, Status, AgeCap
    <2>3. /\ pc' \in [Dispatchers -> JobPc]
          /\ cand' \in [Dispatchers -> SUBSET Events]
          /\ rows' \in [Dispatchers -> SUBSET Events]
      BY <1>2, <2>1 DEF TypeOK, Claim, JobPc
    <2>4. snap' \in [Dispatchers -> [Events -> 0..MaxAttempts]]
      BY <1>2 DEF TypeOK, Claim
    <2>5. QED
      BY <1>2, <2>2, <2>3, <2>4 DEF TypeOK, Claim, history
  <1>3. CASE ClaimNothing(d)
    BY <1>3, EndJobType DEF TypeOK, ClaimNothing, table, history
  <1>4. CASE \E e \in Events : NextRow(d, e)
    <2>1. PICK e \in Events : NextRow(d, e)
      BY <1>4
    <2>2. /\ pc' \in [Dispatchers -> JobPc]
          /\ rows' \in [Dispatchers -> SUBSET Events]
          /\ cur' \in [Dispatchers -> SUBSET Events]
          /\ handler' \in [Dispatchers -> Nat]
          /\ herr' \in [Dispatchers -> {"none", "no_handlers", "failed"}]
      BY <2>1 DEF TypeOK, NextRow, JobPc
    <2>3. begun' \subseteq Events
      BY <2>1 DEF TypeOK, NextRow
    <2>4. QED
      BY <2>1, <2>2, <2>3 DEF TypeOK, NextRow, table
  <1>5. CASE \E ok \in BOOLEAN : HandlerReturns(d, ok)
    <2>1. PICK ok \in BOOLEAN : HandlerReturns(d, ok)
      BY <1>5
    <2>2. PICK e \in cur[d] :
            /\ done' = [done EXCEPT ![e] = @ \cup {h \in {handler[d]} : ok}]
            /\ pc' = [pc EXCEPT ![d] = IF handler[d] < HandlerCount[e] THEN "handle" ELSE "mark"]
            /\ handler' = [handler EXCEPT ![d] = IF @ < HandlerCount[e] THEN @ + 1 ELSE 0]
      BY <2>1 DEF HandlerReturns
    <2>3. e \in Events /\ handler[d] \in Nat
      BY DEF TypeOK
    <2>4. done' \in [Events -> SUBSET Nat]
      BY <2>2, <2>3 DEF TypeOK
    <2>5. /\ pc' \in [Dispatchers -> JobPc]
          /\ handler' \in [Dispatchers -> Nat]
      BY <2>2, <2>3 DEF TypeOK, JobPc
    <2>6. herr' \in [Dispatchers -> {"none", "no_handlers", "failed"}]
      BY <2>1 DEF HandlerReturns, JoinError, TypeOK
    <2>7. QED
      BY <2>1, <2>4, <2>5, <2>6 DEF TypeOK, HandlerReturns, table
  <1>6. CASE \E ok \in BOOLEAN : HandlerReturnsLate(d, ok)
    <2>1. PICK ok \in BOOLEAN : HandlerReturnsLate(d, ok)
      BY <1>6
    <2>2. PICK e \in cur[d] : done' = [done EXCEPT ![e] = @ \cup {h \in {handler[d]} : ok}]
      BY <2>1 DEF HandlerReturnsLate
    <2>3. e \in Events /\ handler[d] \in Nat
      BY DEF TypeOK
    <2>4. done' \in [Events -> SUBSET Nat]
      BY <2>2, <2>3 DEF TypeOK
    <2>5. QED
      BY <2>1, <2>4, EndJobType DEF TypeOK, HandlerReturnsLate, table
  <1>7. CASE Mark(d)
    <2>0. \A e \in cur[d] : attempts[e] \in Nat /\ attempts[e] + 1 \in Nat
      BY DEF TypeOK
    <2>1. PICK e \in cur[d], w \in 0..WaitCap, st \in {"published", "failed", "pending"},
               att \in Nat : UpdateRow(e, st, att, w)
      BY <1>7, <2>0, MarkUpdates
    <2>2. e \in Events /\ st \in Status
      BY <2>1 DEF TypeOK, Status
    <2>3. /\ status' \in [Events -> Status]
          /\ attempts' \in [Events -> 0..MaxAttempts]
          /\ wait' \in [Events -> 0..WaitCap]
          /\ lockedBy' \in [Events -> Dispatchers \cup {Nobody}]
          /\ age' \in [Events -> 0..AgeCap]
      BY <2>1, <2>2, UpdateRowType
    <2>4. RowDone(d) /\ UNCHANGED <<history, faults>>
      BY <1>7 DEF Mark
    <2>5. QED
      BY <2>3, <2>4 DEF TypeOK, RowDone, history, JobPc
  <1>8. CASE Abandon(d)
    BY <1>8, EndJobType DEF TypeOK, Abandon, table, history
  <1>9. CASE FinishRun(d)
    BY <1>9, EndJobType DEF TypeOK, FinishRun, table, history
  <1>10. QED
    BY <1>1, <1>2, <1>3, <1>4, <1>5, <1>6, <1>7, <1>8, <1>9 DEF Dispatch

LEMMA TypeStep ==
    ASSUME TypeOK, [Next]_vars
    PROVE  TypeOK'
  <1> USE ParametersAssumption
  <1>1. ASSUME NEW e \in Events, Publish(e)  PROVE TypeOK'
    BY <1>1, SMTT(30) DEF TypeOK, Publish, job, Status
  <1>2. ASSUME NEW d \in Dispatchers, Dispatch(d)  PROVE TypeOK'
    BY <1>2, DispatchType
  <1>3. ASSUME NEW d \in Dispatchers, MarkLost(d)  PROVE TypeOK'
    BY <1>3, SMTT(30) DEF TypeOK, MarkLost, RowDone, table, history, JobPc
  <1>4. ASSUME NEW d \in Dispatchers, Crash(d)  PROVE TypeOK'
    BY <1>4, EndJobType DEF TypeOK, Crash, table, history
  <1>5. CASE ResetStuck
    BY <1>5, SMTT(30) DEF TypeOK, ResetStuck, job, history, Status, AgeCap
  <1>6. ASSUME NEW S \in SUBSET Events, DeletePublished(S)  PROVE TypeOK'
    BY <1>6, SMTT(30) DEF TypeOK, DeletePublished, job, history, Status, AgeCap
  <1>7. CASE Tick
    <2>1. wait' \in [Events -> 0..WaitCap]
      BY <1>7 DEF TypeOK, Tick, WaitCap
    <2>2. age' \in [Events -> 0..AgeCap]
      BY <1>7 DEF TypeOK, Tick, AgeCap
    <2>3. jobAge' \in [Dispatchers -> 0..JobTimeout]
      BY <1>7 DEF TypeOK, Tick, Expired
    <2>4. QED
      BY <1>7, <2>1, <2>2, <2>3 DEF TypeOK, Tick, history
  <1>8. CASE UNCHANGED vars
    BY <1>8 DEF TypeOK, vars, table, job, history
  <1>9. QED
    BY <1>1, <1>2, <1>3, <1>4, <1>5, <1>6, <1>7, <1>8 DEF Next

\* Type correctness of the outbox table and of the dispatcher jobs: in
\* particular attempts never pass max_attempts (outbox_events_attempts_max_check).
THEOREM TypeCorrect == Spec => []TypeOK
  <1>1. Init => TypeOK
    BY ParametersAssumption, SMTT(30) DEF Init, TypeOK, Status, JobPc, WaitCap, AgeCap
  <1>2. TypeOK /\ [Next]_vars => TypeOK'
    BY TypeStep
  <1>3. QED
    BY <1>1, <1>2, PTL DEF Spec

(***************************************************************************)
(* Ownership of rows. The reaper's threshold covers the job's deadline, as *)
(* in the configuration the repository ships (both 5 minutes).             *)
(***************************************************************************)
ReaperCoversJob == StuckAfter >= JobTimeout

\* The job's local variables agree with its program counter.
JobShape ==
    \A d \in Dispatchers :
        /\ pc[d] \in {"idle", "claim"} => rows[d] = {} /\ cur[d] = {}
        /\ pc[d] = "next" => cur[d] = {}
        /\ pc[d] # "claim" => cand[d] = {}
        /\ rows[d] \cap cur[d] = {}
        /\ \A e, f \in cur[d] : e = f

\* A job is protected until its deadline, and a prompt handler until it returns.
Protected(d) == ~Expired(d) \/ (PromptHandlers /\ pc[d] = "handle")

Owns(d, e) ==
    /\ status[e] = "processing"
    /\ lockedBy[e] = d
    /\ snap[d][e] = attempts[e]
    /\ age[e] <= jobAge[d]

Ownership == \A d \in Dispatchers : Protected(d) => \A e \in HeldRows(d) : Owns(d, e)

OwnInv == TypeOK /\ JobShape /\ Ownership

LEMMA EndJobShape ==
    ASSUME TypeOK, JobShape, NEW d \in Dispatchers, EndJob(d)
    PROVE  JobShape'
    BY DEF TypeOK, JobShape, EndJob

LEMMA ShapeStep ==
    ASSUME TypeOK, JobShape, [Next]_vars
    PROVE  JobShape'
  <1>1. ASSUME NEW d \in Dispatchers, Dispatch(d)  PROVE JobShape'
    <2>1. CASE StartRun(d)
      BY <2>1 DEF TypeOK, JobShape, StartRun
    <2>2. CASE Claim(d)
      BY <2>2 DEF TypeOK, JobShape, Claim
    <2>3. CASE ClaimNothing(d) \/ Abandon(d) \/ FinishRun(d)
      BY <2>3, EndJobShape DEF ClaimNothing, Abandon, FinishRun
    <2>4. CASE \E e \in Events : NextRow(d, e)
      BY <2>4 DEF TypeOK, JobShape, NextRow
    <2>5. CASE \E ok \in BOOLEAN : HandlerReturns(d, ok)
      BY <2>5 DEF TypeOK, JobShape, HandlerReturns
    <2>6. CASE \E ok \in BOOLEAN : HandlerReturnsLate(d, ok)
      BY <2>6, EndJobShape DEF HandlerReturnsLate
    <2>7. CASE Mark(d)
      BY <2>7 DEF TypeOK, JobShape, Mark, RowDone
    <2>8. QED
      BY <1>1, <2>1, <2>2, <2>3, <2>4, <2>5, <2>6, <2>7 DEF Dispatch
  <1>2. ASSUME NEW d \in Dispatchers, MarkLost(d)  PROVE JobShape'
    BY <1>2 DEF TypeOK, JobShape, MarkLost, RowDone
  <1>3. ASSUME NEW d \in Dispatchers, Crash(d)  PROVE JobShape'
    BY <1>3, EndJobShape DEF Crash
  <1>4. CASE \/ \E e \in Events : Publish(e)
             \/ ResetStuck
             \/ \E S \in SUBSET Events : DeletePublished(S)
             \/ Tick
             \/ UNCHANGED vars
    <2>1. UNCHANGED <<pc, cand, rows, cur>>
      BY <1>4 DEF Publish, ResetStuck, DeletePublished, Tick, vars, job
    <2>2. QED
      BY <2>1 DEF JobShape
  <1>5. QED
    BY <1>1, <1>2, <1>3, <1>4 DEF Next

\* A job that ends holds nothing; the others are not touched.
LEMMA EndJobOwnership ==
    ASSUME OwnInv, NEW d \in Dispatchers, EndJob(d), UNCHANGED table
    PROVE  Ownership'
    BY DEF OwnInv, TypeOK, Ownership, Protected, HeldRows, Owns, EndJob, table, Expired

LEMMA OwnershipStep ==
    ASSUME OwnInv, [Next]_vars, ReaperCoversJob
    PROVE  Ownership'
  <1> USE ParametersAssumption
  <1>1. ASSUME NEW d \in Dispatchers, Dispatch(d)  PROVE Ownership'
    <2>1. CASE StartRun(d)
      BY <2>1 DEF OwnInv, TypeOK, JobShape, StartRun, Ownership, Protected, HeldRows, Owns, table,
                  Expired
    <2>2. CASE Claim(d)
      <3> SUFFICES ASSUME NEW c \in Dispatchers, Protected(c)', NEW e \in HeldRows(c)'
                   PROVE  Owns(c, e)'
        BY DEF Ownership
      <3>1. CASE c = d
        <4>1. cur[d] = {} /\ cur'[d] = {} /\ rows'[d] = Locked(d)
          BY <2>2 DEF OwnInv, TypeOK, JobShape, Claim
        <4>2. e \in Locked(d) /\ e \in Events
          BY <3>1, <4>1 DEF HeldRows, Locked, OwnInv, TypeOK
        <4>3. QED
          BY <2>2, <3>1, <4>2 DEF Owns, Claim, OwnInv, TypeOK
      <3>2. CASE c # d
        <4>1. Protected(c) /\ e \in HeldRows(c) /\ e \in Events
          BY <2>2, <3>2 DEF Claim, Protected, HeldRows, Expired, OwnInv, TypeOK
        <4>2. Owns(c, e)
          BY <4>1 DEF OwnInv, Ownership
        <4>3. e \notin Locked(d)
          BY <4>2 DEF Owns, Locked, Due
        <4>4. QED
          BY <2>2, <3>2, <4>1, <4>2, <4>3 DEF Owns, Claim, OwnInv, TypeOK
      <3>3. QED
        BY <3>1, <3>2
    <2>3. CASE ClaimNothing(d) \/ Abandon(d) \/ FinishRun(d)
      BY <2>3, EndJobOwnership DEF ClaimNothing, Abandon, FinishRun
    <2>4. CASE \E e \in Events : NextRow(d, e)
      BY <2>4 DEF OwnInv, TypeOK, JobShape, NextRow, Ownership, Protected, HeldRows, Owns, table,
                  Expired
    <2>5. CASE \E ok \in BOOLEAN : HandlerReturns(d, ok)
      BY <2>5 DEF OwnInv, TypeOK, JobShape, HandlerReturns, Ownership, Protected, HeldRows, Owns,
                  table, Expired
    <2>6. CASE \E ok \in BOOLEAN : HandlerReturnsLate(d, ok)
      BY <2>6, EndJobOwnership DEF HandlerReturnsLate
    <2>7. CASE Mark(d)
      <3>1. PICK e \in cur[d] : \A f \in Events \ {e} :
              /\ status'[f] = status[f] /\ attempts'[f] = attempts[f]
              /\ lockedBy'[f] = lockedBy[f] /\ age'[f] = age[f]
        BY <2>7, MarkFrame DEF OwnInv
      <3>2. e \in Events /\ Owns(d, e)
        BY <2>7, <3>1 DEF OwnInv, Ownership, Protected, HeldRows, Mark, TypeOK
      <3> SUFFICES ASSUME NEW c \in Dispatchers, Protected(c)', NEW f \in HeldRows(c)'
                   PROVE  Owns(c, f)'
        BY DEF Ownership
      <3>3. Protected(c) /\ f \in HeldRows(c) /\ f \in Events
        BY <2>7 DEF Mark, RowDone, Protected, HeldRows, Expired, OwnInv, TypeOK
      <3>4. Owns(c, f)
        BY <3>3 DEF OwnInv, Ownership
      <3>5. f # e
        <4>1. CASE c = d
          BY <2>7, <3>1, <4>1 DEF Mark, RowDone, HeldRows, OwnInv, JobShape, TypeOK
        <4>2. CASE c # d
          BY <3>2, <3>4, <4>2 DEF Owns
        <4>3. QED
          BY <4>1, <4>2
      <3>6. snap'[c][f] = snap[c][f] /\ jobAge'[c] = jobAge[c]
        BY <2>7, <3>1, <3>3, <3>5 DEF Mark, RowDone, OwnInv, JobShape, TypeOK
      <3>7. QED
        BY <3>1, <3>3, <3>4, <3>5, <3>6 DEF Owns
    <2>8. QED
      BY <1>1, <2>1, <2>2, <2>3, <2>4, <2>5, <2>6, <2>7 DEF Dispatch
  <1>2. ASSUME NEW d \in Dispatchers, MarkLost(d)  PROVE Ownership'
    <2> SUFFICES ASSUME NEW c \in Dispatchers, Protected(c)', NEW f \in HeldRows(c)'
                 PROVE  Owns(c, f)'
      BY DEF Ownership
    <2>1. /\ Protected(c) /\ f \in HeldRows(c) /\ f \in Events
          /\ c = d => f \notin cur[d]
      BY <1>2 DEF MarkLost, RowDone, Protected, HeldRows, Expired, OwnInv, JobShape, TypeOK
    <2>2. snap'[c][f] = snap[c][f] /\ jobAge'[c] = jobAge[c]
      BY <1>2, <2>1 DEF MarkLost, RowDone, OwnInv, TypeOK
    <2>3. QED
      BY <1>2, <2>1, <2>2 DEF OwnInv, Ownership, Owns, MarkLost, table
  <1>3. ASSUME NEW d \in Dispatchers, Crash(d)  PROVE Ownership'
    BY <1>3, EndJobOwnership DEF Crash
  <1>4. ASSUME NEW e \in Events, Publish(e)  PROVE Ownership'
    BY <1>4 DEF OwnInv, TypeOK, Publish, Ownership, Protected, HeldRows, Owns, Expired, job
  <1>5. CASE ResetStuck
    <2> SUFFICES ASSUME NEW c \in Dispatchers, Protected(c)', NEW f \in HeldRows(c)'
                 PROVE  Owns(c, f)'
      BY DEF Ownership
    <2>1. f \in Events /\ Owns(c, f)
      BY <1>5 DEF ResetStuck, job, Protected, HeldRows, Expired, OwnInv, Ownership, TypeOK
    <2>2. f \notin Stuck
      BY <2>1 DEF Owns, Stuck, OwnInv, TypeOK, ReaperCoversJob
    <2>3. QED
      BY <1>5, <2>1, <2>2 DEF Owns, ResetStuck, job
  <1>6. ASSUME NEW S \in SUBSET Events, DeletePublished(S)  PROVE Ownership'
    BY <1>6 DEF OwnInv, TypeOK, DeletePublished, Ownership, Protected, HeldRows, Owns, Expired, job
  <1>7. CASE Tick
    <2> SUFFICES ASSUME NEW c \in Dispatchers, Protected(c)', NEW f \in HeldRows(c)'
                 PROVE  Owns(c, f)'
      BY DEF Ownership
    <2>1. ~Expired(c) /\ pc[c] # "idle" /\ f \in HeldRows(c) /\ f \in Events
      BY <1>7 DEF Tick, Protected, HeldRows, Expired, OwnInv, TypeOK, JobShape
    <2>2. Owns(c, f)
      BY <2>1 DEF OwnInv, Ownership, Protected
    <2>3. jobAge'[c] = jobAge[c] + 1 /\ age'[f] <= age[f] + 1
      BY <1>7, <2>1 DEF Tick, OwnInv, TypeOK
    <2>4. age'[f] <= jobAge'[c]
      <3>1. age'[f] \in Nat
        BY <1>7, <2>1 DEF Tick, OwnInv, TypeOK
      <3>2. QED
        BY <2>1, <2>2, <2>3, <3>1 DEF Owns, OwnInv, TypeOK
    <2>5. QED
      BY <1>7, <2>2, <2>4 DEF Owns, Tick
  <1>8. CASE UNCHANGED vars
    BY <1>8 DEF OwnInv, Ownership, Protected, HeldRows, Owns, Expired, vars, table, job
  <1>9. QED
    BY <1>1, <1>2, <1>3, <1>4, <1>5, <1>6, <1>7, <1>8 DEF Next

\* The inductive invariant behind the next theorem: the rows a live job still
\* holds are in processing under its claim, and the claim is younger than the
\* reaper's threshold.
THEOREM OwnInvariant == ASSUME ReaperCoversJob PROVE Spec => []OwnInv
  <1>1. Init => OwnInv
    <2>1. Init => TypeOK
      BY ParametersAssumption, SMTT(30) DEF Init, TypeOK, Status, JobPc, WaitCap, AgeCap
    <2>2. Init => JobShape /\ Ownership
      BY DEF Init, JobShape, Ownership, HeldRows
    <2>3. QED
      BY <2>1, <2>2 DEF OwnInv
  <1>2. OwnInv /\ [Next]_vars => OwnInv'
    BY TypeStep, ShapeStep, OwnershipStep DEF OwnInv
  <1>3. QED
    BY <1>1, <1>2, PTL DEF Spec

\* While a dispatcher is before its deadline, every row it holds is still its
\* own, so the unguarded UPDATE ... WHERE id of mark hits no foreign claim:
\* the reaper and the other dispatchers can never have taken the row away.
THEOREM LiveJobsOwnTheirRows == ASSUME ReaperCoversJob PROVE Spec => []LiveJobOwnsRows
  <1>1. OwnInv => LiveJobOwnsRows
    BY DEF OwnInv, Ownership, Protected, Owns, LiveJobOwnsRows
  <1>2. QED
    BY <1>1, OwnInvariant, PTL

(***************************************************************************)
(* What a step may do to a row, whoever takes it. The proofs below go by   *)
(* these cases, not by the actions: the table has few writers.             *)
(***************************************************************************)
Final(e) ==
    /\ status[e] = "published" => status'[e] \in {"published", "deleted"}
    /\ status[e] = "deleted" => status'[e] = "deleted"
    /\ attempts'[e] >= attempts[e]

LEMMA UpdateRowFinal ==
    ASSUME TypeOK, NEW e \in Events, NEW st, NEW att \in Nat, NEW w,
           att >= attempts[e], UpdateRow(e, st, att, w), NEW f \in Events
    PROVE  Final(f)
  <1>1. attempts[f] \in Nat
    BY DEF TypeOK
  <1>2. CASE Accepts(e, st, att)
    <2>1. status' = [status EXCEPT ![e] = st] /\ attempts' = [attempts EXCEPT ![e] = att]
      BY <1>2 DEF UpdateRow
    <2>2. status[e] # "deleted" /\ (status[e] = "published" => st = "published")
      BY <1>2 DEF Accepts
    <2>3. QED
      BY <1>1, <2>1, <2>2 DEF TypeOK, Final
  <1>3. CASE ~Accepts(e, st, att)
    BY <1>1, <1>3 DEF UpdateRow, table, Final
  <1>4. QED
    BY <1>2, <1>3

LEMMA FinalStep ==
    ASSUME TypeOK, [Next]_vars, NEW f \in Events
    PROVE  Final(f)
  <1>0. attempts[f] \in Nat
    BY DEF TypeOK
  <1>1. CASE UNCHANGED <<status, attempts>>
    BY <1>0, <1>1 DEF Final
  <1>2. ASSUME NEW e \in Events, Publish(e)  PROVE Final(f)
    BY <1>0, <1>2 DEF TypeOK, Publish, Final
  <1>3. ASSUME NEW d \in Dispatchers, Claim(d)  PROVE Final(f)
    BY <1>0, <1>3 DEF TypeOK, Claim, Locked, Due, Final
  <1>4. ASSUME NEW d \in Dispatchers, Mark(d)  PROVE Final(f)
    <2>1. PICK e, st, att, w : /\ e \in cur[d] /\ att \in {attempts[e], attempts[e] + 1}
                               /\ UpdateRow(e, st, att, w)
      BY <1>4, MarkUpdates
    <2>2. e \in Events /\ att \in Nat /\ att >= attempts[e]
      BY <2>1 DEF TypeOK
    <2>3. QED
      BY <2>1, <2>2, UpdateRowFinal
  <1>5. CASE ResetStuck
    BY <1>0, <1>5 DEF TypeOK, ResetStuck, Stuck, Final
  <1>6. ASSUME NEW S \in SUBSET Events, DeletePublished(S)  PROVE Final(f)
    BY <1>0, <1>6 DEF TypeOK, DeletePublished, Final
  <1>7. ASSUME NEW d \in Dispatchers, Dispatch(d), ~Claim(d), ~Mark(d)
        PROVE  UNCHANGED <<status, attempts>>
    BY <1>7 DEF Dispatch, StartRun, ClaimNothing, NextRow, HandlerReturns, HandlerReturnsLate,
                Abandon, FinishRun, table
  <1>8. CASE \/ \E d \in Dispatchers : MarkLost(d)
             \/ \E d \in Dispatchers : Crash(d)
             \/ Tick
             \/ UNCHANGED vars
    <2>1. UNCHANGED <<status, attempts>>
      BY <1>8, <1>0 DEF MarkLost, Crash, Tick, vars, table
    <2>2. QED
      BY <1>1, <2>1
  <1>9. QED
    BY <1>1, <1>2, <1>3, <1>4, <1>5, <1>6, <1>7, <1>8 DEF Next

\* A published row stays published until housekeeping deletes it and a deleted
\* row never comes back, whatever marks arrive late: mark updates by id alone,
\* and it is the table's CHECKs that hold.
THEOREM PublishedStaysFinal == Spec => PublishedIsFinal
  <1>1. TypeOK /\ [Next]_vars =>
          \A e \in Events :
            /\ status[e] = "published" => status'[e] \in {"published", "deleted"}
            /\ status[e] = "deleted" => status'[e] = "deleted"
            /\ attempts'[e] >= attempts[e]
    BY FinalStep DEF Final
  <1>2. QED
    BY <1>1, TypeCorrect, PTL DEF Spec, PublishedIsFinal

(***************************************************************************)
(* At least once.                                                          *)
(***************************************************************************)
\* What a job knows of the row it is at: up to the running handler all have
\* accepted unless an error was kept, and "no handlers" means just that.
DeliveryShape ==
    \A d \in Dispatchers : \A e \in cur[d] :
        /\ pc[d] = "handle" =>
            /\ handler[d] \in 1..HandlerCount[e]
            /\ herr[d] # "no_handlers"
            /\ herr[d] = "none" => 1..(handler[d] - 1) \subseteq done[e]
        /\ pc[d] = "mark" =>
            /\ herr[d] = "no_handlers" <=> HandlerCount[e] = 0
            /\ herr[d] = "none" => 1..HandlerCount[e] \subseteq done[e]

DeliveryInv == TypeOK /\ JobShape /\ DeliveryShape /\ PublishedWasDelivered

LEMMA DoneGrows ==
    ASSUME TypeOK, [Next]_vars, NEW e \in Events
    PROVE  done[e] \subseteq done'[e]
  <1>1. ASSUME NEW d \in Dispatchers, NEW ok \in BOOLEAN,
               HandlerReturns(d, ok) \/ HandlerReturnsLate(d, ok)
        PROVE  done[e] \subseteq done'[e]
    <2>1. PICK f \in cur[d] : done' = [done EXCEPT ![f] = @ \cup {h \in {handler[d]} : ok}]
      BY <1>1 DEF HandlerReturns, HandlerReturnsLate
    <2>2. QED
      BY <2>1 DEF TypeOK
  <1>2. CASE UNCHANGED done
    BY <1>2
  <1>3. QED
    BY <1>1, <1>2 DEF Next, Dispatch, StartRun, Claim, ClaimNothing, NextRow, Mark, Abandon,
                      FinishRun, Publish, MarkLost, Crash, ResetStuck, DeletePublished, Tick,
                      vars, history


LEMMA EndJobDelivery ==
    ASSUME TypeOK, DeliveryShape, NEW d \in Dispatchers, EndJob(d),
           \A e \in Events : done[e] \subseteq done'[e]
    PROVE  DeliveryShape'
  <1> SUFFICES ASSUME NEW c \in Dispatchers, NEW e \in cur'[c]
               PROVE  /\ pc'[c] = "handle" =>
                           /\ handler'[c] \in 1..HandlerCount[e]
                           /\ herr'[c] # "no_handlers"
                           /\ herr'[c] = "none" => 1..(handler'[c] - 1) \subseteq done'[e]
                      /\ pc'[c] = "mark" =>
                           /\ herr'[c] = "no_handlers" <=> HandlerCount[e] = 0
                           /\ herr'[c] = "none" => 1..HandlerCount[e] \subseteq done'[e]
    BY DEF DeliveryShape
  <1>1. c # d /\ e \in cur[c] /\ e \in Events
    BY DEF EndJob, TypeOK
  <1>2. pc'[c] = pc[c] /\ handler'[c] = handler[c] /\ herr'[c] = herr[c]
    BY <1>1 DEF EndJob, TypeOK
  <1>3. QED
    BY <1>1, <1>2 DEF DeliveryShape

LEMMA DeliveryShapeStep ==
    ASSUME TypeOK, JobShape, DeliveryShape, [Next]_vars
    PROVE  DeliveryShape'
  <1> USE ParametersAssumption
  <1>1. \A e \in Events : done[e] \subseteq done'[e]
    BY DoneGrows
  <1> DEFINE Knows(c, e) ==
        /\ pc[c] = "handle" =>
            /\ handler[c] \in 1..HandlerCount[e]
            /\ herr[c] # "no_handlers"
            /\ herr[c] = "none" => 1..(handler[c] - 1) \subseteq done[e]
        /\ pc[c] = "mark" =>
            /\ herr[c] = "no_handlers" <=> HandlerCount[e] = 0
            /\ herr[c] = "none" => 1..HandlerCount[e] \subseteq done[e]
  <1>2. ASSUME NEW c \in Dispatchers, NEW e \in cur[c]  PROVE Knows(c, e)
    BY <1>2 DEF DeliveryShape
  <1>3. SUFFICES ASSUME NEW c \in Dispatchers, NEW e \in cur'[c]  PROVE Knows(c, e)'
    BY DEF DeliveryShape
  <1>4. CASE e \in cur[c] /\ UNCHANGED <<pc[c], handler[c], herr[c]>>
    <2>1. Knows(c, e) /\ e \in Events
      BY <1>2, <1>4 DEF TypeOK
    <2>2. QED
      BY <1>1, <1>4, <2>1
  <1>5. ASSUME NEW d \in Dispatchers, EndJob(d)  PROVE Knows(c, e)'
    BY <1>1, <1>5, EndJobDelivery DEF DeliveryShape
  <1>6. ASSUME NEW d \in Dispatchers, NEW f \in Events, NextRow(d, f)  PROVE Knows(c, e)'
    <2>1. CASE c = d
      <3>1. e = f
        BY <1>6, <2>1 DEF NextRow, TypeOK
      <3>2. HandlerCount[f] \in Nat
        OBVIOUS
      <3>3. CASE HandlerCount[f] = 0
        BY <1>6, <2>1, <3>1, <3>3 DEF NextRow, TypeOK
      <3>4. CASE HandlerCount[f] # 0
        <4>1. pc'[d] = "handle" /\ handler'[d] = 1 /\ herr'[d] = "none"
          BY <1>6, <3>4 DEF NextRow, TypeOK
        <4>2. 1 \in 1..HandlerCount[f] /\ 1..(1 - 1) = {}
          BY <3>2, <3>4
        <4>3. QED
          BY <2>1, <3>1, <4>1, <4>2
      <3>5. QED
        BY <3>3, <3>4
    <2>2. CASE c # d
      BY <1>4, <1>6, <2>2 DEF NextRow, TypeOK
    <2>3. QED
      BY <2>1, <2>2
  <1>7. ASSUME NEW d \in Dispatchers, NEW ok \in BOOLEAN, HandlerReturns(d, ok)
        PROVE  Knows(c, e)'
    <2>1. CASE c = d
      <3>1. PICK f \in cur[d] :
              /\ done' = [done EXCEPT ![f] = @ \cup {h \in {handler[d]} : ok}]
              /\ pc' = [pc EXCEPT ![d] = IF handler[d] < HandlerCount[f] THEN "handle" ELSE "mark"]
              /\ handler' = [handler EXCEPT ![d] = IF @ < HandlerCount[f] THEN @ + 1 ELSE 0]
        BY <1>7 DEF HandlerReturns
      <3>2. e = f /\ f \in Events /\ e \in cur[d]
        BY <1>7, <2>1, <3>1 DEF HandlerReturns, JobShape, TypeOK
      <3>3. Knows(d, f) /\ pc[d] = "handle" /\ handler[d] \in Nat /\ HandlerCount[f] \in Nat
        BY <1>2, <1>7, <3>1, <3>2 DEF HandlerReturns, TypeOK
      <3>4. herr'[d] = JoinError(d, ok)
        BY <1>7 DEF HandlerReturns, TypeOK
      <3>5. /\ herr'[d] # "no_handlers"
            /\ herr'[d] = "none" => 1..handler[d] \subseteq done'[f]
        <4>1. herr'[d] # "no_handlers"
          BY <3>3, <3>4 DEF JoinError
        <4>2. ASSUME herr'[d] = "none"  PROVE 1..handler[d] \subseteq done'[f]
          <5>1. ok /\ herr[d] = "none"
            BY <3>4, <4>2 DEF JoinError
          <5>2. 1..(handler[d] - 1) \subseteq done[f]
            BY <3>3, <5>1
          <5>3. done'[f] = done[f] \cup {handler[d]}
            BY <3>1, <3>2, <5>1 DEF TypeOK
          <5>4. 1..handler[d] \subseteq 1..(handler[d] - 1) \cup {handler[d]}
            BY <3>3
          <5>5. QED
            BY <5>2, <5>3, <5>4
        <4>3. QED
          BY <4>1, <4>2
      <3>6. CASE handler[d] < HandlerCount[f]
        <4>1. pc'[d] = "handle" /\ handler'[d] = handler[d] + 1
          BY <3>1, <3>6 DEF TypeOK
        <4>2. handler'[d] \in 1..HandlerCount[f] /\ handler'[d] - 1 = handler[d]
          BY <3>3, <3>6, <4>1
        <4>3. QED
          BY <2>1, <3>2, <3>5, <4>1, <4>2
      <3>7. CASE ~(handler[d] < HandlerCount[f])
        <4>1. pc'[d] = "mark"
          BY <3>1, <3>7 DEF TypeOK
        <4>2. handler[d] = HandlerCount[f] /\ HandlerCount[f] # 0
          BY <3>3, <3>7
        <4>3. QED
          BY <2>1, <3>2, <3>5, <4>1, <4>2
      <3>8. QED
        BY <3>6, <3>7
    <2>2. CASE c # d
      BY <1>4, <1>7, <2>2 DEF HandlerReturns, TypeOK
    <2>3. QED
      BY <2>1, <2>2
  <1>8. ASSUME NEW d \in Dispatchers, RowDone(d), UNCHANGED done,
               pc[d] = "mark"
        PROVE  Knows(c, e)'
    <2>1. c # d
      BY <1>8 DEF RowDone, TypeOK
    <2>2. QED
      BY <1>4, <1>8, <2>1 DEF RowDone, TypeOK
  <1>9. ASSUME NEW d \in Dispatchers, StartRun(d) \/ Claim(d)  PROVE Knows(c, e)'
    <2>1. c # d
      BY <1>9 DEF StartRun, Claim, JobShape, TypeOK
    <2>2. QED
      BY <1>4, <1>9, <2>1 DEF StartRun, Claim, TypeOK
  <1>10. CASE \/ \E f \in Events : Publish(f)
              \/ ResetStuck
              \/ \E S \in SUBSET Events : DeletePublished(S)
              \/ Tick
              \/ UNCHANGED vars
    <2>1. UNCHANGED <<pc, cur, handler, herr>>
      BY <1>10 DEF Publish, ResetStuck, DeletePublished, Tick, vars, job
    <2>2. QED
      BY <1>4, <2>1
  <1>11. QED
    BY <1>5, <1>6, <1>7, <1>8, <1>9, <1>10
       DEF Next, Dispatch, ClaimNothing, HandlerReturnsLate, Mark, Abandon, FinishRun, MarkLost,
           Crash, history

LEMMA DeliveredStep ==
    ASSUME TypeOK, DeliveryShape, PublishedWasDelivered, [Next]_vars
    PROVE  PublishedWasDelivered'
  <1> SUFFICES ASSUME NEW e \in Events, status'[e] \in {"published", "deleted"}
               PROVE  HandlerCount[e] > 0 /\ 1..HandlerCount[e] \subseteq done'[e]
    BY DEF PublishedWasDelivered
  <1>1. done[e] \subseteq done'[e]
    BY DoneGrows
  <1>2. CASE status[e] \in {"published", "deleted"}
    BY <1>1, <1>2 DEF PublishedWasDelivered
  <1>3. CASE status[e] \notin {"published", "deleted"}
    <2>1. PICK d \in Dispatchers : Mark(d)
      <3>1. \/ status'[e] = status[e]
            \/ status'[e] \in {"pending", "processing"}
            \/ \E S \in SUBSET Events : DeletePublished(S) /\ e \in S
            \/ \E d \in Dispatchers : Mark(d)
        BY <1>3 DEF Next, Dispatch, StartRun, Claim, ClaimNothing, NextRow, HandlerReturns,
                    HandlerReturnsLate, Abandon, FinishRun, Publish, MarkLost, Crash, ResetStuck,
                    DeletePublished, Tick, vars, table, TypeOK
      <3>2. QED
        BY <1>3, <3>1 DEF DeletePublished
    <2>2. PICK f, st, att, w : /\ f \in cur[d] /\ UpdateRow(f, st, att, w) /\ st # "deleted"
                               /\ st = "published" => herr[d] = "none"
      BY <2>1, MarkUpdates
    <2>3. f \in Events /\ Accepts(f, st, att) /\ f = e /\ st = "published"
      <3>1. f \in Events
        BY <2>2 DEF TypeOK
      <3>2. Accepts(f, st, att)
        BY <1>3, <2>2 DEF UpdateRow, table
      <3>3. status' = [status EXCEPT ![f] = st]
        BY <2>2, <3>2 DEF UpdateRow
      <3>4. QED
        BY <1>3, <2>2, <3>1, <3>2, <3>3 DEF TypeOK
    <2>4. pc[d] = "mark" /\ herr[d] = "none"
      BY <2>1, <2>2, <2>3 DEF Mark
    <2>5. HandlerCount[e] # 0 /\ 1..HandlerCount[e] \subseteq done[e]
      BY <2>2, <2>3, <2>4 DEF DeliveryShape
    <2>6. QED
      BY <1>1, <2>5, ParametersAssumption
  <1>4. QED
    BY <1>2, <1>3

\* The inductive invariant behind the next theorem.
LEMMA DeliveryInvAlways == Spec => []DeliveryInv
  <1>1. Init => JobShape /\ DeliveryShape /\ PublishedWasDelivered
    BY DEF Init, JobShape, DeliveryShape, PublishedWasDelivered
  <1>2. DeliveryInv /\ TypeOK' /\ [Next]_vars => DeliveryInv'
    BY ShapeStep, DeliveryShapeStep, DeliveredStep DEF DeliveryInv
  <1>3. Init /\ TypeOK => DeliveryInv
    BY <1>1 DEF DeliveryInv
  <1>4. QED
    BY <1>2, <1>3, TypeCorrect, PTL DEF Spec

\* At least once: whatever crashes, expires or is claimed again, a row is
\* published, and later deleted, only when every handler registered for it has
\* accepted the event.
THEOREM PublishedImpliesDelivered == Spec => []PublishedWasDelivered
  <1>1. DeliveryInv => PublishedWasDelivered
    BY DEF DeliveryInv
  <1>2. QED
    BY <1>1, DeliveryInvAlways, PTL

(***************************************************************************)
(* One event of a user at a time.                                          *)
(***************************************************************************)
OneInFlight ==
    \A e, f \in Events :
        status[e] = "processing" /\ status[f] = "processing" /\ SameUser(e, f) => e = f

\* A claim's snapshot holds only heads of queues.
CandidatesApart ==
    \A d \in Dispatchers : \A e, f \in cand[d] : SameUser(e, f) => e = f
LEMMA BatchHeads ==
    ASSUME TypeOK, NEW e \in Batch, NEW f \in Batch, SameUser(e, f)
    PROVE  e = f
  <1> USE ParametersAssumption
  <1>1. e \in Claimable /\ f \in Claimable /\ e \in Events /\ f \in Events
    BY DEF Batch, Claimable
  <1>2. status[e] = "pending" /\ status[f] = "pending"
    BY <1>1 DEF Claimable, Due
  <1>3. ~Earlier(e, f) /\ ~Earlier(f, e)
    BY <1>1, <1>2 DEF Claimable
  <1>4. SameUser(f, e)
    BY DEF SameUser
  <1>5. Rank[e] = Rank[f]
    <2>1. Rank[e] \in Nat /\ Rank[f] \in Nat
      BY <1>1
    <2>2. QED
      BY <1>3, <1>4, <2>1 DEF Earlier
  <1>6. QED
    BY <1>1, <1>5

LEMMA CandidatesStep ==
    ASSUME TypeOK, CandidatesApart, [Next]_vars
    PROVE  CandidatesApart'
  <1> SUFFICES ASSUME NEW c \in Dispatchers, NEW e \in cand'[c], NEW f \in cand'[c], SameUser(e, f)
               PROVE  e = f
    BY DEF CandidatesApart, SameUser
  <1>1. ASSUME NEW d \in Dispatchers, StartRun(d)  PROVE e = f
    BY <1>1, BatchHeads DEF StartRun, TypeOK, CandidatesApart
  <1>2. ASSUME NEW d \in Dispatchers, cand' = [cand EXCEPT ![d] = {}] \/ UNCHANGED cand
        PROVE  e = f
    BY <1>2 DEF TypeOK, CandidatesApart
  <1>3. CASE UNCHANGED cand
    BY <1>3 DEF CandidatesApart
  <1>4. QED
    BY <1>1, <1>2, <1>3
       DEF Next, Dispatch, Claim, ClaimNothing, NextRow, HandlerReturns, HandlerReturnsLate, Mark,
           Abandon, FinishRun, EndJob, RowDone, Publish, MarkLost, Crash, ResetStuck,
           DeletePublished, Tick, vars, job

\* Only a claim puts rows in processing.
LEMMA ProcessingStep ==
    ASSUME TypeOK, [Next]_vars, NEW e \in Events, status'[e] = "processing"
    PROVE  \/ status[e] = "processing"
           \/ \E d \in Dispatchers : Claim(d) /\ e \in Locked(d)
  <1>1. ASSUME NEW d \in Dispatchers, Mark(d)  PROVE status'[e] = status[e]
    <2>1. PICK f, st, att, w : f \in cur[d] /\ UpdateRow(f, st, att, w) /\ st # "processing"
      BY <1>1, MarkUpdates
    <2>2. f \in Events
      BY <2>1 DEF TypeOK
    <2>3. QED
      BY <2>1, <2>2 DEF UpdateRow, TypeOK, table
  <1>2. ASSUME NEW d \in Dispatchers, Claim(d)
        PROVE  status[e] = "processing" \/ e \in Locked(d)
    BY <1>2 DEF Claim, TypeOK
  <1>3. ASSUME \A d \in Dispatchers : ~Claim(d) /\ ~Mark(d)
        PROVE  status[e] = "processing"
    BY <1>3 DEF TypeOK, Next, Dispatch, StartRun, ClaimNothing, NextRow, HandlerReturns,
                HandlerReturnsLate, Abandon, FinishRun, Publish, MarkLost, Crash, ResetStuck,
                DeletePublished, Tick, vars, table
  <1>4. QED
    BY <1>1, <1>2, <1>3

LEMMA OneInFlightStep ==
    ASSUME TypeOK, CandidatesApart, OneInFlight, [Next]_vars
    PROVE  OneInFlight'
  <1> SUFFICES ASSUME NEW e \in Events, NEW f \in Events, status'[e] = "processing",
                      status'[f] = "processing", SameUser(e, f)
               PROVE  e = f
    BY DEF OneInFlight, SameUser
  <1>0. SameUser(f, e)
    BY DEF SameUser
  <1>1. CASE status[e] = "processing" /\ status[f] = "processing"
    BY <1>1 DEF OneInFlight
  <1>2. ASSUME NEW d \in Dispatchers, Claim(d)  PROVE e = f
    <2>1. \A x \in {e, f} : x \in Locked(d) \/ status[x] = "processing"
      BY <1>2 DEF Claim, TypeOK
    <2>2. \A x \in Locked(d) : x \in cand[d] /\ ~UserInFlight(x)
      BY <1>2 DEF Claim, ClaimRefused, Locked
    <2>3. CASE e \in Locked(d) /\ f \in Locked(d)
      BY <2>2, <2>3 DEF CandidatesApart
    <2>4. CASE e \in Locked(d) /\ status[f] = "processing"
      BY <1>0, <2>2, <2>4 DEF UserInFlight
    <2>5. CASE f \in Locked(d) /\ status[e] = "processing"
      BY <2>2, <2>5 DEF UserInFlight
    <2>6. QED
      BY <1>1, <2>1, <2>3, <2>4, <2>5
  <1>3. QED
    BY <1>1, <1>2, ProcessingStep

SerialInv == TypeOK /\ CandidatesApart /\ OneInFlight

\* The first half of SerialPerUser needs no assumption on the reaper: the
\* unique index refuses a claim that would put a second row of a user in
\* processing, and no other write does.
LEMMA SerialInvAlways == Spec => []SerialInv
  <1>1. Init /\ TypeOK => SerialInv
    BY DEF Init, SerialInv, CandidatesApart, OneInFlight
  <1>2. SerialInv /\ TypeOK' /\ [Next]_vars => SerialInv'
    BY CandidatesStep, OneInFlightStep DEF SerialInv
  <1>3. QED
    BY <1>1, <1>2, TypeCorrect, PTL DEF Spec

\* No two events of one user are in processing, and no two dispatchers are
\* inside handlers of one user's events, when the reaper waits out a job's
\* deadline and handlers return when their context is done.
THEOREM UsersAreServedSerially ==
    ASSUME ReaperCoversJob, PromptHandlers PROVE Spec => []SerialPerUser
  <1>1. SerialInv /\ OwnInv => SerialPerUser
    <2> SUFFICES ASSUME SerialInv, OwnInv, NEW c \in Dispatchers, NEW d \in Dispatchers, c # d,
                        pc[c] = "handle", pc[d] = "handle", NEW e \in cur[c], NEW f \in cur[d]
                 PROVE  e # f /\ ~SameUser(e, f)
      BY DEF SerialPerUser, SerialInv, OneInFlight
    <2>1. Owns(c, e) /\ Owns(d, f)
      BY DEF OwnInv, Ownership, Protected, HeldRows
    <2>2. e \in Events /\ f \in Events
      BY DEF OwnInv, TypeOK
    <2>3. e # f
      BY <2>1 DEF Owns
    <2>4. QED
      BY <2>1, <2>2, <2>3 DEF Owns, SerialInv, OneInFlight
  <1>2. QED
    BY <1>1, SerialInvAlways, OwnInvariant, PTL

(***************************************************************************)
(* First in, first out.                                                    *)
(***************************************************************************)
\* Nothing of the user is waiting before the event, late arrivals apart.
Passed(e) ==
    /\ status[e] # "absent"
    /\ \A f \in Events : Earlier(f, e) /\ f \notin late => status[f] \in Settled \cup {"absent"}

\* So it is for every event a job has selected, holds or has begun, and stays.
QueueOrder ==
    /\ \A e \in begun : Passed(e)
    /\ \A d \in Dispatchers : \A e \in cand[d] \cup HeldRows(d) : Passed(e)

LEMMA MarkHitsProcessing ==
    ASSUME OwnInv, NEW d \in Dispatchers, Mark(d), NEW e \in cur[d]
    PROVE  e \in Events /\ Owns(d, e)
  <1>1. e \in HeldRows(d) /\ Protected(d)
    BY DEF Mark, HeldRows, Protected
  <1>2. QED
    BY <1>1 DEF OwnInv, Ownership, TypeOK

LEMMA PassedStays ==
    ASSUME OwnInv, [Next]_vars, NEW e \in Events, Passed(e)
    PROVE  Passed(e)'
  <1> DEFINE Kept(f) == /\ status[f] \in Settled => status'[f] \in Settled
                        /\ status[f] # "absent" => status'[f] # "absent"
  <1>1. CASE (\A f \in Events : Kept(f) /\ (status[f] = "absent" => status'[f] = "absent"))
              /\ late' = late
    BY <1>1 DEF Passed, Earlier, SameUser
  <1>2. ASSUME NEW g \in Events, Publish(g)  PROVE Passed(e)'
    <2>1. /\ status' = [status EXCEPT ![g] = "pending"] /\ status[g] = "absent"
          /\ late' = late \cup {x \in {g} : \E f \in Events : Earlier(g, f) /\ status[f] # "absent"}
      BY <1>2 DEF Publish
    <2>2. Earlier(g, e) => g \in late'
      BY <2>1 DEF Passed
    <2>3. QED
      BY <2>1, <2>2 DEF OwnInv, TypeOK, Passed, Earlier, SameUser, Settled
  <1>3. ASSUME NEW d \in Dispatchers, Mark(d)  PROVE Passed(e)'
    <2>1. PICK g, st, att, w : /\ g \in cur[d] /\ UpdateRow(g, st, att, w)
                               /\ st \in {"published", "failed", "pending"}
      BY <1>3, MarkUpdates DEF OwnInv
    <2>2. g \in Events /\ status[g] = "processing"
      BY <1>3, <2>1, MarkHitsProcessing DEF Owns
    <2>3. status' = status \/ status' = [status EXCEPT ![g] = st]
      BY <2>1 DEF UpdateRow, table
    <2>4. late' = late
      BY <1>3 DEF Mark, history
    <2>5. ASSUME NEW f \in Events PROVE Kept(f) /\ (status[f] = "absent" => status'[f] = "absent")
      BY <2>1, <2>2, <2>3 DEF OwnInv, TypeOK, Settled
    <2>6. QED
      BY <1>1, <2>4, <2>5
  <1>4. ASSUME NEW d \in Dispatchers, Claim(d)  PROVE Passed(e)'
    <2>1. ASSUME NEW f \in Events PROVE Kept(f) /\ (status[f] = "absent" => status'[f] = "absent")
      BY <1>4 DEF OwnInv, TypeOK, Claim, Locked, Due, Settled
    <2>2. QED
      BY <1>1, <1>4, <2>1 DEF Claim, history
  <1>5. CASE ResetStuck
    <2>1. ASSUME NEW f \in Events PROVE Kept(f) /\ (status[f] = "absent" => status'[f] = "absent")
      BY <1>5 DEF OwnInv, TypeOK, ResetStuck, Stuck, Settled
    <2>2. QED
      BY <1>1, <1>5, <2>1 DEF ResetStuck, history
  <1>6. ASSUME NEW S \in SUBSET Events, DeletePublished(S)  PROVE Passed(e)'
    <2>1. ASSUME NEW f \in Events PROVE Kept(f) /\ (status[f] = "absent" => status'[f] = "absent")
      BY <1>6 DEF OwnInv, TypeOK, DeletePublished, Settled
    <2>2. QED
      BY <1>1, <1>6, <2>1 DEF DeletePublished, history
  <1>7. CASE UNCHANGED <<status, late>>
    BY <1>1, <1>7
  <1>8. QED
    BY <1>2, <1>3, <1>4, <1>5, <1>6, <1>7
       DEF Next, Dispatch, StartRun, ClaimNothing, NextRow, HandlerReturns, HandlerReturnsLate,
           Abandon, FinishRun, MarkLost, Crash, Tick, vars, table, history

\* The head of a queue has nothing before it.
LEMMA HeadPassed ==
    ASSUME TypeOK, NEW e \in Batch
    PROVE  e \in Events /\ Passed(e)
  <1>1. e \in Claimable /\ e \in Events
    BY DEF Batch, Claimable
  <1>2. status[e] = "pending"
    BY <1>1 DEF Claimable, Due
  <1>3. ASSUME NEW f \in Events, Earlier(f, e)  PROVE status[f] \in Settled \cup {"absent"}
    <2>1. status[f] # "pending" /\ status[f] # "processing"
      BY <1>1, <1>3 DEF Claimable, UserInFlight, Earlier
    <2>2. QED
      BY <2>1 DEF TypeOK, Status, Settled
  <1>4. QED
    BY <1>1, <1>2, <1>3 DEF Passed

\* No step puts an event in a job's hands, or begins it, but from the hands
\* the step before left it in or from a claim's snapshot.
LEMMA HandsStep ==
    ASSUME OwnInv, [Next]_vars
    PROVE  /\ \A e \in begun' : e \in begun \/ \E d \in Dispatchers : e \in HeldRows(d)
           /\ \A d \in Dispatchers : \A e \in cand'[d] \cup HeldRows(d)' :
                e \in cand[d] \cup HeldRows(d) \cup Batch
  <1> USE DEF HeldRows
  <1>1. ASSUME NEW c \in Dispatchers, StartRun(c) \/ Claim(c) \/ EndJob(c) \/ RowDone(c)
        PROVE  \A d \in Dispatchers : \A e \in cand'[d] \cup HeldRows(d)' :
                 e \in cand[d] \cup HeldRows(d) \cup Batch
    <2>1. CASE StartRun(c)
      BY <2>1 DEF StartRun, OwnInv, TypeOK
    <2>2. CASE Claim(c)
      BY <2>2 DEF Claim, Locked, OwnInv, TypeOK
    <2>3. CASE EndJob(c)
      BY <2>3 DEF EndJob, OwnInv, TypeOK
    <2>4. CASE RowDone(c)
      BY <2>4 DEF RowDone, OwnInv, TypeOK
    <2>5. QED
      BY <1>1, <2>1, <2>2, <2>3, <2>4
  <1>2. ASSUME NEW c \in Dispatchers, NEW f \in Events, NextRow(c, f)
        PROVE  /\ \A e \in begun' : e \in begun \/ \E d \in Dispatchers : e \in HeldRows(d)
               /\ \A d \in Dispatchers : \A e \in cand'[d] \cup HeldRows(d)' :
                    e \in cand[d] \cup HeldRows(d) \cup Batch
    BY <1>2 DEF NextRow, OwnInv, TypeOK
  <1>3. \/ \E c \in Dispatchers, f \in Events : NextRow(c, f)
        \/ begun' = begun
    BY DEF Next, Dispatch, StartRun, Claim, ClaimNothing, HandlerReturns, HandlerReturnsLate, Mark,
           Abandon, FinishRun, Publish, MarkLost, Crash, ResetStuck, DeletePublished, Tick, vars,
           history
  <1>4. \/ \E c \in Dispatchers, f \in Events : NextRow(c, f)
        \/ \E c \in Dispatchers : StartRun(c) \/ Claim(c) \/ EndJob(c) \/ RowDone(c)
        \/ UNCHANGED <<cand, rows, cur>>
    BY DEF Next, Dispatch, ClaimNothing, HandlerReturns, HandlerReturnsLate, Mark, Abandon,
           FinishRun, Publish, MarkLost, Crash, ResetStuck, DeletePublished, Tick, vars, job
  <1>5. QED
    BY <1>1, <1>2, <1>3, <1>4

FifoInv == OwnInv /\ QueueOrder

\* Delivery of an event begins only after every earlier event of its user is
\* settled, the ones committed behind a later one apart: neither a retry, nor
\* the reaper, nor a mark that comes late puts an event back behind.
THEOREM UsersAreServedInOrder == ASSUME ReaperCoversJob PROVE Spec => []FifoPerUser
  <1>1. Init /\ OwnInv => FifoInv
    BY DEF Init, FifoInv, QueueOrder, HeldRows
  <1>2. FifoInv /\ OwnInv' /\ [Next]_vars => FifoInv'
    <2> SUFFICES ASSUME FifoInv, OwnInv', [Next]_vars PROVE QueueOrder'
      BY DEF FifoInv
    <2>1. ASSUME NEW e, \/ e \in begun \/ \E d \in Dispatchers : e \in cand[d] \cup HeldRows(d)
                        \/ e \in Batch
          PROVE  Passed(e)'
      <3>1. e \in Events
        BY <2>1 DEF FifoInv, OwnInv, TypeOK, HeldRows, Batch, Claimable
      <3>2. Passed(e)
        BY <2>1, HeadPassed DEF FifoInv, OwnInv, QueueOrder
      <3>3. QED
        BY <3>1, <3>2, PassedStays DEF FifoInv
    <2>2. QED
      BY <2>1, HandsStep DEF FifoInv, QueueOrder
  <1>3. FifoInv => FifoPerUser
    BY DEF FifoInv, QueueOrder, Passed, FifoPerUser
  <1>4. QED
    BY <1>1, <1>2, <1>3, OwnInvariant, PTL DEF Spec

(***************************************************************************)
(* The outbox implements OutboxQueue.                                      *)
(***************************************************************************)
QueueInv == OwnInv /\ DeliveryShape /\ SerialInv

\* The phases tell the statuses apart.
LEMMA Phases ==
    /\ PhaseOf("absent") = "absent" /\ PhaseOf("pending") = "queued"
    /\ PhaseOf("processing") = "delivering" /\ PhaseOf("published") = "delivered"
    /\ PhaseOf("failed") = "dead" /\ PhaseOf("deleted") = "gone"
    BY DEF PhaseOf

Phase == [e \in Events |-> PhaseOf(status[e])]

\* A step that puts the rows S in one status and leaves the others moves S.
LEMMA MoveRows ==
    ASSUME NEW S \in SUBSET Events, NEW st,
           \A e \in Events : status'[e] = IF e \in S THEN st ELSE status[e]
    PROVE  Queue!Move(S, PhaseOf(st))
    BY DEF Queue!Move

LEMMA MoveRow ==
    ASSUME TypeOK, NEW f \in Events, NEW st, status' = [status EXCEPT ![f] = st]
    PROVE  Queue!Move({f}, PhaseOf(st))
  <1>1. \A e \in Events : status'[e] = IF e \in {f} THEN st ELSE status[e]
    BY DEF TypeOK
  <1>2. QED
    BY <1>1, MoveRows

LEMMA QueueStutters ==
    ASSUME UNCHANGED <<status, attempts>>
    PROVE  UNCHANGED Queue!vars
    BY DEF Queue!vars

\* A mark of a live job is a delivery or a counted failure of the row the job
\* holds, or is refused by the CHECK on attempts and changes nothing.
LEMMA MarkIsDeliverOrFail ==
    ASSUME QueueInv, NEW d \in Dispatchers, Mark(d)
    PROVE  Queue!Next \/ UNCHANGED Queue!vars
  <1> USE ParametersAssumption, Phases
  <1>1. PICK e, st, att, w :
             /\ e \in cur[d] /\ UpdateRow(e, st, att, w)
             /\ \/ herr[d] = "none" /\ st = "published" /\ att = attempts[e]
                \/ herr[d] = "no_handlers" /\ st = "failed" /\ att = attempts[e] + 1
                \/ /\ herr[d] = "failed" /\ Exhausted(d, e)
                   /\ st = "failed" /\ att = attempts[e] + 1
                \/ /\ herr[d] = "failed" /\ ~Exhausted(d, e)
                   /\ st = "pending" /\ att = attempts[e] + 1
    BY MarkUpdates DEF QueueInv, OwnInv
  <1>2. /\ e \in Events /\ status[e] = "processing" /\ snap[d][e] = attempts[e]
        /\ attempts[e] \in Nat /\ TypeOK
    BY <1>1, MarkHitsProcessing DEF QueueInv, OwnInv, Owns, TypeOK
  <1>3. herr[d] = "no_handlers" <=> HandlerCount[e] = 0
    BY <1>1 DEF Mark, QueueInv, DeliveryShape
  <1>4. e \in {x \in Events : HandlerCount[x] > 0} <=> HandlerCount[e] # 0
    BY <1>2
  <1>5. Phase[e] = "delivering"
    BY <1>2 DEF Phase
  <1>6. CASE ~Accepts(e, st, att)
    BY <1>1, <1>6, QueueStutters DEF UpdateRow, table
  <1>7. CASE Accepts(e, st, att)
    <2>1. /\ status' = [status EXCEPT ![e] = st]
          /\ attempts' = [attempts EXCEPT ![e] = att]
          /\ att <= MaxAttempts
      BY <1>1, <1>7 DEF UpdateRow, Accepts
    <2>2. Queue!Move({e}, PhaseOf(st))
      BY <1>2, <2>1, MoveRow
    <2>3. CASE herr[d] = "none"
      <3>1. st = "published" /\ attempts' = attempts
        BY <1>1, <1>2, <2>1, <2>3 DEF TypeOK
      <3>2. Queue!Deliver(e)
        BY <1>3, <1>4, <1>5, <2>2, <2>3, <3>1 DEF Queue!Deliver, Phase
      <3>3. QED
        BY <1>2, <3>2 DEF Queue!Next
    <2>4. CASE herr[d] # "none"
      <3>1. attempts' = [attempts EXCEPT ![e] = @ + 1]
        BY <1>1, <2>1, <2>4
      <3>2. PhaseOf(st) = IF attempts[e] + 1 = MaxAttempts
                              \/ e \notin {x \in Events : HandlerCount[x] > 0}
                          THEN "dead" ELSE "queued"
        <4>1. attempts[e] + 1 <= MaxAttempts
          BY <1>1, <2>1, <2>4
        <4>2. QED
          BY <1>1, <1>2, <1>3, <1>4, <2>4, <4>1 DEF Exhausted
      <3>3. Queue!Fail(e)
        BY <1>5, <2>2, <3>1, <3>2 DEF Queue!Fail, Phase
      <3>4. QED
        BY <1>2, <3>3 DEF Queue!Next
    <2>5. QED
      BY <2>3, <2>4
  <1>8. QED
    BY <1>6, <1>7

LEMMA QueueStep ==
    ASSUME QueueInv, [Next]_vars
    PROVE  Queue!Next \/ UNCHANGED Queue!vars
  <1> USE ParametersAssumption, Phases
  <1>0. TypeOK /\ OneInFlight
    BY DEF QueueInv, SerialInv
  <1>1. ASSUME NEW e \in Events, Publish(e)  PROVE Queue!Next
    <2>1. Queue!Move({e}, "queued")
      <3>1. Queue!Move({e}, PhaseOf("pending"))
        BY <1>0, <1>1, MoveRow DEF Publish
      <3>2. QED
        BY <3>1
    <2>2. Queue!Enqueue(e)
      BY <1>1, <2>1 DEF Queue!Enqueue, Publish
    <2>3. QED
      BY <2>2 DEF Queue!Next
  <1>2. ASSUME NEW d \in Dispatchers, Claim(d)  PROVE Queue!Next
    <2>1. Locked(d) \in SUBSET Events
      BY <1>0 DEF Locked, TypeOK
    <2>2. Queue!Move(Locked(d), "delivering")
      <3>1. \A e \in Events : status'[e] = IF e \in Locked(d) THEN "processing" ELSE status[e]
        BY <1>2 DEF Claim
      <3>2. QED
        BY <2>1, <3>1, MoveRows
    <2>3. ASSUME NEW e \in Locked(d)  PROVE e \in cand[d] /\ status[e] = "pending" /\ ~UserInFlight(e)
      BY <1>2 DEF Locked, Due, Claim, ClaimRefused
    <2>4. \A e \in Locked(d) : Phase[e] = "queued"
      BY <2>1, <2>3 DEF Phase
    <2>5. ASSUME NEW e \in Locked(d), NEW f \in Events, f # e, UserOf[e] = UserOf[f],
                 UserOf[e] # NoUser
          PROVE  Phase[f] # "delivering" /\ f \notin Locked(d)
      <3>1. SameUser(e, f) /\ SameUser(f, e)
        BY <2>5 DEF SameUser
      <3>2. f \notin Locked(d)
        BY <2>3, <2>5, <3>1 DEF QueueInv, SerialInv, CandidatesApart
      <3>3. status[f] # "processing" /\ status[f] \in Status
        BY <1>0, <2>3, <3>1 DEF UserInFlight, TypeOK
      <3>4. QED
        BY <3>2, <3>3 DEF Phase, Status
    <2>6. Queue!Begin(Locked(d))
      BY <1>2, <2>2, <2>4, <2>5 DEF Queue!Begin, Phase, Claim
    <2>7. QED
      BY <2>1, <2>6 DEF Queue!Next
  <1>3. ASSUME NEW d \in Dispatchers, Mark(d)  PROVE Queue!Next \/ UNCHANGED Queue!vars
    BY <1>3, MarkIsDeliverOrFail
  <1>4. CASE ResetStuck
    <2>1. Stuck \in SUBSET Events /\ \A e \in Stuck : status[e] = "processing"
      BY DEF Stuck
    <2>2. Queue!Move(Stuck, "queued")
      <3>1. \A e \in Events : status'[e] = IF e \in Stuck THEN "pending" ELSE status[e]
        BY <1>4 DEF ResetStuck
      <3>2. QED
        BY <2>1, <3>1, MoveRows
    <2>3. Queue!GiveBack(Stuck)
      BY <1>4, <2>1, <2>2 DEF Queue!GiveBack, ResetStuck
    <2>4. QED
      BY <2>1, <2>3 DEF Queue!Next
  <1>5. ASSUME NEW S \in SUBSET Events, DeletePublished(S)  PROVE Queue!Next
    <2>1. Queue!Move(S, "gone")
      <3>1. \A e \in Events : status'[e] = IF e \in S THEN "deleted" ELSE status[e]
        BY <1>5 DEF DeletePublished
      <3>2. QED
        BY <3>1, MoveRows
    <2>2. Queue!Purge(S)
      BY <1>5, <2>1 DEF Queue!Purge, DeletePublished
    <2>3. QED
      BY <2>2 DEF Queue!Next
  <1>6. CASE UNCHANGED <<status, attempts>>
    BY <1>6, QueueStutters
  <1>7. QED
    BY <1>1, <1>2, <1>3, <1>4, <1>5, <1>6
       DEF Next, Dispatch, StartRun, ClaimNothing, NextRow, HandlerReturns, HandlerReturnsLate,
           Abandon, FinishRun, MarkLost, Crash, Tick, vars, table

\* The outbox is the queue it promises: an event is queued once, is under
\* delivery with no other of its user, returns to the queue with or without a
\* failure counted, and ends delivered or, only after max_attempts counted
\* failures or for want of a handler, dead.
THEOREM OutboxIsAQueue == ASSUME ReaperCoversJob PROVE Spec => ImplementsQueue
  <1>1. Init => Queue!Init
    BY Phases DEF Init, Queue!Init
  <1>2. QueueInv /\ [Next]_vars => [Queue!Next]_Queue!vars
    BY QueueStep
  <1>3. OwnInv /\ DeliveryInv /\ SerialInv => QueueInv
    BY DEF QueueInv, DeliveryInv
  <1>4. QED
    BY <1>1, <1>2, <1>3, OwnInvariant, DeliveryInvAlways, SerialInvAlways,
       PTL DEF Spec, ImplementsQueue, Queue!Spec
=============================================================================
