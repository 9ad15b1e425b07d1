------------------------------ MODULE RunBook -------------------------------
(***************************************************************************)
(* What the workflow kernel promises its callers, with no snapshots,       *)
(* versions, step records or retries: a key has one open run at a time,    *)
(* and a call that takes effect does so as a whole, on the run as it       *)
(* stands at that moment. It goes on from where the run stopped, takes in  *)
(* an input only if the run was waiting for one, and leaves the run        *)
(* waiting or ended.                                                       *)
(***************************************************************************)
EXTENDS Integers

CONSTANTS Keys, Callers, Runs, NoKey, StepCount, Sequential

VARIABLES
    phase,  \* of a run
    keyOf,  \* its key
    taken,  \* the callers whose resume input it took in
    done    \* the steps it has been through

vars == <<phase, keyOf, taken, done>>

Open == {"running", "suspended"}
Upto(n) == 0..(n - 1)

Init ==
    /\ phase = [r \in Runs |-> "absent"]
    /\ keyOf = [r \in Runs |-> NoKey]
    /\ taken = [r \in Runs |-> {}]
    /\ done = [r \in Runs |-> {}]

Begin(r, k) ==
    /\ phase[r] = "absent"
    /\ \A s \in Runs : keyOf[s] = k => phase[s] \notin Open
    /\ phase' = [phase EXCEPT ![r] = "running"]
    /\ keyOf' = [keyOf EXCEPT ![r] = k]
    /\ UNCHANGED <<taken, done>>

\* How far a call that ends so has brought the run: n steps.
Reaches(n, end) ==
    \/ end \in {"suspended", "failed"} /\ n < StepCount
    \/ end = "succeeded" /\ (Sequential => n = StepCount)

Call(r, input, n, end) ==
    /\ phase[r] \in Open
    /\ input # {} => phase[r] = "suspended"
    /\ done[r] \subseteq Upto(n) /\ Reaches(n, end)
    /\ phase' = [phase EXCEPT ![r] = end]
    /\ taken' = [taken EXCEPT ![r] = @ \cup input]
    /\ done' = [done EXCEPT ![r] = Upto(n)]
    /\ UNCHANGED keyOf

GiveUp(r) ==
    /\ phase[r] = "suspended"
    /\ phase' = [phase EXCEPT ![r] = "failed"]
    /\ UNCHANGED <<keyOf, taken, done>>

Forget(r) ==
    /\ phase[r] \in {"succeeded", "failed"}
    /\ phase' = [phase EXCEPT ![r] = "deleted"]
    /\ UNCHANGED <<keyOf, taken, done>>

Next ==
    \E r \in Runs :
        \/ \E k \in Keys : Begin(r, k)
        \/ \E input \in {{}} \cup {{c} : c \in Callers}, n \in 0..StepCount,
              end \in {"suspended", "failed", "succeeded"} : Call(r, input, n, end)
        \/ GiveUp(r) \/ Forget(r)

Spec == Init /\ [][Next]_vars
=============================================================================
