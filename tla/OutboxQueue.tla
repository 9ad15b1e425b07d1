---------------------------- MODULE OutboxQueue -----------------------------
(***************************************************************************)
(* What the outbox promises its producers and consumers, with no table,    *)
(* dispatcher, lock or clock: an event is queued once, is under delivery   *)
(* with no other event of its user, goes back to the queue with or without *)
(* a failure being counted, and ends delivered or, only after MaxFailures  *)
(* counted failures or for want of a handler, dead.                        *)
(***************************************************************************)
EXTENDS Naturals

CONSTANTS Events, UserOf, NoUser, Routable, MaxFailures

VARIABLES phase, failures

vars == <<phase, failures>>

Init ==
    /\ phase = [e \in Events |-> "absent"]
    /\ failures = [e \in Events |-> 0]

Move(S, to) == phase' = [e \in Events |-> IF e \in S THEN to ELSE phase[e]]

Enqueue(e) ==
    /\ phase[e] = "absent"
    /\ Move({e}, "queued")
    /\ UNCHANGED failures

Begin(S) ==
    /\ \A e \in S : phase[e] = "queued"
    /\ \A e \in S, f \in Events :
        f # e /\ UserOf[e] = UserOf[f] /\ UserOf[e] # NoUser => phase[f] # "delivering" /\ f \notin S
    /\ Move(S, "delivering")
    /\ UNCHANGED failures

GiveBack(S) ==
    /\ \A e \in S : phase[e] = "delivering"
    /\ Move(S, "queued")
    /\ UNCHANGED failures

Deliver(e) ==
    /\ phase[e] = "delivering" /\ e \in Routable
    /\ Move({e}, "delivered")
    /\ UNCHANGED failures

Fail(e) ==
    /\ phase[e] = "delivering"
    /\ failures' = [failures EXCEPT ![e] = @ + 1]
    /\ Move({e}, IF failures[e] + 1 = MaxFailures \/ e \notin Routable THEN "dead" ELSE "queued")

Purge(S) ==
    /\ \A e \in S : phase[e] = "delivered"
    /\ Move(S, "gone")
    /\ UNCHANGED failures

Next ==
    \/ \E e \in Events : Enqueue(e) \/ Deliver(e) \/ Fail(e)
    \/ \E S \in SUBSET Events : Begin(S) \/ GiveBack(S) \/ Purge(S)

Spec == Init /\ [][Next]_vars
=============================================================================
