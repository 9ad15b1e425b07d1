----------------------------- MODULE MCBilling ------------------------------
(* Small instances of Billing. *)
EXTENDS Billing, TLC

CONSTANTS o1, o2, u1, w1, w2

WorkerSymmetry == Permutations(Workers)

InPlace == [o \in Orders |-> IF o = o1 THEN 1 ELSE 2]
=============================================================================
