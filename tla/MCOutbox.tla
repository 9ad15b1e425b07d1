------------------------------ MODULE MCOutbox ------------------------------
(* Small instances of Outbox. *)
EXTENDS Outbox, TLC

CONSTANTS e1, e2, e3, u1, none, d1, d2

\* e1 and e2 belong to one user, in this order; e3 has no user.
MCUserOf == [e \in Events |-> IF e = e3 THEN none ELSE u1]
MCRank == [e \in Events |-> CASE e = e1 -> 1 [] e = e2 -> 2 [] OTHER -> 3]
\* Two consumers for e1, one for e2, nobody for e3.
MCHandlerCount == [e \in Events |-> CASE e = e1 -> 2 [] e = e2 -> 1 [] OTHER -> 0]

DispatcherSymmetry == Permutations(Dispatchers)
=============================================================================
