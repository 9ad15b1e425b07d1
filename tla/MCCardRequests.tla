---------------------------- MODULE MCCardRequests ----------------------------
(* Clients that repeat the creation of a transaction. *)
EXTENDS CardRequests

CONSTANT s1

MCCalls ==
    {[op |-> "post transaction", key |-> "t", card |-> 1, nick |-> "nu", due |-> 5],
     [op |-> "post transaction", key |-> "u", card |-> 1, nick |-> "nu", due |-> 5]}
=============================================================================
