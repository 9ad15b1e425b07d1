------------------------------ MODULE MCLedger ------------------------------
(* Small instances of Ledger. *)
EXTENDS Ledger, TLC

CONSTANTS a, b, t1, t2, r1, r2

\* Card a closes on day 1 and card b on day 2.
MCClosing == [c \in Cards |-> IF c = a THEN 1 ELSE 2]

Credit(card, month, day, parts, cents) ==
    [credit |-> TRUE, card |-> card, month |-> month, day |-> day,
     parts |-> parts, cents |-> cents]
Cash(month) ==
    [credit |-> FALSE, card |-> NoCard, month |-> month, day |-> 1, parts |-> 1, cents |-> 1]

\* Two instalments, one after the closing day, the other card, too few cents.
MCInputs == {Credit(a, 1, 1, 2, 3), Credit(a, 2, 2, 1, 2), Credit(b, 1, 2, 1, 2),
             Credit(a, 1, 1, 2, 1), Cash(2)}

\* A second transaction is changed once after its creation, the first twice.
MCMaxTxVersion == [i \in Ids |-> IF i = t1 THEN 2 ELSE 1]

RequestSymmetry == Permutations(Requests)
=============================================================================
