---------------------------- MODULE PurchaseBook -----------------------------
(***************************************************************************)
(* What the ledger promises its clients, with no units of work, locks,     *)
(* versions read earlier or instalments: requests take effect one after    *)
(* another, each on one transaction as it stands at that moment, and the   *)
(* cards are billed what the live credit purchases cost, at every moment.  *)
(***************************************************************************)
EXTENDS Integers

CONSTANTS Ids, Inputs, Closing, NoEntry

VARIABLES
    entry,  \* the transactions
    billed  \* what all invoices together charge

vars == <<entry, billed>>

Init ==
    /\ entry = [i \in Ids |-> NoEntry]
    /\ billed = 0

Owed(e) == IF e.state = "live" /\ e.credit THEN e.cents ELSE 0

Becomes(i, e) ==
    /\ entry' = [entry EXCEPT ![i] = e]
    /\ billed' = billed - Owed(entry[i]) + Owed(e)

Create(i, in) ==
    /\ entry[i].state = "absent"
    /\ Becomes(i, [state |-> "live", ver |-> 1, credit |-> in.credit, card |-> in.card,
                   month |-> in.month, parts |-> in.parts, cents |-> in.cents,
                   closing |-> IF in.credit THEN Closing[in.card] ELSE 0])

\* The closing day stays the one of the creation, and credit stays credit.
Update(i, in) ==
    /\ entry[i].state = "live" /\ entry[i].credit = in.credit
    /\ Becomes(i, [entry[i] EXCEPT !.ver = @ + 1, !.card = in.card, !.month = in.month,
                                   !.parts = in.parts, !.cents = in.cents])

Delete(i) ==
    /\ entry[i].state = "live"
    /\ Becomes(i, [entry[i] EXCEPT !.state = "deleted", !.ver = @ + 1])

Next == \E i \in Ids : Delete(i) \/ \E in \in Inputs : Create(i, in) \/ Update(i, in)

Spec == Init /\ [][Next]_vars
=============================================================================
