------------------------------ MODULE MCService ------------------------------
(***************************************************************************)
(* The outbox, the first conversation of a user whose messages it hands    *)
(* out, the monthly summaries, the requests and the reminders of cards,    *)
(* checked side by side: they share no state, so each behaviour is one of  *)
(* one part while the others rest.                                         *)
(***************************************************************************)
EXTENDS MCOutbox, OnboardingFlow, MonthlySummary, CardRequests, InvoiceAlerts

\* Accepted in reais, one cent over; accepted in percent, a tenth over; too much.
MCDefaultShares == <<4000, 1000, 1000, 1000, 3000>>
MCDivisions == {[unit |-> "reais", values |-> <<66670, 66670, 66670, 0, 0>>],
                [unit |-> "percent", values |-> <<40000, 25000, 25100, 10000, 0>>],
                [unit |-> "percent", values |-> <<50000, 50000, 20000, 0, 0>>]}

\* A key sent again with the same body, with another one, and for another
\* operation; nicknames that collide, one too long, and updates of one field.
Call(op, key, id, nick, due) == [op |-> op, key |-> key, card |-> id, nick |-> nick, due |-> due]
MCCalls ==
    {Call("create", "a", 1, "nu", 5), Call("create", "a", 1, "it", 5),
     Call("create", "b", 1, "nu", 5), Call("update", "b", 1, "it", NoDay),
     Call("update", "c", 1, TooLong, NoDay), Call("update", "c", 2, Unset, 6),
     Call("delete", "c", 1, Unset, NoDay)}

\* Due days at the beginning and at the end of a month; a month ends in between.
MCMonthLengths == <<3, 3, 5>>

CONSTANTS m1, p1, p2, s1, s2   \* model values

VARIABLE part

ServiceInit ==
    /\ part \in {"outbox", "onboarding", "summary", "requests", "reminders"}
    /\ Init /\ OnboardingInit /\ SummaryInit /\ RequestsInit /\ InvoiceInit
OutboxMoves ==
    part = "outbox" /\ Next
    /\ UNCHANGED <<part, onboardingVars, summaryVars, requestsVars, invoiceVars>>
OnboardingMoves ==
    part = "onboarding" /\ OnboardingNext
    /\ UNCHANGED <<part, vars, summaryVars, requestsVars, invoiceVars>>
SummaryMoves ==
    part = "summary" /\ SummaryNext
    /\ UNCHANGED <<part, vars, onboardingVars, requestsVars, invoiceVars>>
RequestsMove ==
    part = "requests" /\ RequestsNext
    /\ UNCHANGED <<part, vars, onboardingVars, summaryVars, invoiceVars>>
RemindersMove ==
    part = "reminders" /\ InvoiceNext
    /\ UNCHANGED <<part, vars, onboardingVars, summaryVars, requestsVars>>
ServiceSpec ==
    /\ ServiceInit
    /\ [][OutboxMoves \/ OnboardingMoves \/ SummaryMoves \/ RequestsMove \/ RemindersMove]_<<
            part, vars, onboardingVars, summaryVars, requestsVars, invoiceVars>>
    /\ part = "summary" => SummaryFairness
=============================================================================
