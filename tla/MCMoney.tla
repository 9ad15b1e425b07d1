------------------------------ MODULE MCMoney ------------------------------
(***************************************************************************)
(* Small instances of the modules of internal/transactions,                *)
(* internal/budgets and internal/onboarding and of the conversation of     *)
(* internal/agents, checked side by side: they share no state, so each     *)
(* behaviour is one of one part while the others rest.                     *)
(***************************************************************************)
EXTENDS Ledger, Recurring, Budgets, Expenses, ThresholdAlerts, Conversation, Activation, TLC

CONSTANTS a, b, t1, t2, r1, r2, h1, h2, c1, c2, n1, n2, k1, k2, f1, f2, e1, m1, m2

\* Card a closes on day 1 and card b on day 2.
MCClosing == [c \in Cards |-> IF c = a THEN 1 ELSE 2]

Credit(card, month, day, parts, cents) ==
    [credit |-> TRUE, card |-> card, month |-> month, day |-> day,
     parts |-> parts, cents |-> cents]
Cash(month) ==
    [credit |-> FALSE, card |-> NoCard, month |-> month, day |-> 1, parts |-> 1, cents |-> 1]

\* Two instalments after the closing day, the other card, too few cents, cash.
MCInputs == {Credit(a, 1, 2, 2, 3), Credit(b, 1, 2, 1, 2), Credit(a, 1, 1, 2, 1), Cash(2)}

\* A second transaction is changed once after its creation, the first twice.
MCMaxTxVersion == [i \in Ids |-> IF i = t1 THEN 2 ELSE 1]

\* A month of two days between months of a single one.
MCMonthDays == <<1, 2, 1>>

Even(v, w, x, y, z) == [s \in Slugs |-> <<v, w, x, y, z>>[Rank(s)]]
\* All five categories, two of them only, and one of two named twice.
Named(last, repeated) == [last |-> last, repeated |-> repeated]
Two(v, w) == "custo_fixo" :> v @@ "metas" :> w
MCSplits == {Named(Even(0, 2500, 2500, 2500, 2500), NoAllocations),
             Named(Two(3333, 6667), NoAllocations),
             Named(Two(3333, 5000), "metas" :> 1667)}

\* The buyer of both sales is the first number; one sale names no e-mail.
MCBuyerPhone == [t \in Tokens |-> f1]
MCBuyerMail == [t \in Tokens |-> IF t = k1 THEN e1 ELSE NoMail]

MoneyParts == {"ledger", "recurring", "budgets", "expenses", "alerts", "conversation", "activation"}
\* What the user of the thread says; one conversation when another part moves.
MCConversations ==
    {<<"create", "yes", "yes">>, <<"edit", "yes", "yes">>, <<"delete", "yes", "edit">>,
     <<"recur", "yes", "yes">>, <<"recur", "detail">>, <<"create", "no">>, <<"edit", "create">>,
     <<"create and delete", "yes">>}
AnyConversation == <<"create", "no">>

VARIABLE part
moneyVars == <<part, ledgerVars, recurringVars, budgetsVars, expensesVars, alertsVars,
               conversationVars, activationVars>>

MoneyInit == /\ part \in MoneyParts
             /\ LedgerInit /\ RecurringInit /\ BudgetsInit /\ ExpensesInit /\ AlertsInit
             /\ ActivationInit /\ ConversationInit
             /\ (part # "conversation" => script = AnyConversation)

LedgerMoves == /\ part = "ledger" /\ LedgerNext
               /\ UNCHANGED <<part, recurringVars, budgetsVars, expensesVars, alertsVars,
                              conversationVars, activationVars>>
RecurringMoves == /\ part = "recurring" /\ RecurringNext
                  /\ UNCHANGED <<part, ledgerVars, budgetsVars, expensesVars, alertsVars,
                                 conversationVars, activationVars>>
BudgetsMove == /\ part = "budgets" /\ BudgetsNext
               /\ UNCHANGED <<part, ledgerVars, recurringVars, expensesVars, alertsVars,
                               conversationVars, activationVars>>
ExpensesMove == /\ part = "expenses" /\ ExpensesNext
                /\ UNCHANGED <<part, ledgerVars, recurringVars, budgetsVars, alertsVars,
                                conversationVars, activationVars>>
AlertsMove == /\ part = "alerts" /\ AlertsNext
              /\ UNCHANGED <<part, ledgerVars, recurringVars, budgetsVars, expensesVars,
                              conversationVars, activationVars>>
ThreadMoves == /\ part = "conversation" /\ ConversationNext
               /\ UNCHANGED <<part, ledgerVars, recurringVars, budgetsVars, expensesVars,
                              alertsVars, activationVars>>
ActivationMoves == /\ part = "activation" /\ ActivationNext
                   /\ UNCHANGED <<part, ledgerVars, recurringVars, budgetsVars, expensesVars,
                                  alertsVars, conversationVars>>


MoneyNext == \/ LedgerMoves \/ RecurringMoves \/ BudgetsMove
             \/ ExpensesMove \/ AlertsMove \/ ThreadMoves \/ ActivationMoves
MoneySpec == MoneyInit /\ [][MoneyNext]_moneyVars

\* Requests are interchangeable, and so are messages.
MoneySymmetry == Permutations(Requests) \cup Permutations(Attempts)
=============================================================================
