--------------------------- MODULE OnboardingFlow ---------------------------
(***************************************************************************)
(* The first conversation of a user (onboarding_workflow.go): name, goal,  *)
(* monthly budget, its division and confirmation, activation, recurrence,  *)
(* cards, conclusion.  It is a durable run of internal/platform/workflow   *)
(* that suspends with a question; a message resumes it, executes the steps *)
(* up to the next question and saves.  What the steps write (budgets,      *)
(* cards, the working memory) is committed call by call, before the save.  *)
(*                                                                         *)
(* The outbox hands out one message of a user at a time.  A message whose  *)
(* handling fails comes again and is read like another one, so messages    *)
(* have no identity here; what a text means is the model's answer, any.    *)
(* Amounts and percentages a user writes are in thousandths.               *)
(***************************************************************************)
EXTENDS Integers, Sequences, FiniteSets, Functions

CONSTANTS
    MonthlyBudgets,   \* cents
    DefaultShares,    \* defaultDistributionBP, in the order of canonicalSlugs
    Divisions,        \* what a user may write: [unit, values]
    CardNames,        \* nicknames
    LastWelcomeMonth, \* bound on months
    MaxSetbacks       \* bound on failed calls, crashes and reaped runs

WelcomeMonths == 1..LastWelcomeMonth
NoShares == <<>>
NoPlan == [state |-> "none", total |-> 0, shares |-> NoShares]
Total(values) == SumFunction(values)
Distance(x, y) == IF x > y THEN x - y ELSE y - x

ASSUME OnboardingAssumption ==
    /\ MonthlyBudgets \subseteq Nat \ {0}
    /\ DefaultShares \in Seq(Nat) /\ Total(DefaultShares) = 10000
    /\ \A d \in Divisions :
          /\ d.unit \in {"percent", "reais", "confirm"}
          /\ d.values \in Seq(Int) /\ Len(d.values) = Len(DefaultShares)
    /\ LastWelcomeMonth \in Nat \ {0} /\ MaxSetbacks \in Nat

VARIABLES
    flow,       \* the active run: status, the question it waits with, its state
    turn,       \* the handler: the call it is at, and the state it carries
    plan,       \* the user's budgets
    wallet,     \* nicknames of the user's cards
    onboarded,  \* the working memory has its section of the goal
    thisMonth,  \* of time.Now in America/Sao_Paulo
    applied,    \* history: months of the last division applied and the last
                \* activation, and what the division found
    setbacks

onboardingVars == <<flow, turn, plan, wallet, onboarded, thisMonth, applied, setbacks>>

NoFlow == [status |-> "none", asks |-> "name", total |-> 0, shares |-> NoShares]
NoTurn == [pc |-> "idle", asks |-> "name", ends |-> "suspended", total |-> 0,
           shares |-> NoShares, month |-> 1, card |-> ""]

OnboardingInit ==
    /\ flow = NoFlow /\ turn = NoTurn
    /\ plan = [m \in WelcomeMonths |-> NoPlan] /\ wallet = {}
    /\ onboarded = FALSE /\ thisMonth = 1 /\ setbacks = 0
    /\ applied = [month |-> 1, found |-> "none", activated |-> 1]

-----------------------------------------------------------------------------
\* The unit of what a user wrote: the sums speak louder than the model's word.
DecideAllocationKind(d, total) ==
    LET sum == Total(d.values)
    IN  IF sum <= 0 THEN "confirm"
        ELSE IF Distance(sum, total * 10) <= 500 THEN "reais"
        ELSE IF Distance(sum, 100000) <= 500 THEN "percent"
        ELSE d.unit

ReaisTolerance == 5
DecideDistributionBalance(kind, values, total) ==
    IF kind = "reais" THEN Distance((Total(values) + 5) \div 10, total) <= ReaisTolerance
                      ELSE Distance(Total(values), 100000) <= 500

\* Largest remainders, the first category first.
centsToBasisPoints(units) ==
    LET share == [i \in DOMAIN units |-> (units[i] * 10000) \div Total(units)]
        over == [i \in DOMAIN units |-> (units[i] * 10000) % Total(units)]
        ahead == [i \in DOMAIN units |->
                     {j \in DOMAIN units : over[j] > over[i] \/ (over[j] = over[i] /\ j < i)}]
    IN  [i \in DOMAIN units |-> IF Cardinality(ahead[i]) < 10000 - Total(share)
                                THEN share[i] + 1 ELSE share[i]]

AsUnits(kind, values) ==
    IF kind = "reais" THEN [i \in DOMAIN values |-> (values[i] + 5) \div 10] ELSE values
AsShares(kind, values) == centsToBasisPoints(AsUnits(kind, values))

\* Values of less than a cent each may add up to the budget and round to nothing.
Acceptable(d, total) ==
    LET kind == DecideAllocationKind(d, total)
    IN  /\ DecideDistributionBalance(kind, d.values, total)
        /\ \A i \in DOMAIN d.values : d.values[i] >= 0
        /\ Total(AsUnits(kind, d.values)) > 0

-----------------------------------------------------------------------------
stores == <<plan, wallet, onboarded, thisMonth, applied, setbacks>>

\* A message resumes the run it finds; the state read goes with the handler.
ResumeOnboarding ==
    IF turn.pc # "idle" THEN turn
    ELSE [NoTurn EXCEPT !.asks = flow.asks, !.total = flow.total, !.shares = flow.shares]

\* The step suspends with a question, or another call comes first.
AskWith(question, t) == turn' = [t EXCEPT !.pc = "save", !.asks = question]
AskNext(question) == AskWith(question, ResumeOnboarding)
Proceed(call) == turn' = [ResumeOnboarding EXCEPT !.pc = call]
FailStep == turn' = [ResumeOnboarding EXCEPT !.pc = "save", !.ends = "failed"]

\* A message, or the welcome event, of a user without run: the run is inserted
\* running, and saved when its first step suspends.
StartOnboarding ==
    /\ turn.pc = "idle" /\ flow.status = "none" /\ ~onboarded
    /\ flow' = [NoFlow EXCEPT !.status = "running"]
    /\ turn' = [NoTurn EXCEPT !.pc = "save"]
    /\ UNCHANGED stores

Answers(question) ==
    /\ turn.pc = "idle" /\ flow.status = "suspended" /\ flow.asks = question
    /\ UNCHANGED <<flow, stores>>

WelcomeStep == Answers("name") /\ AskNext("goal")
GoalStep ==
    \/ Answers("goal") /\ \E q \in {"goal", "goal value", "monthly budget"} : AskNext(q)
    \/ Answers("goal value") /\ AskNext("monthly budget")
MonthlyBudgetStep ==
    /\ Answers("monthly budget")
    /\ \/ AskNext("monthly budget")
       \/ \E c \in MonthlyBudgets : AskWith("distribution", [ResumeOnboarding EXCEPT !.total = c])

ApplyShares(shares) == turn' = [ResumeOnboarding EXCEPT !.pc = "summary", !.shares = shares]

\* Values that do not add up are asked for again.
activateAllocationValues(d) ==
    IF Acceptable(d, flow.total)
    THEN ApplyShares(AsShares(DecideAllocationKind(d, flow.total), d.values))
    ELSE AskNext(flow.asks)

BudgetReviewStep ==
    \/ /\ Answers("distribution")
       /\ \/ \E q \in {"distribution", "personalize"} : AskNext(q)
          \/ ApplyShares(DefaultShares)
          \/ \E d \in Divisions : activateAllocationValues(d)
    \/ /\ Answers("personalize")
       /\ AskNext("personalize") \/ \E d \in Divisions : activateAllocationValues(d)
    \/ Answers("confirm") /\ (AskNext("distribution") \/ Proceed("activate"))

\* applyDraftBudget: every call is a unit of work of its own.
AsDraft == [state |-> "draft", total |-> turn.total, shares |-> turn.shares]

\* Mutant: a draft is left alone like an active budget.
AnyBudget(row) == row.state # "none"

Untouched(row) == row.state = "active"
ReadSummary ==
    /\ turn.pc = "summary"
    /\ applied' = [applied EXCEPT !.month = thisMonth, !.found = plan[thisMonth].state]
    /\ IF Untouched(plan[thisMonth]) THEN AskNext("confirm")
       ELSE turn' = [turn EXCEPT !.month = thisMonth,
                        !.pc = IF plan[thisMonth].state = "none" THEN "create" ELSE "delete"]
    /\ UNCHANGED <<flow, plan, wallet, onboarded, thisMonth, setbacks>>
DeleteDraftBudget ==
    /\ turn.pc = "delete" /\ plan[turn.month].state = "draft"
    /\ plan' = [plan EXCEPT ![turn.month] = NoPlan] /\ Proceed("create")
    /\ UNCHANGED <<flow, wallet, onboarded, thisMonth, applied, setbacks>>
CreateBudgetOfMonth ==
    /\ turn.pc = "create" /\ plan[turn.month].state = "none"
    /\ plan' = [plan EXCEPT ![turn.month] = AsDraft]
    /\ AskWith("confirm", [turn EXCEPT !.month = 1])
    /\ UNCHANGED <<flow, wallet, onboarded, thisMonth, applied, setbacks>>

ActivationStep ==
    /\ turn.pc = "activate"
    /\ IF plan[thisMonth].state = "none" THEN FailStep /\ UNCHANGED <<plan, applied>>
       ELSE /\ plan' = [plan EXCEPT ![thisMonth].state = "active"]
            /\ applied' = [applied EXCEPT !.activated = thisMonth]
            /\ AskNext("recurrence")
    /\ UNCHANGED <<flow, wallet, onboarded, thisMonth, setbacks>>

\* Each month is a unit of work; what one of them returns nobody looks at.
RecurrenceStep ==
    \/ /\ Answers("recurrence")
       /\ (\E q \in {"recurrence", "cards"} : AskNext(q)) \/ Proceed("repeat")
    \/ /\ turn.pc = "repeat"
       /\ IF plan[thisMonth].state = "none" THEN FailStep /\ UNCHANGED plan
          ELSE /\ \E written \in SUBSET {m \in WelcomeMonths : m > thisMonth /\ plan[m].state # "active"} :
                     plan' = [m \in WelcomeMonths |->
                                 IF m \in written THEN [plan[thisMonth] EXCEPT !.state = "draft"] ELSE plan[m]]
               /\ AskNext("cards")
       /\ UNCHANGED <<flow, wallet, onboarded, thisMonth, applied, setbacks>>

\* A nickname is unique: the card of a lost save makes its answer fail the run.
CardsStep ==
    \/ Answers("cards") /\ (AskNext("cards") \/ Proceed("conclude"))
    \/ /\ Answers("cards")
       /\ \E n \in CardNames : turn' = [ResumeOnboarding EXCEPT !.pc = "card", !.card = n]
    \/ /\ turn.pc = "card"
       /\ IF turn.card \in wallet THEN FailStep
          ELSE AskWith("cards", [turn EXCEPT !.card = ""])
       /\ wallet' = wallet \cup {turn.card}
       /\ UNCHANGED <<flow, plan, onboarded, thisMonth, applied, setbacks>>

ConclusionStep ==
    /\ turn.pc = "conclude" /\ onboarded' = TRUE
    /\ turn' = [turn EXCEPT !.pc = "summarise"]
    /\ UNCHANGED <<flow, plan, wallet, thisMonth, applied, setbacks>>
SummariseOnboarding ==
    /\ turn.pc = "summarise" /\ turn' = [turn EXCEPT !.pc = "save", !.ends = "succeeded"]
    /\ UNCHANGED <<flow, stores>>

\* A run the reaper ended meanwhile has another version: the save is refused.
SaveOnboarding ==
    /\ turn.pc = "save" /\ turn' = NoTurn
    /\ flow' = IF flow.status = "none" \/ turn.ends # "suspended" THEN NoFlow
               ELSE [status |-> "suspended", asks |-> turn.asks,
                     total |-> turn.total, shares |-> turn.shares]
    /\ UNCHANGED stores

-----------------------------------------------------------------------------
Setback == setbacks < MaxSetbacks /\ setbacks' = setbacks + 1

\* The model or a call fails; only the name can do without.
OnboardingCallFails ==
    /\ \/ turn.pc \notin {"idle", "save"}
       \/ turn.pc = "idle" /\ flow.status = "suspended" /\ flow.asks # "name"
    /\ Setback /\ FailStep /\ UNCHANGED <<flow, plan, wallet, onboarded, thisMonth, applied>>

\* A crash, the deadline of a message, a failed save.
OnboardingInterrupted ==
    /\ turn.pc # "idle" /\ Setback /\ turn' = NoTurn
    /\ UNCHANGED <<flow, plan, wallet, onboarded, thisMonth, applied>>

ReapStaleOnboarding ==
    /\ flow.status = "suspended" /\ flow' = NoFlow
    /\ UNCHANGED <<turn, stores>>

MonthTurns ==
    /\ thisMonth < LastWelcomeMonth /\ thisMonth' = thisMonth + 1
    /\ UNCHANGED <<flow, turn, plan, wallet, onboarded, applied, setbacks>>

OnboardingNext ==
    \/ StartOnboarding \/ SaveOnboarding
    \/ WelcomeStep \/ GoalStep \/ MonthlyBudgetStep \/ BudgetReviewStep
    \/ ReadSummary \/ DeleteDraftBudget \/ CreateBudgetOfMonth
    \/ ActivationStep \/ RecurrenceStep \/ CardsStep \/ ConclusionStep \/ SummariseOnboarding
    \/ OnboardingCallFails \/ OnboardingInterrupted \/ ReapStaleOnboarding \/ MonthTurns

OnboardingSpec == OnboardingInit /\ [][OnboardingNext]_onboardingVars

-----------------------------------------------------------------------------
\* Nobody reaches the agent without an active budget, and it is divided as
\* confirmed, whatever drafts, refusals, restarts and lost saves came before:
\* unless the month had an active budget when the division was applied, which
\* then stays, or turned before the budget was activated.
OnboardedHasPlan ==
    [][~onboarded /\ onboarded' =>
          LET active == plan[applied.activated]
          IN  /\ active.state = "active" /\ Total(active.shares) = 10000
              /\ \/ active.total = turn.total /\ active.shares = turn.shares
                 \/ applied.found = "active" \/ applied.activated # applied.month]_onboardingVars
=============================================================================
