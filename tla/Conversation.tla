---------------------------- MODULE Conversation ----------------------------
(***************************************************************************)
(* One user's WhatsApp thread in internal/agents: the webhook stores a     *)
(* message as an outbox event, the inbound consumer dedups it and either   *)
(* resumes the suspended confirmation of the thread or runs the agent,     *)
(* whose tools start the transaction-write and destructive-manage          *)
(* workflows; a confirmed write passes the write ledger. Events of one     *)
(* user are handled one at a time and in order (module Outbox), runs are   *)
(* rows of workflow_runs saved by compare and swap (module Workflow).      *)
(*                                                                         *)
(* A message is its number: it is also its WAMID, its event and, for an    *)
(* order, the origin of what the order writes. Texts are kept as what the  *)
(* parsers and the language model (external) make of them. The thread has  *)
(* one entry that edits and deletions are about.                           *)
(***************************************************************************)
EXTENDS Integers, FiniteSets, Sequences

CONSTANTS
    Scripts,        \* the conversations: sequences of Texts
    MaxAttempts,    \* outbox attempts of an event
    MaxEntryEdits,  \* bound on changes of the entry outside the thread
    MaxFaults       \* bound on crashes, timeouts and failed calls

Orders == {"create", "recur", "edit", "delete", "create and delete"}
Texts == Orders \cup {"detail", "yes", "no", "chat"}
Workflows == {"write", "destructive"}

ASSUME ConversationAssumption ==
    /\ Scripts \subseteq Seq(Texts)
    /\ MaxAttempts \in Nat \ {0} /\ MaxEntryEdits \in Nat /\ MaxFaults \in Nat

VARIABLES
    script,    \* what the user will say
    inbox,    \* outbox row of every message that reached the webhook
    attempts,  \* failed attempts of every event
    dedup,     \* messages in the consumer's dedup table
    run,       \* latest workflow_runs row and state of each workflow
    entry,     \* the entry: its version, and whether it is deleted
    writes,    \* how often the order of a message took effect
    writeLedger,      \* messages with a row in the write ledger
    handler,   \* the goroutine that handles an event
    told,      \* history: outcomes of orders reported to the user
    asked,     \* history: the confirmation question the user was shown last
    unheard,   \* history: confirmation questions saved, whose prompt never arrived
    answered,  \* history: messages that got a reply
    excused,   \* history: messages hit by a crash, a timeout, WhatsApp or a failed dedup
    faults

conversationVars == <<script, inbox, attempts, dedup, run, entry, writes, writeLedger, handler,
                      told, asked, unheard, answered, excused, faults>>
questions == <<asked, unheard>>
history == <<told, questions, answered, excused>>

Messages == 1..Len(script)
Arrived == DOMAIN inbox
NoOrder == 0

\* reprompted and confirmReprompted are the two counters of repeated questions.
NoRun == [status |-> "none", op |-> "create", order |-> NoOrder, awaiting |-> "confirmation",
          reprompted |-> FALSE, confirmReprompted |-> FALSE, processed |-> NoOrder,
          target |-> 0, old |-> FALSE]
Nothing == [what |-> "other", order |-> NoOrder]
Idle == [pc |-> "idle", msg |-> NoOrder, flow |-> "write", snap |-> NoRun, tools |-> <<>>,
         says |-> Nothing, after |-> "reply", tries |-> 1, inTime |-> TRUE]

ConversationInit ==
    /\ script \in Scripts
    /\ inbox = <<>> /\ attempts = <<>>
    /\ dedup = {} /\ writeLedger = {}
    /\ run = [w \in Workflows |-> NoRun]
    /\ entry = [version |-> 1, deleted |-> FALSE]
    /\ writes = [m \in Messages |-> 0]
    /\ handler = Idle
    /\ told = {} /\ asked = Nothing /\ unheard = {} /\ answered = {} /\ excused = {}
    /\ faults = 0

Mishap == faults < MaxFaults /\ faults' = faults + 1

(***************************************************************************)
(* The webhook. Its dedup row commits before the message is published:     *)
(* when the rest of the route fails, Meta's redelivery is a duplicate.     *)
(***************************************************************************)
RouteMessage ==
    /\ Len(inbox) < Len(script)
    /\ \/ /\ inbox' = Append(inbox, "pending")
          /\ UNCHANGED faults
       \/ /\ Mishap
          /\ inbox' = Append(inbox, "lost")
    /\ attempts' = Append(attempts, 0)
    /\ UNCHANGED <<script, dedup, run, entry, writes, writeLedger, handler, history>>

(***************************************************************************)
(* The outbox around the consumer: the oldest open event of the user is    *)
(* handled, and ends published, pending again or dead.                     *)
(***************************************************************************)
Open == {m \in Arrived : inbox[m] \in {"pending", "taken"}}

TakeEvent ==
    /\ handler.pc = "idle"
    /\ \E m \in Open :
        /\ \A n \in Open : m <= n
        /\ inbox' = [inbox EXCEPT ![m] = "taken"]
        /\ handler' = [Idle EXCEPT !.pc = "dedup", !.msg = m]
    /\ UNCHANGED <<script, attempts, dedup, run, entry, writes, writeLedger, history, faults>>

Published == inbox' = [inbox EXCEPT ![handler.msg] = "published"] /\ UNCHANGED attempts

Failed ==
    /\ attempts' = [attempts EXCEPT ![handler.msg] = @ + 1]
    /\ inbox' = [inbox EXCEPT ![handler.msg] =
                    IF attempts[handler.msg] + 1 < MaxAttempts THEN "pending" ELSE "dead"]

Continue(label) == handler' = [handler EXCEPT !.pc = label]
Say(what, order) == [what |-> what, order |-> order]
ReplyWith(says) == handler' = [handler EXCEPT !.pc = "reply", !.says = says]

\* The consumer's own dedup row is a statement of its own.
DedupEvent ==
    /\ handler.pc = "dedup"
    /\ \/ /\ handler.msg \in dedup
          /\ Published
          /\ handler' = Idle
          /\ UNCHANGED dedup
       \/ /\ handler.msg \notin dedup
          /\ dedup' = dedup \cup {handler.msg}
          /\ Continue("resolve")
          /\ UNCHANGED <<inbox, attempts>>
    /\ UNCHANGED <<script, run, entry, writes, writeLedger, history, faults>>

\* The insert fails, or commits and its answer is lost: then the row stays and
\* the next attempt is a duplicate.
DedupFails ==
    /\ handler.pc = "dedup"
    /\ Mishap
    /\ \/ UNCHANGED <<dedup, excused>>
       \/ /\ handler.msg \notin dedup
          /\ dedup' = dedup \cup {handler.msg}
          /\ excused' = excused \cup {handler.msg}
    /\ Failed
    /\ handler' = Idle
    /\ UNCHANGED <<script, run, entry, writes, writeLedger, told, questions, answered>>

\* Mutant: a failed handler leaves its dedup row.
KeepDedup(released) == dedup' = IF released THEN dedup ELSE dedup

\* compensateDedup deletes the row with the context of the failed handler: when
\* that has expired the row stays and the next attempt is a duplicate.
Dedup(released) == dedup' = IF released THEN dedup \ {handler.msg} ELSE dedup

CompensateDedup ==
    /\ handler.pc = "compensate"
    /\ Dedup(handler.inTime)
    /\ Failed
    /\ handler' = Idle
    /\ UNCHANGED <<script, run, entry, writes, writeLedger, history, faults>>

\* The delete itself fails: the handler returns both errors, the row stays.
CompensationFails ==
    /\ handler.pc = "compensate" /\ handler.inTime
    /\ Mishap
    /\ excused' = excused \cup {handler.msg}
    /\ Failed
    /\ handler' = Idle
    /\ UNCHANGED <<script, dedup, run, entry, writes, writeLedger, told, questions, answered>>

(***************************************************************************)
(* ResumeDispatcher.Continue: which run is suspended, then Engine.Resume,  *)
(* which loads the run again and executes its step.                        *)
(***************************************************************************)
Suspended == {w \in Workflows : run[w].status = "suspended"}

\* Mutant: the first suspended run is resumed, whatever others there are.
ResolveFirstRun ==
    /\ handler.pc = "resolve"
    /\ \/ Suspended = {} /\ Continue("agent")
       \/ \E w \in Suspended : handler' = [handler EXCEPT !.pc = "resume", !.flow = w]
    /\ UNCHANGED <<script, inbox, attempts, dedup, run, entry, writes, writeLedger, history, faults>>

ResolveSuspendedRun ==
    /\ handler.pc = "resolve"
    /\ \/ Suspended = {} /\ Continue("agent")
       \/ \E w \in Suspended :
            /\ Suspended = {w}
            /\ handler' = [handler EXCEPT !.pc = "resume", !.flow = w]
       \/ Cardinality(Suspended) > 1 /\ Continue("compensate")
    /\ UNCHANGED <<script, inbox, attempts, dedup, run, entry, writes, writeLedger, history, faults>>

Suspend(r) == [r EXCEPT !.status = "suspended", !.old = FALSE]
End(r) == [r EXCEPT !.status = "succeeded"]

\* What a step decides: the state to save, and what the user is told of it.
\* The action "write" executes the order, "agent" hands the message on.
Decision(action, r, says) == [action |-> action, run |-> r, says |-> says]
Cancel(r) == Decision("save", End(r), Say("cancelled", r.order))
ExpireRun(r) == Decision("save", End(r), Nothing)
HandOn(r) == Decision("agent", End(r), Nothing)
Ask(r) == Decision("save", Suspend(r), Nothing)

\* A filled slot brings up the question to confirm; a search finds nothing new.
DecideTransactionSlotResume(r, text) ==
    CASE r.old -> ExpireRun(r)
      [] text = "no" -> Cancel(r)
      [] text \in {"create", "recur", "create and delete"} -> HandOn(r)
      [] text = "detail" /\ r.awaiting = "slot" ->
            Decision("save", Suspend([r EXCEPT !.awaiting = "confirmation", !.reprompted = FALSE]),
                     Say("write", r.order))
      [] OTHER -> IF r.reprompted THEN Cancel(r) ELSE Ask([r EXCEPT !.reprompted = TRUE])

DecideTransactionConfirmation(r, text, m) ==
    CASE r.old -> ExpireRun(r)
      [] m = r.processed -> Ask(r)
      [] text = "yes" -> Decision("write", [r EXCEPT !.processed = m], Nothing)
      [] text = "no" -> Cancel(r)
      [] OTHER -> IF r.confirmReprompted THEN Cancel(r)
                  ELSE Ask([r EXCEPT !.confirmReprompted = TRUE, !.processed = m])

\* An expired destructive run hands the message on; asking again does not renew
\* the time a destructive run may wait.
DecideDestructiveManageConfirmation(r, text) ==
    CASE r.old -> HandOn(r)
      [] text = "yes" -> Decision("write", r, Nothing)
      [] text = "no" -> Cancel(r)
      [] OTHER -> IF r.reprompted THEN Cancel(r)
                  ELSE Decision("save", [r EXCEPT !.reprompted = TRUE], Nothing)

DecideResume(w, r, text, m) ==
    IF w = "destructive" THEN DecideDestructiveManageConfirmation(r, text)
    ELSE IF r.awaiting \in {"slot", "search"} THEN DecideTransactionSlotResume(r, text)
    ELSE DecideTransactionConfirmation(r, text, m)

\* The category of a new entry, or the new category of an edited one, is checked
\* against the catalogue before the write: it can be refused, sent back to the
\* category question, or not be read.
CategoryVerdicts(r) ==
    IF r.op # "delete"
    THEN {Decision("write", r, Nothing),
          Decision("save", End(r), Say("failed", r.order)),
          Decision("save", [r EXCEPT !.status = "failed"], Say("failed", r.order))}
         \cup (IF r.reprompted THEN {Cancel(r)}
               ELSE {Ask([r EXCEPT !.awaiting = "slot", !.reprompted = TRUE])})
    ELSE {Decision("write", r, Nothing)}

Follow(d) ==
    handler' = [handler EXCEPT !.snap = d.run, !.says = d.says,
                    !.pc = IF d.action # "write" THEN "save"
                           ELSE IF handler.flow = "write" THEN "find" ELSE "write",
                    !.after = IF d.action = "agent" THEN "agent" ELSE "reply"]

ResumeRun ==
    /\ handler.pc = "resume"
    /\ LET r == run[handler.flow]
           d == DecideResume(handler.flow, r, script[handler.msg], handler.msg)
       IN  \/ r.status # "suspended" /\ Continue("agent")
           \/ /\ r.status = "suspended"
              /\ \E v \in (IF d.action = "write" THEN CategoryVerdicts(d.run) ELSE {d}) : Follow(v)
    /\ UNCHANGED <<script, inbox, attempts, dedup, run, entry, writes, writeLedger, history, faults>>

(***************************************************************************)
(* The write of a confirmed order. IdempotentWrite looks the order up in   *)
(* the write ledger, writes, and inserts the ledger row; deletions have no *)
(* ledger.                                                                 *)
(***************************************************************************)
Order == handler.snap.order
Succeed == handler' = [handler EXCEPT !.pc = "save", !.snap = End(@), !.says = Say("done", Order)]
StepFails == handler' = [handler EXCEPT !.pc = "save", !.snap.status = "failed",
                                        !.says = Say("failed", Order)]

\* Mutant: the ledger row is inserted before the write.
ReserveKey ==
    /\ handler.pc = "find"
    /\ IF Order \in writeLedger THEN Succeed ELSE Continue("write")
    /\ writeLedger' = writeLedger \cup {Order}
    /\ UNCHANGED <<script, inbox, attempts, dedup, run, entry, writes, history, faults>>

FindByKey ==
    /\ handler.pc = "find"
    /\ IF Order \in writeLedger THEN Succeed ELSE Continue("write")
    /\ UNCHANGED <<script, inbox, attempts, dedup, run, entry, writes, writeLedger, history, faults>>

SameTemplateExists == \E m \in Messages : script[m] = "recur" /\ writes[m] > 0
OnTarget == ~entry.deleted /\ entry.version = handler.snap.target
AfterWrite == IF handler.flow = "write" THEN Continue("insert") ELSE Succeed
TakesEffect == writes' = [writes EXCEPT ![Order] = @ + 1]

\* Mutant: entries have no unique origin.
WriteAnotherEntry ==
    /\ handler.snap.op = "create"
    /\ TakesEffect
    /\ AfterWrite
    /\ UNCHANGED entry

\* A second insert with the origin of an entry that exists finds that entry.
WriteCreate ==
    /\ handler.snap.op = "create"
    /\ \/ writes[Order] = 0 /\ TakesEffect
       \/ writes[Order] > 0 /\ UNCHANGED writes
    /\ AfterWrite
    /\ UNCHANGED entry

WriteRecurrence ==
    /\ handler.snap.op = "recur"
    /\ \/ ~SameTemplateExists /\ TakesEffect /\ AfterWrite
       \/ /\ SameTemplateExists
          /\ handler' = [handler EXCEPT !.pc = "save", !.snap = End(@),
                                        !.says = Say("duplicate", Order)]
          /\ UNCHANGED writes
    /\ UNCHANGED entry

WriteEdit ==
    /\ handler.snap.op = "edit"
    /\ \/ OnTarget /\ TakesEffect /\ AfterWrite /\ entry' = [entry EXCEPT !.version = @ + 1]
       \/ ~OnTarget /\ StepFails /\ UNCHANGED <<writes, entry>>

WriteDelete ==
    /\ handler.snap.op = "delete"
    /\ \/ OnTarget /\ TakesEffect /\ AfterWrite /\ entry' = [entry EXCEPT !.deleted = TRUE]
       \/ ~OnTarget /\ StepFails /\ UNCHANGED <<writes, entry>>

WriteOrder ==
    /\ handler.pc = "write"
    /\ WriteCreate \/ WriteRecurrence \/ WriteEdit \/ WriteDelete
    /\ UNCHANGED <<script, inbox, attempts, dedup, run, writeLedger, history, faults>>

InsertLedgerRow ==
    /\ handler.pc = "insert"
    /\ writeLedger' = writeLedger \cup {Order}
    /\ Succeed
    /\ UNCHANGED <<script, inbox, attempts, dedup, run, entry, writes, history, faults>>

\* A call of the write path fails. A transient failure of a ledgered write is
\* tried once more from the start.
WriteCallFails ==
    /\ handler.pc \in {"find", "write", "insert"}
    /\ Mishap
    /\ \/ StepFails
       \/ /\ handler.flow = "write" /\ handler.tries = 1
          /\ handler' = [handler EXCEPT !.pc = "find", !.tries = 2]
    /\ UNCHANGED <<script, inbox, attempts, dedup, run, entry, writes, writeLedger, history>>

(***************************************************************************)
(* Saving the step, and the errors of Engine.Resume: the write workflow    *)
(* turns them into a reply, the other one has no text and is retried.      *)
(***************************************************************************)
ResumeFails == IF handler.flow = "write" THEN ReplyWith(Say("failed", run[handler.flow].order))
               ELSE Continue("compensate")

SaveRun ==
    /\ handler.pc = "save"
    /\ \/ /\ run[handler.flow].status = "suspended"
          /\ run' = [run EXCEPT ![handler.flow] = handler.snap]
          /\ Continue(handler.after)
       \/ /\ run[handler.flow].status # "suspended"  \* the reaper was first
          /\ IF handler.flow = "write" THEN ResumeFails ELSE ReplyWith(Nothing)
          /\ UNCHANGED run
    /\ UNCHANGED <<script, inbox, attempts, dedup, entry, writes, writeLedger, history, faults>>

CallFails ==
    /\ handler.pc \in {"resolve", "resume", "save", "agent"}
    /\ Mishap
    /\ \/ handler.pc \in {"resume", "save"} /\ ResumeFails
       \/ handler.pc \in {"resolve", "resume", "agent"} /\ Continue("compensate")
    /\ UNCHANGED <<script, inbox, attempts, dedup, run, entry, writes, writeLedger, history>>

(***************************************************************************)
(* The agent's turn: every tool call of the model's answer is executed,    *)
(* and a tool that starts a workflow ends the turn with its prompt. When   *)
(* there are several, the guard after the agent relays the prompt of the   *)
(* last; when a call of the turn failed the user gets the fallback only.   *)
(***************************************************************************)
Fallback == Say("fallback", NoOrder)
Asks(says) == says.what \in Workflows

\* A question that is saved and waits to be shown at the end of the turn.
DueQuestion ==
    IF handler.pc \in {"start", "started", "reply"} /\ Asks(handler.says) THEN {handler.says} ELSE {}

ToolsFor(text) ==
    CASE text \in {"create", "recur", "edit"} -> <<"write">>
      [] text = "delete" -> <<"destructive">>
      [] text = "create and delete" -> <<"write", "destructive">>
      [] OTHER -> <<>>

AgentTurn ==
    /\ handler.pc = "agent"
    /\ LET tools == ToolsFor(script[handler.msg])
       IN  handler' = [handler EXCEPT !.pc = IF tools = <<>> THEN "reply" ELSE "start",
                                      !.tools = tools, !.says = Nothing]
    /\ UNCHANGED <<script, inbox, attempts, dedup, run, entry, writes, writeLedger, history, faults>>

\* What the user will read: the text of this tool hides that of an earlier one.
NextTool(says) ==
    /\ handler' = [handler EXCEPT !.tools = Tail(@), !.pc = IF Len(handler.tools) = 1 THEN "reply" ELSE "start",
                       !.says = IF @ = Fallback THEN Fallback ELSE says]
    /\ unheard' = unheard \cup DueQuestion
                   \cup (IF handler.says = Fallback /\ Asks(says) THEN {says} ELSE {})
    /\ UNCHANGED asked

Operation(w, text) ==
    IF w = "destructive" THEN "delete" ELSE IF text = "create and delete" THEN "create" ELSE text

NewRun(w, awaiting) ==
    [NoRun EXCEPT !.status = "running", !.op = Operation(w, script[handler.msg]),
                  !.order = handler.msg, !.awaiting = awaiting, !.target = entry.version]

\* What the first step asks for: an entry to be found, a detail, or the yes.
FirstQuestions(w) ==
    IF w = "write" /\ script[handler.msg] = "edit"
    THEN {IF entry.deleted THEN "search" ELSE "confirmation"}
    ELSE IF w = "write" THEN {"slot", "confirmation"}
    ELSE IF entry.deleted THEN {"nothing"} ELSE {"confirmation"}

StartRun ==
    /\ handler.pc = "start"
    /\ LET w == Head(handler.tools)
       IN  \/ /\ run[w].status \in {"running", "suspended"}  \* a run of the thread is open
              /\ NextTool(Nothing)
              /\ UNCHANGED run
           \/ /\ run[w].status \notin {"running", "suspended"}
              /\ \E q \in FirstQuestions(w) : run' = [run EXCEPT ![w] = NewRun(w, q)]
              /\ Continue("started")
              /\ UNCHANGED questions
    /\ UNCHANGED <<script, inbox, attempts, dedup, entry, writes, writeLedger, told, answered,
                   excused, faults>>

SaveStartedRun ==
    /\ handler.pc = "started"
    /\ LET w == Head(handler.tools)
       IN  /\ run' = [run EXCEPT ![w] = IF @.awaiting = "nothing" THEN End(@) ELSE Suspend(@)]
           /\ NextTool(IF run[w].awaiting = "confirmation" THEN Say(w, run[w].order) ELSE Nothing)
    /\ UNCHANGED <<script, inbox, attempts, dedup, entry, writes, writeLedger, told, answered,
                   excused, faults>>

\* A tool call fails: the turn still runs the other tools. It ends in a fallback,
\* unless the model gets the next prompt by calling its tools again.
ToolFails ==
    /\ handler.pc \in {"start", "started"}
    /\ Mishap
    /\ NextTool(Fallback) \/ (handler.says = Nothing /\ NextTool(Nothing))
    /\ UNCHANGED <<script, inbox, attempts, dedup, run, entry, writes, writeLedger, told, answered,
                   excused>>

(***************************************************************************)
(* The reply; a reply that cannot be sent fails the event but keeps the    *)
(* dedup row, so the event is not processed twice.                         *)
(***************************************************************************)
Outcomes == {"done", "failed", "cancelled", "duplicate"}

ReplyArrives ==
    /\ handler.pc = "reply" /\ handler.inTime
    /\ told' = IF handler.says.what \in Outcomes THEN told \cup {handler.says} ELSE told
    /\ asked' = IF Asks(handler.says) THEN handler.says ELSE asked
    /\ unheard' = unheard \ {asked'}
    /\ answered' = answered \cup {handler.msg}
    /\ handler' = Idle
    /\ UNCHANGED <<script, dedup, run, entry, writes, writeLedger, excused>>

SendReply == ReplyArrives /\ Published /\ UNCHANGED faults

\* The reply is out and the worker dies before the event is marked.
MarkLost ==
    /\ ReplyArrives
    /\ Mishap
    /\ inbox' = [inbox EXCEPT ![handler.msg] = "pending"]
    /\ UNCHANGED attempts

SendFails ==
    /\ handler.pc = "reply"
    /\ IF handler.inTime THEN Mishap ELSE UNCHANGED faults
    /\ excused' = excused \cup {handler.msg}
    /\ unheard' = unheard \cup DueQuestion
    /\ Failed
    /\ handler' = Idle
    /\ UNCHANGED <<script, dedup, run, entry, writes, writeLedger, told, asked, answered>>

(***************************************************************************)
(* Faults of the handler, and the rest of the system.                      *)
(***************************************************************************)
Working == {"resolve", "resume", "find", "write", "insert", "save", "agent", "start", "started"}

\* The 60 s of the handler are over: every later call fails with the deadline
\* and the event is retried, if the reply was not already due.
TimeOut ==
    /\ handler.pc \in Working \cup {"reply"}
    /\ Mishap
    /\ handler' = [handler EXCEPT !.inTime = FALSE, !.pc = IF @ = "reply" THEN @ ELSE "compensate"]
    /\ excused' = excused \cup {handler.msg}
    /\ unheard' = unheard \cup DueQuestion
    /\ UNCHANGED <<script, inbox, attempts, dedup, run, entry, writes, writeLedger, told, asked,
                   answered>>

\* The process dies; the outbox reaper makes the event pending again.
Crash ==
    /\ handler.pc # "idle"
    /\ Mishap
    /\ inbox' = [inbox EXCEPT ![handler.msg] = "pending"]
    /\ excused' = excused \cup {handler.msg}
    /\ unheard' = unheard \cup DueQuestion
    /\ handler' = Idle
    /\ UNCHANGED <<script, attempts, dedup, run, entry, writes, writeLedger, told, asked, answered>>

RunGetsOld(w) ==
    /\ run[w].status = "suspended" /\ ~run[w].old
    /\ run' = [run EXCEPT ![w].old = TRUE]
    /\ UNCHANGED <<script, inbox, attempts, dedup, entry, writes, writeLedger, handler, history, faults>>

ReapStaleRun(w) ==
    /\ run[w].status = "suspended" /\ run[w].old
    /\ run' = [run EXCEPT ![w].status = "failed"]
    /\ UNCHANGED <<script, inbox, attempts, dedup, entry, writes, writeLedger, handler, history, faults>>

\* The entry is edited outside the thread.
EditElsewhere ==
    /\ ~entry.deleted /\ entry.version <= MaxEntryEdits
    /\ entry' = [entry EXCEPT !.version = @ + 1]
    /\ UNCHANGED <<script, inbox, attempts, dedup, run, writes, writeLedger, handler, history, faults>>

ConversationNext ==
    \/ RouteMessage \/ TakeEvent \/ DedupEvent \/ DedupFails
    \/ CompensateDedup \/ CompensationFails
    \/ ResolveSuspendedRun \/ ResumeRun \/ SaveRun \/ CallFails
    \/ FindByKey \/ WriteOrder \/ InsertLedgerRow \/ WriteCallFails
    \/ AgentTurn \/ StartRun \/ SaveStartedRun \/ ToolFails
    \/ SendReply \/ MarkLost \/ SendFails \/ TimeOut \/ Crash
    \/ \E w \in Workflows : RunGetsOld(w) \/ ReapStaleRun(w)
    \/ EditElsewhere

ConversationSpec == ConversationInit /\ [][ConversationNext]_conversationVars

(***************************************************************************)
(* Properties.                                                             *)
(***************************************************************************)
\* However often a confirmed order is executed again after a crash, a timeout,
\* a failed call or a second yes, it takes effect once (the ledger row, the
\* origin of an entry, the version and the template check together), and
\* "registered", "changed" or "removed" is only said when it did: the ledger
\* row that makes a later yes a replay is never there without the write.
OneWritePerOrder ==
    /\ \A m \in DOMAIN writes : writes[m] <= 1
    /\ \A s \in told : s.what = "done" => writes[s.order] = 1

\* Unless a crash, the deadline, WhatsApp itself or a failed statement of the
\* dedup table got in the way, a message whose event is published was answered:
\* no dedup row swallows a retry.
PublishedIsAnswered ==
    \A m \in Arrived : inbox[m] = "published" => m \in answered \cup excused

OpenQuestion(q) ==
    Asks(q) /\ run[q.what].status = "suspended" /\ run[q.what].order = q.order

\* A yes executes the order the user was asked about last; or one whose prompt
\* was saved and then hidden by a later one of its turn or lost on its way, and
\* that only when what the user was asked about last is no longer open. It never
\* executes an order that was not put to the user, and never another order than
\* the one he was asked about while that is open.
YesAnswersTheQuestion ==
    [][writes' # writes =>
        LET q == Say(handler.flow, Order)
        IN  q = asked \/ (q \in unheard /\ ~OpenQuestion(asked))]_conversationVars
=============================================================================
