--------------------------- MODULE WhatsAppProofs ---------------------------
(***************************************************************************)
(* Proofs about what a WhatsApp message sets in motion, for any values of  *)
(* the constants. Activation: types, one consumption per token, the owner  *)
(* of a consumed sale, the signals of paid tokens that expired.            *)
(* Conversation: orders take effect once, a yes is for the open question,  *)
(* and a published message was answered.  Onboarding: nobody reaches the   *)
(* agent without an active budget, divided as confirmed.                   *)
(***************************************************************************)
EXTENDS Activation, Conversation, OnboardingFlow, SumTheorems, SequenceTheorems

\* The type of the table of messages.
MessagesTyped ==
    /\ attempt \in [Attempts -> AttemptRows]
    /\ \A m \in Attempts : attempt[m].state # "unsent" => attempt[m].phone \in Phones

-----------------------------------------------------------------------------
(* Types.                                                                   *)

LEMMA AttemptInitType == NotWritten \in AttemptRows /\ NotWritten.state = "unsent"
  <1>1. SomeToken \in Tokens
    BY ActivationAssumption DEF SomeToken
  <1>2. QED
    BY <1>1 DEF NotWritten, AttemptRows, AttemptStates

LEMMA ActivationInitType == ActivationInit => ActivationTypeOK
  <1> SUFFICES ASSUME ActivationInit PROVE ActivationTypeOK
    OBVIOUS
  <1>1. attempt \in [Attempts -> AttemptRows] /\ \A m \in Attempts : attempt[m].state = "unsent"
    BY AttemptInitType DEF ActivationInit
  <1>2. token \in [Tokens -> TokenRows]
    BY DEF ActivationInit, TokenRows
  <1>3. bound \in [Tokens -> Seq(Phones)]
    BY DEF ActivationInit
  <1>4. QED
    BY <1>1, <1>2, <1>3 DEF ActivationInit, ActivationTypeOK

\* A step of one message leaves a well-typed table of messages.
LEMMA AttemptStep ==
    ASSUME ActivationTypeOK, NEW m \in Attempts, NEW row \in AttemptRows,
           row.state # "unsent" => row.phone \in Phones,
           attempt' = [attempt EXCEPT ![m] = row]
    PROVE  MessagesTyped'
  <1>1. attempt \in [Attempts -> AttemptRows]
        /\ \A n \in Attempts : attempt[n].state # "unsent" => attempt[n].phone \in Phones
    BY DEF ActivationTypeOK
  <1>2. QED
    BY <1>1 DEF MessagesTyped

LEMMA BecomesType ==
    ASSUME ActivationTypeOK, NEW m \in Attempts, attempt[m].state # "unsent",
           NEW state \in AttemptStates, Becomes(m, state)
    PROVE  MessagesTyped'
  <1> DEFINE row == [attempt[m] EXCEPT !.state = state]
  <1>1. attempt[m] \in AttemptRows /\ attempt[m].phone \in Phones
    BY DEF ActivationTypeOK
  <1>2. row \in AttemptRows /\ row.phone \in Phones
    BY <1>1 DEF AttemptRows
  <1>3. attempt' = [attempt EXCEPT ![m] = row]
    BY DEF Becomes
  <1> HIDE DEF row
  <1>4. QED
    BY <1>2, <1>3, AttemptStep

LEMMA FoundType ==
    ASSUME ActivationTypeOK, NEW m \in Attempts, attempt[m].state # "unsent",
           NEW state \in AttemptStates, NEW t \in Tokens,
           attempt' = [attempt EXCEPT ![m].state = state, ![m].found = t]
    PROVE  MessagesTyped'
  <1> DEFINE row == [attempt[m] EXCEPT !.state = state, !.found = t]
  <1>1. attempt[m] \in AttemptRows /\ attempt[m].phone \in Phones
        /\ attempt \in [Attempts -> AttemptRows]
    BY DEF ActivationTypeOK
  <1>2. row \in AttemptRows /\ row.phone \in Phones
    BY <1>1 DEF AttemptRows
  <1>3. attempt' = [attempt EXCEPT ![m] = row]
    BY <1>1
  <1> HIDE DEF row
  <1>4. QED
    BY <1>2, <1>3, AttemptStep

LEMMA FailsType ==
    ASSUME ActivationTypeOK, NEW m \in Attempts, attempt[m].state # "unsent", Fails(m)
    PROVE  MessagesTyped'
  <1> DEFINE next == IF attempt[m].tries + 1 < MaxTries THEN "queued" ELSE "dead"
             row == [attempt[m] EXCEPT !.tries = attempt[m].tries + 1, !.state = next]
  <1>1. attempt[m] \in AttemptRows /\ attempt[m].phone \in Phones
        /\ attempt \in [Attempts -> AttemptRows]
    BY DEF ActivationTypeOK
  <1>2. next \in AttemptStates
    BY DEF AttemptStates
  <1>a. attempt[m].tries + 1 \in Nat
    BY <1>1 DEF AttemptRows
  <1> HIDE DEF next
  <1>3. row \in AttemptRows /\ row.phone \in Phones
    BY <1>1, <1>2, <1>a DEF AttemptRows
  <1>4. attempt' = [attempt EXCEPT ![m] = row]
    BY <1>1 DEF Fails, next
  <1> HIDE DEF row
  <1>5. QED
    BY <1>3, <1>4, AttemptStep

LEMMA BindUserType ==
    ASSUME ActivationTypeOK, NEW p \in Phones, NEW t \in Tokens, BindUser(p, t)
    PROVE  /\ account' \in [Phones -> Mails \cup {NoMail, NoUserRow}]
           /\ owner' \in [Tokens -> Phones \cup {Nobody}]
  <1>1. Merged(p, t) \in Mails \cup {NoMail, NoUserRow}
    BY ActivationAssumption DEF ActivationTypeOK, Merged
  <1>2. QED
    BY <1>1 DEF ActivationTypeOK, BindUser

LEMMA MarkConsumedType ==
    ASSUME ActivationTypeOK, NEW p \in Phones, NEW t \in Tokens, UpdateMarkConsumed(p, t)
    PROVE  /\ token' \in [Tokens -> TokenRows]
           /\ consumer' \in [Tokens -> Phones \cup {Nobody}]
           /\ bound' \in [Tokens -> Seq(Phones)]
  <1> DEFINE row == [token[t] EXCEPT !.status = "CONSUMED"]
             announced == Append(bound[t], p)
  <1>1. token \in [Tokens -> TokenRows] /\ bound \in [Tokens -> Seq(Phones)]
        /\ consumer \in [Tokens -> Phones \cup {Nobody}]
    BY DEF ActivationTypeOK
  <1>2. row \in TokenRows
    BY <1>1 DEF TokenRows
  <1>3. announced \in Seq(Phones)
    BY <1>1
  <1>4. token' = [token EXCEPT ![t] = row] /\ bound' = [bound EXCEPT ![t] = announced]
        /\ consumer' = [consumer EXCEPT ![t] = p]
    BY <1>1 DEF UpdateMarkConsumed
  <1> HIDE DEF row, announced
  <1>5. QED
    BY <1>1, <1>2, <1>3, <1>4

LEMMA MarkPaidType ==
    ASSUME ActivationTypeOK, NEW t \in Tokens, MarkTokenPaid(t)
    PROVE  token' \in [Tokens -> TokenRows] /\ window' \subseteq Tokens
  <1> DEFINE paid == {u \in Tokens : token[u].paid > 0}
             row == [status |-> "PAID", paid |-> 1 + Cardinality(paid)]
  <1>1. IsFiniteSet(paid)
    BY ActivationAssumption, FS_Subset
  <1>2. Cardinality(paid) \in Nat
    BY <1>1, FS_CardinalityType
  <1>3. row \in TokenRows
    BY <1>2 DEF TokenRows
  <1>4. token' = token \/ token' = [token EXCEPT ![t] = row]
    BY DEF MarkTokenPaid
  <1>5. window' \subseteq Tokens
    BY DEF ActivationTypeOK, MarkTokenPaid
  <1> HIDE DEF row
  <1>6. QED
    BY <1>3, <1>4, <1>5 DEF ActivationTypeOK

\* The steps of a message.
MessageStep(m) ==
    \/ FindActivableByMobile(m) \/ LoadByPhone(m) \/ ConsumeMagicToken(m)
    \/ HandlePaidToken(m) \/ NoMatch(m)

LEMMA WriteType ==
    ASSUME ActivationTypeOK, NEW m \in Attempts, NEW p \in Phones, NEW text \in MessageTexts,
           WriteMessage(m, p, text)
    PROVE  ActivationTypeOK'
  <1> DEFINE row == [NotWritten EXCEPT !.state = "queued", !.phone = p, !.text = text]
  <1>1. text \in SUBSET Tokens
    BY ActivationAssumption
  <1>2. row \in AttemptRows /\ row.phone \in Phones
    BY <1>1, AttemptInitType DEF AttemptRows, AttemptStates
  <1>3. attempt' = [attempt EXCEPT ![m] = row]
    BY DEF WriteMessage
  <1> HIDE DEF row
  <1>4. MessagesTyped'
    BY <1>2, <1>3, AttemptStep
  <1>5. QED
    BY <1>4 DEF WriteMessage, MessagesTyped, ActivationTypeOK, tokenSide, bindingSide, expirySide

LEMMA MessageType ==
    ASSUME ActivationTypeOK, NEW m \in Attempts, MessageStep(m)
    PROVE  ActivationTypeOK'
  <1> DEFINE p == attempt[m].phone
             t == attempt[m].found
  <1>1. attempt[m].state # "unsent"
    BY DEF MessageStep, FindActivableByMobile, LoadByPhone, ConsumeMagicToken, HandlePaidToken, NoMatch
  <1>2. p \in Phones /\ t \in Tokens /\ attempt[m].text \subseteq Tokens
    BY <1>1 DEF ActivationTypeOK, AttemptRows
  <1>a. \A state \in {"text", "bind", "consume", "no match", "done"} : state \in AttemptStates
    BY DEF AttemptStates
  <1> HIDE DEF p, t
  <1>3. CASE FindActivableByMobile(m)
    <2>1. ASSUME Becomes(m, "text") PROVE MessagesTyped'
      BY <1>1, <1>a, <2>1, BecomesType
    <2>2. ASSUME NEW u \in PaidBy(attempt[m].phone),
                 attempt' = [attempt EXCEPT ![m].state = "bind", ![m].found = u]
          PROVE  MessagesTyped'
      <3>1. PaidBy(attempt[m].phone) \subseteq Tokens
        BY DEF PaidBy, ActivationTypeOK
      <3>2. QED
        BY <1>1, <1>a, <2>2, <3>1, FoundType
    <2>3. MessagesTyped'
      BY <1>3, <2>1, <2>2 DEF FindActivableByMobile
    <2>4. QED
      BY <1>3, <2>3 DEF FindActivableByMobile, MessagesTyped, ActivationTypeOK, bindingSide, unrelated, expirySide
  <1>4. CASE LoadByPhone(m)
    <2>1. MessagesTyped'
      BY <1>1, <1>4, <1>a, BecomesType, FailsType DEF LoadByPhone
    <2>2. /\ account' \in [Phones -> Mails \cup {NoMail, NoUserRow}]
          /\ owner' \in [Tokens -> Phones \cup {Nobody}]
      <3>1. BindUser(p, t) \/ UNCHANGED <<account, owner>>
        BY <1>4 DEF LoadByPhone, bindingSide, p, t
      <3>2. QED
        BY <1>2, <3>1, BindUserType DEF ActivationTypeOK
    <2>3. /\ token' \in [Tokens -> TokenRows]
          /\ consumer' \in [Tokens -> Phones \cup {Nobody}]
          /\ bound' \in [Tokens -> Seq(Phones)]
      <3>1. UpdateMarkConsumed(p, t) \/ UNCHANGED <<token, consumer, bound>>
        BY <1>4 DEF LoadByPhone, bindingSide, p, t
      <3>2. QED
        BY <1>2, <3>1, MarkConsumedType DEF ActivationTypeOK
    <2>4. QED
      BY <1>4, <2>1, <2>2, <2>3 DEF LoadByPhone, MessagesTyped, ActivationTypeOK, unrelated, expirySide
  <1>5. CASE ConsumeMagicToken(m)
    <2>1. ASSUME NEW u \in attempt[m].text,
                 attempt' = [attempt EXCEPT ![m].state = "consume", ![m].found = u]
          PROVE  MessagesTyped'
      BY <1>1, <1>2, <1>a, <2>1, FoundType
    <2>2. ASSUME Becomes(m, "done") \/ Becomes(m, "no match") PROVE MessagesTyped'
      BY <1>1, <1>a, <2>2, BecomesType
    <2>3. MessagesTyped'
      BY <1>5, <2>1, <2>2 DEF ConsumeMagicToken
    <2>4. QED
      BY <1>5, <2>3 DEF ConsumeMagicToken, MessagesTyped, ActivationTypeOK, bindingSide, unrelated, expirySide
  <1>6. CASE HandlePaidToken(m)
    <2>1. MessagesTyped'
      BY <1>1, <1>6, <1>a, BecomesType, FailsType DEF HandlePaidToken
    <2>2. /\ account' \in [Phones -> Mails \cup {NoMail, NoUserRow}]
          /\ owner' \in [Tokens -> Phones \cup {Nobody}]
      <3>1. BindUser(p, t) \/ UNCHANGED <<account, owner>>
        BY <1>6 DEF HandlePaidToken, bindingSide, p, t
      <3>2. QED
        BY <1>2, <3>1, BindUserType DEF ActivationTypeOK
    <2>3. /\ token' \in [Tokens -> TokenRows]
          /\ consumer' \in [Tokens -> Phones \cup {Nobody}]
          /\ bound' \in [Tokens -> Seq(Phones)]
      <3>1. UpdateMarkConsumed(p, t) \/ UNCHANGED <<token, consumer, bound>>
        BY <1>6 DEF HandlePaidToken, bindingSide, p, t
      <3>2. QED
        BY <1>2, <3>1, MarkConsumedType DEF ActivationTypeOK
    <2>4. QED
      BY <1>6, <2>1, <2>2, <2>3 DEF HandlePaidToken, MessagesTyped, ActivationTypeOK, unrelated, expirySide
  <1>7. CASE NoMatch(m)
    <2>1. MessagesTyped'
      BY <1>1, <1>7, <1>a, BecomesType, FailsType DEF NoMatch
    <2>2. QED
      BY <1>7, <2>1 DEF NoMatch, MessagesTyped, ActivationTypeOK, bindingSide, unrelated, expirySide
  <1>8. QED
    BY <1>3, <1>4, <1>5, <1>6, <1>7 DEF MessageStep

\* A step preserves the types.
LEMMA ActivationTypeStep ==
    ActivationTypeOK /\ [ActivationNext]_activationVars => ActivationTypeOK'
  <1> SUFFICES ASSUME ActivationTypeOK, [ActivationNext]_activationVars PROVE ActivationTypeOK'
    OBVIOUS
  <1> USE DEF tokenSide, bindingSide, expirySide
  <1>1. ASSUME NEW t \in Tokens, CreateCheckoutSession(t) PROVE ActivationTypeOK'
    <2>1. token' \in [Tokens -> TokenRows]
      <3> DEFINE row == [token[t] EXCEPT !.status = "PENDING"]
      <3>1. token \in [Tokens -> TokenRows]
        BY DEF ActivationTypeOK
      <3>2. row \in TokenRows
        BY <3>1 DEF TokenRows
      <3>3. token' = [token EXCEPT ![t] = row]
        BY <1>1, <3>1 DEF CreateCheckoutSession
      <3> HIDE DEF row
      <3>4. QED
        BY <3>1, <3>2, <3>3
    <2>2. QED
      BY <1>1, <2>1 DEF CreateCheckoutSession, ActivationTypeOK
  <1>2. ASSUME NEW t \in Tokens, ProcessSaleApproved(t) PROVE ActivationTypeOK'
    BY <1>2 DEF ProcessSaleApproved, ActivationTypeOK
  <1>3. ASSUME NEW t \in Tokens, SubscriptionEnds(t) PROVE ActivationTypeOK'
    BY <1>3 DEF SubscriptionEnds, ActivationTypeOK
  <1>4. ASSUME NEW t \in Tokens, MarkTokenPaid(t) PROVE ActivationTypeOK'
    <2>1. token' \in [Tokens -> TokenRows] /\ window' \subseteq Tokens
      BY <1>4, MarkPaidType
    <2>2. QED
      BY <1>4, <2>1 DEF MarkTokenPaid, ActivationTypeOK
  <1>5. ASSUME NEW t \in Tokens, EmitOrphanSignal(t) PROVE ActivationTypeOK'
    BY <1>5 DEF EmitOrphanSignal, ActivationTypeOK
  <1>6. ASSUME NEW t \in Tokens, ActivatedAgain(t) PROVE ActivationTypeOK'
    BY <1>6 DEF ActivatedAgain, Misfortune, ActivationTypeOK
  <1>7. ASSUME NEW t \in Tokens, WindowCloses(t) PROVE ActivationTypeOK'
    BY <1>7 DEF WindowCloses, ActivationTypeOK
  <1>8. ASSUME NEW t \in Tokens, TokenExpires(t) PROVE ActivationTypeOK'
    BY <1>8 DEF TokenExpires, ActivationTypeOK
  <1>9. ASSUME NEW T \in SUBSET Tokens, BulkExpire(T) PROVE ActivationTypeOK'
    <2>1. token' \in [Tokens -> TokenRows]
      <3>1. \A t \in Tokens : token[t] \in TokenRows /\ [token[t] EXCEPT !.status = "EXPIRED"] \in TokenRows
        BY DEF ActivationTypeOK, TokenRows
      <3>2. token' = [t \in Tokens |-> IF t \in T THEN [token[t] EXCEPT !.status = "EXPIRED"] ELSE token[t]]
        BY <1>9 DEF BulkExpire
      <3>3. QED
        BY <3>1, <3>2
    <2>2. orphans' \subseteq Tokens
      BY <1>9 DEF BulkExpire, Orphans
    <2>3. QED
      BY <1>9, <2>1, <2>2 DEF BulkExpire, ActivationTypeOK
  <1>10. ASSUME NEW T \in SUBSET Tokens, SignalsLost(T) PROVE ActivationTypeOK'
    BY <1>10 DEF SignalsLost, Misfortune, ActivationTypeOK
  <1>11. ASSUME NEW m \in Attempts, DeliveredAgain(m) PROVE ActivationTypeOK'
    <2>1. MessagesTyped'
      <3>1. "queued" \in AttemptStates /\ attempt[m].state # "unsent" /\ Becomes(m, "queued")
        BY <1>11 DEF DeliveredAgain, AttemptStates
      <3>2. QED
        BY <3>1, BecomesType
    <2>2. QED
      BY <1>11, <2>1 DEF DeliveredAgain, Misfortune, MessagesTyped, ActivationTypeOK
  <1>12. CASE UNCHANGED activationVars
    BY <1>12 DEF activationVars, ActivationTypeOK
  <1>13. QED
    BY <1>1, <1>2, <1>3, <1>4, <1>5, <1>6, <1>7, <1>8, <1>9, <1>10, <1>11, <1>12, WriteType,
       MessageType DEF ActivationNext, MessageStep

\* Tokens, subscriptions, users, messages and signals are well typed, whatever
\* the handlers of internal/onboarding do.
THEOREM ActivationTypeCorrect == ActivationSpec => []ActivationTypeOK
  BY ActivationInitType, ActivationTypeStep, PTL DEF ActivationSpec

-----------------------------------------------------------------------------
(* What a step does to a token and to the owner of its sale.                *)

TokenStays(t) == token'[t] = token[t] /\ consumer'[t] = consumer[t] /\ bound'[t] = bound[t]
Begins(t) ==
    /\ token[t].status \in {"absent", "PENDING"} /\ token'[t].status \in {"PENDING", "PAID"}
    /\ consumer'[t] = consumer[t] /\ bound'[t] = bound[t]
Consumes(p, t) ==
    /\ token[t].status = "PAID" /\ token'[t].status = "CONSUMED"
    /\ consumer'[t] = p /\ bound'[t] = Append(bound[t], p)
Expires(t) ==
    /\ token[t].status \in {"PENDING", "PAID"} /\ token'[t].status = "EXPIRED"
    /\ token'[t].paid = token[t].paid /\ (token[t].paid > 0 => t \in orphans')
    /\ consumer'[t] = consumer[t] /\ bound'[t] = bound[t]
Binds(p, t) ==
    /\ MailIsFree(p, t)
    /\ owner' = [owner EXCEPT ![t] = p] /\ account' = [account EXCEPT ![p] = Merged(p, t)]

LEMMA TokenLife ==
    ASSUME ActivationTypeOK, [ActivationNext]_activationVars, NEW t \in Tokens
    PROVE  \/ TokenStays(t) \/ Begins(t) \/ Expires(t)
           \/ \E p \in Phones : Consumes(p, t)
  <1>1. /\ token \in [Tokens -> TokenRows] /\ bound \in [Tokens -> Seq(Phones)]
        /\ consumer \in [Tokens -> Phones \cup {Nobody}]
    BY DEF ActivationTypeOK
  <1>2. ASSUME NEW u \in Tokens, CreateCheckoutSession(u) \/ MarkTokenPaid(u)
        PROVE  TokenStays(t) \/ Begins(t)
    <2>1. CASE CreateCheckoutSession(u)
      BY <1>1, <2>1 DEF CreateCheckoutSession, TokenStays, Begins, bindingSide, TokenRows
    <2>2. CASE MarkTokenPaid(u)
      BY <1>1, <2>2 DEF MarkTokenPaid, DecideMarkPaid, TokenStays, Begins, bindingSide, TokenRows
    <2>3. QED
      BY <1>2, <2>1, <2>2
  <1>3. ASSUME NEW T \in SUBSET Tokens, BulkExpire(T) PROVE TokenStays(t) \/ Expires(t)
    <2>1. token' = [u \in Tokens |-> IF u \in T THEN [token[u] EXCEPT !.status = "EXPIRED"] ELSE token[u]]
          /\ consumer' = consumer /\ bound' = bound /\ orphans' = Orphans(T)
      BY <1>3 DEF BulkExpire, bindingSide
    <2>2. CASE t \in T
      <3>1. token[t].status \in {"PENDING", "PAID"} /\ token[t] \in TokenRows
        BY <1>1, <1>3, <2>2 DEF BulkExpire
      <3>2. token'[t].status = "EXPIRED" /\ token'[t].paid = token[t].paid
        BY <2>1, <2>2, <3>1 DEF TokenRows
      <3>3. QED
        BY <2>1, <2>2, <3>1, <3>2 DEF Expires, Orphans
    <2>3. CASE t \notin T
      BY <2>1, <2>3 DEF TokenStays
    <2>4. QED
      BY <2>2, <2>3
  <1>4. ASSUME NEW m \in Attempts, LoadByPhone(m) \/ HandlePaidToken(m)
        PROVE  TokenStays(t) \/ \E p \in Phones : Consumes(p, t)
    <2> DEFINE p == attempt[m].phone
               u == attempt[m].found
    <2>1. p \in Phones /\ u \in Tokens
      BY <1>4 DEF LoadByPhone, HandlePaidToken, ActivationTypeOK, AttemptRows
    <2>2. UpdateMarkConsumed(p, u) \/ UNCHANGED <<token, consumer, bound>>
      BY <1>4 DEF LoadByPhone, HandlePaidToken, bindingSide
    <2> HIDE DEF p, u
    <2>3. CASE UpdateMarkConsumed(p, u)
      <3>1. CASE u = t
        BY <1>1, <2>1, <2>3, <3>1 DEF UpdateMarkConsumed, IsStillPaid, Consumes, TokenRows
      <3>2. CASE u # t
        BY <1>1, <2>1, <2>3, <3>2 DEF UpdateMarkConsumed, TokenStays
      <3>3. QED
        BY <3>1, <3>2
    <2>4. CASE UNCHANGED <<token, consumer, bound>>
      BY <2>4 DEF TokenStays
    <2>5. QED
      BY <2>2, <2>3, <2>4
  <1>5. CASE \/ \E u \in Tokens :
                   \/ ProcessSaleApproved(u) \/ SubscriptionEnds(u) \/ EmitOrphanSignal(u)
                   \/ ActivatedAgain(u) \/ WindowCloses(u) \/ TokenExpires(u)
             \/ \E T \in SUBSET Tokens : SignalsLost(T)
             \/ \E m \in Attempts :
                   \/ \E p \in Phones, text \in MessageTexts : WriteMessage(m, p, text)
                   \/ FindActivableByMobile(m) \/ ConsumeMagicToken(m) \/ NoMatch(m)
                   \/ DeliveredAgain(m)
    BY <1>5 DEF ProcessSaleApproved, SubscriptionEnds, EmitOrphanSignal, ActivatedAgain,
                WindowCloses, TokenExpires, SignalsLost, WriteMessage, FindActivableByMobile,
                ConsumeMagicToken, NoMatch, DeliveredAgain, tokenSide, bindingSide, TokenStays
  <1>6. CASE UNCHANGED activationVars
    BY <1>6 DEF activationVars, TokenStays
  <1>7. QED
    BY <1>2, <1>3, <1>4, <1>5, <1>6 DEF ActivationNext

\* A sale gets another owner only where the e-mail of its buyer is free.
LEMMA OwnerChange ==
    ASSUME ActivationTypeOK, [ActivationNext]_activationVars, NEW t \in Tokens,
           owner'[t] # owner[t]
    PROVE  \E p \in Phones : Binds(p, t)
  <1>1. owner \in [Tokens -> Phones \cup {Nobody}]
    BY DEF ActivationTypeOK
  <1>2. ASSUME NEW m \in Attempts, LoadByPhone(m) \/ HandlePaidToken(m)
        PROVE  \E p \in Phones : Binds(p, t)
    <2> DEFINE p == attempt[m].phone
               u == attempt[m].found
    <2>1. p \in Phones /\ u \in Tokens
      BY <1>2 DEF LoadByPhone, HandlePaidToken, ActivationTypeOK, AttemptRows
    <2>2. (MailIsFree(p, u) /\ BindUser(p, u)) \/ UNCHANGED owner
      BY <1>2 DEF LoadByPhone, HandlePaidToken, Bindable, bindingSide
    <2> HIDE DEF p, u
    <2>3. MailIsFree(p, u) /\ BindUser(p, u) /\ u = t
      BY <1>1, <2>1, <2>2 DEF BindUser
    <2>4. QED
      BY <2>1, <2>3 DEF BindUser, Binds
  <1>3. \E m \in Attempts : LoadByPhone(m) \/ HandlePaidToken(m)
    BY DEF ActivationNext, activationVars, CreateCheckoutSession, ProcessSaleApproved,
           SubscriptionEnds, MarkTokenPaid, EmitOrphanSignal, ActivatedAgain, WindowCloses,
           TokenExpires, BulkExpire, SignalsLost, WriteMessage, FindActivableByMobile,
           ConsumeMagicToken, NoMatch, DeliveredAgain, bindingSide
  <1>4. QED
    BY <1>2, <1>3

\* A signal that is due stays due until it is sent or lost, and nothing expires
\* before the signals of the last run are.
LEMMA SignalsKept ==
    ASSUME ActivationTypeOK, [ActivationNext]_activationVars
    PROVE  orphans \cup signalled \cup unsignalled \subseteq (orphans \cup signalled \cup unsignalled)'
  <1> USE DEF expirySide
  <1>1. CASE \E T \in SUBSET Tokens : BulkExpire(T) \/ SignalsLost(T)
    BY <1>1 DEF BulkExpire, SignalsLost
  <1>2. CASE \E t \in Tokens :
               \/ CreateCheckoutSession(t) \/ ProcessSaleApproved(t) \/ SubscriptionEnds(t)
               \/ MarkTokenPaid(t) \/ EmitOrphanSignal(t) \/ ActivatedAgain(t)
               \/ WindowCloses(t) \/ TokenExpires(t)
    BY <1>2 DEF CreateCheckoutSession, ProcessSaleApproved, SubscriptionEnds, MarkTokenPaid,
                EmitOrphanSignal, ActivatedAgain, WindowCloses, TokenExpires
  <1>3. CASE \E m \in Attempts :
               \/ \E p \in Phones, text \in MessageTexts : WriteMessage(m, p, text)
               \/ FindActivableByMobile(m) \/ LoadByPhone(m) \/ ConsumeMagicToken(m)
               \/ HandlePaidToken(m) \/ NoMatch(m) \/ DeliveredAgain(m)
    BY <1>3 DEF WriteMessage, FindActivableByMobile, LoadByPhone, ConsumeMagicToken,
                HandlePaidToken, NoMatch, DeliveredAgain, unrelated
  <1>4. CASE UNCHANGED activationVars
    BY <1>4 DEF activationVars
  <1>5. QED
    BY <1>1, <1>2, <1>3, <1>4 DEF ActivationNext

-----------------------------------------------------------------------------
(* The properties.                                                          *)

LEMMA ActivatedOnceStep ==
    ActivationTypeOK /\ ActivatedOnce /\ [ActivationNext]_activationVars => ActivatedOnce'
  <1> SUFFICES ASSUME ActivationTypeOK, ActivatedOnce, [ActivationNext]_activationVars,
                      NEW t \in Tokens
               PROVE  bound'[t] = IF token'[t].status = "CONSUMED" THEN <<consumer'[t]>> ELSE <<>>
    BY DEF ActivatedOnce
  <1>1. bound[t] = IF token[t].status = "CONSUMED" THEN <<consumer[t]>> ELSE <<>>
    BY DEF ActivatedOnce
  <1>2. CASE TokenStays(t) \/ Begins(t) \/ Expires(t)
    BY <1>1, <1>2 DEF TokenStays, Begins, Expires
  <1>3. ASSUME NEW p \in Phones, Consumes(p, t)
        PROVE  bound'[t] = IF token'[t].status = "CONSUMED" THEN <<consumer'[t]>> ELSE <<>>
    <2>1. bound[t] = <<>> /\ bound'[t] = Append(bound[t], p) /\ consumer'[t] = p
          /\ token'[t].status = "CONSUMED"
      BY <1>1, <1>3 DEF Consumes
    <2>2. Append(<<>>, p) = <<p>>
      OBVIOUS
    <2>3. QED
      BY <2>1, <2>2
  <1>4. QED
    BY <1>2, <1>3, TokenLife

\* However many messages, deliveries and numbers race for a token, and whenever
\* it expires, one number consumes it and one event announces that.
THEOREM TokenActivatedOnce == ActivationSpec => []ActivatedOnce
  <1>1. ActivationInit => ActivatedOnce
    BY DEF ActivationInit, ActivatedOnce
  <1>2. QED
    BY <1>1, ActivationInitType, ActivationTypeStep, ActivatedOnceStep, PTL DEF ActivationSpec

LEMMA SignalledStep ==
    ActivationTypeOK /\ ExpiredPaidIsSignalled /\ [ActivationNext]_activationVars
        => ExpiredPaidIsSignalled'
  <1> SUFFICES ASSUME ActivationTypeOK, ExpiredPaidIsSignalled, [ActivationNext]_activationVars,
                      NEW t \in Tokens, token'[t].status = "EXPIRED", token'[t].paid > 0
               PROVE  t \in (orphans \cup signalled \cup unsignalled)'
    BY DEF ExpiredPaidIsSignalled
  <1>1. CASE TokenStays(t)
    <2>1. t \in orphans \cup signalled \cup unsignalled
      BY <1>1 DEF TokenStays, ExpiredPaidIsSignalled
    <2>2. QED
      BY <2>1, SignalsKept
  <1>2. CASE Expires(t)
    BY <1>2 DEF Expires
  <1>3. CASE Begins(t) \/ \E p \in Phones : Consumes(p, t)
    BY <1>3 DEF Begins, Consumes
  <1>4. QED
    BY <1>1, <1>2, <1>3, TokenLife

\* A paid token never expires without a signal to support that is sent, still
\* to be sent, or lost with the worker or by a failed insert.
THEOREM ExpiredSignalled == ActivationSpec => []ExpiredPaidIsSignalled
  <1>1. ActivationInit => ExpiredPaidIsSignalled
    BY DEF ActivationInit, ExpiredPaidIsSignalled
  <1>2. QED
    BY <1>1, ActivationInitType, ActivationTypeStep, SignalledStep, PTL DEF ActivationSpec

LEMMA OwnerStep ==
    ASSUME ActivationTypeOK, ActivatedOnce, [ActivationNext]_activationVars, NEW t \in Tokens,
           token[t].status = "CONSUMED", owner'[t] \notin {owner[t], consumer[t]},
           BuyerMail[t] # NoMail, account[consumer[t]] = BuyerMail[t]
    PROVE  account[owner'[t]] \notin {NoUserRow, NoMail, BuyerMail[t]}
  <1>1. PICK p \in Phones : Binds(p, t)
    BY OwnerChange
  <1>2. owner'[t] = p /\ account'[p] = Merged(p, t)
    BY <1>1 DEF Binds, ActivationTypeOK
  <1>3. consumer[t] \in Phones
    <2>1. <<consumer[t]>> \in Seq(Phones)
      BY DEF ActivatedOnce, ActivationTypeOK
    <2>2. QED
      BY <2>1
  <1>4. BuyerMail[t] \in Mails
    BY ActivationAssumption
  <1>5. consumer[t] \in Phones \ {p}
    BY <1>2, <1>3
  <1>6. CASE Merged(p, t) = BuyerMail[t]
    BY <1>1, <1>4, <1>5, <1>6, ActivationAssumption DEF Binds, MailIsFree
  <1>7. CASE Merged(p, t) # BuyerMail[t]
    <2>1. Merged(p, t) = account[p] /\ account[p] \notin {NoUserRow, NoMail}
      BY <1>7 DEF Merged
    <2>2. QED
      BY <1>2, <1>7, <2>1
  <1>8. QED
    BY <1>6, <1>7

\* Whatever lost races commit, a consumed sale whose e-mail its consumer's user
\* goes by passes only to a number that already had a user under another one.
THEOREM ConsumedSaleKept == ActivationSpec => ConsumedKeepsOwner
  <1> DEFINE Kept(t) ==
        token[t].status = "CONSUMED" /\ owner'[t] \notin {owner[t], consumer[t]} =>
            \/ BuyerMail[t] = NoMail
            \/ account[consumer[t]] # BuyerMail[t]
            \/ account[owner'[t]] \notin {NoUserRow, NoMail, BuyerMail[t]}
  <1>1. ActivationTypeOK /\ ActivatedOnce /\ [ActivationNext]_activationVars
            => [\A t \in Tokens : Kept(t)]_activationVars
    BY OwnerStep
  <1>2. ActivationInit => ActivatedOnce
    BY DEF ActivationInit, ActivatedOnce
  <1>3. QED
    BY <1>1, <1>2, ActivationInitType, ActivationTypeStep, ActivatedOnceStep, PTL
       DEF ActivationSpec, ConsumedKeepsOwner

-----------------------------------------------------------------------------
(***************************************************************************)
(* Conversation: every order takes effect once, a yes is for the question  *)
(* that is open, and no published message is left without an answer.       *)
(***************************************************************************)
RunStates == [status : {"none", "running", "suspended", "succeeded", "failed"},
              op : {"create", "recur", "edit", "delete"}, order : Nat,
              awaiting : {"slot", "search", "confirmation", "nothing"}, reprompted : BOOLEAN,
              confirmReprompted : BOOLEAN, processed : Nat, target : Nat, old : BOOLEAN]
Sayings == [what : {"other", "fallback", "write", "destructive"} \cup Outcomes, order : Nat]
ToolLists == {<<>>, <<"write">>, <<"destructive">>, <<"write", "destructive">>}
HandlerStates ==
    [pc : {"idle", "dedup", "compensate", "reply"} \cup Working, msg : Nat, flow : Workflows,
     snap : RunStates, tools : ToolLists, says : Sayings, after : {"reply", "agent"},
     tries : {1, 2}, inTime : BOOLEAN]
InboxStates == {"pending", "taken", "published", "dead", "lost"}

ConversationTypes ==
    /\ script \in Seq(Texts) /\ inbox \in Seq(InboxStates) /\ Len(inbox) <= Len(script)
    /\ run \in [Workflows -> RunStates]
    /\ entry \in [version : Nat, deleted : BOOLEAN]
    /\ writes \in [Messages -> Nat]
    /\ handler \in HandlerStates /\ told \subseteq Sayings
    /\ handler.pc # "idle" => handler.msg \in Arrived

\* The tool of w is one the text calls.
Serves(w, text) ==
    IF w = "write" THEN text \in {"create", "recur", "edit", "create and delete"}
    ELSE text \in {"delete", "create and delete"}

\* The step in progress is about the order of the run, and about the only
\* question that is open; a tool that is due is one the message calls.
HandlerShape ==
    /\ handler.pc \notin {"idle", "dedup"} => handler.msg \in dedup
    /\ handler.pc \in {"resume", "find", "write", "insert", "save"} => Suspended \subseteq {handler.flow}
    /\ handler.pc \in {"find", "write", "insert", "save"} =>
           LET r == run[handler.flow]
           IN  /\ r.order # NoOrder /\ handler.snap.order = r.order
               /\ handler.snap.op = r.op /\ handler.snap.target = r.target
    /\ handler.pc \in {"find", "insert"} => handler.flow = "write"
    /\ handler.pc \in {"start", "started"} =>
           /\ handler.tools # <<>>
           /\ \A i \in DOMAIN handler.tools : Serves(handler.tools[i], script[handler.msg])
    /\ handler.pc = "started" => run[Head(handler.tools)].order = handler.msg

\* The tools of m have run or never will: its dedup row is not released.
Spent(m) ==
    /\ m \in dedup
    /\ handler.msg = m => \/ handler.pc \in {"idle", "dedup", "start", "started", "reply"}
                          \/ handler.pc = "compensate" /\ ~handler.inTime

\* A run is the order of a message whose tools have run.
RunsAreOrders ==
    \A w \in Workflows :
        /\ run[w].status # "none" => run[w].order # NoOrder
        /\ run[w].order # NoOrder =>
             /\ run[w].order \in Messages /\ Spent(run[w].order)
             /\ Serves(w, script[run[w].order]) /\ run[w].op = Operation(w, script[run[w].order])
             /\ run[w].target <= entry.version

\* Why an order that took effect will not take effect again.
OrderIsDone(m) ==
    /\ Spent(m) /\ (handler.msg = m => handler.pc \notin {"start", "started"})
    /\ script[m] = "edit" /\ run["write"].order = m => run["write"].target < entry.version
    /\ script[m] = "delete" => entry.deleted
    /\ script[m] = "create and delete" =>
         \/ entry.deleted
         \/ run["destructive"].order = m =>
              /\ run["destructive"].status # "suspended"
              /\ ~(handler.pc = "write" /\ handler.flow = "destructive")

Confirmed(s) == s.what = "done" => s.order \in Messages /\ writes[s.order] = 1

WritesAreDone ==
    /\ \A m \in Messages : writes[m] <= 1 /\ (writes[m] = 1 => OrderIsDone(m))
    /\ \A m \in writeLedger : m \in Messages /\ writes[m] = 1
    /\ handler.pc = "insert" => writes[handler.snap.order] = 1
    /\ Confirmed(handler.says) /\ \A s \in told : Confirmed(s)

ConversationInv == ConversationTypes /\ HandlerShape /\ RunsAreOrders /\ WritesAreDone

\* A dedup row without an answer is that of the message in the handler.
AnswersInv ==
    /\ PublishedIsAnswered
    /\ \A m \in dedup : \/ m \in answered \cup excused
                        \/ handler.msg = m /\ handler.pc \notin {"idle", "dedup"}
    /\ handler.pc # "idle" /\ ~handler.inTime => handler.msg \in excused

-----------------------------------------------------------------------------
(* What the steps of a run decide.                                          *)

LEMMA ConstantRecords ==
    /\ NoRun \in RunStates /\ NoRun.order = 0 /\ NoRun.status = "none" /\ NoRun.target = 0
    /\ Nothing \in Sayings /\ Nothing.what = "other"
    /\ Fallback \in Sayings /\ Fallback.what = "fallback"
    /\ Idle \in HandlerStates /\ Idle.pc = "idle" /\ Idle.msg = 0 /\ Idle.inTime /\ Idle.says = Nothing
  <1>1. NoRun \in RunStates /\ NoRun.order = 0 /\ NoRun.status = "none" /\ NoRun.target = 0
    BY DEF NoRun, RunStates, NoOrder
  <1>2. /\ Nothing \in Sayings /\ Nothing.what = "other"
        /\ Fallback \in Sayings /\ Fallback.what = "fallback"
    BY DEF Nothing, Fallback, Say, Sayings, NoOrder
  <1>3. /\ Idle = [pc |-> "idle", msg |-> 0, flow |-> "write", snap |-> NoRun, tools |-> <<>>,
                   says |-> Nothing, after |-> "reply", tries |-> 1, inTime |-> TRUE]
        /\ <<>> \in ToolLists /\ "write" \in Workflows
    BY DEF Idle, NoOrder, ToolLists, Workflows
  <1>4. Idle \in HandlerStates
    BY <1>1, <1>2, <1>3 DEF HandlerStates
  <1> QED
    BY <1>1, <1>2, <1>3, <1>4

\* s is about the order of r.
Kept(s, r) == s \in RunStates /\ s.order = r.order /\ s.op = r.op /\ s.target = r.target

LEMMA RunUpdates ==
    ASSUME NEW r \in RunStates, NEW m \in Nat
    PROVE  /\ Kept(r, r) /\ Kept(End(r), r) /\ Kept(Suspend(r), r)
           /\ Kept([r EXCEPT !.status = "failed"], r) /\ Kept([r EXCEPT !.old = TRUE], r)
           /\ Kept([r EXCEPT !.reprompted = TRUE], r)
           /\ Kept([r EXCEPT !.awaiting = "confirmation", !.reprompted = FALSE], r)
           /\ Kept([r EXCEPT !.awaiting = "slot", !.reprompted = TRUE], r)
           /\ Kept([r EXCEPT !.confirmReprompted = TRUE, !.processed = m], r)
           /\ Kept([r EXCEPT !.processed = m], r)
           /\ End(r).status = "succeeded"
  BY DEF Kept, RunStates, End, Suspend

LEMMA KeptTwice ==
    ASSUME NEW r, NEW s, NEW u, Kept(s, r), Kept(u, s)
    PROVE  Kept(u, r)
  BY DEF Kept

\* A decision about r: no step says that the order is done before it is.
Sound(d, r) ==
    /\ d.action \in {"save", "agent", "write"} /\ Kept(d.run, r)
    /\ d.says \in Sayings /\ d.says.what # "done"

LEMMA DecisionParts ==
    ASSUME NEW action, NEW s, NEW says
    PROVE  /\ Decision(action, s, says).action = action /\ Decision(action, s, says).run = s
           /\ Decision(action, s, says).says = says
  BY DEF Decision

LEMMA SimpleDecisions ==
    ASSUME NEW r \in RunStates, NEW s, Kept(s, r)
    PROVE  /\ Sound(Cancel(s), r) /\ Sound(ExpireRun(s), r) /\ Sound(HandOn(s), r) /\ Sound(Ask(s), r)
           /\ Sound(Decision("write", s, Nothing), r) /\ Sound(Decision("save", s, Nothing), r)
           /\ Sound(Decision("save", s, Say("failed", r.order)), r)
           /\ Sound(Decision("save", Suspend(s), Say("write", r.order)), r)
           /\ Cancel(s).action = "save" /\ ExpireRun(s).action = "save" /\ Ask(s).action = "save"
           /\ HandOn(s).action = "agent"
  <1>1. s \in RunStates /\ Kept(End(s), r) /\ Kept(Suspend(s), r)
    <2>1. s \in RunStates
      BY DEF Kept
    <2>2. Kept(End(s), s) /\ Kept(Suspend(s), s)
      BY <2>1, RunUpdates
    <2> QED
      BY <2>1, <2>2, KeptTwice
  <1>2. /\ Say("cancelled", s.order) \in Sayings /\ Say("cancelled", s.order).what # "done"
        /\ Say("failed", r.order) \in Sayings /\ Say("failed", r.order).what # "done"
        /\ Say("write", r.order) \in Sayings /\ Say("write", r.order).what # "done"
    BY <1>1 DEF Say, Sayings, RunStates, Outcomes
  <1> QED
    BY <1>1, <1>2, ConstantRecords, DecisionParts DEF Sound, Cancel, ExpireRun, HandOn, Ask

LEMMA SlotDecision ==
    ASSUME NEW r \in RunStates, NEW text
    PROVE  Sound(DecideTransactionSlotResume(r, text), r)
  <1> DEFINE d == DecideTransactionSlotResume(r, text)
             s == [r EXCEPT !.awaiting = "confirmation", !.reprompted = FALSE]
             u == [r EXCEPT !.reprompted = TRUE]
  <1>1. Kept(r, r) /\ Kept(s, r) /\ Kept(u, r)
    BY RunUpdates
  <1>2. d \in {ExpireRun(r), Cancel(r), HandOn(r), Decision("save", Suspend(s), Say("write", r.order)),
               Ask(u)}
    BY DEF DecideTransactionSlotResume
  <1> HIDE DEF d, s, u
  <1>3. Sound(d, r)
    BY <1>1, <1>2, SimpleDecisions
  <1> QED
    BY <1>3 DEF d

LEMMA ConfirmationDecision ==
    ASSUME NEW r \in RunStates, NEW text, NEW m \in Nat
    PROVE  Sound(DecideTransactionConfirmation(r, text, m), r)
  <1> DEFINE d == DecideTransactionConfirmation(r, text, m)
             s == [r EXCEPT !.confirmReprompted = TRUE, !.processed = m]
             u == [r EXCEPT !.processed = m]
  <1>1. Kept(r, r) /\ Kept(s, r) /\ Kept(u, r)
    BY RunUpdates
  <1>2. d \in {ExpireRun(r), Cancel(r), Ask(r), Ask(s), Decision("write", u, Nothing)}
    BY DEF DecideTransactionConfirmation
  <1> HIDE DEF d, s, u
  <1>3. Sound(d, r)
    BY <1>1, <1>2, SimpleDecisions
  <1> QED
    BY <1>3 DEF d

LEMMA DestructiveDecision ==
    ASSUME NEW r \in RunStates, NEW text
    PROVE  Sound(DecideDestructiveManageConfirmation(r, text), r)
  <1> DEFINE d == DecideDestructiveManageConfirmation(r, text)
             s == [r EXCEPT !.reprompted = TRUE]
  <1>1. Kept(r, r) /\ Kept(s, r)
    BY RunUpdates
  <1>2. d \in {HandOn(r), Cancel(r), Decision("write", r, Nothing), Decision("save", s, Nothing)}
    BY DEF DecideDestructiveManageConfirmation
  <1> HIDE DEF d, s
  <1>3. Sound(d, r)
    BY <1>1, <1>2, SimpleDecisions
  <1> QED
    BY <1>3 DEF d

LEMMA ResumeDecision ==
    ASSUME NEW r \in RunStates, NEW w, NEW text, NEW m \in Nat
    PROVE  Sound(DecideResume(w, r, text, m), r)
  BY SlotDecision, ConfirmationDecision, DestructiveDecision DEF DecideResume

LEMMA CategoryDecision ==
    ASSUME NEW r \in RunStates, NEW d \in CategoryVerdicts(r)
    PROVE  Sound(d, r)
  <1> DEFINE s == [r EXCEPT !.awaiting = "slot", !.reprompted = TRUE]
             u == [r EXCEPT !.status = "failed"]
  <1>1. Kept(r, r) /\ Kept(s, r) /\ Kept(u, r) /\ Kept(End(r), r)
    BY RunUpdates
  <1>2. d \in {Decision("write", r, Nothing), Decision("save", End(r), Say("failed", r.order)),
               Decision("save", u, Say("failed", r.order)), Cancel(r), Ask(s)}
    BY DEF CategoryVerdicts
  <1> HIDE DEF s, u
  <1> QED
    BY <1>1, <1>2, SimpleDecisions

-----------------------------------------------------------------------------
(* Steps that move the handler and leave runs and orders alone.             *)

LEMMA InboxUpdate ==
    ASSUME ConversationTypes, NEW i \in Arrived, NEW s \in InboxStates
    PROVE  LET new == [inbox EXCEPT ![i] = s]
           IN  new \in Seq(InboxStates) /\ Len(new) = Len(inbox) /\ DOMAIN new = Arrived
  <1>1. inbox \in Seq(InboxStates) /\ i \in 1..Len(inbox)
    BY DEF ConversationTypes, Arrived
  <1> QED
    BY <1>1, ExceptSeq DEF Arrived

\* What such a step must not do to the invariant.
Moved ==
    /\ UNCHANGED <<script, run, entry, writes, writeLedger>>
    /\ inbox' \in Seq(InboxStates) /\ Len(inbox') <= Len(script)
    /\ handler' \in HandlerStates /\ told' \subseteq Sayings
    /\ handler'.pc # "idle" => handler'.msg \in DOMAIN inbox'
    /\ Confirmed(handler'.says) /\ \A s \in told' : Confirmed(s)
    /\ \A m \in Messages : Spent(m) => Spent(m)'
    /\ handler'.pc \in {"start", "started"} => writes[handler'.msg] = 0
    /\ handler'.pc = "insert" => writes[handler'.snap.order] = 1
    /\ handler'.pc = "write" /\ handler'.flow = "destructive" =>
         run["destructive"].status = "suspended" \/ (handler.pc = "write" /\ handler.flow = "destructive")
    /\ HandlerShape'

LEMMA MovesKeep ==
    ASSUME ConversationInv, Moved
    PROVE  ConversationInv'
  <1> USE DEF ConversationInv
  <1>0. /\ script' = script /\ run' = run /\ entry' = entry /\ writes' = writes
        /\ writeLedger' = writeLedger /\ Messages' = Messages
    BY DEF Moved, Messages
  <1>1. ConversationTypes'
    BY <1>0 DEF Moved, ConversationTypes, Arrived
  <1>2. HandlerShape'
    BY DEF Moved
  <1>3. ASSUME NEW m \in Messages, Spent(m) PROVE Spent(m)'
    BY <1>3 DEF Moved
  <1>4. RunsAreOrders'
    <2> SUFFICES ASSUME NEW w \in Workflows
                 PROVE  /\ run[w].status # "none" => run[w].order # NoOrder
                        /\ run[w].order # NoOrder =>
                             /\ run[w].order \in Messages /\ (Spent(run[w].order))'
                             /\ Serves(w, script[run[w].order])
                             /\ run[w].op = Operation(w, script[run[w].order])
                             /\ run[w].target <= entry.version
      BY <1>0 DEF RunsAreOrders
    <2> QED
      BY <1>0, <1>3 DEF RunsAreOrders, Spent
  <1>5. WritesAreDone'
    <2>1. ASSUME NEW m \in Messages, writes[m] = 1 PROVE OrderIsDone(m)'
      <3>1. OrderIsDone(m)
        BY <2>1 DEF WritesAreDone
      <3>2. Spent(m)'
        BY <1>3, <3>1 DEF OrderIsDone
      <3>3. handler'.msg = m => handler'.pc \notin {"start", "started"}
        BY <2>1 DEF Moved
      <3>4. script[m] = "create and delete" =>
              \/ entry.deleted
              \/ run["destructive"].order = m =>
                   /\ run["destructive"].status # "suspended"
                   /\ ~(handler'.pc = "write" /\ handler'.flow = "destructive")
        BY <3>1 DEF OrderIsDone, Moved
      <3> QED
        BY <1>0, <3>1, <3>2, <3>3, <3>4 DEF OrderIsDone
    <2>2. Confirmed(handler.says)' /\ \A s \in told' : Confirmed(s)'
      BY <1>0 DEF Moved, Confirmed
    <2>3. handler'.pc = "insert" => writes[handler'.snap.order] = 1
      BY DEF Moved
    <2> QED
      BY <1>0, <2>1, <2>2, <2>3 DEF WritesAreDone
  <1> QED
    BY <1>1, <1>2, <1>4, <1>5

\* The handler as the invariant has it.
LEMMA HandlerFacts ==
    ASSUME ConversationInv
    PROVE  /\ handler \in HandlerStates /\ script \in Seq(Texts) /\ inbox \in Seq(InboxStates)
           /\ Len(inbox) <= Len(script) /\ Arrived = 1..Len(inbox) /\ Arrived \subseteq Messages
           /\ handler.pc # "idle" => handler.msg \in Arrived /\ handler.msg \in Messages
           /\ told \subseteq Sayings /\ Confirmed(handler.says) /\ \A s \in told : Confirmed(s)
           /\ run \in [Workflows -> RunStates] /\ writes \in [Messages -> Nat]
           /\ entry \in [version : Nat, deleted : BOOLEAN]
           /\ \A m \in Messages : m \in Nat \ {0} /\ m # Idle.msg
           /\ HandlerShape /\ Confirmed(Nothing) /\ Confirmed(Idle.says)
  BY ConstantRecords DEF ConversationInv, ConversationTypes, WritesAreDone, Messages, Arrived, Confirmed

\* The order of a message whose tools are due has not taken effect.
LEMMA DueToolUnwritten ==
    ASSUME ConversationInv, handler.pc # "idle", ~Spent(handler.msg) \/ handler.pc \in {"start", "started"}
    PROVE  writes[handler.msg] = 0
  <1>1. handler.msg \in Messages /\ writes[handler.msg] \in 0..1
    <2>1. handler.msg \in Messages /\ writes[handler.msg] \in Nat
      BY HandlerFacts
    <2>2. writes[handler.msg] <= 1
      BY <2>1 DEF ConversationInv, WritesAreDone
    <2> QED
      BY <2>1, <2>2
  <1>2. writes[handler.msg] # 1
    BY <1>1 DEF ConversationInv, WritesAreDone, OrderIsDone
  <1> QED
    BY <1>1, <1>2

\* The event is left: the handler is idle again.
LEMMA LeavesKeep ==
    ASSUME ConversationInv, handler.pc # "idle", handler' = Idle,
           UNCHANGED <<script, run, entry, writes, writeLedger>>,
           NEW s \in InboxStates, inbox' = [inbox EXCEPT ![handler.msg] = s],
           told' \in {told, told \cup {handler.says}},
           dedup \subseteq dedup' \/ /\ dedup' = dedup \ {handler.msg} /\ handler.pc = "compensate"
                                     /\ handler.inTime
    PROVE  ConversationInv'
  <1>1. handler' \in HandlerStates /\ handler'.pc = "idle" /\ handler'.msg = 0
        /\ Confirmed(handler'.says)
    BY ConstantRecords, HandlerFacts
  <1>2. inbox' \in Seq(InboxStates) /\ Len(inbox') <= Len(script)
    BY HandlerFacts, InboxUpdate DEF ConversationInv
  <1>3. told' \subseteq Sayings /\ \A x \in told' : Confirmed(x)
    BY HandlerFacts DEF HandlerStates
  <1>4. ASSUME NEW m \in Messages, Spent(m) PROVE Spent(m)'
    BY <1>1, <1>4, HandlerFacts DEF Spent
  <1>5. HandlerShape'
    BY <1>1 DEF HandlerShape
  <1> QED
    BY <1>1, <1>2, <1>3, <1>4, <1>5, MovesKeep DEF Moved

LEMMA EventSteps ==
    ASSUME ConversationInv,
           \/ RouteMessage \/ TakeEvent \/ DedupEvent \/ DedupFails \/ CompensateDedup
           \/ CompensationFails \/ SendReply \/ MarkLost \/ SendFails \/ Crash
    PROVE  ConversationInv'
  <1>1. CASE RouteMessage
    <2>1. /\ inbox' \in Seq(InboxStates) /\ Len(inbox') = Len(inbox) + 1
          /\ UNCHANGED <<script, run, entry, writes, writeLedger, handler, told, dedup>>
      <3>1. PICK s \in InboxStates : inbox' = Append(inbox, s)
        BY <1>1 DEF RouteMessage, InboxStates
      <3>2. inbox \in Seq(InboxStates)
        BY HandlerFacts
      <3>3. inbox' \in Seq(InboxStates) /\ Len(inbox') = Len(inbox) + 1
        BY <3>1, <3>2
      <3> QED
        BY <1>1, <3>3 DEF RouteMessage, history
    <2>2. Len(inbox') <= Len(script) /\ (handler.pc # "idle" => handler.msg \in DOMAIN inbox')
      BY <1>1, <2>1, HandlerFacts DEF RouteMessage
    <2>3. HandlerShape'
      BY <2>1, HandlerFacts DEF HandlerShape, Suspended
    <2>4. \A m \in Messages : Spent(m) => Spent(m)'
      BY <2>1 DEF Spent
    <2>5. /\ handler.pc \in {"start", "started"} => writes[handler.msg] = 0
          /\ handler.pc = "insert" => writes[handler.snap.order] = 1
      BY DueToolUnwritten DEF ConversationInv, WritesAreDone
    <2> QED
      BY <2>1, <2>2, <2>3, <2>4, <2>5, HandlerFacts, MovesKeep DEF Moved
  <1>2. CASE TakeEvent
    <2>1. PICK m \in Arrived : /\ inbox' = [inbox EXCEPT ![m] = "taken"]
                               /\ handler' = [Idle EXCEPT !.pc = "dedup", !.msg = m]
      BY <1>2 DEF TakeEvent, Open
    <2>2. /\ handler' \in HandlerStates /\ handler'.pc = "dedup" /\ handler'.msg = m
          /\ handler'.says = Nothing
      BY <2>1, HandlerFacts, ConstantRecords DEF HandlerStates
    <2>3. inbox' \in Seq(InboxStates) /\ Len(inbox') = Len(inbox) /\ DOMAIN inbox' = Arrived
      BY <2>1, InboxUpdate DEF ConversationInv, InboxStates
    <2>4. \A n \in Messages : Spent(n) => Spent(n)'
      BY <1>2, <2>2 DEF Spent, TakeEvent
    <2>5. HandlerShape'
      BY <2>2 DEF HandlerShape
    <2> QED
      BY <1>2, <2>2, <2>3, <2>4, <2>5, HandlerFacts, MovesKeep DEF Moved, TakeEvent, history
  <1>3. CASE DedupEvent /\ handler.msg \in dedup
    BY <1>3, LeavesKeep DEF DedupEvent, Published, InboxStates, history
  <1>4. CASE DedupEvent /\ handler.msg \notin dedup
    <2>1. /\ handler.pc = "dedup" /\ dedup' = dedup \cup {handler.msg}
          /\ handler' = [handler EXCEPT !.pc = "resolve"] /\ inbox' = inbox
          /\ UNCHANGED <<script, run, entry, writes, writeLedger, told>>
      BY <1>4 DEF DedupEvent, Continue, history
    <2>2. /\ handler' \in HandlerStates /\ handler'.pc = "resolve" /\ handler'.msg = handler.msg
          /\ handler'.says = handler.says
      BY <2>1, HandlerFacts DEF HandlerStates, Working
    <2>3. \A n \in Messages : Spent(n) => Spent(n)'
      BY <1>4, <2>1, <2>2 DEF Spent
    <2>4. HandlerShape'
      BY <2>1, <2>2 DEF HandlerShape
    <2> QED
      BY <2>1, <2>2, <2>3, <2>4, HandlerFacts, MovesKeep DEF Moved
  <1>5. CASE CompensateDedup
    <2>1. \E s \in InboxStates : inbox' = [inbox EXCEPT ![handler.msg] = s]
      BY <1>5 DEF CompensateDedup, Failed, InboxStates
    <2> QED
      BY <1>5, <2>1, LeavesKeep DEF CompensateDedup, Dedup, history
  <1>6. CASE SendReply \/ MarkLost
    <2>1. told' \in {told, told \cup {handler.says}}
      BY <1>6 DEF SendReply, MarkLost, ReplyArrives
    <2>2. \E s \in InboxStates : inbox' = [inbox EXCEPT ![handler.msg] = s]
      BY <1>6 DEF SendReply, MarkLost, Published, InboxStates
    <2> QED
      BY <1>6, <2>1, <2>2, LeavesKeep DEF SendReply, MarkLost, ReplyArrives
  <1>7. CASE SendFails
    <2>1. \E s \in InboxStates : inbox' = [inbox EXCEPT ![handler.msg] = s]
      BY <1>7 DEF SendFails, Failed, InboxStates
    <2> QED
      BY <1>7, <2>1, LeavesKeep DEF SendFails
  <1>8. CASE Crash
    BY <1>8, LeavesKeep DEF Crash, InboxStates
  <1>9. CASE DedupFails \/ CompensationFails
    <2>1. \E s \in InboxStates : inbox' = [inbox EXCEPT ![handler.msg] = s]
      BY <1>9 DEF DedupFails, CompensationFails, Failed, InboxStates
    <2> QED
      BY <1>9, <2>1, LeavesKeep DEF DedupFails, CompensationFails
  <1> QED
    BY <1>1, <1>2, <1>3, <1>4, <1>5, <1>6, <1>7, <1>8, <1>9

\* The handler goes on with its message.
Turned ==
    /\ UNCHANGED <<script, inbox, dedup, run, entry, writes, writeLedger, told>>
    /\ handler.pc \notin {"idle", "dedup"}
    /\ handler' \in HandlerStates /\ handler'.msg = handler.msg /\ Confirmed(handler'.says)
    /\ handler.pc \in {"start", "started", "reply", "compensate"} =>
         handler'.pc \in {"start", "started", "reply"} \/ (handler'.pc = "compensate" /\ ~handler'.inTime)
    /\ handler'.pc \in {"start", "started"} => handler.pc \in {"agent", "start", "started"}
    /\ handler'.pc = "insert" => writes[handler'.snap.order] = 1
    /\ handler'.pc = "write" /\ handler'.flow = "destructive" => run["destructive"].status = "suspended"
    /\ HandlerShape'

LEMMA TurnsKeep ==
    ASSUME ConversationInv, Turned
    PROVE  ConversationInv'
  <1>1. handler'.pc \in {"start", "started"} => writes[handler'.msg] = 0
    <2>1. handler.pc = "agent" => ~Spent(handler.msg)
      BY DEF Spent
    <2> QED
      BY <2>1, DueToolUnwritten DEF Turned
  <1>2. ASSUME NEW m \in Messages, Spent(m) PROVE Spent(m)'
    BY <1>2 DEF Spent, Turned
  <1>3. handler'.pc # "idle" => handler'.msg \in DOMAIN inbox'
    BY HandlerFacts DEF Turned, Arrived
  <1> QED
    BY <1>1, <1>2, <1>3, HandlerFacts, MovesKeep DEF Turned, Moved

\* A turn that ends at a place of which the invariant says nothing.
LEMMA PlainTurn ==
    ASSUME ConversationInv, handler.pc \notin {"idle", "dedup"},
           UNCHANGED <<script, inbox, dedup, run, entry, writes, writeLedger, told>>,
           handler' \in HandlerStates, handler'.msg = handler.msg, Confirmed(handler'.says),
           handler'.pc \in {"agent", "compensate", "reply"},
           handler.pc \in {"start", "started", "reply", "compensate"} =>
             handler'.pc = "reply" \/ (handler'.pc = "compensate" /\ ~handler'.inTime)
    PROVE  ConversationInv'
  <1>1. HandlerShape'
    BY HandlerFacts DEF HandlerShape
  <1> QED
    BY <1>1, TurnsKeep DEF Turned

LEMMA ResolveStep ==
    ASSUME ConversationInv, ResolveSuspendedRun
    PROVE  ConversationInv'
  <1>0. /\ handler.pc = "resolve" /\ UNCHANGED <<script, inbox, dedup, run, entry, writes, writeLedger, told>>
        /\ handler \in HandlerStates
    BY HandlerFacts DEF ResolveSuspendedRun, history
  <1>1. CASE Continue("agent") \/ Continue("compensate")
    <2>1. /\ handler' \in HandlerStates /\ handler'.msg = handler.msg /\ handler'.says = handler.says
          /\ handler'.pc \in {"agent", "compensate"}
      BY <1>0, <1>1 DEF Continue, HandlerStates, Working
    <2> QED
      BY <1>0, <2>1, HandlerFacts, PlainTurn
  <1>2. CASE \E w \in Suspended : Suspended = {w} /\ handler' = [handler EXCEPT !.pc = "resume", !.flow = w]
    <2>1. PICK w \in Workflows : /\ Suspended = {w}
                                 /\ handler' = [handler EXCEPT !.pc = "resume", !.flow = w]
      BY <1>2 DEF Suspended
    <2>2. /\ handler' \in HandlerStates /\ handler'.msg = handler.msg /\ handler'.says = handler.says
          /\ handler'.pc = "resume" /\ handler'.flow = w
      BY <1>0, <2>1 DEF HandlerStates, Working
    <2>3. HandlerShape'
      BY <1>0, <2>1, <2>2, HandlerFacts DEF HandlerShape, Suspended
    <2> QED
      BY <1>0, <2>2, <2>3, HandlerFacts, TurnsKeep DEF Turned
  <1> QED
    BY <1>1, <1>2 DEF ResolveSuspendedRun

LEMMA ResumeStep ==
    ASSUME ConversationInv, ResumeRun
    PROVE  ConversationInv'
  <1> DEFINE r == run[handler.flow]
             d == DecideResume(handler.flow, r, script[handler.msg], handler.msg)
  <1>0. /\ handler.pc = "resume" /\ UNCHANGED <<script, inbox, dedup, run, entry, writes, writeLedger, told>>
        /\ handler \in HandlerStates /\ handler.flow \in Workflows /\ r \in RunStates
        /\ handler.msg \in Nat
    BY HandlerFacts DEF ResumeRun, history, HandlerStates
  <1>1. CASE Continue("agent")
    <2>1. /\ handler' \in HandlerStates /\ handler'.msg = handler.msg /\ handler'.says = handler.says
          /\ handler'.pc = "agent"
      BY <1>0, <1>1 DEF Continue, HandlerStates, Working
    <2> QED
      BY <1>0, <2>1, HandlerFacts, PlainTurn
  <1>2. ASSUME r.status = "suspended",
               NEW v \in (IF d.action = "write" THEN CategoryVerdicts(d.run) ELSE {d}),
               Follow(v)
        PROVE  ConversationInv'
    <2>1. Sound(v, r)
      <3>1. Sound(d, r)
        BY <1>0, ResumeDecision
      <3>2. ASSUME v \in CategoryVerdicts(d.run) PROVE Sound(v, r)
        <4>1. Kept(d.run, r) /\ d.run \in RunStates
          BY <3>1 DEF Sound, Kept
        <4>2. Sound(v, d.run)
          BY <3>2, <4>1, CategoryDecision
        <4> QED
          BY <4>1, <4>2, KeptTwice DEF Sound
      <3> QED
        BY <1>2, <3>1, <3>2
    <2> HIDE DEF d
    <2>2. r.order # NoOrder
      BY <1>0, <1>2 DEF ConversationInv, RunsAreOrders
    <2>3. /\ v.run \in RunStates /\ v.says \in Sayings /\ Confirmed(v.says)
          /\ v.run.order = r.order /\ v.run.op = r.op /\ v.run.target = r.target
      BY <2>1 DEF Sound, Kept, Confirmed
    <2> DEFINE pc == IF v.action # "write" THEN "save" ELSE IF handler.flow = "write" THEN "find" ELSE "write"
               after == IF v.action = "agent" THEN "agent" ELSE "reply"
    <2>4. /\ handler' = [handler EXCEPT !.snap = v.run, !.says = v.says, !.pc = pc, !.after = after]
          /\ pc \in {"save", "find", "write"} /\ after \in {"reply", "agent"}
          /\ pc = "find" => handler.flow = "write"
      BY <1>2 DEF Follow
    <2> HIDE DEF pc, after
    <2>5. /\ handler' \in HandlerStates /\ handler'.msg = handler.msg /\ handler'.says = v.says
          /\ handler'.pc = pc /\ handler'.flow = handler.flow /\ handler'.snap = v.run
      BY <1>0, <2>3, <2>4 DEF HandlerStates, Working
    <2>6. HandlerShape'
      <3>1. handler'.msg \in dedup' /\ Suspended' = Suspended /\ Suspended \subseteq {handler.flow}
        BY <1>0, <2>5, HandlerFacts DEF HandlerShape, Suspended
      <3> QED
        BY <1>0, <2>2, <2>3, <2>4, <2>5, <3>1 DEF HandlerShape
    <2> QED
      BY <1>0, <1>2, <2>3, <2>4, <2>5, <2>6, TurnsKeep DEF Turned
  <1> QED
    BY <1>1, <1>2 DEF ResumeRun

LEMMA CallFailsStep ==
    ASSUME ConversationInv, CallFails
    PROVE  ConversationInv'
  <1>0. /\ handler.pc \in {"resolve", "resume", "save", "agent"}
        /\ UNCHANGED <<script, inbox, dedup, run, entry, writes, writeLedger, told>>
        /\ handler \in HandlerStates /\ run[handler.flow] \in RunStates
    BY HandlerFacts DEF CallFails, history, HandlerStates
  <1> DEFINE says == Say("failed", run[handler.flow].order)
  <1>1. says \in Sayings /\ Confirmed(says)
    BY <1>0 DEF Say, Sayings, Outcomes, Confirmed, RunStates
  <1>2. \/ handler' = [handler EXCEPT !.pc = "reply", !.says = says]
        \/ handler' = [handler EXCEPT !.pc = "compensate"]
    BY <1>0 DEF CallFails, ResumeFails, ReplyWith, Continue
  <1> HIDE DEF says
  <1>3. /\ handler' \in HandlerStates /\ handler'.msg = handler.msg
        /\ handler'.says \in {says, handler.says} /\ handler'.pc \in {"reply", "compensate"}
    BY <1>0, <1>1, <1>2 DEF HandlerStates
  <1>4. Confirmed(handler'.says)
    BY <1>1, <1>3, HandlerFacts
  <1> QED
    BY <1>0, <1>3, <1>4, PlainTurn

\* What the write path says, and that it stays with the order of its run.
LEMMA WritePath ==
    ASSUME ConversationInv, handler.pc \in {"find", "write", "insert"}
    PROVE  /\ handler \in HandlerStates /\ handler.snap \in RunStates /\ handler.flow \in Workflows
           /\ handler.msg \in dedup /\ Suspended \subseteq {handler.flow}
           /\ Order = run[handler.flow].order /\ Order \in Messages
           /\ Kept(handler.snap, handler.snap)
           /\ handler.snap.op = run[handler.flow].op /\ handler.snap.target = run[handler.flow].target
           /\ Say("done", Order) \in Sayings /\ Say("failed", Order) \in Sayings
           /\ Say("duplicate", Order) \in Sayings
           /\ Confirmed(Say("failed", Order)) /\ Confirmed(Say("duplicate", Order))
           /\ writes[Order] = 1 => Confirmed(Say("done", Order))
  <1>1. /\ handler \in HandlerStates /\ handler.snap \in RunStates /\ handler.flow \in Workflows
        /\ Order \in Nat
    BY HandlerFacts DEF HandlerStates, Order, RunStates
  <1>2. /\ handler.msg \in dedup /\ Suspended \subseteq {handler.flow}
        /\ Order = run[handler.flow].order /\ Order # NoOrder
        /\ handler.snap.op = run[handler.flow].op /\ handler.snap.target = run[handler.flow].target
    BY HandlerFacts DEF HandlerShape, Order
  <1>3. Order \in Messages
    BY <1>1, <1>2 DEF ConversationInv, RunsAreOrders
  <1> QED
    BY <1>1, <1>2, <1>3 DEF Kept, Say, Sayings, Outcomes, Confirmed

\* The step of a write ends: with its state, and what is said of it.
LEMMA EndsWrite ==
    ASSUME ConversationInv, handler.pc \in {"find", "write", "insert"}, NEW s, Kept(s, handler.snap),
           NEW says \in Sayings,
           handler' = [handler EXCEPT !.pc = "save", !.snap = s, !.says = says],
           UNCHANGED <<run, dedup>>
    PROVE  /\ handler' \in HandlerStates /\ handler'.msg = handler.msg /\ handler'.says = says
           /\ handler'.pc = "save" /\ HandlerShape'
  <1>1. /\ handler' \in HandlerStates /\ handler'.msg = handler.msg /\ handler'.says = says
        /\ handler'.pc = "save" /\ handler'.flow = handler.flow /\ handler'.snap = s
    BY WritePath DEF Kept, HandlerStates, Working
  <1>2. /\ s.order = run[handler.flow].order /\ s.op = run[handler.flow].op
        /\ s.target = run[handler.flow].target /\ s.order # NoOrder
    BY WritePath, HandlerFacts DEF Kept, Order, NoOrder
  <1>3. Suspended' = Suspended
    BY DEF Suspended
  <1>4. HandlerShape'
    BY <1>1, <1>2, <1>3, WritePath DEF HandlerShape
  <1> QED
    BY <1>1, <1>4

LEMMA StepEnds ==
    ASSUME ConversationInv, handler.pc \in {"find", "write", "insert"}
    PROVE  /\ Succeed => /\ Kept(End(handler.snap), handler.snap)
                         /\ handler' = [handler EXCEPT !.pc = "save", !.snap = End(handler.snap),
                                                       !.says = Say("done", Order)]
           /\ StepFails => \E s : /\ Kept(s, handler.snap)
                                  /\ handler' = [handler EXCEPT !.pc = "save", !.snap = s,
                                                                !.says = Say("failed", Order)]
  <1>1. /\ Kept(End(handler.snap), handler.snap)
        /\ Kept([handler.snap EXCEPT !.status = "failed"], handler.snap)
    BY WritePath, RunUpdates
  <1>2. StepFails => handler' = [handler EXCEPT !.pc = "save",
                                                !.snap = [handler.snap EXCEPT !.status = "failed"],
                                                !.says = Say("failed", Order)]
    BY WritePath DEF StepFails, HandlerStates
  <1> QED
    BY <1>1, <1>2 DEF Succeed

LEMMA FindStep ==
    ASSUME ConversationInv, FindByKey
    PROVE  ConversationInv'
  <1>0. /\ handler.pc = "find" /\ UNCHANGED <<script, inbox, dedup, run, entry, writes, writeLedger, told>>
    BY DEF FindByKey, history
  <1>1. CASE Order \in writeLedger
    <2>1. Succeed /\ writes[Order] = 1
      BY <1>1 DEF FindByKey, ConversationInv, WritesAreDone
    <2>2. /\ handler' \in HandlerStates /\ handler'.msg = handler.msg
          /\ handler'.says = Say("done", Order) /\ handler'.pc = "save" /\ HandlerShape'
      <3>1. /\ Kept(End(handler.snap), handler.snap)
            /\ handler' = [handler EXCEPT !.pc = "save", !.snap = End(handler.snap),
                                          !.says = Say("done", Order)]
        BY <1>0, <2>1, StepEnds
      <3>2. Say("done", Order) \in Sayings
        BY <1>0, WritePath
      <3> QED
        BY <1>0, <3>1, <3>2, EndsWrite
    <2> QED
      BY <1>0, <2>1, <2>2, WritePath, TurnsKeep DEF Turned
  <1>2. CASE Order \notin writeLedger
    <2>1. handler' = [handler EXCEPT !.pc = "write"] /\ handler.flow = "write"
      BY <1>0, <1>2, HandlerFacts DEF FindByKey, Continue, HandlerShape
    <2>2. /\ handler' \in HandlerStates /\ handler'.msg = handler.msg /\ handler'.says = handler.says
          /\ handler'.pc = "write" /\ handler'.flow = handler.flow /\ handler'.snap = handler.snap
      BY <1>0, <2>1, HandlerFacts DEF HandlerStates, Working
    <2>3. HandlerShape'
      BY <1>0, <2>2, HandlerFacts DEF HandlerShape, Suspended
    <2> QED
      BY <1>0, <2>1, <2>2, <2>3, HandlerFacts, TurnsKeep DEF Turned
  <1> QED
    BY <1>1, <1>2

LEMMA WriteCallFailsStep ==
    ASSUME ConversationInv, WriteCallFails
    PROVE  ConversationInv'
  <1>0. /\ handler.pc \in {"find", "write", "insert"}
        /\ UNCHANGED <<script, inbox, dedup, run, entry, writes, writeLedger, told>>
    BY DEF WriteCallFails, history
  <1>1. CASE StepFails
    <2>1. /\ handler' \in HandlerStates /\ handler'.msg = handler.msg
          /\ handler'.says = Say("failed", Order) /\ handler'.pc = "save" /\ HandlerShape'
      BY <1>0, <1>1, StepEnds, EndsWrite, WritePath, ZenonT(30)
    <2> QED
      BY <1>0, <2>1, WritePath, TurnsKeep DEF Turned
  <1>2. CASE handler.flow = "write" /\ handler' = [handler EXCEPT !.pc = "find", !.tries = 2]
    <2>2. /\ handler' \in HandlerStates /\ handler'.msg = handler.msg /\ handler'.says = handler.says
          /\ handler'.pc = "find" /\ handler'.flow = handler.flow /\ handler'.snap = handler.snap
      BY <1>0, <1>2, HandlerFacts DEF HandlerStates, Working
    <2>3. HandlerShape'
      BY <1>0, <1>2, <2>2, HandlerFacts DEF HandlerShape, Suspended
    <2> QED
      BY <1>0, <2>2, <2>3, HandlerFacts, TurnsKeep DEF Turned
  <1> QED
    BY <1>1, <1>2 DEF WriteCallFails

\* The tools of an answer, one after the other.
LEMMA ToolsOf ==
    ASSUME NEW text
    PROVE  /\ ToolsFor(text) \in ToolLists
           /\ \A i \in DOMAIN ToolsFor(text) : Serves(ToolsFor(text)[i], text)
  <1> DEFINE tools == ToolsFor(text)
  <1>1. \/ text \in {"create", "recur", "edit"} /\ tools = <<"write">>
        \/ text = "delete" /\ tools = <<"destructive">>
        \/ text = "create and delete" /\ tools = <<"write", "destructive">>
        \/ tools = <<>>
    BY DEF ToolsFor
  <1> HIDE DEF tools
  <1>2. tools \in ToolLists
    BY <1>1 DEF ToolLists
  <1>3. \A i \in DOMAIN tools : Serves(tools[i], text)
    <2>1. CASE text \in {"create", "recur", "edit"} /\ tools = <<"write">>
      <3>1. tools[1] = "write" /\ DOMAIN tools = {1} /\ Serves("write", text)
        <4>1. tools[1] = "write" /\ DOMAIN tools = {1}
          BY <2>1
        <4>2. Serves("write", text)
          BY <2>1 DEF Serves
        <4> QED
          BY <4>1, <4>2
      <3>2. ASSUME NEW i \in DOMAIN tools PROVE Serves(tools[i], text)
        <4>1. tools[i] = "write"
          BY <3>1
        <4> QED
          BY <3>1, <4>1
      <3> QED
        BY <3>2
    <2>2. CASE text = "delete" /\ tools = <<"destructive">>
      BY <2>2 DEF Serves
    <2>3. CASE text = "create and delete" /\ tools = <<"write", "destructive">>
      BY <2>3 DEF Serves
    <2>4. CASE tools = <<>>
      BY <2>4
    <2> QED
      BY <1>1, <2>1, <2>2, <2>3, <2>4
  <1> QED
    BY <1>2, <1>3 DEF tools

LEMMA ToolListFacts ==
    ASSUME NEW tools \in ToolLists, tools # <<>>
    PROVE  /\ Head(tools) \in Workflows /\ Head(tools) = tools[1] /\ 1 \in DOMAIN tools
           /\ Tail(tools) \in ToolLists
           /\ \A i \in DOMAIN Tail(tools) : i + 1 \in DOMAIN tools /\ Tail(tools)[i] = tools[i + 1]
           /\ Len(tools) # 1 => Tail(tools) # <<>>
  <1>1. ASSUME NEW w \in Workflows, tools = <<w>>
        PROVE  /\ Head(tools) = w /\ tools[1] = w /\ 1 \in DOMAIN tools /\ Len(tools) = 1
               /\ Tail(tools) = <<>>
    BY <1>1
  <1>2. CASE tools = <<"write", "destructive">>
    <2> DEFINE rest == Tail(tools)
    <2>1. rest = <<"destructive">>
      BY <1>2
    <2>2. /\ Head(tools) = "write" /\ tools[1] = "write" /\ tools[2] = "destructive" /\ Len(tools) = 2
          /\ DOMAIN tools = {1, 2}
      BY <1>2
    <2> HIDE DEF rest
    <2>3. rest[1] = "destructive" /\ DOMAIN rest = {1} /\ rest # <<>> /\ rest \in ToolLists
      BY <2>1 DEF ToolLists
    <2> QED
      BY <2>2, <2>3 DEF rest, Workflows
  <1>3. <<>> \in ToolLists /\ DOMAIN <<>> = {}
    BY DEF ToolLists
  <1>4. tools = <<"write">> \/ tools = <<"destructive">> \/ tools = <<"write", "destructive">>
    BY DEF ToolLists
  <1>5. "write" \in Workflows /\ "destructive" \in Workflows
    BY DEF Workflows
  <1>6. CASE tools = <<"write">>
    BY <1>1, <1>3, <1>5, <1>6
  <1>7. CASE tools = <<"destructive">>
    BY <1>1, <1>3, <1>5, <1>7
  <1> QED
    BY <1>2, <1>4, <1>6, <1>7

LEMMA AgentStep ==
    ASSUME ConversationInv, AgentTurn
    PROVE  ConversationInv'
  <1> DEFINE tools == ToolsFor(script[handler.msg])
  <1>0. /\ handler.pc = "agent" /\ UNCHANGED <<script, inbox, dedup, run, entry, writes, writeLedger, told>>
        /\ handler \in HandlerStates
        /\ handler' = [handler EXCEPT !.pc = IF tools = <<>> THEN "reply" ELSE "start",
                                      !.tools = tools, !.says = Nothing]
    BY HandlerFacts DEF AgentTurn, history
  <1>1. tools \in ToolLists /\ \A i \in DOMAIN tools : Serves(tools[i], script[handler.msg])
    BY ToolsOf
  <1> HIDE DEF tools
  <1>2. /\ handler' \in HandlerStates /\ handler'.msg = handler.msg /\ handler'.says = Nothing
        /\ handler'.pc = (IF tools = <<>> THEN "reply" ELSE "start") /\ handler'.tools = tools
    BY <1>0, <1>1, ConstantRecords DEF HandlerStates, Working
  <1>3. HandlerShape'
    BY <1>0, <1>1, <1>2, HandlerFacts DEF HandlerShape
  <1> QED
    BY <1>0, <1>2, <1>3, HandlerFacts, TurnsKeep DEF Turned

\* The turn goes on to the next tool, or to the reply.
LEMMA NextToolState ==
    ASSUME ConversationInv, handler.pc \in {"start", "started"}, NEW says \in Sayings, NextTool(says),
           says.what # "done", UNCHANGED <<script, dedup>>
    PROVE  /\ handler' \in HandlerStates /\ handler'.msg = handler.msg
           /\ handler'.says \in {says, Fallback} /\ Confirmed(handler'.says)
           /\ handler'.pc \in {"start", "reply"} /\ handler'.inTime = handler.inTime /\ HandlerShape'
  <1> DEFINE rest == Tail(handler.tools)
             pc == IF Len(handler.tools) = 1 THEN "reply" ELSE "start"
             new == IF handler.says = Fallback THEN Fallback ELSE says
  <1>0. /\ handler \in HandlerStates /\ handler.tools \in ToolLists /\ handler.tools # <<>>
        /\ handler.msg \in dedup
        /\ \A i \in DOMAIN handler.tools : Serves(handler.tools[i], script[handler.msg])
    BY HandlerFacts DEF HandlerStates, HandlerShape
  <1>1. /\ rest \in ToolLists /\ (pc = "start" => rest # <<>>) /\ pc \in {"start", "reply"}
        /\ \A i \in DOMAIN rest : Serves(rest[i], script[handler.msg])
        /\ new \in Sayings /\ new \in {says, Fallback} /\ Confirmed(new)
    BY <1>0, ToolListFacts, ConstantRecords DEF Confirmed
  <1>2. handler' = [handler EXCEPT !.tools = rest, !.pc = pc, !.says = new]
    BY <1>0 DEF NextTool, HandlerStates
  <1> HIDE DEF rest, pc, new
  <1>3. /\ handler' \in HandlerStates /\ handler'.msg = handler.msg /\ handler'.says = new
        /\ handler'.pc = pc /\ handler'.tools = rest /\ handler'.inTime = handler.inTime
    BY <1>0, <1>1, <1>2 DEF HandlerStates, Working
  <1>4. HandlerShape'
    BY <1>0, <1>1, <1>3 DEF HandlerShape
  <1> QED
    BY <1>1, <1>3, <1>4

LEMMA ToolFailsStep ==
    ASSUME ConversationInv, ToolFails
    PROVE  ConversationInv'
  <1>1. /\ handler.pc \in {"start", "started"}
        /\ UNCHANGED <<script, inbox, dedup, run, entry, writes, writeLedger, told>>
    BY DEF ToolFails
  <1>2. PICK says \in {Fallback, Nothing} : NextTool(says)
    BY DEF ToolFails
  <1>3. /\ handler' \in HandlerStates /\ handler'.msg = handler.msg /\ Confirmed(handler'.says)
        /\ handler'.pc \in {"start", "reply"} /\ HandlerShape'
    BY <1>1, <1>2, NextToolState, ConstantRecords
  <1> QED
    BY <1>1, <1>3, TurnsKeep DEF Turned

LEMMA TimeOutStep ==
    ASSUME ConversationInv, TimeOut
    PROVE  ConversationInv'
  <1> DEFINE pc == IF handler.pc = "reply" THEN "reply" ELSE "compensate"
  <1>0. /\ handler.pc \in Working \cup {"reply"} /\ handler \in HandlerStates
        /\ UNCHANGED <<script, inbox, dedup, run, entry, writes, writeLedger, told>>
        /\ handler' = [handler EXCEPT !.inTime = FALSE, !.pc = pc]
    BY HandlerFacts DEF TimeOut, HandlerStates
  <1>1. pc \in {"reply", "compensate"} /\ (handler.pc = "reply" => pc = "reply")
    OBVIOUS
  <1> HIDE DEF pc
  <1>2. /\ handler' \in HandlerStates /\ handler'.msg = handler.msg /\ handler'.says = handler.says
        /\ handler'.pc = pc /\ ~handler'.inTime
    BY <1>0, <1>1 DEF HandlerStates
  <1>3. handler.pc \notin {"idle", "dedup"}
    BY <1>0 DEF Working
  <1> QED
    BY <1>0, <1>1, <1>2, <1>3, HandlerFacts, PlainTurn

-----------------------------------------------------------------------------
(* Steps that change a run.                                                 *)

LEMMA RunChangeKeeps ==
    ASSUME ConversationInv, UNCHANGED <<script, inbox, dedup, entry, writes, writeLedger, told>>,
           run' \in [Workflows -> RunStates],
           handler' \in HandlerStates, handler'.msg = handler.msg, Confirmed(handler'.says),
           handler'.pc # "idle" => handler.pc # "idle",
           \A m \in Messages : Spent(m) => Spent(m)',
           handler'.pc \in {"start", "started"} => handler.pc \in {"start", "started"},
           handler'.pc = "insert" => handler.pc = "insert" /\ handler'.snap = handler.snap,
           handler'.pc = "write" => handler.pc = "write" /\ handler'.flow = handler.flow,
           \A w \in Workflows :
             \/ writes[run'[w].order] = 0
             \/ /\ run'[w].order = run[w].order /\ run'[w].target = run[w].target
                /\ run'[w].status = "suspended" => run[w].status = "suspended",
           HandlerShape', RunsAreOrders'
    PROVE  ConversationInv'
  <1>0. Messages' = Messages /\ Arrived' = Arrived
    BY DEF Messages, Arrived
  <1>1. ConversationTypes'
    BY <1>0 DEF ConversationInv, ConversationTypes
  <1>2. ASSUME NEW m \in Messages, writes[m] = 1 PROVE OrderIsDone(m)'
    <2>1. OrderIsDone(m)
      BY <1>2 DEF ConversationInv, WritesAreDone
    <2>2. Spent(m)' /\ (handler'.msg = m => handler'.pc \notin {"start", "started"})
      BY <2>1 DEF OrderIsDone
    <2>3. \A w \in Workflows : run'[w].order = m =>
            /\ run[w].order = m /\ run'[w].target = run[w].target
            /\ run'[w].status = "suspended" => run[w].status = "suspended"
      BY <1>2
    <2>4. "write" \in Workflows /\ "destructive" \in Workflows
      BY DEF Workflows
    <2>5. script[m] = "edit" /\ run'["write"].order = m => run'["write"].target < entry.version
      BY <2>1, <2>3, <2>4 DEF OrderIsDone
    <2>6. script[m] = "create and delete" =>
            \/ entry.deleted
            \/ run'["destructive"].order = m =>
                 /\ run'["destructive"].status # "suspended"
                 /\ ~(handler'.pc = "write" /\ handler'.flow = "destructive")
      BY <2>1, <2>3, <2>4 DEF OrderIsDone
    <2> QED
      BY <2>1, <2>2, <2>5, <2>6 DEF OrderIsDone
  <1>3. WritesAreDone'
    <2>1. Confirmed(handler.says)' /\ \A s \in told' : Confirmed(s)'
      BY <1>0, HandlerFacts DEF Confirmed
    <2>2. handler'.pc = "insert" => writes[handler'.snap.order] = 1
      BY DEF ConversationInv, WritesAreDone
    <2> QED
      BY <1>0, <1>2, <2>1, <2>2 DEF ConversationInv, WritesAreDone
  <1> QED
    BY <1>1, <1>3 DEF ConversationInv

\* The state of a suspended run changes, its order does not.
LEMMA SuspendedRunKeeps ==
    ASSUME ConversationInv, NEW w \in Workflows, run[w].status = "suspended",
           NEW s, Kept(s, run[w]), run' = [run EXCEPT ![w] = s],
           UNCHANGED <<script, inbox, dedup, entry, writes, writeLedger, told>>,
           \/ handler' = handler
           \/ /\ handler' \in HandlerStates /\ handler'.msg = handler.msg /\ handler'.says = handler.says
              /\ handler.pc = "save" /\ handler'.pc \in {"agent", "reply"}
    PROVE  ConversationInv'
  <1>1. /\ run' \in [Workflows -> RunStates] /\ run'[w] = s
        /\ \A v \in Workflows \ {w} : run'[v] = run[v]
        /\ \A v \in Workflows :
             /\ run'[v].order = run[v].order /\ run'[v].op = run[v].op /\ run'[v].target = run[v].target
             /\ run'[v].status = "suspended" => run[v].status = "suspended"
    BY HandlerFacts DEF Kept
  <1>2. \A m \in Messages : Spent(m) => Spent(m)'
    BY DEF Spent
  <1>3. handler' \in HandlerStates /\ handler'.msg = handler.msg /\ handler'.says = handler.says
    BY HandlerFacts
  <1>4. HandlerShape'
    <2>1. CASE handler' = handler
      <3>1. Suspended' \subseteq Suspended
        BY <1>1 DEF Suspended
      <3>2. handler.flow \in Workflows /\ handler.tools \in ToolLists
        BY HandlerFacts DEF HandlerStates
      <3>3. handler.tools # <<>> => Head(handler.tools) \in Workflows
        BY <3>2, ToolListFacts
      <3> QED
        BY <1>1, <2>1, <3>1, <3>2, <3>3, HandlerFacts DEF HandlerShape
    <2>2. CASE handler.pc = "save" /\ handler'.pc \in {"agent", "reply"}
      BY <1>3, <2>2, HandlerFacts DEF HandlerShape
    <2> QED
      BY <2>1, <2>2
  <1>5. RunsAreOrders'
    <2> SUFFICES ASSUME NEW v \in Workflows
                 PROVE  /\ run'[v].status # "none" => run'[v].order # NoOrder
                        /\ run'[v].order # NoOrder =>
                             /\ run'[v].order \in Messages' /\ (Spent(run[v].order))'
                             /\ Serves(v, script[run'[v].order])
                             /\ run'[v].op = Operation(v, script[run'[v].order])
                             /\ run'[v].target <= entry.version
      BY DEF RunsAreOrders
    <2>1. run[w].order # NoOrder /\ Messages' = Messages
      BY DEF ConversationInv, RunsAreOrders, Messages
    <2>2. run'[v].status # "none" => run[v].order # NoOrder
      BY <1>1, <2>1 DEF ConversationInv, RunsAreOrders
    <2>3. run[v].order # NoOrder =>
            /\ run[v].order \in Messages /\ Spent(run[v].order) /\ Serves(v, script[run[v].order])
            /\ run[v].op = Operation(v, script[run[v].order]) /\ run[v].target <= entry.version
      BY DEF ConversationInv, RunsAreOrders
    <2> QED
      BY <1>1, <1>2, <2>1, <2>2, <2>3 DEF Spent
  <1>6. /\ handler'.pc # "idle" => handler.pc # "idle"
        /\ handler'.pc \in {"start", "started"} => handler.pc \in {"start", "started"}
        /\ handler'.pc = "insert" => handler.pc = "insert" /\ handler'.snap = handler.snap
        /\ handler'.pc = "write" => handler.pc = "write" /\ handler'.flow = handler.flow
    OBVIOUS
  <1> QED
    BY <1>1, <1>2, <1>3, <1>4, <1>5, <1>6, HandlerFacts, RunChangeKeeps

LEMMA SaveStep ==
    ASSUME ConversationInv, SaveRun
    PROVE  ConversationInv'
  <1>0. /\ handler.pc = "save" /\ handler \in HandlerStates /\ handler.flow \in Workflows
        /\ UNCHANGED <<script, inbox, dedup, entry, writes, writeLedger, told>>
        /\ run \in [Workflows -> RunStates]
    BY HandlerFacts DEF SaveRun, history, HandlerStates
  <1>1. CASE /\ run[handler.flow].status = "suspended"
             /\ run' = [run EXCEPT ![handler.flow] = handler.snap]
             /\ Continue(handler.after)
    <2>1. Kept(handler.snap, run[handler.flow])
      BY <1>0, HandlerFacts DEF HandlerShape, Kept, HandlerStates
    <2>2. /\ handler' \in HandlerStates /\ handler'.msg = handler.msg /\ handler'.says = handler.says
          /\ handler'.pc \in {"agent", "reply"}
      BY <1>0, <1>1 DEF Continue, HandlerStates, Working
    <2> QED
      BY <1>0, <1>1, <2>1, <2>2, SuspendedRunKeeps
  <1>2. CASE /\ run[handler.flow].status # "suspended" /\ UNCHANGED run
             /\ IF handler.flow = "write" THEN ResumeFails ELSE ReplyWith(Nothing)
    <2> DEFINE says == IF handler.flow = "write" THEN Say("failed", run[handler.flow].order) ELSE Nothing
    <2>1. says \in Sayings /\ Confirmed(says)
      BY <1>0, ConstantRecords DEF Say, Sayings, Outcomes, Confirmed, RunStates
    <2>2. handler' = [handler EXCEPT !.pc = "reply", !.says = says]
      BY <1>2 DEF ResumeFails, ReplyWith
    <2> HIDE DEF says
    <2>3. /\ handler' \in HandlerStates /\ handler'.msg = handler.msg /\ handler'.says = says
          /\ handler'.pc = "reply"
      BY <1>0, <2>1, <2>2 DEF HandlerStates
    <2> QED
      BY <1>0, <1>2, <2>1, <2>3, PlainTurn
  <1> QED
    BY <1>1, <1>2 DEF SaveRun

LEMMA OtherRunSteps ==
    ASSUME ConversationInv, NEW w \in Workflows, RunGetsOld(w) \/ ReapStaleRun(w)
    PROVE  ConversationInv'
  <1>0. /\ UNCHANGED <<script, inbox, dedup, entry, writes, writeLedger, told, handler>>
        /\ run[w].status = "suspended" /\ run[w] \in RunStates
    BY HandlerFacts DEF RunGetsOld, ReapStaleRun, history
  <1>1. CASE RunGetsOld(w)
    <2>1. run' = [run EXCEPT ![w] = [run[w] EXCEPT !.old = TRUE]]
      BY <1>1 DEF RunGetsOld
    <2>2. Kept([run[w] EXCEPT !.old = TRUE], run[w])
      BY <1>0, RunUpdates
    <2> QED
      BY <1>0, <2>1, <2>2, SuspendedRunKeeps
  <1>2. CASE ReapStaleRun(w)
    <2>1. run' = [run EXCEPT ![w] = [run[w] EXCEPT !.status = "failed"]]
      BY <1>2 DEF ReapStaleRun
    <2>2. Kept([run[w] EXCEPT !.status = "failed"], run[w])
      BY <1>0, RunUpdates
    <2> QED
      BY <1>0, <2>1, <2>2, SuspendedRunKeeps
  <1> QED
    BY <1>1, <1>2

\* The run a tool starts.
LEMMA NewRunState ==
    ASSUME ConversationInv, NEW w \in Workflows, handler.msg \in Messages,
           Serves(w, script[handler.msg]), NEW q \in FirstQuestions(w)
    PROVE  LET s == NewRun(w, q)
           IN  /\ s \in RunStates /\ s.status = "running" /\ s.order = handler.msg
               /\ s.op = Operation(w, script[handler.msg]) /\ s.target = entry.version
  <1>1. q \in {"slot", "search", "confirmation", "nothing"}
    BY DEF FirstQuestions
  <1>2. Operation(w, script[handler.msg]) \in {"create", "recur", "edit", "delete"}
    BY DEF Operation, Serves, Workflows
  <1>3. handler.msg \in Nat /\ entry.version \in Nat /\ NoRun \in RunStates
    BY HandlerFacts, ConstantRecords
  <1> QED
    BY <1>1, <1>2, <1>3 DEF NewRun, RunStates

\* A run starts, or is suspended for the first time.
LEMMA FreshRunKeeps ==
    ASSUME ConversationInv, handler.pc \in {"start", "started"}, NEW w \in Workflows,
           Serves(w, script[handler.msg]),
           NEW s \in RunStates, run' = [run EXCEPT ![w] = s], s.order = handler.msg,
           s.op = Operation(w, script[handler.msg]), s.target <= entry.version,
           UNCHANGED <<script, inbox, dedup, entry, writes, writeLedger, told>>,
           handler' \in HandlerStates, handler'.msg = handler.msg, Confirmed(handler'.says),
           handler'.pc \in {"start", "started", "reply"}, HandlerShape'
    PROVE  ConversationInv'
  <1>1. handler.msg \in Messages /\ handler.msg # NoOrder /\ handler.msg \in dedup /\ Messages' = Messages
    BY HandlerFacts DEF HandlerShape, NoOrder, Messages
  <1>2. writes[handler.msg] = 0
    BY DueToolUnwritten
  <1>3. \A m \in Messages : Spent(m) => Spent(m)'
    BY DEF Spent
  <1>4. /\ run' \in [Workflows -> RunStates] /\ run'[w] = s
        /\ \A v \in Workflows \ {w} : run'[v] = run[v]
    BY HandlerFacts
  <1>5. RunsAreOrders'
    <2>1. Spent(handler.msg)'
      BY <1>1 DEF Spent
    <2>2. ASSUME NEW v \in Workflows, v # w
          PROVE  /\ run'[v].status # "none" => run'[v].order # NoOrder
                 /\ run'[v].order # NoOrder =>
                      /\ run'[v].order \in Messages' /\ (Spent(run[v].order))'
                      /\ Serves(v, script'[run'[v].order])
                      /\ run'[v].op = Operation(v, script'[run'[v].order])
                      /\ run'[v].target <= entry'.version
      BY <1>1, <1>3, <1>4, <2>2 DEF ConversationInv, RunsAreOrders, Spent
    <2>3. /\ run'[w].status # "none" => run'[w].order # NoOrder
          /\ run'[w].order # NoOrder =>
               /\ run'[w].order \in Messages' /\ (Spent(run[w].order))'
               /\ Serves(w, script'[run'[w].order])
               /\ run'[w].op = Operation(w, script'[run'[w].order])
               /\ run'[w].target <= entry'.version
      BY <1>1, <1>4, <2>1 DEF Spent
    <2> QED
      BY <2>2, <2>3 DEF RunsAreOrders
  <1>6. \A v \in Workflows :
          \/ writes[run'[v].order] = 0
          \/ /\ run'[v].order = run[v].order /\ run'[v].target = run[v].target
             /\ run'[v].status = "suspended" => run[v].status = "suspended"
    BY <1>2, <1>4
  <1> QED
    BY <1>3, <1>4, <1>5, <1>6, HandlerFacts, RunChangeKeeps

\* The tool that is due.
LEMMA DueTool ==
    ASSUME ConversationInv, handler.pc \in {"start", "started"}
    PROVE  LET w == Head(handler.tools)
           IN  /\ w \in Workflows /\ Serves(w, script[handler.msg]) /\ handler.msg \in Messages
               /\ handler \in HandlerStates
               /\ handler.pc = "started" => run[w].order = handler.msg
  <1>1. handler.tools \in ToolLists /\ handler.tools # <<>>
    BY HandlerFacts DEF HandlerStates, HandlerShape
  <1>2. /\ Head(handler.tools) \in Workflows /\ Head(handler.tools) = handler.tools[1]
        /\ 1 \in DOMAIN handler.tools
    BY <1>1, ToolListFacts
  <1> QED
    BY <1>2, HandlerFacts DEF HandlerShape

LEMMA StartStep ==
    ASSUME ConversationInv, StartRun
    PROVE  ConversationInv'
  <1> DEFINE w == Head(handler.tools)
  <1>0. /\ handler.pc = "start" /\ UNCHANGED <<script, inbox, dedup, entry, writes, writeLedger, told>>
        /\ w \in Workflows /\ Serves(w, script[handler.msg]) /\ handler.msg \in Messages
        /\ handler \in HandlerStates
    BY DueTool DEF StartRun, history
  <1>1. CASE NextTool(Nothing) /\ UNCHANGED run
    <2>1. /\ handler' \in HandlerStates /\ handler'.msg = handler.msg /\ Confirmed(handler'.says)
          /\ handler'.pc \in {"start", "reply"} /\ HandlerShape'
      BY <1>0, <1>1, NextToolState, ConstantRecords
    <2> QED
      BY <1>0, <1>1, <2>1, TurnsKeep DEF Turned
  <1>2. ASSUME NEW q \in FirstQuestions(w), run' = [run EXCEPT ![w] = NewRun(w, q)], Continue("started")
        PROVE  ConversationInv'
    <2> DEFINE s == NewRun(w, q)
    <2>1. /\ s \in RunStates /\ s.status = "running" /\ s.order = handler.msg
          /\ s.op = Operation(w, script[handler.msg]) /\ s.target = entry.version
      BY <1>0, NewRunState
    <2>2. run' = [run EXCEPT ![w] = s]
      BY <1>2
    <2> HIDE DEF s
    <2>3. /\ handler' \in HandlerStates /\ handler'.msg = handler.msg /\ handler'.says = handler.says
          /\ handler'.pc = "started" /\ handler'.tools = handler.tools
      BY <1>0, <1>2 DEF Continue, HandlerStates, Working
    <2>4. run'[w].order = handler.msg
      BY <1>0, <2>1, <2>2, HandlerFacts
    <2>5. HandlerShape'
      BY <1>0, <2>3, <2>4, HandlerFacts DEF HandlerShape
    <2>6. s.target <= entry.version /\ Confirmed(handler'.says)
      BY <2>1, <2>3, HandlerFacts
    <2> HIDE DEF w
    <2> QED
      BY <1>0, <2>1, <2>2, <2>3, <2>5, <2>6, FreshRunKeeps
  <1> QED
    BY <1>1, <1>2 DEF StartRun

LEMMA SaveStartedStep ==
    ASSUME ConversationInv, SaveStartedRun
    PROVE  ConversationInv'
  <1> DEFINE w == Head(handler.tools)
             s == IF run[w].awaiting = "nothing" THEN End(run[w]) ELSE Suspend(run[w])
             q == IF run[w].awaiting = "confirmation" THEN Say(w, run[w].order) ELSE Nothing
  <1>0. /\ handler.pc = "started" /\ UNCHANGED <<script, inbox, dedup, entry, writes, writeLedger, told>>
        /\ w \in Workflows /\ Serves(w, script[handler.msg]) /\ handler.msg \in Messages
        /\ run[w].order = handler.msg /\ NextTool(q) /\ run[w] \in RunStates
    BY DueTool, HandlerFacts DEF SaveStartedRun
  <1>1. run' = [run EXCEPT ![w] = s]
    BY DEF SaveStartedRun
  <1>2. Kept(s, run[w]) /\ q \in Sayings /\ q.what # "done"
    BY <1>0, RunUpdates, ConstantRecords DEF Say, Sayings, Outcomes, RunStates, Workflows
  <1> HIDE DEF s, w, q
  <1>3. /\ s \in RunStates /\ s.order = handler.msg /\ s.op = Operation(w, script[handler.msg])
        /\ s.target <= entry.version
    <2>1. handler.msg # NoOrder
      BY <1>0, HandlerFacts DEF NoOrder
    <2>2. run[w].op = Operation(w, script[handler.msg]) /\ run[w].target <= entry.version
      BY <1>0, <2>1 DEF ConversationInv, RunsAreOrders
    <2> QED
      BY <1>0, <1>2, <2>2 DEF Kept
  <1>4. /\ handler' \in HandlerStates /\ handler'.msg = handler.msg /\ Confirmed(handler'.says)
        /\ handler'.pc \in {"start", "reply"} /\ HandlerShape'
    BY <1>0, <1>2, NextToolState
  <1> QED
    BY <1>0, <1>1, <1>3, <1>4, FreshRunKeeps

-----------------------------------------------------------------------------
(* The write of an order.                                                   *)

\* What the effect of an order may do to the entry and to the orders.
TakenEffect ==
    \/ writes' = writes
    \/ /\ writes[Order] = 0 /\ writes' = [writes EXCEPT ![Order] = 1]
       /\ script[Order] = "edit" /\ run["write"].order = Order => run["write"].target < entry'.version
       /\ script[Order] = "delete" => entry'.deleted
       /\ script[Order] = "create and delete" => entry'.deleted \/ handler.flow = "write"

Effect ==
    /\ handler.pc \in {"write", "insert"} /\ UNCHANGED <<script, inbox, dedup, run, told>>
    /\ entry' \in [version : Nat, deleted : BOOLEAN] /\ entry'.version >= entry.version
    /\ entry.deleted => entry'.deleted
    /\ TakenEffect
    /\ writeLedger' = writeLedger \/ (writeLedger' = writeLedger \cup {Order} /\ writes'[Order] = 1)
    /\ handler' \in HandlerStates /\ handler'.msg = handler.msg /\ handler'.pc \in {"insert", "save"}
    /\ \/ handler'.says = handler.says
       \/ handler'.says.what = "done" => handler'.says.order = Order /\ writes'[Order] = 1
    /\ handler'.pc = "insert" => handler'.snap = handler.snap /\ writes'[Order] = 1
    /\ HandlerShape'

LEMMA OrdersBounded ==
    ASSUME ConversationInv
    PROVE  \A m \in Messages : writes[m] \in 0..1 /\ (writes[m] = 1 => OrderIsDone(m))
  <1>1. writes \in [Messages -> Nat]
    BY HandlerFacts
  <1>2. \A m \in Messages : writes[m] <= 1 /\ (writes[m] = 1 => OrderIsDone(m))
    BY DEF ConversationInv, WritesAreDone
  <1> QED
    BY <1>1, <1>2

LEMMA EffectOrders ==
    ASSUME ConversationInv, Effect
    PROVE  /\ Order \in Messages /\ Messages' = Messages /\ writes' \in [Messages -> Nat]
           /\ \A m \in Messages : writes'[m] \in 0..1
           /\ \A m \in Messages : writes[m] = 1 => writes'[m] = 1
           /\ \A m \in Messages : writes'[m] = 1 => writes[m] = 1 \/ (m = Order /\ writes' # writes)
           /\ \A m \in Messages : Spent(m) => Spent(m)'
           /\ Spent(Order)
  <1>1. /\ Order \in Messages /\ Order # NoOrder /\ Order = run[handler.flow].order
        /\ handler.flow \in Workflows
    BY HandlerFacts, WritePath DEF Effect, NoOrder
  <1>2. Spent(Order)
    BY <1>1 DEF ConversationInv, RunsAreOrders
  <1>3. \A m \in Messages : Spent(m) => Spent(m)'
    BY DEF Spent, Effect
  <1>4. writes \in [Messages -> Nat] /\ \A m \in Messages : writes[m] \in 0..1
    BY HandlerFacts, OrdersBounded
  <1>5. Messages' = Messages
    BY DEF Effect, Messages
  <1>6. writes' = writes \/ (writes[Order] = 0 /\ writes' = [writes EXCEPT ![Order] = 1])
    BY DEF Effect, TakenEffect
  <1>7. /\ writes' \in [Messages -> Nat]
        /\ \A m \in Messages : writes'[m] \in 0..1
        /\ \A m \in Messages : writes[m] = 1 => writes'[m] = 1
        /\ \A m \in Messages : writes'[m] = 1 => writes[m] = 1 \/ (m = Order /\ writes' # writes)
    <2>1. CASE writes' = writes
      BY <1>4, <2>1
    <2>2. CASE writes[Order] = 0 /\ writes' = [writes EXCEPT ![Order] = 1]
      <3>1. /\ writes' \in [Messages -> Nat] /\ writes'[Order] = 1
            /\ \A m \in Messages : m # Order => writes'[m] = writes[m]
        BY <1>1, <1>4, <2>2
      <3> QED
        BY <1>4, <2>2, <3>1
    <2> QED
      BY <1>6, <2>1, <2>2
  <1> QED
    BY <1>1, <1>2, <1>3, <1>5, <1>7

LEMMA EffectKeeps ==
    ASSUME ConversationInv, Effect
    PROVE  ConversationInv'
  <1>0. /\ Messages' = Messages /\ Arrived' = Arrived /\ Order \in Messages
        /\ script' = script /\ run' = run /\ HandlerShape'
    BY EffectOrders DEF Effect, Arrived
  <1>1. ConversationTypes'
    <2>1. handler'.msg \in Arrived'
      BY <1>0, HandlerFacts DEF Effect
    <2> QED
      BY <1>0, <2>1, EffectOrders, HandlerFacts DEF Effect, ConversationTypes
  <1>2. /\ \A m \in Messages : Spent(m) => Spent(m)'
        /\ \A m \in Messages : writes[m] = 1 => writes'[m] = 1
    BY EffectOrders
  <1>3. entry.version \in Nat /\ entry'.version \in Nat /\ entry'.version >= entry.version
    BY HandlerFacts DEF Effect
  <1>4. RunsAreOrders'
    <2> SUFFICES ASSUME NEW w \in Workflows
                 PROVE  /\ run[w].status # "none" => run[w].order # NoOrder
                        /\ run[w].order # NoOrder =>
                             /\ run[w].order \in Messages /\ (Spent(run[w].order))'
                             /\ Serves(w, script[run[w].order])
                             /\ run[w].op = Operation(w, script[run[w].order])
                             /\ run[w].target <= entry'.version
      BY <1>0 DEF RunsAreOrders
    <2>1. /\ run[w].status # "none" => run[w].order # NoOrder
          /\ run[w].order # NoOrder =>
               /\ run[w].order \in Messages /\ Spent(run[w].order)
               /\ Serves(w, script[run[w].order]) /\ run[w].op = Operation(w, script[run[w].order])
               /\ run[w].target <= entry.version
      BY DEF ConversationInv, RunsAreOrders
    <2>2. run[w].target \in Nat
      BY HandlerFacts DEF RunStates
    <2>3. run[w].order # NoOrder => (Spent(run[w].order))'
      BY <1>0, <1>2, <2>1 DEF Spent
    <2> QED
      BY <1>3, <2>1, <2>2, <2>3
  <1>5. ASSUME NEW m \in Messages, writes'[m] = 1 PROVE OrderIsDone(m)'
    <2>0. handler'.pc \in {"insert", "save"} /\ (entry.deleted => entry'.deleted)
      BY DEF Effect
    <2>1. CASE writes[m] = 1
      <3>1. OrderIsDone(m)
        BY <2>1, OrdersBounded
      <3>2. Spent(m)'
        BY <1>2, <3>1 DEF OrderIsDone
      <3>3. script[m] = "edit" /\ run["write"].order = m => run["write"].target < entry'.version
        <4>1. run["write"].target \in Nat
          BY HandlerFacts DEF RunStates, Workflows
        <4> QED
          BY <1>3, <3>1, <4>1 DEF OrderIsDone
      <3>4. /\ script[m] = "delete" => entry.deleted
            /\ script[m] = "create and delete" =>
                 \/ entry.deleted
                 \/ run["destructive"].order = m => run["destructive"].status # "suspended"
        BY <3>1 DEF OrderIsDone
      <3> QED
        BY <1>0, <2>0, <3>2, <3>3, <3>4 DEF OrderIsDone
    <2>2. CASE m = Order /\ writes' # writes
      <3>1. /\ script[Order] = "edit" /\ run["write"].order = Order =>
                 run["write"].target < entry'.version
            /\ script[Order] = "delete" => entry'.deleted
            /\ script[Order] = "create and delete" => entry'.deleted \/ handler.flow = "write"
        BY <2>2 DEF Effect, TakenEffect
      <3>2. Spent(m)'
        BY <1>2, <2>2, EffectOrders
      <3>3. handler.flow = "write" => run["destructive"].status # "suspended"
        <4>1. Suspended \subseteq {handler.flow}
          BY WritePath DEF Effect
        <4> QED
          BY <4>1 DEF Suspended, Workflows
      <3> QED
        BY <1>0, <2>0, <2>2, <3>1, <3>2, <3>3 DEF OrderIsDone
    <2> QED
      BY <1>5, <2>1, <2>2, EffectOrders
  <1>6. WritesAreDone'
    <2>1. \A m \in Messages : writes'[m] <= 1 /\ (writes'[m] = 1 => OrderIsDone(m)')
      BY <1>5, EffectOrders
    <2>2. \A m \in writeLedger' : m \in Messages /\ writes'[m] = 1
      BY <1>0, <1>2 DEF ConversationInv, WritesAreDone, Effect
    <2>3. \A s \in told' : Confirmed(s)'
      BY <1>0, <1>2, HandlerFacts DEF Confirmed, Effect
    <2>4. Confirmed(handler.says)'
      <3>1. Confirmed(handler.says)
        BY HandlerFacts
      <3>2. CASE handler'.says = handler.says
        BY <1>0, <1>2, <3>1, <3>2 DEF Confirmed
      <3>3. CASE handler'.says.what = "done" => handler'.says.order = Order /\ writes'[Order] = 1
        BY <1>0, <3>3 DEF Confirmed
      <3> QED
        BY <3>2, <3>3 DEF Effect
    <2>5. handler'.pc = "insert" => writes'[handler'.snap.order] = 1
      BY DEF Order, Effect
    <2> QED
      BY <1>0, <2>1, <2>2, <2>3, <2>4, <2>5 DEF WritesAreDone
  <1> QED
    BY <1>0, <1>1, <1>4, <1>6 DEF ConversationInv

LEMMA InsertStep ==
    ASSUME ConversationInv, InsertLedgerRow
    PROVE  ConversationInv'
  <1>0. /\ handler.pc = "insert" /\ UNCHANGED <<script, inbox, dedup, run, entry, writes, told>>
        /\ writeLedger' = writeLedger \cup {Order} /\ Succeed /\ writes[Order] = 1
        /\ entry \in [version : Nat, deleted : BOOLEAN]
    BY HandlerFacts DEF InsertLedgerRow, history, ConversationInv, WritesAreDone, Order
  <1>1. /\ Kept(End(handler.snap), handler.snap)
        /\ handler' = [handler EXCEPT !.pc = "save", !.snap = End(handler.snap),
                                      !.says = Say("done", Order)]
    BY <1>0, StepEnds
  <1>2. Say("done", Order) \in Sayings
    BY <1>0, WritePath
  <1>3. /\ handler' \in HandlerStates /\ handler'.msg = handler.msg
        /\ handler'.says = Say("done", Order) /\ handler'.pc = "save" /\ HandlerShape'
    BY <1>0, <1>1, <1>2, EndsWrite
  <1> QED
    BY <1>0, <1>3, EffectKeeps DEF Say, Effect, TakenEffect

\* After its effect a write goes to the ledger, a deletion is told at once.
LEMMA AfterWriteState ==
    ASSUME ConversationInv, handler.pc = "write", AfterWrite, UNCHANGED <<run, dedup>>
    PROVE  /\ handler' \in HandlerStates /\ handler'.msg = handler.msg
           /\ handler'.pc \in {"insert", "save"} /\ HandlerShape'
           /\ handler'.says \in {handler.says, Say("done", Order)}
           /\ handler'.pc = "insert" => handler'.snap = handler.snap
  <1>1. CASE handler.flow = "write"
    <2>1. handler' = [handler EXCEPT !.pc = "insert"]
      BY <1>1 DEF AfterWrite, Continue
    <2>2. /\ handler' \in HandlerStates /\ handler'.msg = handler.msg /\ handler'.says = handler.says
          /\ handler'.pc = "insert" /\ handler'.flow = handler.flow /\ handler'.snap = handler.snap
      BY <2>1, HandlerFacts DEF HandlerStates, Working
    <2>3. HandlerShape'
      BY <1>1, <2>2, HandlerFacts DEF HandlerShape, Suspended
    <2> QED
      BY <2>2, <2>3
  <1>2. CASE handler.flow # "write"
    <2>1. /\ Kept(End(handler.snap), handler.snap)
          /\ handler' = [handler EXCEPT !.pc = "save", !.snap = End(handler.snap),
                                        !.says = Say("done", Order)]
      BY <1>2, StepEnds DEF AfterWrite
    <2>2. Say("done", Order) \in Sayings
      BY WritePath
    <2> QED
      BY <2>1, <2>2, EndsWrite
  <1> QED
    BY <1>1, <1>2

\* A write ends without effect: what is said is not that it was done.
LEMMA NoEffectKeeps ==
    ASSUME ConversationInv, handler.pc = "write", NEW s, Kept(s, handler.snap),
           NEW what \in {"failed", "duplicate"},
           handler' = [handler EXCEPT !.pc = "save", !.snap = s, !.says = Say(what, Order)],
           UNCHANGED <<script, inbox, dedup, run, entry, writes, writeLedger, told>>
    PROVE  ConversationInv'
  <1>1. Say(what, Order) \in Sayings /\ Confirmed(Say(what, Order))
    BY WritePath
  <1>2. /\ handler' \in HandlerStates /\ handler'.msg = handler.msg
        /\ handler'.says = Say(what, Order) /\ handler'.pc = "save" /\ HandlerShape'
    BY <1>1, EndsWrite
  <1> QED
    BY <1>1, <1>2, TurnsKeep DEF Turned

\* What the order of a write is, by its operation.
LEMMA OrderOf ==
    ASSUME ConversationInv, handler.pc = "write"
    PROVE  /\ handler.snap.op \in {"create", "recur"} =>
                /\ handler.flow = "write" /\ script[Order] \notin {"edit", "delete"}
           /\ handler.snap.op = "recur" => script[Order] = "recur"
           /\ handler.snap.op = "edit" => handler.flow = "write" /\ script[Order] = "edit"
           /\ handler.snap.op = "delete" =>
                handler.flow = "destructive" /\ script[Order] \in {"delete", "create and delete"}
           /\ handler.snap.target = run[handler.flow].target
           /\ run[handler.flow].target <= entry.version
  <1>1. /\ handler.flow \in Workflows /\ Order \in Messages /\ Order = run[handler.flow].order
        /\ handler.snap.op = run[handler.flow].op /\ handler.snap.target = run[handler.flow].target
    BY WritePath
  <1>2. Order # NoOrder
    BY <1>1, HandlerFacts DEF NoOrder
  <1>3. /\ Serves(handler.flow, script[Order])
        /\ handler.snap.op = Operation(handler.flow, script[Order])
        /\ run[handler.flow].target <= entry.version
    BY <1>1, <1>2 DEF ConversationInv, RunsAreOrders
  <1> QED
    BY <1>1, <1>3 DEF Serves, Operation, Workflows

LEMMA WriteStep ==
    ASSUME ConversationInv, WriteOrder
    PROVE  ConversationInv'
  <1>0. /\ handler.pc = "write" /\ UNCHANGED <<script, inbox, dedup, run, writeLedger, told>>
        /\ Order \in Messages /\ writes \in [Messages -> Nat] /\ writes[Order] \in 0..1
        /\ entry \in [version : Nat, deleted : BOOLEAN]
    <2>1. handler.pc = "write" /\ UNCHANGED <<script, inbox, dedup, run, writeLedger, told>>
      BY DEF WriteOrder, history
    <2>2. Order \in Messages
      BY <2>1, WritePath
    <2>3. writes[Order] <= 1
      BY <2>2 DEF ConversationInv, WritesAreDone
    <2> QED
      BY <2>1, <2>2, <2>3, HandlerFacts
  <1>1. ASSUME AfterWrite, writes'[Order] = 1,
               entry' \in [version : Nat, deleted : BOOLEAN], entry'.version >= entry.version,
               entry.deleted => entry'.deleted,
               TakenEffect
        PROVE  ConversationInv'
    <2>1. /\ handler' \in HandlerStates /\ handler'.msg = handler.msg
          /\ handler'.pc \in {"insert", "save"} /\ HandlerShape'
          /\ handler'.says \in {handler.says, Say("done", Order)}
          /\ handler'.pc = "insert" => handler'.snap = handler.snap
      BY <1>0, <1>1, AfterWriteState
    <2>2. \/ handler'.says = handler.says
          \/ handler'.says.what = "done" => handler'.says.order = Order /\ writes'[Order] = 1
      BY <1>1, <2>1 DEF Say
    <2> QED
      BY <1>0, <1>1, <2>1, <2>2, EffectKeeps DEF Effect
  <1>2. writes[Order] = 0 /\ TakesEffect => writes' = [writes EXCEPT ![Order] = 1] /\ writes'[Order] = 1
    BY <1>0 DEF TakesEffect
  <1>3. CASE WriteCreate
    <2>1. /\ handler.flow = "write" /\ script[Order] \notin {"edit", "delete"}
          /\ entry' = entry /\ AfterWrite
      BY <1>0, <1>3, OrderOf DEF WriteCreate
    <2>2. CASE writes[Order] = 0 /\ TakesEffect
      <3>1. TakenEffect
        BY <1>2, <2>1, <2>2 DEF TakenEffect
      <3> QED
        BY <1>0, <1>1, <1>2, <2>1, <2>2, <3>1
    <2>3. CASE writes[Order] > 0 /\ UNCHANGED writes
      <3>1. TakenEffect
        BY <2>3 DEF TakenEffect
      <3>2. writes'[Order] = 1
        BY <1>0, <2>3
      <3> QED
        BY <1>0, <1>1, <2>1, <3>1, <3>2
    <2> QED
      BY <1>3, <2>2, <2>3 DEF WriteCreate
  <1>4. CASE WriteRecurrence
    <2>1. script[Order] = "recur" /\ entry' = entry
      BY <1>0, <1>4, OrderOf DEF WriteRecurrence
    <2>2. CASE ~SameTemplateExists /\ TakesEffect /\ AfterWrite
      <3>1. writes[Order] = 0
        BY <1>0, <2>1, <2>2 DEF SameTemplateExists
      <3>2. TakenEffect
        BY <1>2, <2>1, <2>2, <3>1 DEF TakenEffect
      <3> QED
        BY <1>0, <1>1, <1>2, <2>1, <2>2, <3>1, <3>2
    <2>3. CASE /\ handler' = [handler EXCEPT !.pc = "save", !.snap = End(@), !.says = Say("duplicate", Order)]
               /\ UNCHANGED writes
      <3>1. Kept(End(handler.snap), handler.snap)
        BY <1>0, StepEnds, WritePath, RunUpdates
      <3>2. handler' = [handler EXCEPT !.pc = "save", !.snap = End(handler.snap),
                                       !.says = Say("duplicate", Order)]
        BY <2>3
      <3> QED
        BY <1>0, <2>1, <2>3, <3>1, <3>2, NoEffectKeeps
    <2> QED
      BY <1>4, <2>2, <2>3 DEF WriteRecurrence
  <1>5. ASSUME StepFails, UNCHANGED <<writes, entry>> PROVE ConversationInv'
    <2>1. PICK s : /\ Kept(s, handler.snap)
                   /\ handler' = [handler EXCEPT !.pc = "save", !.snap = s, !.says = Say("failed", Order)]
      BY <1>0, <1>5, StepEnds
    <2> QED
      BY <1>0, <1>5, <2>1, NoEffectKeeps
  <1>6. CASE WriteEdit
    <2>1. CASE OnTarget /\ TakesEffect /\ AfterWrite /\ entry' = [entry EXCEPT !.version = @ + 1]
      <3>1. /\ handler.flow = "write" /\ script[Order] = "edit"
            /\ handler.snap.target = run["write"].target /\ entry.version = handler.snap.target
            /\ run["write"].order = Order
        BY <1>0, <1>6, <2>1, OrderOf, WritePath DEF WriteEdit, OnTarget
      <3>2. run["write"].target \in Nat /\ entry.version \in Nat
        BY HandlerFacts DEF RunStates, Workflows
      <3>3. writes[Order] # 1
        <4> SUFFICES ASSUME writes[Order] = 1 PROVE FALSE
          OBVIOUS
        <4>1. OrderIsDone(Order)
          BY <1>0 DEF ConversationInv, WritesAreDone
        <4> QED
          BY <3>1, <3>2, <4>1 DEF OrderIsDone
      <3>4. /\ entry' \in [version : Nat, deleted : BOOLEAN] /\ entry'.version = entry.version + 1
            /\ entry'.deleted = entry.deleted
        BY <1>0, <2>1
      <3>5. entry'.version >= entry.version /\ run["write"].target < entry'.version
        BY <3>1, <3>2, <3>4
      <3>6. writes[Order] = 0 /\ writes' = [writes EXCEPT ![Order] = 1] /\ writes'[Order] = 1
        BY <1>0, <1>2, <2>1, <3>3
      <3>7. TakenEffect
        BY <3>1, <3>5, <3>6 DEF TakenEffect
      <3> QED
        BY <1>1, <2>1, <3>4, <3>5, <3>6, <3>7
    <2>2. CASE ~OnTarget /\ StepFails /\ UNCHANGED <<writes, entry>>
      BY <1>5, <2>2
    <2> QED
      BY <1>6, <2>1, <2>2 DEF WriteEdit
  <1>7. CASE WriteDelete
    <2>1. CASE OnTarget /\ TakesEffect /\ AfterWrite /\ entry' = [entry EXCEPT !.deleted = TRUE]
      <3>1. /\ handler.flow = "destructive" /\ script[Order] \in {"delete", "create and delete"}
            /\ ~entry.deleted /\ run["destructive"].order = Order
        BY <1>0, <1>7, <2>1, OrderOf, WritePath DEF WriteDelete, OnTarget
      <3>2. writes[Order] # 1
        <4> SUFFICES ASSUME writes[Order] = 1 PROVE FALSE
          OBVIOUS
        <4>1. OrderIsDone(Order)
          BY <1>0 DEF ConversationInv, WritesAreDone
        <4> QED
          BY <1>0, <3>1, <4>1 DEF OrderIsDone
      <3>3. /\ entry' \in [version : Nat, deleted : BOOLEAN] /\ entry'.version = entry.version
            /\ entry'.deleted
        BY <1>0, <2>1
      <3>4. entry'.version >= entry.version
        BY <1>0, <3>3
      <3>5. writes[Order] = 0 /\ writes' = [writes EXCEPT ![Order] = 1] /\ writes'[Order] = 1
        BY <1>0, <1>2, <2>1, <3>2
      <3>6. TakenEffect
        BY <3>1, <3>3, <3>5 DEF TakenEffect
      <3> QED
        BY <1>1, <2>1, <3>1, <3>3, <3>4, <3>5, <3>6
    <2>2. CASE ~OnTarget /\ StepFails /\ UNCHANGED <<writes, entry>>
      BY <1>5, <2>2
    <2> QED
      BY <1>7, <2>1, <2>2 DEF WriteDelete
  <1> QED
    BY <1>3, <1>4, <1>6, <1>7 DEF WriteOrder

LEMMA EditElsewhereStep ==
    ASSUME ConversationInv, EditElsewhere
    PROVE  ConversationInv'
  <1> USE DEF ConversationInv
  <1>0. /\ UNCHANGED <<script, inbox, dedup, run, writes, writeLedger, handler, told>>
        /\ Messages' = Messages
        /\ entry' = [entry EXCEPT !.version = @ + 1] /\ ~entry.deleted
    BY DEF EditElsewhere, history, Messages
  <1>1. /\ entry' \in [version : Nat, deleted : BOOLEAN] /\ entry.version \in Nat
        /\ entry'.version = entry.version + 1 /\ entry'.deleted = entry.deleted
    <2>1. entry \in [version : Nat, deleted : BOOLEAN]
      BY HandlerFacts
    <2>2. entry.version \in Nat /\ entry.version + 1 \in Nat /\ entry.deleted \in BOOLEAN
      BY <2>1
    <2>3. entry' = [entry EXCEPT !.version = entry.version + 1]
      BY <1>0
    <2> HIDE DEF ConversationInv
    <2> QED
      BY <2>1, <2>2, <2>3
  <1>2. \A w \in Workflows : run[w].target \in Nat
    BY HandlerFacts DEF RunStates
  <1>3. \A m : Spent(m)' <=> Spent(m)
    BY <1>0 DEF Spent
  <1>4. ConversationTypes' /\ HandlerShape'
    BY <1>0, <1>1 DEF ConversationTypes, HandlerShape, Arrived, Suspended
  <1>5. RunsAreOrders'
    BY <1>0, <1>1, <1>2, <1>3 DEF RunsAreOrders
  <1>6. ASSUME NEW m, OrderIsDone(m) PROVE OrderIsDone(m)'
    <2>1. run["write"].target < entry.version => run["write"].target < entry'.version
      BY <1>1, <1>2 DEF Workflows
    <2> QED
      BY <1>0, <1>1, <1>3, <1>6, <2>1 DEF OrderIsDone
  <1>7. WritesAreDone'
    BY <1>0, <1>6 DEF WritesAreDone, Confirmed
  <1> QED
    BY <1>4, <1>5, <1>7

LEMMA ConversationInitially ==
    ASSUME ConversationInit PROVE ConversationInv
  <1>1. /\ script \in Seq(Texts) /\ Messages = 1..Len(script) /\ Len(script) \in Nat
        /\ inbox = <<>> /\ inbox \in Seq(InboxStates) /\ Len(inbox) <= Len(script)
    BY ConversationAssumption DEF ConversationInit, Messages
  <1>2. /\ run = [w \in Workflows |-> NoRun] /\ NoRun \in RunStates /\ NoRun.order = NoOrder
        /\ NoRun.status = "none"
        /\ entry \in [version : Nat, deleted : BOOLEAN] /\ writes = [m \in Messages |-> 0]
        /\ handler = Idle /\ Idle \in HandlerStates /\ told = {} /\ writeLedger = {}
        /\ Idle.pc = "idle" /\ Idle.says = Nothing /\ Confirmed(Nothing)
    BY ConstantRecords DEF ConversationInit, NoRun, Confirmed
  <1>3. ConversationTypes
    BY <1>1, <1>2 DEF ConversationTypes
  <1>4. HandlerShape
    BY <1>2 DEF HandlerShape
  <1>5. RunsAreOrders
    BY <1>2 DEF RunsAreOrders
  <1>6. WritesAreDone
    BY <1>2 DEF WritesAreDone
  <1> QED
    BY <1>3, <1>4, <1>5, <1>6 DEF ConversationInv

LEMMA ConversationStep ==
    ASSUME ConversationInv, [ConversationNext]_conversationVars
    PROVE  ConversationInv'
  <1>1. CASE ConversationNext
    <2>1. CASE \/ RouteMessage \/ TakeEvent \/ DedupEvent \/ DedupFails \/ CompensateDedup
               \/ CompensationFails \/ SendReply \/ MarkLost \/ SendFails \/ Crash
      BY <2>1, EventSteps
    <2>2. CASE ResolveSuspendedRun \/ ResumeRun \/ SaveRun \/ CallFails
      BY <2>2, ResolveStep, ResumeStep, SaveStep, CallFailsStep
    <2>3. CASE FindByKey \/ WriteOrder \/ InsertLedgerRow \/ WriteCallFails
      BY <2>3, FindStep, WriteStep, InsertStep, WriteCallFailsStep
    <2>4. CASE AgentTurn \/ StartRun \/ SaveStartedRun \/ ToolFails \/ TimeOut
      BY <2>4, AgentStep, StartStep, SaveStartedStep, ToolFailsStep, TimeOutStep
    <2>5. CASE \E w \in Workflows : RunGetsOld(w) \/ ReapStaleRun(w)
      BY <2>5, OtherRunSteps
    <2>6. CASE EditElsewhere
      BY <2>6, EditElsewhereStep
    <2> QED
      BY <1>1, <2>1, <2>2, <2>3, <2>4, <2>5, <2>6 DEF ConversationNext
  <1>2. CASE UNCHANGED conversationVars
    <2>1. UNCHANGED <<script, inbox, dedup, run, entry, writes, writeLedger, handler, told>>
      BY <1>2 DEF conversationVars
    <2>2. ConversationTypes' /\ HandlerShape'
      BY <2>1 DEF ConversationInv, ConversationTypes, HandlerShape, Arrived, Messages, Suspended
    <2>3. RunsAreOrders'
      BY <2>1 DEF ConversationInv, RunsAreOrders, Spent, Messages
    <2>4. WritesAreDone'
      BY <2>1 DEF ConversationInv, WritesAreDone, OrderIsDone, Spent, Messages, Confirmed
    <2> QED
      BY <2>2, <2>3, <2>4 DEF ConversationInv
  <1> QED
    BY <1>1, <1>2

THEOREM ConversationInvariant == ConversationSpec => []ConversationInv
  BY ConversationInitially, ConversationStep, PTL DEF ConversationSpec

\* However often a confirmed order is executed again, it takes effect once, and
\* the user is told that it did only when it did.
THEOREM OrdersTakeEffectOnce == ConversationSpec => []OneWritePerOrder
  <1>1. ASSUME ConversationInv PROVE OneWritePerOrder
    <2>1. DOMAIN writes = Messages
      BY <1>1, HandlerFacts
    <2> QED
      BY <1>1, <2>1 DEF ConversationInv, WritesAreDone, Confirmed, OneWritePerOrder
  <1> QED
    BY <1>1, ConversationInvariant, PTL

-----------------------------------------------------------------------------
(* The questions of the thread, and its answers.                            *)

\* A run that a yes would execute, and the question it was suspended with.
Details == {"slot", "search"}
Pending(w) == run[w].status = "suspended" /\ run[w].awaiting \notin Details
Question(w) == Say(w, run[w].order)

\* Where that question is: shown last, not shown, or due to be shown. During the
\* turn of the agent, and once the next question is on its way, it is not the one
\* shown last.
Heard ==
    IF handler.pc \in {"start", "started"} \/ (handler.pc = "reply" /\ Asks(handler.says)) THEN {}
    ELSE {asked}
Known == unheard \cup DueQuestion \cup Heard

\* Only what was put to the user, or lost on its way to him, can be confirmed;
\* the step that executes or saves an answer is about such a question.
QuestionInv ==
    /\ asked \in Sayings
    /\ run["destructive"].awaiting \notin Details
    /\ \A w \in Workflows : Pending(w) => Question(w) \in Known
    /\ handler.pc = "agent" => Suspended = {}
    /\ handler.pc \in {"find", "write", "insert"} => Say(handler.flow, Order) \in unheard \cup {asked}
    /\ handler.pc \in {"find", "write", "insert", "save"} /\ handler.flow = "destructive" =>
         handler.snap.awaiting \notin Details
    /\ handler.pc = "save" =>
         /\ handler.after = "agent" => handler.snap.status # "suspended"
         /\ handler.snap.status = "suspended" /\ handler.snap.awaiting \notin Details =>
              IF Asks(handler.says) THEN handler.says = Say(handler.flow, Order)
              ELSE Say(handler.flow, Order) \in unheard \cup {asked}

LEMMA WhatAsks ==
    /\ ~Asks(Nothing) /\ ~Asks(Fallback) /\ \A o : ~Asks(Say("failed", o))
    /\ \A w \in Workflows : \A o : Asks(Say(w, o)) /\ Say(w, o).what = w /\ Say(w, o).order = o
    /\ \A s \in Sayings : s = Say(s.what, s.order)
  BY DEF Asks, Nothing, Fallback, Say, Workflows, Sayings

\* The question of a step is saved with it.
Asking(d, w, r) ==
    /\ d.action = "write" => w = "destructive" \/ r.awaiting \notin Details
    /\ d.action = "agent" => d.run.status # "suspended"
    /\ w = "destructive" => d.run.awaiting = r.awaiting
    /\ d.action # "write" /\ d.run.status = "suspended" /\ d.run.awaiting \notin Details =>
         IF Asks(d.says) THEN w = "write" /\ d.says = Say(w, r.order) ELSE r.awaiting \notin Details

LEMMA EndedAsksNothing ==
    ASSUME NEW r \in RunStates, NEW w
    PROVE  /\ Asking(Cancel(r), w, r) /\ Asking(ExpireRun(r), w, r) /\ Asking(HandOn(r), w, r)
           /\ \A says : Asking(Decision("save", End(r), says), w, r)
  <1>1. End(r).status = "succeeded" /\ End(r).awaiting = r.awaiting
    BY DEF End, RunStates
  <1> QED
    BY <1>1, DecisionParts DEF Asking, Cancel, ExpireRun, HandOn

LEMMA ResumeAsks ==
    ASSUME NEW w \in Workflows, NEW r \in RunStates, NEW text, NEW m \in Nat
    PROVE  Asking(DecideResume(w, r, text, m), w, r)
  <1>0. /\ Asking(Cancel(r), w, r) /\ Asking(ExpireRun(r), w, r) /\ Asking(HandOn(r), w, r)
    BY EndedAsksNothing
  <1>1. CASE w = "destructive"
    <2> DEFINE d == DecideDestructiveManageConfirmation(r, text)
               s == [r EXCEPT !.reprompted = TRUE]
    <2>1. s.awaiting = r.awaiting
      BY DEF RunStates
    <2>2. d \in {HandOn(r), Cancel(r), Decision("write", r, Nothing), Decision("save", s, Nothing)}
      BY DEF DecideDestructiveManageConfirmation
    <2>3. DecideResume(w, r, text, m) = d
      BY <1>1 DEF DecideResume
    <2> HIDE DEF d, s
    <2>4. Asking(Decision("write", r, Nothing), w, r)
      BY <1>1, DecisionParts DEF Asking
    <2>5. Asking(Decision("save", s, Nothing), w, r)
      BY <2>1, DecisionParts, WhatAsks DEF Asking
    <2> QED
      BY <1>0, <2>2, <2>3, <2>4, <2>5
  <1>2. CASE w = "write" /\ r.awaiting \in Details
    <2> DEFINE d == DecideTransactionSlotResume(r, text)
               s == [r EXCEPT !.awaiting = "confirmation", !.reprompted = FALSE]
               u == [r EXCEPT !.reprompted = TRUE]
    <2>1. Suspend(u).awaiting = r.awaiting
      BY DEF RunStates, Suspend
    <2>2. d \in {ExpireRun(r), Cancel(r), HandOn(r), Decision("save", Suspend(s), Say("write", r.order)),
                 Ask(u)}
      BY DEF DecideTransactionSlotResume
    <2>3. DecideResume(w, r, text, m) = d
      BY <1>2 DEF DecideResume, Details
    <2> HIDE DEF d, s, u
    <2>4. Asking(Decision("save", Suspend(s), Say("write", r.order)), w, r)
      BY <1>2, DecisionParts, WhatAsks DEF Asking
    <2>5. Asking(Ask(u), w, r)
      BY <1>2, <2>1, DecisionParts DEF Asking, Ask
    <2> QED
      BY <1>0, <2>2, <2>3, <2>4, <2>5
  <1>3. CASE w = "write" /\ r.awaiting \notin Details
    <2> DEFINE d == DecideTransactionConfirmation(r, text, m)
               s == [r EXCEPT !.confirmReprompted = TRUE, !.processed = m]
               u == [r EXCEPT !.processed = m]
    <2>2. d \in {ExpireRun(r), Cancel(r), Ask(r), Ask(s), Decision("write", u, Nothing)}
      BY DEF DecideTransactionConfirmation
    <2>3. DecideResume(w, r, text, m) = d
      BY <1>3 DEF DecideResume, Details
    <2> HIDE DEF d, s, u
    <2>4. Asking(Decision("write", u, Nothing), w, r)
      BY <1>3, DecisionParts DEF Asking
    <2>5. Asking(Ask(r), w, r) /\ Asking(Ask(s), w, r)
      BY <1>3, DecisionParts, WhatAsks DEF Asking, Ask
    <2> QED
      BY <1>0, <2>2, <2>3, <2>4, <2>5
  <1> QED
    BY <1>1, <1>2, <1>3 DEF Workflows

\* The check of the category asks for a detail again, or lets the write pass.
LEMMA CategoryAsks ==
    ASSUME NEW w \in Workflows, NEW r \in RunStates, NEW text, NEW m \in Nat,
           w = "destructive" => r.op = "delete",
           LET d == DecideResume(w, r, text, m) IN d.action = "write",
           NEW v \in CategoryVerdicts(DecideResume(w, r, text, m).run)
    PROVE  Asking(v, w, r)
  <1> DEFINE d == DecideResume(w, r, text, m)
  <1>1. Asking(d, w, r) /\ Kept(d.run, r) /\ d.run \in RunStates /\ d.action = "write"
    BY ResumeAsks, ResumeDecision DEF Sound, Kept
  <1> DEFINE n == d.run
             s == [n EXCEPT !.awaiting = "slot", !.reprompted = TRUE]
             u == [n EXCEPT !.status = "failed"]
  <1> HIDE DEF d
  <1>2. n.order = r.order /\ n.op = r.op /\ n \in RunStates
    BY <1>1 DEF Kept
  <1>3. CASE w = "write"
    <2>1. v \in {Decision("write", n, Nothing), Decision("save", End(n), Say("failed", n.order)),
                 Decision("save", u, Say("failed", n.order)), Cancel(n), Ask(s)}
      BY DEF CategoryVerdicts, d
    <2>2. End(n).status = "succeeded" /\ u.status = "failed" /\ Suspend(s).awaiting = "slot"
      BY <1>2 DEF End, Suspend, RunStates
    <2>3. r.awaiting \notin Details
      BY <1>1, <1>3 DEF Asking
    <2> HIDE DEF s, u, n
    <2>4. Asking(Decision("write", n, Nothing), w, r)
      BY <1>3, <2>3, DecisionParts DEF Asking
    <2>5. /\ Asking(Decision("save", End(n), Say("failed", n.order)), w, r)
          /\ Asking(Decision("save", u, Say("failed", n.order)), w, r)
          /\ Asking(Cancel(n), w, r)
      BY <1>3, <2>2, DecisionParts DEF Asking, Cancel
    <2>6. Asking(Ask(s), w, r)
      BY <1>3, <2>2, DecisionParts DEF Asking, Ask, Details
    <2> QED
      BY <2>1, <2>4, <2>5, <2>6
  <1>4. CASE w = "destructive"
    <2>1. v = Decision("write", n, Nothing)
      BY <1>2, <1>4 DEF CategoryVerdicts, d
    <2>2. n.awaiting = r.awaiting
      BY <1>1, <1>4 DEF Asking
    <2> QED
      BY <1>4, <2>1, <2>2, DecisionParts DEF Asking
  <1> QED
    BY <1>3, <1>4 DEF Workflows

\* A step that leaves the runs alone, and forgets no question.
LEMMA QuestionsStay ==
    ASSUME QuestionInv, run' = run, asked' = asked, unheard \cup DueQuestion \subseteq unheard',
           \/ handler'.pc \in {"idle", "dedup", "resolve", "resume", "compensate"}
           \/ handler'.pc = "reply" /\ ~Asks(handler'.says)
    PROVE  QuestionInv'
  <1>1. Known \subseteq Known'
    BY DEF Known, Heard
  <1>2. \A w \in Workflows : (Pending(w)' <=> Pending(w)) /\ Question(w)' = Question(w)
    BY DEF Pending, Question
  <1> QED
    BY <1>1, <1>2 DEF QuestionInv

\* The same for a step that does not move the handler.
LEMMA QuestionsUntouched ==
    ASSUME ConversationInv, QuestionInv, UNCHANGED <<asked, unheard, handler>>,
           \A w \in Workflows : /\ run'[w].order = run[w].order /\ run'[w].awaiting = run[w].awaiting
                                /\ run'[w].status = "suspended" => run[w].status = "suspended"
    PROVE  QuestionInv'
  <1>1. Known' = Known
    BY DEF Known, Heard, DueQuestion
  <1>2. \A w \in Workflows : (Pending(w)' => Pending(w)) /\ Question(w)' = Question(w)
    BY DEF Pending, Question
  <1>3. Suspended' \subseteq Suspended /\ "destructive" \in Workflows
    BY DEF Suspended, Workflows
  <1> QED
    BY <1>1, <1>2, <1>3 DEF QuestionInv, Order

LEMMA NoDue ==
    ASSUME handler.pc \notin {"start", "started", "reply"}
    PROVE  DueQuestion = {} /\ Heard = {asked} /\ Known = unheard \cup {asked}
  BY DEF DueQuestion, Heard, Known

LEMMA EventQuestions ==
    ASSUME ConversationInv, QuestionInv,
           \/ RouteMessage \/ TakeEvent \/ DedupEvent \/ DedupFails \/ CompensateDedup
           \/ CompensationFails \/ SendFails \/ TimeOut \/ Crash \/ EditElsewhere
    PROVE  QuestionInv'
  <1>1. handler \in HandlerStates /\ run' = run /\ asked' = asked
    BY HandlerFacts DEF RouteMessage, TakeEvent, DedupEvent, DedupFails, CompensateDedup,
       CompensationFails, SendFails, TimeOut, Crash, EditElsewhere, history, questions
  <1>2. CASE RouteMessage \/ EditElsewhere
    BY <1>1, <1>2, QuestionsUntouched DEF RouteMessage, EditElsewhere, history, questions
  <1>3. CASE TakeEvent \/ DedupEvent \/ DedupFails \/ CompensateDedup \/ CompensationFails
    <2>1. handler.pc \in {"idle", "dedup", "compensate"} /\ unheard' = unheard
      BY <1>3 DEF TakeEvent, DedupEvent, DedupFails, CompensateDedup, CompensationFails, history, questions
    <2>2. handler'.pc \in {"idle", "dedup", "resolve"}
      BY <1>1, <1>3, ConstantRecords DEF TakeEvent, DedupEvent, DedupFails, CompensateDedup,
         CompensationFails, Continue, Idle, HandlerStates
    <2> QED
      BY <1>1, <2>1, <2>2, NoDue, QuestionsStay
  <1>4. CASE SendFails \/ Crash
    <2>1. handler'.pc = "idle" /\ unheard' = unheard \cup DueQuestion
      BY <1>4, ConstantRecords DEF SendFails, Crash
    <2> QED
      BY <1>1, <2>1, QuestionsStay
  <1>5. CASE TimeOut
    <2>1. /\ unheard' = unheard \cup DueQuestion /\ handler'.says = handler.says
          /\ handler'.pc = (IF handler.pc = "reply" THEN "reply" ELSE "compensate")
      BY <1>1, <1>5 DEF TimeOut, HandlerStates
    <2>2. CASE handler.pc = "reply" /\ Asks(handler.says)
      <3>1. Known \subseteq Known'
        BY <1>1, <2>1, <2>2 DEF Known, Heard, DueQuestion
      <3>2. \A w \in Workflows : (Pending(w)' <=> Pending(w)) /\ Question(w)' = Question(w)
        BY <1>1 DEF Pending, Question
      <3> QED
        BY <1>1, <2>1, <2>2, <3>1, <3>2 DEF QuestionInv
    <2>3. CASE ~(handler.pc = "reply" /\ Asks(handler.says))
      <3>1. handler'.pc = "compensate" \/ (handler'.pc = "reply" /\ ~Asks(handler'.says))
        BY <2>1, <2>3
      <3> QED
        BY <1>1, <2>1, <3>1, QuestionsStay
    <2> QED
      BY <2>2, <2>3
  <1> QED
    BY <1>2, <1>3, <1>4, <1>5

\* The reply arrives: its question is the one shown last.
LEMMA ReplyQuestions ==
    ASSUME ConversationInv, QuestionInv, SendReply \/ MarkLost
    PROVE  QuestionInv'
  <1>1. ReplyArrives
    BY DEF SendReply, MarkLost
  <1>2. /\ handler \in HandlerStates /\ handler.says \in Sayings /\ run' = run /\ handler'.pc = "idle"
        /\ asked' = (IF Asks(handler.says) THEN handler.says ELSE asked)
        /\ unheard' = unheard \ {asked'} /\ handler.pc = "reply"
    BY <1>1, HandlerFacts, ConstantRecords DEF ReplyArrives, HandlerStates
  <1>3. Known' = unheard' \cup {asked'} /\ Known \subseteq unheard \cup {asked'}
    BY <1>2 DEF Known, Heard, DueQuestion
  <1>4. \A w \in Workflows : (Pending(w)' <=> Pending(w)) /\ Question(w)' = Question(w)
    BY <1>2 DEF Pending, Question
  <1> QED
    BY <1>2, <1>3, <1>4 DEF QuestionInv

LEMMA ResolveQuestions ==
    ASSUME ConversationInv, QuestionInv, ResolveSuspendedRun
    PROVE  QuestionInv'
  <1>1. /\ handler \in HandlerStates /\ run' = run /\ asked' = asked /\ unheard' = unheard
        /\ handler.pc = "resolve"
    BY HandlerFacts DEF ResolveSuspendedRun, history, questions
  <1>2. CASE Suspended = {} /\ Continue("agent")
    <2>1. handler'.pc = "agent" /\ Suspended' = {}
      BY <1>1, <1>2 DEF Continue, HandlerStates, Suspended
    <2>2. \A w \in Workflows : ~Pending(w)'
      BY <2>1 DEF Pending, Suspended
    <2> QED
      BY <1>1, <2>1, <2>2 DEF QuestionInv
  <1>3. CASE Continue("compensate") \/ \E w \in Suspended : handler' = [handler EXCEPT !.pc = "resume", !.flow = w]
    <2>1. handler'.pc \in {"compensate", "resume"}
      BY <1>1, <1>3 DEF Continue, HandlerStates
    <2> QED
      BY <1>1, <2>1, NoDue, QuestionsStay
  <1> QED
    BY <1>2, <1>3 DEF ResolveSuspendedRun

LEMMA ResumeQuestions ==
    ASSUME ConversationInv, QuestionInv, ResumeRun
    PROVE  QuestionInv'
  <1> DEFINE w == handler.flow
             r == run[w]
             d == DecideResume(w, r, script[handler.msg], handler.msg)
  <1>1. /\ handler \in HandlerStates /\ run' = run /\ asked' = asked /\ unheard' = unheard
        /\ handler.pc = "resume" /\ w \in Workflows /\ r \in RunStates /\ handler.msg \in Nat
        /\ Suspended \subseteq {w}
    BY HandlerFacts DEF ResumeRun, history, questions, HandlerStates, HandlerShape
  <1>2. CASE r.status # "suspended" /\ Continue("agent")
    <2>1. handler'.pc = "agent" /\ Suspended = {} /\ Suspended' = {}
      BY <1>1, <1>2 DEF Continue, HandlerStates, Suspended
    <2>2. \A v \in Workflows : ~Pending(v)'
      BY <2>1 DEF Pending, Suspended
    <2> QED
      BY <1>1, <2>1, <2>2 DEF QuestionInv
  <1>3. ASSUME r.status = "suspended",
               NEW v \in (IF d.action = "write" THEN CategoryVerdicts(d.run) ELSE {d}),
               Follow(v)
        PROVE  QuestionInv'
    <2>1. w = "destructive" => r.op = "delete"
      <3>1. r.order # NoOrder
        BY <1>1, <1>3 DEF ConversationInv, RunsAreOrders
      <3>2. r.op = Operation(w, script[r.order])
        BY <1>1, <3>1 DEF ConversationInv, RunsAreOrders
      <3> QED
        BY <3>2 DEF Operation
    <2>2. Asking(v, w, r) /\ Sound(v, r)
      <3>1. Asking(d, w, r) /\ Sound(d, r)
        BY <1>1, ResumeAsks, ResumeDecision
      <3>2. ASSUME d.action = "write", v \in CategoryVerdicts(d.run) PROVE Asking(v, w, r) /\ Sound(v, r)
        <4>1. Asking(v, w, r)
          BY <1>1, <2>1, <3>2, CategoryAsks
        <4>2. Kept(d.run, r) /\ d.run \in RunStates
          BY <3>1 DEF Sound, Kept
        <4>3. Sound(v, d.run)
          BY <3>2, <4>2, CategoryDecision
        <4> QED
          BY <4>1, <4>2, <4>3, KeptTwice DEF Sound
      <3> QED
        BY <1>3, <3>1, <3>2
    <2> HIDE DEF d
    <2> DEFINE pc == IF v.action # "write" THEN "save" ELSE IF handler.flow = "write" THEN "find" ELSE "write"
               after == IF v.action = "agent" THEN "agent" ELSE "reply"
    <2>3. /\ handler' = [handler EXCEPT !.snap = v.run, !.says = v.says, !.pc = pc, !.after = after]
          /\ pc \in {"save", "find", "write"} /\ after \in {"reply", "agent"}
          /\ pc = "save" <=> v.action # "write"
          /\ after = "agent" <=> v.action = "agent"
      BY <1>3 DEF Follow
    <2> HIDE DEF pc, after
    <2>4. /\ handler'.pc = pc /\ handler'.flow = w /\ handler'.snap = v.run /\ handler'.says = v.says
          /\ handler'.after = after /\ v.run.order = r.order
      BY <1>1, <2>2, <2>3 DEF HandlerStates, Sound, Kept
    <2>5. Known' = Known /\ Known = unheard \cup {asked}
      BY <1>1, <2>3, <2>4, NoDue DEF Known, Heard, DueQuestion
    <2>6. r.awaiting \notin Details => Say(w, r.order) \in unheard \cup {asked}
      BY <1>1, <1>3, <2>5 DEF QuestionInv, Pending, Question
    <2>7. w = "destructive" => r.awaiting \notin Details /\ v.run.awaiting \notin Details
      BY <2>2 DEF QuestionInv, Asking
    <2>8. v.action = "write" => Say(w, v.run.order) \in unheard \cup {asked}
      BY <2>2, <2>4, <2>6, <2>7 DEF Asking
    <2>9. v.action # "write" /\ v.run.status = "suspended" /\ v.run.awaiting \notin Details =>
            IF Asks(v.says) THEN v.says = Say(w, v.run.order)
            ELSE Say(w, v.run.order) \in unheard \cup {asked}
      BY <2>2, <2>4, <2>6 DEF Asking
    <2>10. v.action = "agent" => v.run.status # "suspended"
      BY <2>2 DEF Asking
    <2>11. \A x \in Workflows : (Pending(x)' <=> Pending(x)) /\ Question(x)' = Question(x)
      BY <1>1 DEF Pending, Question
    <2> HIDE DEF w, r
    <2> QED
      BY <1>1, <2>3, <2>4, <2>5, <2>7, <2>8, <2>9, <2>10, <2>11 DEF QuestionInv, Order
  <1> QED
    BY <1>2, <1>3 DEF ResumeRun

\* The write of an order stays with the order that was asked about.
LEMMA WriteQuestions ==
    ASSUME ConversationInv, QuestionInv, FindByKey \/ WriteOrder \/ InsertLedgerRow \/ WriteCallFails
    PROVE  QuestionInv'
  <1>1. /\ handler.pc \in {"find", "write", "insert"} /\ UNCHANGED <<run, asked, unheard>>
        /\ handler \in HandlerStates /\ handler.snap \in RunStates
    BY HandlerFacts DEF FindByKey, WriteOrder, InsertLedgerRow, WriteCallFails, history, questions,
       HandlerStates
  <1>2. \/ Succeed \/ StepFails \/ Continue("write") \/ Continue("insert")
        \/ handler' = [handler EXCEPT !.pc = "save", !.snap = End(@), !.says = Say("duplicate", Order)]
        \/ handler' = [handler EXCEPT !.pc = "find", !.tries = 2]
    <2>1. CASE WriteOrder
      BY <2>1 DEF WriteOrder, WriteCreate, WriteRecurrence, WriteEdit, WriteDelete, AfterWrite
    <2> QED
      BY <2>1 DEF FindByKey, InsertLedgerRow, WriteCallFails
  <1>3. \/ /\ handler'.pc \in {"find", "write", "insert"} /\ handler'.flow = handler.flow
           /\ handler'.snap = handler.snap
        \/ /\ handler'.pc = "save" /\ handler'.flow = handler.flow
           /\ handler'.snap.status \in {"succeeded", "failed"}
           /\ handler'.snap.awaiting = handler.snap.awaiting
    <2>1. CASE Continue("write") \/ Continue("insert")
               \/ handler' = [handler EXCEPT !.pc = "find", !.tries = 2]
      BY <1>1, <2>1 DEF Continue, HandlerStates
    <2>2. ASSUME NEW s \in RunStates, s.awaiting = handler.snap.awaiting,
                 s.status \in {"succeeded", "failed"}, NEW says,
                 handler' = [handler EXCEPT !.pc = "save", !.snap = s, !.says = says]
          PROVE  /\ handler'.pc = "save" /\ handler'.flow = handler.flow
                 /\ handler'.snap.status \in {"succeeded", "failed"}
                 /\ handler'.snap.awaiting = handler.snap.awaiting
      BY <1>1, <2>2 DEF HandlerStates
    <2> DEFINE e == End(handler.snap)
               f == [handler.snap EXCEPT !.status = "failed"]
    <2>3. /\ e \in RunStates /\ e.awaiting = handler.snap.awaiting /\ e.status = "succeeded"
          /\ f \in RunStates /\ f.awaiting = handler.snap.awaiting /\ f.status = "failed"
      BY <1>1 DEF End, RunStates
    <2>4. CASE Succeed \/ handler' = [handler EXCEPT !.pc = "save", !.snap = End(@),
                                                    !.says = Say("duplicate", Order)]
      <3>1. \E says : handler' = [handler EXCEPT !.pc = "save", !.snap = e, !.says = says]
        BY <2>4 DEF Succeed
      <3> HIDE DEF e, f
      <3> QED
        BY <2>2, <2>3, <3>1
    <2>5. CASE StepFails
      <3>1. handler' = [handler EXCEPT !.pc = "save", !.snap = f, !.says = Say("failed", Order)]
        BY <1>1, <2>5 DEF StepFails, HandlerStates
      <3> HIDE DEF e, f
      <3> QED
        BY <2>2, <2>3, <3>1
    <2> QED
      BY <1>2, <2>1, <2>4, <2>5
  <1>4. /\ Known' = Known
        /\ \A w \in Workflows : (Pending(w)' <=> Pending(w)) /\ Question(w)' = Question(w)
    BY <1>1, <1>3 DEF Known, Heard, DueQuestion, Pending, Question
  <1> QED
    BY <1>1, <1>3, <1>4 DEF QuestionInv, Order

LEMMA SaveQuestions ==
    ASSUME ConversationInv, QuestionInv, SaveRun
    PROVE  QuestionInv'
  <1> DEFINE w == handler.flow
  <1>1. /\ handler \in HandlerStates /\ asked' = asked /\ unheard' = unheard /\ handler.pc = "save"
        /\ w \in Workflows /\ Suspended \subseteq {w} /\ run \in [Workflows -> RunStates]
        /\ handler.snap.order = run[w].order /\ handler.after \in {"reply", "agent"}
        /\ "destructive" \in Workflows
    BY HandlerFacts DEF SaveRun, history, questions, HandlerStates, HandlerShape, Workflows
  <1>2. CASE /\ run[w].status = "suspended" /\ run' = [run EXCEPT ![w] = handler.snap]
             /\ Continue(handler.after)
    <2>1. /\ handler'.pc = handler.after /\ handler'.says = handler.says
      BY <1>1, <1>2 DEF Continue, HandlerStates
    <2>2. /\ run'[w] = handler.snap /\ \A v \in Workflows : v # w => run'[v] = run[v]
      BY <1>1, <1>2
    <2> HIDE DEF w
    <2>3. \A v \in Workflows : v # w => run'[v].status # "suspended"
      BY <1>1, <2>2 DEF Suspended
    <2>4. handler.after = "agent" => Suspended' = {}
      BY <1>1, <2>2, <2>3 DEF QuestionInv, Suspended
    <2>5. run'["destructive"].awaiting \notin Details
      BY <1>1, <2>2 DEF QuestionInv, w
    <2>6. ASSUME NEW v \in Workflows, Pending(v)' PROVE Question(v)' \in Known'
      <3>1. /\ v = w /\ handler.snap.status = "suspended" /\ handler.snap.awaiting \notin Details
            /\ Question(v)' = Say(w, Order) /\ handler'.pc = "reply"
        BY <1>1, <2>1, <2>2, <2>3, <2>6 DEF Pending, Question, Order, QuestionInv
      <3>2. IF Asks(handler.says) THEN handler.says = Say(w, Order) ELSE Say(w, Order) \in unheard \cup {asked}
        BY <1>1, <3>1 DEF QuestionInv, w
      <3> QED
        BY <1>1, <2>1, <3>1, <3>2 DEF Known, Heard, DueQuestion
    <2> QED
      BY <1>1, <2>1, <2>4, <2>5, <2>6 DEF QuestionInv
  <1>3. CASE UNCHANGED run /\ IF w = "write" THEN ResumeFails ELSE ReplyWith(Nothing)
    <2>1. handler'.pc = "reply" /\ ~Asks(handler'.says)
      <3>1. PICK says \in {Say("failed", run[w].order), Nothing} :
              handler' = [handler EXCEPT !.pc = "reply", !.says = says]
        BY <1>3 DEF ResumeFails, ReplyWith
      <3>2. ~Asks(says)
        BY WhatAsks
      <3> QED
        BY <1>1, <3>1, <3>2 DEF HandlerStates
    <2> QED
      BY <1>1, <1>3, <2>1, NoDue, QuestionsStay
  <1> QED
    BY <1>2, <1>3 DEF SaveRun

LEMMA CallFailsQuestions ==
    ASSUME ConversationInv, QuestionInv, CallFails
    PROVE  QuestionInv'
  <1>1. /\ handler \in HandlerStates /\ UNCHANGED <<run, asked, unheard>>
        /\ handler.pc \in {"resolve", "resume", "save", "agent"}
    BY HandlerFacts DEF CallFails, history, questions
  <1>2. handler'.pc = "compensate" \/ (handler'.pc = "reply" /\ ~Asks(handler'.says))
    <2>1. CASE Continue("compensate")
      BY <1>1, <2>1 DEF Continue, HandlerStates
    <2>2. CASE ReplyWith(Say("failed", run[handler.flow].order))
      <3>1. ~Asks(Say("failed", run[handler.flow].order))
        BY WhatAsks
      <3>2. /\ handler'.pc = "reply" /\ handler'.says = Say("failed", run[handler.flow].order)
        BY <1>1, <2>2 DEF ReplyWith, HandlerStates
      <3> QED
        BY <3>1, <3>2
    <2> QED
      BY <2>1, <2>2 DEF CallFails, ResumeFails
  <1> QED
    BY <1>1, <1>2, NoDue, QuestionsStay

LEMMA AgentQuestions ==
    ASSUME ConversationInv, QuestionInv, AgentTurn
    PROVE  QuestionInv'
  <1>1. /\ handler \in HandlerStates /\ UNCHANGED <<run, asked, unheard>>
        /\ handler.pc = "agent" /\ handler'.pc \in {"reply", "start"}
    BY HandlerFacts DEF AgentTurn, history, questions, HandlerStates
  <1>2. Suspended = {} /\ Suspended' = {}
    BY <1>1 DEF QuestionInv, Suspended
  <1>3. \A w \in Workflows : ~Pending(w)'
    BY <1>2 DEF Pending, Suspended
  <1> QED
    BY <1>1, <1>3 DEF QuestionInv

\* The turn goes on: no question saved so far is forgotten, and the next one is
\* due or known not to arrive.
LEMMA NextToolQuestions ==
    ASSUME ConversationInv, handler.pc \in {"start", "started"}, NEW says \in Sayings,
           says.what # "done", NextTool(says), UNCHANGED <<script, dedup>>
    PROVE  /\ asked' = asked /\ handler'.pc \in {"start", "reply"}
           /\ Known \subseteq Known' /\ (Asks(says) => says \in Known')
  <1>1. /\ handler'.says \in {says, Fallback} /\ handler'.pc \in {"start", "reply"}
    BY NextToolState
  <1>2. handler \in HandlerStates
    BY HandlerFacts
  <1>3. /\ unheard' = unheard \cup DueQuestion
                      \cup (IF handler.says = Fallback /\ Asks(says) THEN {says} ELSE {})
        /\ asked' = asked
        /\ handler'.says = (IF handler.says = Fallback THEN Fallback ELSE says)
    BY <1>2 DEF NextTool, HandlerStates
  <1> QED
    BY <1>1, <1>3, WhatAsks DEF Known, Heard, DueQuestion

LEMMA ToolQuestions ==
    ASSUME ConversationInv, QuestionInv, StartRun \/ ToolFails
    PROVE  QuestionInv'
  <1> DEFINE w == Head(handler.tools)
  <1>1. /\ handler.pc \in {"start", "started"} /\ handler \in HandlerStates /\ w \in Workflows
        /\ UNCHANGED <<script, dedup>> /\ run \in [Workflows -> RunStates]
        /\ "destructive" \in Workflows
    BY DueTool, HandlerFacts DEF StartRun, ToolFails, Workflows
  <1>2. ASSUME NEW says \in {Nothing, Fallback}, NextTool(says), run' = run
        PROVE  QuestionInv'
    <2>1. asked' = asked /\ handler'.pc \in {"start", "reply"} /\ Known \subseteq Known'
      BY <1>1, <1>2, NextToolQuestions, ConstantRecords
    <2>2. \A v \in Workflows : (Pending(v)' <=> Pending(v)) /\ Question(v)' = Question(v)
      BY <1>2 DEF Pending, Question
    <2> QED
      BY <1>2, <2>1, <2>2 DEF QuestionInv
  <1>3. CASE ToolFails
    BY <1>2, <1>3 DEF ToolFails
  <1>4. CASE StartRun
    <2>1. CASE NextTool(Nothing) /\ UNCHANGED run
      BY <1>2, <2>1
    <2>2. ASSUME NEW q \in FirstQuestions(w), run' = [run EXCEPT ![w] = NewRun(w, q)],
                 Continue("started"), UNCHANGED questions, handler.pc = "start"
          PROVE  QuestionInv'
      <3>1. handler'.pc = "started" /\ handler'.says = handler.says /\ UNCHANGED <<asked, unheard>>
        BY <1>1, <2>2 DEF Continue, HandlerStates, questions
      <3>2. Known' = Known
        BY <2>2, <3>1 DEF Known, Heard, DueQuestion
      <3>3. NewRun(w, q).status = "running" /\ (w = "destructive" => NewRun(w, q).awaiting \notin Details)
        BY <2>2 DEF NewRun, NoRun, FirstQuestions, Details
      <3>4. run'[w] = NewRun(w, q) /\ \A v \in Workflows : v # w => run'[v] = run[v]
        BY <1>1, <2>2
      <3> HIDE DEF w
      <3>5. \A v \in Workflows :
              /\ v = w => ~Pending(v)'
              /\ v # w => (Pending(v)' <=> Pending(v)) /\ Question(v)' = Question(v)
        BY <3>3, <3>4 DEF Pending, Question
      <3>6. run'["destructive"].awaiting \notin Details
        BY <1>1, <3>3, <3>4 DEF QuestionInv
      <3> QED
        BY <1>1, <3>1, <3>2, <3>5, <3>6 DEF QuestionInv
    <2> QED
      BY <1>4, <2>1, <2>2 DEF StartRun
  <1> QED
    BY <1>3, <1>4

LEMMA StartedQuestions ==
    ASSUME ConversationInv, QuestionInv, SaveStartedRun
    PROVE  QuestionInv'
  <1> DEFINE w == Head(handler.tools)
             r == run[w]
             s == IF r.awaiting = "nothing" THEN End(r) ELSE Suspend(r)
             q == IF r.awaiting = "confirmation" THEN Say(w, r.order) ELSE Nothing
  <1>1. /\ handler.pc = "started" /\ w \in Workflows /\ run \in [Workflows -> RunStates]
        /\ UNCHANGED <<script, dedup>> /\ NextTool(q) /\ run' = [run EXCEPT ![w] = s]
        /\ "destructive" \in Workflows /\ r \in RunStates
    BY DueTool, HandlerFacts DEF SaveStartedRun, Workflows
  <1>2. q \in Sayings /\ q.what # "done"
    BY <1>1, ConstantRecords DEF Say, Sayings, RunStates, Workflows
  <1>3. /\ s.order = r.order /\ s.awaiting = r.awaiting
        /\ s.status = "suspended" /\ s.awaiting \notin Details => q = Say(w, r.order) /\ Asks(q)
    BY <1>1, WhatAsks DEF End, Suspend, RunStates, Details
  <1>4. run'[w] = s /\ \A v \in Workflows : v # w => run'[v] = run[v]
    BY <1>1
  <1> HIDE DEF s, q
  <1>5. asked' = asked /\ handler'.pc \in {"start", "reply"} /\ Known \subseteq Known' /\ (Asks(q) => q \in Known')
    BY <1>1, <1>2, NextToolQuestions
  <1> HIDE DEF w
  <1>6. ASSUME NEW v \in Workflows, Pending(v)' PROVE Question(v)' \in Known'
    <2>1. CASE v = w
      <3>1. Question(v)' = q /\ Asks(q)
        BY <1>3, <1>4, <1>6, <2>1 DEF Pending, Question
      <3> QED
        BY <1>5, <3>1
    <2>2. CASE v # w
      BY <1>4, <1>5, <1>6, <2>2 DEF QuestionInv, Pending, Question
    <2> QED
      BY <2>1, <2>2
  <1>7. run'["destructive"].awaiting \notin Details
    BY <1>1, <1>3, <1>4 DEF QuestionInv
  <1> QED
    BY <1>5, <1>6, <1>7 DEF QuestionInv

LEMMA QuestionsInitially ==
    ASSUME ConversationInit PROVE QuestionInv
  <1>1. /\ run = [w \in Workflows |-> NoRun] /\ NoRun.status = "none" /\ NoRun.awaiting = "confirmation"
        /\ handler.pc = "idle" /\ asked \in Sayings /\ "destructive" \in Workflows
    BY ConstantRecords DEF ConversationInit, NoRun, Workflows
  <1> QED
    BY <1>1 DEF QuestionInv, Pending, Details

LEMMA QuestionsStep ==
    ASSUME ConversationInv, QuestionInv, [ConversationNext]_conversationVars
    PROVE  QuestionInv'
  <1>1. CASE UNCHANGED conversationVars
    BY <1>1, QuestionsUntouched DEF conversationVars
  <1>2. CASE \E w \in Workflows : RunGetsOld(w) \/ ReapStaleRun(w)
    <2>1. PICK w \in Workflows : RunGetsOld(w) \/ ReapStaleRun(w)
      BY <1>2
    <2> DEFINE s == run'[w]
    <2>2. /\ s.order = run[w].order /\ s.awaiting = run[w].awaiting
          /\ s.status = "suspended" => run[w].status = "suspended"
          /\ \A v \in Workflows : v # w => run'[v] = run[v]
      <3>1. run \in [Workflows -> RunStates]
        BY HandlerFacts
      <3>2. CASE RunGetsOld(w)
        BY <3>1, <3>2 DEF RunGetsOld, RunStates
      <3>3. CASE ReapStaleRun(w)
        BY <3>1, <3>3 DEF ReapStaleRun, RunStates
      <3> QED
        BY <2>1, <3>2, <3>3
    <2>3. UNCHANGED <<asked, unheard, handler>>
      BY <2>1 DEF RunGetsOld, ReapStaleRun, history, questions
    <2> QED
      BY <2>2, <2>3, QuestionsUntouched
  <1>3. CASE \/ RouteMessage \/ TakeEvent \/ DedupEvent \/ DedupFails \/ CompensateDedup
             \/ CompensationFails \/ SendFails \/ TimeOut \/ Crash \/ EditElsewhere
    BY <1>3, EventQuestions
  <1>4. CASE ResolveSuspendedRun \/ ResumeRun \/ SaveRun \/ CallFails
    BY <1>4, ResolveQuestions, ResumeQuestions, SaveQuestions, CallFailsQuestions
  <1>5. CASE FindByKey \/ WriteOrder \/ InsertLedgerRow \/ WriteCallFails
    BY <1>5, WriteQuestions
  <1>6. CASE AgentTurn \/ StartRun \/ SaveStartedRun \/ ToolFails \/ SendReply \/ MarkLost
    BY <1>6, AgentQuestions, ToolQuestions, StartedQuestions, ReplyQuestions
  <1> QED
    BY <1>1, <1>2, <1>3, <1>4, <1>5, <1>6 DEF ConversationNext

\* A yes executes the order the user was asked about last, or one whose prompt
\* did not arrive when nothing he was asked about is open; whatever crashes, gets
\* lost, is reaped or is ordered in one turn.
THEOREM YesIsForTheQuestionAsked == ConversationSpec => YesAnswersTheQuestion
  <1>1. ASSUME ConversationInv, QuestionInv, [ConversationNext]_conversationVars, writes' # writes
        PROVE  LET q == Say(handler.flow, Order)
               IN  q = asked \/ (q \in unheard /\ ~OpenQuestion(asked))
    <2>1. handler.pc = "write"
      <3>1. WriteOrder
        BY <1>1 DEF ConversationNext, conversationVars, RouteMessage, TakeEvent, DedupEvent, DedupFails,
             CompensateDedup, CompensationFails, ResolveSuspendedRun, ResumeRun, SaveRun, CallFails,
             FindByKey, InsertLedgerRow, WriteCallFails, AgentTurn, StartRun, SaveStartedRun,
             ToolFails, SendReply, MarkLost, ReplyArrives, SendFails, TimeOut, Crash, RunGetsOld,
             ReapStaleRun, EditElsewhere
      <3> QED
        BY <3>1 DEF WriteOrder
    <2>2. Say(handler.flow, Order) \in unheard \cup {asked}
      BY <1>1, <2>1 DEF QuestionInv
    <2>3. Suspended \subseteq {handler.flow} /\ Order = run[handler.flow].order
      BY <1>1, <2>1, WritePath
    <2>4. asked \in Sayings /\ asked = Say(asked.what, asked.order)
      BY <1>1, WhatAsks DEF QuestionInv
    <2>5. OpenQuestion(asked) => asked = Say(handler.flow, Order)
      BY <2>3, <2>4 DEF OpenQuestion, Asks, Suspended
    <2> QED
      BY <2>2, <2>5
  <1> QED
    BY <1>1, ConversationInvariant, QuestionsInitially, QuestionsStep, PTL
       DEF ConversationSpec, YesAnswersTheQuestion

\* A step of the handler that leaves the event and its answers alone.
Quiet ==
    /\ handler.pc \notin {"idle", "dedup"} /\ handler'.pc \notin {"idle", "dedup"}
    /\ handler'.msg = handler.msg /\ handler'.inTime = handler.inTime
    /\ UNCHANGED <<inbox, dedup, answered, excused>>

LEMMA QuietKeeps ==
    ASSUME AnswersInv, Quiet PROVE AnswersInv'
  BY DEF AnswersInv, Quiet, PublishedIsAnswered, Arrived

LEMMA ResumeIsQuiet ==
    ASSUME ConversationInv,
           ResolveSuspendedRun \/ ResumeRun \/ SaveRun \/ CallFails
    PROVE  Quiet
  <1>1. handler \in HandlerStates
    BY HandlerFacts
  <1>2. handler.after \in {"reply", "agent"}
    BY <1>1 DEF HandlerStates
  <1>3. CASE ResolveSuspendedRun
    BY <1>1, <1>3 DEF ResolveSuspendedRun, Quiet, Continue, history, HandlerStates
  <1>4. CASE ResumeRun
    <2>1. \/ Continue("agent") \/ \E v : Follow(v)
      BY <1>4 DEF ResumeRun
    <2>2. ASSUME NEW v, Follow(v)
          PROVE  /\ handler'.msg = handler.msg /\ handler'.inTime = handler.inTime
                 /\ handler'.pc \in {"save", "find", "write"}
      BY <1>1, <2>2 DEF Follow, HandlerStates
    <2> QED
      BY <1>1, <1>4, <2>1, <2>2 DEF ResumeRun, Quiet, Continue, history, HandlerStates
  <1>5. CASE SaveRun
    BY <1>1, <1>2, <1>5 DEF SaveRun, Quiet, Continue, ReplyWith, ResumeFails, history, HandlerStates
  <1>6. CASE CallFails
    BY <1>1, <1>6 DEF CallFails, Quiet, Continue, ReplyWith, ResumeFails, history, HandlerStates
  <1> QED
    BY <1>3, <1>4, <1>5, <1>6

LEMMA WriteIsQuiet ==
    ASSUME ConversationInv,
           FindByKey \/ WriteOrder \/ InsertLedgerRow \/ WriteCallFails
    PROVE  Quiet
  <1>1. handler \in HandlerStates
    BY HandlerFacts
  <1>2. ASSUME Succeed \/ StepFails \/ Continue("write") \/ Continue("insert")
        PROVE  /\ handler'.msg = handler.msg /\ handler'.inTime = handler.inTime
               /\ handler'.pc \in {"save", "write", "insert"}
    BY <1>1, <1>2 DEF Succeed, StepFails, Continue, HandlerStates
  <1>3. CASE FindByKey
    BY <1>2, <1>3 DEF FindByKey, Quiet, history
  <1>4. CASE WriteOrder
    <2>1. /\ handler.pc = "write" /\ UNCHANGED <<inbox, dedup, answered, excused>>
          /\ WriteCreate \/ WriteRecurrence \/ WriteEdit \/ WriteDelete
      BY <1>4 DEF WriteOrder, history
    <2>2. \/ Succeed \/ StepFails \/ Continue("insert")
          \/ handler' = [handler EXCEPT !.pc = "save", !.snap = End(@), !.says = Say("duplicate", Order)]
      BY <2>1 DEF WriteCreate, WriteRecurrence, WriteEdit, WriteDelete, AfterWrite
    <2>3. /\ handler'.msg = handler.msg /\ handler'.inTime = handler.inTime
          /\ handler'.pc \in {"save", "write", "insert"}
      BY <1>1, <1>2, <2>2 DEF HandlerStates
    <2> QED
      BY <2>1, <2>3 DEF Quiet
  <1>5. CASE InsertLedgerRow
    BY <1>2, <1>5 DEF InsertLedgerRow, Quiet, history
  <1>6. CASE WriteCallFails
    BY <1>1, <1>2, <1>6 DEF WriteCallFails, Quiet, history, HandlerStates
  <1> QED
    BY <1>3, <1>4, <1>5, <1>6

LEMMA TurnIsQuiet ==
    ASSUME ConversationInv,
           AgentTurn \/ StartRun \/ SaveStartedRun \/ ToolFails
    PROVE  Quiet
  <1>1. handler \in HandlerStates
    BY HandlerFacts
  <1>2. ASSUME NEW says, NextTool(says)
        PROVE  /\ handler'.msg = handler.msg /\ handler'.inTime = handler.inTime
               /\ handler'.pc \in {"reply", "start"}
    BY <1>1, <1>2 DEF NextTool, HandlerStates
  <1>3. CASE AgentTurn
    BY <1>1, <1>3 DEF AgentTurn, Quiet, history, HandlerStates
  <1>4. CASE StartRun
    BY <1>1, <1>2, <1>4 DEF StartRun, Continue, Quiet, history, HandlerStates
  <1>5. CASE SaveStartedRun
    BY <1>2, <1>5 DEF SaveStartedRun, Quiet
  <1>6. CASE ToolFails
    BY <1>2, <1>6 DEF ToolFails, Quiet
  <1> QED
    BY <1>3, <1>4, <1>5, <1>6

\* The event is left: nothing is published, and no dedup row kept, without a
\* reply or an excuse.
LEMMA LeavesAnswers ==
    ASSUME ConversationInv, AnswersInv, handler.pc # "idle", handler' = Idle,
           NEW s \in InboxStates, inbox' = [inbox EXCEPT ![handler.msg] = s],
           answered \cup excused \subseteq answered' \cup excused',
           dedup' \subseteq dedup \cup {handler.msg},
           s = "published" \/ handler.msg \in dedup' => handler.msg \in answered' \cup excused'
    PROVE  AnswersInv'
  <1>1. Idle.pc = "idle" /\ handler.msg \in Arrived
    BY ConstantRecords, HandlerFacts
  <1>2. inbox \in Seq(InboxStates)
    BY HandlerFacts
  <1>3. /\ Arrived' = Arrived /\ inbox'[handler.msg] = s
        /\ \A m \in Arrived : m # handler.msg => inbox'[m] = inbox[m]
    BY <1>1, <1>2 DEF Arrived
  <1>4. PublishedIsAnswered'
    BY <1>3 DEF AnswersInv, PublishedIsAnswered
  <1> QED
    BY <1>1, <1>4 DEF AnswersInv

LEMMA AnswersStep ==
    ASSUME ConversationInv, AnswersInv, [ConversationNext]_conversationVars
    PROVE  AnswersInv'
  <1>1. CASE RouteMessage
    <2>1. PICK s \in {"pending", "lost"} : inbox' = Append(inbox, s)
      BY <1>1 DEF RouteMessage
    <2>2. inbox \in Seq(InboxStates)
      BY HandlerFacts
    <2>3. \A m \in Arrived' : (m \in Arrived /\ inbox'[m] = inbox[m]) \/ inbox'[m] = s
      BY <2>1, <2>2 DEF Arrived
    <2> QED
      BY <1>1, <2>3 DEF AnswersInv, PublishedIsAnswered, RouteMessage, history
  <1>2. CASE TakeEvent
    <2>1. PICK m \in Arrived : /\ inbox' = [inbox EXCEPT ![m] = "taken"]
                               /\ handler' = [Idle EXCEPT !.pc = "dedup", !.msg = m]
      BY <1>2 DEF TakeEvent, Open
    <2>2. handler.pc = "idle" /\ UNCHANGED <<dedup, answered, excused>>
      BY <1>2 DEF TakeEvent, history
    <2>3. handler'.inTime
      BY <2>1 DEF Idle
    <2>4. inbox \in Seq(InboxStates)
      BY HandlerFacts
    <2>5. Arrived' = Arrived /\ \A n \in Arrived : inbox'[n] \in {"taken", inbox[n]}
      BY <2>1, <2>4 DEF Arrived
    <2> QED
      BY <2>2, <2>3, <2>5 DEF AnswersInv, PublishedIsAnswered
  <1>3. CASE DedupEvent /\ handler.msg \in dedup
    <2>1. handler.pc = "dedup" /\ handler' = Idle /\ Published /\ UNCHANGED <<dedup, answered, excused>>
      BY <1>3 DEF DedupEvent, history
    <2>2. handler.msg \in answered \cup excused
      BY <1>3, <2>1 DEF AnswersInv
    <2> QED
      BY <2>1, <2>2, LeavesAnswers DEF Published, InboxStates
  <1>4. CASE DedupEvent /\ handler.msg \notin dedup
    <2>1. /\ handler.pc = "dedup" /\ dedup' = dedup \cup {handler.msg}
          /\ handler' = [handler EXCEPT !.pc = "resolve"]
          /\ UNCHANGED <<inbox, answered, excused>>
      BY <1>4 DEF DedupEvent, Continue, history
    <2>2. /\ handler'.pc = "resolve" /\ handler'.msg = handler.msg
          /\ handler'.inTime = handler.inTime
      BY <2>1, HandlerFacts DEF HandlerStates
    <2> QED
      BY <2>1, <2>2 DEF AnswersInv, PublishedIsAnswered, Arrived
  <1>5. CASE CompensateDedup
    <2>1. \E s \in InboxStates : s # "published" /\ inbox' = [inbox EXCEPT ![handler.msg] = s]
      BY <1>5 DEF CompensateDedup, Failed, InboxStates
    <2>2. /\ handler.pc = "compensate" /\ handler' = Idle /\ UNCHANGED <<answered, excused>>
          /\ dedup' \subseteq dedup
          /\ handler.msg \in dedup' => ~handler.inTime
      BY <1>5 DEF CompensateDedup, Dedup, history
    <2>3. handler.msg \in dedup' => handler.msg \in answered' \cup excused'
      BY <2>2 DEF AnswersInv
    <2> QED
      BY <2>1, <2>2, <2>3, LeavesAnswers
  <1>6. CASE SendReply \/ MarkLost
    <2>1. \E s \in InboxStates : inbox' = [inbox EXCEPT ![handler.msg] = s]
      BY <1>6 DEF SendReply, MarkLost, Published, InboxStates
    <2> QED
      BY <1>6, <2>1, LeavesAnswers DEF SendReply, MarkLost, ReplyArrives
  <1>7. CASE SendFails
    <2>1. \E s \in InboxStates : inbox' = [inbox EXCEPT ![handler.msg] = s]
      BY <1>7 DEF SendFails, Failed, InboxStates
    <2> QED
      BY <1>7, <2>1, LeavesAnswers DEF SendFails
  <1>8. CASE Crash
    BY <1>8, LeavesAnswers DEF Crash, InboxStates
  <1>9. CASE TimeOut
    <2>1. /\ handler.pc \notin {"idle", "dedup"} /\ excused' = excused \cup {handler.msg}
          /\ UNCHANGED <<inbox, dedup, answered>>
      BY <1>9 DEF TimeOut, Working
    <2>2. /\ handler'.msg = handler.msg /\ handler'.pc \in {"reply", "compensate"}
      BY <1>9, HandlerFacts DEF TimeOut, HandlerStates
    <2> QED
      BY <2>1, <2>2 DEF AnswersInv, PublishedIsAnswered, Arrived
  <1>10. CASE (\E w \in Workflows : RunGetsOld(w) \/ ReapStaleRun(w)) \/ EditElsewhere
              \/ UNCHANGED conversationVars
    <2>1. UNCHANGED <<inbox, dedup, handler, answered, excused>>
      BY <1>10 DEF RunGetsOld, ReapStaleRun, EditElsewhere, history, conversationVars
    <2> QED
      BY <2>1 DEF AnswersInv, PublishedIsAnswered, Arrived
  <1>11. CASE \/ ResolveSuspendedRun \/ ResumeRun \/ SaveRun \/ CallFails
              \/ FindByKey \/ WriteOrder \/ InsertLedgerRow \/ WriteCallFails
              \/ AgentTurn \/ StartRun \/ SaveStartedRun \/ ToolFails
    BY <1>11, ResumeIsQuiet, WriteIsQuiet, TurnIsQuiet, QuietKeeps
  <1>12. CASE DedupFails \/ CompensationFails
    <2>1. \E s \in InboxStates : s # "published" /\ inbox' = [inbox EXCEPT ![handler.msg] = s]
      BY <1>12 DEF DedupFails, CompensationFails, Failed, InboxStates
    <2>2. handler.pc = "dedup" /\ handler.msg \in dedup => handler.msg \in answered \cup excused
      BY DEF AnswersInv
    <2>3. handler.msg \in dedup' => handler.msg \in answered' \cup excused'
      BY <1>12, <2>2 DEF DedupFails, CompensationFails
    <2> QED
      BY <1>12, <2>1, <2>3, LeavesAnswers DEF DedupFails, CompensationFails
  <1> QED
    BY <1>1, <1>2, <1>3, <1>4, <1>5, <1>6, <1>7, <1>8, <1>9, <1>10, <1>11, <1>12 DEF ConversationNext

\* No dedup row swallows a retry: an event that is published was answered, or a
\* crash, the deadline, WhatsApp or a failed statement of the dedup table got in
\* the way.
THEOREM PublishedMessagesAreAnswered == ConversationSpec => []PublishedIsAnswered
  <1>1. ConversationInit => AnswersInv
    BY ConstantRecords DEF ConversationInit, AnswersInv, PublishedIsAnswered, Arrived
  <1>2. AnswersInv => PublishedIsAnswered
    BY DEF AnswersInv
  <1> QED
    BY <1>1, <1>2, ConversationInvariant, AnswersStep, PTL DEF ConversationSpec

-----------------------------------------------------------------------------
(* The division of the first budget.                                        *)

LEMMA TotalIsOnSet == \A f : Total(f) = SumFunctionOnSet(f, DOMAIN f)
  BY DEF Total, SumFunction

LEMMA DivMod ==
    \A a \in Nat, b \in Nat \ {0} : /\ a \div b \in Nat /\ a % b \in Nat /\ a % b < b
                                  /\ a = b * (a \div b) + (a % b)
  OBVIOUS

\* A multiple that lies between two multiples.
LEMMA Between ==
    ASSUME NEW b \in Nat \ {0}, NEW x \in Int, NEW n \in Nat, 0 <= b * x, b * x <= b * n
    PROVE  x \in Nat /\ x <= n
  <1>1. x >= 0
    <2>1. ASSUME x < 0 PROVE b * x < 0
      BY <2>1
    <2> QED
      BY <2>1
  <1>2. x <= n
    <2>1. SUFFICES ASSUME x > n PROVE FALSE
      OBVIOUS
    <2>2. PICK y \in Nat : x = n + 1 + y
      <3>1. x - n - 1 \in Nat
        BY <2>1
      <3> QED
        BY <3>1
    <2>3. b * x = b * n + b + b * y
      BY <2>2
    <2>4. b * y >= 0 /\ b * n \in Int /\ b * y \in Int
      OBVIOUS
    <2> QED
      BY <2>3, <2>4
  <1> QED
    BY <1>1, <1>2

\* Largest remainders, as centsToBasisPoints gives them out: whatever units the
\* user divides his income into, their shares are natural numbers of basis
\* points that add up to ten thousand.
THEOREM SharesAreWhole ==
    ASSUME NEW n \in Nat, NEW units \in [1..n -> Nat], Total(units) > 0
    PROVE  /\ centsToBasisPoints(units) \in [1..n -> Nat]
           /\ Total(centsToBasisPoints(units)) = 10000
  <1> DEFINE D == DOMAIN units
             all == Total(units)
             raw == [i \in D |-> 10000 * units[i]]
             share == [i \in D |-> (units[i] * 10000) \div all]
             over == [i \in D |-> (units[i] * 10000) % all]
             scaled == [i \in D |-> all * share[i]]
             leftover == 10000 - Total(share)
             B == [i \in D |->
                     {j \in D : over[j] > over[i] \/ (over[j] = over[i] /\ j < i)}]
             extra == [i \in D |-> IF i \in First(D, B, leftover) THEN 1 ELSE 0]
             bp == [i \in D |-> IF Cardinality(B[i]) < leftover THEN share[i] + 1 ELSE share[i]]
  <1>0. IsFiniteSet(D) /\ Cardinality(D) = n /\ D = 1..n
    BY FS_Interval
  <1>1. centsToBasisPoints(units) = bp
    BY DEF centsToBasisPoints
  <1> HIDE DEF D
  <1>i. /\ units \in [D -> Nat] /\ Ints(units, D)
        /\ \A i \in D : i \in Int
    BY <1>0 DEF Ints
  <1>2. all \in Nat \ {0}
    BY <1>i,  <1>0, SumType, TotalIsOnSet DEF D
  <1> HIDE DEF all
  <1>3. ASSUME NEW i \in D
        PROVE  /\ raw[i] \in Int /\ share[i] \in Nat /\ over[i] \in Nat /\ over[i] <= all
               /\ scaled[i] \in Int
               /\ raw[i] = 10000 * units[i] /\ raw[i] = scaled[i] + over[i] /\ scaled[i] = all * share[i]
    <2>1. PICK r : r = units[i] * 10000
      OBVIOUS
    <2>0. r \in Nat /\ raw[i] = r
      BY <1>i, <2>1
    <2>2. r \in Nat /\ raw[i] = r /\ share[i] = r \div all /\ over[i] = r % all
      BY <2>0, <2>1
    <2>a. raw[i] = 10000 * units[i]
      OBVIOUS
    <2> HIDE DEF raw, share, over
    <2>4. scaled[i] = all * share[i]
      OBVIOUS
    <2> HIDE DEF scaled
    <2>3. /\ r \div all \in Nat /\ r % all \in Nat /\ r % all < all
          /\ r = all * (r \div all) + (r % all)
      BY <1>2, <2>0, DivMod, Zenon
    <2>5. share[i] \in Nat /\ over[i] \in Nat /\ over[i] < all /\ r = all * share[i] + over[i]
      BY <2>2, <2>3, Zenon
    <2>6. all * share[i] \in Int
      BY <1>2, <2>5
    <2>7. PICK q : q = all * share[i]
      OBVIOUS
    <2>9. raw[i] = q + over[i] /\ scaled[i] = q /\ q \in Int
      <3>1. scaled[i] = q
        BY <2>4, <2>7
      <3>2. q \in Int
        BY <2>6, <2>7, Zenon
      <3>3. r = q + over[i]
        BY <2>5, <2>7, Zenon
      <3> QED
        BY <2>0, <3>1, <3>2, <3>3
    <2>8. raw[i] \in Int /\ over[i] <= all
      BY <1>2, <2>0, <2>5
    <2> QED
      BY <2>a, <2>4, <2>5, <2>8, <2>9
  <1>4. DOMAIN share = D /\ DOMAIN raw = D /\ DOMAIN over = D
    OBVIOUS
  <1> HIDE DEF raw, share, over, scaled
  <1>5. SumFunctionOnSet(raw, D) = 10000 * all
    <2>1. PICK c \in Int : c = 10000
      OBVIOUS
    <2>2. \A i \in D : raw[i] = c * units[i]
      BY <1>3, <2>1
    <2>3. SumFunctionOnSet(raw, D) = c * SumFunctionOnSet(units, D)
      BY <1>0, <1>i, <2>2, SumTimes
    <2>4. all = SumFunctionOnSet(units, D)
      BY <1>0, TotalIsOnSet DEF all, D
    <2> QED
      BY <2>1, <2>3, <2>4
  <1>6. SumFunctionOnSet(raw, D) = SumFunctionOnSet(scaled, D) + SumFunctionOnSet(over, D)
    <2>1. Ints(scaled, D) /\ Ints(over, D)
      BY <1>3 DEF Ints
    <2> QED
      BY <1>0, <1>3, <2>1, SumAdds, SMTT(30)
  <1>7. SumFunctionOnSet(scaled, D) = all * SumFunctionOnSet(share, D)
    <2>1. Ints(share, D)
      BY <1>3 DEF Ints
    <2> QED
      BY <1>0, <1>2, <1>3, <2>1, SumTimes
  <1>8. SumFunctionOnSet(over, D) <= all * n /\ SumFunctionOnSet(over, D) >= 0
        /\ SumFunctionOnSet(over, D) \in Int
    <2> DEFINE zero == [i \in D |-> 0]
    <2>1. Ints(zero, D) /\ Ints(over, D) /\ \A i \in D : over[i] <= zero[i] + all /\ zero[i] <= over[i]
      BY <1>2, <1>3 DEF Ints
    <2>2. SumFunctionOnSet(zero, D) = 0
      <3>1. {} \in SUBSET D /\ Ints(zero, {}) /\ \A i \in D \ {} : zero[i] = 0
        BY DEF Ints
      <3> HIDE DEF zero
      <3>2. SumFunctionOnSet(zero, D) = SumFunctionOnSet(zero, {})
        BY <1>0, <3>1, SumOfZeros
      <3> QED
        BY <3>2, SumOfNone
    <2> HIDE DEF zero
    <2>3. SumFunctionOnSet(over, D) <= SumFunctionOnSet(zero, D) + all * Cardinality(D)
      <3>1. all \in Int /\ \A i \in D : over[i] <= zero[i] + all
        BY <1>2, <2>1
      <3> QED
        BY <1>0, <2>1, <3>1, SumWithin, Zenon
    <2>4. SumFunctionOnSet(zero, D) <= SumFunctionOnSet(over, D)
      BY <1>0, <2>1, SumMonotone
    <2>5. all * n \in Int
      BY <1>2
    <2> QED
      BY <1>0, <2>1, <2>2, <2>3, <2>4, <2>5, SumType
  <1>9. Total(share) = SumFunctionOnSet(share, D) /\ Total(share) \in Int
    <2>1. Ints(share, D)
      BY <1>3 DEF Ints
    <2> QED
      BY <1>0, <1>4, <2>1, TotalIsOnSet, SumType
  <1>10. leftover \in Nat /\ leftover <= n
    <2>1. leftover \in Int /\ leftover = 10000 - SumFunctionOnSet(share, D)
      BY <1>9
    <2>2. all * leftover = SumFunctionOnSet(over, D)
      <3>1. PICK x : x = SumFunctionOnSet(share, D)
        OBVIOUS
      <3>2. x \in Int
        BY <1>9, <3>1
      <3>3. all * (10000 - x) = 10000 * all - all * x
        BY <1>2, <3>2
      <3>4. 10000 * all = all * x + SumFunctionOnSet(over, D) /\ all * x \in Int
        BY <1>2, <1>5, <1>6, <1>7, <3>1, <3>2
      <3>5. leftover = 10000 - x
        BY <2>1, <3>1
      <3> HIDE DEF leftover
      <3> QED
        BY <1>2, <1>8, <3>3, <3>4, <3>5
    <2> HIDE DEF leftover
    <2> QED
      BY <1>2, <1>8, <2>1, <2>2, Between
  <1>11. Line(D, B)
    <2>1. \A i \in D : over[i] \in Int /\ i \in Int
      BY <1>i, <1>3
    <2>2. \A i, j \in D : j \in B[i] <=> over[j] > over[i] \/ (over[j] = over[i] /\ j < i)
      BY Zenon
    <2>3. \A i \in D : B[i] \subseteq D
      OBVIOUS
    <2> HIDE DEF B
    <2>4. ASSUME NEW x \in D, NEW y \in D
          PROVE  /\ x \notin B[x]
                 /\ x \in B[y] => B[x] \subseteq B[y]
                 /\ x # y => x \in B[y] \/ y \in B[x]
      <3>1. x \notin B[x] /\ (x # y => x \in B[y] \/ y \in B[x])
        BY <2>1, <2>2
      <3>2. ASSUME x \in B[y], NEW z \in B[x] PROVE z \in B[y]
        <4>1. z \in D
          BY <2>3, <3>2
        <4> QED
          BY <2>1, <2>2, <3>2, <4>1
      <3> QED
        BY <3>1, <3>2
    <2> QED
      BY <2>4 DEF Line
  <1> HIDE DEF leftover
  <1>12. Cardinality(First(D, B, leftover)) = leftover
    BY <1>0, <1>10, <1>11, FirstAreAsMany
  <1>13. \A i \in D : bp[i] = share[i] + extra[i] /\ extra[i] \in {0, 1} /\ bp[i] \in Nat
    <2>1. \A i \in D : B[i] \cap D = B[i]
      OBVIOUS
    <2>2. \A i \in D : i \in First(D, B, leftover) <=> Cardinality(B[i]) < leftover
      BY <2>1 DEF First
    <2>3. ASSUME NEW i \in D PROVE bp[i] = share[i] + extra[i] /\ extra[i] \in {0, 1} /\ bp[i] \in Nat
      <3>1. /\ extra[i] = IF Cardinality(B[i]) < leftover THEN 1 ELSE 0
            /\ bp[i] = IF Cardinality(B[i]) < leftover THEN share[i] + 1 ELSE share[i]
        BY <2>2
      <3> HIDE DEF extra, bp, B
      <3> QED
        BY <1>3, <3>1
    <2> QED
      BY <2>3
  <1>14. First(D, B, leftover) \in SUBSET D /\ \A i \in D : extra[i] = IF i \in First(D, B, leftover) THEN 1 ELSE 0
    BY DEF First
  <1>15. DOMAIN bp = D /\ bp \in [D -> Nat]
    BY <1>13
  <1> HIDE DEF B, extra, bp
  <1>16. SumFunctionOnSet(extra, D) = leftover
    BY <1>0, <1>12, <1>14, SumCounts
  <1>17. SumFunctionOnSet(bp, D) = SumFunctionOnSet(share, D) + SumFunctionOnSet(extra, D)
    <2>1. Ints(share, D) /\ Ints(extra, D)
      BY <1>3, <1>13 DEF Ints
    <2> QED
      BY <1>0, <1>13, <2>1, SumAdds
  <1>18. Total(bp) = 10000
    BY <1>9, <1>15, <1>16, <1>17, TotalIsOnSet DEF leftover
  <1> QED
    BY <1>0, <1>1, <1>15, <1>18

\* Divisions of the whole budget.
Divided == {s \in [1..Len(DefaultShares) -> Nat] : Total(s) = 10000}

LEMMA DefaultIsDivided == DefaultShares \in Divided
  BY OnboardingAssumption DEF Divided

\* What a user wrote and the workflow accepts becomes a division of the whole:
\* the check the code makes of its own result cannot fail.
LEMMA AcceptedIsDivided ==
    ASSUME NEW d \in Divisions, NEW total, Acceptable(d, total)
    PROVE  AsShares(DecideAllocationKind(d, total), d.values) \in Divided
  <1> DEFINE n == Len(DefaultShares)
  <1>1. PICK kind : kind = DecideAllocationKind(d, total)
    OBVIOUS
  <1>2. PICK units : units = AsUnits(kind, d.values)
    OBVIOUS
  <1>3. n \in Nat /\ d.values \in [1..n -> Int] /\ DOMAIN d.values = 1..n
    BY OnboardingAssumption
  <1>4. \A i \in 1..n : d.values[i] \in Nat
    BY <1>3 DEF Acceptable
  <1>5. \A v \in Nat : (v + 5) \div 10 \in Nat
    OBVIOUS
  <1>6. units \in [1..n -> Nat]
    <2>1. CASE kind = "reais"
      <3>1. units = [i \in 1..n |-> (d.values[i] + 5) \div 10]
        BY <1>2, <1>3, <2>1 DEF AsUnits
      <3> QED
        BY <1>4, <1>5, <3>1
    <2>2. CASE kind # "reais"
      <3>1. units = d.values
        BY <1>2, <2>2 DEF AsUnits
      <3> QED
        BY <1>3, <1>4, <3>1
    <2> QED
      BY <2>1, <2>2
  <1>7. Total(units) > 0
    BY <1>1, <1>2 DEF Acceptable
  <1>8. AsShares(kind, d.values) = centsToBasisPoints(units)
    BY <1>2 DEF AsShares
  <1>9. centsToBasisPoints(units) \in Divided
    BY <1>3, <1>6, <1>7, SharesAreWhole DEF Divided
  <1> QED
    BY <1>1, <1>8, <1>9

-----------------------------------------------------------------------------
(* The first conversation of a user.                                        *)

Questions == {"name", "goal", "goal value", "monthly budget", "distribution", "personalize",
              "confirm", "recurrence", "cards"}
Calls == {"idle", "save", "summary", "delete", "create", "activate", "repeat", "card",
          "conclude", "summarise"}
Totals == MonthlyBudgets \cup {0}
Shares == Divided \cup {NoShares}
PlanRows == [state : {"none", "draft", "active"}, total : Totals, shares : Shares]
FlowRows == [status : {"none", "running", "suspended"}, asks : Questions, total : Totals,
             shares : Shares]
TurnRows == [pc : Calls, asks : Questions, ends : {"suspended", "failed", "succeeded"},
             total : Totals, shares : Shares, month : WelcomeMonths, card : CardNames \cup {""}]

OnboardingTypeOK ==
    /\ flow \in FlowRows /\ turn \in TurnRows
    /\ plan \in [WelcomeMonths -> PlanRows] /\ thisMonth \in WelcomeMonths
    /\ applied \in [month : WelcomeMonths, found : {"none", "draft", "active"},
                    activated : WelcomeMonths]

\* Every budget written is divided completely.
PlansWhole(p) == \A m \in WelcomeMonths : p[m].state # "none" => p[m].shares \in Divided

\* What the state x, of the run or of the handler, may rely on: while it asks
\* for the confirmation, the budget of the month it was applied to is the one
\* it shows; from the activation on, the budget activated is that one.
ShowsThePlan(x, p, a) ==
    a.found = "active" \/ (p[a.month].total = x.total /\ p[a.month].shares = x.shares)
InForce(x, p, a) ==
    /\ p[a.activated].state = "active"
    /\ \/ p[a.activated].total = x.total /\ p[a.activated].shares = x.shares
       \/ a.found = "active" \/ a.activated # a.month
ReliesOn(x, p, a) ==
    /\ x.asks = "confirm" => ShowsThePlan(x, p, a)
    /\ x.asks \in {"recurrence", "cards"} => InForce(x, p, a)

\* Where the handler stands, and the question the saved run waits with then.
Stands(t, f, a) ==
    /\ t.pc \in {"summary", "delete", "create"} =>
          /\ t.shares \in Divided /\ t.asks \in {"distribution", "personalize"}
          /\ f.asks \in {"name", "distribution", "personalize"}
    /\ t.pc \in {"delete", "create"} => t.month = a.month
    /\ t.pc = "activate" => t.asks = "confirm" /\ f.asks \in {"name", "confirm"}
    /\ t.pc = "repeat" => t.asks = "recurrence" /\ f.asks \in {"name", "recurrence"}
    /\ t.pc \in {"card", "conclude"} => t.asks = "cards"

OnboardingInv ==
    /\ OnboardingTypeOK /\ PlansWhole(plan) /\ Stands(turn, flow, applied)
    /\ ReliesOn(flow, plan, applied) /\ ReliesOn(turn, plan, applied)

LEMMA NoRows ==
    /\ 1 \in WelcomeMonths
    /\ NoFlow \in FlowRows /\ NoTurn \in TurnRows /\ NoPlan \in PlanRows
    /\ NoFlow.asks = "name" /\ NoTurn.asks = "name" /\ NoTurn.pc = "idle" /\ NoPlan.state = "none"
  <1>1. 1 \in WelcomeMonths
    BY OnboardingAssumption DEF WelcomeMonths
  <1> QED
    BY <1>1 DEF NoFlow, NoTurn, NoPlan, FlowRows, TurnRows, PlanRows, Questions, Calls, Totals, Shares

LEMMA OnboardingStarts == OnboardingInit => OnboardingInv
  <1> SUFFICES ASSUME OnboardingInit PROVE OnboardingInv
    OBVIOUS
  <1>1. OnboardingTypeOK
    BY NoRows DEF OnboardingInit, OnboardingTypeOK
  <1>2. PlansWhole(plan)
    BY NoRows DEF OnboardingInit, PlansWhole
  <1> QED
    BY <1>1, <1>2, NoRows DEF OnboardingInit, OnboardingInv, Stands, ReliesOn

\* A step of the run and the handler alone.
LEMMA OnlyTheRunMoves ==
    ASSUME OnboardingInv, UNCHANGED <<plan, applied, thisMonth>>,
           flow' \in FlowRows, turn' \in TurnRows, Stands(turn', flow', applied),
           ReliesOn(flow', plan, applied), ReliesOn(turn', plan, applied)
    PROVE  OnboardingInv'
  BY DEF OnboardingInv, OnboardingTypeOK

\* The handler at an answer: it carries the state of the run.
LEMMA Resumed ==
    ASSUME OnboardingInv, turn.pc = "idle", NEW t, t = ResumeOnboarding
    PROVE  /\ t \in TurnRows /\ t.pc = "idle" /\ t.asks = flow.asks
           /\ t.total = flow.total /\ t.shares = flow.shares
           /\ ReliesOn(t, plan, applied)
  <1>1. t = [NoTurn EXCEPT !.asks = flow.asks, !.total = flow.total, !.shares = flow.shares]
    BY DEF ResumeOnboarding
  <1>2. flow \in FlowRows /\ ReliesOn(flow, plan, applied)
    BY DEF OnboardingInv, OnboardingTypeOK
  <1>3. t \in TurnRows
    BY <1>1, <1>2, NoRows DEF FlowRows, TurnRows
  <1>4. t.pc = "idle" /\ t.asks = flow.asks /\ t.total = flow.total /\ t.shares = flow.shares
    BY <1>1, NoRows DEF NoTurn
  <1> QED
    BY <1>2, <1>3, <1>4 DEF ReliesOn, ShowsThePlan, InForce

\* The handler in the middle of a step goes on with what it has.
LEMMA Going == turn.pc # "idle" => ResumeOnboarding = turn
  BY DEF ResumeOnboarding

\* The step suspends with one of the questions that need nothing, or with the
\* one it was at.
LEMMA AsksWith ==
    ASSUME NEW t \in TurnRows, NEW q \in Questions, AskWith(q, t)
    PROVE  /\ turn' \in TurnRows /\ turn'.pc = "save" /\ turn'.asks = q
           /\ turn'.total = t.total /\ turn'.shares = t.shares
  BY DEF AskWith, TurnRows, Calls

LEMMA ProceedsTo ==
    ASSUME NEW t \in TurnRows, NEW call \in Calls, turn' = [t EXCEPT !.pc = call]
    PROVE  /\ turn' \in TurnRows /\ turn'.pc = call /\ turn'.asks = t.asks
           /\ turn'.total = t.total /\ turn'.shares = t.shares /\ turn'.month = t.month
  BY DEF TurnRows

LEMMA FailedTurn ==
    ASSUME NEW t \in TurnRows, turn' = [t EXCEPT !.pc = "save", !.ends = "failed"]
    PROVE  /\ turn' \in TurnRows /\ turn'.pc = "save" /\ turn'.asks = t.asks
           /\ turn'.total = t.total /\ turn'.shares = t.shares
  BY DEF TurnRows, Calls

\* The handler at a question that relies on nothing.
LEMMA Early ==
    ASSUME NEW x, x.asks \in Questions \ {"confirm", "recurrence", "cards"}, NEW p, NEW a
    PROVE  ReliesOn(x, p, a)
  BY DEF ReliesOn

LEMMA AtSave ==
    ASSUME NEW t, t.pc \in {"save", "idle", "summarise"}, NEW f, NEW a
    PROVE  Stands(t, f, a)
  BY DEF Stands

LEMMA SameReliance ==
    ASSUME NEW x, NEW y, NEW p, NEW a, ReliesOn(x, p, a), y.asks = x.asks \/ {x.asks, y.asks} = {"recurrence", "cards"},
           y.total = x.total, y.shares = x.shares
    PROVE  ReliesOn(y, p, a)
  BY DEF ReliesOn, ShowsThePlan, InForce

\* Answering a question: the handler starts with the state of the run.
LEMMA AnswersAsk ==
    ASSUME OnboardingInv, NEW question, Answers(question), NEW q \in Questions, AskNext(q),
           \/ q \in Questions \ {"confirm", "recurrence", "cards"}
           \/ q = question \/ (question = "recurrence" /\ q = "cards")
    PROVE  OnboardingInv'
  <1>1. PICK t : t = ResumeOnboarding
    OBVIOUS
  <1>2. /\ turn.pc = "idle" /\ flow.asks = question /\ flow' = flow
        /\ UNCHANGED <<plan, applied, thisMonth>> /\ AskWith(q, t)
    BY <1>1 DEF Answers, stores, AskNext
  <1>3. /\ t \in TurnRows /\ t.asks = flow.asks /\ ReliesOn(t, plan, applied)
    BY <1>1, <1>2, Resumed
  <1>4. /\ turn' \in TurnRows /\ turn'.pc = "save" /\ turn'.asks = q
        /\ turn'.total = t.total /\ turn'.shares = t.shares
    BY <1>2, <1>3, AsksWith
  <1>5. ReliesOn(turn', plan, applied)
    <2>1. CASE q \in Questions \ {"confirm", "recurrence", "cards"}
      BY <1>4, <2>1, Early
    <2>2. CASE q = question \/ (question = "recurrence" /\ q = "cards")
      BY <1>2, <1>3, <1>4, <2>2, SameReliance
    <2> QED
      BY <2>1, <2>2
  <1>6. Stands(turn', flow', applied)
    BY <1>4, AtSave
  <1> QED
    BY <1>2, <1>4, <1>5, <1>6, OnlyTheRunMoves DEF OnboardingInv, OnboardingTypeOK

LEMMA AnswersProceed ==
    ASSUME OnboardingInv, NEW question, Answers(question), NEW call \in Calls, Proceed(call),
           \/ question = "confirm" /\ call = "activate"
           \/ question = "recurrence" /\ call = "repeat"
           \/ question = "cards" /\ call = "conclude"
    PROVE  OnboardingInv'
  <1>1. PICK t : t = ResumeOnboarding
    OBVIOUS
  <1>2. /\ turn.pc = "idle" /\ flow.asks = question /\ flow' = flow
        /\ UNCHANGED <<plan, applied, thisMonth>> /\ turn' = [t EXCEPT !.pc = call]
    BY <1>1 DEF Answers, stores, Proceed
  <1>3. /\ t \in TurnRows /\ t.asks = flow.asks /\ ReliesOn(t, plan, applied)
    BY <1>1, <1>2, Resumed
  <1>4. /\ turn' \in TurnRows /\ turn'.pc = call /\ turn'.asks = t.asks
        /\ turn'.total = t.total /\ turn'.shares = t.shares
    BY <1>2, <1>3, ProceedsTo
  <1>5. ReliesOn(turn', plan, applied)
    BY <1>3, <1>4, SameReliance
  <1>6. Stands(turn', flow', applied)
    BY <1>2, <1>3, <1>4 DEF Stands
  <1> QED
    BY <1>2, <1>4, <1>5, <1>6, OnlyTheRunMoves DEF OnboardingInv, OnboardingTypeOK

LEMMA AnswersDivide ==
    ASSUME OnboardingInv, NEW question \in {"distribution", "personalize"}, Answers(question),
           NEW shares \in Divided, ApplyShares(shares)
    PROVE  OnboardingInv'
  <1>1. PICK t : t = ResumeOnboarding
    OBVIOUS
  <1>2. /\ turn.pc = "idle" /\ flow.asks = question /\ flow' = flow
        /\ UNCHANGED <<plan, applied, thisMonth>>
        /\ turn' = [t EXCEPT !.pc = "summary", !.shares = shares]
    BY <1>1 DEF Answers, stores, ApplyShares
  <1>3. t \in TurnRows /\ t.asks = flow.asks
    BY <1>1, <1>2, Resumed
  <1>4. /\ turn' \in TurnRows /\ turn'.pc = "summary" /\ turn'.asks = question
        /\ turn'.shares = shares
    BY <1>2, <1>3 DEF TurnRows, Calls, Shares
  <1>5. ReliesOn(turn', plan, applied)
    BY <1>4, Early DEF Questions
  <1>6. Stands(turn', flow', applied)
    BY <1>2, <1>4 DEF Stands
  <1> QED
    BY <1>2, <1>4, <1>5, <1>6, OnlyTheRunMoves DEF OnboardingInv, OnboardingTypeOK

LEMMA AnswersValues ==
    ASSUME OnboardingInv, NEW question \in {"distribution", "personalize"}, Answers(question),
           NEW d \in Divisions, activateAllocationValues(d)
    PROVE  OnboardingInv'
  <1>1. CASE Acceptable(d, flow.total)
    BY <1>1, AcceptedIsDivided, AnswersDivide DEF activateAllocationValues
  <1>2. CASE ~Acceptable(d, flow.total)
    <2>1. AskNext(question) /\ question \in Questions \ {"confirm", "recurrence", "cards"}
      BY <1>2 DEF activateAllocationValues, Answers, Questions
    <2> QED
      BY <2>1, AnswersAsk
  <1> QED
    BY <1>1, <1>2

LEMMA AnswersBudget ==
    ASSUME OnboardingInv, Answers("monthly budget"), NEW c \in MonthlyBudgets,
           AskWith("distribution", [ResumeOnboarding EXCEPT !.total = c])
    PROVE  OnboardingInv'
  <1>1. PICK t : t = ResumeOnboarding
    OBVIOUS
  <1>2. PICK u : u = [t EXCEPT !.total = c]
    OBVIOUS
  <1>3. /\ turn.pc = "idle" /\ flow' = flow
        /\ UNCHANGED <<plan, applied, thisMonth>> /\ AskWith("distribution", u)
    BY <1>1, <1>2 DEF Answers, stores
  <1>4. t \in TurnRows
    BY <1>1, <1>3, Resumed
  <1>5. u \in TurnRows /\ "distribution" \in Questions
    BY <1>2, <1>4 DEF TurnRows, Totals, Questions
  <1>6. turn' \in TurnRows /\ turn'.pc = "save" /\ turn'.asks = "distribution"
    BY <1>3, <1>5, AsksWith
  <1>7. ReliesOn(turn', plan, applied) /\ Stands(turn', flow', applied)
    BY <1>6 DEF ReliesOn, Stands
  <1> QED
    BY <1>3, <1>6, <1>7, OnlyTheRunMoves DEF OnboardingInv, OnboardingTypeOK

LEMMA AnswersCard ==
    ASSUME OnboardingInv, Answers("cards"), NEW n \in CardNames,
           turn' = [ResumeOnboarding EXCEPT !.pc = "card", !.card = n]
    PROVE  OnboardingInv'
  <1>1. PICK t : t = ResumeOnboarding
    OBVIOUS
  <1>2. /\ turn.pc = "idle" /\ flow.asks = "cards" /\ flow' = flow /\ UNCHANGED <<plan, applied, thisMonth>>
        /\ turn' = [t EXCEPT !.pc = "card", !.card = n]
    BY <1>1 DEF Answers, stores
  <1>3. t \in TurnRows /\ t.asks = flow.asks /\ ReliesOn(t, plan, applied)
    BY <1>1, <1>2, Resumed
  <1>4. /\ turn' \in TurnRows /\ turn'.pc = "card" /\ turn'.asks = t.asks
        /\ turn'.total = t.total /\ turn'.shares = t.shares
    BY <1>2, <1>3 DEF TurnRows, Calls
  <1>5. ReliesOn(turn', plan, applied)
    BY <1>3, <1>4, SameReliance
  <1>6. Stands(turn', flow', applied)
    BY <1>2, <1>3, <1>4 DEF Stands
  <1> QED
    BY <1>2, <1>4, <1>5, <1>6, OnlyTheRunMoves DEF OnboardingInv, OnboardingTypeOK

\* A failed step, from an answer or from the middle of a step.
LEMMA HandlerFails ==
    ASSUME OnboardingInv, FailStep, UNCHANGED <<flow, plan, applied, thisMonth>>
    PROVE  OnboardingInv'
  <1>1. PICK t : t = ResumeOnboarding
    OBVIOUS
  <1>2. t \in TurnRows /\ ReliesOn(t, plan, applied)
    <2>1. CASE turn.pc = "idle"
      BY <1>1, <2>1, Resumed
    <2>2. CASE turn.pc # "idle"
      BY <1>1, <2>2, Going DEF OnboardingInv, OnboardingTypeOK
    <2> QED
      BY <2>1, <2>2
  <1>3. /\ turn' \in TurnRows /\ turn'.pc = "save" /\ turn'.asks = t.asks
        /\ turn'.total = t.total /\ turn'.shares = t.shares
    BY <1>1, <1>2, FailedTurn DEF FailStep
  <1>4. ReliesOn(turn', plan, applied) /\ Stands(turn', flow', applied)
    BY <1>2, <1>3, SameReliance, AtSave
  <1> QED
    BY <1>3, <1>4, OnlyTheRunMoves DEF OnboardingInv, OnboardingTypeOK

\* The steps that read and write only the run and the handler.
LEMMA RunSteps ==
    ASSUME OnboardingInv,
           \/ StartOnboarding \/ SaveOnboarding \/ WelcomeStep \/ GoalStep \/ MonthlyBudgetStep
           \/ BudgetReviewStep \/ SummariseOnboarding \/ OnboardingCallFails
           \/ OnboardingInterrupted \/ ReapStaleOnboarding
    PROVE  OnboardingInv'
  <1>0. /\ flow \in FlowRows /\ turn \in TurnRows
        /\ ReliesOn(flow, plan, applied) /\ ReliesOn(turn, plan, applied)
    BY DEF OnboardingInv, OnboardingTypeOK
  <1>q. {"name", "goal", "goal value", "monthly budget", "distribution", "personalize"}
          \subseteq Questions \ {"confirm", "recurrence", "cards"}
    BY DEF Questions
  <1>n. /\ NoFlow \in FlowRows /\ NoTurn \in TurnRows
        /\ ReliesOn(NoFlow, plan, applied) /\ ReliesOn(NoTurn, plan, applied)
        /\ \A f : Stands(NoTurn, f, applied)
    BY NoRows DEF ReliesOn, Stands
  <1>1. CASE StartOnboarding
    <2>1. /\ flow' \in FlowRows /\ flow'.asks = "name" /\ turn' \in TurnRows /\ turn'.pc = "save"
          /\ turn'.asks = "name"
      BY <1>1, NoRows DEF StartOnboarding, FlowRows, TurnRows, Calls
    <2>2. ReliesOn(flow', plan, applied) /\ ReliesOn(turn', plan, applied)
          /\ Stands(turn', flow', applied)
      BY <2>1 DEF ReliesOn, Stands
    <2> QED
      BY <1>1, <2>1, <2>2, OnlyTheRunMoves DEF StartOnboarding, stores
  <1>2. CASE SaveOnboarding
    <2>1. flow' \in FlowRows /\ ReliesOn(flow', plan, applied)
      <3>1. CASE flow' = NoFlow
        BY <1>n, <3>1
      <3>2. CASE flow' = [status |-> "suspended", asks |-> turn.asks,
                          total |-> turn.total, shares |-> turn.shares]
        <4>1. /\ flow'.asks = turn.asks /\ flow'.total = turn.total /\ flow'.shares = turn.shares
              /\ flow' \in FlowRows
          BY <1>0, <3>2 DEF FlowRows, TurnRows
        <4> QED
          BY <1>0, <4>1, SameReliance
      <3> QED
        BY <1>2, <3>1, <3>2 DEF SaveOnboarding
    <2> QED
      BY <1>2, <1>n, <2>1, OnlyTheRunMoves DEF SaveOnboarding, stores
  <1>3. CASE WelcomeStep
    BY <1>3, <1>q, AnswersAsk DEF WelcomeStep
  <1>4. CASE GoalStep
    BY <1>4, <1>q, AnswersAsk DEF GoalStep
  <1>5. CASE MonthlyBudgetStep
    BY <1>5, <1>q, AnswersAsk, AnswersBudget DEF MonthlyBudgetStep
  <1>6. CASE BudgetReviewStep
    <2>1. CASE Answers("distribution") /\ \E q \in {"distribution", "personalize"} : AskNext(q)
      BY <1>q, <2>1, AnswersAsk
    <2>2. CASE Answers("distribution") /\ ApplyShares(DefaultShares)
      BY <2>2, DefaultIsDivided, AnswersDivide
    <2>3. CASE (Answers("distribution") \/ Answers("personalize"))
               /\ \E d \in Divisions : activateAllocationValues(d)
      BY <2>3, AnswersValues
    <2>4. CASE Answers("personalize") /\ AskNext("personalize")
      BY <1>q, <2>4, AnswersAsk
    <2>5. CASE Answers("confirm") /\ AskNext("distribution")
      BY <1>q, <2>5, AnswersAsk
    <2>6. CASE Answers("confirm") /\ Proceed("activate")
      BY <2>6, AnswersProceed DEF Calls
    <2> QED
      BY <1>6, <2>1, <2>2, <2>3, <2>4, <2>5, <2>6 DEF BudgetReviewStep
  <1>7. CASE SummariseOnboarding
    <2>1. /\ turn' \in TurnRows /\ turn'.pc = "save" /\ turn'.asks = turn.asks
          /\ turn'.total = turn.total /\ turn'.shares = turn.shares
      BY <1>0, <1>7 DEF SummariseOnboarding, TurnRows, Calls
    <2>2. ReliesOn(turn', plan, applied) /\ Stands(turn', flow', applied)
      BY <1>0, <2>1, SameReliance, AtSave
    <2> QED
      BY <1>0, <1>7, <2>1, <2>2, OnlyTheRunMoves DEF SummariseOnboarding, stores
  <1>8. CASE OnboardingCallFails
    BY <1>8, HandlerFails DEF OnboardingCallFails
  <1>9. CASE OnboardingInterrupted
    BY <1>0, <1>9, <1>n, OnlyTheRunMoves DEF OnboardingInterrupted
  <1>10. CASE ReapStaleOnboarding
    <2>1. Stands(turn, NoFlow, applied)
      BY NoRows DEF OnboardingInv, Stands
    <2> QED
      BY <1>0, <1>10, <1>n, <2>1, OnlyTheRunMoves DEF ReapStaleOnboarding, stores
  <1> QED
    BY <1>1, <1>2, <1>3, <1>4, <1>5, <1>6, <1>7, <1>8, <1>9, <1>10

\* Reading the summary of the month: what a run or a handler relied on before
\* the division was applied is of no interest any more.
LEMMA SummaryReads ==
    ASSUME OnboardingInv, ReadSummary
    PROVE  OnboardingInv'
  <1>0. /\ OnboardingTypeOK /\ turn.pc = "summary" /\ turn.shares \in Divided
        /\ turn.asks \in {"distribution", "personalize"}
        /\ flow.asks \in {"name", "distribution", "personalize"}
        /\ PlansWhole(plan) /\ flow' = flow /\ plan' = plan /\ thisMonth' = thisMonth
    BY DEF OnboardingInv, ReadSummary, Stands
  <1>1. /\ applied' \in [month : WelcomeMonths, found : {"none", "draft", "active"},
                         activated : WelcomeMonths]
        /\ applied'.month = thisMonth /\ applied'.found = plan[thisMonth].state
    <2>1. applied' = [applied EXCEPT !.month = thisMonth, !.found = plan[thisMonth].state]
      BY DEF ReadSummary
    <2>2. plan[thisMonth] \in PlanRows /\ plan[thisMonth].state \in {"none", "draft", "active"}
      BY <1>0 DEF OnboardingTypeOK, PlanRows
    <2> QED
      BY <1>0, <2>1, <2>2 DEF OnboardingTypeOK
  <1>2. /\ turn' \in TurnRows /\ ReliesOn(turn', plan, applied') /\ Stands(turn', flow, applied')
    <2>1. CASE Untouched(plan[thisMonth])
      <3>1. AskWith("confirm", turn) /\ "confirm" \in Questions
        BY <1>0, <2>1, Going DEF ReadSummary, AskNext, Questions
      <3>2. turn' \in TurnRows /\ turn'.pc = "save" /\ turn'.asks = "confirm"
        BY <1>0, <3>1, AsksWith DEF OnboardingTypeOK
      <3>3. ReliesOn(turn', plan, applied')
        BY <1>1, <2>1, <3>2 DEF ReliesOn, ShowsThePlan, Untouched
      <3>4. Stands(turn', flow, applied')
        BY <3>2, AtSave
      <3> QED
        BY <3>2, <3>3, <3>4
    <2>2. CASE ~Untouched(plan[thisMonth])
      <3>1. PICK call \in {"create", "delete"} : turn' = [turn EXCEPT !.month = thisMonth, !.pc = call]
        BY <2>2 DEF ReadSummary
      <3>2. /\ turn' \in TurnRows /\ turn'.pc = call /\ turn'.asks = turn.asks
            /\ turn'.shares = turn.shares /\ turn'.month = thisMonth
        BY <1>0, <3>1 DEF OnboardingTypeOK, TurnRows, Calls
      <3>3. ReliesOn(turn', plan, applied')
        BY <1>0, <3>2 DEF ReliesOn
      <3>4. Stands(turn', flow, applied')
        BY <1>0, <1>1, <3>1, <3>2 DEF Stands
      <3> QED
        BY <3>2, <3>3, <3>4
    <2> QED
      BY <2>1, <2>2
  <1>3. ReliesOn(flow, plan, applied')
    BY <1>0 DEF ReliesOn
  <1> QED
    BY <1>0, <1>1, <1>2, <1>3 DEF OnboardingInv, OnboardingTypeOK

LEMMA DraftDeleted ==
    ASSUME OnboardingInv, DeleteDraftBudget
    PROVE  OnboardingInv'
  <1>0. /\ OnboardingTypeOK /\ turn.pc = "delete" /\ turn.shares \in Divided
        /\ turn.asks \in {"distribution", "personalize"} /\ turn.month = applied.month
        /\ flow.asks \in {"name", "distribution", "personalize"} /\ PlansWhole(plan)
        /\ UNCHANGED <<flow, thisMonth, applied>>
        /\ plan' = [plan EXCEPT ![turn.month] = NoPlan] /\ turn' = [turn EXCEPT !.pc = "create"]
    BY Going DEF OnboardingInv, DeleteDraftBudget, Stands, Proceed
  <1>1. /\ turn' \in TurnRows /\ turn'.pc = "create" /\ turn'.asks = turn.asks
        /\ turn'.shares = turn.shares /\ turn'.month = turn.month
    BY <1>0 DEF OnboardingTypeOK, TurnRows, Calls
  <1>2. plan' \in [WelcomeMonths -> PlanRows] /\ PlansWhole(plan')
    BY <1>0, NoRows DEF OnboardingTypeOK, PlansWhole
  <1>3. ReliesOn(turn', plan', applied) /\ ReliesOn(flow, plan', applied)
    BY <1>0, <1>1 DEF ReliesOn
  <1>4. Stands(turn', flow, applied)
    BY <1>0, <1>1 DEF Stands
  <1> QED
    BY <1>0, <1>1, <1>2, <1>3, <1>4 DEF OnboardingInv, OnboardingTypeOK

LEMMA DraftCreated ==
    ASSUME OnboardingInv, CreateBudgetOfMonth
    PROVE  OnboardingInv'
  <1>0. /\ OnboardingTypeOK /\ turn.pc = "create" /\ turn.shares \in Divided
        /\ turn.asks \in {"distribution", "personalize"} /\ turn.month = applied.month
        /\ flow.asks \in {"name", "distribution", "personalize"} /\ PlansWhole(plan)
        /\ UNCHANGED <<flow, thisMonth, applied>>
        /\ plan' = [plan EXCEPT ![turn.month] = AsDraft]
        /\ turn' = [[turn EXCEPT !.month = 1] EXCEPT !.pc = "save", !.asks = "confirm"]
    BY DEF OnboardingInv, CreateBudgetOfMonth, Stands, AskWith
  <1>1. /\ turn' \in TurnRows /\ turn'.pc = "save" /\ turn'.asks = "confirm"
        /\ turn'.shares = turn.shares /\ turn'.total = turn.total
    BY <1>0, NoRows DEF OnboardingTypeOK, TurnRows, Calls, Questions
  <1>2. /\ AsDraft \in PlanRows /\ AsDraft.shares = turn.shares /\ AsDraft.total = turn.total
    BY <1>0 DEF AsDraft, OnboardingTypeOK, TurnRows, PlanRows
  <1>3. plan' \in [WelcomeMonths -> PlanRows] /\ PlansWhole(plan') /\ plan'[applied.month] = AsDraft
    BY <1>0, <1>2 DEF OnboardingTypeOK, PlansWhole
  <1>4. ReliesOn(turn', plan', applied) /\ ReliesOn(flow, plan', applied)
    BY <1>0, <1>1, <1>2, <1>3 DEF ReliesOn, ShowsThePlan
  <1>5. Stands(turn', flow, applied)
    BY <1>1, AtSave
  <1> QED
    BY <1>0, <1>1, <1>3, <1>4, <1>5 DEF OnboardingInv, OnboardingTypeOK

\* The budget of the current month becomes active with the division it has.
LEMMA Activated ==
    ASSUME OnboardingInv, ActivationStep
    PROVE  OnboardingInv'
  <1>0. /\ OnboardingTypeOK /\ turn.pc = "activate" /\ turn.asks = "confirm"
        /\ flow.asks \in {"name", "confirm"} /\ PlansWhole(plan)
        /\ UNCHANGED <<flow, thisMonth>>
        /\ ReliesOn(turn, plan, applied) /\ ReliesOn(flow, plan, applied)
    BY DEF OnboardingInv, ActivationStep, Stands
  <1>1. CASE plan[thisMonth].state = "none"
    BY <1>0, <1>1, HandlerFails DEF ActivationStep
  <1>2. CASE plan[thisMonth].state # "none"
    <2>1. /\ plan' = [plan EXCEPT ![thisMonth].state = "active"]
          /\ applied' = [applied EXCEPT !.activated = thisMonth]
          /\ AskWith("recurrence", turn) /\ "recurrence" \in Questions
      BY <1>0, <1>2, Going DEF ActivationStep, AskNext, Questions
    <2>2. /\ applied' \in [month : WelcomeMonths, found : {"none", "draft", "active"},
                           activated : WelcomeMonths]
          /\ applied'.month = applied.month /\ applied'.found = applied.found
          /\ applied'.activated = thisMonth
      BY <1>0, <2>1 DEF OnboardingTypeOK
    <2>3. ASSUME NEW m \in WelcomeMonths
          PROVE  /\ plan'[m] \in PlanRows /\ plan'[m].total = plan[m].total
                 /\ plan'[m].shares = plan[m].shares
                 /\ m = thisMonth => plan'[m].state = "active"
                 /\ m # thisMonth => plan'[m].state = plan[m].state
      BY <1>0, <2>1 DEF OnboardingTypeOK, PlanRows
    <2>4. plan' \in [WelcomeMonths -> PlanRows] /\ PlansWhole(plan')
      BY <1>0, <1>2, <2>1, <2>3 DEF OnboardingTypeOK, PlansWhole
    <2>5. /\ turn' \in TurnRows /\ turn'.pc = "save" /\ turn'.asks = "recurrence"
          /\ turn'.shares = turn.shares /\ turn'.total = turn.total
      BY <1>0, <2>1, AsksWith DEF OnboardingTypeOK
    <2>6. ShowsThePlan(turn, plan', applied') /\ (flow.asks = "confirm" => ShowsThePlan(flow, plan', applied'))
      BY <1>0, <2>2, <2>3 DEF ReliesOn, ShowsThePlan, OnboardingTypeOK
    <2>7. ReliesOn(turn', plan', applied')
      BY <1>0, <2>2, <2>3, <2>5, <2>6 DEF ReliesOn, ShowsThePlan, InForce, OnboardingTypeOK
    <2>8. ReliesOn(flow, plan', applied')
      BY <1>0, <2>6 DEF ReliesOn
    <2>9. Stands(turn', flow, applied')
      BY <2>5, AtSave
    <2> QED
      BY <1>0, <2>2, <2>4, <2>5, <2>7, <2>8, <2>9 DEF OnboardingInv, OnboardingTypeOK
  <1> QED
    BY <1>1, <1>2

\* Repeating the budget rewrites months to come that are not active.
LEMMA Repeated ==
    ASSUME OnboardingInv, turn.pc = "repeat", RecurrenceStep
    PROVE  OnboardingInv'
  <1>0. /\ OnboardingTypeOK /\ turn.asks = "recurrence"
        /\ flow.asks \in {"name", "recurrence"} /\ PlansWhole(plan)
        /\ UNCHANGED <<flow, thisMonth, applied>>
        /\ ReliesOn(turn, plan, applied) /\ ReliesOn(flow, plan, applied)
    BY DEF OnboardingInv, RecurrenceStep, Stands, Answers
  <1>1. CASE plan[thisMonth].state = "none"
    BY <1>0, <1>1, HandlerFails DEF RecurrenceStep, Answers
  <1>2. CASE plan[thisMonth].state # "none"
    <2>1. /\ AskWith("cards", turn) /\ "cards" \in Questions
          /\ \E written \in SUBSET {m \in WelcomeMonths : m > thisMonth /\ plan[m].state # "active"} :
                plan' = [m \in WelcomeMonths |->
                            IF m \in written THEN [plan[thisMonth] EXCEPT !.state = "draft"] ELSE plan[m]]
      BY <1>0, <1>2, Going DEF RecurrenceStep, Answers, AskNext, Questions
    <2>2. PICK row : row = [plan[thisMonth] EXCEPT !.state = "draft"]
      OBVIOUS
    <2>3. row \in PlanRows /\ row.shares \in Divided
      BY <1>0, <1>2, <2>2 DEF OnboardingTypeOK, PlanRows, PlansWhole
    <2>4. \A m \in WelcomeMonths : plan'[m] = plan[m] \/ (plan'[m] = row /\ plan[m].state # "active")
      BY <2>1, <2>2
    <2>5. plan' \in [WelcomeMonths -> PlanRows] /\ PlansWhole(plan')
      <3>1. DOMAIN plan' = WelcomeMonths /\ plan' = [m \in WelcomeMonths |-> plan'[m]]
        BY <2>1
      <3>2. \A m \in WelcomeMonths : plan'[m] \in PlanRows
        BY <1>0, <2>3, <2>4 DEF OnboardingTypeOK
      <3> QED
        BY <1>0, <2>3, <2>4, <3>1, <3>2 DEF PlansWhole
    <2>6. /\ turn' \in TurnRows /\ turn'.pc = "save" /\ turn'.asks = "cards"
          /\ turn'.shares = turn.shares /\ turn'.total = turn.total
      BY <1>0, <2>1, AsksWith DEF OnboardingTypeOK
    <2>7. applied.activated \in WelcomeMonths
      BY <1>0 DEF OnboardingTypeOK
    <2>8. InForce(turn, plan', applied) /\ (flow.asks = "recurrence" => InForce(flow, plan', applied))
      BY <1>0, <2>4, <2>7 DEF ReliesOn, InForce
    <2>9. ReliesOn(turn', plan', applied) /\ ReliesOn(flow, plan', applied)
      BY <1>0, <2>6, <2>8 DEF ReliesOn, InForce
    <2>10. Stands(turn', flow, applied)
      BY <2>6, AtSave
    <2> QED
      BY <1>0, <2>5, <2>6, <2>9, <2>10 DEF OnboardingInv, OnboardingTypeOK
  <1> QED
    BY <1>1, <1>2

LEMMA OnboardingStep == OnboardingInv /\ [OnboardingNext]_onboardingVars => OnboardingInv'
  <1> SUFFICES ASSUME OnboardingInv, [OnboardingNext]_onboardingVars PROVE OnboardingInv'
    OBVIOUS
  <1>0. OnboardingTypeOK /\ ReliesOn(turn, plan, applied) /\ ReliesOn(flow, plan, applied)
    BY DEF OnboardingInv
  <1>1. CASE UNCHANGED onboardingVars
    <2>1. UNCHANGED <<flow, turn, plan, thisMonth, applied>>
      BY <1>1 DEF onboardingVars
    <2> QED
      BY <2>1 DEF OnboardingInv, OnboardingTypeOK
  <1>2. CASE RecurrenceStep
    <2>1. CASE turn.pc = "repeat"
      BY <1>2, <2>1, Repeated
    <2>2. CASE Answers("recurrence") /\ \E q \in {"recurrence", "cards"} : AskNext(q)
      BY <2>2, AnswersAsk DEF Questions
    <2>3. CASE Answers("recurrence") /\ Proceed("repeat")
      BY <2>3, AnswersProceed DEF Calls
    <2> QED
      BY <1>2, <2>1, <2>2, <2>3 DEF RecurrenceStep
  <1>3. CASE CardsStep
    <2>1. CASE Answers("cards") /\ AskNext("cards")
      BY <2>1, AnswersAsk DEF Questions
    <2>2. CASE Answers("cards") /\ Proceed("conclude")
      BY <2>2, AnswersProceed DEF Calls
    <2>3. CASE Answers("cards") /\ \E n \in CardNames : turn' = [ResumeOnboarding EXCEPT !.pc = "card", !.card = n]
      BY <2>3, AnswersCard
    <2>4. CASE /\ turn.pc = "card" /\ UNCHANGED <<flow, plan, thisMonth, applied>>
               /\ \/ FailStep \/ AskWith("cards", [turn EXCEPT !.card = ""])
      <3>1. CASE FailStep
        BY <2>4, <3>1, HandlerFails
      <3>2. CASE AskWith("cards", [turn EXCEPT !.card = ""])
        <4>1. PICK t : t = [turn EXCEPT !.card = ""]
          OBVIOUS
        <4>2. /\ t \in TurnRows /\ t.asks = turn.asks /\ t.total = turn.total /\ t.shares = turn.shares
          BY <1>0, <4>1 DEF OnboardingTypeOK, TurnRows
        <4>3. /\ turn' \in TurnRows /\ turn'.pc = "save" /\ turn'.asks = "cards"
              /\ turn'.total = t.total /\ turn'.shares = t.shares
          BY <3>2, <4>1, <4>2, AsksWith DEF Questions
        <4>4. turn.asks = "cards"
          BY <2>4 DEF OnboardingInv, Stands
        <4>5. ReliesOn(turn', plan, applied)
          BY <1>0, <4>2, <4>3, <4>4, SameReliance
        <4>6. Stands(turn', flow', applied)
          BY <4>3, AtSave
        <4> QED
          BY <1>0, <2>4, <4>3, <4>5, <4>6, OnlyTheRunMoves DEF OnboardingTypeOK
      <3> QED
        BY <2>4, <3>1, <3>2
    <2> QED
      BY <1>3, <2>1, <2>2, <2>3, <2>4 DEF CardsStep
  <1>4. CASE ConclusionStep
    <2>1. /\ turn' \in TurnRows /\ turn'.pc = "summarise" /\ turn'.asks = turn.asks
          /\ turn'.total = turn.total /\ turn'.shares = turn.shares
          /\ UNCHANGED <<flow, plan, thisMonth, applied>>
      BY <1>0, <1>4 DEF ConclusionStep, OnboardingTypeOK, TurnRows, Calls
    <2>2. ReliesOn(turn', plan, applied)
      BY <1>0, <2>1, SameReliance
    <2>3. Stands(turn', flow', applied)
      BY <2>1, AtSave
    <2> QED
      BY <1>0, <2>1, <2>2, <2>3, OnlyTheRunMoves DEF OnboardingTypeOK
  <1>5. CASE MonthTurns
    <2>1. thisMonth' \in WelcomeMonths /\ UNCHANGED <<flow, turn, plan, applied>>
      BY <1>0, <1>5, OnboardingAssumption DEF MonthTurns, OnboardingTypeOK, WelcomeMonths
    <2> QED
      BY <2>1 DEF OnboardingInv, OnboardingTypeOK
  <1> QED
    BY <1>1, <1>2, <1>3, <1>4, <1>5, RunSteps, SummaryReads, DraftDeleted, DraftCreated, Activated
       DEF OnboardingNext

\* Only the conclusion opens the agent to a user; the handler is at the cards then.
LEMMA ConclusionNeedsPlan ==
    ASSUME OnboardingInv, OnboardingNext, ~onboarded, onboarded'
    PROVE  turn.asks = "cards" /\ InForce(turn, plan, applied)
  <1>1. onboarded' # onboarded
    OBVIOUS
  <1>2. ConclusionStep
    BY <1>1 DEF OnboardingNext, StartOnboarding, SaveOnboarding, WelcomeStep, GoalStep, MonthlyBudgetStep,
                BudgetReviewStep, ReadSummary, DeleteDraftBudget, CreateBudgetOfMonth, ActivationStep,
                RecurrenceStep, CardsStep, SummariseOnboarding, OnboardingCallFails, OnboardingInterrupted,
                ReapStaleOnboarding, MonthTurns, Answers, stores
  <1> QED
    BY <1>2 DEF ConclusionStep, OnboardingInv, Stands, ReliesOn

\* Nobody reaches the agent without an active budget, divided completely and as
\* confirmed, whatever drafts, refusals, restarts, lost saves and turns of the
\* month came before: unless the month had an active budget when the division
\* was applied, or turned before the budget was activated.
THEOREM OnboardedUsersHavePlans == OnboardingSpec => OnboardedHasPlan
  <1> DEFINE A == ~onboarded /\ onboarded' =>
                    LET active == plan[applied.activated]
                    IN  /\ active.state = "active" /\ Total(active.shares) = 10000
                        /\ \/ active.total = turn.total /\ active.shares = turn.shares
                           \/ applied.found = "active" \/ applied.activated # applied.month
  <1>1. OnboardingInv /\ [OnboardingNext]_onboardingVars => [A]_onboardingVars
    <2> SUFFICES ASSUME OnboardingInv, OnboardingNext, ~onboarded, onboarded'
                 PROVE  LET active == plan[applied.activated]
                        IN  /\ active.state = "active" /\ Total(active.shares) = 10000
                            /\ \/ active.total = turn.total /\ active.shares = turn.shares
                               \/ applied.found = "active" \/ applied.activated # applied.month
      OBVIOUS
    <2>1. InForce(turn, plan, applied)
      BY ConclusionNeedsPlan
    <2>2. applied.activated \in WelcomeMonths /\ PlansWhole(plan)
      BY DEF OnboardingInv, OnboardingTypeOK
    <2>3. plan[applied.activated].state = "active" /\ plan[applied.activated].shares \in Divided
      BY <2>1, <2>2 DEF InForce, PlansWhole
    <2> QED
      BY <2>1, <2>3 DEF InForce, Divided
  <1> HIDE DEF A
  <1>2. OnboardingSpec => [][A]_onboardingVars
    BY <1>1, OnboardingStarts, OnboardingStep, PTL DEF OnboardingSpec
  <1> QED
    BY <1>2 DEF A, OnboardedHasPlan
=============================================================================
