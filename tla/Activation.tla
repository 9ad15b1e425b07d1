----------------------------- MODULE Activation -----------------------------
(***************************************************************************)
(* From a checkout session to a bound subscription (internal/onboarding):  *)
(* the magic token of a session is paid by a billing event, consumed by a  *)
(* message of a number the service does not know yet, or expired by a      *)
(* daily job.  Consuming upserts the user of the number (internal/identity)*)
(* and gives the subscription its user, in one transaction.                *)
(*                                                                         *)
(* The messages of unknown numbers are events without a user, so the       *)
(* outbox hands several of one number out at once.  A handler reads the    *)
(* token in one statement and writes in later ones: those lock the rows    *)
(* they touch until the commit, so they are one step, and the read before  *)
(* them another.  A user is named by the number, a subscription by the     *)
(* token of its sale.                                                      *)
(***************************************************************************)
EXTENDS Naturals, Sequences, FiniteSets

CONSTANTS
    Tokens,         \* onboarding_tokens
    Phones,         \* WhatsApp numbers
    Mails,          \* e-mail addresses of buyers
    BuyerPhone,     \* customer_mobile_e164 of a token's sale
    BuyerMail,      \* customer_email of a token's sale, or NoMail
    ShortLived,     \* bound: tokens whose window, term and subscription may end
    Attempts,       \* messages that ask for an activation
    MessageTexts,          \* what a message may hold: no token, or one
    MaxTries,       \* the outbox' retry budget
    MaxMisfortunes  \* bound on crashes, redeliveries and failed inserts

NoMail == "no e-mail"
NoUserRow == "no user"
Nobody == "nobody"

ASSUME ActivationAssumption ==
    /\ Tokens # {} /\ IsFiniteSet(Tokens)
    /\ BuyerPhone \in [Tokens -> Phones] /\ BuyerMail \in [Tokens -> Mails \cup {NoMail}]
    /\ MessageTexts \subseteq {{}} \cup {{t} : t \in Tokens}
    /\ Mails \cap {NoMail, NoUserRow} = {} /\ Nobody \notin Phones
    /\ MaxTries \in Nat \ {0} /\ MaxMisfortunes \in Nat

VARIABLES
    token,       \* status and paid_at (a rank, 0 is NULL) of each token
    consumer,    \* consumed_by_mobile_e164
    window,      \* tokens paid less than the activation window ago
    expired,     \* tokens past expires_at
    subscription, owner,    \* billing: none, entitled or ended, and user_id
    activated,   \* undelivered billing.subscription.activated events
    account,     \* e-mail of the user of a number
    attempt,     \* onboarding.activation.attempted events and their handlers
    bound,       \* onboarding.subscription_bound events, per token
    orphans,     \* paid tokens the expiration job has yet to signal
    signalled, unsignalled, \* orphan signals, and those a fault took
    misfortunes

activationVars == <<token, consumer, window, expired, subscription, owner, activated, account,
                    attempt, bound, orphans, signalled, unsignalled, misfortunes>>
tokenSide == <<token, consumer, window, expired>>
bindingSide == <<owner, account, bound>>
expirySide == <<orphans, signalled, unsignalled>>

SomeToken == CHOOSE t \in Tokens : TRUE
NotWritten == [state |-> "unsent", phone |-> Nobody, text |-> {}, found |-> SomeToken, tries |-> 0]

ActivationInit ==
    /\ token = [t \in Tokens |-> [status |-> "absent", paid |-> 0]]
    /\ consumer = [t \in Tokens |-> Nobody]
    /\ window = {} /\ expired = {}
    /\ subscription = [t \in Tokens |-> "none"] /\ owner = [t \in Tokens |-> Nobody]
    /\ activated = {}
    /\ account = [p \in Phones |-> NoUserRow]
    /\ attempt = [m \in Attempts |-> NotWritten]
    /\ bound = [t \in Tokens |-> <<>>]
    /\ orphans = {} /\ signalled = {} /\ unsignalled = {}
    /\ misfortunes = 0

-----------------------------------------------------------------------------
(* Checkout and payment.                                                   *)

CreateCheckoutSession(t) ==
    /\ token[t].status = "absent"
    /\ token' = [token EXCEPT ![t].status = "PENDING"]
    /\ UNCHANGED <<consumer, window, expired, subscription, activated, attempt, bindingSide,
                   expirySide, misfortunes>>

\* Billing stores the subscription and publishes its activation.
ProcessSaleApproved(t) ==
    /\ token[t].status # "absent" /\ subscription[t] = "none"
    /\ subscription' = [subscription EXCEPT ![t] = "entitled"]
    /\ activated' = activated \cup {t}
    /\ UNCHANGED <<tokenSide, attempt, bindingSide, expirySide, misfortunes>>

SubscriptionEnds(t) ==
    /\ t \in ShortLived /\ subscription[t] = "entitled"
    /\ subscription' = [subscription EXCEPT ![t] = "ended"]
    /\ UNCHANGED <<tokenSide, activated, attempt, bindingSide, expirySide, misfortunes>>

DecideMarkPaid(t) == token[t].status = "PENDING"

\* An activation that finds the token no longer pending changes nothing, a
\* payment that comes after the expiry included.
MarkTokenPaid(t) ==
    /\ t \in activated
    /\ activated' = activated \ {t}
    /\ IF DecideMarkPaid(t)
       THEN /\ token' = [token EXCEPT ![t] =
                  [status |-> "PAID", paid |-> 1 + Cardinality({u \in Tokens : token[u].paid > 0})]]
            /\ window' = window \cup {t}
       ELSE UNCHANGED <<token, window>>
    /\ UNCHANGED <<consumer, expired, subscription, attempt, bindingSide, expirySide, misfortunes>>

-----------------------------------------------------------------------------
(* The binding of a user, for the two ways to a token.                     *)

\* COALESCE: the first e-mail a user got stays.
Merged(p, t) == IF account[p] \in {NoUserRow, NoMail} THEN BuyerMail[t] ELSE account[p]

\* Mutant: no unique index on the e-mails of users.
AnyMail(p, t) == TRUE
MailIsFree(p, t) == Merged(p, t) # NoMail => \A q \in Phones \ {p} : account[q] # Merged(p, t)

\* The unique index on the entitled subscription of a user.
UserIsFree(p, t) ==
    subscription[t] = "entitled" =>
        \A u \in Tokens \ {t} : ~(subscription[u] = "entitled" /\ owner[u] = p)

Bindable(p, t) == MailIsFree(p, t) /\ UserIsFree(p, t)

\* UpsertUserByWhatsApp and BindUser, which asks neither who owned the
\* subscription nor what became of the token.
BindUser(p, t) ==
    /\ account' = [account EXCEPT ![p] = Merged(p, t)]
    /\ owner' = [owner EXCEPT ![t] = p]

\* Mutant: UPDATE without AND status = 'PAID'.
AnyToken(t) == TRUE
IsStillPaid(t) == token[t].status = "PAID"

UpdateMarkConsumed(p, t) ==
    /\ IsStillPaid(t)
    /\ token' = [token EXCEPT ![t].status = "CONSUMED"]
    /\ consumer' = [consumer EXCEPT ![t] = p]
    /\ bound' = [bound EXCEPT ![t] = Append(@, p)]

Becomes(m, state) == attempt' = [attempt EXCEPT ![m].state = state]
\* A failed handler is delivered again while its budget lasts.
Fails(m) ==
    attempt' = [attempt EXCEPT ![m].tries = @ + 1,
                               ![m].state = IF attempt[m].tries + 1 < MaxTries THEN "queued" ELSE "dead"]

\* The dispatcher routes a message here when its number has no user.
WriteMessage(m, p, text) ==
    /\ attempt[m].state = "unsent" /\ account[p] = NoUserRow
    /\ attempt' = [attempt EXCEPT ![m] = [NotWritten EXCEPT !.state = "queued", !.phone = p, !.text = text]]
    /\ UNCHANGED <<tokenSide, subscription, activated, bindingSide, expirySide, misfortunes>>

unrelated == <<window, expired, subscription, activated, expirySide, misfortunes>>

PaidBy(p) == {t \in window : token[t].status = "PAID" /\ BuyerPhone[t] = p}

\* The newest token paid with this number, or else the token in the text.
FindActivableByMobile(m) ==
    LET mine == PaidBy(attempt[m].phone)
    IN  /\ attempt[m].state = "queued"
        /\ IF mine = {} THEN Becomes(m, "text")
           ELSE \E t \in mine :
                  /\ \A u \in mine : token[u].paid <= token[t].paid
                  /\ attempt' = [attempt EXCEPT ![m].state = "bind", ![m].found = t]
        /\ UNCHANGED <<token, consumer, bindingSide, unrelated>>

\* A token consumed or expired since it was found: the race is answered as
\* already active, and the binding is committed.
LoadByPhone(m) ==
    LET p == attempt[m].phone  t == attempt[m].found
    IN  /\ attempt[m].state = "bind"
        /\ IF ~Bindable(p, t)
           THEN Fails(m) /\ UNCHANGED <<token, consumer, bindingSide>>
           ELSE /\ BindUser(p, t) /\ Becomes(m, "done")
                /\ \/ UpdateMarkConsumed(p, t)
                   \/ ~IsStillPaid(t) /\ UNCHANGED <<token, consumer, bound>>
        /\ UNCHANGED unrelated

\* What ConsumeMagicToken reads of the token in the text.
ConsumeMagicToken(m) ==
    /\ attempt[m].state = "text"
    /\ LET p == attempt[m].phone
           Usable(t) == t \notin expired /\ token[t].status = "PAID" /\ t \in window
           Mine(t) == token[t].status = "CONSUMED" /\ consumer[t] = p
       IN  \/ \E t \in attempt[m].text : /\ Usable(t)
                                         /\ attempt' = [attempt EXCEPT ![m].state = "consume", ![m].found = t]
           \/ /\ \E t \in attempt[m].text : Mine(t)
              /\ Becomes(m, "done")
           \/ /\ \A t \in attempt[m].text : ~Usable(t) /\ ~Mine(t)
              /\ Becomes(m, "no match")
    /\ UNCHANGED <<token, consumer, bindingSide, unrelated>>

\* The same binding, rolled back when it loses the race.
HandlePaidToken(m) ==
    LET p == attempt[m].phone  t == attempt[m].found
    IN  /\ attempt[m].state = "consume"
        /\ \/ /\ ~Bindable(p, t) /\ Fails(m)
              /\ UNCHANGED <<token, consumer, bindingSide>>
           \/ /\ Bindable(p, t) /\ ~IsStillPaid(t) /\ Becomes(m, "done")
              /\ UNCHANGED <<token, consumer, bindingSide>>
           \/ /\ Bindable(p, t) /\ BindUser(p, t) /\ UpdateMarkConsumed(p, t) /\ Becomes(m, "done")
        /\ UNCHANGED unrelated

\* Already active, throttled, or told that nothing was found.
NoMatch(m) ==
    /\ attempt[m].state = "no match"
    /\ Becomes(m, "done") \/ Fails(m)
    /\ UNCHANGED <<token, consumer, bindingSide, unrelated>>

-----------------------------------------------------------------------------
(* ExpireTokens: one statement, then a signal for each paid token.         *)

\* Mutant: looks at the status that RETURNING gives back, which is EXPIRED.
OrphansByStatus(T) == {}
Orphans(T) == {t \in T : token[t].paid > 0}

\* Rows another transaction holds are skipped.
BulkExpire(T) ==
    /\ orphans = {} /\ T # {}
    /\ \A t \in T : t \in expired /\ token[t].status \in {"PENDING", "PAID"}
    /\ token' = [t \in Tokens |-> IF t \in T THEN [token[t] EXCEPT !.status = "EXPIRED"] ELSE token[t]]
    /\ orphans' = Orphans(T)
    /\ UNCHANGED <<consumer, window, expired, subscription, activated, attempt, bindingSide,
                   signalled, unsignalled, misfortunes>>

EmitOrphanSignal(t) ==
    /\ t \in orphans
    /\ signalled' = signalled \cup {t} /\ orphans' = orphans \ {t}
    /\ UNCHANGED <<tokenSide, subscription, activated, attempt, bindingSide, unsignalled, misfortunes>>

-----------------------------------------------------------------------------
(* Time and faults.                                                        *)

Misfortune == misfortunes < MaxMisfortunes /\ misfortunes' = misfortunes + 1

\* The insert of a signal fails and is logged, or the worker dies.
SignalsLost(T) ==
    /\ Misfortune /\ T # {} /\ T \subseteq orphans
    /\ unsignalled' = unsignalled \cup T /\ orphans' = orphans \ T
    /\ UNCHANGED <<tokenSide, subscription, activated, attempt, bindingSide, signalled>>

\* A handler dies, or its event is handed out again after it was handled.
DeliveredAgain(m) ==
    /\ Misfortune /\ attempt[m].state \notin {"unsent", "queued", "dead"}
    /\ Becomes(m, "queued")
    /\ UNCHANGED <<tokenSide, subscription, activated, bindingSide, expirySide>>

ActivatedAgain(t) ==
    /\ Misfortune /\ subscription[t] # "none" /\ t \notin activated
    /\ activated' = activated \cup {t}
    /\ UNCHANGED <<tokenSide, subscription, attempt, bindingSide, expirySide>>

WindowCloses(t) ==
    /\ t \in ShortLived \cap window /\ window' = window \ {t}
    /\ UNCHANGED <<token, consumer, expired, subscription, activated, attempt, bindingSide,
                   expirySide, misfortunes>>

TokenExpires(t) ==
    /\ t \in ShortLived \ expired /\ token[t].status # "absent" /\ expired' = expired \cup {t}
    /\ UNCHANGED <<token, consumer, window, subscription, activated, attempt, bindingSide,
                   expirySide, misfortunes>>

-----------------------------------------------------------------------------
ActivationNext ==
    \/ \E t \in Tokens :
          \/ CreateCheckoutSession(t) \/ ProcessSaleApproved(t) \/ SubscriptionEnds(t)
          \/ MarkTokenPaid(t) \/ EmitOrphanSignal(t) \/ ActivatedAgain(t)
          \/ WindowCloses(t) \/ TokenExpires(t)
    \/ \E T \in SUBSET Tokens : BulkExpire(T) \/ SignalsLost(T)
    \/ \E m \in Attempts :
          \/ \E p \in Phones, text \in MessageTexts : WriteMessage(m, p, text)
          \/ FindActivableByMobile(m) \/ LoadByPhone(m) \/ ConsumeMagicToken(m)
          \/ HandlePaidToken(m) \/ NoMatch(m) \/ DeliveredAgain(m)

ActivationSpec == ActivationInit /\ [][ActivationNext]_activationVars

-----------------------------------------------------------------------------
AttemptStates == {"unsent", "queued", "bind", "text", "consume", "no match", "done", "dead"}
AttemptRows == [state : AttemptStates, phone : Phones \cup {Nobody}, text : SUBSET Tokens,
                found : Tokens, tries : Nat]
TokenRows == [status : {"absent", "PENDING", "PAID", "CONSUMED", "EXPIRED"}, paid : Nat]

\* The types of the tokens, the subscriptions, the users and the handlers.
ActivationTypeOK ==
    /\ token \in [Tokens -> TokenRows]
    /\ consumer \in [Tokens -> Phones \cup {Nobody}] /\ owner \in [Tokens -> Phones \cup {Nobody}]
    /\ window \subseteq Tokens /\ expired \subseteq Tokens /\ activated \subseteq Tokens
    /\ subscription \in [Tokens -> {"none", "entitled", "ended"}]
    /\ account \in [Phones -> Mails \cup {NoMail, NoUserRow}]
    /\ attempt \in [Attempts -> AttemptRows]
    /\ \A m \in Attempts : attempt[m].state # "unsent" => attempt[m].phone \in Phones
    /\ bound \in [Tokens -> Seq(Phones)]
    /\ orphans \subseteq Tokens /\ signalled \subseteq Tokens /\ unsignalled \subseteq Tokens
    /\ misfortunes \in Nat

\* However many numbers, messages and deliveries claim a token, it is
\* consumed by one number, announced once, and to that number.
ActivatedOnce == \A t \in Tokens :
    bound[t] = IF token[t].status = "CONSUMED" THEN <<consumer[t]>> ELSE <<>>

\* A race lost to another number is answered as already active and commits its
\* binding.  That takes a consumed sale away from its consumer only if the sale
\* names no e-mail, the consumer's user goes by another one, or the loser's does.
ConsumedKeepsOwner ==
    [][\A t \in Tokens :
          token[t].status = "CONSUMED" /\ owner'[t] \notin {owner[t], consumer[t]} =>
              \/ BuyerMail[t] = NoMail
              \/ account[consumer[t]] # BuyerMail[t]
              \/ account[owner'[t]] \notin {NoUserRow, NoMail, BuyerMail[t]}]_activationVars

\* A paid token that expires is signalled to support, unless the worker died
\* or the insert failed between the statement that expired it and the signal.
ExpiredPaidIsSignalled == \A t \in Tokens :
    token[t].status = "EXPIRED" /\ token[t].paid > 0 => t \in orphans \cup signalled \cup unsignalled
=============================================================================
