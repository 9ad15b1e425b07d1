------------------------------ MODULE CardProofs ------------------------------
(***************************************************************************)
(* Proofs about internal/card. CardRequests: a repeated request of a card  *)
(* writes once, and a key stands for one body, whatever copies are under   *)
(* way at once and whatever expires. InvoiceAlerts: a due invoice is       *)
(* announced at most once; and it is announced, if the daily job ran once  *)
(* in its window, through the ends of months and of days.                  *)
(***************************************************************************)
EXTENDS CardRequests, InvoiceAlerts, SumTheorems

Records == [found : BOOLEAN, fresh : BOOLEAN, hash : Hashes, status : Nat]
HttpRows == [pc : {"idle", "load", "write", "answer"}, call : Calls, row : CardRows,
           status : Nat, late : BOOLEAN]

\* What a request carries is typed.
LEMMA CallTyped ==
    ASSUME NEW c \in Calls
    PROVE  /\ RequestHash(c) \in Hashes /\ c.key \in ApiKeys
           /\ c.card \in CardIds
           /\ c.nick \in Nicknames \cup {Unset, TooLong} /\ c.due \in DueDays \cup {NoDay}
           /\ c.op \in CardOps => c \in CardCalls /\ c.key \in CardKeys
           /\ c.op \notin CardOps => c \notin CardCalls /\ c.key \notin CardKeys
  BY RequestsAssumption DEF RequestHash, Hashes, ApiKeys, CardCalls, CardKeys

\* A slot at rest is well typed.
LEMMA ListeningTyped == Listening \in HttpRows /\ Listening.pc = "idle" /\ Listening.late = FALSE
  <1>1. (CHOOSE c \in Calls : TRUE) \in Calls
    BY RequestsAssumption
  <1>2. NoCardRow \in CardRows
    BY DEF NoCardRow, CardRows
  <1> QED
    BY <1>1, <1>2 DEF Listening, HttpRows

\* What the storage holds after a record was put is well typed.
LEMMA StoredTyped ==
    ASSUME record \in [ApiKeys -> Records], NEW c \in Calls, NEW status \in Nat
    PROVE  Stored(c, status) \in [ApiKeys -> Records]
  <1>1. [found |-> TRUE, fresh |-> TRUE, hash |-> RequestHash(c), status |-> status] \in Records
    BY CallTyped DEF Records
  <1> QED
    BY <1>1, CallTyped DEF Stored

\* Ends, Respond and Refuses keep the types.
LEMMA SlotTyped ==
    ASSUME http \in [HttpSlots -> HttpRows], NEW s \in HttpSlots
    PROVE  /\ Ends(s) => http' \in [HttpSlots -> HttpRows]
           /\ \A status \in Nat : Respond(s, status) => http' \in [HttpSlots -> HttpRows]
  <1>1. ASSUME Ends(s) PROVE http' \in [HttpSlots -> HttpRows]
    BY <1>1, ListeningTyped DEF Ends
  <1>2. ASSUME NEW status \in Nat, Respond(s, status) PROVE http' \in [HttpSlots -> HttpRows]
    BY <1>2 DEF Respond, HttpRows
  <1> QED
    BY <1>1, <1>2

\* The types in the shapes the lemmas use.
LEMMA TypeParts ==
    RequestsTypeOK <=>
      /\ cards \in [CardIds -> CardRows] /\ posts \in [ApiKeys -> 0..MaxPosts]
      /\ record \in [ApiKeys -> Records] /\ http \in [HttpSlots -> HttpRows]
      /\ wrote \in [ApiKeys -> SUBSET Hashes]
  BY DEF RequestsTypeOK, Records, HttpRows

\* The answers are numbers.
LEMMA AnswersInNat ==
    {200, 201, 204, 400, 404, 409} \subseteq Nat
  OBVIOUS

\* A refused request keeps the types.
LEMMA RefusesTyped ==
    ASSUME RequestsTypeOK, NEW s \in HttpSlots, NEW status \in Nat, Refuses(s, status)
    PROVE  RequestsTypeOK'
  <1>1. http' \in [HttpSlots -> HttpRows]
    BY SlotTyped, TypeParts DEF Refuses
  <1> QED
    BY <1>1, TypeParts DEF Refuses, RequestsTypeOK, HttpRows

\* The write of a use case and its record, or the rollback of both.
LEMMA CommitTyped ==
    ASSUME RequestsTypeOK, NEW s \in HttpSlots, NEW status \in Nat,
           NEW rows \in [CardIds -> CardRows], Commit(s, rows, status)
    PROVE  RequestsTypeOK'
  <1> DEFINE c == http[s].call
  <1>1. c \in Calls
    BY TypeParts DEF HttpRows
  <1>2. CASE PutSucceeds(c)
    <2>1. /\ cards' = rows /\ record' = Stored(c, status) /\ Respond(s, status)
          /\ wrote' = [wrote EXCEPT ![c.key] = @ \cup {RequestHash(c)}] /\ posts' = posts
      BY <1>2 DEF Commit
    <2>2. record' \in [ApiKeys -> Records]
      BY <1>1, <2>1, StoredTyped, TypeParts
    <2>3. http' \in [HttpSlots -> HttpRows]
      BY <2>1, SlotTyped, TypeParts
    <2>4. wrote' \in [ApiKeys -> SUBSET Hashes]
      BY <1>1, <2>1, CallTyped, TypeParts
    <2> QED
      BY <2>1, <2>2, <2>3, <2>4 DEF RequestsTypeOK, Records, HttpRows
  <1>3. CASE ~PutSucceeds(c)
    <2>1. Ends(s) /\ UNCHANGED <<cards, posts, record, wrote>>
      BY <1>3 DEF Commit
    <2>2. http' \in [HttpSlots -> HttpRows]
      BY <2>1, SlotTyped, TypeParts
    <2> QED
      BY <2>1, <2>2 DEF RequestsTypeOK, HttpRows
  <1> QED
    BY <1>2, <1>3

\* Each step keeps the types.
LEMMA RequestsTypeStep ==
    ASSUME RequestsTypeOK, [RequestsNext]_requestsVars
    PROVE  RequestsTypeOK'
  <1> USE TypeParts
  <1>1. ASSUME NEW s \in HttpSlots, NEW c \in Calls, Middleware(s, c) PROVE RequestsTypeOK'
    <2>1. /\ UNCHANGED <<cards, posts, record, wrote>>
          /\ http' = [http EXCEPT ![s] =
                [Listening EXCEPT !.call = c, !.late = wrote[c.key] # {},
                                  !.pc = IF c.op = "update" THEN "load" ELSE "write"]]
      BY <1>1 DEF Middleware
    <2>2. [Listening EXCEPT !.call = c, !.late = wrote[c.key] # {},
                            !.pc = IF c.op = "update" THEN "load" ELSE "write"] \in HttpRows
      <3>1. (wrote[c.key] # {}) \in BOOLEAN
        OBVIOUS
      <3>2. (IF c.op = "update" THEN "load" ELSE "write") \in {"idle", "load", "write", "answer"}
        OBVIOUS
      <3> QED
        BY <3>1, <3>2, ListeningTyped DEF HttpRows
    <2> QED
      BY <2>1, <2>2 DEF RequestsTypeOK, HttpRows
  <1>2. ASSUME NEW s \in HttpSlots, Answer(s) PROVE RequestsTypeOK'
    <2>1. http[s].call \in Calls /\ http[s].status \in Nat
      BY DEF HttpRows
    <2>2. /\ record' = IF http[s].status \in Success THEN record
                       ELSE Stored(http[s].call, http[s].status)
          /\ Ends(s) /\ UNCHANGED <<cards, posts, wrote>>
      BY <1>2 DEF Answer
    <2>3. record' \in [ApiKeys -> Records]
      BY <2>1, <2>2, StoredTyped
    <2>4. http' \in [HttpSlots -> HttpRows]
      BY <2>2, SlotTyped
    <2> QED
      BY <2>2, <2>3, <2>4 DEF RequestsTypeOK, Records, HttpRows
  <1>3. ASSUME NEW s \in HttpSlots, Breaks(s) PROVE RequestsTypeOK'
    <2>1. http' \in [HttpSlots -> HttpRows]
      BY <1>3, SlotTyped DEF Breaks
    <2> QED
      BY <1>3, <2>1 DEF Breaks, RequestsTypeOK, HttpRows
  <1>4. ASSUME NEW k \in ApiKeys, Expires(k) PROVE RequestsTypeOK'
    <2>1. record' \in [ApiKeys -> Records]
      BY <1>4 DEF Expires, Records
    <2> QED
      BY <1>4, <2>1 DEF Expires, RequestsTypeOK, Records
  <1>5. ASSUME NEW s \in HttpSlots, NEW c \in Calls, NEW i \in CardIds, CreateCard(s, c, i)
        PROVE RequestsTypeOK'
    <2>1. \/ Refuses(s, 400) \/ Refuses(s, 409)
          \/ /\ c.nick # TooLong
             /\ Commit(s, [cards EXCEPT ![i] =
                    [state |-> "live", nick |-> c.nick, due |-> c.due]], 201)
      BY <1>5 DEF CreateCard
    <2>2. c.nick # TooLong =>
            [cards EXCEPT ![i] = [state |-> "live", nick |-> c.nick, due |-> c.due]]
               \in [CardIds -> CardRows]
      BY CallTyped DEF CardRows
    <2>3. CASE Refuses(s, 400) \/ Refuses(s, 409)
      BY <2>3, AnswersInNat, RefusesTyped
    <2>4. CASE /\ c.nick # TooLong
               /\ Commit(s, [cards EXCEPT ![i] =
                     [state |-> "live", nick |-> c.nick, due |-> c.due]], 201)
      <3>1. PICK rows \in [CardIds -> CardRows] : Commit(s, rows, 201)
        BY <2>4, <2>2, Zenon
      <3>2. 201 \in Nat
        OBVIOUS
      <3> QED
        BY <3>1, <3>2, CommitTyped, Zenon
    <2> QED
      BY <2>1, <2>3, <2>4
  <1>6. ASSUME NEW s \in HttpSlots, NEW c \in Calls, GetByIDForUser(s, c) PROVE RequestsTypeOK'
    <2>1. \/ Refuses(s, 404) \/ Refuses(s, 400)
          \/ /\ c.nick # TooLong /\ UNCHANGED <<cards, posts, record, wrote>>
             /\ http' = [http EXCEPT ![s].pc = "write", ![s].row = Patched(cards[c.card], c)]
      BY <1>6 DEF GetByIDForUser
    <2>2. c.nick # TooLong => Patched(cards[c.card], c) \in CardRows
      <3> SUFFICES ASSUME c.nick # TooLong PROVE Patched(cards[c.card], c) \in CardRows
        OBVIOUS
      <3> DEFINE row == cards[c.card]
      <3>1. row \in CardRows
        BY CallTyped
      <3>2. (IF c.nick = Unset THEN row.nick ELSE c.nick) \in Nicknames \cup {Unset}
        BY <3>1, CallTyped DEF CardRows
      <3>3. (IF c.due = NoDay THEN row.due ELSE c.due) \in DueDays \cup {NoDay}
        BY <3>1, CallTyped DEF CardRows
      <3>4. Patched(row, c) = [row EXCEPT !.nick = IF c.nick = Unset THEN row.nick ELSE c.nick,
                                          !.due = IF c.due = NoDay THEN row.due ELSE c.due]
        BY <3>1 DEF Patched, CardRows
      <3> QED
        BY <3>1, <3>2, <3>3, <3>4 DEF CardRows
    <2>3. CASE /\ c.nick # TooLong /\ UNCHANGED <<cards, posts, record, wrote>>
               /\ http' = [http EXCEPT ![s].pc = "write", ![s].row = Patched(cards[c.card], c)]
      <3>1. http' \in [HttpSlots -> HttpRows]
        <4>1. http[s] \in HttpRows
          BY TypeParts
        <4>2. [http[s] EXCEPT !.pc = "write", !.row = Patched(cards[c.card], c)] \in HttpRows
          BY <2>2, <2>3, <4>1 DEF HttpRows
        <4>3. http' = [http EXCEPT ![s] = [http[s] EXCEPT !.pc = "write", !.row = Patched(cards[c.card], c)]]
          BY <2>3, Zenon
        <4> QED
          BY <4>2, <4>3, TypeParts
      <3> QED
        BY <2>3, <3>1 DEF RequestsTypeOK, HttpRows
    <2>4. CASE Refuses(s, 404) \/ Refuses(s, 400)
      BY <2>4, AnswersInNat, RefusesTyped
    <2> QED
      BY <2>1, <2>3, <2>4
  <1>7. ASSUME NEW s \in HttpSlots, NEW c \in Calls, UpdateByIDForUser(s, c) PROVE RequestsTypeOK'
    <2>1. \/ Refuses(s, 404) \/ Refuses(s, 409)
          \/ Commit(s, [cards EXCEPT ![c.card] = http[s].row], 200)
      BY <1>7 DEF UpdateByIDForUser
    <2>2. [cards EXCEPT ![c.card] = http[s].row] \in [CardIds -> CardRows]
      BY DEF HttpRows
    <2>3. CASE Refuses(s, 404) \/ Refuses(s, 409)
      BY <2>3, AnswersInNat, RefusesTyped
    <2>4. CASE Commit(s, [cards EXCEPT ![c.card] = http[s].row], 200)
      <3>1. PICK rows \in [CardIds -> CardRows] : Commit(s, rows, 200)
        BY <2>4, <2>2, Zenon
      <3>2. 200 \in Nat
        OBVIOUS
      <3> QED
        BY <3>1, <3>2, CommitTyped, Zenon
    <2> QED
      BY <2>1, <2>3, <2>4
  <1>8. ASSUME NEW s \in HttpSlots, NEW c \in Calls, SoftDeleteCard(s, c) PROVE RequestsTypeOK'
    <2>1. Refuses(s, 404) \/ Commit(s, [cards EXCEPT ![c.card].state = "deleted"], 204)
      BY <1>8 DEF SoftDeleteCard
    <2>2. [cards EXCEPT ![c.card].state = "deleted"] \in [CardIds -> CardRows]
      BY DEF CardRows
    <2>3. CASE Refuses(s, 404)
      BY <2>3, AnswersInNat, RefusesTyped
    <2>4. CASE Commit(s, [cards EXCEPT ![c.card].state = "deleted"], 204)
      <3>1. PICK rows \in [CardIds -> CardRows] : Commit(s, rows, 204)
        BY <2>4, <2>2, Zenon
      <3>2. 204 \in Nat
        OBVIOUS
      <3> QED
        BY <3>1, <3>2, CommitTyped, Zenon
    <2> QED
      BY <2>1, <2>3, <2>4
  <1>9. ASSUME NEW s \in HttpSlots, NEW c \in Calls, CreateTransaction(s, c) PROVE RequestsTypeOK'
    <2>1. /\ posts[c.key] < MaxPosts /\ posts' = [posts EXCEPT ![c.key] = @ + 1]
          /\ wrote' = [wrote EXCEPT ![c.key] = @ \cup {RequestHash(c)}]
          /\ Respond(s, 201) /\ UNCHANGED <<cards, record>>
      BY <1>9 DEF CreateTransaction
    <2>2. posts' \in [ApiKeys -> 0..MaxPosts]
      <3>1. posts[c.key] \in 0..MaxPosts /\ MaxPosts \in Nat
        BY CallTyped, RequestsAssumption
      <3>2. posts[c.key] + 1 \in 0..MaxPosts
        BY <2>1, <3>1
      <3> QED
        BY <2>1, <3>2, CallTyped
    <2>3. wrote' \in [ApiKeys -> SUBSET Hashes]
      BY <2>1, CallTyped
    <2>4. http' \in [HttpSlots -> HttpRows]
      BY <2>1, SlotTyped
    <2> QED
      BY <2>1, <2>2, <2>3, <2>4 DEF RequestsTypeOK, HttpRows
  <1>10. CASE UNCHANGED requestsVars
    BY <1>10 DEF requestsVars, RequestsTypeOK
  <1> QED
    BY <1>1, <1>2, <1>3, <1>4, <1>5, <1>6, <1>7, <1>8, <1>9, <1>10 DEF RequestsNext

\* So are the initial tables.
LEMMA RequestsTypeInitially == RequestsInit => RequestsTypeOK
  <1> SUFFICES ASSUME RequestsInit PROVE RequestsTypeOK
    OBVIOUS
  <1>1. cards \in [CardIds -> CardRows]
    BY DEF RequestsInit, NoCardRow, CardRows
  <1>2. posts \in [ApiKeys -> 0..MaxPosts]
    <2>1. MaxPosts \in Nat => 0 \in 0..MaxPosts
      OBVIOUS
    <2> QED
      BY <2>1, RequestsAssumption DEF RequestsInit
  <1>3. record \in [ApiKeys -> Records]
    BY DEF RequestsInit, NoRecord, Records, Hashes
  <1>4. http \in [HttpSlots -> HttpRows]
    BY ListeningTyped DEF RequestsInit
  <1>5. wrote \in [ApiKeys -> SUBSET Hashes]
    BY DEF RequestsInit
  <1> QED
    BY <1>1, <1>2, <1>3, <1>4, <1>5, TypeParts

\* The tables, records and requests are typed in every reachable state.
THEOREM RequestsTypeCorrect == RequestsSpec => []RequestsTypeOK
  <1>1. RequestsInit => RequestsTypeOK
    BY RequestsTypeInitially
  <1>2. RequestsTypeOK /\ [RequestsNext]_requestsVars => RequestsTypeOK'
    BY RequestsTypeStep
  <1> QED
    BY <1>1, <1>2, PTL DEF RequestsSpec

-----------------------------------------------------------------------------
(***************************************************************************)
(* The inductive invariant: a key that wrote has its record, of the body   *)
(* that was written, and a request that comes after the write found the    *)
(* record expired, so its own will be refused.                             *)
(***************************************************************************)
LateIsRefused ==
    \A s \in HttpSlots : http[s].call \in CardCalls /\ http[s].late =>
        record[http[s].call.key].found /\ ~record[http[s].call.key].fresh

RequestsInv ==
    RequestsTypeOK /\ KeyMeansOneBody /\ LateIsRefused /\ KeyWritesOnce

\* What a step on slot s does to the other parts decides the invariant: it
\* suffices that records stay, or appear, or expire, that a key of cards
\* writes what its record holds, and what the slot itself becomes.
LEMMA InvOfStep ==
    ASSUME RequestsInv, RequestsTypeOK', NEW s \in HttpSlots, NEW row,
           http' = [http EXCEPT ![s] = row], row.call \in Calls,
           \A k \in ApiKeys : record[k].found =>
              /\ record'[k].found /\ record'[k].hash = record[k].hash
              /\ ~record[k].fresh => ~record'[k].fresh,
           \A k \in CardKeys : wrote'[k] \subseteq wrote[k] \cup
              (IF record'[k].found THEN {record'[k].hash} ELSE {}),
           row.call \in CardCalls /\ row.late =>
              /\ record'[row.call.key].found /\ ~record'[row.call.key].fresh
              /\ ~(row.pc = "answer" /\ row.status \in Success)
    PROVE  RequestsInv'
  <1>1. CardKeys \subseteq ApiKeys /\ \A c \in CardCalls : c.key \in CardKeys
    BY DEF CardKeys, ApiKeys, CardCalls
  <1>2. http \in [HttpSlots -> HttpRows]
    BY TypeParts DEF RequestsInv
  <1>3. KeyMeansOneBody'
    BY <1>1 DEF KeyMeansOneBody, RequestsInv
  <1>4. \A t \in HttpSlots : http'[t] = IF t = s THEN row ELSE http[t]
    BY <1>2
  <1>5. LateIsRefused'
    BY <1>1, <1>4 DEF LateIsRefused, RequestsInv
  <1>6. KeyWritesOnce'
    BY <1>4 DEF KeyWritesOnce, WritesAgain, RequestsInv
  <1> QED
    BY <1>3, <1>5, <1>6 DEF RequestsInv

\* Steps that leave the records and what was written.
LEMMA InvOfQuietStep ==
    ASSUME RequestsInv, RequestsTypeOK', NEW s \in HttpSlots, NEW row,
           http' = [http EXCEPT ![s] = row], row.call \in Calls,
           record' = record, wrote' = wrote,
           row.call \in CardCalls /\ row.late =>
              /\ record[row.call.key].found /\ ~record[row.call.key].fresh
              /\ ~(row.pc = "answer" /\ row.status \in Success)
    PROVE  RequestsInv'
  BY InvOfStep

\* A record, once found, is never overwritten by a put.
LEMMA StoredKeeps ==
    ASSUME RequestsTypeOK, NEW c \in Calls, NEW status \in Nat, record' = Stored(c, status)
    PROVE  /\ \A k \in ApiKeys : record[k].found => record'[k] = record[k]
           /\ record'[c.key].found
           /\ ~record[c.key].found => record'[c.key].hash = RequestHash(c)
  <1>1. record \in [ApiKeys -> Records] /\ c.key \in ApiKeys
    BY TypeParts, CallTyped
  <1>2. CASE record[c.key].found
    BY <1>1, <1>2 DEF Stored
  <1>3. CASE ~record[c.key].found
    BY <1>1, <1>3 DEF Stored
  <1> QED
    BY <1>2, <1>3

\* A refusal is no success, so it says nothing of a write.
LEMMA InvOfRefusal ==
    ASSUME RequestsInv, RequestsTypeOK', NEW s \in HttpSlots,
           NEW status \in Nat, status \notin Success, Refuses(s, status)
    PROVE  RequestsInv'
  <1> DEFINE row == [http[s] EXCEPT !.pc = "answer", !.status = status]
  <1>1. http \in [HttpSlots -> HttpRows]
    BY TypeParts DEF RequestsInv
  <1>2. http' = [http EXCEPT ![s] = row]
    BY <1>1 DEF Refuses, Respond, HttpRows
  <1>3. record' = record /\ wrote' = wrote
    BY DEF Refuses
  <1>4. row.call = http[s].call /\ row.late = http[s].late /\ row.status = status
    BY <1>1 DEF HttpRows
  <1>5. row.call \in Calls
    BY <1>1, <1>4 DEF HttpRows
  <1>6. row.call \in CardCalls /\ row.late =>
          /\ record[row.call.key].found /\ ~record[row.call.key].fresh
          /\ ~(row.pc = "answer" /\ row.status \in Success)
    BY <1>1, <1>4 DEF RequestsInv, LateIsRefused
  <1> HIDE DEF row
  <1> QED
    BY <1>2, <1>3, <1>5, <1>6, InvOfQuietStep

\* A slot that ends is at rest.
LEMMA InvOfEnd ==
    ASSUME RequestsInv, RequestsTypeOK', NEW s \in HttpSlots, Ends(s),
           record' = record, wrote' = wrote
    PROVE  RequestsInv'
  <1>1. Listening.call \in Calls /\ ~Listening.late
    BY ListeningTyped DEF HttpRows
  <1> QED
    BY <1>1, InvOfQuietStep DEF Ends

\* The use case's write: a late request cannot put its record.
LEMMA InvOfCommit ==
    ASSUME RequestsInv, RequestsTypeOK', NEW s \in HttpSlots, NEW status \in Nat, NEW rows,
           http[s].call \in CardCalls, Commit(s, rows, status)
    PROVE  RequestsInv'
  <1> DEFINE c == http[s].call
             row == [http[s] EXCEPT !.pc = "answer", !.status = status]
  <1>1. /\ http \in [HttpSlots -> HttpRows] /\ record \in [ApiKeys -> Records]
        /\ wrote \in [ApiKeys -> SUBSET Hashes]
    BY TypeParts DEF RequestsInv
  <1>2. c \in Calls /\ c.key \in CardKeys /\ c.key \in ApiKeys
    BY DEF CardCalls, CardKeys, ApiKeys
  <1>3. CASE ~PutSucceeds(c)
    BY <1>3, InvOfEnd DEF Commit
  <1>4. CASE PutSucceeds(c)
    <2>1. /\ record' = Stored(c, status) /\ Respond(s, status)
          /\ wrote' = [wrote EXCEPT ![c.key] = @ \cup {RequestHash(c)}]
      BY <1>4 DEF Commit
    <2>2. /\ \A k \in ApiKeys : record[k].found => record'[k] = record[k]
          /\ record'[c.key].found /\ record'[c.key].hash = RequestHash(c)
      <3>1. RequestsTypeOK
        BY DEF RequestsInv
      <3> QED
        BY <1>2, <1>4, <2>1, <3>1, StoredKeeps DEF PutSucceeds
    <2>3. http' = [http EXCEPT ![s] = row]
      BY <1>1, <2>1 DEF Respond, HttpRows
    <2>4. row.call = c /\ row.late = http[s].late
      BY <1>1 DEF HttpRows
    <2>5. ~http[s].late
      BY <1>4 DEF PutSucceeds, Known, RequestsInv, LateIsRefused
    <2>6. \A k \in CardKeys : wrote'[k] \subseteq wrote[k] \cup
            (IF record'[k].found THEN {record'[k].hash} ELSE {})
      <3> TAKE k \in CardKeys
      <3>1. k \in ApiKeys
        BY DEF CardKeys, ApiKeys, CardCalls
      <3>2. CASE k = c.key
        BY <1>1, <1>2, <2>1, <2>2, <3>2
      <3>3. CASE k # c.key
        BY <1>1, <1>2, <2>1, <3>1, <3>3
      <3> QED
        BY <3>2, <3>3
    <2>7. row.call \in Calls
      BY <1>2, <2>4
    <2> HIDE DEF row, c
    <2> QED
      BY <2>2, <2>3, <2>4, <2>5, <2>6, <2>7, InvOfStep
  <1> QED
    BY <1>3, <1>4

\* Each step keeps the invariant.
LEMMA RequestsInvStep ==
    ASSUME RequestsInv, [RequestsNext]_requestsVars
    PROVE  RequestsInv'
  <1>0. RequestsTypeOK /\ RequestsTypeOK'
    BY RequestsTypeStep DEF RequestsInv
  <1>p. /\ http \in [HttpSlots -> HttpRows] /\ record \in [ApiKeys -> Records]
        /\ wrote \in [ApiKeys -> SUBSET Hashes]
    BY <1>0, TypeParts
  <1>1. ASSUME NEW s \in HttpSlots, NEW c \in Calls, Middleware(s, c) PROVE RequestsInv'
    <2> DEFINE row == [Listening EXCEPT !.call = c, !.late = wrote[c.key] # {},
                                        !.pc = IF c.op = "update" THEN "load" ELSE "write"]
    <2>1. ~Known(c.key) /\ http' = [http EXCEPT ![s] = row] /\ record' = record /\ wrote' = wrote
      BY <1>1 DEF Middleware
    <2>2. row.call = c /\ row.late = (wrote[c.key] # {}) /\ row.pc # "answer"
      BY ListeningTyped DEF HttpRows
    <2>3. c \in CardCalls /\ wrote[c.key] # {} => record[c.key].found /\ ~record[c.key].fresh
      BY <2>1 DEF Known, RequestsInv, KeyMeansOneBody, CardKeys
    <2> HIDE DEF row
    <2> QED
      BY <1>0, <2>1, <2>2, <2>3, InvOfQuietStep
  <1>2. ASSUME NEW s \in HttpSlots, Answer(s) PROVE RequestsInv'
    <2>1. http[s].call \in Calls /\ http[s].status \in Nat
      BY <1>p DEF HttpRows
    <2>2. Ends(s) /\ wrote' = wrote
      BY <1>2 DEF Answer
    <2>3. CASE http[s].status \in Success
      BY <1>0, <1>2, <2>2, <2>3, InvOfEnd DEF Answer
    <2>4. CASE http[s].status \notin Success
      <3>1. record' = Stored(http[s].call, http[s].status)
        BY <1>2, <2>4 DEF Answer
      <3>2. \A k \in ApiKeys : record[k].found => record'[k] = record[k]
        BY <1>0, <2>1, <3>1, StoredKeeps
      <3>3. Listening.call \in Calls /\ ~Listening.late
        BY ListeningTyped DEF HttpRows
      <3>4. http' = [http EXCEPT ![s] = Listening]
        BY <2>2 DEF Ends
      <3> QED
        BY <1>0, <2>2, <3>2, <3>3, <3>4, InvOfStep
    <2> QED
      BY <2>3, <2>4
  <1>3. ASSUME NEW s \in HttpSlots, Breaks(s) PROVE RequestsInv'
    BY <1>0, <1>3, InvOfEnd DEF Breaks
  <1>4. ASSUME NEW k \in ApiKeys, Expires(k) PROVE RequestsInv'
    <2>1. /\ http' = http /\ wrote' = wrote
          /\ \A j \in ApiKeys :
                /\ record'[j].found <=> record[j].found
                /\ record'[j].hash = record[j].hash
                /\ ~record[j].fresh => ~record'[j].fresh
      BY <1>4, <1>p DEF Expires, Records
    <2>2. CardKeys \subseteq ApiKeys /\ \A c \in CardCalls : c.key \in CardKeys
      BY DEF CardKeys, ApiKeys, CardCalls
    <2>3. KeyMeansOneBody'
      <3> SUFFICES ASSUME NEW n \in CardKeys
                   PROVE  wrote'[n] \subseteq
                            IF record'[n].found THEN {record'[n].hash} ELSE {}
        BY DEF KeyMeansOneBody
      <3>1. wrote[n] \subseteq IF record[n].found THEN {record[n].hash} ELSE {}
        BY DEF RequestsInv, KeyMeansOneBody
      <3>2. (record'[n].found <=> record[n].found) /\ record'[n].hash = record[n].hash
        BY <2>1, <2>2
      <3> QED
        BY <2>1, <3>1, <3>2
    <2>4. LateIsRefused'
      <3> SUFFICES ASSUME NEW s \in HttpSlots, http[s].call \in CardCalls, http[s].late
                   PROVE  record'[http[s].call.key].found /\ ~record'[http[s].call.key].fresh
        BY <2>1 DEF LateIsRefused
      <3>1. record[http[s].call.key].found /\ ~record[http[s].call.key].fresh
        BY DEF RequestsInv, LateIsRefused
      <3>2. http[s].call.key \in ApiKeys
        BY <2>2
      <3> QED
        BY <2>1, <3>1, <3>2
    <2>5. KeyWritesOnce'
      BY <2>1 DEF KeyWritesOnce, WritesAgain, RequestsInv
    <2> QED
      BY <1>0, <2>3, <2>4, <2>5 DEF RequestsInv
  <1>5. ASSUME NEW s \in HttpSlots, NEW c \in Calls, NEW i \in CardIds, CreateCard(s, c, i)
        PROVE RequestsInv'
    <2>1. http[s].call = c /\ c \in CardCalls
      BY <1>5, CallTyped DEF CreateCard, Serving, CardOps
    <2>2. \/ Refuses(s, 400) \/ Refuses(s, 409)
          \/ Commit(s, [cards EXCEPT ![i] =
                [state |-> "live", nick |-> c.nick, due |-> c.due]], 201)
      BY <1>5 DEF CreateCard
    <2>3. CASE Refuses(s, 400) \/ Refuses(s, 409)
      BY <1>0, <2>3, AnswersInNat, InvOfRefusal DEF Success
    <2>4. CASE Commit(s, [cards EXCEPT ![i] =
                [state |-> "live", nick |-> c.nick, due |-> c.due]], 201)
      BY <1>0, <2>1, <2>4, AnswersInNat, InvOfCommit
    <2> QED
      BY <2>2, <2>3, <2>4
  <1>6. ASSUME NEW s \in HttpSlots, NEW c \in Calls, GetByIDForUser(s, c) PROVE RequestsInv'
    <2> DEFINE row == [http[s] EXCEPT !.pc = "write", !.row = Patched(cards[c.card], c)]
    <2>1. \/ Refuses(s, 404) \/ Refuses(s, 400)
          \/ /\ record' = record /\ wrote' = wrote
             /\ http' = [http EXCEPT ![s].pc = "write", ![s].row = Patched(cards[c.card], c)]
      BY <1>6 DEF GetByIDForUser
    <2>2. CASE Refuses(s, 404) \/ Refuses(s, 400)
      BY <1>0, <2>2, AnswersInNat, InvOfRefusal DEF Success
    <2>3. CASE /\ record' = record /\ wrote' = wrote
               /\ http' = [http EXCEPT ![s].pc = "write", ![s].row = Patched(cards[c.card], c)]
      <3>1. http' = [http EXCEPT ![s] = row]
        BY <1>p, <2>3 DEF HttpRows
      <3>2. /\ row.call = http[s].call /\ row.late = http[s].late /\ row.pc = "write"
            /\ row.call \in Calls
        BY <1>p DEF HttpRows
      <3>3. row.call \in CardCalls /\ row.late =>
              record[row.call.key].found /\ ~record[row.call.key].fresh
        BY <3>2 DEF RequestsInv, LateIsRefused
      <3> HIDE DEF row
      <3> QED
        BY <1>0, <2>3, <3>1, <3>2, <3>3, InvOfQuietStep
    <2> QED
      BY <2>1, <2>2, <2>3
  <1>7. ASSUME NEW s \in HttpSlots, NEW c \in Calls, UpdateByIDForUser(s, c) PROVE RequestsInv'
    <2>1. http[s].call = c /\ c \in CardCalls
      BY <1>7, CallTyped DEF UpdateByIDForUser, Serving, CardOps
    <2>2. \/ Refuses(s, 404) \/ Refuses(s, 409)
          \/ Commit(s, [cards EXCEPT ![c.card] = http[s].row], 200)
      BY <1>7 DEF UpdateByIDForUser
    <2>3. CASE Refuses(s, 404) \/ Refuses(s, 409)
      BY <1>0, <2>3, AnswersInNat, InvOfRefusal DEF Success
    <2>4. CASE Commit(s, [cards EXCEPT ![c.card] = http[s].row], 200)
      BY <1>0, <2>1, <2>4, AnswersInNat, InvOfCommit
    <2> QED
      BY <2>2, <2>3, <2>4
  <1>8. ASSUME NEW s \in HttpSlots, NEW c \in Calls, SoftDeleteCard(s, c) PROVE RequestsInv'
    <2>1. http[s].call = c /\ c \in CardCalls
      BY <1>8, CallTyped DEF SoftDeleteCard, Serving, CardOps
    <2>2. Refuses(s, 404) \/ Commit(s, [cards EXCEPT ![c.card].state = "deleted"], 204)
      BY <1>8 DEF SoftDeleteCard
    <2>3. CASE Refuses(s, 404)
      BY <1>0, <2>3, AnswersInNat, InvOfRefusal DEF Success
    <2>4. CASE Commit(s, [cards EXCEPT ![c.card].state = "deleted"], 204)
      BY <1>0, <2>1, <2>4, AnswersInNat, InvOfCommit
    <2> QED
      BY <2>2, <2>3, <2>4
  <1>9. ASSUME NEW s \in HttpSlots, NEW c \in Calls, CreateTransaction(s, c) PROVE RequestsInv'
    <2> DEFINE row == [http[s] EXCEPT !.pc = "answer", !.status = 201]
    <2>1. /\ http[s].call = c /\ c \notin CardCalls /\ c.key \notin CardKeys
      BY <1>9, CallTyped DEF CreateTransaction, Serving, CardOps
    <2>2. /\ wrote' = [wrote EXCEPT ![c.key] = @ \cup {RequestHash(c)}]
          /\ Respond(s, 201) /\ record' = record
      BY <1>9 DEF CreateTransaction
    <2>3. http' = [http EXCEPT ![s] = row] /\ row.call = c
      BY <1>p, <2>1, <2>2, ZenonT(30) DEF Respond, HttpRows
    <2>4. \A k \in CardKeys : wrote'[k] = wrote[k]
      BY <1>p, <2>1, <2>2 DEF CardKeys, ApiKeys, CardCalls
    <2> HIDE DEF row
    <2> QED
      BY <1>0, <2>1, <2>2, <2>3, <2>4, InvOfStep
  <1>10. CASE UNCHANGED requestsVars
    BY <1>0, <1>10 DEF requestsVars, RequestsInv, KeyMeansOneBody, LateIsRefused, KeyWritesOnce,
                      WritesAgain
  <1> QED
    BY <1>1, <1>2, <1>3, <1>4, <1>5, <1>6, <1>7, <1>8, <1>9, <1>10 DEF RequestsNext

\* The invariant holds in every reachable state.
LEMMA RequestsInvAlways == RequestsSpec => []RequestsInv
  <1>1. RequestsInit => RequestsInv
    <2> SUFFICES ASSUME RequestsInit, RequestsTypeOK PROVE RequestsInv
      BY RequestsTypeInitially
    <2>1. KeyMeansOneBody
      BY DEF RequestsInit, KeyMeansOneBody, CardKeys, CardCalls, ApiKeys
    <2>2. LateIsRefused /\ KeyWritesOnce
      BY ListeningTyped DEF RequestsInit, LateIsRefused, KeyWritesOnce, WritesAgain
    <2> QED
      BY <2>1, <2>2 DEF RequestsInv
  <1>2. RequestsInv /\ [RequestsNext]_requestsVars => RequestsInv'
    BY RequestsInvStep
  <1> QED
    BY <1>1, <1>2, PTL DEF RequestsSpec

\* A repeated request of a card whose first write committed does not write a
\* second time, whether the answer was lost or its record has expired since.
THEOREM RepeatsWriteOnce == RequestsSpec => []KeyWritesOnce
  <1>1. RequestsInv => KeyWritesOnce
    BY DEF RequestsInv
  <1> QED
    BY <1>1, RequestsInvAlways, PTL

\* All that was written under a key of cards is the body its record names,
\* however many copies were under way at once.
THEOREM OneBodyPerKey == RequestsSpec => []KeyMeansOneBody
  <1>1. RequestsInv => KeyMeansOneBody
    BY DEF RequestsInv
  <1> QED
    BY <1>1, RequestsInvAlways, PTL

-----------------------------------------------------------------------------
(***************************************************************************)
(* InvoiceAlerts: the mark on the reminder row (notified_at, compared and  *)
(* set by one UPDATE) is what only one handler can win.                    *)
(***************************************************************************)
CourierRows == [pc : {"idle", "check", "mark", "send"}, key : InvoiceKeys \cup {IdleCourier.key}]

\* As much of the types as the argument needs, for any calendar.
ReminderTypes ==
    /\ reminder \in [InvoiceKeys -> {"none", "sent", "notified"}]
    /\ courier \in [Couriers -> CourierRows]
    /\ \A n \in Couriers : courier[n].pc # "idle" => courier[n].key \in InvoiceKeys
    /\ delivered \in [InvoiceKeys -> Nat]

SendsFor(n, k) == courier[n].pc = "send" /\ courier[n].key = k

\* A message was sent, or is about to be, only by the one handler that marked
\* the reminder; a handler that may still send has not sent.
MarkedByOneCourier ==
    \A k \in InvoiceKeys :
        /\ delivered[k] \in 0..1
        /\ delivered[k] = 1 => reminder[k] = "notified"
        /\ \A n \in Couriers : SendsFor(n, k) => reminder[k] = "notified" /\ delivered[k] = 0
        /\ \A m, n \in Couriers : SendsFor(m, k) /\ SendsFor(n, k) => m = n

ReminderInv == ReminderTypes /\ MarkedByOneCourier

LEMMA IdleCourierRow == IdleCourier \in CourierRows /\ IdleCourier.pc = "idle"
  BY DEF IdleCourier, CourierRows

\* A handler that ends or fails leaves its row idle; the others keep theirs.
LEMMA CourierRests ==
    ASSUME ReminderInv, NEW n \in Couriers, courier' = [courier EXCEPT ![n] = IdleCourier],
           reminder' = reminder,
           \/ delivered' = delivered
           \/ courier[n].pc = "send" /\ delivered' = [delivered EXCEPT ![courier[n].key] = @ + 1]
    PROVE  ReminderInv'
  <1> USE DEF ReminderInv, ReminderTypes
  <1>1. /\ courier' \in [Couriers -> CourierRows] /\ courier'[n].pc = "idle"
        /\ \A m \in Couriers \ {n} : courier'[m] = courier[m]
    BY IdleCourierRow
  <1>2. courier[n].pc = "send" => courier[n].key \in InvoiceKeys /\ SendsFor(n, courier[n].key)
    BY DEF SendsFor
  <1>3. \A k \in InvoiceKeys, m \in Couriers : SendsFor(m, k)' => SendsFor(m, k) /\ m # n
    BY <1>1 DEF SendsFor
  <1>4. CASE delivered' = delivered
    BY <1>1, <1>3, <1>4 DEF MarkedByOneCourier
  <1>5. CASE courier[n].pc = "send" /\ delivered' = [delivered EXCEPT ![courier[n].key] = @ + 1]
    <2> DEFINE k0 == courier[n].key
    <2>1. /\ k0 \in InvoiceKeys /\ delivered[k0] = 0 /\ reminder[k0] = "notified"
          /\ \A m \in Couriers : SendsFor(m, k0) => m = n
      BY <1>2, <1>5 DEF MarkedByOneCourier
    <2>2. /\ delivered'[k0] = 1 /\ delivered' \in [InvoiceKeys -> Nat]
          /\ \A k \in InvoiceKeys \ {k0} : delivered'[k] = delivered[k]
      BY <1>5, <2>1
    <2> HIDE DEF k0
    <2>3. ReminderTypes'
      BY <1>1, <2>2
    <2>4. ASSUME NEW k \in InvoiceKeys
          PROVE  /\ delivered'[k] \in 0..1
                 /\ delivered'[k] = 1 => reminder'[k] = "notified"
                 /\ \A m \in Couriers : SendsFor(m, k)' => reminder'[k] = "notified" /\ delivered'[k] = 0
                 /\ \A l, m \in Couriers : SendsFor(l, k)' /\ SendsFor(m, k)' => l = m
      <3>1. CASE k = k0
        BY <1>3, <2>1, <2>2, <3>1
      <3>2. CASE k # k0
        BY <1>3, <2>2, <3>2 DEF MarkedByOneCourier
      <3> QED
        BY <3>1, <3>2
    <2> QED
      BY <2>3, <2>4 DEF MarkedByOneCourier
  <1> QED
    BY <1>4, <1>5

\* A handler that goes on without a mark sends nothing it did not before.
LEMMA CourierGoesOn ==
    ASSUME ReminderInv, NEW n \in Couriers, NEW row \in CourierRows,
           row.pc \in {"check", "mark"}, row.key \in InvoiceKeys,
           courier' = [courier EXCEPT ![n] = row], UNCHANGED <<reminder, delivered>>
    PROVE  ReminderInv'
  <1> USE DEF ReminderInv, ReminderTypes
  <1>1. /\ courier' \in [Couriers -> CourierRows] /\ courier'[n] = row
        /\ \A m \in Couriers \ {n} : courier'[m] = courier[m]
    OBVIOUS
  <1>2. \A k \in InvoiceKeys, m \in Couriers : SendsFor(m, k)' => SendsFor(m, k)
    BY <1>1 DEF SendsFor
  <1> QED
    BY <1>1, <1>2 DEF MarkedByOneCourier

LEMMA ReminderStep ==
    ASSUME ReminderInv, [InvoiceNext]_invoiceVars
    PROVE  ReminderInv'
  <1> USE DEF ReminderInv, ReminderTypes
  <1>1. CASE UNCHANGED <<reminder, courier, delivered>>
    BY <1>1 DEF MarkedByOneCourier, SendsFor
  <1>2. ASSUME NEW h \in CardHosts, PublishAndPersist(h) PROVE ReminderInv'
    <2>1. /\ UNCHANGED <<courier, delivered>>
          /\ reminder' = [k \in InvoiceKeys |->
                             IF k \in Unsent(dueScan[h].alerts) THEN "sent" ELSE reminder[k]]
      BY <1>2 DEF PublishAndPersist
    <2>2. /\ reminder' \in [InvoiceKeys -> {"none", "sent", "notified"}]
          /\ \A k \in InvoiceKeys : reminder[k] = "notified" => reminder'[k] = "notified"
      BY <2>1 DEF Unsent
    <2> QED
      BY <2>1, <2>2 DEF MarkedByOneCourier, SendsFor
  <1>3. ASSUME NEW n \in Couriers, NEW k \in InvoiceKeys, Receive(n, k) PROVE ReminderInv'
    <2>1. [pc |-> "check", key |-> k] \in CourierRows
      BY DEF CourierRows
    <2> QED
      BY <1>3, <2>1, CourierGoesOn DEF Receive
  <1>4. ASSUME NEW n \in Couriers, CheckNotified(n) PROVE ReminderInv'
    <2>1. CASE CourierAt(n, "mark")
      <3>1. [courier[n] EXCEPT !.pc = "mark"] \in CourierRows /\ courier[n].key \in InvoiceKeys
        BY <1>4 DEF CourierRows, CheckNotified
      <3>2. courier' = [courier EXCEPT ![n] = [courier[n] EXCEPT !.pc = "mark"]]
        BY <2>1 DEF CourierAt
      <3>3. [courier[n] EXCEPT !.pc = "mark"].pc = "mark"
            /\ [courier[n] EXCEPT !.pc = "mark"].key = courier[n].key
        BY DEF CourierRows
      <3> QED
        BY <1>4, <3>1, <3>2, <3>3, CourierGoesOn DEF CheckNotified
    <2>2. CASE Finish(n)
      BY <1>4, <2>2, CourierRests DEF CheckNotified, Finish
    <2> QED
      BY <1>4, <2>1, <2>2 DEF CheckNotified
  <1>5. ASSUME NEW n \in Couriers, MarkNotified(n) PROVE ReminderInv'
    <2> DEFINE k0 == courier[n].key
               row == [courier[n] EXCEPT !.pc = "send"]
    <2>0. k0 \in InvoiceKeys
      BY <1>5 DEF MarkNotified
    <2>1. CASE reminder[k0] = "sent"
      <3>1. /\ reminder' = [reminder EXCEPT ![k0] = "notified"] /\ delivered' = delivered
            /\ courier' = [courier EXCEPT ![n] = row]
        BY <1>5, <2>1 DEF MarkNotified, CourierAt
      <3>2. row \in CourierRows /\ row.pc = "send" /\ row.key = k0
        BY DEF CourierRows
      <3>3. delivered[k0] = 0 /\ \A m \in Couriers : ~SendsFor(m, k0)
        BY <2>0, <2>1 DEF MarkedByOneCourier
      <3> HIDE DEF k0, row
      <3>4. /\ ReminderTypes'
            /\ courier'[n] = row /\ \A m \in Couriers \ {n} : courier'[m] = courier[m]
            /\ reminder'[k0] = "notified" /\ \A k \in InvoiceKeys \ {k0} : reminder'[k] = reminder[k]
        BY <2>0, <3>1, <3>2
      <3>5. \A m \in Couriers, k \in InvoiceKeys :
               SendsFor(m, k)' <=> (SendsFor(m, k) /\ m # n) \/ (m = n /\ k = k0)
        <4> TAKE m \in Couriers, k \in InvoiceKeys
        <4>1. CASE m = n
          BY <3>2, <3>4, <4>1 DEF SendsFor
        <4>2. CASE m # n
          BY <3>4, <4>2 DEF SendsFor
        <4> QED
          BY <4>1, <4>2
      <3>6. ASSUME NEW k \in InvoiceKeys
            PROVE  /\ delivered'[k] \in 0..1
                   /\ delivered'[k] = 1 => reminder'[k] = "notified"
                   /\ \A m \in Couriers : SendsFor(m, k)' => reminder'[k] = "notified" /\ delivered'[k] = 0
                   /\ \A l, m \in Couriers : SendsFor(l, k)' /\ SendsFor(m, k)' => l = m
        <4>1. CASE k = k0
          BY <3>1, <3>3, <3>4, <3>5, <4>1
        <4>2. CASE k # k0
          BY <3>1, <3>4, <3>5, <4>2 DEF MarkedByOneCourier
        <4> QED
          BY <4>1, <4>2
      <3> QED
        BY <3>4, <3>6 DEF MarkedByOneCourier
    <2>2. CASE reminder[k0] # "sent"
      BY <1>5, <2>2, CourierRests DEF MarkNotified, Finish
    <2> QED
      BY <2>1, <2>2
  <1>6. ASSUME NEW n \in Couriers, Send(n) PROVE ReminderInv'
    BY <1>6, CourierRests DEF Send, Finish
  <1>7. ASSUME NEW n \in Couriers, CourierFails(n) PROVE ReminderInv'
    BY <1>7, CourierRests DEF CourierFails, dueJobSide
  <1> QED
    BY <1>1, <1>2, <1>3, <1>4, <1>5, <1>6, <1>7
       DEF InvoiceNext, SetDueDay, NextUtcDay, Scan, ScanFails, courierSide, invoiceVars

\* An invoice is announced at most once, however many workers published its
\* event, however often the events come again, and even when a handler fails
\* after the channel took the message: the mark is not taken back.
THEOREM InvoicesAnnouncedOnce == InvoiceSpec => []InvoiceAnnouncedOnce
  <1>1. InvoiceInit => ReminderInv
    BY IdleCourierRow DEF InvoiceInit, ReminderInv, ReminderTypes, MarkedByOneCourier, SendsFor
  <1>2. ReminderInv /\ [InvoiceNext]_invoiceVars => ReminderInv'
    BY ReminderStep
  <1>3. ReminderInv => InvoiceAnnouncedOnce
    <2> SUFFICES ASSUME ReminderInv, NEW k \in InvoiceKeys
                 PROVE  delivered[k] + Cardinality({n \in Couriers : SendsFor(n, k)}) <= 1
      BY DEF InvoiceAnnouncedOnce, SendsFor
    <2>1. delivered[k] \in 0..1
      BY DEF ReminderInv, MarkedByOneCourier
    <2>2. CASE \A n \in Couriers : ~SendsFor(n, k)
      <3>1. {n \in Couriers : SendsFor(n, k)} = {}
        BY <2>2
      <3> QED
        BY <2>1, <3>1, FS_EmptySet
    <2>3. ASSUME NEW n \in Couriers, SendsFor(n, k)
          PROVE  delivered[k] + Cardinality({m \in Couriers : SendsFor(m, k)}) <= 1
      <3>1. {m \in Couriers : SendsFor(m, k)} = {n} /\ delivered[k] = 0
        BY <2>3 DEF ReminderInv, MarkedByOneCourier
      <3>2. Cardinality({n}) = 1
        BY FS_Singleton
      <3> QED
        BY <3>1, <3>2
    <2> QED
      BY <2>2, <2>3
  <1> QED
    BY <1>1, <1>2, <1>3, PTL DEF InvoiceSpec

-----------------------------------------------------------------------------
(* The calendar.                                                            *)

\* What lets a reminder be due at all: the days counted are in the calendar,
\* months are longer than the window, the list holds every card, and the job
\* has a host.
CalendarIsLongEnough == Len(MonthLengths) > 0 /\ LastUtcDay \in Dates
MonthsOutlastTheWindow == \A m \in MonthNumbers : MonthLengths[m] > WindowDays
ListHoldsAllCards == Cardinality(InvoiceCards) <= ScanLimit /\ CardHosts # {}

StartsUpTo(k, g) == g = [m \in 1..k |-> IF m = 1 THEN 1 ELSE g[m - 1] + MonthLengths[m - 1]]

LEMMA StartsExist ==
    ASSUME NEW k \in Nat
    PROVE  \E g : StartsUpTo(k, g)
  <1> DEFINE T == {i \in Nat : ~\E g : StartsUpTo(i, g)}
  <1> SUFFICES ASSUME T # {} PROVE FALSE
    OBVIOUS
  <1>1. T \subseteq Nat
    OBVIOUS
  <1>2. PICK i \in T : \A j \in T : i <= j
    <2> HIDE DEF T
    <2> QED
      BY <1>1, SmallestOf
  <1>3. i # 0
    <2>1. StartsUpTo(0, [m \in 1..0 |-> 0])
      BY DEF StartsUpTo
    <2> QED
      BY <1>2, <2>1
  <1>4. i \in Nat /\ i - 1 \in Nat /\ i - 1 \notin T
    BY <1>2, <1>3
  <1>5. PICK g : StartsUpTo(i - 1, g)
    BY <1>4
  <1> DEFINE h == [m \in 1..i |-> IF m = i THEN (IF i = 1 THEN 1 ELSE g[i - 1] + MonthLengths[i - 1])
                                           ELSE g[m]]
  <1>6. ASSUME NEW m \in 1..i
        PROVE  h[m] = IF m = 1 THEN 1 ELSE h[m - 1] + MonthLengths[m - 1]
    <2>1. m # i => m \in 1..(i - 1) /\ h[m] = g[m]
      BY <1>4
    <2>2. m # 1 => m - 1 \in 1..(i - 1) /\ m - 1 # i /\ m - 1 \in 1..i
      BY <1>4
    <2>3. m # 1 => h[m - 1] = g[m - 1]
      BY <2>2
    <2>4. m \in 1..(i - 1) => g[m] = IF m = 1 THEN 1 ELSE g[m - 1] + MonthLengths[m - 1]
      BY <1>5 DEF StartsUpTo
    <2> QED
      BY <2>1, <2>3, <2>4
  <1>7. StartsUpTo(i, h)
    BY <1>6 DEF StartsUpTo
  <1> QED
    BY <1>2, <1>7

LEMMA Starts ==
    ASSUME NEW m \in MonthNumbers
    PROVE  StartOf[m] = IF m = 1 THEN 1 ELSE StartOf[m - 1] + MonthLengths[m - 1]
  <1>1. Len(MonthLengths) \in Nat
    BY InvoiceAssumption
  <1>2. StartsUpTo(Len(MonthLengths), StartOf)
    <2>1. \E g : g = [i \in MonthNumbers |-> IF i = 1 THEN 1 ELSE g[i - 1] + MonthLengths[i - 1]]
      BY <1>1, StartsExist DEF StartsUpTo, MonthNumbers
    <2>2. StartOf = CHOOSE g : g = [i \in MonthNumbers |-> IF i = 1 THEN 1 ELSE g[i - 1] + MonthLengths[i - 1]]
      BY DEF StartOf
    <2> QED
      BY <2>1, <2>2 DEF StartsUpTo, MonthNumbers
  <1> QED
    BY <1>2 DEF StartsUpTo, MonthNumbers

LEMMA MonthFacts ==
    /\ Len(MonthLengths) \in Nat
    /\ \A m \in MonthNumbers : /\ m \in Nat \ {0} /\ MonthLengths[m] \in Nat \ {0}
                               /\ m # 1 => m - 1 \in MonthNumbers
  BY InvoiceAssumption DEF MonthNumbers

LEMMA StartsAreDays == \A m \in MonthNumbers : StartOf[m] \in Nat \ {0}
  <1> DEFINE T == {i \in MonthNumbers : StartOf[i] \notin Nat \ {0}}
  <1> SUFFICES ASSUME T # {} PROVE FALSE
    OBVIOUS
  <1>1. T \subseteq Nat
    BY MonthFacts
  <1>2. PICK i \in T : \A j \in T : i <= j
    <2> HIDE DEF T
    <2> QED
      BY <1>1, SmallestOf
  <1>3. i \in MonthNumbers /\ StartOf[i] \notin Nat \ {0}
    BY <1>2
  <1>4. i # 1
    BY <1>3, Starts
  <1>5. i - 1 \in MonthNumbers /\ i - 1 \notin T
    BY <1>2, <1>3, <1>4, MonthFacts
  <1>6. StartOf[i] = StartOf[i - 1] + MonthLengths[i - 1] /\ MonthLengths[i - 1] \in Nat
    BY <1>3, <1>4, <1>5, Starts, MonthFacts
  <1> QED
    BY <1>3, <1>5, <1>6

LEMMA StartsGrow ==
    ASSUME NEW m \in MonthNumbers, NEW k \in MonthNumbers, m < k
    PROVE  StartOf[m] + MonthLengths[m] <= StartOf[k]
  <1> DEFINE T == {i \in MonthNumbers : m < i /\ ~(StartOf[m] + MonthLengths[m] <= StartOf[i])}
  <1> SUFFICES ASSUME T # {} PROVE FALSE
    OBVIOUS
  <1>1. T \subseteq Nat
    BY MonthFacts
  <1>2. PICK i \in T : \A j \in T : i <= j
    <2> HIDE DEF T
    <2> QED
      BY <1>1, SmallestOf
  <1>3. /\ i \in MonthNumbers /\ m < i /\ ~(StartOf[m] + MonthLengths[m] <= StartOf[i])
        /\ i \in Nat /\ m \in Nat \ {0}
    BY <1>2, MonthFacts
  <1>4. i - 1 \in MonthNumbers /\ i - 1 \notin T
    BY <1>2, <1>3, MonthFacts
  <1>5. StartOf[i] = StartOf[i - 1] + MonthLengths[i - 1]
    BY <1>3, Starts
  <1>6. /\ StartOf[i - 1] \in Nat /\ MonthLengths[i - 1] \in Nat
        /\ StartOf[m] \in Nat /\ MonthLengths[m] \in Nat
    BY <1>4, MonthFacts, StartsAreDays
  <1>7. CASE i - 1 = m
    BY <1>3, <1>5, <1>6, <1>7
  <1>8. CASE i - 1 # m
    <2>1. m < i - 1
      BY <1>3, <1>8
    <2>2. StartOf[m] + MonthLengths[m] <= StartOf[i - 1]
      BY <1>4, <2>1
    <2> QED
      BY <1>3, <1>5, <1>6, <2>2
  <1> QED
    BY <1>7, <1>8

InMonth(d, m) == StartOf[m] <= d /\ d < StartOf[m] + MonthLengths[m]

\* A date is in one month.
LEMMA MonthOfDate ==
    ASSUME CalendarIsLongEnough, NEW d \in Dates
    PROVE  /\ MonthAt(d) \in MonthNumbers /\ InMonth(d, MonthAt(d)) /\ d \in Nat \ {0}
           /\ \A m \in MonthNumbers : InMonth(d, m) => m = MonthAt(d)
  <1> DEFINE n == Len(MonthLengths)
             T == {m \in MonthNumbers : d < StartOf[m] + MonthLengths[m]}
  <1>0. \A m \in MonthNumbers : StartOf[m] \in Nat \ {0} /\ MonthLengths[m] \in Nat \ {0} /\ m \in Nat \ {0}
    BY MonthFacts, StartsAreDays
  <1>1. n \in MonthNumbers
    BY MonthFacts DEF CalendarIsLongEnough, MonthNumbers
  <1>2. d \in Nat \ {0} /\ d < StartOf[n] + MonthLengths[n]
    BY <1>0, <1>1 DEF Dates
  <1>3. PICK m \in T : \A k \in T : m <= k
    <2>1. T \subseteq Nat /\ T # {}
      BY <1>0, <1>1, <1>2
    <2> HIDE DEF T
    <2> QED
      BY <2>1, SmallestOf
  <1>4. m \in MonthNumbers /\ d < StartOf[m] + MonthLengths[m]
    BY <1>3
  <1>5. StartOf[m] <= d
    <2>1. CASE m = 1
      BY <1>2, <1>4, <2>1, Starts
    <2>2. CASE m # 1
      <3>1. m - 1 \in MonthNumbers /\ m - 1 \notin T
        BY <1>0, <1>3, <1>4, <2>2, MonthFacts
      <3>2. ~(d < StartOf[m - 1] + MonthLengths[m - 1]) /\ StartOf[m] = StartOf[m - 1] + MonthLengths[m - 1]
        BY <1>4, <2>2, <3>1, Starts
      <3> QED
        BY <1>0, <1>2, <3>1, <3>2
    <2> QED
      BY <2>1, <2>2
  <1>6. \A k \in MonthNumbers : d \in StartOf[k]..(StartOf[k] + MonthLengths[k] - 1) <=> InMonth(d, k)
    BY <1>0, <1>2 DEF InMonth
  <1>7. \E k \in MonthNumbers : d \in StartOf[k]..(StartOf[k] + MonthLengths[k] - 1)
    BY <1>4, <1>5, <1>6 DEF InMonth
  <1>8. MonthAt(d) \in MonthNumbers /\ InMonth(d, MonthAt(d))
    <2>1. /\ MonthAt(d) \in MonthNumbers
          /\ d \in StartOf[MonthAt(d)]..(StartOf[MonthAt(d)] + MonthLengths[MonthAt(d)] - 1)
      BY <1>7 DEF MonthAt
    <2> QED
      BY <1>6, <2>1
  <1>9. ASSUME NEW k \in MonthNumbers, NEW j \in MonthNumbers, InMonth(d, k), InMonth(d, j), k < j PROVE FALSE
    BY <1>0, <1>2, <1>9, StartsGrow DEF InMonth
  <1>10. ASSUME NEW k \in MonthNumbers, InMonth(d, k) PROVE k = MonthAt(d)
    <2>1. k < MonthAt(d) \/ MonthAt(d) < k \/ k = MonthAt(d)
      BY <1>0, <1>8
    <2> QED
      BY <1>8, <1>9, <1>10, <2>1
  <1> QED
    BY <1>2, <1>8, <1>10

\* The day of a date on which something falls due.
LEMMA DueDayOfDate ==
    ASSUME CalendarIsLongEnough, NEW date \in Dates, NEW day \in Nat \ {0},
           day <= MonthLengths[MonthAt(date)], DateIn(MonthAt(date), day) = date
    PROVE  date = StartOf[MonthAt(date)] - 1 + day /\ DayInMonth(date) = day
  <1>1. PICK m : m = MonthAt(date)
    OBVIOUS
  <1>2. m \in MonthNumbers /\ StartOf[m] \in Nat /\ MonthLengths[m] \in Nat
    BY <1>1, MonthOfDate, MonthFacts, StartsAreDays
  <1>3. date = StartOf[m] - 1 + day
    BY <1>1, <1>2 DEF DateIn
  <1> QED
    BY <1>1, <1>2, <1>3 DEF DayInMonth

\* Seen from a day of the window before it, such a date is the next due date.
LEMMA NextDueIs ==
    ASSUME CalendarIsLongEnough, MonthsOutlastTheWindow,
           NEW date \in Dates, NEW today \in Dates, today <= date, date - today <= WindowDays,
           NEW day \in Nat \ {0}, day <= MonthLengths[MonthAt(date)], DateIn(MonthAt(date), day) = date
    PROVE  NextDueDate(day, today) = date
  <1>1. PICK m : m = MonthAt(date)
    OBVIOUS
  <1>2. PICK k : k = MonthAt(today)
    OBVIOUS
  <1>3. /\ m \in MonthNumbers /\ k \in MonthNumbers /\ InMonth(date, m) /\ InMonth(today, k)
        /\ date \in Nat /\ today \in Nat
    BY <1>1, <1>2, MonthOfDate
  <1>4. /\ StartOf[m] \in Nat /\ MonthLengths[m] \in Nat /\ m \in Nat \ {0}
        /\ StartOf[k] \in Nat /\ MonthLengths[k] \in Nat /\ k \in Nat \ {0}
        /\ MonthLengths[k] > WindowDays /\ WindowDays \in Nat
    BY <1>3, MonthFacts, StartsAreDays, InvoiceAssumption DEF MonthsOutlastTheWindow
  <1>5. date = StartOf[m] - 1 + day /\ DateIn(m, day) = date
    BY <1>1, DueDayOfDate
  <1>6. NextDueDate(day, today) = IF DateIn(k, day) < today THEN DateIn(k + 1, day) ELSE DateIn(k, day)
    BY <1>2 DEF NextDueDate
  <1>7. CASE k = m
    BY <1>3, <1>5, <1>6, <1>7
  <1>8. CASE k > m
    BY <1>3, <1>4, <1>8, StartsGrow DEF InMonth
  <1>9. CASE k < m
    <2>1. m - 1 \in MonthNumbers /\ StartOf[m] = StartOf[m - 1] + MonthLengths[m - 1]
      BY <1>3, <1>4, <1>9, Starts, MonthFacts
    <2>2. /\ StartOf[m - 1] \in Nat /\ MonthLengths[m - 1] \in Nat
          /\ MonthLengths[m - 1] > WindowDays
      BY <2>1, MonthFacts, StartsAreDays DEF MonthsOutlastTheWindow
    <2>3. ~(k < m - 1)
      <3>1. SUFFICES ASSUME k < m - 1 PROVE FALSE
        OBVIOUS
      <3>2. StartOf[k] + MonthLengths[k] <= StartOf[m - 1]
        BY <1>3, <2>1, <3>1, StartsGrow
      <3> QED
        BY <1>3, <1>4, <2>1, <2>2, <3>2 DEF InMonth
    <2>4. k = m - 1
      BY <1>4, <1>9, <2>3
    <2>5. day <= MonthLengths[k]
      BY <1>3, <1>4, <1>5, <2>1, <2>4 DEF InMonth
    <2>6. DateIn(k, day) = StartOf[k] - 1 + day
      BY <1>4, <2>5 DEF DateIn
    <2>7. DateIn(k, day) < today
      BY <1>3, <1>4, <1>5, <2>1, <2>4, <2>6
    <2>8. k + 1 = m
      BY <1>4, <2>4
    <2> QED
      BY <1>5, <1>6, <2>7, <2>8
  <1> QED
    BY <1>4, <1>7, <1>8, <1>9

-----------------------------------------------------------------------------
(* Reminders that are due.                                                  *)

\* Card c has been due on date since before day d, of whose window date is one.
NearDue(c, date, d) ==
    /\ setAt[c] < d /\ d <= date /\ date < d + WindowDays
    /\ FallsDue(c, date)
Days == 2..LastUtcDay
RememberedOn(d) ==
    \A c \in InvoiceCards, date \in Days : NearDue(c, date, d) => reminder[<<c, date>>] # "none"

DueTypes ==
    /\ utcDay \in Days /\ dueDay \in [InvoiceCards -> Nat] /\ setAt \in [InvoiceCards -> Nat]
    /\ reminder \in [InvoiceKeys -> {"none", "sent", "notified"}]

\* What a host's job listed holds whatever is due and not remembered yet; once
\* a job ran nothing is, on days before and, while no job failed, today.
DueInv ==
    /\ DueTypes
    /\ \A d \in Days : d < utcDay /\ d \notin skipped => RememberedOn(d)
    /\ ran # {} /\ utcDay \notin skipped => RememberedOn(utcDay)
    /\ \A h \in CardHosts : dueScan[h].pc = "publish" =>
          \A c \in InvoiceCards, date \in Days :
              NearDue(c, date, utcDay) /\ reminder[<<c, date>>] = "none" => <<c, date>> \in dueScan[h].alerts

LEMMA DaysAreDates ==
    CalendarIsLongEnough => /\ Days \subseteq Dates /\ \A d \in Days : d - 1 \in Dates
                            /\ Days \subseteq Nat /\ Dates \subseteq Nat \ {0}
  <1> SUFFICES ASSUME CalendarIsLongEnough
               PROVE  /\ Days \subseteq Dates /\ \A d \in Days : d - 1 \in Dates
                      /\ Days \subseteq Nat /\ Dates \subseteq Nat \ {0}
    OBVIOUS
  <1>1. PICK n : n = StartOf[Len(MonthLengths)] + MonthLengths[Len(MonthLengths)] - 1
    OBVIOUS
  <1>2. Dates = 1..n /\ n \in Int
    <2>1. Len(MonthLengths) \in MonthNumbers
      BY MonthFacts DEF CalendarIsLongEnough, MonthNumbers
    <2>2. StartOf[Len(MonthLengths)] \in Nat /\ MonthLengths[Len(MonthLengths)] \in Nat
      BY <2>1, MonthFacts, StartsAreDays
    <2> QED
      BY <1>1, <2>2 DEF Dates
  <1> QED
    BY <1>2, InvoiceAssumption DEF CalendarIsLongEnough, Days

\* The job of the day lists what is due, whichever day it is locally.
LEMMA ScanFinds ==
    ASSUME CalendarIsLongEnough, MonthsOutlastTheWindow, ListHoldsAllCards, DueTypes,
           NEW lag \in LocalLags, NEW c \in InvoiceCards, NEW date \in Days,
           NearDue(c, date, utcDay)
    PROVE  <<c, date>> \in Decide(utcDay - lag)
  <1> DEFINE day == dueDay[c]
             today == utcDay - lag
             near == {b \in InvoiceCards : dueDay[b] \in DueDayWindow}
  <1>1. /\ date \in Dates /\ utcDay \in Nat /\ utcDay \in Dates /\ date \in Nat /\ lag \in {0, 1}
        /\ WindowDays \in Nat \ {0} /\ ScanLimit \in Nat
    BY DaysAreDates, InvoiceAssumption DEF DueTypes
  <1>2. today \in Dates /\ today <= date /\ date - today <= WindowDays /\ today \in Nat
    <2>1. today \in Dates
      <3>1. CASE lag = 0
        BY <1>1, <3>1
      <3>2. CASE lag = 1
        BY <3>2, DaysAreDates DEF DueTypes
      <3> QED
        BY <1>1, <3>1, <3>2
    <2> QED
      BY <1>1, <2>1, DaysAreDates DEF NearDue
  <1>3. /\ day \in Nat \ {0} /\ day <= MonthLengths[MonthAt(date)] /\ DateIn(MonthAt(date), day) = date
    BY DEF NearDue, FallsDue, DueTypes
  <1> HIDE DEF day, today
  <1>4. DayInMonth(date) = day /\ NextDueDate(day, today) = date
    BY <1>1, <1>2, <1>3, DueDayOfDate, NextDueIs
  <1>5. c \in near
    <2>1. date - utcDay \in 0..(WindowDays + 1) /\ utcDay + (date - utcDay) = date
      BY <1>1 DEF NearDue
    <2>2. DayInMonth(date) \in DueDayWindow
      BY <2>1 DEF DueDayWindow
    <2> QED
      BY <1>4, <2>2 DEF day
  <1>6. c \in FindCardsWithInvoiceDueWithin
    <2> DEFINE before == {b \in near : b < c}
    <2>1. before \in SUBSET InvoiceCards /\ before # InvoiceCards
      <3>1. c \in Nat /\ ~(c < c)
        BY InvoiceAssumption
      <3> QED
        BY <3>1
    <2>2. IsFiniteSet(InvoiceCards) /\ Cardinality(InvoiceCards) <= ScanLimit
      BY InvoiceAssumption DEF ListHoldsAllCards
    <2>3. Cardinality(before) < Cardinality(InvoiceCards) /\ Cardinality(before) \in Nat
          /\ Cardinality(InvoiceCards) \in Nat
      BY <2>1, <2>2, ProperSubset
    <2>4. Cardinality(before) < ScanLimit
      <3> HIDE DEF before
      <3> QED
        BY <1>1, <2>2, <2>3
    <2> QED
      BY <1>5, <2>4 DEF FindCardsWithInvoiceDueWithin
  <1>7. date - today \in 0..WindowDays
    BY <1>1, <1>2
  <1> QED
    BY <1>4, <1>6, <1>7 DEF Decide, day, today

\* A step that forgets no reminder and makes nothing due.
LEMMA NothingForgotten ==
    ASSUME DueInv, UNCHANGED <<utcDay, dueDay, setAt>>, DueTypes',
           \A k \in InvoiceKeys : reminder[k] # "none" => reminder'[k] # "none",
           NEW d \in Days, RememberedOn(d), CalendarIsLongEnough
    PROVE  RememberedOn(d)'
  <1>1. \A c \in InvoiceCards, date \in Days : <<c, date>> \in InvoiceKeys
    BY DaysAreDates DEF InvoiceKeys
  <1>2. \A c, date : NearDue(c, date, d)' <=> NearDue(c, date, d)
    BY DEF NearDue, FallsDue
  <1> QED
    BY <1>1, <1>2 DEF RememberedOn

LEMMA RemindersStay ==
    ASSUME DueInv, UNCHANGED <<utcDay, dueDay, setAt, skipped, dueScan, ran>>, CalendarIsLongEnough,
           reminder' \in [InvoiceKeys -> {"none", "sent", "notified"}],
           \A k \in InvoiceKeys : reminder[k] # "none" => reminder'[k] # "none"
    PROVE  DueInv'
  <1>1. DueTypes'
    BY DEF DueInv, DueTypes
  <1>2. \A d \in Days : RememberedOn(d) => RememberedOn(d)'
    BY <1>1, NothingForgotten
  <1>3. \A c \in InvoiceCards, date \in Days : <<c, date>> \in InvoiceKeys
    BY DaysAreDates DEF InvoiceKeys
  <1>4. \A c, date : NearDue(c, date, utcDay)' <=> NearDue(c, date, utcDay)
    BY DEF NearDue, FallsDue
  <1>5. utcDay \in Days
    BY DEF DueInv, DueTypes
  <1>6. \A h \in CardHosts : dueScan'[h].pc = "publish" =>
          \A c \in InvoiceCards, date \in Days :
              NearDue(c, date, utcDay)' /\ reminder'[<<c, date>>] = "none" => <<c, date>> \in dueScan'[h].alerts
    BY <1>3, <1>4 DEF DueInv
  <1>7. \A d \in Days : d < utcDay' /\ d \notin skipped' => RememberedOn(d)'
    BY <1>2 DEF DueInv
  <1>8. ran' # {} /\ utcDay' \notin skipped' => RememberedOn(utcDay)'
    BY <1>2, <1>5 DEF DueInv
  <1> QED
    BY <1>1, <1>6, <1>7, <1>8 DEF DueInv

LEMMA DueStep ==
    ASSUME CalendarIsLongEnough, MonthsOutlastTheWindow, ListHoldsAllCards,
           DueInv, [InvoiceNext]_invoiceVars
    PROVE  DueInv'
  <1>0. /\ DueTypes /\ utcDay \in Days /\ utcDay \in Nat /\ Days \subseteq Nat
        /\ \A d \in Days : d < utcDay /\ d \notin skipped => RememberedOn(d)
        /\ ran # {} /\ utcDay \notin skipped => RememberedOn(utcDay)
        /\ \A c \in InvoiceCards, date \in Days : <<c, date>> \in InvoiceKeys
    BY DaysAreDates DEF DueInv, DueTypes, InvoiceKeys
  <1>1. ASSUME NEW c \in InvoiceCards, NEW day \in CardDueDays \cup {0}, SetDueDay(c, day)
        PROVE  DueInv'
    <2>1. /\ dueDay' = [dueDay EXCEPT ![c] = day] /\ setAt' = [setAt EXCEPT ![c] = utcDay]
          /\ UNCHANGED <<utcDay, dueScan, ran, skipped, reminder>>
      BY <1>1 DEF SetDueDay
    <2>2. DueTypes'
      BY <1>0, <2>1, InvoiceAssumption DEF DueTypes
    <2>3. \A b \in InvoiceCards, date \in Days, d \in Days :
              d <= utcDay /\ NearDue(b, date, d)' => NearDue(b, date, d)
      <3> SUFFICES ASSUME NEW b \in InvoiceCards, NEW date \in Days, NEW d \in Days,
                          d <= utcDay, NearDue(b, date, d)'
                   PROVE  NearDue(b, date, d)
        OBVIOUS
      <3>1. b # c
        <4>1. setAt'[b] < d
          BY DEF NearDue
        <4> QED
          BY <1>0, <2>1, <4>1 DEF DueTypes
      <3>2. setAt'[b] = setAt[b] /\ dueDay'[b] = dueDay[b]
        BY <1>0, <2>1, <3>1 DEF DueTypes
      <3> QED
        BY <3>2 DEF NearDue, FallsDue
    <2>4. \A d \in Days : d <= utcDay /\ RememberedOn(d) => RememberedOn(d)'
      BY <2>1, <2>3 DEF RememberedOn
    <2>5. \A d \in Days : d < utcDay' /\ d \notin skipped' => RememberedOn(d)'
      BY <1>0, <2>1, <2>4
    <2>6. ran' # {} /\ utcDay' \notin skipped' => RememberedOn(utcDay)'
      BY <1>0, <2>1, <2>4
    <2>7. \A h \in CardHosts : dueScan'[h].pc = "publish" =>
            \A b \in InvoiceCards, date \in Days :
                NearDue(b, date, utcDay)' /\ reminder'[<<b, date>>] = "none" => <<b, date>> \in dueScan'[h].alerts
      BY <1>0, <2>1, <2>3 DEF DueInv
    <2> QED
      BY <2>2, <2>5, <2>6, <2>7 DEF DueInv
  <1>2. CASE NextUtcDay
    <2>1. /\ utcDay < LastUtcDay /\ utcDay' = utcDay + 1 /\ ran' = {} /\ skipped \subseteq skipped'
          /\ UNCHANGED <<dueDay, setAt, dueScan, reminder>>
          /\ \A h \in CardHosts : dueScan[h].pc = "idle"
          /\ ran = CardHosts \/ utcDay \in skipped'
      BY <1>2 DEF NextUtcDay, cardSide
    <2>2. DueTypes'
      BY <1>0, <2>1, InvoiceAssumption DEF DueTypes, Days
    <2>3. \A d : RememberedOn(d)' <=> RememberedOn(d)
      BY <2>1 DEF RememberedOn, NearDue, FallsDue
    <2>4. ASSUME NEW d \in Days, d < utcDay', d \notin skipped' PROVE RememberedOn(d)'
      <3>1. d < utcDay \/ d = utcDay
        BY <1>0, <2>1, <2>4
      <3>2. CASE d < utcDay
        BY <1>0, <2>1, <2>3, <2>4, <3>2
      <3>3. CASE d = utcDay
        <4>1. ran # {} /\ utcDay \notin skipped
          BY <2>1, <2>4, <3>3 DEF ListHoldsAllCards
        <4> QED
          BY <1>0, <2>3, <3>3, <4>1
      <3> QED
        BY <3>1, <3>2, <3>3
    <2> QED
      BY <2>1, <2>2, <2>4 DEF DueInv
  <1>3. ASSUME NEW h \in CardHosts, NEW lag \in LocalLags, Scan(h, lag)
        PROVE  DueInv'
    <2>1. /\ dueScan' = [dueScan EXCEPT ![h] = [pc |-> "publish", alerts |-> Unsent(Decide(utcDay - lag))]]
          /\ UNCHANGED <<utcDay, dueDay, setAt, skipped, ran, reminder>>
      BY <1>3 DEF Scan, cardSide
    <2>2. DueTypes' /\ (\A d : RememberedOn(d)' <=> RememberedOn(d))
          /\ (\A c, date : NearDue(c, date, utcDay)' <=> NearDue(c, date, utcDay))
      BY <1>0, <2>1 DEF DueTypes, RememberedOn, NearDue, FallsDue
    <2>3. ASSUME NEW g \in CardHosts, dueScan'[g].pc = "publish",
                 NEW c \in InvoiceCards, NEW date \in Days,
                 NearDue(c, date, utcDay), reminder[<<c, date>>] = "none"
          PROVE  <<c, date>> \in dueScan'[g].alerts
      <3>1. CASE dueScan'[g] = dueScan[g]
        BY <2>3, <3>1 DEF DueInv
      <3>2. CASE dueScan'[g] = [pc |-> "publish", alerts |-> Unsent(Decide(utcDay - lag))]
        <4>1. <<c, date>> \in Decide(utcDay - lag)
          BY <1>0, <2>3, ScanFinds
        <4> QED
          BY <2>3, <3>2, <4>1 DEF Unsent
      <3> QED
        BY <2>1, <3>1, <3>2
    <2> QED
      BY <1>0, <2>1, <2>2, <2>3 DEF DueInv
  <1>4. ASSUME NEW h \in CardHosts, PublishAndPersist(h)
        PROVE  DueInv'
    <2>1. /\ dueScan[h].pc = "publish" /\ ran' = ran \cup {h}
          /\ reminder' = [k \in InvoiceKeys |->
                            IF k \in Unsent(dueScan[h].alerts) THEN "sent" ELSE reminder[k]]
          /\ dueScan' = [dueScan EXCEPT ![h] = [pc |-> "idle", alerts |-> {}]]
          /\ UNCHANGED <<utcDay, dueDay, setAt, skipped>>
      BY <1>4 DEF PublishAndPersist, cardSide
    <2>2. DueTypes' /\ (\A k \in InvoiceKeys : reminder[k] # "none" => reminder'[k] # "none")
      BY <1>0, <2>1 DEF DueTypes
    <2>3. \A d \in Days : RememberedOn(d) => RememberedOn(d)'
      BY <2>1, <2>2, NothingForgotten
    <2>4. \A c, date : NearDue(c, date, utcDay)' <=> NearDue(c, date, utcDay)
      BY <2>1 DEF NearDue, FallsDue
    <2>5. RememberedOn(utcDay)'
      <3> SUFFICES ASSUME NEW c \in InvoiceCards, NEW date \in Days, NearDue(c, date, utcDay)
                   PROVE  reminder'[<<c, date>>] # "none"
        BY <2>1, <2>4 DEF RememberedOn
      <3>1. CASE reminder[<<c, date>>] # "none"
        BY <1>0, <2>2, <3>1
      <3>2. CASE reminder[<<c, date>>] = "none"
        <4>1. <<c, date>> \in Unsent(dueScan[h].alerts)
          BY <2>1, <3>2 DEF DueInv, Unsent
        <4> QED
          BY <1>0, <2>1, <4>1
      <3> QED
        BY <3>1, <3>2
    <2>6. ASSUME NEW g \in CardHosts, dueScan'[g].pc = "publish" PROVE dueScan'[g] = dueScan[g]
      BY <2>1, <2>6
    <2>7. \A g \in CardHosts : dueScan'[g].pc = "publish" =>
            \A c \in InvoiceCards, date \in Days :
                NearDue(c, date, utcDay)' /\ reminder'[<<c, date>>] = "none" => <<c, date>> \in dueScan'[g].alerts
      BY <1>0, <2>2, <2>4, <2>6 DEF DueInv
    <2>8. \A d \in Days : d < utcDay' /\ d \notin skipped' => RememberedOn(d)'
      BY <1>0, <2>1, <2>3
    <2> QED
      BY <2>1, <2>2, <2>5, <2>7, <2>8 DEF DueInv
  <1>5. ASSUME NEW h \in CardHosts, ScanFails(h)
        PROVE  DueInv'
    <2>1. /\ skipped' = skipped \cup {utcDay}
          /\ dueScan' = [dueScan EXCEPT ![h] = [pc |-> "idle", alerts |-> {}]]
          /\ UNCHANGED <<utcDay, dueDay, setAt, reminder>>
      BY <1>5 DEF ScanFails, cardSide
    <2>2. DueTypes' /\ (\A d : RememberedOn(d)' <=> RememberedOn(d))
          /\ (\A c, date : NearDue(c, date, utcDay)' <=> NearDue(c, date, utcDay))
      BY <1>0, <2>1 DEF DueTypes, RememberedOn, NearDue, FallsDue
    <2>3. ASSUME NEW g \in CardHosts, dueScan'[g].pc = "publish" PROVE dueScan'[g] = dueScan[g]
      BY <2>1, <2>3
    <2> QED
      BY <1>0, <2>1, <2>2, <2>3 DEF DueInv
  <1>6. ASSUME NEW n \in Couriers,
               \/ \E k \in InvoiceKeys : Receive(n, k)
               \/ CheckNotified(n) \/ MarkNotified(n) \/ Send(n) \/ CourierFails(n)
        PROVE  DueInv'
    <2>1. /\ UNCHANGED <<utcDay, dueDay, setAt, skipped, dueScan, ran>>
          /\ reminder' = reminder \/ reminder' = [reminder EXCEPT ![courier[n].key] = "notified"]
      BY <1>6 DEF Receive, CheckNotified, MarkNotified, Send, CourierFails, dueJobSide, cardSide
    <2>2. /\ reminder' \in [InvoiceKeys -> {"none", "sent", "notified"}]
          /\ \A k \in InvoiceKeys : reminder[k] # "none" => reminder'[k] # "none"
      BY <1>0, <2>1 DEF DueTypes
    <2> QED
      BY <2>1, <2>2, RemindersStay
  <1>7. CASE UNCHANGED invoiceVars
    <2>1. UNCHANGED <<utcDay, dueDay, setAt, skipped, dueScan, ran, reminder>>
      BY <1>7 DEF invoiceVars
    <2> QED
      BY <1>0, <2>1, RemindersStay DEF DueTypes
  <1> QED
    BY <1>1, <1>2, <1>3, <1>4, <1>5, <1>6, <1>7 DEF InvoiceNext

\* No invoice falls due unannounced, across the ends of months and of UTC and
\* local days, if the daily job ran on one day of the window after the due day
\* was set: in any calendar whose months are longer than the window, for any
\* number of hosts and cards that the list of the job holds.
THEOREM DueInvoicesRemembered ==
    ASSUME CalendarIsLongEnough, MonthsOutlastTheWindow, ListHoldsAllCards
    PROVE  InvoiceSpec => DueInvoicesAreRemembered
  <1> DEFINE A == utcDay' # utcDay =>
                    \A c \in InvoiceCards :
                        /\ FallsDue(c, utcDay)
                        /\ \E d \in 2..utcDay : d + WindowDays > utcDay /\ d > setAt[c] /\ d \notin skipped'
                        => reminder[<<c, utcDay>>] # "none"
  <1>1. InvoiceInit => DueInv
    <2> SUFFICES ASSUME InvoiceInit PROVE DueInv
      OBVIOUS
    <2>1. DueTypes /\ utcDay = 2
      BY InvoiceAssumption DEF InvoiceInit, DueTypes, Days
    <2>2. \A d \in Days : ~(d < utcDay)
      BY <2>1, InvoiceAssumption DEF Days
    <2> QED
      BY <2>1, <2>2 DEF InvoiceInit, DueInv
  <1>2. DueInv /\ [InvoiceNext]_invoiceVars => [A]_invoiceVars
    <2> SUFFICES ASSUME DueInv, InvoiceNext, utcDay' # utcDay, NEW c \in InvoiceCards,
                        FallsDue(c, utcDay), NEW d \in 2..utcDay,
                        d + WindowDays > utcDay, d > setAt[c], d \notin skipped'
                 PROVE  reminder[<<c, utcDay>>] # "none"
      OBVIOUS
    <2>1. NextUtcDay
      BY DEF InvoiceNext, SetDueDay, Scan, PublishAndPersist, ScanFails, Receive, CheckNotified,
             MarkNotified, Send, CourierFails, dueJobSide
    <2>2. skipped \subseteq skipped' /\ (ran = CardHosts \/ utcDay \in skipped')
      BY <2>1 DEF NextUtcDay
    <2>3. utcDay \in Days /\ utcDay \in Nat /\ d \in Days /\ d \in Nat /\ setAt[c] \in Nat
          /\ WindowDays \in Nat
      BY InvoiceAssumption DEF DueInv, DueTypes, Days
    <2>4. RememberedOn(d)
      BY <2>2, <2>3 DEF DueInv, ListHoldsAllCards
    <2>5. NearDue(c, utcDay, d)
      BY <2>3 DEF NearDue
    <2> QED
      BY <2>3, <2>4, <2>5 DEF RememberedOn
  <1>3. DueInv /\ [InvoiceNext]_invoiceVars => DueInv'
    BY DueStep
  <1> HIDE DEF A
  <1>4. InvoiceSpec => [][A]_invoiceVars
    BY <1>1, <1>2, <1>3, PTL DEF InvoiceSpec
  <1> QED
    BY <1>4 DEF A, DueInvoicesAreRemembered

-----------------------------------------------------------------------------
(***************************************************************************)
(* The types of the reminders.                                             *)
(***************************************************************************)
\* What the calendar must reach for every date computed to be one of its dates:
\* the month after the last day counted, and the days of its window.
CalendarReachesOn ==
    /\ CalendarIsLongEnough
    /\ LastUtcDay < StartOf[Len(MonthLengths)] /\ LastUtcDay + WindowDays + 1 \in Dates

LEMMA NextMonth ==
    ASSUME CalendarReachesOn, NEW d \in 1..LastUtcDay
    PROVE  d \in Dates /\ MonthAt(d) \in MonthNumbers /\ MonthAt(d) + 1 \in MonthNumbers
  <1> DEFINE n == Len(MonthLengths)
  <1>1. LastUtcDay \in Nat /\ n \in MonthNumbers /\ n \in Nat
    BY InvoiceAssumption, MonthFacts DEF CalendarReachesOn, CalendarIsLongEnough, MonthNumbers
  <1>2. StartOf[n] \in Nat \ {0} /\ MonthLengths[n] \in Nat \ {0}
    BY <1>1, StartsAreDays, MonthFacts
  <1>3. d \in Dates
    BY <1>1, <1>2 DEF CalendarReachesOn, Dates
  <1>4. MonthAt(d) \in MonthNumbers /\ InMonth(d, MonthAt(d))
    BY <1>3, MonthOfDate DEF CalendarReachesOn
  <1>5. MonthAt(d) # n
    BY <1>1, <1>2, <1>4 DEF InMonth, CalendarReachesOn
  <1> QED
    BY <1>1, <1>3, <1>4, <1>5 DEF MonthNumbers

\* Arithmetic of a clamped day: months laid end to end.
LEMMA WithinTheLast ==
    ASSUME NEW first \in Nat \ {0}, NEW days \in Nat \ {0}, NEW last \in Nat \ {0}, NEW span \in Nat \ {0},
           first + days <= last \/ (first = last /\ days = span)
    PROVE  first + days <= last + span
  OBVIOUS

LEMMA ClampedInside ==
    ASSUME NEW first \in Nat \ {0}, NEW days \in Nat \ {0}, NEW last \in Nat \ {0}, NEW span \in Nat \ {0},
           NEW day \in Nat, day # 0, first + days <= last + span
    PROVE  first - 1 + (IF day > days THEN days ELSE day) \in 1..(last + span - 1)
  <1>1. CASE day > days
    BY <1>1
  <1>2. CASE ~(day > days)
    BY <1>2
  <1> QED
    BY <1>1, <1>2

LEMMA DateInMonth ==
    ASSUME NEW m \in MonthNumbers, NEW day \in Nat, day # 0, Len(MonthLengths) > 0
    PROVE  DateIn(m, day) \in Dates
  <1>1. PICK n \in Nat : n = Len(MonthLengths)
    BY MonthFacts
  <1>2. n \in MonthNumbers /\ m \in Nat /\ m <= n
    BY <1>1, MonthFacts DEF MonthNumbers
  <1>3. PICK first \in Nat \ {0}, days \in Nat \ {0} :
            first = StartOf[m] /\ days = MonthLengths[m]
    BY StartsAreDays, MonthFacts
  <1>4. PICK last \in Nat \ {0}, span \in Nat \ {0} :
            last = StartOf[n] /\ span = MonthLengths[n]
    BY <1>2, StartsAreDays, MonthFacts
  <1>5. first + days <= last + span
    <2>1. m = n \/ first + days <= last
      <3>1. m = n \/ StartOf[m] + MonthLengths[m] <= StartOf[n]
        BY <1>2, StartsGrow
      <3> QED
        BY <1>3, <1>4, <3>1, Zenon
    <2>2. m = n => first = last /\ days = span
      BY <1>3, <1>4, Zenon
    <2> QED
      BY <2>1, <2>2, WithinTheLast
  <1>6. DateIn(m, day) = first - 1 + (IF day > days THEN days ELSE day)
    BY <1>3, Zenon DEF DateIn
  <1>7. Dates = 1..(last + span - 1)
    BY <1>1, <1>4, Zenon DEF Dates
  <1>8. first - 1 + (IF day > days THEN days ELSE day) \in 1..(last + span - 1)
    BY <1>5, ClampedInside
  <1> QED
    BY <1>6, <1>7, <1>8, Zenon

LEMMA NextDueInCalendar ==
    ASSUME CalendarReachesOn, NEW today \in 1..LastUtcDay, NEW day \in Nat, day # 0
    PROVE  NextDueDate(day, today) \in Dates
  BY NextMonth, DateInMonth DEF NextDueDate, CalendarReachesOn, CalendarIsLongEnough

LEMMA DaysOfTheMonth ==
    ASSUME CalendarReachesOn, utcDay \in Days
    PROVE  0 \notin DueDayWindow
  <1> SUFFICES ASSUME NEW i \in 0..(WindowDays + 1) PROVE DayInMonth(utcDay + i) # 0
    BY DEF DueDayWindow
  <1>1. LastUtcDay \in Nat /\ WindowDays \in Nat /\ utcDay \in 2..LastUtcDay
    BY InvoiceAssumption DEF Days
  <1>2. PICK n : n = StartOf[Len(MonthLengths)] + MonthLengths[Len(MonthLengths)] - 1
    OBVIOUS
  <1>3. LastUtcDay + WindowDays + 1 \in 1..n /\ Dates = 1..n
    BY <1>2 DEF CalendarReachesOn, Dates
  <1>4. n \in Nat
    <2>1. Len(MonthLengths) \in MonthNumbers
      BY MonthFacts DEF CalendarReachesOn, CalendarIsLongEnough, MonthNumbers
    <2> QED
      BY <1>2, <2>1, MonthFacts, StartsAreDays
  <1>5. utcDay + i \in Dates
    BY <1>1, <1>3, <1>4
  <1>6. MonthAt(utcDay + i) \in MonthNumbers /\ InMonth(utcDay + i, MonthAt(utcDay + i))
    BY <1>5, MonthOfDate DEF CalendarReachesOn
  <1>7. StartOf[MonthAt(utcDay + i)] \in Nat
    BY <1>6, StartsAreDays
  <1> QED
    BY <1>1, <1>6, <1>7 DEF InMonth, DayInMonth

LEMMA AlertsAreKeys ==
    ASSUME CalendarReachesOn, InvoiceTypeOK, NEW lag \in LocalLags
    PROVE  Unsent(Decide(utcDay - lag)) \in SUBSET InvoiceKeys
  <1>1. utcDay - lag \in 1..LastUtcDay /\ utcDay \in Days
    BY InvoiceAssumption DEF InvoiceTypeOK, Days
  <1>2. ASSUME NEW c \in FindCardsWithInvoiceDueWithin
        PROVE  /\ c \in InvoiceCards /\ dueDay[c] \in Nat /\ dueDay[c] # 0
               /\ NextDueDate(dueDay[c], utcDay - lag) \in Dates
    <2>1. c \in InvoiceCards /\ dueDay[c] \in DueDayWindow
      BY DEF FindCardsWithInvoiceDueWithin
    <2>2. dueDay[c] \in Nat /\ dueDay[c] # 0
      BY <1>1, <2>1, DaysOfTheMonth, InvoiceAssumption DEF InvoiceTypeOK
    <2> QED
      BY <1>1, <2>1, <2>2, NextDueInCalendar
  <1> QED
    BY <1>2 DEF Unsent, Decide, InvoiceKeys

LEMMA IdleCourierTyped ==
    ASSUME CalendarReachesOn, InvoiceCards # {}
    PROVE  IdleCourier \in [pc : {"idle", "check", "mark", "send"}, key : InvoiceKeys]
  <1>1. InvoiceKeys # {}
    <2>1. PICK c : c \in InvoiceCards
      OBVIOUS
    <2>2. <<c, LastUtcDay>> \in InvoiceKeys
      BY <2>1 DEF CalendarReachesOn, CalendarIsLongEnough, InvoiceKeys
    <2> QED
      BY <2>2
  <1> QED
    BY <1>1 DEF IdleCourier

LEMMA InvoiceTypeStep ==
    ASSUME CalendarReachesOn, InvoiceCards # {}, InvoiceTypeOK, [InvoiceNext]_invoiceVars
    PROVE  InvoiceTypeOK'
  <1> USE DEF InvoiceTypeOK
  <1> DEFINE CourierRecords == [pc : {"idle", "check", "mark", "send"}, key : InvoiceKeys]
  <1>0. IdleCourier \in CourierRecords
    BY IdleCourierTyped
  <1>1. CASE UNCHANGED invoiceVars
    BY <1>1 DEF invoiceVars
  <1>2. ASSUME NEW c \in InvoiceCards, NEW day \in CardDueDays \cup {0}, SetDueDay(c, day)
        PROVE  InvoiceTypeOK'
    BY <1>2, InvoiceAssumption DEF SetDueDay, courierSide
  <1>3. CASE NextUtcDay
    <2>1. utcDay' \in 2..LastUtcDay /\ ran' = {}
      BY <1>3, InvoiceAssumption DEF NextUtcDay
    <2>3. skipped' \subseteq 2..LastUtcDay
      BY <1>3 DEF NextUtcDay
    <2>4. cardFaults' \in 0..MaxCardFaults
      BY <1>3, InvoiceAssumption DEF NextUtcDay, InvoiceFault
    <2>2. UNCHANGED <<cardSide, dueScan, reminder, courierSide>>
      BY <1>3 DEF NextUtcDay
    <2> QED
      BY <2>1, <2>2, <2>3, <2>4 DEF cardSide, courierSide
  <1>4. ASSUME NEW h \in CardHosts, NEW lag \in LocalLags, Scan(h, lag)
        PROVE  InvoiceTypeOK'
    <2>1. Unsent(Decide(utcDay - lag)) \in SUBSET InvoiceKeys
      BY AlertsAreKeys
    <2>2. dueScan' \in [CardHosts -> [pc : {"idle", "publish"}, alerts : SUBSET InvoiceKeys]]
      BY <1>4, <2>1 DEF Scan
    <2> QED
      BY <1>4, <2>2 DEF Scan, cardSide, courierSide
  <1>5. ASSUME NEW h \in CardHosts, PublishAndPersist(h)
        PROVE  InvoiceTypeOK'
    <2>1. reminder' \in [InvoiceKeys -> {"none", "sent", "notified"}]
      BY <1>5 DEF PublishAndPersist
    <2>2. dueEvent' \in [InvoiceKeys -> [pending : Nat, taken : Nat]]
      BY <1>5 DEF PublishAndPersist
    <2>3. dueScan' \in [CardHosts -> [pc : {"idle", "publish"}, alerts : SUBSET InvoiceKeys]]
      BY <1>5 DEF PublishAndPersist
    <2> QED
      BY <1>5, <2>1, <2>2, <2>3 DEF PublishAndPersist, cardSide
  <1>6. ASSUME NEW h \in CardHosts, ScanFails(h)
        PROVE  InvoiceTypeOK'
    <2>1. dueScan' \in [CardHosts -> [pc : {"idle", "publish"}, alerts : SUBSET InvoiceKeys]]
      BY <1>6 DEF ScanFails
    <2> QED
      BY <1>6, <2>1, InvoiceAssumption DEF ScanFails, InvoiceFault, cardSide, courierSide
  <1>7. ASSUME NEW n \in Couriers, NEW k \in InvoiceKeys, Receive(n, k)
        PROVE  InvoiceTypeOK'
    <2>1. dueEvent' \in [InvoiceKeys -> [pending : Nat, taken : Nat]]
      BY <1>7 DEF Receive
    <2>2. courier' \in [Couriers -> CourierRecords]
      BY <1>7 DEF Receive
    <2> QED
      BY <1>7, <2>1, <2>2 DEF Receive, dueJobSide, cardSide
  <1>8. ASSUME NEW n \in Couriers, Finish(n)
        PROVE  courier' \in [Couriers -> CourierRecords] /\ dueEvent' \in [InvoiceKeys -> [pending : Nat, taken : Nat]]
    <2>1. PICK k \in InvoiceKeys : k = courier[n].key
      OBVIOUS
    <2>2. dueEvent[k].taken \in Nat
      OBVIOUS
    <2>3. PICK t \in Nat : t = IF dueEvent[k].taken = 0 THEN 0 ELSE dueEvent[k].taken - 1
      BY <2>2
    <2>4. dueEvent' = [dueEvent EXCEPT ![k].taken = t]
      BY <1>8, <2>1, <2>3 DEF Finish
    <2> QED
      BY <1>0, <1>8, <2>4 DEF Finish
  <1>9. ASSUME NEW n \in Couriers, NEW p \in {"mark", "send"}, CourierAt(n, p)
        PROVE  courier' \in [Couriers -> CourierRecords]
    BY <1>9 DEF CourierAt
  <1>10. ASSUME NEW n \in Couriers, CheckNotified(n) \/ MarkNotified(n) \/ Send(n)
         PROVE  InvoiceTypeOK'
    <2>1. /\ courier' \in [Couriers -> CourierRecords]
          /\ dueEvent' \in [InvoiceKeys -> [pending : Nat, taken : Nat]]
      BY <1>8, <1>9, <1>10 DEF CheckNotified, MarkNotified, Send
    <2>2. courier[n].key \in InvoiceKeys
      OBVIOUS
    <2>3. /\ reminder' \in [InvoiceKeys -> {"none", "sent", "notified"}]
          /\ delivered' \in [InvoiceKeys -> Nat]
      <3>1. CASE CheckNotified(n)
        BY <3>1 DEF CheckNotified
      <3>2. CASE MarkNotified(n)
        BY <2>2, <3>2 DEF MarkNotified
      <3>3. CASE Send(n)
        BY <2>2, <3>3 DEF Send
      <3> QED
        BY <1>10, <3>1, <3>2, <3>3
    <2>4. UNCHANGED <<dueJobSide, cardFaults>>
      BY <1>10 DEF CheckNotified, MarkNotified, Send
    <2> QED
      BY <2>1, <2>3, <2>4 DEF dueJobSide, cardSide
  <1>11. ASSUME NEW n \in Couriers, CourierFails(n)
         PROVE  InvoiceTypeOK'
    <2>1. courier[n].key \in InvoiceKeys
      OBVIOUS
    <2>2. courier' \in [Couriers -> CourierRecords]
      BY <1>0, <1>11 DEF CourierFails
    <2>3. dueEvent' \in [InvoiceKeys -> [pending : Nat, taken : Nat]]
      <3>1. PICK k \in InvoiceKeys : k = courier[n].key
        BY <2>1
      <3>2. dueEvent[k].taken \in Nat /\ dueEvent[k].pending \in Nat
        OBVIOUS
      <3>3. \E e \in [pending : Nat, taken : Nat] : dueEvent' = [dueEvent EXCEPT ![k] = e]
        <4>1. CASE dueEvent[k].taken = 0
          BY <1>11, <3>1, <4>1 DEF CourierFails
        <4>2. CASE dueEvent[k].taken # 0
          <5>1. PICK t \in Nat : t = dueEvent[k].taken - 1
            BY <3>2, <4>2
          <5>2. [pending |-> dueEvent[k].pending + 1, taken |-> t] \in [pending : Nat, taken : Nat]
            BY <3>2
          <5>3. dueEvent' = [dueEvent EXCEPT ![k] = [pending |-> dueEvent[k].pending + 1, taken |-> t]]
            BY <1>11, <3>1, <4>2, <5>1 DEF CourierFails
          <5> QED
            BY <5>2, <5>3
        <4> QED
          BY <4>1, <4>2
      <3> QED
        BY <3>3
    <2>4. delivered' \in [InvoiceKeys -> Nat]
      BY <1>11, <2>1 DEF CourierFails
    <2>5. cardFaults' \in 0..MaxCardFaults
      BY <1>11, InvoiceAssumption DEF CourierFails, InvoiceFault
    <2> QED
      BY <1>11, <2>2, <2>3, <2>4, <2>5 DEF CourierFails, dueJobSide, cardSide
  <1> QED
    BY <1>1, <1>2, <1>3, <1>4, <1>5, <1>6, <1>7, <1>10, <1>11 DEF InvoiceNext

\* Days, due days, jobs, reminders, events and couriers are well typed: no
\* alert is for a date that the calendar does not have, clamped as it may be
\* and in whichever of the two months.
THEOREM InvoiceTypeCorrect ==
    ASSUME CalendarReachesOn, InvoiceCards # {}
    PROVE  InvoiceSpec => []InvoiceTypeOK
  <1>1. InvoiceInit => InvoiceTypeOK
    <2>1. [pc |-> "idle", alerts |-> {}] \in [pc : {"idle", "publish"}, alerts : SUBSET InvoiceKeys]
      OBVIOUS
    <2> QED
      BY <2>1, IdleCourierTyped, InvoiceAssumption DEF InvoiceInit, InvoiceTypeOK
  <1>2. InvoiceTypeOK /\ [InvoiceNext]_invoiceVars => InvoiceTypeOK'
    BY InvoiceTypeStep
  <1> QED
    BY <1>1, <1>2, PTL DEF InvoiceSpec
=============================================================================
