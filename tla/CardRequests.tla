----------------------------- MODULE CardRequests -----------------------------
(***************************************************************************)
(* The requests a client may repeat: an Idempotency-Key names the request, *)
(* the middleware of internal/platform/idempotency replays what the key is *)
(* known to have been answered, and the use cases of internal/card record  *)
(* their answer in the transaction that writes the card.  The routes of    *)
(* internal/transactions use the same middleware, and record nothing.      *)
(*                                                                         *)
(* One user.  A key stands for its scope and itself, a body for its hash.  *)
(* A write, its record and the commit are one step: a transaction takes    *)
(* its card before its key, so others only wait for it.                    *)
(***************************************************************************)
EXTENDS Naturals, FiniteSets

CONSTANTS
    CardIds,       \* bound on cards: ids in the order they are created
    Nicknames,     \* valid ones
    DueDays,
    Calls,         \* what clients send: [op, key, card, nick, due]
    HttpSlots,     \* requests served at once
    MaxPosts       \* bound on transactions written by HTTP

Unset == "unset"
NoDay == 0
TooLong == "too long"      \* NewNickname refuses it
CardOps == {"create", "update", "delete"}
ApiKeys == {c.key : c \in Calls}
CardCalls == {c \in Calls : c.op \in CardOps}
CardKeys == {c.key : c \in CardCalls}

ASSUME RequestsAssumption ==
    /\ CardIds \subseteq Nat /\ IsFiniteSet(CardIds) /\ MaxPosts \in Nat
    /\ {Unset, TooLong} \cap Nicknames = {} /\ DueDays \subseteq Nat \ {NoDay}
    /\ Calls # {}
    /\ \A c \in Calls :
          /\ c.op \in CardOps \cup {"post transaction"}
          /\ c.card \in CardIds
          /\ c.nick \in Nicknames \cup {Unset, TooLong} /\ c.due \in DueDays \cup {NoDay}
          /\ (c.op = "delete" => c.nick = Unset /\ c.due = NoDay)
          /\ (c.op \notin CardOps => c.key \notin CardKeys)

VARIABLES
    cards,     \* cards by id
    posts,     \* transactions written, per key
    record,    \* idempotency_keys; found and not fresh once expires_at is past
    http,      \* per slot: the request, what it has read and its answer
    wrote      \* history: bodies whose write committed, per key

requestsVars == <<cards, posts, record, http, wrote>>

NoCardRow == [state |-> "absent", nick |-> Unset, due |-> NoDay]
NoRecord == [found |-> FALSE, fresh |-> FALSE, hash |-> <<Unset, NoDay>>, status |-> 0]
Listening == [pc |-> "idle", call |-> CHOOSE c \in Calls : TRUE, row |-> NoCardRow,
              status |-> 0, late |-> FALSE]

RequestsInit ==
    /\ cards = [i \in CardIds |-> NoCardRow]
    /\ posts = [k \in ApiKeys |-> 0]
    /\ record = [k \in ApiKeys |-> NoRecord]
    /\ http = [s \in HttpSlots |-> Listening]
    /\ wrote = [k \in ApiKeys |-> {}]

-----------------------------------------------------------------------------
(* The storage of keys.                                                    *)

\* The hash covers the body, not the method nor the path.
RequestHash(c) == <<c.nick, c.due>>

Known(k) == record[k].found /\ record[k].fresh

\* Mutant: whatever the key was used for.
PutSucceedsAnyway(c) == ~record[c.key].found \/ Known(c.key)

\* ON CONFLICT DO NOTHING, then Get: the row must be there, unexpired, and of
\* the same body.
PutSucceeds(c) ==
    ~record[c.key].found \/ (Known(c.key) /\ record[c.key].hash = RequestHash(c))

Stored(c, status) ==
    IF record[c.key].found THEN record
    ELSE [record EXCEPT ![c.key] = [found |-> TRUE, fresh |-> TRUE,
                                    hash |-> RequestHash(c), status |-> status]]

-----------------------------------------------------------------------------
(* Middleware: a known key is replayed, or refused when the body is another *)
(* one; either way nothing changes.                                         *)

Serving(s, pc, c) == http[s].pc = pc /\ http[s].call = c
Ends(s) == http' = [http EXCEPT ![s] = Listening]
Respond(s, status) == http' = [http EXCEPT ![s].pc = "answer", ![s].status = status]
Refuses(s, status) == Respond(s, status) /\ UNCHANGED <<cards, posts, record, wrote>>

Middleware(s, c) ==
    /\ http[s].pc = "idle" /\ ~Known(c.key)
    /\ http' = [http EXCEPT ![s] =
          [Listening EXCEPT !.call = c, !.late = wrote[c.key] # {},
                            !.pc = IF c.op = "update" THEN "load" ELSE "write"]]
    /\ UNCHANGED <<cards, posts, record, wrote>>

Success == {200, 201, 204}

\* Only the answers 400 to 499 are recorded here, and an error of it is logged.
Answer(s) ==
    LET r == http[s]
    IN  /\ r.pc = "answer"
        /\ record' = IF r.status \in Success THEN record ELSE Stored(r.call, r.status)
        /\ Ends(s)
        /\ UNCHANGED <<cards, posts, wrote>>

\* A crash, a failed statement or a lost answer: what is not committed is gone.
Breaks(s) ==
    /\ http[s].pc # "idle" /\ Ends(s)
    /\ UNCHANGED <<cards, posts, record, wrote>>

\* No request lasts the 24 hours of a record.  Expired rows are never deleted.
Expires(k) ==
    /\ Known(k) /\ \A s \in HttpSlots : http[s].pc # "idle" => http[s].call.key # k
    /\ record' = [record EXCEPT ![k].fresh = FALSE]
    /\ UNCHANGED <<cards, posts, http, wrote>>

-----------------------------------------------------------------------------
(* The use cases of internal/card.                                          *)

\* Mutant: the answer is not recorded.
CommitUnrecorded(s, rows, status) ==
    /\ cards' = rows
    /\ wrote' = [wrote EXCEPT ![http[s].call.key] = @ \cup {RequestHash(http[s].call)}]
    /\ Respond(s, status)
    /\ UNCHANGED <<posts, record>>

\* The write and its record; when the record is refused the answer is a 500.
Commit(s, rows, status) ==
    LET c == http[s].call
    IN  IF PutSucceeds(c)
        THEN /\ cards' = rows
             /\ record' = Stored(c, status)
             /\ wrote' = [wrote EXCEPT ![c.key] = @ \cup {RequestHash(c)}]
             /\ Respond(s, status)
             /\ UNCHANGED posts
        ELSE Ends(s) /\ UNCHANGED <<cards, posts, record, wrote>>

\* cards_user_nickname_active_uniq_idx
Taken(nick, i) == \E j \in CardIds \ {i} : cards[j].state = "live" /\ cards[j].nick = nick

CreateCard(s, c, i) ==
    /\ Serving(s, "write", c) /\ c.op = "create"
    /\ cards[i].state = "absent" /\ \A j \in CardIds : j < i => cards[j].state # "absent"
    /\ IF c.nick = TooLong THEN Refuses(s, 400)
       ELSE IF Taken(c.nick, i) THEN Refuses(s, 409)
       ELSE Commit(s, [cards EXCEPT ![i] = [state |-> "live", nick |-> c.nick, due |-> c.due]], 201)

\* UpdateCard: the row is read unlocked and written back whole.
Patched(row, c) ==
    [row EXCEPT !.nick = IF c.nick = Unset THEN @ ELSE c.nick,
                !.due = IF c.due = NoDay THEN @ ELSE c.due]

GetByIDForUser(s, c) ==
    /\ Serving(s, "load", c)
    /\ IF cards[c.card].state # "live" THEN Refuses(s, 404)
       ELSE IF c.nick = TooLong THEN Refuses(s, 400)
       ELSE /\ http' = [http EXCEPT ![s].pc = "write", ![s].row = Patched(cards[c.card], c)]
            /\ UNCHANGED <<cards, posts, record, wrote>>

UpdateByIDForUser(s, c) ==
    /\ Serving(s, "write", c) /\ c.op = "update"
    /\ IF cards[c.card].state # "live" THEN Refuses(s, 404)
       ELSE IF Taken(http[s].row.nick, c.card) THEN Refuses(s, 409)
       ELSE Commit(s, [cards EXCEPT ![c.card] = http[s].row], 200)

SoftDeleteCard(s, c) ==
    /\ Serving(s, "write", c) /\ c.op = "delete"
    /\ IF cards[c.card].state # "live" THEN Refuses(s, 404)
       ELSE Commit(s, [cards EXCEPT ![c.card].state = "deleted"], 204)

\* POST /api/v1/transactions without an origin: CreateTransaction does not
\* look at the key in its context.
CreateTransaction(s, c) ==
    /\ Serving(s, "write", c) /\ c.op = "post transaction"
    /\ posts[c.key] < MaxPosts
    /\ posts' = [posts EXCEPT ![c.key] = @ + 1]
    /\ wrote' = [wrote EXCEPT ![c.key] = @ \cup {RequestHash(c)}]
    /\ Respond(s, 201)
    /\ UNCHANGED <<cards, record>>

-----------------------------------------------------------------------------
RequestsNext ==
    \/ \E s \in HttpSlots : Answer(s) \/ Breaks(s)
    \/ \E s \in HttpSlots, c \in Calls :
          \/ Middleware(s, c) \/ GetByIDForUser(s, c)
          \/ \E i \in CardIds : CreateCard(s, c, i)
          \/ UpdateByIDForUser(s, c) \/ SoftDeleteCard(s, c) \/ CreateTransaction(s, c)
    \/ \E k \in ApiKeys : Expires(k)

RequestsSpec == RequestsInit /\ [][RequestsNext]_requestsVars

-----------------------------------------------------------------------------
CardRows == [state : {"absent", "live", "deleted"}, nick : Nicknames \cup {Unset},
             due : DueDays \cup {NoDay}]
Hashes == (Nicknames \cup {Unset, TooLong}) \X (DueDays \cup {NoDay})

\* The types of the tables and of the requests in progress.
RequestsTypeOK ==
    /\ cards \in [CardIds -> CardRows]
    /\ posts \in [ApiKeys -> 0..MaxPosts]
    /\ record \in [ApiKeys -> [found : BOOLEAN, fresh : BOOLEAN, hash : Hashes, status : Nat]]
    /\ http \in [HttpSlots -> [pc : {"idle", "load", "write", "answer"}, call : Calls,
                               row : CardRows, status : Nat, late : BOOLEAN]]
    /\ wrote \in [ApiKeys -> SUBSET Hashes]

WritesAgain(s) == http[s].pc = "answer" /\ http[s].status \in Success /\ http[s].late

\* A client that repeats a request of a card, after its write committed, the
\* answer lost or not, the key expired or not, does not write a second time.
\* (Two copies under way at once may both write.)
KeyWritesOnce ==
    \A s \in HttpSlots : http[s].call \in CardCalls => ~WritesAgain(s)

\* Copies that are under way at once, and copies that come after the record
\* expired, only ever write under a key what the key was recorded for.
KeyMeansOneBody ==
    \A k \in CardKeys : wrote[k] \subseteq (IF record[k].found THEN {record[k].hash} ELSE {})

\* "Replay devolve resposta cacheada se request_hash bater": repeating a
\* request of the transactions writes no second one.
RepeatedPostIsReplayed ==
    \A s \in HttpSlots : http[s].call.op = "post transaction" => ~WritesAgain(s)
=============================================================================
