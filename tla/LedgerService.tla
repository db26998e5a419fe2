----------------------------- MODULE LedgerService -----------------------------
(***************************************************************************)
(* POST /ledger-entries and POST /ledger-entries/{id}/reversals of the     *)
(* transaction service: IdempotencyService.execute around                  *)
(* LedgerService.create and LedgerService.reverse, each call one           *)
(* READ COMMITTED PostgreSQL transaction on one pooled connection.         *)
(*                                                                         *)
(* A member of Tx is one attempt to serve a request, hence one database    *)
(* transaction; the entry it may post carries its id (the code draws a     *)
(* random UUID).  Clients retry by having another attempt serve the same   *)
(* request, at any time: after an answer, after a lost one, or while the   *)
(* first attempt still runs.                                               *)
(***************************************************************************)
EXTENDS LedgerImpact, FiniteSets, FiniteSetsExt

CONSTANTS
  Tx,                       \* attempts; also the ids of the entries they post
  Users, Keys,              \* callers and Idempotency-Key values
  Accounts, Owner, Currency,              \* accounts, compared like their UUIDs
  Categories, CategoryOwner, CategoryKind,
  NoAccount, NoCategory, NoEntry, NoRequest,             \* nulls
  Requests,                 \* the requests clients may send
  LegacyRecords,            \* idempotency rows written before operation scopes
  PoolSize,                 \* DB_MAX_POOL_SIZE connections
  MinBalance, MaxBalance,   \* range of a balance (64 bits in the code)
  Now                       \* the clock, at the resolution of a period

CreateBody ==
  [entryType : EntryType, accountId : Accounts, categoryId : Categories \cup {NoCategory},
   amountMinor : Nat \ {0}, occurredAt : Int, transferAccountId : Accounts \cup {NoAccount}]

CreateRequest  == [userId : Users, operation : {"create"}, key : Keys, body : CreateBody]
ReverseRequest == [userId : Users, operation : {"reverse"}, key : Keys, body : Tx]

(* scopedKey hashes the operation with the client's key; a legacy row has  *)
(* the client's key as it came.                                            *)
scopedKey(request) == <<request.operation, request.key>>
rawKey(request)    == <<"raw", request.key>>

ASSUME ConstantsAssumption ==
  /\ Accounts \subseteq Int /\ IsFiniteSet(Accounts)
  /\ Owner \in [Accounts -> Users]
  /\ CategoryOwner \in [Categories -> Users]
  /\ CategoryKind \in [Categories -> {"INCOME", "EXPENSE"}]
  /\ DOMAIN Currency = Accounts
  /\ NoAccount \notin Accounts /\ NoCategory \notin Categories
  /\ NoEntry \notin Tx
  /\ Requests \subseteq CreateRequest \cup ReverseRequest
  /\ NoRequest \notin Requests
  /\ MinBalance \in Int /\ MaxBalance \in Int /\ Now \in Int
  /\ MinBalance <= 0 /\ 0 <= MaxBalance
  /\ \A rec \in LegacyRecords :
       rec.userId \in Users /\ rec.key \in {"raw"} \X Keys /\ rec.entryId \notin Tx
  /\ \A rec, other \in LegacyRecords :               \* their primary key
       rec.userId = other.userId /\ rec.key = other.key => rec = other

VARIABLES
  balance,       \* accounts.balance_minor, committed
  entries,       \* committed rows of ledger_entries
  outbox,        \* committed rows of outbox (their events)
  idempotency,   \* committed rows of idempotency_keys
  pc,            \* where each attempt is
  call,          \* the request it serves
  held,          \* the locks its transaction holds
  seen,          \* the balances it read when it locked the account rows
  answer         \* what its client was told

tables == <<balance, entries, outbox, idempotency>>
vars   == <<balance, entries, outbox, idempotency, pc, call, held, seen, answer>>

(***************************************************************************)
(* Locks are held to the end of the transaction: the advisory lock on the  *)
(* key, and the rows read with PESSIMISTIC_WRITE.                          *)
(***************************************************************************)
keyLock(request) == <<"key", request.userId, scopedKey(request)>>
entryLock(id)    == <<"entry", id>>
accountLock(a)   == <<"account", a>>

Acquire(t, lock) ==
  /\ \A u \in Tx \ {t} : lock \notin held[u]
  /\ held' = [held EXCEPT ![t] = @ \cup {lock}]

NoAnswer      == [code |-> "none", entryId |-> NoEntry]
Created(id)   == [code |-> "CREATED", entryId |-> id]
Refused(code) == [code |-> code, entryId |-> NoEntry]

(* The transaction ends, by commit or by rollback, and its client hears.   *)
Finish(t, response) ==
  /\ pc' = [pc EXCEPT ![t] = "done"]
  /\ answer' = [answer EXCEPT ![t] = response]
  /\ held' = [held EXCEPT ![t] = {}]
  /\ UNCHANGED <<call, seen>>

(* An exception rolls everything back; failures are never recorded.        *)
Fail(t, code) ==
  /\ Finish(t, Refused(code))
  /\ UNCHANGED tables

Goto(t, next) == pc' = [pc EXCEPT ![t] = next]
--------------------------------------------------------------------------------
Init ==
  /\ balance = [a \in Accounts |-> 0]
  /\ entries = {}
  /\ outbox = {}
  /\ idempotency = LegacyRecords
  /\ pc = [t \in Tx |-> "idle"]
  /\ call = [t \in Tx |-> NoRequest]
  /\ held = [t \in Tx |-> {}]
  /\ seen = [t \in Tx |-> [a \in Accounts |-> 0]]
  /\ answer = [t \in Tx |-> NoAnswer]

Running == {t \in Tx : pc[t] \notin {"idle", "done"}}

(* The controller enters execute; @Transactional takes a pooled connection.*)
Begin(t, request) ==
  /\ pc[t] = "idle"
  /\ Cardinality(Running) < PoolSize
  /\ Goto(t, "lockKey")
  /\ call' = [call EXCEPT ![t] = request]
  /\ UNCHANGED <<tables, held, seen, answer>>

(* Mutant: the key is looked up without its advisory lock.                 *)
LockKeyForgotten(t) ==
  /\ pc[t] = "lockKey"
  /\ Goto(t, "lookUp")
  /\ UNCHANGED <<tables, call, held, seen, answer>>

(* pg_advisory_xact_lock blocks until no other transaction holds the key.  *)
LockKey(t) ==
  /\ pc[t] = "lockKey"
  /\ Acquire(t, keyLock(call[t]))
  /\ Goto(t, "lookUp")
  /\ UNCHANGED <<tables, call, seen, answer>>

findById(userId, key) ==
  {rec \in idempotency : rec.userId = userId /\ rec.key = key}

(* Mutant: rows written under the scoped key are not found again.          *)
existingRawOnly(request) == findById(request.userId, rawKey(request))

(* Mutant: rows of the time before scopes are not looked for any more.     *)
existingScopedOnly(request) == findById(request.userId, scopedKey(request))

(* The scoped row, or else the row of the time before scopes.              *)
existing(request) ==
  LET scoped == findById(request.userId, scopedKey(request))
  IN  IF scoped # {} THEN scoped ELSE findById(request.userId, rawKey(request))

(* Mutant: the hash of the stored request is not compared.                 *)
ReplayAnyRequest(t) ==
  /\ pc[t] = "lookUp"
  /\ \E rec \in existing(call[t]) : Finish(t, Created(rec.entryId))
  /\ UNCHANGED tables

(* The stored response is replayed to a request with the stored hash.      *)
ReplayStored(t) ==
  /\ pc[t] = "lookUp"
  /\ \E rec \in existing(call[t]) :
       /\ rec.hash = call[t].body
       /\ Finish(t, Created(rec.entryId))
  /\ UNCHANGED tables

RejectKeyReuse(t) ==
  /\ pc[t] = "lookUp"
  /\ \E rec \in existing(call[t]) : rec.hash # call[t].body
  /\ Fail(t, "IDEMPOTENCY_KEY_REUSE")

(* The checks of create that need no lock: categories never change.        *)
acceptable(request) ==
  LET body == request.body
      category == body.categoryId
  IN  /\ body.entryType # "REVERSAL"
      /\ category # NoCategory =>
           /\ CategoryOwner[category] = request.userId
           /\ body.entryType = CategoryKind[category]
      /\ body.entryType = "TRANSFER" =>
           body.transferAccountId \notin {NoAccount, body.accountId}

RefuseCreate(t) ==
  /\ pc[t] = "lookUp" /\ existing(call[t]) = {}
  /\ call[t].operation = "create" /\ ~acceptable(call[t])
  /\ Fail(t, "INVALID_REQUEST")

StartCreate(t) ==
  /\ pc[t] = "lookUp" /\ existing(call[t]) = {}
  /\ call[t].operation = "create" /\ acceptable(call[t])
  /\ Goto(t, "lockAccounts")
  /\ UNCHANGED <<tables, call, held, seen, answer>>

StartReverse(t) ==
  /\ pc[t] = "lookUp" /\ existing(call[t]) = {}
  /\ call[t].operation = "reverse"
  /\ Goto(t, "lockEntry")
  /\ UNCHANGED <<tables, call, held, seen, answer>>
--------------------------------------------------------------------------------
(* findByIdAndUserIdForUpdate on ledger_entries.                           *)
ownEntries(request) ==
  {e \in entries : e.id = request.body /\ e.userId = request.userId}

EntryNotFound(t) ==
  /\ pc[t] = "lockEntry"
  /\ ownEntries(call[t]) = {}
  /\ Fail(t, "ENTRY_NOT_FOUND")

LockEntry(t) ==
  /\ pc[t] = "lockEntry"
  /\ ownEntries(call[t]) # {}
  /\ Acquire(t, entryLock(call[t].body))
  /\ Goto(t, "checkEntry")
  /\ UNCHANGED <<tables, call, seen, answer>>

original(t) == CHOOSE e \in entries : e.id = call[t].body

existsByReversesEntryId(id) == \E e \in entries : e.reversesEntryId = id

RefuseReversalOfReversal(t) ==
  /\ pc[t] = "checkEntry"
  /\ original(t).entryType = "REVERSAL"
  /\ Fail(t, "CANNOT_REVERSE_REVERSAL")

(* Mutant: instead of answering 409, look the request up again.            *)
AlreadyReversedRetried(t) ==
  /\ pc[t] = "checkEntry"
  /\ original(t).entryType # "REVERSAL"
  /\ existsByReversesEntryId(call[t].body)
  /\ Goto(t, "lookUp")
  /\ UNCHANGED <<tables, call, held, seen, answer>>

AlreadyReversed(t) ==
  /\ pc[t] = "checkEntry"
  /\ original(t).entryType # "REVERSAL"
  /\ existsByReversesEntryId(call[t].body)
  /\ Fail(t, "ALREADY_REVERSED")

NotReversed(t) ==
  /\ pc[t] = "checkEntry"
  /\ original(t).entryType # "REVERSAL"
  /\ ~existsByReversesEntryId(call[t].body)
  /\ Goto(t, "lockAccounts")
  /\ UNCHANGED <<tables, call, held, seen, answer>>
--------------------------------------------------------------------------------
(* The movement of money: the entry requested, or the one to be undone.    *)
movement(t) ==
  IF call[t].operation = "create" THEN call[t].body ELSE original(t)

unlocked(t) == {a \in accountsOf(movement(t)) : accountLock(a) \notin held[t]}

(* Mutant: the accounts are locked in whatever order they come.            *)
isNextInAnyOrder(t, a) == a \in unlocked(t)

(* lockAccounts takes the lower id first.                                  *)
isNext(t, a) == a \in unlocked(t) /\ \A b \in unlocked(t) : a <= b

AccountNotFound(t, a) ==
  /\ pc[t] = "lockAccounts" /\ isNext(t, a)
  /\ Owner[a] # call[t].userId
  /\ Fail(t, "ACCOUNT_NOT_FOUND")

(* Mutant: findByIdAndUserId instead of findByIdAndUserIdForUpdate.         *)
ReadAccount(t, a) ==
  /\ pc[t] = "lockAccounts" /\ isNext(t, a)
  /\ Owner[a] = call[t].userId
  /\ held' = [held EXCEPT ![t] = @ \cup {accountLock(a)}]
  /\ seen' = [seen EXCEPT ![t][a] = balance[a]]
  /\ UNCHANGED <<tables, pc, call, answer>>

(* SELECT ... FOR NO KEY UPDATE returns the committed row it locked.       *)
LockAccount(t, a) ==
  /\ pc[t] = "lockAccounts" /\ isNext(t, a)
  /\ Owner[a] = call[t].userId
  /\ Acquire(t, accountLock(a))
  /\ seen' = [seen EXCEPT ![t][a] = balance[a]]
  /\ UNCHANGED <<tables, pc, call, answer>>

(* Only create compares: the accounts of a posted transfer share theirs.   *)
sameCurrency(t) ==
  call[t].operation = "create" =>
    \A a, b \in accountsOf(movement(t)) : Currency[a] = Currency[b]

CurrencyMismatch(t) ==
  /\ pc[t] = "lockAccounts" /\ unlocked(t) = {}
  /\ ~sameCurrency(t)
  /\ Fail(t, "CURRENCY_MISMATCH")

(* Mutant: a reversal leaves the target of a transfer alone.               *)
newBalanceOneSided(t, a) ==
  IF call[t].operation = "create"
  THEN seen[t][a] + balanceDelta(movement(t), a)
  ELSE seen[t][a] - creditDelta(movement(t), a)

(* applyDelta, on the balance the transaction read.                        *)
newBalance(t, a) ==
  IF call[t].operation = "create"
  THEN seen[t][a] + balanceDelta(movement(t), a)
  ELSE seen[t][a] - balanceDelta(movement(t), a)

(* Mutant: only the account debited is added up exactly.                   *)
inRangeOfDebit(t) ==
  newBalance(t, movement(t).accountId) \in MinBalance .. MaxBalance

inRange(t) ==
  \A a \in accountsOf(movement(t)) : newBalance(t, a) \in MinBalance .. MaxBalance

(* Math.addExact throws, if need be after the first account of a transfer. *)
Overflow(t) ==
  /\ pc[t] = "lockAccounts" /\ unlocked(t) = {} /\ sameCurrency(t)
  /\ ~inRange(t)
  /\ Fail(t, "OVERFLOW")

entryOf(t) ==
  IF call[t].operation = "create"
  THEN [id |-> t, userId |-> call[t].userId,
        accountId |-> call[t].body.accountId, categoryId |-> call[t].body.categoryId,
        entryType |-> call[t].body.entryType, amountMinor |-> call[t].body.amountMinor,
        occurredAt |-> call[t].body.occurredAt,
        transferAccountId |-> call[t].body.transferAccountId,
        reversesEntryId |-> NoEntry]
  ELSE [original(t) EXCEPT !.id = t, !.userId = call[t].userId, !.entryType = "REVERSAL",
                           !.occurredAt = Now, !.reversesEntryId = original(t).id]

(* Mutant: a reversal is announced in the period it was made in.           *)
eventOfToday(t) ==
  LET from == movement(t)
      impact == forPostedEntry(from.entryType, from.amountMinor,
                               from.categoryId # NoCategory)
  IN  payload(entryOf(t),
              IF call[t].operation = "create" THEN impact ELSE inverse(impact),
              from.categoryId, entryOf(t).occurredAt)

(* enqueuePostedEvent: a reversal is announced as the exact opposite, in   *)
(* the period of the entry it undoes.                                      *)
eventOf(t) ==
  LET from == movement(t)
      impact == forPostedEntry(from.entryType, from.amountMinor,
                               from.categoryId # NoCategory)
  IN  payload(entryOf(t),
              IF call[t].operation = "create" THEN impact ELSE inverse(impact),
              from.categoryId, from.occurredAt)

recordOf(t) ==
  [userId |-> call[t].userId, key |-> scopedKey(call[t]),
   hash |-> call[t].body, entryId |-> t]

(* uq_ledger_entries_reverses_entry and the key of idempotency_keys.       *)
violatesConstraint(t) ==
  \/ call[t].operation = "reverse" /\ existsByReversesEntryId(call[t].body)
  \/ findById(call[t].userId, scopedKey(call[t])) # {}

ready(t) ==
  pc[t] = "lockAccounts" /\ unlocked(t) = {} /\ sameCurrency(t) /\ inRange(t)

(* Mutant: the idempotency row is written once the answer got through.     *)
WriteThenRecord(t) ==
  /\ balance' = [a \in Accounts |->
                   IF a \in accountsOf(movement(t)) THEN newBalance(t, a) ELSE balance[a]]
  /\ entries' = entries \cup {entryOf(t)}
  /\ outbox' = outbox \cup {eventOf(t)}
  /\ \/ Finish(t, Created(t)) /\ idempotency' = idempotency \cup {recordOf(t)}
     \/ Finish(t, Refused("LOST")) /\ UNCHANGED idempotency

(* Balances, entry, outbox row and idempotency row become visible together.*)
(* The answer may be lost on its way to the client.                        *)
Write(t) ==
  /\ balance' = [a \in Accounts |->
                   IF a \in accountsOf(movement(t)) THEN newBalance(t, a) ELSE balance[a]]
  /\ entries' = entries \cup {entryOf(t)}
  /\ outbox' = outbox \cup {eventOf(t)}
  /\ idempotency' = idempotency \cup {recordOf(t)}
  /\ \E response \in {Created(t), Refused("LOST")} : Finish(t, response)

(* The last flush either meets a constraint or goes through.               *)
Commit(t) ==
  /\ ready(t)
  /\ IF violatesConstraint(t) THEN Fail(t, "CONSTRAINT") ELSE Write(t)

(* The process or its connection dies before the commit: PostgreSQL rolls  *)
(* back and the client gets no answer.                                     *)
ConnectionLost(t) ==
  /\ t \in Running
  /\ Fail(t, "LOST")
--------------------------------------------------------------------------------
(* The steps the server takes on its own once a request is running.        *)
Step(t) ==
  \/ LockKey(t)      \/ ReplayStored(t)    \/ RejectKeyReuse(t)
  \/ RefuseCreate(t) \/ StartCreate(t)     \/ StartReverse(t)
  \/ EntryNotFound(t) \/ LockEntry(t)      \/ RefuseReversalOfReversal(t)
  \/ AlreadyReversed(t) \/ NotReversed(t)
  \/ \E a \in Accounts : AccountNotFound(t, a) \/ LockAccount(t, a)
  \/ CurrencyMismatch(t) \/ Overflow(t) \/ Commit(t)

Terminating == (\A t \in Tx : pc[t] = "done") /\ UNCHANGED vars

Next ==
  \/ \E t \in Tx : \/ \E request \in Requests : Begin(t, request)
                   \/ Step(t)
                   \/ ConnectionLost(t)
  \/ Terminating

Spec == Init /\ [][Next]_vars

(* A running thread keeps running; no client has to call, nothing has to   *)
(* crash.  Lock queues are served.                                         *)
FairSpec == Spec /\ \A t \in Tx : WF_vars(Step(t))
--------------------------------------------------------------------------------
(* The record sets behind the tables.                                      *)
Entry ==
  [id : Tx, userId : Users, accountId : Accounts, categoryId : Categories \cup {NoCategory},
   entryType : EntryType, amountMinor : Nat \ {0}, occurredAt : Int,
   transferAccountId : Accounts \cup {NoAccount}, reversesEntryId : Tx \cup {NoEntry}]

Locks ==
  {keyLock(request) : request \in Requests} \cup {entryLock(t) : t \in Tx}
    \cup {accountLock(a) : a \in Accounts}

Locations == {"idle", "lockKey", "lookUp", "lockEntry", "checkEntry", "lockAccounts", "done"}

(* Every variable has its type.                                            *)
TypeOK ==
  /\ balance \in [Accounts -> MinBalance .. MaxBalance]
  /\ entries \subseteq Entry
  /\ LegacyRecords \subseteq idempotency
  /\ \A rec \in idempotency \ LegacyRecords :
       rec.userId \in Users /\ rec.key \in {"create", "reverse"} \X Keys /\ rec.entryId \in Tx
  /\ pc \in [Tx -> Locations]
  /\ call \in [Tx -> Requests \cup {NoRequest}]
  /\ held \in [Tx -> SUBSET Locks]
  /\ seen \in [Tx -> [Accounts -> MinBalance .. MaxBalance]]
  /\ DOMAIN answer = Tx

(***************************************************************************)
(* No lost update: a balance read under an account lock is the committed   *)
(* balance for as long as the lock is held (AccountRepository's            *)
(* PESSIMISTIC_WRITE query, LedgerService.lockAccounts).                   *)
(***************************************************************************)
ReadsStayCurrent ==
  \A t \in Tx, a \in Accounts : accountLock(a) \in held[t] => seen[t][a] = balance[a]

(***************************************************************************)
(* The balance of an account is the sum of what its entries did: entries   *)
(* that were reversed count for nothing, and only once.                    *)
(***************************************************************************)
BalancesMatchEntries ==
  LET reversed == {e.reversesEntryId : e \in entries}
      counted  == {e \in entries : e.entryType # "REVERSAL" /\ e.id \notin reversed}
  IN  \A a \in Accounts :
        balance[a] = MapThenSumSet(LAMBDA e : balanceDelta(e, a), counted)

(***************************************************************************)
(* A request posts at most one entry, however often and however            *)
(* concurrently its client retries it with the same Idempotency-Key.       *)
(***************************************************************************)
sameKey(t, u) ==
  /\ call[t] # NoRequest /\ call[u] # NoRequest
  /\ call[t].userId = call[u].userId
  /\ scopedKey(call[t]) = scopedKey(call[u])

posted(t) == \E e \in entries : e.id = t

OnePostingPerKey ==
  \A t, u \in Tx : posted(t) /\ posted(u) /\ sameKey(t, u) => t = u

(* What a request came to, or its key had before operations had scopes:    *)
(* entries, each with the request it was made or answered for.             *)
outcomes(t) ==
  (IF answer[t].code = "CREATED" THEN {<<call[t].body, answer[t].entryId>>} ELSE {})
    \cup (IF posted(t) THEN {<<call[t].body, t>>} ELSE {})
    \cup {<<rec.hash, rec.entryId>> :
            rec \in {r \in LegacyRecords : r.userId = call[t].userId /\ r.key = rawKey(call[t])}}

(***************************************************************************)
(* All that is posted and answered under one key is one entry for one      *)
(* request: a retry never hears of somebody else's post, and a key spent   *)
(* before scopes replays its entry and posts nothing, in any operation.    *)
(***************************************************************************)
SameKeySameAnswer ==
  \A t, u \in Tx :
    sameKey(t, u) => \A a \in outcomes(t), b \in outcomes(u) : a = b

(***************************************************************************)
(* Once a request has posted, no attempt to repeat it is told of a         *)
(* conflict: the retry of a reversal whose answer was lost is replayed,    *)
(* never refused as ALREADY_REVERSED.                                      *)
(***************************************************************************)
RetryNeverConflicts ==
  \A t, u \in Tx :
    posted(t) /\ sameKey(t, u) /\ call[t].body = call[u].body
      => answer[u].code \notin {"ALREADY_REVERSED", "IDEMPOTENCY_KEY_REUSE"}

(***************************************************************************)
(* The locks decide every race before the database has to: neither the     *)
(* unique index on reverses_entry_id nor the primary key of                *)
(* idempotency_keys ever turns a lost race into a 500.                     *)
(***************************************************************************)
BackstopsNeverFire == \A t \in Tx : answer[t].code # "CONSTRAINT"

(***************************************************************************)
(* Transactions never wait for each other in a circle: the key first, then *)
(* the entry, then the accounts from the lower id to the higher.           *)
(***************************************************************************)
wants(t) ==
  CASE pc[t] = "lockKey"      -> {keyLock(call[t])}
    [] pc[t] = "lockEntry"    -> {entryLock(call[t].body)}
    [] pc[t] = "lockAccounts" -> {accountLock(a) : a \in {b \in unlocked(t) : isNext(t, b)}}
    [] OTHER                  -> {}

NoWaitCycle ==
  \A S \in (SUBSET Tx) \ {{}} : \E t \in S : \A u \in S : wants(t) \cap held[u] = {}

(* Every request is answered, unless its connection dies, which ends it    *)
(* too: no transaction waits for a lock for ever.                          *)
EveryCallEnds == \A t \in Tx : pc[t] # "idle" ~> pc[t] = "done"

(***************************************************************************)
(* The concurrent transactions implement the ledger whose every posting is *)
(* one indivisible step: they are serializable, and exact.                 *)
(***************************************************************************)
Atomic == INSTANCE Ledger WITH balance <- balance, entries <- entries, outbox <- outbox,
                               idempotency <- idempotency
ImplementsLedger == Atomic!Spec
================================================================================
