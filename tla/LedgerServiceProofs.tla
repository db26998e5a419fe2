-------------------------- MODULE LedgerServiceProofs --------------------------
(***************************************************************************)
(* Proofs about LedgerService, for any number of attempts, users, keys,    *)
(* accounts and requests and any range of balances: its types, that locked *)
(* reads stay current, that locks decide every race before a constraint of *)
(* the database has to, that the transactions implement the atomic Ledger, *)
(* that every balance is the sum of its entries, that a key posts one      *)
(* entry and gets one answer, that a retry is never told of a conflict     *)
(* with itself, and that no transactions wait for each other in a circle.  *)
(***************************************************************************)
EXTENDS LedgerService, SumTheorems

(***************************************************************************)
(* The inductive invariant.  A lock has one holder; a transaction past     *)
(* LockKey holds its key, past LockEntry the entry it is to reverse; what  *)
(* it found under a lock (no record, no reversal, a balance) is still so.  *)
(***************************************************************************)
OneHolder == \A t, u \in Tx : t # u => held[t] \cap held[u] = {}

EntriesSound ==
  /\ \A e \in entries : /\ pc[e.id] = "done"
                        /\ e.entryType = "TRANSFER" => e.transferAccountId \in Accounts
  /\ \A e, f \in entries : e.id = f.id => e = f

isReverse(t) == call[t].operation = "reverse"

Called(t) == pc[t] # "idle" => call[t] \in Requests

KeyHeld(t) ==
  pc[t] \in {"lookUp", "lockEntry", "checkEntry", "lockAccounts"} =>
    keyLock(call[t]) \in held[t]

KeyUnused(t) ==
  pc[t] \in {"lockEntry", "checkEntry", "lockAccounts"} =>
    findById(call[t].userId, scopedKey(call[t])) = {}

reversing(t) == pc[t] = "checkEntry" \/ (pc[t] = "lockAccounts" /\ isReverse(t))

EntryHeld(t) ==
  /\ pc[t] \in {"lockEntry", "checkEntry"} => isReverse(t)
  /\ reversing(t) => entryLock(call[t].body) \in held[t] /\ ownEntries(call[t]) # {}

StillStanding(t) ==
  pc[t] = "lockAccounts" /\ isReverse(t) =>
    original(t).entryType # "REVERSAL" /\ ~existsByReversesEntryId(call[t].body)

Accepted(t) == pc[t] = "lockAccounts" /\ ~isReverse(t) => acceptable(call[t])

CurrentReads(t) == \A a \in Accounts : accountLock(a) \in held[t] => seen[t][a] = balance[a]

Attempt(t) ==
  /\ Called(t) /\ KeyHeld(t) /\ KeyUnused(t) /\ EntryHeld(t)
  /\ StillStanding(t) /\ Accepted(t) /\ CurrentReads(t)

IInv == TypeOK /\ OneHolder /\ EntriesSound /\ \A t \in Tx : Attempt(t)
--------------------------------------------------------------------------------
LEMMA RequestTypes ==
  ASSUME NEW request \in Requests
  PROVE  /\ request.userId \in Users /\ request.key \in Keys
         /\ request.operation \in {"create", "reverse"}
         /\ request.operation = "create" => request.body \in CreateBody
         /\ request.operation = "reverse" => request.body \in Tx
  BY ConstantsAssumption DEF CreateRequest, ReverseRequest

(* The entry a transaction reverses is the one with the id it was given.   *)
LEMMA OriginalEntry ==
  ASSUME IInv, NEW t \in Tx, reversing(t)
  PROVE  /\ original(t) \in entries /\ original(t) \in Entry
         /\ original(t).id = call[t].body /\ original(t).userId = call[t].userId
<1>1. PICK e \in entries : e.id = call[t].body /\ e.userId = call[t].userId
  BY DEF IInv, Attempt, EntryHeld, ownEntries
<1>2. original(t) \in entries /\ original(t).id = call[t].body
  BY <1>1 DEF original
<1>3. original(t) = e
  BY <1>1, <1>2 DEF IInv, EntriesSound
<1> QED
  BY <1>1, <1>2, <1>3 DEF IInv, TypeOK

(* Locks of different kinds, or on different rows, are different locks.    *)
LEMMA LocksDiffer ==
  /\ \A a, b : accountLock(a) = accountLock(b) => a = b
  /\ \A a, b : entryLock(a) = entryLock(b) => a = b
  /\ \A a, b : accountLock(a) # entryLock(b)
  /\ \A a, r : accountLock(a) # keyLock(r)
  /\ \A a, r : entryLock(a) # keyLock(r)
  /\ \A q, r : keyLock(q) = keyLock(r) => q.userId = r.userId /\ scopedKey(q) = scopedKey(r)
  BY DEF accountLock, entryLock, keyLock

LEMMA NothingHeldAlone ==
  ASSUME IInv, NEW t \in Tx, NEW lock, Acquire(t, lock)
  PROVE  /\ OneHolder'
         /\ held'[t] = held[t] \cup {lock}
         /\ \A u \in Tx \ {t} : held'[u] = held[u]
         /\ \A u \in Tx : held[u] \subseteq held'[u]
  BY DEF IInv, TypeOK, OneHolder, Acquire

(* A transaction keeps what it relies on while the tables stay as they are.*)
LEMMA Frame ==
  ASSUME NEW u \in Tx, Attempt(u), UNCHANGED tables,
         pc'[u] = pc[u], call'[u] = call[u], held'[u] = held[u], seen'[u] = seen[u]
  PROVE  Attempt(u)'
<1> USE DEF tables, isReverse
<1>1. Called(u)' /\ KeyHeld(u)' /\ KeyUnused(u)'
  BY DEF Attempt, Called, KeyHeld, KeyUnused, findById, keyLock, scopedKey
<1>2. EntryHeld(u)'
  BY DEF Attempt, EntryHeld, reversing, ownEntries
<1>3. original(u)' = original(u)
  BY DEF original
<1>4. StillStanding(u)'
  BY <1>3 DEF Attempt, StillStanding, existsByReversesEntryId
<1>5. Accepted(u)' /\ CurrentReads(u)'
  BY DEF Attempt, Accepted, acceptable, CurrentReads
<1> QED
  BY <1>1, <1>2, <1>4, <1>5 DEF Attempt

(* Steps of one transaction that write no table.                           *)
LEMMA LocalStep ==
  ASSUME IInv, NEW t \in Tx, UNCHANGED tables, TypeOK', OneHolder', pc[t] # "done",
         \A u \in Tx \ {t} : /\ pc'[u] = pc[u] /\ call'[u] = call[u]
                             /\ held'[u] = held[u] /\ seen'[u] = seen[u],
         Attempt(t)'
  PROVE  IInv'
<1>1. \A u \in Tx : Attempt(u)'
  BY Frame DEF IInv
<1>2. EntriesSound'
  BY DEF IInv, EntriesSound, tables, TypeOK, Entry
<1> QED
  BY <1>1, <1>2 DEF IInv

(* A transaction that ends without writing leaves nothing behind.          *)
LEMMA FinishKeeps ==
  ASSUME IInv, NEW t \in Tx, pc[t] \notin {"idle", "done"}, NEW response,
         Finish(t, response), UNCHANGED tables
  PROVE  IInv'
<1>1. TypeOK'
  BY DEF IInv, TypeOK, Finish, tables, Locations
<1>2. OneHolder'
  BY DEF IInv, TypeOK, OneHolder, Finish
<1>3. pc'[t] = "done" /\ held'[t] = {} /\ call'[t] = call[t] /\ call[t] \in Requests
  BY DEF IInv, TypeOK, Finish, Attempt, Called
<1>4. Attempt(t)'
  BY <1>3 DEF Attempt, Called, KeyHeld, KeyUnused, EntryHeld, reversing, StillStanding,
              Accepted, CurrentReads
<1> QED
  BY <1>1, <1>2, <1>4, LocalStep DEF Finish, IInv, TypeOK
--------------------------------------------------------------------------------
(* The steps up to the commit.                                             *)
LEMMA BeginKeeps ==
  ASSUME IInv, NEW t \in Tx, NEW request \in Requests, Begin(t, request)
  PROVE  IInv'
<1>1. TypeOK' /\ OneHolder'
  BY DEF IInv, TypeOK, OneHolder, Begin, Goto, tables, Locations
<1>2. /\ pc'[t] = "lockKey" /\ call'[t] = request /\ held'[t] = held[t]
      /\ seen'[t] = seen[t] /\ balance' = balance
  BY DEF IInv, TypeOK, Begin, Goto, tables
<1>3. Attempt(t)'
  BY <1>2 DEF IInv, Attempt, Called, KeyHeld, KeyUnused, EntryHeld, reversing, StillStanding,
              Accepted, CurrentReads
<1> QED
  BY <1>1, <1>3, LocalStep DEF Begin, Goto, IInv, TypeOK

LEMMA LockKeyKeeps == ASSUME IInv, NEW t \in Tx, LockKey(t) PROVE IInv'
<1>1. OneHolder' /\ held'[t] = held[t] \cup {keyLock(call[t])}
  BY NothingHeldAlone DEF LockKey
<1>2. /\ pc'[t] = "lookUp" /\ call' = call /\ seen' = seen /\ balance' = balance
      /\ call[t] \in Requests
  BY DEF IInv, TypeOK, LockKey, Goto, tables, Attempt, Called
<1>3. TypeOK'
  <2>1. keyLock(call[t]) \in Locks
    BY <1>2 DEF Locks
  <2> QED
    BY <1>2, <2>1 DEF IInv, TypeOK, LockKey, Acquire, Goto, tables, Locations
<1>4. KeyHeld(t)' /\ CurrentReads(t)'
  BY <1>1, <1>2, LocksDiffer DEF IInv, Attempt, KeyHeld, CurrentReads, keyLock, scopedKey
<1>5. Attempt(t)'
  BY <1>2, <1>4 DEF Attempt, Called, KeyUnused, EntryHeld, reversing, StillStanding, Accepted
<1> QED
  BY <1>1, <1>3, <1>5, LocalStep DEF LockKey, Acquire, Goto, IInv, TypeOK

LEMMA StartKeeps == ASSUME IInv, NEW t \in Tx, StartCreate(t) \/ StartReverse(t) PROVE IInv'
<1>1. TypeOK' /\ OneHolder'
  BY DEF IInv, TypeOK, OneHolder, StartCreate, StartReverse, Goto, tables, Locations
<1>2. /\ pc[t] = "lookUp" /\ call' = call /\ held' = held /\ seen' = seen
      /\ UNCHANGED tables
      /\ \/ pc'[t] = "lockAccounts" /\ ~isReverse(t) /\ acceptable(call[t])
         \/ pc'[t] = "lockEntry" /\ isReverse(t)
  BY DEF IInv, TypeOK, StartCreate, StartReverse, Goto, isReverse
<1>3. findById(call[t].userId, scopedKey(call[t])) = {}
  BY DEF StartCreate, StartReverse, existing
<1>4. Called(t)' /\ KeyHeld(t)' /\ KeyUnused(t)'
  BY <1>2, <1>3 DEF IInv, Attempt, Called, KeyHeld, KeyUnused, findById, tables, keyLock, scopedKey
<1>5. EntryHeld(t)' /\ StillStanding(t)' /\ Accepted(t)' /\ CurrentReads(t)'
  BY <1>2 DEF IInv, Attempt, EntryHeld, reversing, isReverse, StillStanding, Accepted,
              acceptable, CurrentReads, tables
<1>6. Attempt(t)'
  BY <1>4, <1>5 DEF Attempt
<1> QED
  BY <1>1, <1>2, <1>6, LocalStep DEF StartCreate, StartReverse, Goto, IInv, TypeOK

LEMMA LockEntryKeeps == ASSUME IInv, NEW t \in Tx, LockEntry(t) PROVE IInv'
<1>1. OneHolder' /\ held'[t] = held[t] \cup {entryLock(call[t].body)}
  BY NothingHeldAlone DEF LockEntry
<1>2. /\ pc[t] = "lockEntry" /\ pc'[t] = "checkEntry" /\ call' = call /\ seen' = seen
      /\ UNCHANGED tables /\ ownEntries(call[t]) # {} /\ isReverse(t)
      /\ call[t] \in Requests
  BY DEF IInv, TypeOK, LockEntry, Goto, Attempt, Called, EntryHeld
<1>3. entryLock(call[t].body) \in Locks
  BY <1>2, RequestTypes DEF isReverse, Locks
<1>4. TypeOK'
  BY <1>2, <1>3 DEF IInv, TypeOK, LockEntry, Acquire, Goto, tables, Locations
<1>5. Called(t)' /\ KeyHeld(t)' /\ KeyUnused(t)'
  BY <1>1, <1>2 DEF IInv, Attempt, Called, KeyHeld, KeyUnused, findById, tables, keyLock, scopedKey
<1>6. EntryHeld(t)' /\ StillStanding(t)' /\ Accepted(t)' /\ CurrentReads(t)'
  BY <1>1, <1>2, LocksDiffer
     DEF IInv, Attempt, EntryHeld, reversing, isReverse, ownEntries, StillStanding, Accepted,
         CurrentReads, tables
<1>7. Attempt(t)'
  BY <1>5, <1>6 DEF Attempt
<1> QED
  BY <1>1, <1>2, <1>4, <1>7, LocalStep DEF LockEntry, Acquire, Goto, IInv, TypeOK

LEMMA NotReversedKeeps == ASSUME IInv, NEW t \in Tx, NotReversed(t) PROVE IInv'
<1>1. TypeOK' /\ OneHolder'
  BY DEF IInv, TypeOK, OneHolder, NotReversed, Goto, tables, Locations
<1>2. /\ pc[t] = "checkEntry" /\ pc'[t] = "lockAccounts" /\ call' = call /\ held' = held
      /\ seen' = seen /\ UNCHANGED tables /\ isReverse(t)
      /\ original(t).entryType # "REVERSAL" /\ ~existsByReversesEntryId(call[t].body)
  BY DEF IInv, TypeOK, NotReversed, Goto, Attempt, EntryHeld
<1>3. Called(t)' /\ KeyHeld(t)' /\ KeyUnused(t)'
  BY <1>2 DEF IInv, Attempt, Called, KeyHeld, KeyUnused, findById, tables, keyLock, scopedKey
<1>4. EntryHeld(t)' /\ Accepted(t)' /\ CurrentReads(t)'
  BY <1>2 DEF IInv, Attempt, EntryHeld, reversing, isReverse, ownEntries, Accepted,
              CurrentReads, tables
<1>5. StillStanding(t)'
  BY <1>2 DEF StillStanding, original, existsByReversesEntryId, tables
<1>6. Attempt(t)'
  BY <1>3, <1>4, <1>5 DEF Attempt
<1> QED
  BY <1>1, <1>2, <1>6, LocalStep DEF NotReversed, Goto, IInv, TypeOK

LEMMA LockAccountKeeps ==
  ASSUME IInv, NEW t \in Tx, NEW a \in Accounts, LockAccount(t, a)
  PROVE  IInv'
<1>1. OneHolder' /\ held'[t] = held[t] \cup {accountLock(a)}
  BY NothingHeldAlone DEF LockAccount
<1>2. /\ pc[t] = "lockAccounts" /\ pc' = pc /\ call' = call /\ UNCHANGED tables
      /\ seen' = [seen EXCEPT ![t][a] = balance[a]]
  BY DEF IInv, TypeOK, LockAccount
<1>3. TypeOK'
  <2>1. accountLock(a) \in Locks
    BY DEF Locks
  <2>2. balance[a] \in MinBalance .. MaxBalance
    BY DEF IInv, TypeOK
  <2>3. held' \in [Tx -> SUBSET Locks]
    BY <2>1 DEF IInv, TypeOK, LockAccount, Acquire
  <2>4. seen' \in [Tx -> [Accounts -> MinBalance .. MaxBalance]]
    BY <1>2, <2>2 DEF IInv, TypeOK
  <2> QED
    BY <1>2, <2>3, <2>4 DEF IInv, TypeOK, LockAccount, tables
<1>4. Called(t)' /\ KeyHeld(t)' /\ KeyUnused(t)'
  BY <1>1, <1>2 DEF IInv, Attempt, Called, KeyHeld, KeyUnused, findById, tables, keyLock, scopedKey
<1>5. EntryHeld(t)' /\ Accepted(t)'
  BY <1>1, <1>2 DEF IInv, Attempt, EntryHeld, reversing, isReverse, ownEntries, Accepted,
                    acceptable, tables
<1>6. StillStanding(t)'
  BY <1>2 DEF IInv, Attempt, StillStanding, isReverse, original, existsByReversesEntryId, tables
<1>7. CurrentReads(t)'
  BY <1>1, <1>2, LocksDiffer DEF IInv, TypeOK, Attempt, CurrentReads, tables
<1>8. Attempt(t)'
  BY <1>4, <1>5, <1>6, <1>7 DEF Attempt
<1> QED
  BY <1>1, <1>2, <1>3, <1>8, LocalStep DEF LockAccount, Acquire, IInv, TypeOK
--------------------------------------------------------------------------------
(* The commit: first what is known of a transaction that is ready for it.  *)
LEMMA MovementType ==
  ASSUME IInv, NEW t \in Tx, pc[t] = "lockAccounts"
  PROVE  /\ movement(t).accountId \in Accounts
         /\ movement(t).entryType \in EffectTypes
         /\ movement(t).amountMinor \in Nat \ {0}
         /\ movement(t).entryType = "TRANSFER" => movement(t).transferAccountId \in Accounts
         /\ accountsOf(movement(t)) \subseteq Accounts
<1>1. call[t] \in Requests
  BY DEF IInv, Attempt, Called
<1>2. CASE isReverse(t)
  <2>1. original(t) \in entries /\ original(t) \in Entry
    BY <1>2, OriginalEntry DEF reversing
  <2>2. original(t).entryType # "REVERSAL"
    BY <1>2 DEF IInv, Attempt, StillStanding
  <2>3. original(t).entryType = "TRANSFER" => original(t).transferAccountId \in Accounts
    BY <2>1 DEF IInv, EntriesSound
  <2>4. movement(t) = original(t)
    BY <1>2 DEF movement, isReverse
  <2> QED
    BY <2>1, <2>2, <2>3, <2>4 DEF Entry, EntryType, EffectTypes, accountsOf
<1>3. CASE ~isReverse(t)
  <2>1. acceptable(call[t]) /\ call[t].body \in CreateBody /\ movement(t) = call[t].body
    BY <1>1, <1>3, RequestTypes DEF IInv, Attempt, Accepted, isReverse, movement
  <2> QED
    BY <2>1 DEF acceptable, CreateBody, EntryType, EffectTypes, accountsOf
<1> QED
  BY <1>2, <1>3

LEMMA DeltaType ==
  ASSUME IInv, NEW t \in Tx, pc[t] = "lockAccounts", NEW a \in Accounts
  PROVE  /\ balanceDelta(movement(t), a) \in Int
         /\ a \notin accountsOf(movement(t)) => balanceDelta(movement(t), a) = 0
  BY MovementType DEF balanceDelta, creditDelta, accountsOf

LEMMA ReadyBalances ==
  ASSUME IInv, NEW t \in Tx, ready(t), NEW a \in accountsOf(movement(t))
  PROVE  /\ a \in Accounts /\ accountLock(a) \in held[t] /\ seen[t][a] = balance[a]
         /\ newBalance(t, a) \in MinBalance .. MaxBalance
<1>1. a \in Accounts
  BY MovementType DEF ready
<1>2. accountLock(a) \in held[t]
  BY DEF ready, unlocked
<1>3. seen[t][a] = balance[a]
  BY <1>1, <1>2 DEF IInv, Attempt, CurrentReads
<1> QED
  BY <1>1, <1>2, <1>3 DEF ready, inRange

LEMMA ReadyEntry ==
  ASSUME IInv, NEW t \in Tx, ready(t)
  PROVE  /\ entryOf(t) \in Entry /\ entryOf(t).id = t /\ entryOf(t).userId = call[t].userId
         /\ entryOf(t).entryType = "TRANSFER" => entryOf(t).transferAccountId \in Accounts
         /\ entryOf(t).reversesEntryId = IF isReverse(t) THEN call[t].body ELSE NoEntry
         /\ isReverse(t) => entryOf(t).entryType = "REVERSAL"
         /\ ~isReverse(t) => entryOf(t).entryType = call[t].body.entryType
         /\ \A e \in entries : e.id # t
<1>1. call[t] \in Requests /\ pc[t] = "lockAccounts"
  BY DEF IInv, Attempt, Called, ready
<1>2. \A e \in entries : e.id # t
  BY <1>1 DEF IInv, EntriesSound
<1>3. CASE isReverse(t)
  <2>1. original(t) \in Entry /\ original(t).id = call[t].body
    BY <1>1, <1>3, OriginalEntry DEF reversing
  <2>2. entryOf(t) = [original(t) EXCEPT !.id = t, !.userId = call[t].userId,
                        !.entryType = "REVERSAL", !.occurredAt = Now,
                        !.reversesEntryId = call[t].body]
    BY <1>3, <2>1 DEF entryOf, isReverse
  <2>3. call[t].body \in Tx /\ call[t].userId \in Users
    BY <1>1, <1>3, RequestTypes DEF isReverse
  <2>4. Now \in Int /\ "REVERSAL" \in EntryType
    BY ConstantsAssumption DEF EntryType
  <2>5. PICK o \in Entry : o = original(t)
    BY <2>1
  <2>6. entryOf(t) = [id |-> t, userId |-> call[t].userId, accountId |-> o.accountId,
                      categoryId |-> o.categoryId, entryType |-> "REVERSAL",
                      amountMinor |-> o.amountMinor, occurredAt |-> Now,
                      transferAccountId |-> o.transferAccountId,
                      reversesEntryId |-> call[t].body]
    BY <2>2, <2>5 DEF Entry
  <2>7. entryOf(t) \in Entry
    BY <2>3, <2>4, <2>5, <2>6 DEF Entry
  <2> QED
    BY <1>2, <1>3, <2>6, <2>7
<1>4. CASE ~isReverse(t)
  <2>1. /\ call[t].operation = "create" /\ call[t].body \in CreateBody
        /\ call[t].userId \in Users
    BY <1>1, <1>4, RequestTypes DEF isReverse
  <2>2. acceptable(call[t])
    BY <1>1, <1>4 DEF IInv, Attempt, Accepted
  <2> QED
    BY <1>2, <1>4, <2>1, <2>2 DEF entryOf, Entry, CreateBody, acceptable
<1> QED
  BY <1>3, <1>4

(***************************************************************************)
(* The constraints of the database have nothing left to decide.            *)
(***************************************************************************)
LEMMA ReadyIsFree == ASSUME IInv, NEW t \in Tx, ready(t) PROVE ~violatesConstraint(t)
<1>1. pc[t] = "lockAccounts"
  BY DEF ready
<1>2. findById(call[t].userId, scopedKey(call[t])) = {}
  BY <1>1 DEF IInv, Attempt, KeyUnused
<1>3. isReverse(t) => ~existsByReversesEntryId(call[t].body)
  BY <1>1 DEF IInv, Attempt, StillStanding
<1> QED
  BY <1>2, <1>3 DEF violatesConstraint, isReverse

(* The tables after a commit are well formed.                              *)
LEMMA WriteTables ==
  ASSUME IInv, NEW t \in Tx, ready(t), Write(t)
  PROVE  TypeOK' /\ OneHolder' /\ EntriesSound'
<1>1. call[t] \in Requests /\ pc[t] = "lockAccounts"
  BY DEF IInv, Attempt, Called, ready
<1>2. balance' \in [Accounts -> MinBalance .. MaxBalance]
  BY ReadyBalances DEF Write, IInv, TypeOK
<1>3. entries' \subseteq Entry
  BY ReadyEntry DEF Write, IInv, TypeOK
<1>4. /\ LegacyRecords \subseteq idempotency'
      /\ \A rec \in idempotency' \ LegacyRecords :
           /\ rec.userId \in Users /\ rec.key \in {"create", "reverse"} \X Keys
           /\ rec.entryId \in Tx
  <2>1. /\ recordOf(t).userId \in Users /\ recordOf(t).entryId \in Tx
        /\ recordOf(t).key \in {"create", "reverse"} \X Keys
    BY <1>1, RequestTypes DEF recordOf, scopedKey
  <2> QED
    BY <2>1 DEF Write, IInv, TypeOK
<1>5. /\ pc' = [pc EXCEPT ![t] = "done"] /\ held' = [held EXCEPT ![t] = {}]
      /\ call' = call /\ seen' = seen /\ DOMAIN answer' = Tx
  BY DEF Write, Finish, IInv, TypeOK
<1>6. TypeOK'
  BY <1>2, <1>3, <1>4, <1>5 DEF IInv, TypeOK, Locations
<1>7. OneHolder'
  BY <1>5 DEF IInv, TypeOK, OneHolder
<1>8. EntriesSound'
  BY <1>5, ReadyEntry DEF Write, IInv, TypeOK, Entry, EntriesSound
<1> QED
  BY <1>6, <1>7, <1>8

(* It changes nothing another transaction relies on: whatever that one     *)
(* relies on, it holds the lock of.                                        *)
LEMMA WriteDisturbsNobody ==
  ASSUME IInv, NEW t \in Tx, ready(t), Write(t), NEW u \in Tx \ {t}
  PROVE  Attempt(u)'
<1> DEFINE rec == recordOf(t)
<1>1. /\ pc'[u] = pc[u] /\ call' = call /\ held'[u] = held[u] /\ seen' = seen
      /\ entries' = entries \cup {entryOf(t)} /\ idempotency' = idempotency \cup {rec}
  BY DEF Write, Finish, IInv, TypeOK
<1>2. held[t] \cap held[u] = {}
  BY DEF IInv, OneHolder
<1>3. pc[t] = "lockAccounts" /\ Attempt(u) /\ Attempt(t) /\ call[t] \in Requests
  BY DEF IInv, Attempt, Called, ready
<1>4. Called(u)' /\ KeyHeld(u)'
  BY <1>1, <1>3 DEF Attempt, Called, KeyHeld, keyLock, scopedKey
<1>5. KeyUnused(u)'
  <2> SUFFICES ASSUME pc[u] \in {"lockEntry", "checkEntry", "lockAccounts"},
                      rec.userId = call[u].userId, rec.key = scopedKey(call[u])
               PROVE  FALSE
    BY <1>1, <1>3 DEF Attempt, KeyUnused, findById, scopedKey
  <2>1. keyLock(call[t]) = keyLock(call[u])
    BY DEF recordOf, keyLock
  <2>2. keyLock(call[t]) \in held[t] /\ keyLock(call[u]) \in held[u]
    BY <1>3 DEF Attempt, KeyHeld
  <2> QED
    BY <1>2, <2>1, <2>2
<1>6. EntryHeld(u)' /\ Accepted(u)'
  BY <1>1, <1>3 DEF Attempt, EntryHeld, reversing, isReverse, ownEntries, Accepted, acceptable
<1>7. StillStanding(u)'
  <2> SUFFICES ASSUME pc[u] = "lockAccounts", isReverse(u)
               PROVE  /\ original(u)'.entryType # "REVERSAL"
                      /\ ~existsByReversesEntryId(call[u].body)'
    BY <1>1 DEF StillStanding, isReverse
  <2>1. original(u) \in entries /\ original(u).id = call[u].body
    BY OriginalEntry DEF reversing
  <2>2. \A e \in entries' : e.id = call[u].body => e = original(u)
    BY <2>1, WriteTables, <1>1 DEF EntriesSound
  <2>3. original(u)' = original(u)
    BY <1>1, <2>1, <2>2 DEF original
  <2>4. original(u).entryType # "REVERSAL" /\ ~existsByReversesEntryId(call[u].body)
    BY <1>3 DEF Attempt, StillStanding
  <2>5. entryOf(t).reversesEntryId # call[u].body
    <3>1. CASE isReverse(t)
      <4>1. /\ entryLock(call[t].body) \in held[t]
            /\ entryLock(call[u].body) \in held[u]
        BY <1>3, <3>1 DEF Attempt, EntryHeld, reversing
      <4> QED
        BY <1>2, <3>1, <4>1, ReadyEntry
    <3>2. CASE ~isReverse(t)
      <4>1. call[u].body \in Tx
        BY <1>3, RequestTypes DEF Attempt, Called, isReverse
      <4> QED
        BY <3>2, <4>1, ReadyEntry, ConstantsAssumption
    <3> QED
      BY <3>1, <3>2
  <2> QED
    BY <1>1, <2>3, <2>4, <2>5 DEF existsByReversesEntryId
<1>8. CurrentReads(u)'
  <2> SUFFICES ASSUME NEW a \in Accounts, accountLock(a) \in held[u]
               PROVE  seen[u][a] = balance'[a]
    BY <1>1 DEF CurrentReads
  <2>1. a \notin accountsOf(movement(t))
    BY <1>2, ReadyBalances
  <2> QED
    BY <1>3, <2>1 DEF Write, Attempt, CurrentReads
<1> QED
  BY <1>4, <1>5, <1>6, <1>7, <1>8 DEF Attempt

LEMMA WriteKeeps == ASSUME IInv, NEW t \in Tx, ready(t), Write(t) PROVE IInv'
<1>1. pc'[t] = "done" /\ held'[t] = {} /\ call'[t] \in Requests
  BY DEF Write, Finish, ready, IInv, TypeOK, Attempt, Called
<1>2. Attempt(t)'
  BY <1>1 DEF Attempt, Called, KeyHeld, KeyUnused, EntryHeld, reversing, StillStanding,
              Accepted, CurrentReads
<1> QED
  BY <1>2, WriteTables, WriteDisturbsNobody DEF IInv
--------------------------------------------------------------------------------
LEMMA InitIInv == Init => IInv
<1> SUFFICES ASSUME Init PROVE IInv
  OBVIOUS
<1>1. TypeOK
  BY ConstantsAssumption DEF Init, TypeOK, Locations
<1>2. OneHolder /\ EntriesSound
  BY DEF Init, OneHolder, EntriesSound
<1>3. \A t \in Tx : Attempt(t)
  BY DEF Init, Attempt, Called, KeyHeld, KeyUnused, EntryHeld, reversing, StillStanding,
         Accepted, CurrentReads
<1> QED
  BY <1>1, <1>2, <1>3 DEF IInv

(***************************************************************************)
(* Every step keeps the invariant.  All refusals, replays and lost         *)
(* connections end the transaction without a write.                        *)
(***************************************************************************)
LEMMA StepKeeps == ASSUME IInv, [Next]_vars PROVE IInv'
<1>1. ASSUME NEW t \in Tx, NEW request \in Requests, Begin(t, request) PROVE IInv'
  BY <1>1, BeginKeeps
<1>2. ASSUME NEW t \in Tx,
             \/ LockKey(t) \/ StartCreate(t) \/ StartReverse(t) \/ LockEntry(t)
             \/ NotReversed(t) \/ \E a \in Accounts : LockAccount(t, a)
      PROVE  IInv'
  BY <1>2, LockKeyKeeps, StartKeeps, LockEntryKeeps, NotReversedKeeps, LockAccountKeeps
<1>3. ASSUME NEW t \in Tx, ReplayStored(t) PROVE IInv'
  BY <1>3, FinishKeeps DEF ReplayStored
<1>4. ASSUME NEW t \in Tx,
             \/ RejectKeyReuse(t) \/ RefuseCreate(t) \/ EntryNotFound(t)
             \/ RefuseReversalOfReversal(t) \/ AlreadyReversed(t)
             \/ \E a \in Accounts : AccountNotFound(t, a)
             \/ CurrencyMismatch(t) \/ Overflow(t) \/ ConnectionLost(t)
      PROVE  IInv'
  <2>1. pc[t] \notin {"idle", "done"} /\ \E code : Fail(t, code)
    BY <1>4 DEF RejectKeyReuse, RefuseCreate, EntryNotFound, RefuseReversalOfReversal,
                AlreadyReversed, AccountNotFound, CurrencyMismatch, Overflow, ConnectionLost,
                Running
  <2> QED
    BY <2>1, FinishKeeps DEF Fail
<1>5. ASSUME NEW t \in Tx, Commit(t) PROVE IInv'
  BY <1>5, ReadyIsFree, WriteKeeps DEF Commit
<1>6. CASE UNCHANGED vars
  <2>1. UNCHANGED tables /\ UNCHANGED <<pc, call, held, seen, answer>>
    BY <1>6 DEF vars, tables
  <2>2. TypeOK' /\ OneHolder' /\ EntriesSound'
    BY <2>1 DEF IInv, TypeOK, OneHolder, EntriesSound, tables
  <2> QED
    BY <2>1, <2>2, Frame DEF IInv
<1> QED
  BY <1>1, <1>2, <1>3, <1>4, <1>5, <1>6 DEF Next, Step, Terminating

(* The invariant the results below rest on holds in every state.           *)
THEOREM Invariance == Spec => []IInv
  BY InitIInv, StepKeeps, PTL DEF Spec

(***************************************************************************)
(* Every variable keeps its type; in particular no balance ever leaves its *)
(* range, although a transfer adds up two of them (addExact).              *)
(***************************************************************************)
THEOREM TypeCorrect == Spec => []TypeOK
  BY Invariance, PTL DEF IInv

(***************************************************************************)
(* No lost update, however many transactions share accounts: a balance     *)
(* read under its row lock is the committed one until the lock is gone.    *)
(***************************************************************************)
THEOREM LockedReadsStayCurrent == Spec => []ReadsStayCurrent
<1>1. IInv => ReadsStayCurrent
  BY DEF IInv, Attempt, CurrentReads, ReadsStayCurrent
<1> QED
  BY <1>1, Invariance, PTL

(***************************************************************************)
(* The key and row locks decide every race: no constraint of the database  *)
(* is ever the one to stop a double posting or a double reversal.          *)
(***************************************************************************)
THEOREM ConstraintsNeverDecide == Spec => []BackstopsNeverFire
<1>1. Init => BackstopsNeverFire
  BY DEF Init, BackstopsNeverFire, NoAnswer
<1>2. IInv /\ BackstopsNeverFire /\ [Next]_vars => BackstopsNeverFire'
  <2> SUFFICES ASSUME IInv, BackstopsNeverFire, [Next]_vars PROVE BackstopsNeverFire'
    OBVIOUS
  <2>1. ASSUME NEW t \in Tx, NEW response, response.code # "CONSTRAINT", Finish(t, response)
        PROVE  BackstopsNeverFire'
    BY <2>1 DEF Finish, BackstopsNeverFire, IInv, TypeOK
  <2>2. CASE answer' = answer
    BY <2>2 DEF BackstopsNeverFire
  <2>3. ASSUME NEW t \in Tx, Step(t) \/ ConnectionLost(t), answer' # answer
        PROVE  \E response : response.code # "CONSTRAINT" /\ Finish(t, response)
    BY <2>3, ReadyIsFree
       DEF Step, LockKey, ReplayStored, RejectKeyReuse, RefuseCreate, StartCreate, StartReverse,
           EntryNotFound, LockEntry, RefuseReversalOfReversal, AlreadyReversed, NotReversed,
           AccountNotFound, LockAccount, CurrencyMismatch, Overflow, Commit, Write,
           ConnectionLost, Fail, Created, Refused
  <2> QED
    BY <2>1, <2>2, <2>3 DEF Next, Begin, Terminating, vars
<1> QED
  BY <1>1, <1>2, Invariance, PTL DEF Spec
--------------------------------------------------------------------------------
(* Refinement.  The operators of LedgerImpact mean the same in Ledger.     *)
LEMMA SameArithmetic ==
  /\ \A e, a : Atomic!balanceDelta(e, a) = balanceDelta(e, a)
  /\ \A type, amount, categorized :
       Atomic!forPostedEntry(type, amount, categorized) = forPostedEntry(type, amount, categorized)
  /\ \A impact : Atomic!inverse(impact) = inverse(impact)
  /\ \A e, impact, name, at :
       Atomic!payload(e, impact, name, at) = payload(e, impact, name, at)
<1>1. \A e, a : Atomic!balanceDelta(e, a) = balanceDelta(e, a)
  BY Zenon DEF balanceDelta, creditDelta, Atomic!balanceDelta, Atomic!creditDelta
<1>2. \A type, amount, categorized :
        Atomic!forPostedEntry(type, amount, categorized) = forPostedEntry(type, amount, categorized)
  BY Zenon DEF forPostedEntry, Atomic!forPostedEntry
<1>3. \A impact : Atomic!inverse(impact) = inverse(impact)
  BY Zenon DEF inverse, Atomic!inverse
<1>4. \A e, impact, name, at :
        Atomic!payload(e, impact, name, at) = payload(e, impact, name, at)
  <2>1. \A at : Atomic!YEAR_MONTH(at) = YEAR_MONTH(at)
    BY DEF YEAR_MONTH, Atomic!YEAR_MONTH
  <2> QED
    BY <2>1, Zenon DEF payload, Atomic!payload
<1> QED
  BY <1>1, <1>2, <1>3, <1>4

(* A commit moves each balance by the movement's delta, or by its opposite.*)
LEMMA WriteMovesMoney ==
  ASSUME IInv, NEW t \in Tx, ready(t), Write(t), NEW a \in Accounts
  PROVE  LET d == IF isReverse(t) THEN -balanceDelta(movement(t), a)
                                  ELSE balanceDelta(movement(t), a)
         IN  balance[a] + d \in MinBalance .. MaxBalance /\ balance'[a] = balance[a] + d
<1> DEFINE d == IF isReverse(t) THEN -balanceDelta(movement(t), a)
                                ELSE balanceDelta(movement(t), a)
<1>1. /\ balance[a] \in MinBalance .. MaxBalance /\ balance[a] \in Int
      /\ balanceDelta(movement(t), a) \in Int
      /\ a \notin accountsOf(movement(t)) => balanceDelta(movement(t), a) = 0
  BY ConstantsAssumption, DeltaType DEF IInv, TypeOK, ready
<1>2. balance'[a] = IF a \in accountsOf(movement(t)) THEN newBalance(t, a) ELSE balance[a]
  BY DEF Write
<1>3. CASE a \in accountsOf(movement(t))
  <2>1. seen[t][a] = balance[a] /\ newBalance(t, a) \in MinBalance .. MaxBalance
    BY <1>3, ReadyBalances
  <2>2. call[t].operation \in {"create", "reverse"}
    BY RequestTypes DEF IInv, Attempt, Called, ready
  <2>3. newBalance(t, a) = balance[a] + d
    BY <1>1, <2>1, <2>2 DEF newBalance, isReverse
  <2> QED
    BY <1>2, <1>3, <2>1, <2>3
<1>4. CASE a \notin accountsOf(movement(t))
  BY <1>1, <1>2, <1>4
<1> QED
  BY <1>3, <1>4

(* The rows a commit adds are new, and its idempotency key was not spent.  *)
LEMMA WriteRecords ==
  ASSUME IInv, NEW t \in Tx, ready(t), Write(t)
  PROVE  /\ entryOf(t) \in entries' \ entries
         /\ recordOf(t) \in idempotency' \ idempotency
         /\ Atomic!Record(entryOf(t), recordOf(t))
<1>1. entries' = entries \cup {entryOf(t)} /\ idempotency' = idempotency \cup {recordOf(t)}
  BY DEF Write
<1>2. /\ entryOf(t).id = t /\ entryOf(t).userId = call[t].userId
      /\ \A e \in entries : e.id # t
  BY ReadyEntry
<1>3. /\ recordOf(t).userId = call[t].userId /\ recordOf(t).key = scopedKey(call[t])
      /\ recordOf(t).entryId = t
  BY DEF recordOf
<1>4. \A r \in idempotency : ~(r.userId = call[t].userId /\ r.key = scopedKey(call[t]))
  BY DEF IInv, Attempt, KeyUnused, ready, findById
<1> QED
  BY <1>1, <1>2, <1>3, <1>4 DEF Atomic!Record, Atomic!isNewEntry

(* Posting and reversing are the atomic ledger's.                          *)
LEMMA WritePosts ==
  ASSUME IInv, NEW t \in Tx, ready(t), Write(t), ~isReverse(t)
  PROVE  Atomic!Post(entryOf(t), recordOf(t))
<1> DEFINE body == call[t].body
<1>1. /\ call[t] \in Requests /\ pc[t] = "lockAccounts" /\ call[t].operation = "create"
      /\ movement(t) = body
  BY RequestTypes DEF IInv, Attempt, Called, ready, isReverse, movement
<1>2. /\ entryOf(t).entryType = body.entryType /\ entryOf(t).accountId = body.accountId
      /\ entryOf(t).amountMinor = body.amountMinor
      /\ entryOf(t).categoryId = body.categoryId
      /\ entryOf(t).occurredAt = body.occurredAt
      /\ entryOf(t).transferAccountId = body.transferAccountId
      /\ entryOf(t).reversesEntryId = NoEntry
  BY <1>1 DEF entryOf
<1>3. body.entryType \in EffectTypes
  BY <1>1, MovementType
<1>4. \A a \in Accounts : balanceDelta(entryOf(t), a) = balanceDelta(movement(t), a)
  BY <1>1, <1>2, Zenon DEF balanceDelta, creditDelta
<1>5. Atomic!MoveMoney([a \in Accounts |-> balanceDelta(entryOf(t), a)])
  <2>1. balance' = [a \in Accounts |-> balance'[a]]
    BY WriteTables DEF TypeOK
  <2>2. \A a \in Accounts : /\ balance[a] + balanceDelta(entryOf(t), a) \in MinBalance .. MaxBalance
                            /\ balance'[a] = balance[a] + balanceDelta(entryOf(t), a)
    BY <1>4, WriteMovesMoney
  <2> QED
    BY <2>1, <2>2 DEF Atomic!MoveMoney
<1>6. outbox' = outbox \cup
        {payload(entryOf(t),
                 forPostedEntry(entryOf(t).entryType, entryOf(t).amountMinor,
                                entryOf(t).categoryId # NoCategory),
                 entryOf(t).categoryId, entryOf(t).occurredAt)}
  BY <1>1, <1>2 DEF Write, eventOf
<1> QED
  BY <1>2, <1>3, <1>5, <1>6, WriteRecords, SameArithmetic
     DEF Atomic!Post, Atomic!EffectTypes, EffectTypes

LEMMA WriteReverses ==
  ASSUME IInv, NEW t \in Tx, ready(t), Write(t), isReverse(t)
  PROVE  /\ original(t) \in entries
         /\ Atomic!Reverse(original(t), entryOf(t), recordOf(t))
<1>1. pc[t] = "lockAccounts" /\ reversing(t) /\ movement(t) = original(t)
  BY DEF ready, reversing, isReverse, movement
<1>2. /\ original(t) \in entries /\ original(t).id = call[t].body
      /\ original(t).userId = call[t].userId
  BY <1>1, OriginalEntry
<1>3. Atomic!standing(original(t))
  BY <1>1, <1>2 DEF IInv, Attempt, StillStanding, existsByReversesEntryId, Atomic!standing
<1>4. /\ entryOf(t).entryType = "REVERSAL" /\ entryOf(t).reversesEntryId = original(t).id
      /\ entryOf(t).userId = original(t).userId
  BY <1>2, ReadyEntry
<1>5. Atomic!MoveMoney([a \in Accounts |-> -balanceDelta(original(t), a)])
  <2>1. balance' = [a \in Accounts |-> balance'[a]]
    BY WriteTables DEF TypeOK
  <2>2. \A a \in Accounts : /\ balance[a] + (-balanceDelta(original(t), a)) \in MinBalance .. MaxBalance
                            /\ balance'[a] = balance[a] + (-balanceDelta(original(t), a))
    BY <1>1, WriteMovesMoney
  <2> QED
    BY <2>1, <2>2 DEF Atomic!MoveMoney
<1>6. outbox' = outbox \cup
        {payload(entryOf(t),
                 inverse(forPostedEntry(original(t).entryType, original(t).amountMinor,
                                        original(t).categoryId # NoCategory)),
                 original(t).categoryId, original(t).occurredAt)}
  BY <1>1 DEF Write, eventOf, isReverse
<1> QED
  BY <1>2, <1>3, <1>4, <1>5, <1>6, WriteRecords, SameArithmetic DEF Atomic!Reverse

(* Only the write of a commit changes tables.                              *)
LEMMA OnlyWriteWrites ==
  ASSUME [Next]_vars
  PROVE  UNCHANGED tables \/ \E t \in Tx : ready(t) /\ Write(t)
<1>1. ASSUME NEW t \in Tx, Step(t) \/ ConnectionLost(t), ~UNCHANGED tables
      PROVE  ready(t) /\ Write(t)
  BY <1>1, Zenon
     DEF Step, LockKey, ReplayStored, RejectKeyReuse, RefuseCreate, StartCreate, StartReverse,
         EntryNotFound, LockEntry, RefuseReversalOfReversal, AlreadyReversed, NotReversed,
         AccountNotFound, LockAccount, CurrencyMismatch, Overflow, Commit,
         ConnectionLost, Fail, tables
<1>2. CASE UNCHANGED vars
  BY <1>2 DEF vars, tables
<1>3. ASSUME NEW t \in Tx, NEW request \in Requests, Begin(t, request) PROVE UNCHANGED tables
  BY <1>3 DEF Begin, tables
<1> QED
  BY <1>1, <1>2, <1>3 DEF Next, Terminating

(***************************************************************************)
(* The concurrent transactions implement the ledger of indivisible         *)
(* postings: a commit is one such posting, every other step changes no     *)
(* table.                                                                  *)
(***************************************************************************)
THEOREM ServiceImplementsLedger == Spec => ImplementsLedger
<1>1. Init => Atomic!Init
  BY DEF Init, Atomic!Init
<1>2. IInv /\ [Next]_vars => [Atomic!Next]_(Atomic!vars)
  <2> SUFFICES ASSUME IInv, [Next]_vars PROVE Atomic!Next \/ UNCHANGED Atomic!vars
    OBVIOUS
  <2>1. CASE UNCHANGED tables
    BY <2>1 DEF tables, Atomic!vars
  <2>2. ASSUME NEW t \in Tx, ready(t), Write(t) PROVE Atomic!Next
    BY <2>2, WritePosts, WriteReverses, WriteRecords DEF Atomic!Next
  <2> QED
    BY <2>1, <2>2, OnlyWriteWrites
<1> QED
  BY <1>1, <1>2, Invariance, PTL DEF Spec, ImplementsLedger, Atomic!Spec
--------------------------------------------------------------------------------
(***************************************************************************)
(* Balances are sums of movements.  The entries that count, and what each  *)
(* of them adds to the balance of an account.                              *)
(***************************************************************************)
reversedIds == {e.reversesEntryId : e \in entries}
counted     == {e \in entries : e.entryType # "REVERSAL" /\ e.id \notin reversedIds}
moves(a)    == [e \in Entry |-> balanceDelta(e, a)]

(* What is reversed was posted, and there are only so many entries.        *)
BalanceInv ==
  /\ IsFiniteSet(entries)
  /\ \A e \in entries : e.reversesEntryId = NoEntry \/ posted(e.reversesEntryId)
  /\ \A a \in Accounts : balance[a] = sumOver(moves(a), counted)

LEMMA MovesType == \A a \in Accounts : \A e \in Entry : moves(a)[e] \in Int
  BY DEF moves, Entry, balanceDelta, creditDelta

(* The sum of the property is the sum the theorems on sums speak of.       *)
LEMMA CountedSum ==
  ASSUME IsFiniteSet(entries), entries \subseteq Entry, NEW a \in Accounts
  PROVE  MapThenSumSet(LAMBDA e : balanceDelta(e, a), counted) = sumOver(moves(a), counted)
<1> DEFINE f       == moves(a)
           sums(g) == [s \in SUBSET counted |->
                         IF s = {} THEN 0 ELSE balanceDelta(first(s), a) + g[s \ {first(s)}]]
<1>1. counted \subseteq Entry /\ IsFiniteSet(counted)
  BY FS_Subset DEF counted
<1>2. \A s \in SUBSET counted : s # {} => f[first(s)] = balanceDelta(first(s), a)
  BY <1>1, FirstOfSet DEF moves
<1>3. \A g : g = sums(g) <=> addsUp(f, SUBSET counted, g)
  <2> HIDE DEF f
  <2> QED
    BY <1>2 DEF addsUp, round
<1>4. MapThenSumSet(LAMBDA e : balanceDelta(e, a), counted) = (CHOOSE g : g = sums(g))[counted]
  BY DEF MapThenSumSet, MapThenFoldSet, first
<1>5. sumOver(f, counted) = recursion(f, counted)[counted]
  BY <1>1, SumByRecursion
<1> HIDE DEF f, sums
<1>6. (CHOOSE g : g = sums(g)) = recursion(f, counted)
  BY <1>3 DEF recursion
<1> QED
  BY <1>4, <1>5, <1>6 DEF f

(* A posting counts from now on; a reversal and what it undoes do not.     *)
LEMMA WriteCounts ==
  ASSUME IInv, BalanceInv, NEW t \in Tx, ready(t), Write(t)
  PROVE  /\ isReverse(t) => original(t) \in counted /\ counted' = counted \ {original(t)}
         /\ ~isReverse(t) => entryOf(t) \notin counted /\ counted' = counted \cup {entryOf(t)}
<1>1. /\ entries' = entries \cup {entryOf(t)} /\ pc[t] = "lockAccounts"
      /\ entries \subseteq Entry /\ call[t] \in Requests
  BY DEF Write, ready, IInv, TypeOK, Attempt, Called
<1>2. /\ entryOf(t) \in Entry /\ entryOf(t).id = t /\ \A e \in entries : e.id # t
      /\ entryOf(t).reversesEntryId = IF isReverse(t) THEN call[t].body ELSE NoEntry
      /\ isReverse(t) => entryOf(t).entryType = "REVERSAL"
      /\ ~isReverse(t) => entryOf(t).entryType = call[t].body.entryType
  BY ReadyEntry
<1>3. reversedIds' = reversedIds \cup {entryOf(t).reversesEntryId}
  BY <1>1 DEF reversedIds
<1>4. CASE isReverse(t)
  <2>1. original(t) \in entries /\ original(t).id = call[t].body
    BY <1>1, <1>4, OriginalEntry DEF reversing
  <2>2. original(t).entryType # "REVERSAL" /\ call[t].body \notin reversedIds
    BY <1>1, <1>4 DEF IInv, Attempt, StillStanding, existsByReversesEntryId, reversedIds
  <2>3. \A e \in entries : e.id = call[t].body <=> e = original(t)
    BY <2>1 DEF IInv, EntriesSound
  <2> QED
    BY <1>1, <1>2, <1>3, <1>4, <2>1, <2>2, <2>3 DEF counted
<1>5. CASE ~isReverse(t)
  <2>1. entryOf(t).entryType # "REVERSAL"
    BY <1>1, <1>2, <1>5 DEF IInv, Attempt, Accepted, acceptable
  <2>2. t \notin reversedIds /\ NoEntry \notin Tx
    BY <1>2, ConstantsAssumption DEF BalanceInv, posted, reversedIds
  <2>3. \A e \in entries : e.id \in Tx
    BY <1>1 DEF Entry
  <2> QED
    BY <1>1, <1>2, <1>3, <1>5, <2>1, <2>2, <2>3 DEF counted
<1> QED
  BY <1>4, <1>5

LEMMA WriteBalances ==
  ASSUME IInv, BalanceInv, NEW t \in Tx, ready(t), Write(t)
  PROVE  BalanceInv'
<1>1. /\ entries' = entries \cup {entryOf(t)} /\ pc[t] = "lockAccounts"
      /\ entries \subseteq Entry /\ call[t] \in Requests
  BY DEF Write, ready, IInv, TypeOK, Attempt, Called
<1>2. entryOf(t) \in Entry
  BY ReadyEntry
<1>3. IsFiniteSet(entries') /\ IsFiniteSet(counted) /\ counted \subseteq Entry
  BY <1>1, FS_AddElement, FS_Subset DEF BalanceInv, counted
<1>4. \A e \in entries' : e.reversesEntryId = NoEntry \/ posted(e.reversesEntryId)'
  <2>1. isReverse(t) => posted(call[t].body)
    BY <1>1, OriginalEntry DEF reversing, posted
  <2> QED
    BY <1>1, <2>1, ReadyEntry DEF BalanceInv, posted
<1>5. ASSUME NEW a \in Accounts PROVE balance'[a] = sumOver(moves(a), counted')
  <2>1. \A e \in Entry : moves(a)[e] \in Int /\ moves(a)[e] = balanceDelta(e, a)
    BY MovesType DEF moves
  <2>2. balance[a] = sumOver(moves(a), counted)
    BY DEF BalanceInv
  <2>3. CASE isReverse(t)
    <3>1. original(t) \in counted /\ counted' = counted \ {original(t)}
      BY <2>3, WriteCounts
    <3>2. balance'[a] = balance[a] - balanceDelta(original(t), a)
      <4>1. movement(t) = original(t)
        BY <2>3 DEF movement, isReverse
      <4>2. balanceDelta(original(t), a) \in Int /\ balance[a] \in Int
        BY <1>3, <2>1, <3>1, ConstantsAssumption DEF IInv, TypeOK
      <4>3. balance'[a] = balance[a] + (-balanceDelta(movement(t), a))
        BY <2>3, WriteMovesMoney
      <4> QED
        BY <4>1, <4>2, <4>3
    <3>3. sumOver(moves(a), counted) = sumOver(moves(a), counted') + moves(a)[original(t)]
      BY <1>3, <2>1, <3>1, SumRemove
    <3>4. sumOver(moves(a), counted') \in Int
      <4>1. IsFiniteSet(counted') /\ counted' \subseteq Entry
        BY <1>3, <3>1, FS_Subset
      <4> QED
        BY <2>1, <4>1, SumInt
    <3>5. balanceDelta(original(t), a) \in Int /\ moves(a)[original(t)] = balanceDelta(original(t), a)
      BY <1>3, <2>1, <3>1
    <3> QED
      BY <2>2, <3>2, <3>3, <3>4, <3>5
  <2>4. CASE ~isReverse(t)
    <3>1. entryOf(t) \notin counted /\ counted' = counted \cup {entryOf(t)}
      BY <2>4, WriteCounts
    <3>2. balance'[a] = balance[a] + balanceDelta(entryOf(t), a)
      <4>1. call[t].operation = "create"
        BY <1>1, <2>4, RequestTypes DEF isReverse
      <4>2. /\ movement(t) = call[t].body /\ entryOf(t).entryType = movement(t).entryType
            /\ entryOf(t).accountId = movement(t).accountId
            /\ entryOf(t).amountMinor = movement(t).amountMinor
            /\ entryOf(t).transferAccountId = movement(t).transferAccountId
        BY <4>1 DEF movement, entryOf
      <4>3. balanceDelta(entryOf(t), a) = balanceDelta(movement(t), a)
        BY <4>2, Zenon DEF balanceDelta, creditDelta
      <4> QED
        BY <2>4, <4>3, WriteMovesMoney
    <3>3. sumOver(moves(a), counted') = sumOver(moves(a), counted) + moves(a)[entryOf(t)]
      <4>1. \A e \in counted \cup {entryOf(t)} : moves(a)[e] \in Int
        BY <1>2, <1>3, <2>1
      <4> QED
        BY <1>3, <3>1, <4>1, SumAdd
    <3> QED
      BY <1>2, <2>1, <2>2, <3>2, <3>3
  <2> QED
    BY <2>3, <2>4
<1>6. \A a : moves(a)' = moves(a)
  BY DEF moves
<1> QED
  BY <1>3, <1>4, <1>5, <1>6 DEF BalanceInv

LEMMA BalanceInvariance == Spec => [](IInv /\ BalanceInv)
<1>1. Init => BalanceInv
  <2> SUFFICES ASSUME Init PROVE BalanceInv
    OBVIOUS
  <2>1. entries = {} /\ counted = {} /\ IsFiniteSet(entries)
    BY FS_EmptySet DEF Init, counted
  <2>2. \A a \in Accounts : balance[a] = sumOver(moves(a), counted)
    BY <2>1, SumEmpty DEF Init
  <2> QED
    BY <2>1, <2>2 DEF BalanceInv
<1>2. IInv /\ BalanceInv /\ [Next]_vars => BalanceInv'
  <2> SUFFICES ASSUME IInv, BalanceInv, [Next]_vars PROVE BalanceInv'
    OBVIOUS
  <2>1. CASE UNCHANGED tables
    <3>1. balance' = balance /\ entries' = entries
      BY <2>1 DEF tables
    <3>2. counted' = counted /\ \A a : moves(a)' = moves(a)
      BY <3>1 DEF counted, reversedIds, moves
    <3> QED
      BY <3>1, <3>2 DEF BalanceInv, posted
  <2>2. ASSUME NEW t \in Tx, ready(t), Write(t) PROVE BalanceInv'
    BY <2>2, WriteBalances
  <2> QED
    BY <2>1, <2>2, OnlyWriteWrites
<1> QED
  BY <1>1, <1>2, Invariance, PTL DEF Spec

(***************************************************************************)
(* The balance of every account is the sum of the movements of its entries *)
(* that stand: however postings, reversals, retries and lost connections   *)
(* interleave, none is lost, counted twice, or undone twice.               *)
(***************************************************************************)
THEOREM BalancesAddUp == Spec => []BalancesMatchEntries
<1>1. IInv /\ BalanceInv => BalancesMatchEntries
  <2> SUFFICES ASSUME IInv, BalanceInv PROVE BalancesMatchEntries
    OBVIOUS
  <2>1. \A a \in Accounts :
          balance[a] = MapThenSumSet(LAMBDA e : balanceDelta(e, a), counted)
    BY CountedSum DEF IInv, TypeOK, BalanceInv
  <2> QED
    BY <2>1 DEF BalancesMatchEntries, counted, reversedIds
<1> QED
  BY <1>1, BalanceInvariance, PTL
--------------------------------------------------------------------------------
(***************************************************************************)
(* The rows of idempotency_keys.  A row that is no legacy row is that of   *)
(* the entry it names, and every entry has one; two rows differ in their   *)
(* primary key; where there is a legacy row, no scoped one is added.       *)
(***************************************************************************)
sameRow(r, s) == r.userId = s.userId /\ r.key = s.key

RecordsOK ==
  /\ \A e \in entries : recordOf(e.id) \in idempotency
  /\ \A r \in idempotency \ LegacyRecords : \E e \in entries : r = recordOf(e.id)
  /\ \A r, s \in idempotency : sameRow(r, s) => r = s
  /\ \A e \in entries : findById(call[e.id].userId, rawKey(call[e.id])) = {}

RawUnused(t) ==
  pc[t] \in {"lockEntry", "checkEntry", "lockAccounts"} =>
    findById(call[t].userId, rawKey(call[t])) = {}

(* What an answer says stays so: the row it was made from, the reversal.   *)
Answered(t) ==
  /\ answer[t].code # "none" => pc[t] = "done"
  /\ answer[t].code = "CREATED" =>
       \E r \in existing(call[t]) : r.hash = call[t].body /\ r.entryId = answer[t].entryId
  /\ answer[t].code = "IDEMPOTENCY_KEY_REUSE" =>
       \E r \in existing(call[t]) : r.hash # call[t].body
  /\ answer[t].code = "ALREADY_REVERSED" =>
       isReverse(t) /\ existsByReversesEntryId(call[t].body)

(* Who was refused a reversal has not made it himself.                     *)
NotOwnReversal ==
  \A t, u \in Tx :
    posted(t) /\ sameKey(t, u) /\ call[t].body = call[u].body
      => answer[u].code # "ALREADY_REVERSED"

RetryInv ==
  /\ RecordsOK /\ NotOwnReversal
  /\ \A t \in Tx : RawUnused(t) /\ Answered(t)
--------------------------------------------------------------------------------
(* The keys of the two generations of records never meet.                    *)
LEMMA KeysOfRows ==
  ASSUME IInv
  PROVE  /\ \A r \in idempotency : r.key[1] \in {"raw", "create", "reverse"}
         /\ \A t \in Tx : rawKey(call[t])[1] = "raw"
         /\ \A q \in Requests : scopedKey(q)[1] \in {"create", "reverse"}
<1>1. \A r \in LegacyRecords : r.key[1] = "raw"
  BY ConstantsAssumption
<1>2. \A r \in idempotency \ LegacyRecords : r.key[1] \in {"create", "reverse"}
  BY DEF IInv, TypeOK
<1>3. \A q \in Requests : scopedKey(q)[1] \in {"create", "reverse"}
  BY RequestTypes DEF scopedKey
<1> QED
  BY <1>1, <1>2, <1>3 DEF rawKey

(* A request finds one row at most, and the same as its repetition does.   *)
LEMMA OneExisting ==
  ASSUME RecordsOK, NEW t \in Tx, NEW u \in Tx, sameKey(t, u)
  PROVE  /\ existing(call[t]) = existing(call[u])
         /\ \A r, s \in existing(call[t]) : r = s
<1>1. /\ call[t].userId = call[u].userId /\ scopedKey(call[t]) = scopedKey(call[u])
      /\ rawKey(call[t]) = rawKey(call[u])
  BY DEF sameKey, scopedKey, rawKey
<1>2. existing(call[t]) = existing(call[u])
  BY <1>1 DEF existing
<1>3. \A r, s \in existing(call[t]) : sameRow(r, s) /\ r \in idempotency /\ s \in idempotency
  BY DEF existing, findById, sameRow
<1> QED
  BY <1>2, <1>3 DEF RecordsOK

(* The row of an entry is what a request under its key finds.              *)
LEMMA PostedExisting ==
  ASSUME RecordsOK, NEW t \in Tx, posted(t)
  PROVE  recordOf(t) \in existing(call[t])
  BY DEF RecordsOK, posted, existing, findById, recordOf

(* While nothing is written and calls stay, rows are found as before.      *)
LEMMA QuietStep ==
  ASSUME IInv, RetryInv, UNCHANGED tables,
         NEW t \in Tx, \A u \in Tx \ {t} : /\ pc'[u] = pc[u] /\ call'[u] = call[u]
                                           /\ answer'[u] = answer[u],
         pc[t] # "done", pc[t] = "idle" \/ call'[t] = call[t],
         RawUnused(t)', Answered(t)',
         answer'[t].code = "ALREADY_REVERSED" => existing(call[t]) = {} /\ call'[t] = call[t]
  PROVE  RetryInv'
<1>1. \A e \in entries : e.id \in Tx /\ pc[e.id] = "done"
  BY DEF IInv, TypeOK, EntriesSound, Entry
<1>2. \A e \in entries : e.id # t /\ call'[e.id] = call[e.id]
  BY <1>1
<1>3. RecordsOK'
  BY <1>2 DEF RetryInv, RecordsOK, tables, recordOf, findById, sameRow, scopedKey, rawKey
<1>4. \A u \in Tx \ {t} : RawUnused(u)' /\ Answered(u)'
  <2> SUFFICES ASSUME NEW u \in Tx \ {t} PROVE RawUnused(u)' /\ Answered(u)'
    OBVIOUS
  <2>1. RawUnused(u) /\ Answered(u)
    BY DEF RetryInv
  <2>2. /\ pc'[u] = pc[u] /\ call'[u] = call[u] /\ answer'[u] = answer[u]
        /\ entries' = entries /\ idempotency' = idempotency
    BY DEF tables
  <2>3. existing(call[u])' = existing(call[u])
    BY <2>2 DEF existing, findById, rawKey, scopedKey
  <2>4. RawUnused(u)'
    BY <2>1, <2>2 DEF RawUnused, findById, rawKey
  <2>5. Answered(u)'
    BY <2>1, <2>2, <2>3 DEF Answered, isReverse, existsByReversesEntryId
  <2> QED
    BY <2>4, <2>5
<1>5. NotOwnReversal'
  <2> SUFFICES ASSUME NEW s \in Tx, NEW u \in Tx, posted(s)', sameKey(s, u)',
                      call'[s].body = call'[u].body, answer'[u].code = "ALREADY_REVERSED"
               PROVE  FALSE
    BY DEF NotOwnReversal
  <2>1. posted(s) /\ s # t
    BY <1>2 DEF posted, tables
  <2>2. CASE u = t
    <3>1. sameKey(s, u) /\ existing(call[t]) = {}
      BY <2>1, <2>2 DEF sameKey, scopedKey
    <3> QED
      BY <2>1, <2>2, <3>1, PostedExisting, OneExisting DEF RetryInv
  <2>3. CASE u # t
    BY <2>1, <2>3 DEF RetryInv, NotOwnReversal, sameKey, scopedKey
  <2> QED
    BY <2>2, <2>3
<1> QED
  BY <1>3, <1>4, <1>5 DEF RetryInv

(* A transaction that ends without writing.                                *)
LEMMA FinishAnswers ==
  ASSUME IInv, RetryInv, NEW t \in Tx, pc[t] \notin {"idle", "done"}, NEW response,
         Finish(t, response), UNCHANGED tables,
         response.code = "CREATED" =>
           \E r \in existing(call[t]) : r.hash = call[t].body /\ r.entryId = response.entryId,
         response.code = "IDEMPOTENCY_KEY_REUSE" =>
           \E r \in existing(call[t]) : r.hash # call[t].body,
         response.code = "ALREADY_REVERSED" =>
           /\ isReverse(t) /\ existsByReversesEntryId(call[t].body)
           /\ existing(call[t]) = {}
  PROVE  RetryInv'
<1>1. /\ pc'[t] = "done" /\ answer'[t] = response /\ call' = call
      /\ \A u \in Tx \ {t} : pc'[u] = pc[u] /\ answer'[u] = answer[u]
  BY DEF Finish, IInv, TypeOK
<1>2. RawUnused(t)'
  BY <1>1 DEF RawUnused
<1>3. existing(call[t])' = existing(call[t])
  BY <1>1 DEF tables, existing, findById, scopedKey, rawKey
<1>4. Answered(t)'
  BY <1>1, <1>3 DEF Answered, tables, isReverse, existsByReversesEntryId
<1> QED
  BY <1>1, <1>2, <1>4, QuietStep

(* A transaction that goes on has not been answered yet.                   *)
LEMMA GoesOn ==
  ASSUME IInv, RetryInv, NEW t \in Tx, pc[t] # "done", UNCHANGED <<tables, answer>>,
         \A u \in Tx \ {t} : pc'[u] = pc[u] /\ call'[u] = call[u],
         pc[t] = "idle" \/ call'[t] = call[t], RawUnused(t)'
  PROVE  RetryInv'
<1>1. answer[t].code = "none"
  BY DEF RetryInv, Answered
<1>2. Answered(t)'
  BY <1>1 DEF Answered
<1> QED
  BY <1>1, <1>2, QuietStep DEF tables

(* The steps that leave their transaction open.                              *)
LEMMA StepsGoOn ==
  ASSUME IInv, RetryInv, NEW t \in Tx,
         \/ \E request \in Requests : Begin(t, request)
         \/ LockKey(t) \/ StartCreate(t) \/ StartReverse(t) \/ LockEntry(t)
         \/ NotReversed(t) \/ \E a \in Accounts : LockAccount(t, a)
  PROVE  RetryInv'
<1> USE DEF IInv, TypeOK
<1>1. /\ pc[t] # "done" /\ UNCHANGED <<tables, answer>>
      /\ \A u \in Tx \ {t} : pc'[u] = pc[u] /\ call'[u] = call[u]
      /\ pc[t] = "idle" \/ call'[t] = call[t]
  BY DEF Begin, LockKey, StartCreate, StartReverse, LockEntry, NotReversed, LockAccount, Goto,
         tables
<1>2. RawUnused(t)'
  <2>1. CASE \E request \in Requests : Begin(t, request)
    BY <2>1 DEF Begin, Goto, RawUnused
  <2>2. CASE LockKey(t)
    BY <2>2 DEF LockKey, Goto, RawUnused
  <2>3. CASE StartCreate(t) \/ StartReverse(t)
    <3>1. existing(call[t]) = {} /\ call' = call /\ idempotency' = idempotency
      BY <2>3 DEF StartCreate, StartReverse, tables
    <3> QED
      BY <3>1 DEF existing, RawUnused, findById, rawKey
  <2>4. CASE LockEntry(t) \/ NotReversed(t) \/ \E a \in Accounts : LockAccount(t, a)
    <3>1. /\ pc[t] \in {"lockEntry", "checkEntry", "lockAccounts"}
          /\ call' = call /\ idempotency' = idempotency
      BY <2>4 DEF LockEntry, NotReversed, LockAccount, tables
    <3> QED
      BY <3>1 DEF RetryInv, RawUnused, findById, rawKey
  <2> QED
    BY <2>1, <2>2, <2>3, <2>4
<1> QED
  BY <1>1, <1>2, GoesOn

(* The steps that answer without having posted anything.                     *)
LEMMA StepsEnd ==
  ASSUME IInv, RetryInv, NEW t \in Tx,
         \/ ReplayStored(t) \/ RejectKeyReuse(t) \/ RefuseCreate(t) \/ EntryNotFound(t)
         \/ RefuseReversalOfReversal(t) \/ AlreadyReversed(t)
         \/ \E a \in Accounts : AccountNotFound(t, a)
         \/ CurrencyMismatch(t) \/ Overflow(t) \/ ConnectionLost(t)
  PROVE  RetryInv'
<1>1. CASE ReplayStored(t)
  <2>1. PICK r \in existing(call[t]) : r.hash = call[t].body /\ Finish(t, Created(r.entryId))
    BY <1>1 DEF ReplayStored
  <2>2. pc[t] = "lookUp" /\ UNCHANGED tables
    BY <1>1 DEF ReplayStored
  <2>3. Created(r.entryId).code = "CREATED" /\ Created(r.entryId).entryId = r.entryId
    BY DEF Created
  <2> QED
    BY <2>1, <2>2, <2>3, FinishAnswers
<1>2. CASE RejectKeyReuse(t)
  <2>1. /\ pc[t] = "lookUp" /\ \E r \in existing(call[t]) : r.hash # call[t].body
        /\ Finish(t, Refused("IDEMPOTENCY_KEY_REUSE")) /\ UNCHANGED tables
    BY <1>2 DEF RejectKeyReuse, Fail
  <2>2. Refused("IDEMPOTENCY_KEY_REUSE").code = "IDEMPOTENCY_KEY_REUSE"
    BY DEF Refused
  <2> QED
    BY <2>1, <2>2, FinishAnswers
<1>3. CASE AlreadyReversed(t)
  <2>1. /\ pc[t] = "checkEntry" /\ existsByReversesEntryId(call[t].body)
        /\ Finish(t, Refused("ALREADY_REVERSED")) /\ UNCHANGED tables
    BY <1>3 DEF AlreadyReversed, Fail
  <2>2. isReverse(t) /\ existing(call[t]) = {}
    BY <2>1 DEF IInv, Attempt, EntryHeld, KeyUnused, RetryInv, RawUnused, existing
  <2>3. Refused("ALREADY_REVERSED").code = "ALREADY_REVERSED"
    BY DEF Refused
  <2> QED
    BY <2>1, <2>2, <2>3, FinishAnswers
<1>4. ASSUME NEW code \in {"INVALID_REQUEST", "ENTRY_NOT_FOUND", "CANNOT_REVERSE_REVERSAL",
                           "ACCOUNT_NOT_FOUND", "CURRENCY_MISMATCH", "OVERFLOW", "LOST"},
             pc[t] \notin {"idle", "done"}, Fail(t, code)
      PROVE  RetryInv'
  <2>1. Refused(code).code = code /\ Finish(t, Refused(code)) /\ UNCHANGED tables
    BY <1>4 DEF Refused, Fail
  <2> QED
    BY <1>4, <2>1, FinishAnswers
<1>5. CASE ~(ReplayStored(t) \/ RejectKeyReuse(t) \/ AlreadyReversed(t))
  <2>1. /\ pc[t] \notin {"idle", "done"}
        /\ \E code \in {"INVALID_REQUEST", "ENTRY_NOT_FOUND", "CANNOT_REVERSE_REVERSAL",
                        "ACCOUNT_NOT_FOUND", "CURRENCY_MISMATCH", "OVERFLOW", "LOST"} :
             Fail(t, code)
    BY <1>5 DEF RefuseCreate, EntryNotFound, RefuseReversalOfReversal, AccountNotFound,
                CurrencyMismatch, Overflow, ConnectionLost, Running
  <2> QED
    BY <2>1, <1>4
<1> QED
  BY <1>1, <1>2, <1>3, <1>5
--------------------------------------------------------------------------------
(* A commit adds a row where nobody has found one, nor will find another.  *)
LEMMA ExistingStays ==
  ASSUME IInv, RetryInv, NEW t \in Tx, ready(t), Write(t), NEW q, existing(q) # {}
  PROVE  existing(q)' = existing(q)
<1>1. /\ idempotency' = idempotency \cup {recordOf(t)} /\ pc[t] = "lockAccounts"
      /\ call[t] \in Requests
  BY DEF Write, ready, IInv, Attempt, Called
<1>2. /\ findById(call[t].userId, scopedKey(call[t])) = {}
      /\ findById(call[t].userId, rawKey(call[t])) = {}
  BY <1>1 DEF IInv, Attempt, KeyUnused, RetryInv, RawUnused
<1>3. recordOf(t).userId = call[t].userId /\ recordOf(t).key = scopedKey(call[t])
  BY DEF recordOf
<1>4. recordOf(t).key # rawKey(q)
  <2>1. scopedKey(call[t])[1] \in {"create", "reverse"} /\ rawKey(q)[1] = "raw"
    BY <1>1, KeysOfRows DEF rawKey
  <2> QED
    BY <1>3, <2>1
<1>5. ~(q.userId = call[t].userId /\ scopedKey(q) = scopedKey(call[t]))
  <2> SUFFICES ASSUME q.userId = call[t].userId, scopedKey(q) = scopedKey(call[t])
               PROVE  FALSE
    OBVIOUS
  <2>1. rawKey(q) = rawKey(call[t])
    BY DEF scopedKey, rawKey
  <2> QED
    BY <1>2, <2>1 DEF existing
<1>6. /\ findById(q.userId, scopedKey(q))' = findById(q.userId, scopedKey(q))
      /\ findById(q.userId, rawKey(q))' = findById(q.userId, rawKey(q))
  BY <1>1, <1>3, <1>4, <1>5 DEF findById
<1> QED
  BY <1>6 DEF existing

(* The step that posts the entry and spends the key, in one commit.          *)
LEMMA WriteRetry ==
  ASSUME IInv, RetryInv, NEW t \in Tx, ready(t), Write(t)
  PROVE  RetryInv'
<1>1. /\ call' = call /\ entries' = entries \cup {entryOf(t)}
      /\ idempotency' = idempotency \cup {recordOf(t)} /\ pc[t] = "lockAccounts"
      /\ pc'[t] = "done" /\ \A u \in Tx \ {t} : pc'[u] = pc[u] /\ answer'[u] = answer[u]
      /\ answer'[t] \in {Created(t), Refused("LOST")} /\ call[t] \in Requests
  BY DEF Write, Finish, ready, IInv, TypeOK, Attempt, Called
<1>2. entryOf(t).id = t
  BY ReadyEntry
<1>3. /\ findById(call[t].userId, scopedKey(call[t])) = {}
      /\ findById(call[t].userId, rawKey(call[t])) = {}
  BY <1>1 DEF IInv, Attempt, KeyUnused, RetryInv, RawUnused
<1>4. /\ recordOf(t).userId = call[t].userId /\ recordOf(t).key = scopedKey(call[t])
      /\ recordOf(t).hash = call[t].body /\ recordOf(t).entryId = t
  BY DEF recordOf
<1>5. \A u : recordOf(u)' = recordOf(u)
  BY <1>1 DEF recordOf, scopedKey
<1>6. \A q : recordOf(t).key # rawKey(q)
  <2>1. scopedKey(call[t])[1] \in {"create", "reverse"}
    BY <1>1, KeysOfRows
  <2> QED
    BY <1>4, <2>1 DEF rawKey
<1>7. \A q : findById(q.userId, rawKey(q))' = findById(q.userId, rawKey(q))
  BY <1>1, <1>6 DEF findById, rawKey
<1>8. RecordsOK'
  <2>1. \A e \in entries' : recordOf(e.id)' \in idempotency'
    BY <1>1, <1>2, <1>5 DEF RetryInv, RecordsOK
  <2>2. \A r \in idempotency : ~sameRow(r, recordOf(t)) /\ ~sameRow(recordOf(t), r)
    BY <1>3, <1>4 DEF sameRow, findById
  <2>3. \A r, s \in idempotency' : sameRow(r, s) => r = s
    BY <1>1, <2>2 DEF RetryInv, RecordsOK
  <2>4. \A e \in entries' : findById(call[e.id].userId, rawKey(call[e.id])) = {}
    BY <1>1, <1>2, <1>3 DEF RetryInv, RecordsOK
  <2>5. \A e \in entries' : findById(call[e.id].userId, rawKey(call[e.id]))' = {}
    BY <1>1, <1>7, <2>4 DEF rawKey
  <2>6. \A r \in idempotency' \ LegacyRecords : \E e \in entries' : r = recordOf(e.id)'
    <3>1. \A r \in idempotency \ LegacyRecords : \E e \in entries : r = recordOf(e.id)
      BY DEF RetryInv, RecordsOK
    <3>2. entryOf(t) \in entries' /\ entries \subseteq entries'
      BY <1>1
    <3>3. ASSUME NEW r \in idempotency' \ LegacyRecords
          PROVE  \E e \in entries' : r = recordOf(e.id)
      <4>1. CASE r = recordOf(t)
        BY <1>2, <3>2, <4>1
      <4>2. CASE r # recordOf(t)
        BY <1>1, <3>1, <3>2, <4>2
      <4> QED
        BY <4>1, <4>2
    <3> QED
      BY <1>5, <3>3
  <2> QED
    BY <2>1, <2>3, <2>5, <2>6 DEF RecordsOK, sameRow
<1>9. ASSUME NEW u \in Tx PROVE RawUnused(u)' /\ Answered(u)'
  <2>1. RawUnused(u) /\ Answered(u)
    BY DEF RetryInv
  <2>2. RawUnused(u)'
    BY <1>1, <1>7, <2>1 DEF RawUnused, rawKey
  <2>3. CASE u = t
    <3>1. recordOf(t) \in existing(call[t])'
      BY <1>1, <1>4 DEF existing, findById, scopedKey
    <3>2. answer'[t].code \in {"CREATED", "LOST"} /\ (answer'[t].code = "CREATED" =>
                                                        answer'[t].entryId = t)
      BY <1>1 DEF Created, Refused
    <3> QED
      BY <1>1, <1>4, <2>2, <2>3, <3>1, <3>2 DEF Answered
  <2>4. CASE u # t
    <3>1. pc'[u] = pc[u] /\ answer'[u] = answer[u] /\ call'[u] = call[u]
      BY <1>1, <2>4
    <3>2. existing(call[u]) # {} => existing(call[u])' = existing(call[u])
      <4>1. ASSUME existing(call[u]) # {} PROVE existing(call[u])' = existing(call[u])
        <5>1. PICK q : q = call[u]
          OBVIOUS
        <5>2. existing(q)' = existing(q)
          BY <4>1, <5>1, ExistingStays
        <5> QED
          BY <3>1, <5>1, <5>2 DEF existing, findById, scopedKey, rawKey
      <4> QED
        BY <4>1
    <3>3. existsByReversesEntryId(call[u].body) => existsByReversesEntryId(call[u].body)'
      BY <1>1 DEF existsByReversesEntryId
    <3> QED
      BY <2>1, <2>2, <3>1, <3>2, <3>3 DEF Answered, isReverse
  <2> QED
    BY <2>3, <2>4
<1>10. NotOwnReversal'
  <2> SUFFICES ASSUME NEW s \in Tx, NEW u \in Tx, posted(s)', sameKey(s, u)',
                      call'[s].body = call'[u].body, answer'[u].code = "ALREADY_REVERSED"
               PROVE  FALSE
    BY DEF NotOwnReversal
  <2>1. u # t /\ answer[u].code = "ALREADY_REVERSED" /\ sameKey(s, u)
        /\ call[s].body = call[u].body
    BY <1>1 DEF Created, Refused, sameKey, scopedKey
  <2>2. CASE s = t
    <3>1. isReverse(u) /\ existsByReversesEntryId(call[u].body)
      BY <2>1 DEF RetryInv, Answered
    <3>2. isReverse(t)
      BY <2>1, <2>2, <3>1 DEF sameKey, scopedKey, isReverse
    <3>3. ~existsByReversesEntryId(call[t].body)
      BY <1>1, <3>2 DEF IInv, Attempt, StillStanding
    <3> QED
      BY <2>1, <2>2, <3>1, <3>3
  <2>3. CASE s # t
    BY <1>1, <1>2, <2>1, <2>3 DEF posted, RetryInv, NotOwnReversal
  <2> QED
    BY <2>2, <2>3
<1> QED
  BY <1>8, <1>9, <1>10 DEF RetryInv
--------------------------------------------------------------------------------
(* At first nothing is answered and the records are the legacy ones.         *)
LEMMA InitRetry == Init => RetryInv
<1> SUFFICES ASSUME Init PROVE RetryInv
  OBVIOUS
<1>1. RecordsOK
  BY ConstantsAssumption DEF Init, RecordsOK, sameRow
<1>2. NotOwnReversal
  BY DEF Init, NotOwnReversal, posted
<1>3. \A t \in Tx : RawUnused(t) /\ Answered(t)
  BY DEF Init, RawUnused, Answered, NoAnswer
<1> QED
  BY <1>1, <1>2, <1>3 DEF RetryInv

(* Every step of the ledger keeps what its records say.                      *)
LEMMA StepRetry == ASSUME IInv, RetryInv, [Next]_vars PROVE RetryInv'
<1>1. ASSUME NEW t \in Tx, Commit(t) PROVE RetryInv'
  BY <1>1, ReadyIsFree, WriteRetry DEF Commit
<1>2. CASE UNCHANGED vars
  <2>1. UNCHANGED <<entries, idempotency, pc, call, answer>>
    BY <1>2 DEF vars
  <2>2. RecordsOK'
    BY <2>1 DEF RetryInv, RecordsOK, recordOf, scopedKey, rawKey, findById, sameRow
  <2>3. NotOwnReversal'
    BY <2>1 DEF RetryInv, NotOwnReversal, posted, sameKey, scopedKey
  <2>4. ASSUME NEW t \in Tx PROVE RawUnused(t)' /\ Answered(t)'
    <3>1. existing(call[t])' = existing(call[t])
      BY <2>1 DEF existing, findById, rawKey, scopedKey
    <3>2. RawUnused(t) /\ Answered(t)
      BY DEF RetryInv
    <3>3. RawUnused(t)'
      BY <2>1, <3>2 DEF RawUnused, findById, rawKey
    <3>4. Answered(t)'
      BY <2>1, <3>1, <3>2 DEF Answered, isReverse, existsByReversesEntryId
    <3> QED
      BY <3>3, <3>4
  <2> QED
    BY <2>2, <2>3, <2>4 DEF RetryInv
<1> QED
  BY <1>1, <1>2, StepsGoOn, StepsEnd DEF Next, Step, Terminating

(* Both invariants hold throughout every behaviour.                          *)
LEMMA RetryInvariance == Spec => [](IInv /\ RetryInv)
<1>1. Init => IInv /\ RetryInv
  BY InitIInv, InitRetry
<1>2. (IInv /\ RetryInv) /\ [Next]_vars => (IInv /\ RetryInv)'
  BY StepKeeps, StepRetry
<1> QED
  BY <1>1, <1>2, PTL DEF Spec

(***************************************************************************)
(* However often and concurrently a client repeats a request, one key      *)
(* posts one entry (OnePostingPerKey).                                     *)
(***************************************************************************)
THEOREM KeyPostsOnce == Spec => []OnePostingPerKey
<1>1. RetryInv => OnePostingPerKey
  <2> SUFFICES ASSUME RetryInv, NEW t \in Tx, NEW u \in Tx, posted(t), posted(u), sameKey(t, u)
               PROVE  t = u
    BY DEF OnePostingPerKey
  <2>1. recordOf(t) = recordOf(u)
    BY PostedExisting, OneExisting DEF RetryInv
  <2> QED
    BY <2>1 DEF recordOf
<1> QED
  BY <1>1, RetryInvariance, PTL

(* A key spent before operation scopes posts nothing, and its row is all   *)
(* that a request under it finds.                                          *)
LEMMA LegacyRow ==
  ASSUME IInv, RetryInv, NEW t \in Tx, NEW rec \in LegacyRecords, call[t] # NoRequest,
         rec.userId = call[t].userId, rec.key = rawKey(call[t])
  PROVE  ~posted(t) /\ rec \in existing(call[t])
<1>1. rec \in idempotency /\ rec \in findById(call[t].userId, rawKey(call[t]))
  BY DEF IInv, TypeOK, findById
<1>2. ~posted(t)
  BY <1>1 DEF RetryInv, RecordsOK, posted
<1>3. findById(call[t].userId, scopedKey(call[t])) = {}
  <2> SUFFICES ASSUME NEW r \in findById(call[t].userId, scopedKey(call[t])) PROVE FALSE
    OBVIOUS
  <2>1. call[t] \in Requests
    BY DEF IInv, TypeOK
  <2>2. r \in idempotency /\ r.key = scopedKey(call[t]) /\ r.userId = call[t].userId
    BY DEF findById
  <2>3. r \notin LegacyRecords
    BY <2>1, <2>2, KeysOfRows, ConstantsAssumption
  <2>4. PICK e \in entries : r = recordOf(e.id)
    BY <2>2, <2>3 DEF RetryInv, RecordsOK
  <2>5. call[e.id].userId = call[t].userId /\ rawKey(call[e.id]) = rawKey(call[t])
    BY <2>2, <2>4 DEF recordOf, scopedKey, rawKey
  <2> QED
    BY <1>1, <2>5 DEF RetryInv, RecordsOK
<1> QED
  BY <1>1, <1>2, <1>3 DEF existing

(* Whatever a request came to stands in a row that it finds.               *)
LEMMA OutcomeStored ==
  ASSUME IInv, RetryInv, NEW t \in Tx, call[t] # NoRequest, NEW a \in outcomes(t)
  PROVE  \E r \in existing(call[t]) : a = <<r.hash, r.entryId>>
<1>1. CASE answer[t].code = "CREATED" /\ a = <<call[t].body, answer[t].entryId>>
  BY <1>1 DEF RetryInv, Answered
<1>2. CASE posted(t) /\ a = <<call[t].body, t>>
  <2>1. recordOf(t) \in existing(call[t])
    BY <1>2, PostedExisting DEF RetryInv
  <2>2. recordOf(t).hash = call[t].body /\ recordOf(t).entryId = t
    BY DEF recordOf
  <2> QED
    BY <1>2, <2>1, <2>2
<1>3. CASE \E rec \in LegacyRecords : /\ rec.userId = call[t].userId /\ rec.key = rawKey(call[t])
                                     /\ a = <<rec.hash, rec.entryId>>
  BY <1>3, LegacyRow
<1> QED
  BY <1>1, <1>2, <1>3 DEF outcomes

(***************************************************************************)
(* All that is posted and answered under one key, before operation scopes  *)
(* or since, is one entry for one request (SameKeySameAnswer).             *)
(***************************************************************************)
THEOREM KeyAnswersOnce == Spec => []SameKeySameAnswer
<1>1. IInv /\ RetryInv => SameKeySameAnswer
  <2> SUFFICES ASSUME IInv, RetryInv, NEW t \in Tx, NEW u \in Tx, sameKey(t, u),
                      NEW a \in outcomes(t), NEW b \in outcomes(u)
               PROVE  a = b
    BY DEF SameKeySameAnswer
  <2>1. PICK r \in existing(call[t]) : a = <<r.hash, r.entryId>>
    BY OutcomeStored DEF sameKey
  <2>2. PICK s \in existing(call[u]) : b = <<s.hash, s.entryId>>
    BY OutcomeStored DEF sameKey
  <2>3. r = s
    BY <2>1, <2>2, OneExisting DEF RetryInv
  <2> QED
    BY <2>1, <2>2, <2>3
<1> QED
  BY <1>1, RetryInvariance, PTL

(***************************************************************************)
(* Once a request has posted, no repetition of it is told of a conflict    *)
(* (RetryNeverConflicts).                                                  *)
(***************************************************************************)
THEOREM RetryIsReplayed == Spec => []RetryNeverConflicts
<1>1. RetryInv => RetryNeverConflicts
  <2> SUFFICES ASSUME RetryInv, NEW t \in Tx, NEW u \in Tx, posted(t), sameKey(t, u),
                      call[t].body = call[u].body
               PROVE  answer[u].code \notin {"ALREADY_REVERSED", "IDEMPOTENCY_KEY_REUSE"}
    BY DEF RetryNeverConflicts
  <2>1. answer[u].code # "ALREADY_REVERSED"
    BY DEF RetryInv, NotOwnReversal
  <2>2. ASSUME answer[u].code = "IDEMPOTENCY_KEY_REUSE" PROVE FALSE
    <3>1. PICK s \in existing(call[u]) : s.hash # call[u].body
      BY <2>2 DEF RetryInv, Answered
    <3>2. s = recordOf(t)
      BY <3>1, PostedExisting, OneExisting DEF RetryInv
    <3> QED
      BY <3>1, <3>2 DEF recordOf
  <2> QED
    BY <2>1, <2>2
<1> QED
  BY <1>1, RetryInvariance, PTL
--------------------------------------------------------------------------------
(***************************************************************************)
(* Waiting.  Locks are taken in one order, and of the accounts the lower   *)
(* id first; so a lock that is held comes before the one that is wanted.   *)
(***************************************************************************)
InOrder(t) ==
  /\ \A lock \in held[t] :
       /\ lock[1] = "key"   => pc[t] \in {"lookUp", "lockEntry", "checkEntry", "lockAccounts"}
       /\ lock[1] = "entry" => pc[t] \in {"checkEntry", "lockAccounts"}
  /\ \A a \in Accounts :
       accountLock(a) \in held[t] => pc[t] = "lockAccounts" /\ \A b \in unlocked(t) : a < b

LocksInOrder == \A t \in Tx : InOrder(t)

(* The movement of a transaction does not change under it.                 *)
LEMMA MovementStays ==
  ASSUME IInv, IInv', NEW t \in Tx, pc[t] = "lockAccounts", entries \subseteq entries',
         call'[t] = call[t]
  PROVE  movement(t)' = movement(t)
<1>1. CASE isReverse(t)
  <2>1. original(t) \in entries /\ original(t).id = call[t].body
    BY <1>1, OriginalEntry DEF reversing
  <2>2. \A e \in entries' : e.id = call[t].body => e = original(t)
    BY <2>1 DEF IInv, EntriesSound
  <2>3. original(t)' = original(t)
    BY <2>1, <2>2 DEF original
  <2> QED
    BY <1>1, <2>3 DEF movement, isReverse
<1>2. CASE ~isReverse(t)
  <2>1. call[t].operation = "create"
    BY <1>2, RequestTypes DEF IInv, Attempt, Called, isReverse
  <2> QED
    BY <2>1 DEF movement
<1> QED
  BY <1>1, <1>2

(* A transaction that takes no step stays in the order of its locks.         *)
LEMMA OthersInOrder ==
  ASSUME IInv, IInv', NEW u \in Tx, InOrder(u), entries \subseteq entries',
         call'[u] = call[u], pc'[u] = pc[u], held'[u] = held[u]
  PROVE  InOrder(u)'
<1>1. pc[u] = "lockAccounts" => unlocked(u)' = unlocked(u)
  BY MovementStays DEF unlocked, accountLock
<1> QED
  BY <1>1 DEF InOrder, accountLock

(* Every step acquires its locks in the order of the code.                   *)
LEMMA StepInOrder ==
  ASSUME IInv, IInv', LocksInOrder, [Next]_vars
  PROVE  LocksInOrder'
<1>1. ASSUME NEW t \in Tx, entries \subseteq entries', InOrder(t)',
             \A u \in Tx \ {t} : pc'[u] = pc[u] /\ call'[u] = call[u] /\ held'[u] = held[u]
      PROVE  LocksInOrder'
  BY <1>1, OthersInOrder DEF LocksInOrder
<1>2. ASSUME NEW t \in Tx, NEW response, Finish(t, response), entries \subseteq entries'
      PROVE  LocksInOrder'
  <2>1. /\ held'[t] = {}
        /\ \A u \in Tx \ {t} : pc'[u] = pc[u] /\ call'[u] = call[u] /\ held'[u] = held[u]
    BY <1>2 DEF Finish, IInv, TypeOK
  <2>2. InOrder(t)'
    BY <2>1 DEF InOrder
  <2> QED
    BY <1>1, <1>2, <2>1, <2>2
<1>3. ASSUME NEW t \in Tx, NEW request \in Requests, Begin(t, request) PROVE LocksInOrder'
  <2>1. /\ pc[t] = "idle" /\ held' = held /\ entries' = entries
        /\ \A u \in Tx \ {t} : pc'[u] = pc[u] /\ call'[u] = call[u]
    BY <1>3 DEF Begin, Goto, tables, IInv, TypeOK
  <2>2. InOrder(t)'
    BY <2>1 DEF LocksInOrder, InOrder, accountLock
  <2> QED
    BY <1>1, <2>1, <2>2
<1>4. ASSUME NEW t \in Tx, LockKey(t) PROVE LocksInOrder'
  <2>1. /\ pc[t] = "lockKey" /\ pc'[t] = "lookUp" /\ call' = call /\ entries' = entries
        /\ held'[t] = held[t] \cup {keyLock(call[t])}
        /\ \A u \in Tx \ {t} : pc'[u] = pc[u] /\ held'[u] = held[u]
    BY <1>4, NothingHeldAlone DEF LockKey, Goto, tables, IInv, TypeOK
  <2>2. keyLock(call[t])[1] = "key" /\ \A a : accountLock(a) # keyLock(call[t])
    BY DEF keyLock, accountLock
  <2>3. InOrder(t)'
    BY <2>1, <2>2 DEF LocksInOrder, InOrder, accountLock
  <2> QED
    BY <1>1, <2>1, <2>3
<1>5. ASSUME NEW t \in Tx, StartCreate(t) \/ StartReverse(t) \/ NotReversed(t)
      PROVE  LocksInOrder'
  <2>1. /\ held' = held /\ entries' = entries /\ call' = call
        /\ \/ pc[t] = "lookUp" /\ pc'[t] \in {"lockAccounts", "lockEntry"}
           \/ pc[t] = "checkEntry" /\ pc'[t] = "lockAccounts"
        /\ \A u \in Tx \ {t} : pc'[u] = pc[u]
    BY <1>5 DEF StartCreate, StartReverse, NotReversed, Goto, tables, IInv, TypeOK
  <2>2. InOrder(t)'
    BY <2>1 DEF LocksInOrder, InOrder, accountLock
  <2> QED
    BY <1>1, <2>1, <2>2
<1>6. ASSUME NEW t \in Tx, LockEntry(t) PROVE LocksInOrder'
  <2>1. /\ pc[t] = "lockEntry" /\ pc'[t] = "checkEntry" /\ call' = call /\ entries' = entries
        /\ held'[t] = held[t] \cup {entryLock(call[t].body)}
        /\ \A u \in Tx \ {t} : pc'[u] = pc[u] /\ held'[u] = held[u]
    BY <1>6, NothingHeldAlone DEF LockEntry, Goto, tables, IInv, TypeOK
  <2>2. /\ entryLock(call[t].body)[1] = "entry"
        /\ \A a : accountLock(a) # entryLock(call[t].body)
    BY DEF entryLock, accountLock
  <2>3. InOrder(t)'
    BY <2>1, <2>2 DEF LocksInOrder, InOrder, accountLock
  <2> QED
    BY <1>1, <2>1, <2>3
<1>7. ASSUME NEW t \in Tx, NEW a \in Accounts, LockAccount(t, a) PROVE LocksInOrder'
  <2>1. /\ pc[t] = "lockAccounts" /\ pc' = pc /\ call' = call /\ entries' = entries
        /\ held'[t] = held[t] \cup {accountLock(a)}
        /\ \A u \in Tx \ {t} : held'[u] = held[u]
        /\ a \in unlocked(t) /\ \A b \in unlocked(t) : a <= b
    BY <1>7, NothingHeldAlone DEF LockAccount, tables, isNext
  <2>2. movement(t)' = movement(t) /\ accountsOf(movement(t)) \subseteq Accounts
    BY <2>1, MovementStays, MovementType
  <2>3. unlocked(t)' = unlocked(t) \ {a}
    BY <2>1, <2>2, LocksDiffer DEF unlocked, accountLock
  <2>4. \A b \in unlocked(t) : b \in Int
    BY <2>2, ConstantsAssumption DEF unlocked
  <2>5. a \in Int /\ \A b \in unlocked(t)' : a < b
    BY <2>1, <2>3, <2>4
  <2>6. ASSUME NEW c \in Accounts, accountLock(c) \in held'[t]
        PROVE  \A b \in unlocked(t)' : c < b
    <3>1. c = a \/ accountLock(c) \in held[t]
      BY <2>1, <2>6, LocksDiffer
    <3>2. CASE c = a
      BY <2>5, <3>2
    <3>3. CASE accountLock(c) \in held[t]
      BY <2>3, <3>3 DEF LocksInOrder, InOrder
    <3> QED
      BY <3>1, <3>2, <3>3
  <2>7. InOrder(t)'
    BY <2>1, <2>6 DEF LocksInOrder, InOrder, accountLock
  <2> QED
    BY <1>1, <2>1, <2>7
<1>8. ASSUME NEW t \in Tx,
             \/ ReplayStored(t) \/ RejectKeyReuse(t) \/ RefuseCreate(t) \/ EntryNotFound(t)
             \/ RefuseReversalOfReversal(t) \/ AlreadyReversed(t)
             \/ \E a \in Accounts : AccountNotFound(t, a)
             \/ CurrencyMismatch(t) \/ Overflow(t) \/ Commit(t) \/ ConnectionLost(t)
      PROVE  (\E response : Finish(t, response)) /\ entries \subseteq entries'
  BY <1>8 DEF ReplayStored, RejectKeyReuse, RefuseCreate, EntryNotFound,
              RefuseReversalOfReversal, AlreadyReversed, AccountNotFound, CurrencyMismatch,
              Overflow, Commit, Write, ConnectionLost, Fail, tables
<1>9. CASE UNCHANGED vars
  BY <1>9, OthersInOrder DEF vars, LocksInOrder
<1> QED
  BY <1>2, <1>3, <1>4, <1>5, <1>6, <1>7, <1>8, <1>9 DEF Next, Step, Terminating

(* A set of accounts that is not empty has a greatest member: the one that *)
(* the fewest others exceed.                                               *)
LEMMA GreatestAccount ==
  ASSUME NEW W \in SUBSET Accounts, W # {}
  PROVE  \E m \in W : \A b \in W : b <= m
<1> DEFINE above(m) == {b \in W : b > m}
           counts == {Cardinality(above(m)) : m \in W}
<1>1. W \subseteq Int /\ IsFiniteSet(W)
  BY ConstantsAssumption, FS_Subset
<1>2. \A m \in W : IsFiniteSet(above(m)) /\ Cardinality(above(m)) \in Nat
  BY <1>1, FS_Subset, FS_CardinalityType
<1>3. counts \in SUBSET Nat /\ counts # {}
  BY <1>2
<1>4. PICK n \in counts : \A k \in counts : ~(<<k, n>> \in OpToRel(<, Nat))
  <2> HIDE DEF counts
  <2> QED
    BY <1>3, NatLessThanWellFounded, WFMin, Zenon
<1>5. PICK m \in W : n = Cardinality(above(m))
  BY <1>4
<1>6. \A b \in W : b <= m
  <2> SUFFICES ASSUME NEW b \in W, ~(b <= m) PROVE FALSE
    OBVIOUS
  <2>1. b \in Int /\ m \in Int /\ b > m
    BY <1>1
  <2>2. above(b) \in SUBSET above(m) /\ b \in above(m) /\ b \notin above(b)
    <3>1. \A c \in W : c \in Int /\ (c > b => c > m)
      BY <1>1, <2>1
    <3>2. ~(b > b)
      BY <2>1
    <3> QED
      BY <2>1, <3>1, <3>2
  <2>3. Cardinality(above(b)) <= Cardinality(above(m)) /\ above(b) # above(m)
    BY <1>2, <2>2, FS_Subset
  <2>4. Cardinality(above(b)) # Cardinality(above(m))
    BY <1>2, <2>2, <2>3, FS_Subset
  <2>5. Cardinality(above(b)) < n /\ Cardinality(above(b)) \in Nat /\ n \in Nat
    BY <1>2, <1>5, <2>3, <2>4
  <2>6. <<Cardinality(above(b)), n>> \in OpToRel(<, Nat)
    BY <2>5 DEF OpToRel
  <2> QED
    BY <1>4, <2>6
<1> QED
  BY <1>6

(***************************************************************************)
(* No transactions wait for each other in a circle, however many there are *)
(* and however many accounts they share (NoWaitCycle).                     *)
(***************************************************************************)
THEOREM NobodyWaitsInACircle == Spec => []NoWaitCycle
<1>1. Init => LocksInOrder
  BY DEF Init, LocksInOrder, InOrder
<1>2. IInv /\ LocksInOrder => NoWaitCycle
  <2> SUFFICES ASSUME IInv, LocksInOrder, NEW S \in (SUBSET Tx) \ {{}},
                      ~\E t \in S : \A u \in S : wants(t) \cap held[u] = {}
               PROVE  FALSE
    BY Zenon DEF NoWaitCycle
  <2>0. \A t \in S : t \in Tx /\ \E u \in S : wants(t) \cap held[u] # {}
    OBVIOUS
  <2> DEFINE wanted == {a \in Accounts : \E t \in S : accountLock(a) \in wants(t)}
  <2>1. ASSUME NEW t \in S, pc[t] = "lockAccounts" PROVE \E a \in wanted : a \in unlocked(t)
    <3>1. wants(t) = {accountLock(a) : a \in {b \in unlocked(t) : isNext(t, b)}}
      BY <2>1 DEF wants
    <3>2. PICK a \in unlocked(t) : accountLock(a) \in wants(t)
      BY <3>1
    <3>3. a \in Accounts
      BY <2>1, <3>2, MovementType DEF unlocked
    <3> QED
      BY <3>2, <3>3
  <2>2. wanted = {}
    <3> SUFFICES ASSUME wanted # {} PROVE FALSE
      OBVIOUS
    <3>1. PICK m \in wanted : \A b \in wanted : b <= m
      BY GreatestAccount
    <3>2. PICK t \in S : accountLock(m) \in wants(t)
      BY <3>1
    <3>3. wants(t) = {accountLock(a) : a \in {b \in unlocked(t) : isNext(t, b)}}
      BY <3>2, LocksDiffer DEF wants
    <3>4. PICK u \in S : wants(t) \cap held[u] # {}
      BY <2>0
    <3>5. accountLock(m) \in held[u]
      <4>1. m \in unlocked(t) /\ isNext(t, m)
        BY <3>2, <3>3, LocksDiffer
      <4>2. \A b \in unlocked(t) : b \in Int
        <5>1. pc[t] = "lockAccounts"
          BY <3>2, LocksDiffer DEF wants
        <5> QED
          BY <5>1, MovementType, ConstantsAssumption DEF unlocked
      <4>3. \A b \in unlocked(t) : isNext(t, b) => b = m
        BY <4>1, <4>2 DEF isNext
      <4> QED
        BY <3>3, <3>4, <4>3
    <3>6. pc[u] = "lockAccounts" /\ \A b \in unlocked(u) : m < b
      BY <3>5 DEF LocksInOrder, InOrder
    <3>7. PICK b \in wanted : b \in unlocked(u)
      BY <2>1, <3>6
    <3>8. m < b /\ b <= m /\ b \in Int /\ m \in Int
      BY <3>1, <3>6, <3>7, ConstantsAssumption
    <3> QED
      BY <3>8
  <2>3. \A t \in S : pc[t] # "lockAccounts"
    BY <2>1, <2>2
  <2>4. \A t \in S : pc[t] # "lockEntry"
    <3> SUFFICES ASSUME NEW t \in S, pc[t] = "lockEntry" PROVE FALSE
      OBVIOUS
    <3>1. wants(t) = {entryLock(call[t].body)}
      BY DEF wants
    <3>2. PICK u \in S : entryLock(call[t].body) \in held[u]
      BY <3>1
    <3>3. pc[u] = "checkEntry"
      BY <2>3, <3>2 DEF LocksInOrder, InOrder, entryLock
    <3>4. wants(u) = {}
      BY <3>3 DEF wants
    <3> QED
      BY <3>4
  <2>5. PICK t : t \in S
    OBVIOUS
  <2>6. pc[t] = "lockKey"
    BY <2>0, <2>3, <2>4, <2>5 DEF wants
  <2>7. PICK u \in S : keyLock(call[t]) \in held[u]
    BY <2>0, <2>5, <2>6 DEF wants
  <2>8. pc[u] \in {"lookUp", "checkEntry"}
    BY <2>3, <2>4, <2>7 DEF LocksInOrder, InOrder, keyLock
  <2>9. wants(u) = {}
    BY <2>8 DEF wants
  <2> QED
    BY <2>9
<1>3. IInv /\ IInv' /\ LocksInOrder /\ [Next]_vars => LocksInOrder'
  BY StepInOrder
<1> QED
  BY <1>1, <1>2, <1>3, Invariance, PTL DEF Spec
================================================================================
