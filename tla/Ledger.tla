-------------------------------- MODULE Ledger --------------------------------
(***************************************************************************)
(* What the ledger promises, with every request a single indivisible step: *)
(* posting an entry moves the balances by exactly that entry's amounts,    *)
(* announces it once and spends its idempotency key; reversing one does    *)
(* the opposite, and only for an entry that still stands.                  *)
(* LedgerService implements this with concurrent database transactions.    *)
(***************************************************************************)
EXTENDS LedgerImpact

CONSTANTS
  Accounts,                \* the account ids
  NoCategory, NoEntry,     \* null category and null entry id
  MinBalance, MaxBalance,  \* the range of a balance (a 64-bit integer)
  LegacyRecords            \* idempotency records older than operation scopes

VARIABLES
  balance,      \* accounts.balance_minor
  entries,      \* the rows of ledger_entries
  outbox,       \* the events of the outbox rows
  idempotency   \* the rows of idempotency_keys

vars == <<balance, entries, outbox, idempotency>>

Init ==
  /\ balance = [a \in Accounts |-> 0]
  /\ entries = {}
  /\ outbox = {}
  /\ idempotency = LegacyRecords

isNewEntry(entry) == \A e \in entries : e.id # entry.id

standing(entry) ==
  /\ entry \in entries
  /\ entry.entryType # "REVERSAL"
  /\ \A e \in entries : e.reversesEntryId # entry.id

(* The bookkeeping every posting shares: the row and its spent key.        *)
Record(entry, rec) ==
  /\ isNewEntry(entry)
  /\ \A r \in idempotency : ~(r.userId = rec.userId /\ r.key = rec.key)
  /\ rec.entryId = entry.id /\ rec.userId = entry.userId
  /\ entries' = entries \cup {entry}
  /\ idempotency' = idempotency \cup {rec}

(* Every balance moves by delta[a] and stays in range.                     *)
MoveMoney(delta) ==
  /\ \A a \in Accounts : balance[a] + delta[a] \in MinBalance .. MaxBalance
  /\ balance' = [a \in Accounts |-> balance[a] + delta[a]]

Post(entry, rec) ==
  /\ entry.entryType \in EffectTypes
  /\ entry.reversesEntryId = NoEntry
  /\ Record(entry, rec)
  /\ MoveMoney([a \in Accounts |-> balanceDelta(entry, a)])
  /\ outbox' = outbox \cup
       {payload(entry,
                forPostedEntry(entry.entryType, entry.amountMinor,
                               entry.categoryId # NoCategory),
                entry.categoryId, entry.occurredAt)}

Reverse(original, entry, rec) ==
  /\ standing(original)
  /\ entry.entryType = "REVERSAL"
  /\ entry.reversesEntryId = original.id
  /\ entry.userId = original.userId
  /\ Record(entry, rec)
  /\ MoveMoney([a \in Accounts |-> -balanceDelta(original, a)])
  /\ outbox' = outbox \cup
       {payload(entry,
                inverse(forPostedEntry(original.entryType, original.amountMinor,
                                       original.categoryId # NoCategory)),
                original.categoryId, original.occurredAt)}

(* The step is identified by the rows it adds.                             *)
Next ==
  \E entry \in entries' \ entries, rec \in idempotency' \ idempotency :
    \/ Post(entry, rec)
    \/ \E original \in entries : Reverse(original, entry, rec)

Spec == Init /\ [][Next]_vars
================================================================================
