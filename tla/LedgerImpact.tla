----------------------------- MODULE LedgerImpact -----------------------------
(***************************************************************************)
(* The arithmetic of a ledger entry: what it does to account balances, and *)
(* the signed reporting effect the producer puts into the                  *)
(* transaction.ledger_entry.posted event.  Pure operators, shared by the   *)
(* ledger (LedgerService) and by the event contract (EventContract).       *)
(***************************************************************************)
EXTENDS Integers

EffectTypes == {"INCOME", "EXPENSE", "TRANSFER"}
EntryType   == EffectTypes \cup {"REVERSAL"}

(***************************************************************************)
(* LedgerImpact of the Java record: the effect of an entry on reporting.   *)
(* Amounts are at most 2^53 - 1 in magnitude, so negateExact cannot throw. *)
(***************************************************************************)
forPostedEntry(entryType, amountMinor, categorized) ==
  [effectEntryType         |-> entryType,
   incomeDeltaMinor        |-> IF entryType = "INCOME"  THEN amountMinor ELSE 0,
   expenseDeltaMinor       |-> IF entryType = "EXPENSE" THEN amountMinor ELSE 0,
   categorySpendDeltaMinor |-> IF entryType = "EXPENSE" /\ categorized
                               THEN amountMinor ELSE 0]

inverse(impact) ==
  [effectEntryType         |-> impact.effectEntryType,
   incomeDeltaMinor        |-> -impact.incomeDeltaMinor,
   expenseDeltaMinor       |-> -impact.expenseDeltaMinor,
   categorySpendDeltaMinor |-> -impact.categorySpendDeltaMinor]

(***************************************************************************)
(* What posting an entry adds to the balance of account a: income credits  *)
(* the account, expense debits it, a transfer debits it and credits the    *)
(* target.  The transfer account of any other entry is stored, not used.   *)
(***************************************************************************)
creditDelta(entry, a) ==
  IF a # entry.accountId THEN 0
  ELSE IF entry.entryType = "INCOME" THEN entry.amountMinor ELSE -entry.amountMinor

balanceDelta(entry, a) ==
  creditDelta(entry, a)
    + IF entry.entryType = "TRANSFER" /\ a = entry.transferAccountId
      THEN entry.amountMinor ELSE 0

(* The accounts an entry moves money on.                                   *)
accountsOf(entry) ==
  {entry.accountId}
    \cup IF entry.entryType = "TRANSFER" THEN {entry.transferAccountId} ELSE {}

(***************************************************************************)
(* DateTimeFormatter "yyyy-MM": the month of an instant, here a year.  The *)
(* pattern prints the year of the era padded to four digits, and with a    *)
(* sign once it needs more than four.                                      *)
(***************************************************************************)
YEAR_MONTH(year) ==
  LET yearOfEra == IF year > 0 THEN year ELSE 1 - year
  IN  [yearOfEra |-> yearOfEra, signed |-> yearOfEra > 9999]

(***************************************************************************)
(* The payload of the posted event.  The event id is drawn together with   *)
(* the entry id and stands for it here.                                    *)
(***************************************************************************)
payload(entry, impact, categoryName, effectiveOccurredAt) ==
  [eventVersion            |-> 1,
   eventId                 |-> entry.id,
   userId                  |-> entry.userId,
   categoryId              |-> entry.categoryId,
   categoryName            |-> categoryName,
   entryType               |-> entry.entryType,
   effectEntryType         |-> impact.effectEntryType,
   amountMinor             |-> entry.amountMinor,
   incomeDeltaMinor        |-> impact.incomeDeltaMinor,
   expenseDeltaMinor       |-> impact.expenseDeltaMinor,
   categorySpendDeltaMinor |-> impact.categorySpendDeltaMinor,
   yearMonth               |-> YEAR_MONTH(effectiveOccurredAt),
   reversesEntryId         |-> entry.reversesEntryId]
================================================================================
