----------------------------- MODULE EventContract -----------------------------
(***************************************************************************)
(* The transaction.ledger_entry.posted contract between four programs: the *)
(* ledger that writes the event (Java) and the analytics, budget and       *)
(* notification services (Go) that each decode, validate and project it    *)
(* with code of their own.  Delivery is one step here and may come in any  *)
(* order; OutboxRelay has its failures and races.                          *)
(***************************************************************************)
EXTENDS LedgerImpact, FiniteSets, FiniteSetsExt

CONSTANTS
  MaxEntries,           \* bound: entries posted
  Amounts, Years,       \* amounts and periods of the entries posted
  CategoryNames,        \* names CreateCategoryRequest lets a category have
  UnicodeBlank,         \* of these, the ones Go's strings.TrimSpace empties
  NoCategory, NoEntry,
  MaxSafeInteger,       \* 2^53 - 1 in every service
  FirstVersion          \* 0 if events of the time before v1 are still around

ASSUME ContractAssumption ==
  /\ MaxEntries \in Nat /\ MaxSafeInteger \in Nat
  /\ Amounts \subseteq 1 .. MaxSafeInteger       \* @Positive @Max
  /\ Years \subseteq Int
  /\ UnicodeBlank \subseteq CategoryNames
  /\ NoCategory \notin CategoryNames /\ NoEntry \notin Nat
  /\ FirstVersion \in {0, 1}

VARIABLES
  version,        \* the event version the ledger writes
  entries,        \* ledger_entries
  outbox,         \* the events written
  processed,      \* each consumer's processed_events
  monthlyTotals,  \* analytics: income and expense per month
  categorySpend,  \* budget: spend per category and month
  notifications   \* notification: the in-app notifications stored

vars == <<version, entries, outbox, processed, monthlyTotals, categorySpend, notifications>>
projections == <<processed, monthlyTotals, categorySpend, notifications>>

Consumers == {"analytics", "budget", "notification"}
Months    == {YEAR_MONTH(y) : y \in Years}

Init ==
  /\ version = FirstVersion
  /\ entries = {} /\ outbox = {}
  /\ processed = [c \in Consumers |-> {}]
  /\ monthlyTotals = [m \in Months |-> [income |-> 0, expense |-> 0]]
  /\ categorySpend = [row \in CategoryNames \X Months |-> 0]
  /\ notifications = {}
--------------------------------------------------------------------------------
(* A category is known here by its name.  v0 events had neither deltas nor *)
(* the category's name, only its id.                                       *)
legacyPayload(event) == [event EXCEPT !.eventVersion = 0]
eventFor(event) == IF version = 0 THEN legacyPayload(event) ELSE event

newEntry(entryType, amount, category, year, reverses) ==
  [id |-> Cardinality(entries) + 1, userId |-> "user", categoryId |-> category,
   entryType |-> entryType, amountMinor |-> amount, occurredAt |-> year,
   reversesEntryId |-> reverses]

postedImpact(entry) ==
  forPostedEntry(entry.entryType, entry.amountMinor, entry.categoryId # NoCategory)

(* LedgerService.create: a transfer has no category.                       *)
Post(entryType, amount, category, year) ==
  LET entry == newEntry(entryType, amount, category, year, NoEntry)
  IN  /\ Cardinality(entries) < MaxEntries
      /\ entryType = "TRANSFER" => category = NoCategory
      /\ entries' = entries \cup {entry}
      /\ outbox' = outbox \cup {eventFor(payload(entry, postedImpact(entry), category, year))}
      /\ UNCHANGED <<version, projections>>

(* Mutant: a reversal is not announced.                                    *)
ReverseSilently(original, now) ==
  LET entry == newEntry("REVERSAL", original.amountMinor, original.categoryId, now, original.id)
  IN  /\ Cardinality(entries) < MaxEntries
      /\ original.entryType # "REVERSAL"
      /\ \A e \in entries : e.reversesEntryId # original.id
      /\ entries' = entries \cup {entry}
      /\ UNCHANGED <<version, outbox, projections>>

(* LedgerService.reverse, at any later time: its own year is another.      *)
Reverse(original, now) ==
  LET entry == newEntry("REVERSAL", original.amountMinor, original.categoryId, now, original.id)
  IN  /\ Cardinality(entries) < MaxEntries
      /\ original.entryType # "REVERSAL"
      /\ \A e \in entries : e.reversesEntryId # original.id
      /\ entries' = entries \cup {entry}
      /\ outbox' = outbox \cup
           {eventFor(payload(entry, inverse(postedImpact(original)),
                             original.categoryId, original.occurredAt))}
      /\ UNCHANGED <<version, projections>>

(* The release that writes v1.                                             *)
Upgrade ==
  /\ version = 0 /\ version' = 1
  /\ UNCHANGED <<entries, outbox, projections>>
--------------------------------------------------------------------------------
matchesYearMonthPattern(event) == ~event.yearMonth.signed

validateV1ReportingImpact(event) ==
  LET income == event.incomeDeltaMinor
      expense == event.expenseDeltaMinor
      amount == event.amountMinor
      signed == IF event.entryType = "REVERSAL" THEN -amount ELSE amount
  IN  /\ 0 < amount /\ amount <= MaxSafeInteger
      /\ event.entryType \in EntryType /\ event.effectEntryType \in EffectTypes
      /\ event.entryType = "REVERSAL" \/ event.effectEntryType = event.entryType
      /\ income = IF event.effectEntryType = "INCOME" THEN signed ELSE 0
      /\ expense = IF event.effectEntryType = "EXPENSE" THEN signed ELSE 0

(* decodeReportingImpact: what a v0 entry did to income and expense is     *)
(* inferred from its type; a v0 reversal says too little.                  *)
reportingImpact(event) ==
  IF event.eventVersion = 1
  THEN [income |-> event.incomeDeltaMinor, expense |-> event.expenseDeltaMinor]
  ELSE [income  |-> IF event.entryType = "INCOME" THEN event.amountMinor ELSE 0,
        expense |-> IF event.entryType = "EXPENSE" THEN event.amountMinor ELSE 0]

(* A v0 month is not validated, but year_month is CHAR(7).                 *)
analyticsAccepts(event) ==
  \/ /\ event.eventVersion = 0
     /\ event.entryType \in EffectTypes
     /\ matchesYearMonthPattern(event) \/ event.entryType = "TRANSFER"
  \/ /\ event.eventVersion = 1
     /\ matchesYearMonthPattern(event)
     /\ validateV1ReportingImpact(event)

(* Mutant: reversals are projected with the sign of a new entry.           *)
AnalyticsHandleEventUnsigned(event) ==
  LET delta == [income  |-> IF event.effectEntryType = "INCOME" THEN event.amountMinor ELSE 0,
                expense |-> IF event.effectEntryType = "EXPENSE" THEN event.amountMinor ELSE 0]
  IN  /\ event.eventId \notin processed["analytics"]
      /\ analyticsAccepts(event)
      /\ monthlyTotals' = [monthlyTotals EXCEPT
           ![event.yearMonth] = [income  |-> @.income + delta.income,
                                 expense |-> @.expense + delta.expense]]
      /\ processed' = [processed EXCEPT !["analytics"] = @ \cup {event.eventId}]
      /\ UNCHANGED <<version, entries, outbox, categorySpend, notifications>>

AnalyticsHandleEvent(event) ==
  LET delta == reportingImpact(event)
  IN  /\ event.eventId \notin processed["analytics"]
      /\ analyticsAccepts(event)
      /\ monthlyTotals' = [monthlyTotals EXCEPT
           ![event.yearMonth] = [income  |-> @.income + delta.income,
                                 expense |-> @.expense + delta.expense]]
      /\ processed' = [processed EXCEPT !["analytics"] = @ \cup {event.eventId}]
      /\ UNCHANGED <<version, entries, outbox, categorySpend, notifications>>
--------------------------------------------------------------------------------
(* Mutant: the delta of a reversal is expected to have the entry's sign.   *)
expectedCategoryDeltaUnsigned(event) ==
  IF event.effectEntryType # "EXPENSE" \/ event.categoryId = NoCategory THEN 0
  ELSE event.amountMinor

expectedCategoryDelta(event) ==
  IF event.effectEntryType # "EXPENSE" \/ event.categoryId = NoCategory THEN 0
  ELSE IF event.entryType = "REVERSAL" THEN -event.amountMinor ELSE event.amountMinor

validateV1CategoryImpact(event) ==
  /\ 1 <= event.amountMinor /\ event.amountMinor <= MaxSafeInteger
  /\ event.entryType \in EntryType /\ event.effectEntryType \in EffectTypes
  /\ event.entryType = "REVERSAL" \/ event.effectEntryType = event.entryType
  /\ event.categorySpendDeltaMinor = expectedCategoryDelta(event)

(* decodeCategoryImpact: of the v0 events only those without category      *)
(* spend are understood; a v1 spend needs a category with a visible name.  *)
budgetAccepts(event) ==
  \/ /\ event.eventVersion = 0
     /\ event.entryType \in EffectTypes
     /\ event.entryType = "EXPENSE" => event.categoryId = NoCategory
  \/ /\ event.eventVersion = 1
     /\ matchesYearMonthPattern(event)
     /\ validateV1CategoryImpact(event)
     /\ event.categorySpendDeltaMinor # 0 =>
          event.categoryId # NoCategory /\ event.categoryName \notin UnicodeBlank

categoryImpact(event) ==
  IF event.eventVersion = 1 THEN event.categorySpendDeltaMinor ELSE 0

(* Mutant: spend is booked to the month of a reversal's entry type only.   *)
BudgetHandleEventNewOnly(event) ==
  /\ event.eventId \notin processed["budget"]
  /\ budgetAccepts(event)
  /\ categorySpend' =
       IF categoryImpact(event) <= 0 THEN categorySpend
       ELSE [categorySpend EXCEPT ![<<event.categoryId, event.yearMonth>>] =
                                    @ + categoryImpact(event)]
  /\ processed' = [processed EXCEPT !["budget"] = @ \cup {event.eventId}]
  /\ UNCHANGED <<version, entries, outbox, monthlyTotals, notifications>>

BudgetHandleEvent(event) ==
  /\ event.eventId \notin processed["budget"]
  /\ budgetAccepts(event)
  /\ categorySpend' =
       IF categoryImpact(event) = 0 THEN categorySpend
       ELSE [categorySpend EXCEPT ![<<event.categoryId, event.yearMonth>>] =
                                    @ + categoryImpact(event)]
  /\ processed' = [processed EXCEPT !["budget"] = @ \cup {event.eventId}]
  /\ UNCHANGED <<version, entries, outbox, monthlyTotals, notifications>>
--------------------------------------------------------------------------------
(* validateLedgerPayload: a v0 event needs no more than its identity.      *)
notificationAccepts(event) ==
  event.eventVersion = 1 =>
    /\ matchesYearMonthPattern(event)
    /\ 1 <= event.amountMinor /\ event.amountMinor <= MaxSafeInteger
    /\ event.entryType \in EntryType

NotificationHandleEvent(event) ==
  /\ event.eventId \notin processed["notification"]
  /\ notificationAccepts(event)
  /\ notifications' =
       IF event.entryType \in {"EXPENSE", "REVERSAL"}
       THEN notifications \cup {event.eventId} ELSE notifications
  /\ processed' = [processed EXCEPT !["notification"] = @ \cup {event.eventId}]
  /\ UNCHANGED <<version, entries, outbox, monthlyTotals, categorySpend>>
--------------------------------------------------------------------------------
Next ==
  \/ \E entryType \in EffectTypes, amount \in Amounts,
        category \in CategoryNames \cup {NoCategory}, year \in Years :
       Post(entryType, amount, category, year)
  \/ \E original \in entries, now \in Years : Reverse(original, now)
  \/ Upgrade
  \/ \E event \in outbox : \/ AnalyticsHandleEvent(event)
                           \/ BudgetHandleEvent(event)
                           \/ NotificationHandleEvent(event)

Spec == Init /\ [][Next]_vars
--------------------------------------------------------------------------------
accepts(c, event) ==
  CASE c = "analytics"    -> analyticsAccepts(event)
    [] c = "budget"       -> budgetAccepts(event)
    [] c = "notification" -> notificationAccepts(event)

(***************************************************************************)
(* Whatever the ledger posts or reverses, all three consumers accept the   *)
(* v1 event it writes: no entry leaves an event behind that some consumer  *)
(* refuses for ever (OutboxRelay publishes only what all accepted).        *)
(***************************************************************************)
AllConsumersAccept ==
  \A event \in outbox : event.eventVersion = 1 => \A c \in Consumers : accepts(c, event)

(* All was written by the v1 release and has been processed.               *)
settled(c) ==
  /\ processed[c] = {e.id : e \in entries}
  /\ \A event \in outbox : event.eventVersion = 1

(* The entries that stand: neither reversals nor reversed.                 *)
standing ==
  {e \in entries : /\ e.entryType # "REVERSAL"
                   /\ \A r \in entries : r.reversesEntryId # e.id}

amountOf(e) == e.amountMinor

(***************************************************************************)
(* When analytics has processed an event for every entry, in any order,    *)
(* each month shows exactly the income and expense that still stand in it; *)
(* events of the time before v1 say too little and are excepted.           *)
(***************************************************************************)
SettledTotals ==
  settled("analytics") =>
    \A m \in Months :
      LET of(type) == {e \in standing : e.entryType = type /\ YEAR_MONTH(e.occurredAt) = m}
      IN  monthlyTotals[m] = [income  |-> MapThenSumSet(amountOf, of("INCOME")),
                              expense |-> MapThenSumSet(amountOf, of("EXPENSE"))]

(***************************************************************************)
(* When budget has, each category and month shows the spend that stands.   *)
(***************************************************************************)
SettledSpend ==
  settled("budget") =>
    \A name \in CategoryNames, m \in Months :
      categorySpend[<<name, m>>] =
        MapThenSumSet(amountOf, {e \in standing : /\ e.entryType = "EXPENSE"
                                                  /\ e.categoryId = name
                                                  /\ YEAR_MONTH(e.occurredAt) = m})

(***************************************************************************)
(* The published JSON schema of the v1 event requires yearMonth to be four *)
(* digits, a dash and a month.                                             *)
(***************************************************************************)
YearMonthMatchesSchema == \A event \in outbox : ~event.yearMonth.signed

(***************************************************************************)
(* The schema asks of a categoryName one to 120 characters, of any kind: a *)
(* consumer that knows the schema accepts an event that conforms to it.    *)
(***************************************************************************)
ConformingEventsAccepted ==
  \A event \in outbox :
    event.eventVersion = 1 /\ ~event.yearMonth.signed => budgetAccepts(event)

(* Every variable has its type.                                            *)
TypeOK ==
  /\ version \in {0, 1}
  /\ entries \subseteq
       [id : 1 .. MaxEntries, userId : {"user"}, categoryId : CategoryNames \cup {NoCategory},
        entryType : EntryType, amountMinor : Amounts, occurredAt : Years,
        reversesEntryId : 1 .. MaxEntries \cup {NoEntry}]
  /\ {event.eventId : event \in outbox} = {e.id : e \in entries}
  /\ processed \in [Consumers -> SUBSET {e.id : e \in entries}]
  /\ monthlyTotals \in [Months -> [income : Int, expense : Int]]
  /\ categorySpend \in [CategoryNames \X Months -> Int]
  /\ notifications \subseteq processed["notification"]
================================================================================
