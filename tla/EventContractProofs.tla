-------------------------- MODULE EventContractProofs --------------------------
(***************************************************************************)
(* Proofs about EventContract, for any number of entries and any amounts,  *)
(* periods and categories: its types, and that the three consumers accept  *)
(* every v1 event but for the two reasons the README names.                *)
(***************************************************************************)
EXTENDS EventContract, SumTheorems

Entry ==
  [id : 1 .. MaxEntries, userId : {"user"}, categoryId : CategoryNames \cup {NoCategory},
   entryType : EntryType, amountMinor : Amounts, occurredAt : Years,
   reversesEntryId : 1 .. MaxEntries \cup {NoEntry}]

(* What the consumers' code asks of an event, its month and the name of    *)
(* its category left aside.                                                *)
WellFormed(event) ==
  /\ event.amountMinor \in 1 .. MaxSafeInteger
  /\ event.entryType \in EntryType /\ event.effectEntryType \in EffectTypes
  /\ event.entryType = "REVERSAL" \/ event.effectEntryType = event.entryType
  /\ event.yearMonth \in Months
  /\ event.categoryId \in CategoryNames \cup {NoCategory}
  /\ event.categoryName = event.categoryId
  /\ LET signed == IF event.entryType = "REVERSAL" THEN -event.amountMinor ELSE event.amountMinor
     IN  /\ event.incomeDeltaMinor = IF event.effectEntryType = "INCOME" THEN signed ELSE 0
         /\ event.expenseDeltaMinor = IF event.effectEntryType = "EXPENSE" THEN signed ELSE 0
         /\ event.categorySpendDeltaMinor =
              IF event.effectEntryType = "EXPENSE" /\ event.categoryId # NoCategory
              THEN signed ELSE 0
  /\ event.eventVersion \in {0, 1}

(* The inductive invariant: entries are typed and their events well formed.*)
IInv ==
  /\ TypeOK /\ IsFiniteSet(entries)
  /\ \A event \in outbox : WellFormed(event)

(* A month no consumer takes, or a category name only one of them refuses. *)
Exceptional(event) == event.yearMonth.signed \/ event.categoryName \in UnicodeBlank

OnlyExceptionsRefused ==
  \A event \in outbox :
    event.eventVersion = 1 /\ ~Exceptional(event) => \A c \in Consumers : accepts(c, event)
(***************************************************************************)
(* For the sums: a cell is a number some consumer shows, the income or the *)
(* expense of a month or the spend of a category in it.  An event changes  *)
(* a cell by the amount its consumer projects, and entries count for it.   *)
(***************************************************************************)
Cells ==
  [of : {"income", "expense"}, category : {NoCategory}, month : Months]
    \cup [of : {"spend"}, category : CategoryNames, month : Months]

shown(cell) ==
  IF cell.of = "spend" THEN categorySpend[<<cell.category, cell.month>>]
  ELSE IF cell.of = "income" THEN monthlyTotals[cell.month].income
                             ELSE monthlyTotals[cell.month].expense

change(event, cell) ==
  IF event.yearMonth # cell.month THEN 0
  ELSE IF cell.of = "income" THEN reportingImpact(event).income
  ELSE IF cell.of = "expense" THEN reportingImpact(event).expense
  ELSE IF event.categoryId = cell.category THEN categoryImpact(event) ELSE 0

counts(entry, cell) ==
  /\ entry.entryType = IF cell.of = "income" THEN "INCOME" ELSE "EXPENSE"
  /\ YEAR_MONTH(entry.occurredAt) = cell.month
  /\ cell.of = "spend" => entry.categoryId = cell.category

changesOf(events, cell) == sumOver([event \in events |-> change(event, cell)], events)
amountsOf(someEntries)  == sumOver([e \in someEntries |-> e.amountMinor], someEntries)

projected(cell) ==
  {event \in outbox :
     event.eventId \in processed[IF cell.of = "spend" THEN "budget" ELSE "analytics"]}

counting(cell) == {e \in standing : counts(e, cell)}

(* Ids are numbered, and every event has one of its own.                   *)
Numbered ==
  /\ \A e \in entries :
       /\ e.id <= Cardinality(entries)
       /\ e.reversesEntryId # NoEntry => e.reversesEntryId <= Cardinality(entries)
  /\ \A e, f \in entries : e.id = f.id => e = f
  /\ IsFiniteSet(outbox)
  /\ \A v, w \in outbox : v.eventId = w.eventId => v = w

(* What a cell shows is what the events projected so far add up to, and as *)
(* long as only v1 events were written, all of them add up to the entries  *)
(* that stand: a reversal takes back what its original added.              *)
ShownSound == \A cell \in Cells : shown(cell) = changesOf(projected(cell), cell)

StandingSound ==
  (\A event \in outbox : event.eventVersion = 1) =>
    \A cell \in Cells : changesOf(outbox, cell) = amountsOf(counting(cell))

SumInv == Numbered /\ ShownSound /\ StandingSound
--------------------------------------------------------------------------------
(* What the payload of an event says of the entry and the impact.          *)
LEMMA PayloadFields ==
  ASSUME NEW entry, NEW impact, NEW category, NEW year
  PROVE  LET event == payload(entry, impact, category, year)
         IN  /\ event = [eventVersion |-> 1, eventId |-> entry.id, userId |-> entry.userId,
                         categoryId |-> entry.categoryId, categoryName |-> category,
                         entryType |-> entry.entryType,
                         effectEntryType |-> impact.effectEntryType,
                         amountMinor |-> entry.amountMinor,
                         incomeDeltaMinor |-> impact.incomeDeltaMinor,
                         expenseDeltaMinor |-> impact.expenseDeltaMinor,
                         categorySpendDeltaMinor |-> impact.categorySpendDeltaMinor,
                         yearMonth |-> YEAR_MONTH(year),
                         reversesEntryId |-> entry.reversesEntryId]
             /\ legacyPayload(event) =
                  [eventVersion |-> 0, eventId |-> entry.id, userId |-> entry.userId,
                   categoryId |-> entry.categoryId, categoryName |-> category,
                   entryType |-> entry.entryType,
                   effectEntryType |-> impact.effectEntryType,
                   amountMinor |-> entry.amountMinor,
                   incomeDeltaMinor |-> impact.incomeDeltaMinor,
                   expenseDeltaMinor |-> impact.expenseDeltaMinor,
                   categorySpendDeltaMinor |-> impact.categorySpendDeltaMinor,
                   yearMonth |-> YEAR_MONTH(year),
                   reversesEntryId |-> entry.reversesEntryId]
  BY DEF payload, legacyPayload

(* The entry a request adds is typed, and has the next id.                 *)
LEMMA NewEntry ==
  ASSUME IInv, Cardinality(entries) < MaxEntries, NEW entryType \in EntryType,
         NEW amount \in Amounts, NEW category \in CategoryNames \cup {NoCategory},
         NEW year \in Years, NEW reverses \in 1 .. MaxEntries \cup {NoEntry}
  PROVE  newEntry(entryType, amount, category, year, reverses) \in Entry
<1>1. Cardinality(entries) \in Nat /\ MaxEntries \in Nat
  BY FS_CardinalityType, ContractAssumption DEF IInv
<1>2. Cardinality(entries) + 1 \in 1 .. MaxEntries
  BY <1>1
<1> QED
  BY <1>2 DEF newEntry, Entry

(* An entry and the event that announces it, and what the event says of    *)
(* that entry or, if it is a reversal, of the original.                    *)
Announces(event, entry) ==
  /\ entry \in Entry /\ entry.id = Cardinality(entries) + 1
  /\ event.eventId = entry.id /\ WellFormed(event) /\ event.entryType = entry.entryType
  /\ entries' = entries \cup {entry} /\ outbox' = outbox \cup {event}
  /\ UNCHANGED <<version, projections>>

tells(event, entry) ==
  /\ event.effectEntryType = entry.entryType /\ event.amountMinor = entry.amountMinor
  /\ event.categoryId = entry.categoryId /\ event.yearMonth = YEAR_MONTH(entry.occurredAt)

(* An entry and a well-formed event for it are added together.             *)
LEMMA Announced ==
  ASSUME IInv, NEW entry \in Entry, NEW event, event.eventId = entry.id, WellFormed(event),
         entries' = entries \cup {entry}, outbox' = outbox \cup {event},
         UNCHANGED <<version, projections>>
  PROVE  IInv'
<1>1. IsFiniteSet(entries')
  BY FS_AddElement DEF IInv
<1>2. /\ UNCHANGED <<version, processed, monthlyTotals, categorySpend, notifications>>
  BY DEF projections
<1>3. {x.eventId : x \in outbox'} = {e.id : e \in entries'}
  <2>1. {x.eventId : x \in outbox} = {e.id : e \in entries}
    BY DEF IInv, TypeOK
  <2>2. {x.eventId : x \in outbox'} = {x.eventId : x \in outbox} \cup {event.eventId}
    OBVIOUS
  <2>3. {e.id : e \in entries'} = {e.id : e \in entries} \cup {entry.id}
    OBVIOUS
  <2> QED
    BY <2>1, <2>2, <2>3
<1>4. processed' \in [Consumers -> SUBSET {e.id : e \in entries'}]
  BY <1>2 DEF IInv, TypeOK
<1>5. TypeOK'
  BY <1>2, <1>3, <1>4 DEF IInv, TypeOK, Entry, Months
<1>6. \A x \in outbox' : WellFormed(x)
  BY DEF IInv
<1>7. \A x \in outbox' : WellFormed(x)'
  BY <1>6 DEF WellFormed, Months
<1> QED
  BY <1>1, <1>5, <1>7 DEF IInv

(* Dropping what v0 did not write leaves the rest as it is.                *)
LEMMA EventForWellFormed ==
  ASSUME IInv, NEW entry, NEW impact, NEW category, NEW year,
         WellFormed(payload(entry, impact, category, year))
  PROVE  LET event == eventFor(payload(entry, impact, category, year))
         IN  /\ WellFormed(event) /\ event.eventId = entry.id
             /\ event.entryType = entry.entryType /\ event.amountMinor = entry.amountMinor
             /\ event.effectEntryType = impact.effectEntryType
             /\ event.categoryId = entry.categoryId /\ event.yearMonth = YEAR_MONTH(year)
<1> DEFINE event == payload(entry, impact, category, year)
           same(x) == /\ WellFormed(x) /\ x.eventId = entry.id
                      /\ x.entryType = entry.entryType /\ x.amountMinor = entry.amountMinor
                      /\ x.effectEntryType = impact.effectEntryType
                      /\ x.categoryId = entry.categoryId /\ x.yearMonth = YEAR_MONTH(year)
<1>1. same(event) /\ same(legacyPayload(event))
  BY PayloadFields DEF WellFormed
<1> QED
  BY <1>1 DEF eventFor

(* The event of a posted entry is well formed.                               *)
LEMMA PostEvent ==
  ASSUME IInv, NEW entryType \in EffectTypes, NEW amount \in Amounts,
         NEW category \in CategoryNames \cup {NoCategory}, NEW year \in Years,
         Post(entryType, amount, category, year)
  PROVE  \E entry, event :
           /\ Announces(event, entry) /\ tells(event, entry)
           /\ entry.entryType # "REVERSAL" /\ entry.reversesEntryId = NoEntry
<1> DEFINE entry == newEntry(entryType, amount, category, year, NoEntry)
           event == payload(entry, postedImpact(entry), category, year)
<1>1. entry \in Entry
  BY NewEntry DEF Post, EntryType
<1>2. /\ entry.entryType = entryType /\ entry.amountMinor = amount
      /\ entry.categoryId = category /\ entry.occurredAt = year
      /\ entry.reversesEntryId = NoEntry /\ entry.id = Cardinality(entries) + 1
  BY DEF newEntry
<1>3. WellFormed(event)
  <2>1. amount \in 1 .. MaxSafeInteger /\ YEAR_MONTH(year) \in Months
    BY ContractAssumption DEF Months
  <2>2. entryType # "REVERSAL" /\ entryType \in EntryType
    BY DEF EffectTypes, EntryType
  <2> QED
    BY <1>2, <2>1, <2>2, PayloadFields DEF WellFormed, postedImpact, forPostedEntry
<1>4. postedImpact(entry).effectEntryType = entryType
  BY <1>2 DEF postedImpact, forPostedEntry
<1>5. /\ WellFormed(eventFor(event)) /\ eventFor(event).eventId = entry.id
      /\ eventFor(event).entryType = entryType /\ tells(eventFor(event), entry)
  BY <1>2, <1>3, <1>4, EventForWellFormed DEF tells
<1>6. Announces(eventFor(event), entry)
  BY <1>1, <1>2, <1>5 DEF Announces, Post
<1>7. entryType # "REVERSAL"
  BY DEF EffectTypes
<1> QED
  BY <1>2, <1>5, <1>6, <1>7

(* The event of a reversal is well formed.                                   *)
LEMMA ReverseEvent ==
  ASSUME IInv, NEW original \in entries, NEW now \in Years, Reverse(original, now)
  PROVE  \E entry, event :
           /\ Announces(event, entry) /\ tells(event, original)
           /\ entry.entryType = "REVERSAL" /\ entry.reversesEntryId = original.id
<1> DEFINE entry == newEntry("REVERSAL", original.amountMinor, original.categoryId, now,
                             original.id)
           event == payload(entry, inverse(postedImpact(original)), original.categoryId,
                            original.occurredAt)
<1>1. original \in Entry /\ original.entryType \in EffectTypes
  BY DEF IInv, TypeOK, Entry, Reverse, EntryType
<1>2. entry \in Entry
  BY <1>1, NewEntry DEF Reverse, Entry, EntryType
<1>3. /\ entry.entryType = "REVERSAL" /\ entry.amountMinor = original.amountMinor
      /\ entry.categoryId = original.categoryId /\ entry.reversesEntryId = original.id
      /\ entry.id = Cardinality(entries) + 1
  BY DEF newEntry
<1>4. WellFormed(event)
  <2>1. /\ original.amountMinor \in 1 .. MaxSafeInteger
        /\ YEAR_MONTH(original.occurredAt) \in Months
        /\ original.categoryId \in CategoryNames \cup {NoCategory}
        /\ MaxSafeInteger \in Nat
    BY <1>1, ContractAssumption DEF Months, Entry
  <2> QED
    BY <1>1, <1>3, <2>1, PayloadFields
       DEF WellFormed, postedImpact, inverse, forPostedEntry, EntryType
<1>5. inverse(postedImpact(original)).effectEntryType = original.entryType
  BY DEF postedImpact, inverse, forPostedEntry
<1>6. /\ WellFormed(eventFor(event)) /\ eventFor(event).eventId = entry.id
      /\ eventFor(event).entryType = "REVERSAL" /\ tells(eventFor(event), original)
  BY <1>3, <1>4, <1>5, EventForWellFormed DEF tells
<1>7. Announces(eventFor(event), entry)
  BY <1>2, <1>3, <1>6 DEF Announces, Reverse
<1> QED
  BY <1>3, <1>6, <1>7

(* So both keep the invariant.                                             *)
LEMMA AnnouncedKeeps ==
  ASSUME IInv, NEW entry, NEW event, Announces(event, entry)
  PROVE  IInv'
  BY Announced DEF Announces
--------------------------------------------------------------------------------
(* A consumer that processes an event keeps its projection typed.          *)
LEMMA HandleKeeps ==
  ASSUME IInv, NEW event \in outbox,
         \/ AnalyticsHandleEvent(event) \/ BudgetHandleEvent(event)
         \/ NotificationHandleEvent(event)
  PROVE  IInv'
<1>1. /\ WellFormed(event) /\ event.eventId \in {e.id : e \in entries}
      /\ UNCHANGED <<version, entries, outbox>>
  BY DEF IInv, TypeOK, AnalyticsHandleEvent, BudgetHandleEvent, NotificationHandleEvent
<1>2. /\ event.amountMinor \in Int /\ event.incomeDeltaMinor \in Int
      /\ event.expenseDeltaMinor \in Int /\ event.categorySpendDeltaMinor \in Int
      /\ event.yearMonth \in Months
  BY <1>1, ContractAssumption DEF WellFormed
<1>3. processed' \in [Consumers -> SUBSET {e.id : e \in entries}]
  <2>1. PICK c \in Consumers :
          processed' = [processed EXCEPT ![c] = @ \cup {event.eventId}]
    BY DEF AnalyticsHandleEvent, BudgetHandleEvent, NotificationHandleEvent, Consumers
  <2>2. processed \in [Consumers -> SUBSET {e.id : e \in entries}]
    BY DEF IInv, TypeOK
  <2> DEFINE ids == {e.id : e \in entries}
  <2>3. event.eventId \in ids /\ processed \in [Consumers -> SUBSET ids]
    BY <1>1, <2>2
  <2> HIDE DEF ids
  <2>4. processed' \in [Consumers -> SUBSET ids]
    BY <2>1, <2>3
  <2> QED
    BY <2>4 DEF ids
<1>4. /\ reportingImpact(event).income \in Int /\ reportingImpact(event).expense \in Int
      /\ categoryImpact(event) \in Int
  BY <1>2 DEF reportingImpact, categoryImpact
<1>5. monthlyTotals' \in [Months -> [income : Int, expense : Int]]
  BY <1>2, <1>4 DEF IInv, TypeOK, AnalyticsHandleEvent, BudgetHandleEvent,
                    NotificationHandleEvent
<1>6. categorySpend' \in [CategoryNames \X Months -> Int]
  <2>1. CASE UNCHANGED categorySpend
    BY <2>1 DEF IInv, TypeOK, Months
  <2>2. CASE BudgetHandleEvent(event) /\ categorySpend' # categorySpend
    <3> DEFINE rows == CategoryNames \X Months
               row  == <<event.categoryId, event.yearMonth>>
               impact == categoryImpact(event)
    <3>1. /\ categorySpend' = [categorySpend EXCEPT ![row] = categorySpend[row] + impact]
          /\ impact # 0
      BY <2>2 DEF BudgetHandleEvent
    <3>2. event.categoryId \in CategoryNames
      BY <1>1, <3>1 DEF categoryImpact, WellFormed
    <3>3. row \in rows /\ categorySpend \in [rows -> Int] /\ impact \in Int
      BY <1>2, <1>4, <3>2 DEF IInv, TypeOK
    <3> HIDE DEF rows, row, impact
    <3>4. categorySpend' \in [rows -> Int]
      BY <3>1, <3>3
    <3> QED
      BY <3>4 DEF rows
  <2> QED
    BY <2>1, <2>2 DEF AnalyticsHandleEvent, NotificationHandleEvent
<1>7. notifications' \subseteq processed'["notification"]
  BY DEF IInv, TypeOK, AnalyticsHandleEvent, BudgetHandleEvent, NotificationHandleEvent,
         Consumers
<1>8. TypeOK'
  BY <1>1, <1>3, <1>5, <1>6, <1>7 DEF IInv, TypeOK, Months
<1> QED
  BY <1>1, <1>8 DEF IInv, WellFormed, Months

(* At first there is no entry and no event.                                  *)
LEMMA InitIInv == Init => IInv
<1> SUFFICES ASSUME Init PROVE IInv
  OBVIOUS
<1>1. IsFiniteSet(entries)
  BY FS_EmptySet DEF Init
<1>2. TypeOK
  BY ContractAssumption DEF Init, TypeOK, Months, Consumers
<1> QED
  BY <1>1, <1>2 DEF Init, IInv

(* Posting, reversing and consuming keep events well formed.                 *)
LEMMA StepKeeps == ASSUME IInv, [Next]_vars PROVE IInv'
<1>1. CASE Upgrade
  BY <1>1 DEF Upgrade, projections, IInv, TypeOK, WellFormed, Months
<1>2. CASE UNCHANGED vars
  BY <1>2 DEF vars, IInv, TypeOK, WellFormed, Months
<1> QED
  BY <1>1, <1>2, PostEvent, ReverseEvent, AnnouncedKeeps, HandleKeeps DEF Next

(* So every event of every behaviour is well formed.                         *)
LEMMA Invariance == Spec => []IInv
  BY InitIInv, StepKeeps, PTL DEF Spec

(* Every variable has its type, whatever is posted, reversed and projected *)
(* in whatever order.                                                      *)
THEOREM TypeCorrect == Spec => []TypeOK
  BY Invariance, PTL DEF IInv

(***************************************************************************)
(* Of the v1 events the ledger writes, a consumer refuses only those whose *)
(* month needs more than four digits or whose category is invisible: the   *)
(* two reasons the counterexamples show are the only ones.                 *)
(***************************************************************************)
THEOREM NothingElseRefused == Spec => []OnlyExceptionsRefused
<1>1. IInv => OnlyExceptionsRefused
  <2> SUFFICES ASSUME IInv, NEW event \in outbox, event.eventVersion = 1,
                      ~Exceptional(event), NEW c \in Consumers
               PROVE  accepts(c, event)
    BY DEF OnlyExceptionsRefused
  <2>1. WellFormed(event) /\ ~event.yearMonth.signed /\ event.categoryName \notin UnicodeBlank
        /\ MaxSafeInteger \in Nat
    BY ContractAssumption DEF IInv, Exceptional
  <2>2. analyticsAccepts(event)
    BY <2>1 DEF WellFormed, analyticsAccepts, validateV1ReportingImpact,
                matchesYearMonthPattern
  <2>3. budgetAccepts(event)
    BY <2>1 DEF WellFormed, budgetAccepts, validateV1CategoryImpact, expectedCategoryDelta,
                matchesYearMonthPattern
  <2>4. notificationAccepts(event)
    BY <2>1 DEF WellFormed, notificationAccepts, matchesYearMonthPattern
  <2> QED
    BY <2>2, <2>3, <2>4 DEF accepts, Consumers
<1> QED
  BY <1>1, Invariance, PTL

(***************************************************************************)
(* Where neither occurs, all three consumers accept every v1 event         *)
(* (AllConsumersAccept), those of reversals of v0 entries included.        *)
(***************************************************************************)
THEOREM ConsumersAccept ==
  ASSUME \A year \in Years : ~YEAR_MONTH(year).signed, UnicodeBlank = {}
  PROVE  Spec => []AllConsumersAccept
<1>1. IInv /\ OnlyExceptionsRefused => AllConsumersAccept
  BY DEF IInv, WellFormed, Months, Exceptional, OnlyExceptionsRefused, AllConsumersAccept
<1> QED
  BY <1>1, Invariance, NothingElseRefused, PTL
--------------------------------------------------------------------------------
LEMMA CellsTyped ==
  ASSUME NEW cell \in Cells
  PROVE  /\ cell.of \in {"income", "expense", "spend"} /\ cell.month \in Months
         /\ cell.of = "spend" => cell.category \in CategoryNames
  BY DEF Cells

LEMMA ChangeInt ==
  ASSUME NEW event, WellFormed(event), NEW cell
  PROVE  change(event, cell) \in Int
<1>1. /\ event.amountMinor \in Int /\ event.incomeDeltaMinor \in Int
      /\ event.expenseDeltaMinor \in Int /\ event.categorySpendDeltaMinor \in Int
  BY ContractAssumption DEF WellFormed
<1> QED
  BY <1>1 DEF change, reportingImpact, categoryImpact

(* The library's sum of amounts, as the one the sum theorems are about.    *)
LEMMA AmountSum ==
  ASSUME NEW S, IsFiniteSet(S)
  PROVE  MapThenSumSet(amountOf, S) = amountsOf(S)
<1> DEFINE f       == [e \in S |-> e.amountMinor]
           sums(g) == [s \in SUBSET S |->
                         IF s = {} THEN 0 ELSE first(s).amountMinor + g[s \ {first(s)}]]
<1>1. \A s \in SUBSET S : s # {} => f[first(s)] = first(s).amountMinor
  BY FirstOfSet
<1>2. \A g : g = sums(g) <=> addsUp(f, SUBSET S, g)
  <2> HIDE DEF f
  <2> QED
    BY <1>1 DEF addsUp, round
<1>3. MapThenSumSet(amountOf, S) = (CHOOSE g : g = sums(g))[S]
  BY DEF MapThenSumSet, MapThenFoldSet, first, amountOf
<1>4. amountsOf(S) = recursion(f, S)[S]
  BY SumByRecursion DEF amountsOf
<1> HIDE DEF f, sums
<1>5. (CHOOSE g : g = sums(g)) = recursion(f, S)
  BY <1>2 DEF recursion
<1> QED
  BY <1>3, <1>4, <1>5

(* One more event, one more standing entry, one less.                      *)
LEMMA ChangesAdd ==
  ASSUME NEW events, IsFiniteSet(events), NEW event, event \notin events, NEW cell,
         \A v \in events \cup {event} : WellFormed(v)
  PROVE  /\ changesOf(events \cup {event}, cell) = changesOf(events, cell) + change(event, cell)
         /\ changesOf(events, cell) \in Int
<1>1. PICK f : f = [v \in events \cup {event} |-> change(v, cell)]
  OBVIOUS
<1>2. PICK g : g = [v \in events |-> change(v, cell)]
  OBVIOUS
<1>3. \A v \in events \cup {event} : f[v] = change(v, cell) /\ f[v] \in Int
  BY <1>1, ChangeInt
<1>4. \A v \in events : f[v] = g[v] /\ g[v] \in Int
  BY <1>2, <1>3
<1>5. sumOver(f, events \cup {event}) = sumOver(f, events) + f[event]
  BY <1>3, SumAdd
<1>6. sumOver(f, events) = sumOver(g, events) /\ sumOver(g, events) \in Int
  BY <1>4, SumSame, SumInt
<1> QED
  BY <1>1, <1>2, <1>3, <1>5, <1>6 DEF changesOf

LEMMA AmountsAdd ==
  ASSUME NEW S, IsFiniteSet(S), NEW e, e \notin S, \A x \in S \cup {e} : x.amountMinor \in Int
  PROVE  amountsOf(S \cup {e}) = amountsOf(S) + e.amountMinor /\ amountsOf(S) \in Int
<1>1. PICK f : f = [x \in S \cup {e} |-> x.amountMinor]
  OBVIOUS
<1>2. PICK g : g = [x \in S |-> x.amountMinor]
  OBVIOUS
<1>3. \A x \in S \cup {e} : f[x] = x.amountMinor /\ f[x] \in Int
  BY <1>1
<1>4. \A x \in S : f[x] = g[x] /\ g[x] \in Int
  BY <1>2, <1>3
<1>5. sumOver(f, S \cup {e}) = sumOver(f, S) + f[e]
  BY <1>3, SumAdd
<1>6. sumOver(f, S) = sumOver(g, S) /\ sumOver(g, S) \in Int
  BY <1>4, SumSame, SumInt
<1> QED
  BY <1>1, <1>2, <1>3, <1>5, <1>6 DEF amountsOf

LEMMA NothingAddsUp == \A cell : changesOf({}, cell) = 0 /\ amountsOf({}) = 0
  BY SumEmpty DEF amountsOf, changesOf

(* An id that nobody has yet.                                              *)
LEMMA FreshId ==
  ASSUME IInv, Numbered, NEW entry, entry.id = Cardinality(entries) + 1
  PROVE  /\ entry \notin entries /\ Cardinality(entries) \in Nat
         /\ Cardinality(entries \cup {entry}) = Cardinality(entries) + 1
         /\ \A e \in entries : e.id # entry.id /\ e.reversesEntryId # entry.id
         /\ \A v \in outbox : v.eventId # entry.id
         /\ \A c \in Consumers : entry.id \notin processed[c]
<1>1. Cardinality(entries) \in Nat /\ NoEntry \notin Nat
  BY FS_CardinalityType, ContractAssumption DEF IInv
<1>2. \A e \in entries : e \in Entry
  BY DEF IInv, TypeOK, Entry
<1>3. \A e \in entries : e.id # entry.id /\ e.reversesEntryId # entry.id
  <2> SUFFICES ASSUME NEW e \in entries PROVE e.id # entry.id /\ e.reversesEntryId # entry.id
    OBVIOUS
  <2>1. e.id \in Int /\ e.id <= Cardinality(entries)
    BY <1>2 DEF Entry, Numbered
  <2>2. e.reversesEntryId # NoEntry =>
          e.reversesEntryId \in Int /\ e.reversesEntryId <= Cardinality(entries)
    BY <1>2 DEF Entry, Numbered
  <2> QED
    BY <1>1, <2>1, <2>2
<1>4. entry.id \notin {e.id : e \in entries} /\ entry \notin entries
  BY <1>3
<1>5. \A v \in outbox : v.eventId # entry.id
  BY <1>4 DEF IInv, TypeOK
<1>6. \A c \in Consumers : entry.id \notin processed[c]
  BY <1>4 DEF IInv, TypeOK
<1>7. Cardinality(entries \cup {entry}) = Cardinality(entries) + 1
  BY <1>4, FS_AddElement DEF IInv
<1> QED
  BY <1>1, <1>3, <1>4, <1>5, <1>6, <1>7

(* A new entry is numbered, and what consumers show is not touched.        *)
LEMMA AnnouncedNumbered ==
  ASSUME IInv, Numbered, NEW entry \in Entry, entry.id = Cardinality(entries) + 1,
         entry.reversesEntryId # NoEntry => entry.reversesEntryId <= Cardinality(entries),
         NEW event, event.eventId = entry.id,
         entries' = entries \cup {entry}, outbox' = outbox \cup {event}
  PROVE  Numbered' /\ event \notin outbox
<1>1. /\ Cardinality(entries) \in Nat /\ Cardinality(entries') = Cardinality(entries) + 1
      /\ \A e \in entries : e.id # entry.id
      /\ \A v \in outbox : v.eventId # event.eventId
  BY FreshId
<1>2. \A e \in entries' :
        /\ e.id <= Cardinality(entries')
        /\ e.reversesEntryId # NoEntry => e.reversesEntryId <= Cardinality(entries')
  <2> SUFFICES ASSUME NEW e \in entries'
               PROVE  /\ e.id <= Cardinality(entries')
                      /\ e.reversesEntryId # NoEntry => e.reversesEntryId <= Cardinality(entries')
    OBVIOUS
  <2>1. e \in Entry
    BY DEF IInv, TypeOK, Entry
  <2>2. e.id \in Int /\ (e.reversesEntryId # NoEntry => e.reversesEntryId \in Int)
    BY <2>1 DEF Entry
  <2>3. /\ e.id <= Cardinality(entries) + 1
        /\ e.reversesEntryId # NoEntry => e.reversesEntryId <= Cardinality(entries) + 1
    BY <1>1, <2>2 DEF Numbered
  <2> QED
    BY <1>1, <2>3
<1>3. \A e, f \in entries' : e.id = f.id => e = f
  BY <1>1 DEF Numbered
<1>4. IsFiniteSet(outbox')
  BY FS_AddElement DEF Numbered
<1>5. \A v, w \in outbox' : v.eventId = w.eventId => v = w
  BY <1>1 DEF Numbered
<1> QED
  BY <1>1, <1>2, <1>3, <1>4, <1>5 DEF Numbered

LEMMA AnnouncedShown ==
  ASSUME IInv, Numbered, ShownSound, NEW entry, entry.id = Cardinality(entries) + 1,
         NEW event, event.eventId = entry.id, outbox' = outbox \cup {event},
         UNCHANGED projections
  PROVE  ShownSound'
<1>1. UNCHANGED <<processed, monthlyTotals, categorySpend>>
  BY DEF projections
<1>2. \A c \in Consumers : event.eventId \notin processed[c]
  BY FreshId
<1>3. ASSUME NEW cell \in Cells PROVE projected(cell)' = projected(cell)
  BY <1>1, <1>2 DEF projected, Consumers
<1>4. \A cell \in Cells : shown(cell)' = shown(cell)
  BY <1>1 DEF shown
<1> QED
  BY <1>3, <1>4 DEF ShownSound, Cells, Months
(* What a v1 event changes, by the entry it tells of.                      *)
LEMMA EventChange ==
  ASSUME NEW event, WellFormed(event), event.eventVersion = 1, NEW entry, tells(event, entry),
         NEW cell \in Cells
  PROVE  change(event, cell) =
           IF ~counts(entry, cell) THEN 0
           ELSE IF event.entryType = "REVERSAL" THEN -entry.amountMinor ELSE entry.amountMinor
<1>1. /\ cell.of \in {"income", "expense", "spend"}
      /\ cell.of = "spend" => cell.category # NoCategory
  BY CellsTyped, ContractAssumption
<1>2. PICK signed : signed = IF event.entryType = "REVERSAL" THEN -entry.amountMinor
                                                             ELSE entry.amountMinor
  OBVIOUS
<1>3. /\ reportingImpact(event).income = IF entry.entryType = "INCOME" THEN signed ELSE 0
      /\ reportingImpact(event).expense = IF entry.entryType = "EXPENSE" THEN signed ELSE 0
      /\ categoryImpact(event) =
           IF entry.entryType = "EXPENSE" /\ entry.categoryId # NoCategory THEN signed ELSE 0
      /\ event.yearMonth = YEAR_MONTH(entry.occurredAt) /\ event.categoryId = entry.categoryId
  BY <1>2 DEF WellFormed, tells, reportingImpact, categoryImpact
<1>4. CASE YEAR_MONTH(entry.occurredAt) # cell.month
  BY <1>3, <1>4 DEF change, counts
<1>5. CASE YEAR_MONTH(entry.occurredAt) = cell.month
  BY <1>1, <1>2, <1>3, <1>5 DEF change, counts
<1> QED
  BY <1>4, <1>5

LEMMA EntryNumbers ==
  ASSUME NEW e \in Entry
  PROVE  e.id # NoEntry /\ e.amountMinor \in Int
<1>1. e.id \in 1 .. MaxEntries /\ e.amountMinor \in Amounts
  BY DEF Entry
<1>2. Amounts \subseteq 1 .. MaxSafeInteger /\ MaxSafeInteger \in Nat /\ NoEntry \notin Nat
      /\ MaxEntries \in Nat
  BY ContractAssumption
<1>3. e.amountMinor \in 1 .. MaxSafeInteger
  BY <1>1, <1>2
<1> QED
  BY <1>1, <1>2, <1>3

LEMMA CountingFinite ==
  ASSUME IInv, NEW cell
  PROVE  /\ IsFiniteSet(counting(cell))
         /\ \A e \in entries : e.amountMinor \in Int
<1>1. counting(cell) \subseteq entries
  BY DEF counting, standing
<1>2. \A e \in entries : e.amountMinor \in Int
  BY EntryNumbers DEF IInv, TypeOK, Entry
<1> QED
  BY <1>1, <1>2, FS_Subset DEF IInv

(* A v1 event adds to all events of a cell what it changes.                *)
LEMMA AnnouncedChanges ==
  ASSUME IInv, Numbered, NEW entry, NEW event, Announces(event, entry), NEW cell
  PROVE  /\ changesOf(outbox', cell) = changesOf(outbox, cell) + change(event, cell)
         /\ changesOf(outbox, cell) \in Int
<1>1. event \notin outbox /\ outbox' = outbox \cup {event} /\ IsFiniteSet(outbox)
  BY FreshId DEF Announces, Numbered
<1>2. \A v \in outbox \cup {event} : WellFormed(v)
  BY DEF IInv, Announces
<1> QED
  BY <1>1, <1>2, ChangesAdd

LEMMA PostStanding ==
  ASSUME IInv, Numbered, StandingSound, NEW entry, NEW event, Announces(event, entry),
         tells(event, entry), entry.entryType # "REVERSAL", entry.reversesEntryId = NoEntry
  PROVE  StandingSound'
<1>1. SUFFICES ASSUME \A v \in outbox' : v.eventVersion = 1, NEW cell \in Cells
               PROVE  changesOf(outbox', cell) = amountsOf(counting(cell)')
  BY DEF StandingSound, Cells, Months
<1>2. event.eventVersion = 1 /\ changesOf(outbox, cell) = amountsOf(counting(cell))
  BY <1>1 DEF StandingSound, Announces
<1>3. /\ changesOf(outbox', cell) = changesOf(outbox, cell) + change(event, cell)
      /\ changesOf(outbox, cell) \in Int
  BY AnnouncedChanges
<1>4. /\ entry \notin entries /\ entries' = entries \cup {entry} /\ entry.amountMinor \in Int
      /\ \A e \in entries : e.reversesEntryId # entry.id
      /\ entry.id # NoEntry /\ \A e \in entries : e.id # NoEntry
  <2>1. entry \in Entry /\ \A e \in entries : e \in Entry
    BY DEF Announces, IInv, TypeOK, Entry
  <2>2. \A e \in Entry : e.id # NoEntry /\ e.amountMinor \in Int
    BY EntryNumbers
  <2> QED
    BY <2>1, <2>2, FreshId DEF Announces
<1>5. change(event, cell) = IF counts(entry, cell) THEN entry.amountMinor ELSE 0
  BY <1>2, EventChange DEF Announces
<1>6. standing' = standing \cup {entry}
  BY <1>4 DEF standing
<1>7. counting(cell)' = IF counts(entry, cell) THEN counting(cell) \cup {entry}
                                               ELSE counting(cell)
  BY <1>6 DEF counting
<1>8. /\ IsFiniteSet(counting(cell)) /\ entry \notin counting(cell)
      /\ \A e \in counting(cell) \cup {entry} : e.amountMinor \in Int
  BY <1>4, CountingFinite DEF counting, standing
<1>9. amountsOf(counting(cell) \cup {entry}) = amountsOf(counting(cell)) + entry.amountMinor
  BY <1>8, AmountsAdd
<1> QED
  BY <1>2, <1>3, <1>5, <1>7, <1>9

LEMMA ReverseStanding ==
  ASSUME IInv, Numbered, StandingSound, NEW original \in entries,
         original.entryType # "REVERSAL",
         \A e \in entries : e.reversesEntryId # original.id,
         NEW entry, NEW event, Announces(event, entry), tells(event, original),
         entry.entryType = "REVERSAL", entry.reversesEntryId = original.id
  PROVE  StandingSound'
<1>1. SUFFICES ASSUME \A v \in outbox' : v.eventVersion = 1, NEW cell \in Cells
               PROVE  changesOf(outbox', cell) = amountsOf(counting(cell)')
  BY DEF StandingSound, Cells, Months
<1>2. event.eventVersion = 1 /\ changesOf(outbox, cell) = amountsOf(counting(cell))
  BY <1>1 DEF StandingSound, Announces
<1>3. /\ changesOf(outbox', cell) = changesOf(outbox, cell) + change(event, cell)
      /\ changesOf(outbox, cell) \in Int
  BY AnnouncedChanges
<1>4. change(event, cell) = IF counts(original, cell) THEN -original.amountMinor ELSE 0
  BY <1>2, EventChange DEF Announces
<1>5. entries' = entries \cup {entry} /\ \A e \in entries : e.id = original.id => e = original
  BY DEF Announces, Numbered
<1>6. standing' = standing \ {original} /\ original \in standing
  BY <1>5 DEF standing
<1>7. counting(cell)' = IF counts(original, cell) THEN counting(cell) \ {original}
                                                  ELSE counting(cell)
  BY <1>6 DEF counting
<1>8. CASE counts(original, cell)
  <2>1. PICK rest : rest = counting(cell) \ {original}
    OBVIOUS
  <2>2. counting(cell) = rest \cup {original}
    BY <1>6, <1>8, <2>1 DEF counting
  <2>3. IsFiniteSet(rest) /\ original \notin rest
        /\ \A e \in rest \cup {original} : e.amountMinor \in Int
    BY <2>1, CountingFinite, FS_Subset DEF counting, standing
  <2>4. /\ amountsOf(counting(cell)) = amountsOf(rest) + original.amountMinor
        /\ amountsOf(rest) \in Int
    BY <2>2, <2>3, AmountsAdd
  <2> QED
    BY <1>2, <1>3, <1>4, <1>7, <1>8, <2>1, <2>3, <2>4
<1>9. CASE ~counts(original, cell)
  BY <1>2, <1>3, <1>4, <1>7, <1>9
<1> QED
  BY <1>8, <1>9
(* A consumer that projects an event shows what it changes, in its cells.  *)
LEMMA HandledShown ==
  ASSUME IInv, Numbered, ShownSound, NEW event \in outbox,
         \/ AnalyticsHandleEvent(event) \/ BudgetHandleEvent(event)
         \/ NotificationHandleEvent(event)
  PROVE  ShownSound'
<1> SUFFICES ASSUME NEW cell \in Cells
             PROVE  shown(cell)' = changesOf(projected(cell)', cell)
  BY DEF ShownSound, Cells, Months
<1>1. PICK c \in Consumers :
        /\ processed' = [processed EXCEPT ![c] = @ \cup {event.eventId}]
        /\ event.eventId \notin processed[c] /\ UNCHANGED outbox
        /\ c = "analytics" => AnalyticsHandleEvent(event)
        /\ c = "budget" => BudgetHandleEvent(event)
        /\ c = "notification" => NotificationHandleEvent(event)
  BY DEF AnalyticsHandleEvent, BudgetHandleEvent, NotificationHandleEvent, Consumers
<1>2. PICK own \in Consumers : own = IF cell.of = "spend" THEN "budget" ELSE "analytics"
  BY DEF Consumers
<1>3. /\ projected(cell) = {v \in outbox : v.eventId \in processed[own]}
      /\ projected(cell)' = {v \in outbox : v.eventId \in processed'[own]}
  BY <1>1, <1>2 DEF projected
<1>4. shown(cell) = changesOf(projected(cell), cell)
  BY DEF ShownSound
<1>5. processed \in [Consumers -> SUBSET {e.id : e \in entries}]
  BY DEF IInv, TypeOK
<1>6. /\ cell.of \in {"income", "expense", "spend"} /\ cell.month \in Months
      /\ cell.of = "spend" => cell.category \in CategoryNames
  BY CellsTyped
<1>7. CASE c # own
  <2>1. projected(cell)' = projected(cell)
    BY <1>1, <1>3, <1>5, <1>7
  <2>2. shown(cell)' = shown(cell)
    BY <1>1, <1>2, <1>6, <1>7
       DEF shown, Consumers, AnalyticsHandleEvent, BudgetHandleEvent, NotificationHandleEvent
  <2> QED
    BY <1>4, <2>1, <2>2
<1>8. CASE c = own
  <2>1. projected(cell)' = projected(cell) \cup {event} /\ event \notin projected(cell)
    <3>1. processed'[own] = processed[own] \cup {event.eventId}
      BY <1>1, <1>5, <1>8
    <3> QED
      BY <1>1, <1>3, <1>8, <3>1 DEF Numbered
  <2>2. IsFiniteSet(projected(cell)) /\ \A v \in projected(cell) \cup {event} : WellFormed(v)
    BY FS_Subset DEF projected, Numbered, IInv
  <2>3. changesOf(projected(cell)', cell) = shown(cell) + change(event, cell)
    BY <1>4, <2>1, <2>2, ChangesAdd
  <2>4. WellFormed(event) /\ event.yearMonth \in Months
    BY DEF IInv, WellFormed
  <2>5. shown(cell)' = shown(cell) + change(event, cell)
    <3>1. CASE cell.of = "spend"
      <4> DEFINE row == <<event.categoryId, event.yearMonth>>
                 own_row == <<cell.category, cell.month>>
                 spend == categorySpend
      <4>1. BudgetHandleEvent(event)
        BY <1>1, <1>2, <1>8, <3>1
      <4>2. own_row \in CategoryNames \X Months /\ categorySpend \in [CategoryNames \X Months -> Int]
        BY <1>6, <3>1 DEF IInv, TypeOK
      <4>3. change(event, cell) = IF row = own_row THEN categoryImpact(event) ELSE 0
        BY <1>6, <3>1 DEF change
      <4>4. categorySpend'[own_row] = categorySpend[own_row] + change(event, cell)
        <5>1. categorySpend[own_row] \in Int
          BY <4>2
        <5>2. CASE categoryImpact(event) = 0
          BY <4>1, <4>3, <5>1, <5>2 DEF BudgetHandleEvent
        <5>3. CASE categoryImpact(event) # 0
          <6>1. categorySpend' = [categorySpend EXCEPT ![row] =
                                    categorySpend[row] + categoryImpact(event)]
            BY <4>1, <5>3 DEF BudgetHandleEvent
          <6> HIDE DEF row, own_row
          <6> QED
            BY <4>2, <4>3, <5>1, <6>1
        <5> QED
          BY <5>2, <5>3
      <4> QED
        BY <3>1, <4>4 DEF shown
    <3>2. CASE cell.of # "spend"
      <4>1. AnalyticsHandleEvent(event)
        BY <1>1, <1>2, <1>8, <3>2
      <4>2. monthlyTotals \in [Months -> [income : Int, expense : Int]]
        BY DEF IInv, TypeOK
      <4>3. monthlyTotals' = [monthlyTotals EXCEPT ![event.yearMonth] =
              [income  |-> monthlyTotals[event.yearMonth].income + reportingImpact(event).income,
               expense |-> monthlyTotals[event.yearMonth].expense + reportingImpact(event).expense]]
        BY <4>1 DEF AnalyticsHandleEvent
      <4>4. CASE event.yearMonth = cell.month
        BY <1>6, <2>4, <3>2, <4>2, <4>3, <4>4 DEF shown, change
      <4>5. CASE event.yearMonth # cell.month
        <5>1. monthlyTotals'[cell.month] = monthlyTotals[cell.month]
          BY <1>6, <4>2, <4>3, <4>5
        <5>2. monthlyTotals[cell.month].income \in Int /\ monthlyTotals[cell.month].expense \in Int
          BY <1>6, <4>2
        <5> QED
          BY <1>6, <3>2, <4>5, <5>1, <5>2 DEF shown, change
      <4> QED
        BY <4>4, <4>5
    <3> QED
      BY <3>1, <3>2
  <2> QED
    BY <2>3, <2>5
<1> QED
  BY <1>7, <1>8

LEMMA InitSumInv == ASSUME Init PROVE SumInv
<1>1. Numbered /\ IsFiniteSet({})
  BY FS_EmptySet DEF Init, Numbered
<1>2. ASSUME NEW cell \in Cells
      PROVE  shown(cell) = 0 /\ projected(cell) = {} /\ outbox = {} /\ counting(cell) = {}
  <2>1. /\ cell.of \in {"income", "expense", "spend"} /\ cell.month \in Months
        /\ cell.of = "spend" => <<cell.category, cell.month>> \in CategoryNames \X Months
    BY CellsTyped
  <2> QED
    BY <2>1 DEF Init, shown, projected, counting, standing
<1> QED
  BY <1>1, <1>2, NothingAddsUp DEF SumInv, ShownSound, StandingSound

LEMMA StepSumInv == ASSUME IInv, SumInv, [Next]_vars PROVE SumInv'
<1>1. ASSUME NEW entryType \in EffectTypes, NEW amount \in Amounts,
             NEW category \in CategoryNames \cup {NoCategory}, NEW year \in Years,
             Post(entryType, amount, category, year)
      PROVE  SumInv'
  <2>1. PICK entry, event :
          /\ Announces(event, entry) /\ tells(event, entry)
          /\ entry.entryType # "REVERSAL" /\ entry.reversesEntryId = NoEntry
    BY <1>1, PostEvent
  <2>2. StandingSound'
    BY <2>1, PostStanding DEF SumInv
  <2>3. ShownSound'
    BY <2>1, AnnouncedShown DEF SumInv, Announces
  <2>4. Numbered'
    BY <2>1, AnnouncedNumbered DEF SumInv, Announces
  <2> QED
    BY <2>2, <2>3, <2>4 DEF SumInv
<1>2. ASSUME NEW original \in entries, NEW now \in Years, Reverse(original, now)
      PROVE  SumInv'
  <2>1. PICK entry, event :
          /\ Announces(event, entry) /\ tells(event, original)
          /\ entry.entryType = "REVERSAL" /\ entry.reversesEntryId = original.id
    BY <1>2, ReverseEvent
  <2>2. /\ original.entryType # "REVERSAL"
        /\ \A e \in entries : e.reversesEntryId # original.id
        /\ original.id <= Cardinality(entries)
    BY <1>2 DEF Reverse, SumInv, Numbered
  <2>3. StandingSound'
    BY <2>1, <2>2, ReverseStanding DEF SumInv
  <2>4. ShownSound'
    BY <2>1, AnnouncedShown DEF SumInv, Announces
  <2>5. Numbered'
    BY <2>1, <2>2, AnnouncedNumbered DEF SumInv, Announces
  <2> QED
    BY <2>3, <2>4, <2>5 DEF SumInv
<1>3. UNCHANGED <<entries, outbox>> => Numbered' /\ StandingSound'
  BY DEF SumInv, Numbered, StandingSound, counting, standing, Cells, Months
<1>4. CASE Upgrade \/ UNCHANGED vars
  <2>1. UNCHANGED <<entries, outbox, processed, monthlyTotals, categorySpend>>
    BY <1>4 DEF Upgrade, vars, projections
  <2>2. \A cell \in Cells : shown(cell)' = shown(cell) /\ projected(cell)' = projected(cell)
    BY <2>1 DEF shown, projected
  <2>3. ShownSound'
    BY <2>2 DEF SumInv, ShownSound, Cells, Months
  <2> QED
    BY <1>3, <2>1, <2>3 DEF SumInv
<1>5. ASSUME NEW event \in outbox,
             \/ AnalyticsHandleEvent(event) \/ BudgetHandleEvent(event)
             \/ NotificationHandleEvent(event)
      PROVE  SumInv'
  <2>1. UNCHANGED <<entries, outbox>>
    BY <1>5 DEF AnalyticsHandleEvent, BudgetHandleEvent, NotificationHandleEvent
  <2> QED
    BY <1>3, <1>5, <2>1, HandledShown DEF SumInv
<1> QED
  BY <1>1, <1>2, <1>4, <1>5 DEF Next

(* Once a consumer has processed the events of all entries, what it shows  *)
(* is what the entries that stand add up to.                               *)
LEMMA SettledCell ==
  ASSUME IInv, SumInv, NEW cell \in Cells,
         settled(IF cell.of = "spend" THEN "budget" ELSE "analytics")
  PROVE  shown(cell) = MapThenSumSet(amountOf, counting(cell))
<1>1. projected(cell) = outbox
  BY DEF projected, settled, IInv, TypeOK
<1>2. shown(cell) = changesOf(outbox, cell)
  BY <1>1 DEF SumInv, ShownSound
<1>3. changesOf(outbox, cell) = amountsOf(counting(cell))
  BY DEF SumInv, StandingSound, settled
<1> QED
  BY <1>2, <1>3, CountingFinite, AmountSum

LEMMA SumInvariance == Spec => []SumInv
<1>1. Init => SumInv
  BY InitSumInv
<1>2. IInv /\ SumInv /\ [Next]_vars => SumInv'
  BY StepSumInv
<1> QED
  BY <1>1, <1>2, Invariance, PTL DEF Spec

(***************************************************************************)
(* However many entries were posted and reversed, and in whatever order    *)
(* their events were projected: once analytics has processed them all, a   *)
(* month shows the income and the expense that still stand in it.          *)
(***************************************************************************)
THEOREM TotalsSettle == Spec => []SettledTotals
<1>1. ASSUME IInv, SumInv PROVE SettledTotals
  <2> SUFFICES ASSUME settled("analytics"), NEW m \in Months
               PROVE  LET of(type) == {e \in standing : e.entryType = type
                                                        /\ YEAR_MONTH(e.occurredAt) = m}
                      IN  monthlyTotals[m] = [income  |-> MapThenSumSet(amountOf, of("INCOME")),
                                              expense |-> MapThenSumSet(amountOf, of("EXPENSE"))]
    BY DEF SettledTotals
  <2> DEFINE cellOf(kind) == [of |-> kind, category |-> NoCategory, month |-> m]
             of(type) == {e \in standing : e.entryType = type /\ YEAR_MONTH(e.occurredAt) = m}
  <2>1. cellOf("income") \in Cells /\ cellOf("expense") \in Cells
    BY DEF Cells
  <2>2. counting(cellOf("income")) = of("INCOME") /\ counting(cellOf("expense")) = of("EXPENSE")
    BY DEF counting, counts
  <2>3. /\ monthlyTotals[m].income = shown(cellOf("income"))
        /\ monthlyTotals[m].expense = shown(cellOf("expense"))
    BY DEF shown
  <2>4. /\ monthlyTotals[m].income = MapThenSumSet(amountOf, of("INCOME"))
        /\ monthlyTotals[m].expense = MapThenSumSet(amountOf, of("EXPENSE"))
    <3>1. /\ shown(cellOf("income")) = MapThenSumSet(amountOf, counting(cellOf("income")))
          /\ shown(cellOf("expense")) = MapThenSumSet(amountOf, counting(cellOf("expense")))
      BY <1>1, <2>1, SettledCell
    <3> QED
      BY <2>2, <2>3, <3>1
  <2>5. monthlyTotals[m] = [income  |-> monthlyTotals[m].income,
                            expense |-> monthlyTotals[m].expense]
    BY <1>1 DEF IInv, TypeOK
  <2> QED
    BY <2>4, <2>5
<1> QED
  BY <1>1, Invariance, SumInvariance, PTL

(***************************************************************************)
(* And once the budget service has, a category shows in each month the     *)
(* expenses that still stand in it.                                        *)
(***************************************************************************)
THEOREM SpendSettles == Spec => []SettledSpend
<1>1. ASSUME IInv, SumInv PROVE SettledSpend
  <2> SUFFICES ASSUME settled("budget"), NEW name \in CategoryNames, NEW m \in Months
               PROVE  categorySpend[<<name, m>>] =
                        MapThenSumSet(amountOf, {e \in standing : /\ e.entryType = "EXPENSE"
                                                                  /\ e.categoryId = name
                                                                  /\ YEAR_MONTH(e.occurredAt) = m})
    BY DEF SettledSpend
  <2> DEFINE cell == [of |-> "spend", category |-> name, month |-> m]
  <2>1. cell \in Cells
    BY DEF Cells
  <2>2. counting(cell) = {e \in standing : /\ e.entryType = "EXPENSE"
                                           /\ e.categoryId = name
                                           /\ YEAR_MONTH(e.occurredAt) = m}
    BY DEF counting, counts
  <2>3. shown(cell) = categorySpend[<<name, m>>]
    BY DEF shown
  <2>4. shown(cell) = MapThenSumSet(amountOf, counting(cell))
    BY <1>1, <2>1, SettledCell
  <2> QED
    BY <2>2, <2>3, <2>4
<1> QED
  BY <1>1, Invariance, SumInvariance, PTL
================================================================================
