-------------------------- MODULE BudgetServiceProofs --------------------------
(***************************************************************************)
(* Proofs about BudgetService, for any number of attempts, handlers, users,*)
(* keys, categories, requests and events: its types, that answers repeat   *)
(* and retries meet no conflict, that every budget is shown what the       *)
(* processed events add up to, and that the transactions implement the     *)
(* atomic BudgetBook.                                                      *)
(***************************************************************************)
EXTENDS BudgetService, SumTheorems

(***************************************************************************)
(* The inductive invariant.  First the rows of the tables: a budget is the *)
(* one its attempt asked for, but for the name events gave it; a record is *)
(* that of an attempt that made its budget; ids, slots and keys are unique.*)
(***************************************************************************)
posted(t) == \E b \in budgets : b.id = t

recordedFor(rec, t) ==
  /\ rec.userId = call[t].userId /\ rec.key = call[t].key /\ rec.body = normalized(t)
  /\ rec.response.code = "CREATED" /\ rec.response.id = t

asRequested(b, t) ==
  /\ b = [budgetOf(t) EXCEPT !.categoryName = b.categoryName]
  /\ b.categoryId = NoCategory => b.categoryName = normalized(t).categoryName

BudgetsSound ==
  /\ \A b \in budgets :
       /\ pc[b.id] = "done" /\ call[b.id] \in Requests /\ asRequested(b, b.id)
       /\ \E rec \in idempotency : rec.response.id = b.id
  /\ \A b, c \in budgets : b.id = c.id \/ slot(b) = slot(c) => b = c

RecordsSound ==
  /\ \A rec \in idempotency : /\ posted(rec.response.id)
                              /\ recordedFor(rec, rec.response.id)
  /\ \A r, s \in idempotency : r.userId = s.userId /\ r.key = s.key => r = s

(* Locks have one holder, and an attempt past a lock still holds it: what  *)
(* it found under the lock (no record of its key, a free slot) is still so.*)
OneHolder == \A a, b \in Tx \cup Handlers : a # b => held[a] \cap held[b] = {}

Called(t) ==
  /\ pc[t] # "idle" => call[t] \in Requests
  /\ pc[t] \notin {"idle", "done"} => call[t].key # NoKey /\ valid(call[t].body)

KeyHeld(t) ==
  /\ pc[t] \in {"lookUp", "insert", "record"} => keyLock(call[t]) \in held[t]
  /\ pc[t] \in {"insert", "record"} => existing(t) = {}

SlotHeld(t) ==
  pc[t] = "record" => slotLock(budgetOf(t)) \in held[t] /\ ~taken(t)

(* The spending read, or answered, is that of some moment since it began.  *)
includes(t, spentMinor) ==
  \E S \in SUBSET processed : since[t] \subseteq S /\ spentMinor = spentOn(budgetOf(t), S)

ReadsWhole(t) ==
  /\ since[t] \subseteq processed
  /\ pc[t] \in {"insert", "record"} => includes(t, displaySpent(seen[t]))
  /\ answer[t].code = "CREATED" /\ answer[t].id = t => includes(t, answer[t].spentMinor)

(* What a client was told stays true of the tables.                        *)
Told(t) ==
  /\ answer[t].code # "none" => pc[t] = "done"
  /\ answer[t].code = "CREATED" =>
       \E rec \in existing(t) : rec.body = normalized(t) /\ rec.response = answer[t]
  /\ answer[t].code = "IDEMPOTENCY_KEY_REUSE" =>
       \E rec \in existing(t) : rec.body # normalized(t)
  /\ answer[t].code = "BUDGET_EXISTS" => taken(t)
  /\ answer[t].code # "INTERNAL"

Attempt(t) == Called(t) /\ KeyHeld(t) /\ SlotHeld(t) /\ ReadsWhole(t) /\ Told(t)

(* Who ran into a slot had not filled it by the same request.              *)
NotOwnBudget ==
  \A t, u \in Tx :
    posted(t) /\ sameKey(t, u) /\ normalized(t) = normalized(u)
      => answer[u].code # "BUDGET_EXISTS"

(***************************************************************************)
(* A HandleEvent past its upsert holds the row of category_spend, whose    *)
(* new value it has; it renames budgets of its category only; at its commit*)
(* nobody else has processed the event.                                    *)
(***************************************************************************)
Locks ==
  {keyLock(r) : r \in Requests} \cup {slotLock(b) : b \in BudgetRow}
    \cup {spendLock(e) : e \in Events} \cup {eventLock(e) : e \in Events}

HandlerState ==
  [pc : HandlerPlaces, event : Events \cup {NoEvent}, awaits : Locks \cup {NoLock},
   rows : SUBSET Tx, value : Int]

ofCategory(b, e) == b.userId = EventKey[e][1] /\ b.categoryId = EventKey[e][2]

Handling(h) ==
  /\ handler[h].pc # "idle" => event(h) \in Events
  /\ handler[h].pc \in {"upsert", "update", "rename"} => Delta[event(h)] # 0
  /\ handler[h].pc \in {"update", "rename", "mark", "commit"} /\ Delta[event(h)] # 0 =>
       /\ spendLock(event(h)) \in held[h]
       /\ handler[h].value = spend[EventKey[event(h)]] + Delta[event(h)]
  /\ handler[h].pc = "commit" => eventLock(event(h)) \in held[h] /\ event(h) \notin processed
  /\ \A id \in handler[h].rows : \E b \in budgets : b.id = id /\ ofCategory(b, event(h))

(* category_spend: any cells add up to the events that fell into them.     *)
SpendSound ==
  /\ IsFiniteSet(processed)
  /\ \A C \in SUBSET SpendKey : IsFiniteSet(C) =>
       sumOver(spend, C) = sumOver(Delta, {e \in processed : EventKey[e] \in C})

Types ==
  /\ TypeOK
  /\ held \in [Tx \cup Handlers -> SUBSET Locks]
  /\ handler \in [Handlers -> HandlerState]

IInv ==
  /\ Types /\ OneHolder /\ BudgetsSound /\ RecordsSound /\ NotOwnBudget /\ SpendSound
  /\ \A t \in Tx : Attempt(t)
  /\ \A h \in Handlers : Handling(h)
--------------------------------------------------------------------------------
(* A request that Create accepts asks for a well-formed row.               *)
LEMMA BudgetOfType ==
  ASSUME NEW t \in Tx, call[t] \in Requests, valid(call[t].body)
  PROVE  /\ call[t].userId \in Users
         /\ budgetOf(t) \in BudgetRow /\ budgetOf(t).id = t
         /\ budgetOf(t).userId = call[t].userId
<1> DEFINE body == call[t].body
<1>1. call[t].userId \in Users /\ body \in CreateInput
  BY BudgetAssumption
<1>2. /\ normalized(t).categoryName = Trim[body.categoryName]
      /\ normalized(t).categoryId = body.categoryId /\ normalized(t).period = body.period
      /\ normalized(t).limitMinor = body.limitMinor
      /\ normalized(t).thresholdPercent = IF body.thresholdPercent = 0 THEN 80
                                          ELSE body.thresholdPercent
  BY <1>1 DEF normalized, normalizeCreateInput, CreateInput
<1>3. /\ normalized(t).categoryName \in Names
      /\ normalized(t).categoryId \in Categories \cup {NoCategory}
      /\ normalized(t).period \in Periods /\ normalized(t).limitMinor \in 0 .. MaxLimit
      /\ normalized(t).thresholdPercent \in 1 .. 100
  BY <1>1, <1>2, RulesAssumption DEF valid, normalized, CreateInput
<1> QED
  BY <1>1, <1>3 DEF budgetOf, BudgetRow

(* The cells of category_spend that a budget is about.                     *)
cells(b) ==
  {cs \in SpendKey :
     /\ cs[1] = b.userId /\ cs[3] = b.period
     /\ IF b.categoryId = NoCategory
        THEN Lower[CategoryName[cs[2]]] = Lower[b.categoryName]
        ELSE cs[2] = b.categoryId}

cellOf(b) == [c \in Categories |-> <<b.userId, c, b.period>>]

categoriesOf(b) ==
  {c \in Categories : IF b.categoryId = NoCategory
                      THEN Lower[CategoryName[c]] = Lower[b.categoryName]
                      ELSE c = b.categoryId}

LEMMA CellsAreImages ==
  ASSUME NEW b \in BudgetRow
  PROVE  /\ cells(b) = {cellOf(b)[c] : c \in categoriesOf(b)}
         /\ IsFiniteSet(categoriesOf(b)) /\ IsFiniteSet(cells(b))
<1>1. b.userId \in Users /\ b.period \in Periods
  BY DEF BudgetRow
<1>2. \A c \in categoriesOf(b) : cellOf(b)[c] = <<b.userId, c, b.period>>
  BY DEF cellOf, categoriesOf
<1>3. \A cs \in cells(b) : cs[2] \in categoriesOf(b) /\ cs = <<b.userId, cs[2], b.period>>
  BY DEF cells, SpendKey, categoriesOf
<1>4. \A c \in categoriesOf(b) : <<b.userId, c, b.period>> \in cells(b)
  BY <1>1 DEF cells, SpendKey, categoriesOf
<1>5. cells(b) = {cellOf(b)[c] : c \in categoriesOf(b)}
  BY <1>2, <1>3, <1>4
<1>6. IsFiniteSet(categoriesOf(b))
  BY RulesAssumption, FS_Subset DEF categoriesOf
<1> QED
  BY <1>5, <1>6, ImageFinite

(* List and currentSpent add up the same cells.                            *)
LEMMA ListedSpent ==
  ASSUME NEW b \in BudgetRow
  PROVE  listedSpent(spend, b) = sumOver(spend, cells(b))
<1>1. {cs \in SpendKey :
         /\ cs[1] = b.userId /\ cs[3] = b.period
         /\ \/ b.categoryId # NoCategory /\ cs[2] = b.categoryId
            \/ b.categoryId = NoCategory /\ Lower[CategoryName[cs[2]]] = Lower[b.categoryName]}
        = cells(b)
  BY DEF cells
<1> QED
  BY <1>1 DEF listedSpent, sumOver, MapThenSumSet, MapThenFoldSet

LEMMA CurrentSpent ==
  ASSUME NEW b \in BudgetRow, spend \in [SpendKey -> Int]
  PROVE  currentSpent(spend, b) = sumOver(spend, cells(b))
<1>1. b.userId \in Users /\ b.period \in Periods
      /\ b.categoryId \in Categories \cup {NoCategory}
  BY DEF BudgetRow
<1>2. CASE b.categoryId # NoCategory
  <2> DEFINE cell == <<b.userId, b.categoryId, b.period>>
  <2>1. cell \in SpendKey /\ cells(b) = {cell}
    <3>1. cell \in SpendKey
      BY <1>1, <1>2 DEF SpendKey
    <3>2. \A cs \in SpendKey : cs \in cells(b) <=> cs = cell
      BY <1>2 DEF cells, SpendKey
    <3> QED
      BY <3>1, <3>2 DEF cells
  <2>2. IsFiniteSet({}) /\ spend[cell] \in Int
    BY <2>1, FS_EmptySet
  <2>3. sumOver(spend, {} \cup {cell}) = sumOver(spend, {}) + spend[cell]
    <3> HIDE DEF cell
    <3> QED
      BY <2>2, SumAdd
  <2>4. sumOver(spend, {}) = 0 /\ {} \cup {cell} = {cell}
    BY SumEmpty
  <2> QED
    BY <1>2, <2>1, <2>2, <2>3, <2>4 DEF currentSpent
<1>3. CASE b.categoryId = NoCategory
  <2> DEFINE D       == {c \in Categories : Lower[CategoryName[c]] = Lower[b.categoryName]}
             f       == [c \in Categories |-> spend[<<b.userId, c, b.period>>]]
             sums(g) == [s \in SUBSET D |->
                           IF s = {} THEN 0
                           ELSE spend[<<b.userId, first(s), b.period>>] + g[s \ {first(s)}]]
  <2>1. cells(b) = {cellOf(b)[c] : c \in D} /\ IsFiniteSet(D)
    BY <1>3, CellsAreImages DEF categoriesOf
  <2>2. \A c \in D : f[c] = spend[cellOf(b)[c]] /\ f[c] \in Int
    BY <1>1 DEF cellOf, SpendKey
  <2>3. \A c, d \in D : cellOf(b)[c] = cellOf(b)[d] => c = d
    BY DEF cellOf
  <2>4. sumOver(spend, cells(b)) = sumOver(f, D)
    <3> HIDE DEF D, f
    <3> QED
      BY <2>1, <2>2, <2>3, SumOfImage
  <2>5. \A s \in SUBSET D : s # {} => f[first(s)] = spend[<<b.userId, first(s), b.period>>]
    BY FirstOfSet
  <2>6. \A g : g = sums(g) <=> addsUp(f, SUBSET D, g)
    <3> HIDE DEF f, D
    <3> QED
      BY <2>5 DEF addsUp, round
  <2>7. currentSpent(spend, b) = (CHOOSE g : g = sums(g))[D]
    BY <1>3 DEF currentSpent, MapThenSumSet, MapThenFoldSet, first
  <2>8. sumOver(f, D) = recursion(f, D)[D]
    BY <2>1, SumByRecursion
  <2> HIDE DEF f, D, sums
  <2>9. (CHOOSE g : g = sums(g)) = recursion(f, D)
    BY <2>6 DEF recursion
  <2> QED
    BY <2>4, <2>7, <2>8, <2>9
<1> QED
  BY <1>2, <1>3

(* Both show what the events processed so far add up to.                   *)
LEMMA ShownSpending ==
  ASSUME NEW b \in BudgetRow, spend \in [SpendKey -> Int], SpendSound, processed \subseteq Events
  PROVE  /\ currentSpent(spend, b) \in Int /\ currentSpent(spend, b) = listedSpent(spend, b)
         /\ displaySpent(currentSpent(spend, b)) = spentOn(b, processed)
<1>1. cells(b) \in SUBSET SpendKey /\ IsFiniteSet(cells(b))
  BY CellsAreImages DEF cells
<1>2. currentSpent(spend, b) = sumOver(spend, cells(b))
  BY CurrentSpent
<1>3. sumOver(spend, cells(b)) \in Int
  <2>1. \A cs \in cells(b) : spend[cs] \in Int
    BY <1>1
  <2> QED
    BY <1>1, <2>1, SumInt
<1>4. {e \in processed : EventKey[e] \in cells(b)} = {e \in processed : countsFor(e, b)}
  <2> SUFFICES ASSUME NEW e \in processed PROVE EventKey[e] \in cells(b) <=> countsFor(e, b)
    OBVIOUS
  <2>1. EventKey[e] \in SpendKey
    BY BudgetAssumption
  <2> QED
    BY <2>1 DEF cells, countsFor
<1>5. sumOver(spend, cells(b)) = sumOver(Delta, {e \in processed : countsFor(e, b)})
  BY <1>1, <1>4 DEF SpendSound
<1>6. spentOn(b, processed) = displaySpent(sumOver(Delta, {e \in processed : countsFor(e, b)}))
  BY DEF spentOn, sumOver, MapThenSumSet, MapThenFoldSet
<1> QED
  BY <1>2, <1>3, <1>5, <1>6, ListedSpent
--------------------------------------------------------------------------------
LEMMA LocksDiffer ==
  /\ \A r, s : keyLock(r) = keyLock(s) => r.userId = s.userId /\ r.key = s.key
  /\ \A b, c : slotLock(b) = slotLock(c) => slot(b) = slot(c)
  /\ \A d, e : spendLock(d) = spendLock(e) => EventKey[d] = EventKey[e]
  /\ \A d, e : eventLock(d) = eventLock(e) => d = e
  BY DEF keyLock, slotLock, spendLock, eventLock

LEMMA Acquired ==
  ASSUME IInv, NEW a \in Tx \cup Handlers, NEW lock \in Locks, Acquire(a, lock)
  PROVE  /\ held' \in [Tx \cup Handlers -> SUBSET Locks] /\ OneHolder'
         /\ held'[a] = held[a] \cup {lock}
         /\ \A x \in (Tx \cup Handlers) \ {a} : held'[x] = held[x]
  BY DEF IInv, Types, OneHolder, Acquire, free

LEMMA Released ==
  ASSUME IInv, NEW a \in Tx \cup Handlers, held' = [held EXCEPT ![a] = {}]
  PROVE  /\ held' \in [Tx \cup Handlers -> SUBSET Locks] /\ OneHolder'
         /\ held'[a] = {}
         /\ \A x \in (Tx \cup Handlers) \ {a} : held'[x] = held[x]
  BY DEF IInv, Types, OneHolder

(* The row an attempt asks for is written in its request.                  *)
LEMMA SameCallSameBudget ==
  ASSUME NEW t, call'[t] = call[t]
  PROVE  /\ normalized(t)' = normalized(t) /\ budgetOf(t)' = budgetOf(t)
         /\ \A spent : spentOn(budgetOf(t), spent)' = spentOn(budgetOf(t), spent)
         /\ keyLock(call[t])' = keyLock(call[t])
         /\ slotLock(budgetOf(t))' = slotLock(budgetOf(t))
<1>1. normalized(t)' = normalized(t)
  BY DEF normalized
<1>2. budgetOf(t)' = budgetOf(t)
  BY <1>1 DEF budgetOf
<1> QED
  BY <1>1, <1>2 DEF keyLock, slotLock

(* Who does nothing keeps what it relies on while the tables stay.         *)
LEMMA AttemptFrame ==
  ASSUME NEW u \in Tx, Attempt(u), UNCHANGED tables,
         pc'[u] = pc[u], call'[u] = call[u], seen'[u] = seen[u], answer'[u] = answer[u],
         since'[u] = since[u], held'[u] = held[u]
  PROVE  Attempt(u)'
<1>1. UNCHANGED <<budgets, idempotency, spend, processed>>
  BY DEF tables
<1>2. Called(u)'
  BY DEF Attempt, Called
<1>3. existing(u)' = existing(u) /\ (taken(u)' <=> taken(u))
  BY <1>1, SameCallSameBudget DEF existing, taken
<1>4. KeyHeld(u)' /\ SlotHeld(u)'
  BY <1>3, SameCallSameBudget DEF Attempt, KeyHeld, SlotHeld
<1>5. \A n : includes(u, n)' <=> includes(u, n)
  BY <1>1, SameCallSameBudget DEF includes
<1>6. ReadsWhole(u)'
  BY <1>1, <1>5 DEF Attempt, ReadsWhole
<1>7. Told(u)'
  BY <1>3, SameCallSameBudget DEF Attempt, Told
<1> QED
  BY <1>2, <1>4, <1>6, <1>7 DEF Attempt

LEMMA HandlingFrame ==
  ASSUME NEW h \in Handlers, Handling(h), UNCHANGED tables,
         handler'[h] = handler[h], held'[h] = held[h]
  PROVE  Handling(h)'
<1>1. UNCHANGED <<budgets, spend, processed>> /\ event(h)' = event(h)
  BY DEF tables, event
<1> QED
  BY <1>1 DEF Handling, spendLock, eventLock, ofCategory

(* What the other rows say of themselves while no table changes: budgets   *)
(* are those of attempts that are done.                                    *)
LEMMA TablesFrame ==
  ASSUME IInv, UNCHANGED tables,
         \A u \in Tx : pc[u] = "done" => pc'[u] = pc[u] /\ call'[u] = call[u]
  PROVE  BudgetsSound' /\ RecordsSound' /\ SpendSound'
<1>1. UNCHANGED <<budgets, idempotency, spend, processed>>
  BY DEF tables
<1>2. \A b \in budgets : b.id \in Tx /\ pc[b.id] = "done"
  BY DEF IInv, Types, TypeOK, BudgetRow, BudgetsSound
<1>3. \A b \in budgets : /\ pc'[b.id] = pc[b.id] /\ call'[b.id] = call[b.id]
                         /\ asRequested(b, b.id)' = asRequested(b, b.id)
  <2> SUFFICES ASSUME NEW b \in budgets
               PROVE  /\ pc'[b.id] = pc[b.id] /\ call'[b.id] = call[b.id]
                      /\ asRequested(b, b.id)' = asRequested(b, b.id)
    OBVIOUS
  <2>1. pc'[b.id] = pc[b.id] /\ call'[b.id] = call[b.id]
    BY <1>2
  <2> QED
    BY <2>1, SameCallSameBudget DEF asRequested
<1>4. BudgetsSound'
  BY <1>1, <1>3 DEF IInv, BudgetsSound
<1>5. RecordsSound'
  <2>1. \A rec \in idempotency : posted(rec.response.id) /\ call'[rec.response.id] = call[rec.response.id]
    BY <1>3 DEF IInv, RecordsSound, posted
  <2>2. \A rec \in idempotency : recordedFor(rec, rec.response.id)' = recordedFor(rec, rec.response.id)
    BY <2>1, SameCallSameBudget DEF recordedFor
  <2> QED
    BY <1>1, <2>1, <2>2 DEF IInv, RecordsSound, posted
<1>6. SpendSound'
  BY <1>1 DEF IInv, SpendSound
<1> QED
  BY <1>4, <1>5, <1>6

(* The record of a budget is what an attempt under its key finds.          *)
LEMMA PostedExisting ==
  ASSUME IInv, NEW s \in Tx, NEW u \in Tx, posted(s), sameKey(s, u)
  PROVE  \E rec \in existing(u) : rec.body = normalized(s)
<1>1. PICK rec \in idempotency : rec.response.id = s
  BY DEF posted, IInv, BudgetsSound
<1>2. recordedFor(rec, s)
  BY <1>1 DEF IInv, RecordsSound
<1> QED
  BY <1>1, <1>2 DEF recordedFor, existing, sameKey
--------------------------------------------------------------------------------
(* Steps of one attempt that write no table.                               *)
LEMMA AttemptStep ==
  ASSUME IInv, NEW t \in Tx, UNCHANGED tables, UNCHANGED handler,
         \A u \in Tx \ {t} : /\ pc'[u] = pc[u] /\ call'[u] = call[u] /\ seen'[u] = seen[u]
                             /\ answer'[u] = answer[u] /\ since'[u] = since[u],
         \A a \in (Tx \cup Handlers) \ {t} : held'[a] = held[a],
         pc[t] # "done", pc[t] = "idle" \/ call'[t] = call[t],
         TypeOK', held' \in [Tx \cup Handlers -> SUBSET Locks], OneHolder', Attempt(t)',
         answer'[t].code = "BUDGET_EXISTS" => existing(t) = {} /\ call'[t] = call[t]
  PROVE  IInv'
<1>1. Types'
  BY DEF IInv, Types
<1>2. BudgetsSound' /\ RecordsSound' /\ SpendSound'
  BY TablesFrame
<1>3. \A u \in Tx : Attempt(u)'
  BY AttemptFrame DEF IInv
<1>4. \A h \in Handlers : Handling(h)'
  <2>1. Tx \cap Handlers = {}
    BY BudgetAssumption
  <2> QED
    BY <2>1, HandlingFrame DEF IInv
<1>5. NotOwnBudget'
  <2> SUFFICES ASSUME NEW s \in Tx, NEW u \in Tx, posted(s)', sameKey(s, u)',
                      normalized(s)' = normalized(u)', answer'[u].code = "BUDGET_EXISTS"
               PROVE  FALSE
    BY DEF NotOwnBudget
  <2>1. posted(s) /\ s # t
    BY DEF posted, tables, IInv, BudgetsSound
  <2>2. call'[s] = call[s] /\ normalized(s)' = normalized(s)
    BY <2>1, SameCallSameBudget
  <2>3. CASE u = t
    <3>1. existing(u) = {} /\ sameKey(s, u)
      BY <2>2, <2>3 DEF sameKey
    <3> QED
      BY <2>1, <3>1, PostedExisting
  <2>4. CASE u # t
    <3>1. call'[u] = call[u] /\ normalized(u)' = normalized(u) /\ answer[u].code = "BUDGET_EXISTS"
      BY <2>4, SameCallSameBudget
    <3>2. sameKey(s, u) /\ normalized(s) = normalized(u)
      BY <2>2, <3>1 DEF sameKey
    <3> QED
      BY <2>1, <3>1, <3>2 DEF IInv, NotOwnBudget
  <2> QED
    BY <2>3, <2>4
<1> QED
  BY <1>1, <1>2, <1>3, <1>4, <1>5 DEF IInv

(* Steps of one handler that write no table.                               *)
LEMMA HandlerStep ==
  ASSUME IInv, NEW h \in Handlers, UNCHANGED tables, UNCHANGED attempts,
         handler' \in [Handlers -> HandlerState], failures' \in 0 .. MaxFailures,
         \A g \in Handlers \ {h} : handler'[g] = handler[g],
         \A a \in (Tx \cup Handlers) \ {h} : held'[a] = held[a],
         held' \in [Tx \cup Handlers -> SUBSET Locks], OneHolder', Handling(h)'
  PROVE  IInv'
<1>1. UNCHANGED <<budgets, idempotency, spend, processed, pc, call, seen, answer, since>>
  BY DEF tables, attempts
<1>2. \A g \in Handlers : Handling(g)'
  BY HandlingFrame DEF IInv
<1>3. TypeOK'
  BY <1>1, <1>2 DEF IInv, Types, TypeOK, Handling, HandlerState
<1>4. BudgetsSound' /\ RecordsSound' /\ SpendSound'
  BY <1>1, TablesFrame
<1>5. \A u \in Tx : Attempt(u)'
  <2>1. Tx \cap Handlers = {}
    BY BudgetAssumption
  <2> QED
    BY <1>1, <2>1, AttemptFrame DEF IInv
<1>6. NotOwnBudget'
  BY <1>1 DEF IInv, NotOwnBudget, posted, sameKey, normalized
<1> QED
  BY <1>2, <1>3, <1>4, <1>5, <1>6 DEF IInv, Types
--------------------------------------------------------------------------------
(* The steps of an attempt up to its commit.                               *)
LEMMA Refusals ==
  /\ \A code \in {"VALIDATION_ERROR", "IDEMPOTENCY_KEY_REUSE", "BUDGET_EXISTS", "LOST"} :
       Refused(code) \in Response /\ Refused(code).code = code
  /\ NoAnswer \in Response
  BY DEF Refused, NoAnswer, Response

LEMMA FinishKeeps ==
  ASSUME IInv, NEW t \in Tx, pc[t] \notin {"idle", "done"}, NEW response \in Response,
         Finish(t, response), UNCHANGED tables,
         response.code = "CREATED" =>
           \E rec \in existing(t) : rec.body = normalized(t) /\ rec.response = response,
         response.code = "IDEMPOTENCY_KEY_REUSE" =>
           \E rec \in existing(t) : rec.body # normalized(t),
         response.code = "BUDGET_EXISTS" => taken(t) /\ existing(t) = {},
         response.code # "INTERNAL"
  PROVE  IInv'
<1>1. /\ pc' = [pc EXCEPT ![t] = "done"] /\ answer' = [answer EXCEPT ![t] = response]
      /\ held' = [held EXCEPT ![t] = {}]
      /\ UNCHANGED <<call, seen, since, handler, failures>>
      /\ UNCHANGED <<budgets, idempotency, spend, processed>>
  BY DEF Finish, tables
<1>2. /\ pc'[t] = "done" /\ answer'[t] = response /\ call'[t] = call[t] /\ call[t] \in Requests
      /\ \A u \in Tx \ {t} : pc'[u] = pc[u] /\ answer'[u] = answer[u]
  BY <1>1 DEF IInv, Types, TypeOK, Attempt, Called
<1>3. TypeOK'
  BY <1>1 DEF IInv, Types, TypeOK, AttemptPlaces, event
<1>4. existing(t)' = existing(t) /\ (taken(t)' <=> taken(t)) /\ normalized(t)' = normalized(t)
  BY <1>1, <1>2, SameCallSameBudget DEF existing, taken
<1>5. Told(t)'
  BY <1>2, <1>4 DEF Told
<1>6. response.code = "CREATED" => response.id # t
  BY DEF existing, IInv, RecordsSound, BudgetsSound, posted
<1>7. Attempt(t)'
  BY <1>1, <1>2, <1>5, <1>6
     DEF IInv, Attempt, Called, KeyHeld, SlotHeld, ReadsWhole
<1> QED
  BY <1>1, <1>2, <1>3, <1>7, Released, AttemptStep

LEMMA RefuseInvalidKeeps ==
  ASSUME IInv, NEW t \in Tx, NEW request \in Requests, RefuseInvalid(t, request)
  PROVE  IInv'
<1>1. /\ pc[t] = "idle" /\ pc' = [pc EXCEPT ![t] = "done"]
      /\ call' = [call EXCEPT ![t] = request]
      /\ answer' = [answer EXCEPT ![t] = Refused("VALIDATION_ERROR")]
      /\ UNCHANGED <<seen, since, handler, held, failures>>
      /\ UNCHANGED <<budgets, idempotency, spend, processed>>
  BY DEF RefuseInvalid, Goto, tables
<1>2. /\ pc'[t] = "done" /\ call'[t] = request /\ answer'[t].code = "VALIDATION_ERROR"
      /\ \A u \in Tx \ {t} : pc'[u] = pc[u] /\ call'[u] = call[u] /\ answer'[u] = answer[u]
  BY <1>1, Refusals DEF IInv, Types, TypeOK
<1>3. TypeOK'
  BY <1>1, Refusals DEF IInv, Types, TypeOK, AttemptPlaces, event
<1>4. Attempt(t)'
  BY <1>1, <1>2
     DEF IInv, Attempt, Called, KeyHeld, SlotHeld, ReadsWhole, Told
<1>5. OneHolder' /\ held' \in [Tx \cup Handlers -> SUBSET Locks]
  BY <1>1 DEF IInv, Types, OneHolder
<1> QED
  BY <1>1, <1>2, <1>3, <1>4, <1>5, AttemptStep DEF tables

LEMMA BeginKeeps ==
  ASSUME IInv, NEW t \in Tx, NEW request \in Requests, Begin(t, request)
  PROVE  IInv'
<1>1. /\ pc[t] = "idle" /\ pc' = [pc EXCEPT ![t] = "lockKey"]
      /\ call' = [call EXCEPT ![t] = request] /\ since' = [since EXCEPT ![t] = processed]
      /\ request.key # NoKey /\ valid(request.body)
      /\ UNCHANGED <<seen, answer, handler, held, failures>>
      /\ UNCHANGED <<budgets, idempotency, spend, processed>>
  BY DEF Begin, Goto, tables
<1>2. /\ pc'[t] = "lockKey" /\ call'[t] = request /\ since'[t] = processed
      /\ answer[t].code = "none"
      /\ \A u \in Tx \ {t} : pc'[u] = pc[u] /\ call'[u] = call[u] /\ since'[u] = since[u]
  BY <1>1 DEF IInv, Types, TypeOK, Attempt, Told
<1>3. TypeOK'
  BY <1>1 DEF IInv, Types, TypeOK, AttemptPlaces, event
<1>4. Attempt(t)'
  BY <1>1, <1>2 DEF Attempt, Called, KeyHeld, SlotHeld, ReadsWhole, Told
<1>5. OneHolder' /\ held' \in [Tx \cup Handlers -> SUBSET Locks]
  BY <1>1 DEF IInv, Types, OneHolder
<1> QED
  BY <1>1, <1>2, <1>3, <1>4, <1>5, AttemptStep DEF tables

LEMMA LockKeyKeeps == ASSUME IInv, NEW t \in Tx, LockKey(t) PROVE IInv'
<1>1. /\ pc[t] = "lockKey" /\ pc' = [pc EXCEPT ![t] = "lookUp"]
      /\ Acquire(t, keyLock(call[t])) /\ call[t] \in Requests
      /\ UNCHANGED <<call, seen, answer, since, handler, failures>>
      /\ UNCHANGED <<budgets, idempotency, spend, processed>>
  BY DEF LockKey, Goto, tables, IInv, Attempt, Called
<1>2. keyLock(call[t]) \in Locks
  BY <1>1 DEF Locks
<1>3. /\ pc'[t] = "lookUp" /\ keyLock(call[t]) \in held'[t]
      /\ \A u \in Tx \ {t} : pc'[u] = pc[u]
  BY <1>1, <1>2, Acquired DEF IInv, Types, TypeOK
<1>4. TypeOK'
  BY <1>1 DEF IInv, Types, TypeOK, AttemptPlaces, event
<1>5. Told(t) /\ answer[t].code = "none"
  BY <1>1 DEF IInv, Attempt, Told
<1>6. Attempt(t)'
  BY <1>1, <1>3, <1>5, SameCallSameBudget
     DEF IInv, Attempt, Called, KeyHeld, SlotHeld, ReadsWhole, Told
<1> QED
  BY <1>1, <1>2, <1>3, <1>4, <1>5, <1>6, Acquired, AttemptStep DEF tables

LEMMA ReadSpentKeeps == ASSUME IInv, NEW t \in Tx, ReadSpent(t) PROVE IInv'
<1>1. /\ pc[t] = "lookUp" /\ pc' = [pc EXCEPT ![t] = "insert"] /\ existing(t) = {}
      /\ seen' = [seen EXCEPT ![t] = currentSpent(spend, budgetOf(t))]
      /\ UNCHANGED <<call, answer, since, handler, held, failures>>
      /\ UNCHANGED <<budgets, idempotency, spend, processed>>
  BY DEF ReadSpent, Goto, tables
<1>2. budgetOf(t) \in BudgetRow
  BY <1>1, BudgetOfType DEF IInv, Attempt, Called
<1>3. /\ currentSpent(spend, budgetOf(t)) \in Int
      /\ displaySpent(currentSpent(spend, budgetOf(t))) = spentOn(budgetOf(t), processed)
  BY <1>2, ShownSpending DEF IInv, Types, TypeOK
<1>4. /\ pc'[t] = "insert" /\ seen'[t] = currentSpent(spend, budgetOf(t))
      /\ \A u \in Tx \ {t} : pc'[u] = pc[u] /\ seen'[u] = seen[u]
  BY <1>1 DEF IInv, Types, TypeOK
<1>5. TypeOK'
  BY <1>1, <1>3 DEF IInv, Types, TypeOK, AttemptPlaces, event
<1>6. answer[t].code = "none"
  BY <1>1 DEF IInv, Attempt, Told
<1>7. includes(t, displaySpent(seen[t]))'
  <2>1. since[t] \subseteq processed
    BY DEF IInv, Attempt, ReadsWhole
  <2>2. spentOn(budgetOf(t), processed)' = spentOn(budgetOf(t), processed)
    BY <1>1, SameCallSameBudget
  <2>3. displaySpent(seen[t])' = displaySpent(currentSpent(spend, budgetOf(t)))
    BY <1>4 DEF displaySpent
  <2> QED
    BY <1>1, <1>3, <2>1, <2>2, <2>3 DEF includes
<1>8. KeyHeld(t)'
  <2>1. keyLock(call[t]) \in held[t]
    BY <1>1 DEF IInv, Attempt, KeyHeld
  <2> QED
    BY <1>1, <2>1 DEF KeyHeld, existing, keyLock
<1>9. Attempt(t)'
  BY <1>1, <1>4, <1>6, <1>7, <1>8
     DEF IInv, Attempt, Called, SlotHeld, ReadsWhole, Told
<1>10. OneHolder' /\ held' \in [Tx \cup Handlers -> SUBSET Locks]
  BY <1>1 DEF IInv, Types, OneHolder
<1> QED
  BY <1>1, <1>4, <1>5, <1>6, <1>9, <1>10, AttemptStep DEF tables

LEMMA InsertBudgetKeeps == ASSUME IInv, NEW t \in Tx, InsertBudget(t) PROVE IInv'
<1>1. /\ pc[t] = "insert" /\ pc' = [pc EXCEPT ![t] = "record"] /\ ~taken(t)
      /\ Acquire(t, slotLock(budgetOf(t)))
      /\ UNCHANGED <<call, seen, answer, since, handler, failures>>
      /\ UNCHANGED <<budgets, idempotency, spend, processed>>
  BY DEF InsertBudget, Goto, tables
<1>2. slotLock(budgetOf(t)) \in Locks
  BY <1>1, BudgetOfType DEF IInv, Attempt, Called, Locks
<1>3. /\ pc'[t] = "record" /\ held'[t] = held[t] \cup {slotLock(budgetOf(t))}
      /\ \A u \in Tx \ {t} : pc'[u] = pc[u]
  BY <1>1, <1>2, Acquired DEF IInv, Types, TypeOK
<1>4. TypeOK'
  BY <1>1 DEF IInv, Types, TypeOK, AttemptPlaces, event
<1>5. answer[t].code = "none" /\ Attempt(t)
  BY <1>1 DEF IInv, Attempt, Told
<1>6. existing(t)' = existing(t) /\ (taken(t)' <=> taken(t))
  BY <1>1, SameCallSameBudget DEF existing, taken
<1>7. KeyHeld(t)' /\ SlotHeld(t)'
  BY <1>1, <1>3, <1>5, <1>6, SameCallSameBudget DEF Attempt, KeyHeld, SlotHeld
<1>8. \A n : includes(t, n)' <=> includes(t, n)
  BY <1>1, SameCallSameBudget DEF includes
<1>9. Attempt(t)'
  BY <1>1, <1>3, <1>5, <1>7, <1>8 DEF Attempt, Called, ReadsWhole, Told
<1> QED
  BY <1>1, <1>2, <1>3, <1>4, <1>5, <1>9, Acquired, AttemptStep DEF tables
--------------------------------------------------------------------------------
(* The commit.                                                             *)
recordOf(t) ==
  [userId |-> call[t].userId, key |-> call[t].key,
   body |-> normalized(t), response |-> responseOf(t)]

LEMMA CommitWrites ==
  ASSUME IInv, NEW t \in Tx, Commit(t)
  PROVE  /\ pc[t] = "record" /\ existing(t) = {} /\ ~taken(t)
         /\ keyLock(call[t]) \in held[t] /\ slotLock(budgetOf(t)) \in held[t]
         /\ call[t] \in Requests /\ call[t].key # NoKey
         /\ budgetOf(t) \in BudgetRow /\ budgetOf(t).id = t
         /\ responseOf(t) \in Response
         /\ budgets' = budgets \cup {budgetOf(t)}
         /\ idempotency' = idempotency \cup {recordOf(t)}
         /\ UNCHANGED <<spend, processed, call, seen, since, handler, failures>>
         /\ pc' = [pc EXCEPT ![t] = "done"] /\ held' = [held EXCEPT ![t] = {}]
         /\ \E response \in {responseOf(t), Refused("LOST")} :
              answer' = [answer EXCEPT ![t] = response]
<1>1. pc[t] = "record"
  BY DEF Commit
<1>2. /\ existing(t) = {} /\ ~taken(t)
      /\ keyLock(call[t]) \in held[t] /\ slotLock(budgetOf(t)) \in held[t]
      /\ call[t] \in Requests /\ call[t].key # NoKey /\ valid(call[t].body)
  BY <1>1 DEF IInv, Attempt, Called, KeyHeld, SlotHeld
<1>3. budgetOf(t) \in BudgetRow /\ budgetOf(t).id = t
  BY <1>2, BudgetOfType
<1>4. responseOf(t) \in Response
  <2>1. displaySpent(seen[t]) \in Nat
    BY DEF IInv, Types, TypeOK, displaySpent
  <2> QED
    BY <2>1 DEF responseOf, Response
<1>5. /\ budgets' = budgets \cup {budgetOf(t)}
      /\ idempotency' = idempotency \cup {recordOf(t)}
      /\ UNCHANGED <<spend, processed>>
      /\ \E response \in {responseOf(t), Refused("LOST")} : Finish(t, response)
  BY <1>2 DEF Commit, recordOf
<1> QED
  BY <1>1, <1>2, <1>3, <1>4, <1>5 DEF Finish

(* Its rows fit into the tables.                                           *)
LEMMA CommitTables ==
  ASSUME IInv, NEW t \in Tx, Commit(t)
  PROVE  TypeOK' /\ BudgetsSound' /\ RecordsSound' /\ SpendSound'
<1> DEFINE b == budgetOf(t)
<1>0. PICK rec : rec = recordOf(t)
  OBVIOUS
<1>1. /\ pc[t] = "record" /\ existing(t) = {} /\ ~taken(t) /\ call[t] \in Requests
      /\ call[t].key # NoKey /\ b \in BudgetRow /\ b.id = t /\ responseOf(t) \in Response
      /\ budgets' = budgets \cup {b} /\ idempotency' = idempotency \cup {rec}
      /\ UNCHANGED <<spend, processed, call, seen, since, handler, failures>>
      /\ pc' = [pc EXCEPT ![t] = "done"]
      /\ \E response \in {responseOf(t), Refused("LOST")} :
           answer' = [answer EXCEPT ![t] = response]
  BY <1>0, CommitWrites
<1>2. /\ rec.userId = call[t].userId /\ rec.key = call[t].key /\ rec.body = normalized(t)
      /\ rec.response = responseOf(t) /\ rec.response.code = "CREATED" /\ rec.response.id = t
  BY <1>0 DEF recordOf, responseOf
<1>3. call[t].userId \in Users /\ call[t].key \in Keys
  BY <1>1, BudgetAssumption
<1>4. TypeOK'
  BY <1>1, <1>2, <1>3, Refusals DEF IInv, Types, TypeOK, AttemptPlaces, event
<1>5. \A c \in budgets : /\ c.id # t /\ slot(c) # slot(b) /\ c.id \in Tx
                         /\ pc'[c.id] = pc[c.id]
  BY <1>1 DEF IInv, BudgetsSound, taken, Types, TypeOK, BudgetRow
<1>6. \A u \in Tx : normalized(u)' = normalized(u) /\ budgetOf(u)' = budgetOf(u)
  BY <1>1, SameCallSameBudget
<1>7. asRequested(b, t)
  BY DEF asRequested, budgetOf
<1>8. pc'[t] = "done"
  BY <1>1 DEF IInv, Types, TypeOK
<1>9. BudgetsSound'
  <2>1. \A c \in budgets : asRequested(c, c.id)' = asRequested(c, c.id)
    BY <1>5, <1>6 DEF asRequested
  <2>2. asRequested(b, t)'
    BY <1>6, <1>7 DEF asRequested
  <2>3. ASSUME NEW c \in budgets'
        PROVE  /\ pc'[c.id] = "done" /\ call'[c.id] \in Requests /\ asRequested(c, c.id)'
               /\ \E r \in idempotency' : r.response.id = c.id
    <3>1. CASE c \in budgets
      BY <1>1, <1>5, <2>1, <3>1 DEF IInv, BudgetsSound
    <3>2. CASE c = b
      <4>1. c.id = t /\ call'[t] \in Requests
        BY <1>1, <3>2
      <4>2. rec \in idempotency' /\ rec.response.id = t
        BY <1>1, <1>2
      <4>3. asRequested(c, c.id)'
        <5>1. asRequested(c, c.id) = asRequested(b, t)
          BY <3>2, <4>1
        <5> QED
          BY <1>6, <1>7, <4>1, <5>1 DEF asRequested
      <4> QED
        BY <1>8, <4>1, <4>2, <4>3
    <3> QED
      BY <1>1, <3>1, <3>2
  <2>4. \A c, d \in budgets' : c.id = d.id \/ slot(c) = slot(d) => c = d
    <3> HIDE DEF b
    <3> QED
      BY <1>1, <1>5 DEF IInv, BudgetsSound
  <2> QED
    BY <2>3, <2>4 DEF BudgetsSound
<1>10. RecordsSound'
  <2>1. \A r \in idempotency : r.response.id \in Tx /\ posted(r.response.id) /\ recordedFor(r, r.response.id)
    BY <1>5 DEF IInv, RecordsSound, posted
  <2>2. \A r \in idempotency : posted(r.response.id)' /\ recordedFor(r, r.response.id)'
    BY <1>1, <1>6, <2>1 DEF posted, recordedFor
  <2>3. posted(t)' /\ recordedFor(rec, t)'
    <3>1. b \in budgets' /\ b.id = t
      BY <1>1
    <3>2. call' = call /\ normalized(t)' = normalized(t)
      BY <1>1, <1>6
    <3>3. recordedFor(rec, t)
      BY <1>2 DEF recordedFor
    <3> HIDE DEF b
    <3>4. recordedFor(rec, t)'
      BY <3>2, <3>3 DEF recordedFor
    <3> QED
      BY <3>1, <3>4 DEF posted
  <2>4. \A r \in idempotency : ~(r.userId = rec.userId /\ r.key = rec.key)
    BY <1>1, <1>2 DEF existing
  <2>5. idempotency' = idempotency \cup {rec} /\ rec.response.id = t
    BY <1>1, <1>2
  <2> HIDE DEF b
  <2>6. \A r \in idempotency' : posted(r.response.id)' /\ recordedFor(r, r.response.id)'
    BY <2>2, <2>3, <2>5
  <2>7. \A r, s \in idempotency' : r.userId = s.userId /\ r.key = s.key => r = s
    BY <2>4, <2>5 DEF IInv, RecordsSound
  <2> QED
    BY <2>6, <2>7 DEF RecordsSound
<1>11. SpendSound'
  BY <1>1 DEF IInv, SpendSound
<1> QED
  BY <1>4, <1>9, <1>10, <1>11

(* What another attempt relies on it has the lock of.                      *)
LEMMA CommitDisturbsNobody ==
  ASSUME IInv, NEW t \in Tx, Commit(t), NEW u \in Tx \ {t}
  PROVE  Attempt(u)'
<1>1. /\ pc'[u] = pc[u] /\ answer'[u] = answer[u] /\ held'[u] = held[u]
      /\ UNCHANGED <<call, seen, since, processed>> /\ call'[u] = call[u]
      /\ budgets' = budgets \cup {budgetOf(t)} /\ idempotency' = idempotency \cup {recordOf(t)}
      /\ keyLock(call[t]) \in held[t] /\ slotLock(budgetOf(t)) \in held[t]
  BY CommitWrites DEF IInv, Types, TypeOK
<1>2. held[t] \cap held[u] = {} /\ Attempt(u)
  BY DEF IInv, OneHolder
<1>3. /\ existing(u) \subseteq existing(u)' /\ (taken(u) => taken(u)')
      /\ normalized(u)' = normalized(u)
  BY <1>1, SameCallSameBudget DEF existing, taken
<1>4. pc[u] \in {"insert", "record"} => existing(u)' = {}
  <2> SUFFICES ASSUME pc[u] \in {"insert", "record"}, NEW rec \in existing(u)' PROVE FALSE
    OBVIOUS
  <2>1. keyLock(call[u]) \in held[u] /\ existing(u) = {}
    BY <1>2 DEF Attempt, KeyHeld
  <2>2. rec = recordOf(t) /\ rec.userId = call[u].userId /\ rec.key = call[u].key
    BY <1>1, <2>1 DEF existing
  <2>3. keyLock(call[t]) = keyLock(call[u])
    BY <2>2 DEF recordOf, keyLock
  <2> QED
    BY <1>1, <1>2, <2>1, <2>3
<1>5. pc[u] = "record" => ~taken(u)'
  <2> SUFFICES ASSUME pc[u] = "record", taken(u)' PROVE FALSE
    OBVIOUS
  <2>1. slotLock(budgetOf(u)) \in held[u] /\ ~taken(u)
    BY <1>2 DEF Attempt, SlotHeld
  <2>2. slot(budgetOf(t)) = slot(budgetOf(u))
    BY <1>1, <2>1, SameCallSameBudget DEF taken
  <2>3. slotLock(budgetOf(t)) = slotLock(budgetOf(u))
    BY <2>2 DEF slotLock
  <2> QED
    BY <1>1, <1>2, <2>1, <2>3
<1>6. Called(u)'
  BY <1>1, <1>2 DEF Attempt, Called
<1>7. KeyHeld(u)' /\ SlotHeld(u)'
  BY <1>1, <1>2, <1>4, <1>5, SameCallSameBudget DEF Attempt, KeyHeld, SlotHeld
<1>8. \A n : includes(u, n)' <=> includes(u, n)
  BY <1>1, SameCallSameBudget DEF includes
<1>9. ReadsWhole(u)'
  BY <1>1, <1>2, <1>8 DEF Attempt, ReadsWhole
<1>10. Told(u)'
  BY <1>1, <1>2, <1>3 DEF Attempt, Told
<1> QED
  BY <1>6, <1>7, <1>9, <1>10 DEF Attempt

LEMMA CommitOwn == ASSUME IInv, NEW t \in Tx, Commit(t) PROVE Attempt(t)'
<1>1. /\ pc[t] = "record" /\ pc'[t] = "done" /\ call'[t] = call[t] /\ call[t] \in Requests
      /\ UNCHANGED <<call, seen, since, processed>>
      /\ idempotency' = idempotency \cup {recordOf(t)}
      /\ \/ answer'[t] = responseOf(t) \/ answer'[t] = Refused("LOST")
  BY CommitWrites DEF IInv, Types, TypeOK
<1>2. recordOf(t) \in existing(t)' /\ normalized(t)' = normalized(t)
  BY <1>1, SameCallSameBudget DEF existing, recordOf
<1>3. Told(t)'
  BY <1>1, <1>2, Refusals DEF Told, recordOf, responseOf
<1>4. includes(t, displaySpent(seen[t]))' /\ since[t] \subseteq processed
  <2>1. includes(t, displaySpent(seen[t])) /\ since[t] \subseteq processed
    BY <1>1 DEF IInv, Attempt, ReadsWhole
  <2>2. displaySpent(seen[t])' = displaySpent(seen[t])
    BY <1>1 DEF displaySpent
  <2> QED
    BY <1>1, <2>1, <2>2, SameCallSameBudget DEF includes
<1>5. ReadsWhole(t)'
  <2>1. answer'[t].code = "CREATED" => answer'[t].spentMinor = displaySpent(seen[t])'
    BY <1>1, Refusals DEF responseOf, displaySpent
  <2> QED
    BY <1>1, <1>4, <2>1 DEF ReadsWhole
<1> QED
  BY <1>1, <1>3, <1>5 DEF Attempt, Called, KeyHeld, SlotHeld

LEMMA CommitKeeps == ASSUME IInv, NEW t \in Tx, Commit(t) PROVE IInv'
<1>1. /\ UNCHANGED <<spend, processed, call, handler>> /\ held' = [held EXCEPT ![t] = {}]
      /\ budgets' = budgets \cup {budgetOf(t)} /\ ~taken(t) /\ budgetOf(t).id = t
      /\ \A u \in Tx \ {t} : answer'[u] = answer[u]
      /\ answer'[t] = responseOf(t) \/ answer'[t] = Refused("LOST")
  BY CommitWrites DEF IInv, Types, TypeOK
<1>2. Types' /\ OneHolder'
  BY <1>1, CommitTables, Released DEF IInv, Types
<1>3. NotOwnBudget'
  <2> SUFFICES ASSUME NEW s \in Tx, NEW u \in Tx, posted(s)', sameKey(s, u)',
                      normalized(s)' = normalized(u)', answer'[u].code = "BUDGET_EXISTS"
               PROVE  FALSE
    BY DEF NotOwnBudget
  <2>1. u # t /\ answer[u].code = "BUDGET_EXISTS"
    BY <1>1, Refusals DEF responseOf
  <2>2. sameKey(s, u) /\ normalized(s) = normalized(u)
    BY <1>1, SameCallSameBudget DEF sameKey
  <2>3. CASE s = t
    <3>1. slot(budgetOf(t)) = slot(budgetOf(u))
      BY <2>2, <2>3 DEF slot, budgetOf, sameKey
    <3>2. taken(u)
      BY <2>1 DEF IInv, Attempt, Told
    <3> QED
      BY <1>1, <3>1, <3>2 DEF taken
  <2>4. CASE s # t
    <3>1. posted(s)
      BY <1>1, <2>4 DEF posted
    <3> QED
      BY <2>1, <2>2, <3>1 DEF IInv, NotOwnBudget
  <2> QED
    BY <2>3, <2>4
<1>4. \A u \in Tx : Attempt(u)'
  BY CommitDisturbsNobody, CommitOwn
<1>5. ASSUME NEW h \in Handlers PROVE Handling(h)'
  <2>1. /\ event(h)' = event(h) /\ held'[h] = held[h] /\ handler'[h] = handler[h]
        /\ Handling(h)
    BY <1>1, BudgetAssumption DEF event, IInv, Types
  <2> QED
    BY <1>1, <2>1 DEF Handling, spendLock, eventLock, ofCategory
<1> QED
  BY <1>2, <1>3, <1>4, <1>5, CommitTables DEF IInv
--------------------------------------------------------------------------------
(* The steps of a handler up to its commit.                                *)
LEMMA IdleState ==
  /\ IdleHandler \in HandlerState
  /\ \A h : handler[h] = IdleHandler => Handling(h)
  BY DEF IdleHandler, HandlerState, HandlerPlaces, Handling

LEMMA WantedLocks ==
  ASSUME IInv, NEW h \in Handlers
  PROVE  wanted(h) \subseteq Locks
<1>1. handler[h].pc # "idle" => event(h) \in Events
  BY DEF IInv, Handling
<1>2. budgets \subseteq BudgetRow
  BY DEF IInv, Types, TypeOK
<1>3. CASE handler[h].pc = "upsert"
  BY <1>1, <1>3 DEF wanted, Locks
<1>4. CASE handler[h].pc = "rename"
  BY <1>2, <1>4 DEF wanted, Locks
<1>5. CASE handler[h].pc = "mark"
  BY <1>1, <1>5 DEF wanted, Locks
<1>6. CASE handler[h].pc \notin {"upsert", "rename", "mark"}
  BY <1>6 DEF wanted
<1> QED
  BY <1>3, <1>4, <1>5, <1>6

(* A handler that ends, however it does, has changed nothing.              *)
LEMMA EndHandlerKeeps ==
  ASSUME IInv, NEW h \in Handlers, EndHandler(h), UNCHANGED tables,
         failures' \in 0 .. MaxFailures
  PROVE  IInv'
<1>1. /\ handler' = [handler EXCEPT ![h] = IdleHandler] /\ held' = [held EXCEPT ![h] = {}]
      /\ UNCHANGED attempts
  BY DEF EndHandler
<1>2. /\ handler' \in [Handlers -> HandlerState] /\ handler'[h] = IdleHandler
      /\ \A g \in Handlers \ {h} : handler'[g] = handler[g]
  BY <1>1, IdleState DEF IInv, Types
<1>3. Handling(h)'
  BY <1>2 DEF IdleHandler, Handling
<1> QED
  BY <1>1, <1>2, <1>3, Released, HandlerStep

(* A handler that goes on without a lock.                                  *)
LEMMA HandlerGoes ==
  ASSUME IInv, NEW h \in Handlers, NEW state \in HandlerState,
         handler' = [handler EXCEPT ![h] = state],
         UNCHANGED <<tables, attempts, held, failures>>,
         handler'[h] = state => Handling(h)'
  PROVE  IInv'
<1>1. /\ handler' \in [Handlers -> HandlerState] /\ handler'[h] = state
      /\ \A g \in Handlers \ {h} : handler'[g] = handler[g]
      /\ failures' \in 0 .. MaxFailures
      /\ held' \in [Tx \cup Handlers -> SUBSET Locks] /\ OneHolder'
  BY DEF IInv, Types, TypeOK, OneHolder
<1> QED
  BY <1>1, HandlerStep

(* A handler that goes on with one more lock.                              *)
LEMMA HandlerTakes ==
  ASSUME IInv, NEW h \in Handlers, NEW lock \in Locks, Acquire(h, lock),
         NEW state \in HandlerState, handler' = [handler EXCEPT ![h] = state],
         UNCHANGED <<tables, attempts, failures>>,
         handler'[h] = state /\ held'[h] = held[h] \cup {lock} => Handling(h)'
  PROVE  IInv'
<1>1. /\ handler' \in [Handlers -> HandlerState] /\ handler'[h] = state
      /\ \A g \in Handlers \ {h} : handler'[g] = handler[g]
      /\ failures' \in 0 .. MaxFailures
  BY DEF IInv, Types, TypeOK
<1> QED
  BY <1>1, Acquired, HandlerStep

LEMMA DeliverKeeps ==
  ASSUME IInv, NEW h \in Handlers, NEW e \in Events, Deliver(h, e)
  PROVE  IInv'
<1>1. PICK state : state = [IdleHandler EXCEPT !.pc = "lookUp", !.event = e]
  OBVIOUS
<1>2. state \in HandlerState /\ state.pc = "lookUp" /\ state.event = e /\ state.rows = {}
  <2>1. state = [pc |-> "lookUp", event |-> e, awaits |-> NoLock, rows |-> {}, value |-> 0]
    BY <1>1 DEF IdleHandler
  <2> QED
    BY <2>1 DEF HandlerState, HandlerPlaces
<1>3. handler'[h] = state => Handling(h)'
  BY <1>2 DEF Handling, event
<1> QED
  BY <1>1, <1>2, <1>3, HandlerGoes DEF Deliver

LEMMA NotProcessedKeeps == ASSUME IInv, NEW h \in Handlers, NotProcessed(h) PROVE IInv'
<1>1. PICK state : state = [handler[h] EXCEPT !.pc = IF Delta[event(h)] = 0 THEN "mark" ELSE "upsert",
                                              !.awaits = NoLock]
  OBVIOUS
<1>2. /\ handler[h] \in HandlerState /\ handler \in [Handlers -> HandlerState]
      /\ handler[h].pc = "lookUp" /\ Handling(h) /\ event(h) \in Events
  BY DEF IInv, Types, NotProcessed, Handling
<1>3. /\ state \in HandlerState /\ state.event = event(h) /\ state.rows = handler[h].rows
      /\ state.pc = IF Delta[event(h)] = 0 THEN "mark" ELSE "upsert"
  BY <1>1, <1>2 DEF HandlerState, HandlerPlaces, event
<1>4. handler' = [handler EXCEPT ![h] = state] /\ UNCHANGED <<tables, attempts, held, failures>>
  BY <1>1, <1>2 DEF NotProcessed, handlerAt
<1>5. handler'[h] = state => Handling(h)'
  BY <1>2, <1>3, <1>4 DEF Handling, event, tables, ofCategory
<1> QED
  BY <1>3, <1>4, <1>5, HandlerGoes

LEMMA AwaitKeeps ==
  ASSUME IInv, NEW h \in Handlers, NEW lock \in wanted(h), Await(h, lock)
  PROVE  IInv'
<1>1. PICK state : state = [handler[h] EXCEPT !.awaits = lock]
  OBVIOUS
<1>2. /\ handler[h] \in HandlerState /\ handler \in [Handlers -> HandlerState] /\ Handling(h)
      /\ lock \in Locks
  BY WantedLocks DEF IInv, Types
<1>3. /\ state \in HandlerState /\ state.event = event(h) /\ state.rows = handler[h].rows
      /\ state.pc = handler[h].pc /\ state.value = handler[h].value
  BY <1>1, <1>2 DEF HandlerState, event
<1>4. handler' = [handler EXCEPT ![h] = state] /\ UNCHANGED <<tables, attempts, held, failures>>
  BY <1>1, <1>2 DEF Await
<1>5. handler'[h] = state => Handling(h)'
  BY <1>2, <1>3, <1>4 DEF Handling, event, tables, ofCategory, spendLock, eventLock
<1> QED
  BY <1>3, <1>4, <1>5, HandlerGoes

LEMMA UpsertKeeps == ASSUME IInv, NEW h \in Handlers, Upsert(h) PROVE IInv'
<1>1. PICK state : state = [handler[h] EXCEPT !.pc = "update", !.awaits = NoLock,
                              !.value = spend[EventKey[event(h)]] + Delta[event(h)]]
  OBVIOUS
<1>2. /\ handler[h] \in HandlerState /\ handler \in [Handlers -> HandlerState]
      /\ handler[h].pc = "upsert" /\ Handling(h) /\ event(h) \in Events
  BY DEF IInv, Types, Upsert, Handling
<1>3. spend[EventKey[event(h)]] + Delta[event(h)] \in Int
  BY <1>2, BudgetAssumption DEF IInv, Types, TypeOK
<1>4. /\ state \in HandlerState /\ state.event = event(h) /\ state.rows = handler[h].rows
      /\ state.pc = "update"
      /\ state.value = spend[EventKey[event(h)]] + Delta[event(h)]
  BY <1>1, <1>2, <1>3 DEF HandlerState, HandlerPlaces, event
<1>5. /\ handler' = [handler EXCEPT ![h] = state] /\ UNCHANGED <<tables, attempts, failures>>
      /\ Acquire(h, spendLock(event(h))) /\ spendLock(event(h)) \in Locks
  BY <1>1, <1>2 DEF Upsert, Take, Locks
<1>6. handler'[h] = state /\ held'[h] = held[h] \cup {spendLock(event(h))} => Handling(h)'
  BY <1>2, <1>4, <1>5 DEF Handling, event, tables, ofCategory, spendLock
<1> QED
  BY <1>4, <1>5, <1>6, HandlerTakes

LEMMA StartUpdateKeeps == ASSUME IInv, NEW h \in Handlers, StartUpdate(h) PROVE IInv'
<1>1. PICK ids : ids = {b.id : b \in {r \in budgets : ofCategory(r, event(h))}}
  OBVIOUS
<1>2. PICK state : state = [handler[h] EXCEPT !.pc = "rename", !.rows = ids]
  OBVIOUS
<1>3. /\ handler[h] \in HandlerState /\ handler \in [Handlers -> HandlerState]
      /\ handler[h].pc = "update" /\ Handling(h)
  BY DEF IInv, Types, StartUpdate
<1>4. ids \subseteq Tx
  BY <1>1 DEF IInv, Types, TypeOK, BudgetRow
<1>5. /\ state \in HandlerState /\ state.event = event(h) /\ state.rows = ids
      /\ state.pc = "rename" /\ state.value = handler[h].value
  BY <1>2, <1>3, <1>4 DEF HandlerState, HandlerPlaces, event
<1>6. handler' = [handler EXCEPT ![h] = state] /\ UNCHANGED <<tables, attempts, held, failures>>
  BY <1>1, <1>2, <1>3 DEF StartUpdate, ofCategory
<1>7. handler'[h] = state => Handling(h)'
  BY <1>1, <1>3, <1>5, <1>6 DEF Handling, event, tables, ofCategory, spendLock
<1> QED
  BY <1>5, <1>6, <1>7, HandlerGoes

LEMMA UpdateRowKeeps ==
  ASSUME IInv, NEW h \in Handlers, NEW lock \in wanted(h), UpdateRow(h, lock)
  PROVE  IInv'
<1>1. PICK state : state = [handler[h] EXCEPT !.pc = "rename", !.awaits = NoLock]
  OBVIOUS
<1>2. /\ handler[h] \in HandlerState /\ handler \in [Handlers -> HandlerState]
      /\ handler[h].pc = "rename" /\ Handling(h) /\ lock \in Locks
  BY WantedLocks DEF IInv, Types, UpdateRow
<1>3. /\ state \in HandlerState /\ state.event = event(h) /\ state.rows = handler[h].rows
      /\ state.pc = "rename" /\ state.value = handler[h].value
  BY <1>1, <1>2 DEF HandlerState, HandlerPlaces, event
<1>4. /\ handler' = [handler EXCEPT ![h] = state] /\ UNCHANGED <<tables, attempts, failures>>
      /\ Acquire(h, lock)
  BY <1>1, <1>2 DEF UpdateRow, Take, handlerAt
<1>5. handler'[h] = state /\ held'[h] = held[h] \cup {lock} => Handling(h)'
  BY <1>2, <1>3, <1>4 DEF Handling, event, tables, ofCategory, spendLock
<1> QED
  BY <1>2, <1>3, <1>4, <1>5, HandlerTakes

LEMMA UpdatedKeeps == ASSUME IInv, NEW h \in Handlers, Updated(h) PROVE IInv'
<1>1. PICK state : state = [handler[h] EXCEPT !.pc = "mark", !.awaits = NoLock]
  OBVIOUS
<1>2. /\ handler[h] \in HandlerState /\ handler \in [Handlers -> HandlerState]
      /\ handler[h].pc = "rename" /\ Handling(h)
  BY DEF IInv, Types, Updated
<1>3. /\ state \in HandlerState /\ state.event = event(h) /\ state.rows = handler[h].rows
      /\ state.pc = "mark" /\ state.value = handler[h].value
  BY <1>1, <1>2 DEF HandlerState, HandlerPlaces, event
<1>4. handler' = [handler EXCEPT ![h] = state] /\ UNCHANGED <<tables, attempts, held, failures>>
  BY <1>1, <1>2 DEF Updated, handlerAt
<1>5. handler'[h] = state => Handling(h)'
  BY <1>2, <1>3, <1>4 DEF Handling, event, tables, ofCategory, spendLock
<1> QED
  BY <1>3, <1>4, <1>5, HandlerGoes

LEMMA MarkProcessedKeeps == ASSUME IInv, NEW h \in Handlers, MarkProcessed(h) PROVE IInv'
<1>1. PICK state : state = [handler[h] EXCEPT !.pc = "commit", !.awaits = NoLock]
  OBVIOUS
<1>2. /\ handler[h] \in HandlerState /\ handler \in [Handlers -> HandlerState]
      /\ handler[h].pc = "mark" /\ Handling(h) /\ event(h) \in Events /\ event(h) \notin processed
  BY DEF IInv, Types, MarkProcessed, Handling
<1>3. /\ state \in HandlerState /\ state.event = event(h) /\ state.rows = handler[h].rows
      /\ state.pc = "commit" /\ state.value = handler[h].value
  BY <1>1, <1>2 DEF HandlerState, HandlerPlaces, event
<1>4. /\ handler' = [handler EXCEPT ![h] = state] /\ UNCHANGED <<tables, attempts, failures>>
      /\ Acquire(h, eventLock(event(h))) /\ eventLock(event(h)) \in Locks
  BY <1>1, <1>2 DEF MarkProcessed, Take, handlerAt, Locks
<1>5. handler'[h] = state /\ held'[h] = held[h] \cup {eventLock(event(h))} => Handling(h)'
  BY <1>2, <1>3, <1>4 DEF Handling, event, tables, ofCategory, spendLock, eventLock
<1> QED
  BY <1>3, <1>4, <1>5, HandlerTakes

LEMMA HandlerEndsKeeps ==
  ASSUME IInv, NEW h \in Handlers,
         SkipProcessed(h) \/ DuplicateKey(h) \/ DeadlockDetected(h) \/ HandlerLost(h)
  PROVE  IInv'
<1>1. EndHandler(h) /\ UNCHANGED tables
  BY DEF SkipProcessed, DuplicateKey, DeadlockDetected, HandlerLost
<1>2. failures \in 0 .. MaxFailures /\ MaxFailures \in Nat
  BY BudgetAssumption DEF IInv, Types, TypeOK
<1>3. failures' \in 0 .. MaxFailures
  BY <1>2 DEF SkipProcessed, DuplicateKey, DeadlockDetected, HandlerLost
<1> QED
  BY <1>1, <1>3, EndHandlerKeeps
--------------------------------------------------------------------------------
(* The commit of a handler: its event renames budgets and adds to a cell.  *)
sameRow(b, c) ==
  /\ c = [b EXCEPT !.categoryName = c.categoryName] /\ c.categoryName \in Names
  /\ c = b \/ b.categoryId # NoCategory

LEMMA SameRow ==
  ASSUME NEW b \in BudgetRow, NEW c, sameRow(b, c)
  PROVE  /\ c \in BudgetRow /\ c.id = b.id /\ slot(c) = slot(b)
         /\ \A e : ofCategory(c, e) <=> ofCategory(b, e)
         /\ \A t : asRequested(b, t) => asRequested(c, t)
<1>1. /\ c \in BudgetRow /\ c.id = b.id /\ c.userId = b.userId /\ c.categoryId = b.categoryId
      /\ c.period = b.period
  BY DEF sameRow, BudgetRow
<1>2. slot(c) = slot(b)
  <2>1. CASE c = b
    BY <2>1
  <2>2. CASE b.categoryId # NoCategory
    BY <1>1, <2>2 DEF slot
  <2> QED
    BY <2>1, <2>2 DEF sameRow
<1>3. ASSUME NEW t, asRequested(b, t) PROVE asRequested(c, t)
  <2>1. c = [budgetOf(t) EXCEPT !.categoryName = c.categoryName]
    BY <1>3 DEF asRequested, sameRow, budgetOf
  <2> QED
    BY <1>1, <1>3, <2>1 DEF asRequested, sameRow
<1> QED
  BY <1>1, <1>2, <1>3 DEF ofCategory

LEMMA CommitEventWrites ==
  ASSUME IInv, NEW h \in Handlers, CommitEvent(h), NEW e, e = event(h)
  PROVE  /\ e \in Events /\ e \notin processed /\ EventKey[e] \in SpendKey /\ Delta[e] \in Int
         /\ eventLock(e) \in held[h] /\ (Delta[e] # 0 => spendLock(e) \in held[h])
         /\ processed' = processed \cup {e}
         /\ spend' \in [SpendKey -> Int] /\ (Delta[e] = 0 => spend' = spend)
         /\ spend'[EventKey[e]] = spend[EventKey[e]] + Delta[e]
         /\ \A cs \in SpendKey \ {EventKey[e]} : spend'[cs] = spend[cs]
         /\ handler' = [handler EXCEPT ![h] = IdleHandler]
         /\ held' = [held EXCEPT ![h] = {}]
         /\ UNCHANGED <<idempotency, failures, pc, call, seen, answer, since>>
<1>1. /\ handler[h].pc = "commit" /\ Handling(h) /\ handler' = [handler EXCEPT ![h] = IdleHandler]
      /\ processed' = processed \cup {e} /\ held' = [held EXCEPT ![h] = {}]
      /\ UNCHANGED <<idempotency, failures, pc, call, seen, answer, since>>
  BY DEF CommitEvent, EndHandler, attempts, IInv
<1>2. /\ e \in Events /\ e \notin processed /\ eventLock(e) \in held[h]
      /\ Delta[e] # 0 => spendLock(e) \in held[h] /\ handler[h].value = spend[EventKey[e]] + Delta[e]
  BY <1>1 DEF Handling
<1>3. EventKey[e] \in SpendKey /\ Delta[e] \in Int /\ spend \in [SpendKey -> Int]
  BY <1>2, BudgetAssumption DEF IInv, Types, TypeOK
<1>4. CASE Delta[e] = 0
  BY <1>1, <1>2, <1>3, <1>4 DEF CommitEvent
<1>5. CASE Delta[e] # 0
  <2>1. spend' = [spend EXCEPT ![EventKey[e]] = spend[EventKey[e]] + Delta[e]]
    BY <1>2, <1>5 DEF CommitEvent
  <2> QED
    BY <1>1, <1>2, <1>3, <1>5, <2>1
<1> QED
  BY <1>4, <1>5

LEMMA CommitEventRenames ==
  ASSUME IInv, NEW h \in Handlers, CommitEvent(h)
  PROVE  /\ \A b \in budgets : \E c \in budgets' : sameRow(b, c)
         /\ \A c \in budgets' : \E b \in budgets : sameRow(b, c)
         /\ \A c, d \in budgets' : c.id = d.id => c = d
         /\ Delta[event(h)] # 0 => budgets' = {renamedBy(h, b) : b \in budgets}
         /\ \A b \in budgets : renamedBy(h, b) # b => ofCategory(b, event(h))
<1>1. /\ handler[h].pc = "commit" /\ Handling(h) /\ event(h) \in Events
      /\ budgets \subseteq BudgetRow /\ \A b, c \in budgets : b.id = c.id => b = c
  BY DEF CommitEvent, IInv, Handling, Types, TypeOK, BudgetsSound
<1>2. EventKey[event(h)][2] \in Categories /\ CategoryName[EventKey[event(h)][2]] \in Names
  BY <1>1, BudgetAssumption, RulesAssumption DEF SpendKey
<1>3. ASSUME NEW b \in budgets
      PROVE  sameRow(b, renamedBy(h, b)) /\ (renamedBy(h, b) # b => ofCategory(b, event(h)))
  <2>1. b.categoryName \in Names /\ b = [b EXCEPT !.categoryName = b.categoryName]
    BY <1>1 DEF BudgetRow
  <2>2. CASE b.id \in handler[h].rows
    <3>1. ofCategory(b, event(h))
      BY <1>1, <2>2 DEF Handling
    <3>2. b.categoryId # NoCategory
      BY <1>2, <3>1, RulesAssumption DEF ofCategory
    <3>3. renamedBy(h, b) = [b EXCEPT !.categoryName = CategoryName[EventKey[event(h)][2]]]
      BY <2>2 DEF renamedBy
    <3>4. renamedBy(h, b).categoryName = CategoryName[EventKey[event(h)][2]]
      BY <1>1, <3>3 DEF BudgetRow
    <3> QED
      BY <1>2, <3>1, <3>2, <3>3, <3>4 DEF sameRow
  <2>3. CASE b.id \notin handler[h].rows
    BY <2>1, <2>3 DEF renamedBy, sameRow
  <2> QED
    BY <2>2, <2>3
<1>4. \A b \in budgets : renamedBy(h, b).id = b.id
  BY <1>1, <1>3, SameRow
<1>5. \A b \in budgets : sameRow(b, b)
  BY <1>1 DEF sameRow, BudgetRow
<1>6. CASE Delta[event(h)] = 0
  BY <1>1, <1>3, <1>5, <1>6 DEF CommitEvent
<1>7. CASE Delta[event(h)] # 0
  <2>1. budgets' = {renamedBy(h, b) : b \in budgets}
    BY <1>7 DEF CommitEvent
  <2> QED
    BY <1>1, <1>3, <1>4, <2>1
<1> QED
  BY <1>6, <1>7

(* The event joins the processed ones as its amount joins its cell.        *)
LEMMA CommitEventSpend ==
  ASSUME IInv, NEW h \in Handlers, CommitEvent(h)
  PROVE  SpendSound'
<1>1. PICK e : e = event(h)
  OBVIOUS
<1>2. /\ e \in Events /\ e \notin processed /\ EventKey[e] \in SpendKey /\ Delta[e] \in Int
      /\ processed' = processed \cup {e} /\ spend' \in [SpendKey -> Int]
      /\ spend'[EventKey[e]] = spend[EventKey[e]] + Delta[e]
      /\ \A cs \in SpendKey \ {EventKey[e]} : spend'[cs] = spend[cs]
  BY <1>1, CommitEventWrites
<1>3. /\ IsFiniteSet(processed) /\ processed \subseteq Events /\ spend \in [SpendKey -> Int]
      /\ \A d \in Events : Delta[d] \in Int
  BY BudgetAssumption DEF IInv, SpendSound, Types, TypeOK
<1>4. IsFiniteSet(processed')
  BY <1>2, <1>3, FS_AddElement
<1>5. ASSUME NEW C \in SUBSET SpendKey, IsFiniteSet(C)
      PROVE  sumOver(spend', C) = sumOver(Delta, {d \in processed' : EventKey[d] \in C})
  <2>1. PICK inC : inC = {d \in processed : EventKey[d] \in C}
    OBVIOUS
  <2>2. /\ sumOver(spend, C) = sumOver(Delta, inC) /\ IsFiniteSet(inC) /\ e \notin inC
        /\ \A d \in inC : Delta[d] \in Int
    <3>1. sumOver(spend, C) = sumOver(Delta, inC)
      BY <1>5, <2>1 DEF IInv, SpendSound
    <3>2. IsFiniteSet(inC)
      BY <1>3, <2>1, FS_Subset
    <3> QED
      BY <1>2, <1>3, <2>1, <3>1, <3>2
  <2>3. \A cs \in C : spend[cs] \in Int /\ spend'[cs] \in Int
    BY <1>2, <1>3
  <2>4. CASE EventKey[e] \in C
    <3>1. {d \in processed' : EventKey[d] \in C} = inC \cup {e}
      BY <1>2, <2>1, <2>4
    <3>2. sumOver(Delta, inC \cup {e}) = sumOver(Delta, inC) + Delta[e]
      BY <1>2, <2>2, SumAdd
    <3>3. sumOver(spend', C)
            = sumOver(spend, C) + (spend'[EventKey[e]] - spend[EventKey[e]])
      BY <1>2, <1>5, <2>3, <2>4, SumUpdate
    <3>4. spend[EventKey[e]] \in Int /\ sumOver(spend, C) \in Int
      BY <1>5, <2>3, <2>4, SumInt
    <3>5. spend'[EventKey[e]] = spend[EventKey[e]] + Delta[e] /\ Delta[e] \in Int
      BY <1>2
    <3>6. sumOver(spend', C) = sumOver(spend, C) + Delta[e]
      BY <3>3, <3>4, <3>5
    <3> QED
      BY <2>2, <3>1, <3>2, <3>6
  <2>5. CASE EventKey[e] \notin C
    <3>1. {d \in processed' : EventKey[d] \in C} = inC
      BY <1>2, <2>1, <2>5
    <3>2. \A cs \in C : spend[cs] = spend'[cs]
      BY <1>2, <2>5
    <3>3. sumOver(spend, C) = sumOver(spend', C)
      BY <1>5, <3>2, SumSame
    <3> QED
      BY <2>2, <3>1, <3>3
  <2> QED
    BY <2>4, <2>5
<1> QED
  BY <1>4, <1>5 DEF SpendSound

LEMMA CommitEventTables ==
  ASSUME IInv, NEW h \in Handlers, CommitEvent(h)
  PROVE  TypeOK' /\ BudgetsSound' /\ RecordsSound' /\ NotOwnBudget'
<1>1. PICK e : e = event(h)
  OBVIOUS
<1>2. /\ e \in Events /\ processed' = processed \cup {e} /\ spend' \in [SpendKey -> Int]
      /\ handler' = [handler EXCEPT ![h] = IdleHandler]
      /\ UNCHANGED <<idempotency, failures, pc, call, seen, answer, since>>
  BY <1>1, CommitEventWrites
<1>3. /\ budgets \subseteq BudgetRow
      /\ \A b \in budgets : \E c \in budgets' : sameRow(b, c)
      /\ \A c \in budgets' : \E b \in budgets : sameRow(b, c)
      /\ \A c, d \in budgets' : c.id = d.id => c = d
  BY CommitEventRenames DEF IInv, Types, TypeOK
<1>4. budgets' \subseteq BudgetRow
  BY <1>3, SameRow
<1>5. TypeOK'
  <2>1. \A g \in Handlers :
          /\ handler'[g].pc \in HandlerPlaces /\ handler'[g].rows \subseteq Tx
          /\ handler'[g].pc # "idle" => event(g)' \in Events
    BY <1>2 DEF IInv, Types, TypeOK, IdleHandler, HandlerPlaces, event
  <2> QED
    BY <1>2, <1>4, <2>1 DEF IInv, Types, TypeOK
<1>6. \A u : normalized(u)' = normalized(u) /\ budgetOf(u)' = budgetOf(u)
  BY <1>2 DEF normalized, budgetOf
<1>7. \A u : posted(u)' <=> posted(u)
  <2>1. \A c \in budgets' : \E b \in budgets : b.id = c.id
    BY <1>3, SameRow
  <2>2. \A b \in budgets : \E c \in budgets' : b.id = c.id
    BY <1>3, SameRow
  <2> QED
    BY <2>1, <2>2 DEF posted
<1>8. BudgetsSound'
  <2>1. ASSUME NEW c \in budgets'
        PROVE  /\ pc'[c.id] = "done" /\ call'[c.id] \in Requests /\ asRequested(c, c.id)'
               /\ \E rec \in idempotency' : rec.response.id = c.id
    <3>1. PICK b \in budgets : sameRow(b, c)
      BY <1>3
    <3>2. c.id = b.id /\ asRequested(c, c.id)
      BY <1>3, <3>1, SameRow DEF IInv, BudgetsSound
    <3> QED
      BY <1>2, <1>6, <3>2 DEF IInv, BudgetsSound, asRequested
  <2>2. ASSUME NEW c \in budgets', NEW d \in budgets', slot(c) = slot(d)
        PROVE  c = d
    <3>1. PICK b \in budgets, a \in budgets : sameRow(b, c) /\ sameRow(a, d)
      BY <1>3
    <3>2. slot(b) = slot(a) /\ c.id = b.id /\ d.id = a.id
      BY <1>3, <2>2, <3>1, SameRow
    <3> QED
      BY <1>3, <3>2 DEF IInv, BudgetsSound
  <2> QED
    BY <1>3, <2>1, <2>2 DEF BudgetsSound
<1>9. RecordsSound'
  <2>1. \A rec \in idempotency : recordedFor(rec, rec.response.id)' <=> recordedFor(rec, rec.response.id)
    BY <1>2, <1>6 DEF recordedFor
  <2> QED
    BY <1>2, <1>7, <2>1 DEF IInv, RecordsSound
<1>10. NotOwnBudget'
  BY <1>2, <1>6, <1>7 DEF IInv, NotOwnBudget, sameKey
<1> QED
  BY <1>5, <1>8, <1>9, <1>10

LEMMA CommitEventKeeps ==
  ASSUME IInv, NEW h \in Handlers, CommitEvent(h)
  PROVE  IInv'
<1>1. PICK e : e = event(h)
  OBVIOUS
<1>2. /\ e \in Events /\ EventKey[e] \in SpendKey
      /\ eventLock(e) \in held[h] /\ (Delta[e] # 0 => spendLock(e) \in held[h])
      /\ processed' = processed \cup {e} /\ (Delta[e] = 0 => spend' = spend)
      /\ \A cs \in SpendKey \ {EventKey[e]} : spend'[cs] = spend[cs]
      /\ handler' = [handler EXCEPT ![h] = IdleHandler] /\ held' = [held EXCEPT ![h] = {}]
      /\ UNCHANGED <<idempotency, failures, pc, call, seen, answer, since>>
  BY <1>1, CommitEventWrites
<1>3. /\ budgets \subseteq BudgetRow
      /\ \A b \in budgets : \E c \in budgets' : sameRow(b, c)
      /\ \A c \in budgets' : \E b \in budgets : sameRow(b, c)
  BY CommitEventRenames DEF IInv, Types, TypeOK
<1>4. Types' /\ OneHolder'
  BY <1>2, Released, CommitEventTables, IdleState DEF IInv, Types
<1>5. ASSUME NEW u \in Tx PROVE Attempt(u)'
  <2>1. held'[u] = held[u] /\ Attempt(u) /\ call'[u] = call[u]
    BY <1>2, BudgetAssumption DEF IInv, Types
  <2>2. existing(u)' = existing(u)
    BY <1>2 DEF existing
  <2>3. taken(u)' <=> taken(u)
    <3>1. \A c \in budgets' : \E b \in budgets : slot(b) = slot(c)
      BY <1>3, SameRow
    <3>2. \A b \in budgets : \E c \in budgets' : slot(b) = slot(c)
      BY <1>3, SameRow
    <3> QED
      BY <2>1, <3>1, <3>2, SameCallSameBudget DEF taken
  <2>4. Called(u)' /\ KeyHeld(u)' /\ SlotHeld(u)'
    BY <1>2, <2>1, <2>2, <2>3, SameCallSameBudget DEF Attempt, Called, KeyHeld, SlotHeld
  <2>5. \A n : includes(u, n) => includes(u, n)'
    BY <1>2, <2>1, SameCallSameBudget DEF includes
  <2>6. ReadsWhole(u)'
    BY <1>2, <2>1, <2>5 DEF Attempt, ReadsWhole
  <2>7. Told(u)'
    BY <1>2, <2>1, <2>2, <2>3, SameCallSameBudget DEF Attempt, Told
  <2> QED
    BY <2>4, <2>6, <2>7 DEF Attempt
<1>6. ASSUME NEW g \in Handlers PROVE Handling(g)'
  <2>1. CASE g = h
    <3>1. handler'[g] = IdleHandler
      BY <1>2, <2>1 DEF IInv, Types
    <3> QED
      BY <3>1 DEF IdleHandler, Handling
  <2>2. CASE g # h
    <3>1. /\ handler'[g] = handler[g] /\ held'[g] = held[g] /\ event(g)' = event(g) /\ Handling(g)
          /\ held[g] \cap held[h] = {}
      BY <1>2, <2>2 DEF IInv, Types, event, OneHolder
    <3>2. \A id \in handler[g].rows : \E c \in budgets' : c.id = id /\ ofCategory(c, event(g))
      BY <1>3, <3>1, SameRow DEF Handling
    <3>3. handler[g].pc = "commit" => event(g) \notin processed'
      BY <1>2, <3>1 DEF Handling
    <3>4. spendLock(event(g)) \in held[g] /\ event(g) \in Events
            => spend'[EventKey[event(g)]] = spend[EventKey[event(g)]]
      <4>1. CASE Delta[e] = 0
        BY <1>2, <4>1
      <4>2. CASE Delta[e] # 0
        <5>1. spendLock(event(g)) \in held[g] => EventKey[event(g)] # EventKey[e]
          BY <1>2, <3>1, <4>2 DEF spendLock
        <5>2. event(g) \in Events => EventKey[event(g)] \in SpendKey
          BY BudgetAssumption
        <5> QED
          BY <1>2, <5>1, <5>2
      <4> QED
        BY <4>1, <4>2
    <3> QED
      BY <3>1, <3>2, <3>3, <3>4 DEF Handling, spendLock, eventLock, ofCategory
  <2> QED
    BY <2>1, <2>2
<1> QED
  BY <1>4, <1>5, <1>6, CommitEventTables, CommitEventSpend DEF IInv
--------------------------------------------------------------------------------
LEMMA InitIInv == ASSUME Init PROVE IInv
<1>1. /\ budgets = {} /\ idempotency = {} /\ processed = {}
      /\ spend = [cs \in SpendKey |-> 0] /\ pc = [t \in Tx |-> "idle"]
      /\ call = [t \in Tx |-> NoRequest] /\ seen = [t \in Tx |-> 0]
      /\ answer = [t \in Tx |-> NoAnswer] /\ since = [t \in Tx |-> {}]
      /\ handler = [h \in Handlers |-> IdleHandler]
      /\ held = [a \in Tx \cup Handlers |-> {}] /\ failures = 0
  BY DEF Init
<1>2. Types
  <2>1. held \in [Tx \cup Handlers -> SUBSET Locks] /\ handler \in [Handlers -> HandlerState]
    BY <1>1, IdleState
  <2>2. \A h \in Handlers :
          /\ handler[h].pc \in HandlerPlaces /\ handler[h].rows \subseteq Tx
          /\ handler[h].pc # "idle" => event(h) \in Events
    BY <1>1 DEF IdleHandler, HandlerPlaces
  <2>3. failures \in 0 .. MaxFailures
    BY <1>1, BudgetAssumption
  <2>4. TypeOK
    BY <1>1, <2>2, <2>3, Refusals DEF TypeOK, AttemptPlaces
  <2> QED
    BY <2>1, <2>4 DEF Types
<1>3. OneHolder /\ BudgetsSound /\ RecordsSound /\ NotOwnBudget
  BY <1>1 DEF OneHolder, BudgetsSound, RecordsSound, NotOwnBudget, posted
<1>4. SpendSound
  <2>1. IsFiniteSet(processed)
    BY <1>1, FS_EmptySet
  <2>2. ASSUME NEW C \in SUBSET SpendKey, IsFiniteSet(C)
        PROVE  sumOver(spend, C) = sumOver(Delta, {e \in processed : EventKey[e] \in C})
    <3>1. \A cs \in C : spend[cs] = 0
      BY <1>1
    <3>2. sumOver(spend, C) = 0
      BY <2>2, <3>1, SumOfZeros
    <3>3. {e \in processed : EventKey[e] \in C} = {}
      BY <1>1
    <3> QED
      BY <3>2, <3>3, SumEmpty
  <2> QED
    BY <2>1, <2>2 DEF SpendSound
<1>5. ASSUME NEW t \in Tx PROVE Attempt(t)
  <2>1. pc[t] = "idle" /\ answer[t].code = "none" /\ since[t] = {}
    BY <1>1 DEF NoAnswer
  <2> QED
    BY <2>1 DEF Attempt, Called, KeyHeld, SlotHeld, ReadsWhole, Told
<1>6. \A h \in Handlers : Handling(h)
  BY <1>1, IdleState
<1> QED
  BY <1>2, <1>3, <1>4, <1>5, <1>6 DEF IInv

(* An attempt that ends without a budget of its own.                       *)
LEMMA CreateEndsKeeps ==
  ASSUME IInv, NEW t \in Tx,
         \/ ReplayStored(t) \/ RejectKeyReuse(t) \/ BudgetExists(t) \/ ConnectionLost(t)
  PROVE  IInv'
<1>1. CASE ReplayStored(t)
  <2>1. PICK rec \in existing(t) :
          /\ rec.body = normalized(t)
          /\ \E response \in {rec.response, Refused("LOST")} : Finish(t, response)
    BY <1>1 DEF ReplayStored
  <2>2. pc[t] = "lookUp" /\ UNCHANGED tables
    BY <1>1 DEF ReplayStored
  <2>3. rec.response \in Response /\ rec.response.code = "CREATED"
    BY DEF existing, IInv, Types, TypeOK, RecordsSound, recordedFor
  <2>4. PICK response \in {rec.response, Refused("LOST")} : Finish(t, response)
    BY <2>1
  <2>5. response \in Response /\ response.code \in {"CREATED", "LOST"}
        /\ (response.code = "CREATED" => response = rec.response)
    BY <2>3, Refusals
  <2> QED
    BY <2>1, <2>2, <2>4, <2>5, FinishKeeps
<1>2. CASE RejectKeyReuse(t)
  <2>1. /\ pc[t] = "lookUp" /\ \E rec \in existing(t) : rec.body # normalized(t)
        /\ Finish(t, Refused("IDEMPOTENCY_KEY_REUSE")) /\ UNCHANGED tables
    BY <1>2 DEF RejectKeyReuse, Fail
  <2> QED
    BY <2>1, Refusals, FinishKeeps
<1>3. CASE BudgetExists(t)
  <2>1. /\ pc[t] = "insert" /\ taken(t)
        /\ Finish(t, Refused("BUDGET_EXISTS")) /\ UNCHANGED tables
    BY <1>3 DEF BudgetExists, Fail
  <2>2. existing(t) = {}
    BY <2>1 DEF IInv, Attempt, KeyHeld
  <2> QED
    BY <2>1, <2>2, Refusals, FinishKeeps
<1>4. CASE ConnectionLost(t)
  <2>1. pc[t] \notin {"idle", "done"} /\ Finish(t, Refused("LOST")) /\ UNCHANGED tables
    BY <1>4 DEF ConnectionLost, Fail
  <2> QED
    BY <2>1, Refusals, FinishKeeps
<1> QED
  BY <1>1, <1>2, <1>3, <1>4

LEMMA StutterKeeps == ASSUME IInv, UNCHANGED vars PROVE IInv'
<1>1. UNCHANGED <<budgets, idempotency, spend, processed, pc, call, seen, answer, since>>
      /\ UNCHANGED <<handler, held, failures>> /\ UNCHANGED tables
  BY DEF vars, tables, attempts
<1>2. BudgetsSound' /\ RecordsSound' /\ SpendSound'
  BY <1>1, TablesFrame
<1>3. \A t \in Tx : Attempt(t)'
  BY <1>1, AttemptFrame DEF IInv
<1>4. \A h \in Handlers : Handling(h)'
  BY <1>1, HandlingFrame DEF IInv
<1>5. Types' /\ OneHolder' /\ NotOwnBudget'
  BY <1>1 DEF IInv, Types, TypeOK, event, OneHolder, NotOwnBudget, posted, sameKey, normalized
<1> QED
  BY <1>2, <1>3, <1>4, <1>5 DEF IInv

LEMMA StepKeeps == ASSUME IInv, [Next]_vars PROVE IInv'
<1>1. ASSUME NEW t \in Tx, NEW request \in Requests, RefuseInvalid(t, request) \/ Begin(t, request)
      PROVE  IInv'
  BY <1>1, RefuseInvalidKeeps, BeginKeeps
<1>2. ASSUME NEW t \in Tx, Create(t) \/ ConnectionLost(t)
      PROVE  IInv'
  BY <1>2, LockKeyKeeps, ReadSpentKeeps, InsertBudgetKeeps, CommitKeeps, CreateEndsKeeps DEF Create
<1>3. ASSUME NEW h \in Handlers, NEW e \in Events, Deliver(h, e)
      PROVE  IInv'
  BY <1>3, DeliverKeeps
<1>4. ASSUME NEW h \in Handlers, HandleEvent(h) \/ HandlerLost(h)
      PROVE  IInv'
  BY <1>4, HandlerEndsKeeps, NotProcessedKeeps, UpsertKeeps, StartUpdateKeeps, AwaitKeeps,
     UpdateRowKeeps, UpdatedKeeps, MarkProcessedKeeps, CommitEventKeeps DEF HandleEvent
<1> QED
  BY <1>1, <1>2, <1>3, <1>4, StutterKeeps DEF Next

(* The invariant the results below rest on holds in every state.           *)
THEOREM Invariance == Spec => []IInv
<1>1. Init => IInv
  BY InitIInv
<1>2. IInv /\ [Next]_vars => IInv'
  BY StepKeeps
<1> QED
  BY <1>1, <1>2, PTL DEF Spec

(* Every variable keeps its type, and rows satisfy the CHECKs of the table.*)
THEOREM TypeCorrect == Spec => []TypeOK
<1>1. IInv => TypeOK
  BY DEF IInv, Types
<1> QED
  BY <1>1, Invariance, PTL

(* Two attempts under one key that both report a budget report the same one*)
(* with the same spending, and were sent for the same normalised request.  *)
THEOREM RepeatsRepeat == Spec => []SameKeySameAnswer
<1>1. IInv => SameKeySameAnswer
  <2> SUFFICES ASSUME IInv, NEW t \in Tx, NEW u \in Tx,
                      answer[t].code = "CREATED", answer[u].code = "CREATED", sameKey(t, u)
               PROVE  answer[t] = answer[u] /\ normalized(t) = normalized(u)
    BY DEF SameKeySameAnswer
  <2>1. Told(t) /\ Told(u)
    BY DEF IInv, Attempt
  <2>2. PICK r \in existing(t) : r.body = normalized(t) /\ r.response = answer[t]
    BY <2>1 DEF Told
  <2>3. PICK s \in existing(u) : s.body = normalized(u) /\ s.response = answer[u]
    BY <2>1 DEF Told
  <2>4. r = s
    BY DEF existing, sameKey, IInv, RecordsSound
  <2> QED
    BY <2>2, <2>3, <2>4
<1> QED
  BY <1>1, Invariance, PTL

(* No attempt that repeats a request whose budget is there is refused.     *)
THEOREM RetriesSucceed == Spec => []RetryNeverConflicts
<1>1. IInv => RetryNeverConflicts
  <2> SUFFICES ASSUME IInv, NEW t \in Tx, NEW u \in Tx, posted(t), sameKey(t, u),
                      normalized(t) = normalized(u)
               PROVE  answer[u].code \notin {"BUDGET_EXISTS", "IDEMPOTENCY_KEY_REUSE", "INTERNAL"}
    BY DEF RetryNeverConflicts, posted
  <2>1. Told(u) /\ answer[u].code # "BUDGET_EXISTS"
    BY DEF IInv, Attempt, NotOwnBudget
  <2>2. PICK rec \in existing(u) : rec.body = normalized(t)
    BY PostedExisting
  <2>3. \A other \in existing(u) : other = rec
    BY DEF existing, IInv, RecordsSound
  <2> QED
    BY <2>1, <2>2, <2>3 DEF Told
<1> QED
  BY <1>1, Invariance, PTL

(* A new budget is answered with the spending of some moment since its     *)
(* request began: every event processed before counts, none by half.       *)
THEOREM AnswersInclude == Spec => []AnswerIncludesEarlier
<1>1. IInv => AnswerIncludesEarlier
  BY DEF IInv, Attempt, ReadsWhole, includes, AnswerIncludesEarlier
<1> QED
  BY <1>1, Invariance, PTL

(* GET /budgets and POST /budgets show of a budget the same amount: what   *)
(* the processed events that count for it add up to, each once.            *)
THEOREM ListShows == Spec => []ListShowsProcessed
<1>1. IInv => ListShowsProcessed
  <2> SUFFICES ASSUME IInv, NEW b \in budgets
               PROVE  /\ displaySpent(listedSpent(spend, b)) = spentOn(b, processed)
                      /\ currentSpent(spend, b) = listedSpent(spend, b)
    BY DEF ListShowsProcessed
  <2>1. b \in BudgetRow /\ spend \in [SpendKey -> Int] /\ SpendSound /\ processed \subseteq Events
    BY DEF IInv, Types, TypeOK
  <2> QED
    BY <2>1, ShownSpending
<1> QED
  BY <1>1, Invariance, PTL
--------------------------------------------------------------------------------
(* The refinement: a commit is a step of the book, the rest stutters.      *)
LEMMA SlotOfBook == \A b : Book!slot(b) = slot(b)
  BY DEF Book!slot, slot

LEMMA BodyOfBudget ==
  ASSUME NEW t \in Tx, call[t] \in Requests
  PROVE  normalized(t) = [f \in DOMAIN normalized(t) |-> budgetOf(t)[f]]
<1>1. PICK body \in CreateInput : body = call[t].body
  BY BudgetAssumption
<1>2. PICK trimmed : trimmed = [body EXCEPT !.categoryName = Trim[body.categoryName]]
  OBVIOUS
<1>3. DOMAIN trimmed = {"categoryId", "categoryName", "period", "limitMinor", "thresholdPercent"}
  BY <1>2 DEF CreateInput
<1>4. normalized(t) = [trimmed EXCEPT !.thresholdPercent =
                         IF trimmed.thresholdPercent = 0 THEN 80 ELSE trimmed.thresholdPercent]
  BY <1>1, <1>2 DEF normalized, normalizeCreateInput
<1>5. DOMAIN normalized(t) =
        {"categoryId", "categoryName", "period", "limitMinor", "thresholdPercent"}
  BY <1>3, <1>4
<1>6. \A f \in DOMAIN normalized(t) : budgetOf(t)[f] = normalized(t)[f]
  BY <1>5 DEF budgetOf
<1>7. normalized(t) = [f \in DOMAIN normalized(t) |-> normalized(t)[f]]
  BY <1>4
<1> QED
  BY <1>6, <1>7

LEMMA CommitCreates ==
  ASSUME IInv, NEW t \in Tx, Commit(t)
  PROVE  Book!Next
<1>1. /\ existing(t) = {} /\ ~taken(t) /\ call[t] \in Requests /\ budgetOf(t).id = t
      /\ pc[t] = "record" /\ budgets' = budgets \cup {budgetOf(t)}
      /\ idempotency' = idempotency \cup {recordOf(t)} /\ UNCHANGED <<spend, processed>>
  BY CommitWrites
<1>2. PICK b : b = budgetOf(t)
  OBVIOUS
<1>3. PICK rec : rec = recordOf(t)
  OBVIOUS
<1>4. \A other \in budgets : other.id # b.id /\ Book!slot(other) # Book!slot(b)
  BY <1>1, <1>2, SlotOfBook DEF IInv, BudgetsSound, taken
<1>5. /\ rec.userId = call[t].userId /\ rec.key = call[t].key /\ rec.body = normalized(t)
      /\ rec.response.id = t
  BY <1>3 DEF recordOf, responseOf
<1>6. \A other \in idempotency : <<other.userId, other.key>> # <<rec.userId, rec.key>>
  BY <1>1, <1>5 DEF existing
<1>7. rec.body = [f \in DOMAIN rec.body |-> b[f]]
  BY <1>1, <1>2, <1>5, BodyOfBudget
<1>8. rec.userId = b.userId /\ rec.response.id = b.id
  BY <1>1, <1>2, <1>5 DEF budgetOf
<1>9. Book!Create(b, rec)
  BY <1>1, <1>2, <1>3, <1>4, <1>6, <1>7, <1>8 DEF Book!Create
<1>10. b \in budgets' \ budgets /\ rec \in idempotency' \ idempotency
  BY <1>1, <1>2, <1>3, <1>4, <1>6
<1> QED
  BY <1>9, <1>10 DEF Book!Next

LEMMA CommitEventProjects ==
  ASSUME IInv, NEW h \in Handlers, CommitEvent(h)
  PROVE  Book!Next
<1>1. PICK e : e = event(h)
  OBVIOUS
<1>2. /\ e \in Events /\ e \notin processed /\ processed' = processed \cup {e}
      /\ UNCHANGED idempotency
  BY <1>1, CommitEventWrites
<1>3. spend' = IF Delta[e] = 0 THEN spend ELSE [spend EXCEPT ![EventKey[e]] = @ + Delta[e]]
  <2>1. handler[h].pc = "commit" /\ Handling(h)
    BY DEF CommitEvent, IInv
  <2> QED
    BY <1>1, <2>1 DEF CommitEvent, Handling
<1>4. \E renamed \in SUBSET {b \in budgets : /\ Delta[e] # 0
                                             /\ b.userId = EventKey[e][1]
                                             /\ b.categoryId = EventKey[e][2]} :
        budgets' = (budgets \ renamed)
                     \cup {[b EXCEPT !.categoryName = CategoryName[EventKey[e][2]]] : b \in renamed}
  <2>1. CASE Delta[e] = 0
    <3>1. budgets' = (budgets \ {})
            \cup {[b EXCEPT !.categoryName = CategoryName[EventKey[e][2]]] : b \in {}}
      BY <1>1, <2>1 DEF CommitEvent
    <3> WITNESS {} \in SUBSET {b \in budgets : /\ Delta[e] # 0
                                               /\ b.userId = EventKey[e][1]
                                               /\ b.categoryId = EventKey[e][2]}
    <3> QED
      BY <3>1
  <2>2. CASE Delta[e] # 0
    <3> DEFINE rows == {b \in budgets : b.id \in handler[h].rows}
               new(b) == [b EXCEPT !.categoryName = CategoryName[EventKey[e][2]]]
    <3>1. budgets' = {renamedBy(h, b) : b \in budgets}
      BY <1>1, <2>2, CommitEventRenames
    <3>2. \A b \in budgets : renamedBy(h, b) = IF b \in rows THEN new(b) ELSE b
      BY <1>1 DEF renamedBy
    <3>3. \A b \in rows : ofCategory(b, e)
      <4>1. Handling(h) /\ \A b, c \in budgets : b.id = c.id => b = c
        BY DEF IInv, BudgetsSound
      <4> QED
        BY <1>1, <4>1 DEF Handling
    <3>4. rows \subseteq {b \in budgets : /\ Delta[e] # 0
                                          /\ b.userId = EventKey[e][1]
                                          /\ b.categoryId = EventKey[e][2]}
      BY <2>2, <3>3 DEF ofCategory
    <3>5. rows \subseteq budgets
      OBVIOUS
    <3> HIDE DEF rows, new
    <3>6. {renamedBy(h, b) : b \in budgets} = (budgets \ rows) \cup {new(b) : b \in rows}
      BY <3>2, <3>5
    <3>7. budgets' = (budgets \ rows)
              \cup {[b EXCEPT !.categoryName = CategoryName[EventKey[e][2]]] : b \in rows}
      BY <3>1, <3>6 DEF new
    <3> USE <3>4
    <3> WITNESS rows \in SUBSET {b \in budgets : /\ Delta[e] # 0
                                                 /\ b.userId = EventKey[e][1]
                                                 /\ b.categoryId = EventKey[e][2]}
    <3> QED
      BY <3>7
  <2> QED
    BY <2>1, <2>2
<1> QED
  BY <1>2, <1>3, <1>4 DEF Book!Next, Book!Project

LEMMA CreateRefines ==
  ASSUME IInv, NEW t \in Tx, Create(t)
  PROVE  Book!Next \/ UNCHANGED tables
<1>1. CASE Commit(t)
  BY <1>1, CommitCreates
<1>2. CASE \/ LockKey(t) \/ ReplayStored(t) \/ RejectKeyReuse(t)
           \/ ReadSpent(t) \/ BudgetExists(t) \/ InsertBudget(t)
  BY <1>2 DEF LockKey, ReplayStored, RejectKeyReuse, ReadSpent, BudgetExists, InsertBudget, Fail
<1> QED
  BY <1>1, <1>2 DEF Create

LEMMA HandleEventRefines ==
  ASSUME IInv, NEW h \in Handlers, HandleEvent(h)
  PROVE  Book!Next \/ UNCHANGED tables
<1>1. CASE CommitEvent(h)
  BY <1>1, CommitEventProjects
<1>2. CASE \/ SkipProcessed(h) \/ NotProcessed(h) \/ Upsert(h) \/ StartUpdate(h)
           \/ \E lock \in wanted(h) : Await(h, lock) \/ UpdateRow(h, lock)
           \/ Updated(h) \/ MarkProcessed(h) \/ DuplicateKey(h) \/ DeadlockDetected(h)
  BY <1>2 DEF SkipProcessed, NotProcessed, Upsert, StartUpdate, Await, UpdateRow, Updated,
              MarkProcessed, DuplicateKey, DeadlockDetected
<1> QED
  BY <1>1, <1>2 DEF HandleEvent

(* The concurrent transactions, with their locks, deadlocks, duplicate     *)
(* deliveries and lost connections, implement the atomic BudgetBook.       *)
THEOREM Refinement == Spec => ImplementsBudgetBook
<1>1. Init => Book!Init
  BY DEF Init, Book!Init, SpendKey, Book!SpendKey
<1>2. ASSUME IInv, [Next]_vars PROVE [Book!Next]_(Book!vars)
  <2>1. ASSUME NEW t \in Tx, NEW request \in Requests,
               RefuseInvalid(t, request) \/ Begin(t, request)
        PROVE  UNCHANGED tables
    BY <2>1 DEF RefuseInvalid, Begin
  <2>2. ASSUME NEW t \in Tx, ConnectionLost(t) PROVE UNCHANGED tables
    BY <2>2 DEF ConnectionLost, Fail
  <2>3. ASSUME NEW h \in Handlers, HandlerLost(h) \/ \E e \in Events : Deliver(h, e)
        PROVE  UNCHANGED tables
    BY <2>3 DEF HandlerLost, Deliver
  <2>4. UNCHANGED vars => UNCHANGED tables
    BY DEF vars
  <2>5. Book!Next \/ UNCHANGED tables
    BY <1>2, <2>1, <2>2, <2>3, <2>4, CreateRefines, HandleEventRefines DEF Next
  <2> QED
    BY <2>5 DEF tables, Book!vars
<1> QED
  BY <1>1, <1>2, Invariance, PTL DEF Spec, ImplementsBudgetBook, Book!Spec
================================================================================
