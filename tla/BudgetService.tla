----------------------------- MODULE BudgetService -----------------------------
(***************************************************************************)
(* The budget service: POST /budgets (Service.Create), the projection of   *)
(* ledger events (Service.HandleEvent) and GET /budgets (Service.List),    *)
(* each call one READ COMMITTED PostgreSQL transaction.                    *)
(*                                                                         *)
(* A member of Tx is one attempt to create a budget; a client retries by   *)
(* another attempt with the same request.  A member of Handlers runs one   *)
(* HandleEvent after another; events are delivered at least once, several  *)
(* times at once if need be.  HandleEvent updates all budgets of a         *)
(* category, in no particular order: such transactions may deadlock, and   *)
(* PostgreSQL then rolls one of them back.                                 *)
(***************************************************************************)
EXTENDS BudgetRules

CONSTANTS
  Tx,               \* attempts to create; also the ids of the budgets they make
  Handlers,         \* bound: HandleEvent calls in progress
  Keys, NoKey,      \* Idempotency-Key values; one that is blank or too long
  Requests,         \* the requests clients may send
  Events,           \* ids of the events this consumer can decode
  EventKey, Delta,  \* the category_spend row an event changes, and by how much
  MaxOpenConns,     \* DB_MAX_OPEN_CONNS connections
  MaxFailures,      \* bound: transactions of HandleEvent that fail by themselves
  NoRequest, NoEvent, NoLock

ASSUME BudgetAssumption ==
  /\ \A request \in Requests :
       /\ request.userId \in Users /\ request.key \in Keys \cup {NoKey}
       /\ request.body \in CreateInput
  /\ NoRequest \notin Requests /\ NoKey \notin Keys
  /\ EventKey \in [Events -> SpendKey] /\ Delta \in [Events -> Int]
  /\ NoEvent \notin Events
  /\ MaxOpenConns \in Nat \ {0} /\ MaxFailures \in Nat
  /\ Tx \cap Handlers = {}

VARIABLES
  budgets,       \* committed rows of budgets
  idempotency,   \* committed rows of idempotency_keys
  spend,         \* category_spend.spent_minor, 0 without a row
  processed,     \* processed_events
  pc, call,      \* where each attempt is, and the request it serves
  seen,          \* the spending it read
  answer,        \* what its client was told
  since,         \* events processed when it began (only for the properties)
  handler,       \* each HandleEvent transaction
  held,          \* the locks of each transaction
  failures       \* failures so far

tables   == <<budgets, idempotency, spend, processed>>
attempts == <<pc, call, seen, answer, since>>
vars     == <<tables, attempts, handler, held, failures>>

(***************************************************************************)
(* Locks, held until the transaction ends.  A row of budgets is known by   *)
(* its slot, so that an insert also waits for whoever updates the row it   *)
(* collides with, and for an insert that has not committed.                *)
(***************************************************************************)
keyLock(request) == <<"key", request.userId, request.key>>
slotLock(b)      == <<"budget", slot(b)>>
spendLock(e)     == <<"spend", EventKey[e]>>
eventLock(e)     == <<"event", e>>

free(a, lock) == \A x \in (Tx \cup Handlers) \ {a} : lock \notin held[x]

Acquire(a, lock) == free(a, lock) /\ held' = [held EXCEPT ![a] = @ \cup {lock}]

NoAnswer      == [code |-> "none"]
Refused(code) == [code |-> code]

(* The transaction ends, by commit or by the deferred Rollback.            *)
Finish(t, response) ==
  /\ pc' = [pc EXCEPT ![t] = "done"]
  /\ answer' = [answer EXCEPT ![t] = response]
  /\ held' = [held EXCEPT ![t] = {}]
  /\ UNCHANGED <<call, seen, since, handler, failures>>

Fail(t, code) == Finish(t, Refused(code)) /\ UNCHANGED tables

Goto(t, next) == pc' = [pc EXCEPT ![t] = next]

IdleHandler ==
  [pc |-> "idle", event |-> NoEvent, awaits |-> NoLock, rows |-> {}, value |-> 0]

Init ==
  /\ budgets = {} /\ idempotency = {} /\ processed = {}
  /\ spend = [cs \in SpendKey |-> 0]
  /\ pc = [t \in Tx |-> "idle"]
  /\ call = [t \in Tx |-> NoRequest]
  /\ seen = [t \in Tx |-> 0]
  /\ answer = [t \in Tx |-> NoAnswer]
  /\ since = [t \in Tx |-> {}]
  /\ handler = [h \in Handlers |-> IdleHandler]
  /\ held = [a \in Tx \cup Handlers |-> {}]
  /\ failures = 0
--------------------------------------------------------------------------------
(* Create checks the key and normalises the input before it begins.        *)
normalized(t) == normalizeCreateInput(call[t].body)

RefuseInvalid(t, request) ==
  /\ pc[t] = "idle"
  /\ request.key = NoKey \/ ~valid(request.body)
  /\ Goto(t, "done")
  /\ call' = [call EXCEPT ![t] = request]
  /\ answer' = [answer EXCEPT ![t] = Refused("VALIDATION_ERROR")]
  /\ UNCHANGED <<tables, seen, since, handler, held, failures>>

(* BeginTx waits for a connection of the pool.                             *)
connectionFree ==
  Cardinality({t \in Tx : pc[t] \notin {"idle", "done"}}
                \cup {h \in Handlers : handler[h].pc # "idle"}) < MaxOpenConns

Begin(t, request) ==
  /\ pc[t] = "idle" /\ connectionFree
  /\ request.key # NoKey /\ valid(request.body)
  /\ Goto(t, "lockKey")
  /\ call' = [call EXCEPT ![t] = request]
  /\ since' = [since EXCEPT ![t] = processed]
  /\ UNCHANGED <<tables, seen, answer, handler, held, failures>>

(* Mutant: the key is looked up without its advisory lock.                 *)
LockKeyForgotten(t) ==
  /\ pc[t] = "lockKey"
  /\ Goto(t, "lookUp")
  /\ UNCHANGED <<tables, call, seen, answer, since, handler, held, failures>>

LockKey(t) ==
  /\ pc[t] = "lockKey"
  /\ Acquire(t, keyLock(call[t]))
  /\ Goto(t, "lookUp")
  /\ UNCHANGED <<tables, call, seen, answer, since, handler, failures>>

existing(t) ==
  {rec \in idempotency : rec.userId = call[t].userId /\ rec.key = call[t].key}

(* Mutant: the answer is put together again instead of replayed.           *)
ReplayRecomputed(t) ==
  /\ pc[t] = "lookUp"
  /\ \E rec \in existing(t), b \in budgets :
       /\ rec.body = normalized(t) /\ b.id = rec.response.id
       /\ Finish(t, [rec.response EXCEPT !.spentMinor = displaySpent(currentSpent(spend, b))])
  /\ UNCHANGED tables

(* The stored answer, to the request it was given to.                      *)
ReplayStored(t) ==
  /\ pc[t] = "lookUp"
  /\ \E rec \in existing(t) :
       /\ rec.body = normalized(t)
       /\ \E response \in {rec.response, Refused("LOST")} : Finish(t, response)
  /\ UNCHANGED tables

RejectKeyReuse(t) ==
  /\ pc[t] = "lookUp"
  /\ \E rec \in existing(t) : rec.body # normalized(t)
  /\ Fail(t, "IDEMPOTENCY_KEY_REUSE")

budgetOf(t) ==
  [id |-> t, userId |-> call[t].userId, categoryId |-> normalized(t).categoryId,
   categoryName |-> normalized(t).categoryName, period |-> normalized(t).period,
   limitMinor |-> normalized(t).limitMinor,
   thresholdPercent |-> normalized(t).thresholdPercent]

(* Mutant: the answer has the spent_minor of the row that is inserted.     *)
ReadSpentOfNewRow(t) ==
  /\ pc[t] = "lookUp" /\ existing(t) = {}
  /\ seen' = [seen EXCEPT ![t] = 0]
  /\ Goto(t, "insert")
  /\ UNCHANGED <<tables, call, answer, since, handler, held, failures>>

(* No row for the key; currentSpent reads what is committed now.           *)
ReadSpent(t) ==
  /\ pc[t] = "lookUp" /\ existing(t) = {}
  /\ seen' = [seen EXCEPT ![t] = currentSpent(spend, budgetOf(t))]
  /\ Goto(t, "insert")
  /\ UNCHANGED <<tables, call, answer, since, handler, held, failures>>

taken(t) == \E b \in budgets : slot(b) = slot(budgetOf(t))

(* Unique violation 23505, once the row it collides with is settled.       *)
BudgetExists(t) ==
  /\ pc[t] = "insert"
  /\ free(t, slotLock(budgetOf(t))) /\ taken(t)
  /\ Fail(t, "BUDGET_EXISTS")

InsertBudget(t) ==
  /\ pc[t] = "insert" /\ ~taken(t)
  /\ Acquire(t, slotLock(budgetOf(t)))
  /\ Goto(t, "record")
  /\ UNCHANGED <<tables, call, seen, answer, since, handler, failures>>

responseOf(t) == [code |-> "CREATED", id |-> t, spentMinor |-> displaySpent(seen[t])]

(* The key's row, then the commit; the answer may get lost.                *)
Commit(t) ==
  /\ pc[t] = "record"
  /\ IF existing(t) # {}
     THEN Fail(t, "INTERNAL")
     ELSE /\ budgets' = budgets \cup {budgetOf(t)}
          /\ idempotency' = idempotency \cup
               {[userId |-> call[t].userId, key |-> call[t].key,
                 body |-> normalized(t), response |-> responseOf(t)]}
          /\ UNCHANGED <<spend, processed>>
          /\ \E response \in {responseOf(t), Refused("LOST")} : Finish(t, response)

(* Mutant: the deferred Rollback is missing.                               *)
ConnectionLostLeaking(t) ==
  /\ pc[t] \notin {"idle", "done"}
  /\ Goto(t, "done")
  /\ answer' = [answer EXCEPT ![t] = Refused("LOST")]
  /\ UNCHANGED <<tables, call, seen, since, handler, held, failures>>

(* The client goes away, which cancels the context, or the service dies.   *)
ConnectionLost(t) ==
  /\ pc[t] \notin {"idle", "done"}
  /\ Fail(t, "LOST")
--------------------------------------------------------------------------------
event(h) == handler[h].event

(* A delivery by the relay; of an event already processed, too.            *)
Deliver(h, e) ==
  /\ handler[h].pc = "idle" /\ connectionFree
  /\ handler' = [handler EXCEPT ![h] = [IdleHandler EXCEPT !.pc = "lookUp", !.event = e]]
  /\ UNCHANGED <<tables, attempts, held, failures>>

(* Commit or rollback; the relay hears which, and delivers again.          *)
EndHandler(h) ==
  /\ handler' = [handler EXCEPT ![h] = IdleHandler]
  /\ held' = [held EXCEPT ![h] = {}]
  /\ UNCHANGED attempts

SkipProcessed(h) ==
  /\ handler[h].pc = "lookUp" /\ event(h) \in processed
  /\ EndHandler(h)
  /\ UNCHANGED <<tables, failures>>

handlerAt(h, next) == handler' = [handler EXCEPT ![h].pc = next, ![h].awaits = NoLock]

NotProcessed(h) ==
  /\ handler[h].pc = "lookUp" /\ event(h) \notin processed
  /\ handlerAt(h, IF Delta[event(h)] = 0 THEN "mark" ELSE "upsert")
  /\ UNCHANGED <<tables, attempts, held, failures>>

(* The lock the statement under way takes next, and any of several for the *)
(* UPDATE of budgets, whose order is up to the plan.                       *)
wanted(h) ==
  CASE handler[h].pc = "upsert" -> {spendLock(event(h))}
    [] handler[h].pc = "rename" ->
         {slotLock(b) : b \in {r \in budgets : r.id \in handler[h].rows}} \ held[h]
    [] handler[h].pc = "mark" -> {eventLock(event(h))}
    [] OTHER -> {}

(* It is taken: waits for it.                                              *)
Await(h, lock) ==
  /\ handler[h].awaits = NoLock
  /\ lock \in wanted(h) /\ ~free(h, lock)
  /\ handler' = [handler EXCEPT ![h].awaits = lock]
  /\ UNCHANGED <<tables, attempts, held, failures>>

(* Who waits for a lock gets it before who comes later.                    *)
Take(h, lock) ==
  /\ lock \in wanted(h)
  /\ \/ handler[h].awaits = lock
     \/ handler[h].awaits = NoLock /\ \A g \in Handlers : handler[g].awaits # lock
  /\ Acquire(h, lock)

(* INSERT ... ON CONFLICT DO UPDATE adds to the row it has locked.         *)
Upsert(h) ==
  /\ handler[h].pc = "upsert"
  /\ Take(h, spendLock(event(h)))
  /\ handler' = [handler EXCEPT ![h].pc = "update", ![h].awaits = NoLock,
       ![h].value = spend[EventKey[event(h)]] + Delta[event(h)]]
  /\ UNCHANGED <<tables, attempts, failures>>

(* Mutant: it is an error if no budget is updated.                         *)
StartUpdateOfSome(h) ==
  /\ handler[h].pc = "update"
  /\ \E rows \in {{b.id : b \in {r \in budgets : /\ r.userId = EventKey[event(h)][1]
                                             /\ r.categoryId = EventKey[event(h)][2]}}} :
       IF rows = {}
       THEN EndHandler(h)
       ELSE /\ handler' = [handler EXCEPT ![h].pc = "rename", ![h].rows = rows]
            /\ UNCHANGED <<attempts, held>>
  /\ UNCHANGED <<tables, failures>>

(* UPDATE budgets: the rows its snapshot shows, which may be none.         *)
StartUpdate(h) ==
  /\ handler[h].pc = "update"
  /\ handler' = [handler EXCEPT ![h].pc = "rename",
       ![h].rows = {b.id : b \in {r \in budgets : /\ r.userId = EventKey[event(h)][1]
                                                /\ r.categoryId = EventKey[event(h)][2]}}]
  /\ UNCHANGED <<tables, attempts, held, failures>>

UpdateRow(h, lock) ==
  /\ handler[h].pc = "rename"
  /\ Take(h, lock)
  /\ handlerAt(h, "rename")
  /\ UNCHANGED <<tables, attempts, failures>>

Updated(h) ==
  /\ handler[h].pc = "rename" /\ wanted(h) = {}
  /\ handlerAt(h, "mark")
  /\ UNCHANGED <<tables, attempts, held, failures>>

(* Mutant: ON CONFLICT DO NOTHING, so that a duplicate goes on.            *)
MarkProcessedAnyway(h) ==
  /\ handler[h].pc = "mark"
  /\ Take(h, eventLock(event(h)))
  /\ handlerAt(h, "commit")
  /\ UNCHANGED <<tables, attempts, failures>>

(* INSERT INTO processed_events waits for an equal key not yet committed.  *)
MarkProcessed(h) ==
  /\ handler[h].pc = "mark" /\ event(h) \notin processed
  /\ Take(h, eventLock(event(h)))
  /\ handlerAt(h, "commit")
  /\ UNCHANGED <<tables, attempts, failures>>

DuplicateKey(h) ==
  /\ handler[h].pc = "mark" /\ event(h) \in processed
  /\ EndHandler(h)
  /\ UNCHANGED <<tables, failures>>

renamedBy(h, b) ==
  IF b.id \in handler[h].rows
  THEN [b EXCEPT !.categoryName = CategoryName[EventKey[event(h)][2]]]
  ELSE b

CommitEvent(h) ==
  /\ handler[h].pc = "commit"
  /\ processed' = processed \cup {event(h)}
  /\ IF Delta[event(h)] = 0
     THEN UNCHANGED <<spend, budgets>>
     ELSE /\ spend' = [spend EXCEPT ![EventKey[event(h)]] = handler[h].value]
          /\ budgets' = {renamedBy(h, b) : b \in budgets}
  /\ EndHandler(h)
  /\ UNCHANGED <<idempotency, failures>>

waitsFor(g, k) == handler[g].awaits \in held[k]

(* A circle of waiting transactions: PostgreSQL fails one of them.         *)
DeadlockDetected(h) ==
  /\ \E S \in SUBSET Handlers :
       /\ h \in S
       /\ \A g \in S : (\E k \in S : waitsFor(g, k)) /\ (\E k \in S : waitsFor(k, g))
  /\ EndHandler(h)
  /\ UNCHANGED <<tables, failures>>

(* Lost connection, cancelled context, or the death of the process.        *)
HandlerLost(h) ==
  /\ handler[h].pc # "idle"
  /\ failures < MaxFailures /\ failures' = failures + 1
  /\ EndHandler(h)
  /\ UNCHANGED tables
--------------------------------------------------------------------------------
Create(t) ==
  \/ LockKey(t)   \/ ReplayStored(t) \/ RejectKeyReuse(t)
  \/ ReadSpent(t) \/ BudgetExists(t) \/ InsertBudget(t) \/ Commit(t)

HandleEvent(h) ==
  \/ SkipProcessed(h) \/ NotProcessed(h) \/ Upsert(h) \/ StartUpdate(h)
  \/ \E lock \in wanted(h) : Await(h, lock) \/ UpdateRow(h, lock)
  \/ Updated(h) \/ MarkProcessed(h) \/ DuplicateKey(h) \/ CommitEvent(h)
  \/ DeadlockDetected(h)

Next ==
  \/ \E t \in Tx : \/ \E request \in Requests : RefuseInvalid(t, request) \/ Begin(t, request)
                   \/ Create(t)
                   \/ ConnectionLost(t)
  \/ \E h \in Handlers : \/ \E e \in Events : Deliver(h, e)
                         \/ HandleEvent(h)
                         \/ HandlerLost(h)

Spec == Init /\ [][Next]_vars

(* Threads keep running, and an event that is not processed is delivered   *)
(* again and again (OutboxRelay) whatever else competes for the service.   *)
FairSpec ==
  /\ Spec
  /\ \A t \in Tx : WF_vars(Create(t))
  /\ \A h \in Handlers : WF_vars(HandleEvent(h))
  /\ \A e \in Events : SF_vars(e \notin processed /\ \E h \in Handlers : Deliver(h, e))
--------------------------------------------------------------------------------
BudgetRow ==
  [id : Tx, userId : Users, categoryId : Categories \cup {NoCategory}, categoryName : Names,
   period : Periods, limitMinor : 0 .. MaxLimit, thresholdPercent : 1 .. 100]

Response ==
  [code : {"CREATED"}, id : Tx, spentMinor : Nat]
    \cup [code : {"none", "VALIDATION_ERROR", "IDEMPOTENCY_KEY_REUSE", "BUDGET_EXISTS",
                  "INTERNAL", "LOST"}]

AttemptPlaces == {"idle", "lockKey", "lookUp", "insert", "record", "done"}
HandlerPlaces == {"idle", "lookUp", "upsert", "update", "rename", "mark", "commit"}

(* Every variable has its type; rows satisfy the CHECKs of the table.      *)
TypeOK ==
  /\ budgets \subseteq BudgetRow
  /\ spend \in [SpendKey -> Int]
  /\ processed \subseteq Events
  /\ \A rec \in idempotency : rec.userId \in Users /\ rec.key \in Keys /\ rec.response \in Response
  /\ pc \in [Tx -> AttemptPlaces]
  /\ call \in [Tx -> Requests \cup {NoRequest}]
  /\ seen \in [Tx -> Int]
  /\ answer \in [Tx -> Response]
  /\ since \in [Tx -> SUBSET Events]
  /\ \A h \in Handlers :
       /\ handler[h].pc \in HandlerPlaces /\ handler[h].rows \subseteq Tx
       /\ handler[h].pc # "idle" => event(h) \in Events
  /\ failures \in 0 .. MaxFailures

sameKey(t, u) ==
  /\ call[t] # NoRequest /\ call[u] # NoRequest
  /\ call[t].userId = call[u].userId /\ call[t].key = call[u].key

(***************************************************************************)
(* Answers under one key are the same to the letter, the spending included,*)
(* which was another when the retry came: Create stores its response and   *)
(* replays it, and only to the same normalised request.                    *)
(***************************************************************************)
SameKeySameAnswer ==
  \A t, u \in Tx :
    /\ answer[t].code = "CREATED" /\ answer[u].code = "CREATED"
    /\ sameKey(t, u)
    => answer[t] = answer[u] /\ normalized(t) = normalized(u)

(***************************************************************************)
(* Once a request has made its budget, no attempt to repeat it is refused: *)
(* the retry neither runs into the budget of the first attempt             *)
(* (BUDGET_EXISTS) nor into its key (a 500).                               *)
(***************************************************************************)
RetryNeverConflicts ==
  \A t, u \in Tx :
    /\ \E b \in budgets : b.id = t
    /\ sameKey(t, u) /\ normalized(t) = normalized(u)
    => answer[u].code \notin {"BUDGET_EXISTS", "IDEMPOTENCY_KEY_REUSE", "INTERNAL"}

(* The reference: an event counts for a budget of its user and period with *)
(* the id of its category, or, without an id, with its name in any case.   *)
countsFor(e, b) ==
  LET category == EventKey[e][2]
  IN  /\ EventKey[e][1] = b.userId /\ EventKey[e][3] = b.period
      /\ IF b.categoryId = NoCategory
         THEN Lower[CategoryName[category]] = Lower[b.categoryName]
         ELSE b.categoryId = category

spentOn(b, S) == displaySpent(MapThenSumSet(LAMBDA e : Delta[e], {e \in S : countsFor(e, b)}))

(***************************************************************************)
(* "Expenses posted earlier are included": the spending a new budget is    *)
(* answered with counts every event processed before the request began,    *)
(* maybe some processed since, and never half of one.                      *)
(***************************************************************************)
AnswerIncludesEarlier ==
  \A t \in Tx :
    answer[t].code = "CREATED" /\ answer[t].id = t =>
      \E S \in SUBSET processed :
        since[t] \subseteq S /\ answer[t].spentMinor = spentOn(budgetOf(t), S)

(***************************************************************************)
(* GET /budgets shows of every budget exactly the processed events that    *)
(* count for it, each once, and never a negative number; so it agrees with *)
(* what Create reads, although List has a query of its own.                *)
(***************************************************************************)
ListShowsProcessed ==
  \A b \in budgets :
    /\ displaySpent(listedSpent(spend, b)) = spentOn(b, processed)
    /\ currentSpent(spend, b) = listedSpent(spend, b)

(***************************************************************************)
(* The concurrent transactions, deadlocks and duplicate deliveries         *)
(* implement the book in which creating and projecting are single steps.   *)
(***************************************************************************)
Book == INSTANCE BudgetBook WITH budgets <- budgets, idempotency <- idempotency,
                                spend <- spend, processed <- processed
ImplementsBudgetBook == Book!Spec

(* Every attempt to create ends: no lock is held for ever.                 *)
EveryCreateEnds == \A t \in Tx : pc[t] # "idle" ~> pc[t] = "done"

(* Every event is processed in the end: deadlocks, duplicates in flight    *)
(* and rollbacks delay it, and a redelivery gets through.                  *)
EventsProcessed == \A e \in Events : <>(e \in processed)
================================================================================
