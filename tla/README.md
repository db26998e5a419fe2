# Verification of ai-finance-manager

TLA+ specifications of the parts of ai-finance-manager in which money, events
and retries meet, the TLC runs that check them on small instances, and proofs
of their main properties that hold for every instance.

## 1. The system

A browser application (Next.js) talks to a gateway (FastAPI), which forwards
to six services that share nothing but HTTP, an event and, each in its own
schema, one PostgreSQL server.

| Component | State | Operations | Talks to |
|---|---|---|---|
| transaction-service (Java): ledger | `accounts`, `categories`, `ledger_entries`, `outbox`, `idempotency_keys` | create account / category / entry, reverse an entry, lists | browser via gateway |
| transaction-service: outbox relay | `outbox.published_at` | poll every 2 s, deliver, mark published; over HTTP or SQS | analytics, budget, notification |
| analytics-service (Go) | `monthly_totals`, `processed_events` | HandleEvent, dashboard | called by the relay |
| budget-service (Go) | `budgets`, `category_spend`, `processed_events`, `idempotency_keys` | HandleEvent, create budget, list | relay, gateway |
| notification-service (Go) | `notifications`, `processed_events` | HandleEvent, list | relay |
| identity-service (Java) | `profiles` | get-or-create, update | gateway |
| gateway-service (Python) | rate-limit windows (Redis or local), HTTP pool | authenticate, forward, limit | all services |
| ai-service (Python) | none | draft an entry from text (Groq, or rules) | gateway |
| web: API client | the token in `localStorage`, a tab's pending sign-in | `api()`: sign in, send, second attempt after a 401 | gateway |
| web: pages | form fields, open dialog, idempotency keys, loaded lists | fill in, submit, confirm, retry, cancel, discard, leave | API client |

What makes each of them correct, and what is hard about it:

* **Ledger.** An account's balance is the sum of the entries that stand.
  Requests on the same accounts, entry or key run in concurrent READ COMMITTED
  transactions; answers get lost and clients retry, possibly while the first
  attempt still runs. One key posts one entry; one entry is reversed once;
  nothing is half written; nobody deadlocks on a pool of two connections.
* **Relay and consumers.** Delivery is at least once: relays do not claim
  rows, a request that timed out may still be running at the consumer, a relay
  may die between delivering and marking. A consumer must apply an event once;
  a row may be marked only when all three have it; an event that one consumer
  refuses for ever must not stop the ones behind it.
* **Event contract.** Four programs in two languages write down the sign,
  category and month rules of an entry's effect. They must agree on every
  entry the ledger accepts, in any order of delivery, across the roll-out of
  event version 1.
* **Budget creation.** Idempotent under an advisory lock, with a unique index
  per category, month and currency, racing with the spend projection.
* **Browser.** Calls overlap, and the outcome of a failed POST is unknown: a
  502 of the gateway may come before the service executes the request. A page
  must keep its key for the same intent after such an answer and renew it for
  another; answers that come late must not overwrite newer ones, nor reach a
  page that is gone; a 401 for a token that has expired must cost nobody a call,
  though tabs share the token and each signs in on its own; no form may stay
  disabled.
* **Gateway.** The rate limiter switches between two independent counters; a
  timeout becomes a 502, whose meaning for a POST is "unknown".
* **Identity.** Find-or-create without a lock.
* **AI drafts.** Never post; degrade to the rules; amounts are exact or zero.

`PROJECT.json` lists the hazards line by line with the properties that would
catch them, and says of each uncovered one what is missing.

## 2. Modules

| Module | Models | Kind |
|---|---|---|
| `LedgerImpact` | arithmetic of an entry: balance deltas, reporting impact, the event payload, `yyyy-MM` | pure operators |
| `Ledger` | what the ledger promises: every posting and reversal one indivisible step | abstract specification |
| `LedgerService` | `IdempotencyService.execute` around `LedgerService.create` and `reverse`, as concurrent database transactions | detailed specification, implements `Ledger` |
| `EventContract` | the event from the ledger's side and from each consumer's: validation and projection rules | specification |
| `Projection` | what a consumer promises: every event applied at most once, in one step | abstract specification |
| `OutboxRelay` | `publishPending`/`deliver` on several instances and the `HandleEvent` transactions at the consumers | detailed specification, implements `Projection` |
| `SqsTransport` | the other transport: `SqsOutboxRelay`, the queues with their redrive policy, `Consumer.Run` on several instances | specification |
| `BudgetRules` | what a budget is, which spending counts for it, validation of a request | pure operators |
| `BudgetBook` | what the budget service promises: creating and projecting are indivisible steps | abstract specification |
| `BudgetService` | `Service.Create` and `Service.HandleEvent` of the budget service as concurrent transactions, `List` as a state function | detailed specification, implements `BudgetBook` |
| `ApiCalls` | what a call of `api()` can come to for a page, with the gateway and the services behind it | abstract specification |
| `ApiClient` | `lib/api/client.ts`: token, sign-in, second attempt, for several calls and tabs | detailed specification, implements `ApiCalls` |
| `AsyncData` | `useAsyncData`: mounted, refreshed and settled lists | extends `ApiCalls` |
| `Pages` | what the pages share: loading, leaving, keys, intents | extends `AsyncData` |
| `CreateForms` | the forms of the accounts page (accounts, categories) and of the budgets page | extends `Pages` |
| `TransactionsPage` | the entry form, the review dialog, the reversal dialog | extends `Pages` |
| `AiPage` | draft, edit, confirm, discard | extends `Pages` |
| `WebApp` | the pages above with the calls and the services, one page open at a time | composition |
| `MCLedgerService`, `MCOutboxRelay`, `MCSqsTransport`, `MCBudgetService`, `MCApiClient`, `MCWebApp` | instances for TLC | |
| `SumTheorems` | what finite sums (`MapThenSumSet`) come to | extends the community modules |
| `LedgerServiceProofs`, `EventContractProofs`, `BudgetServiceProofs`, `OutboxRelayProofs`, `SqsTransportProofs`, `ApiClientProofs`, `WebAppProofs` | theorems and proofs | the first three use `SumTheorems` |

`LedgerService` and `EventContract` share `LedgerImpact`: the deltas that move
balances and those the consumers check come from one definition, as they come
from one class in the code. The three abstract specifications of services that
keep keys agree: `records` in `ApiCalls` is what `LedgerService` and
`BudgetService` store per key, reduced to the request that made it, and
`replays` and `acceptable` are their lookup, hash comparison and unique indexes.

### LedgerService

A member of `Tx` is one attempt to serve a request: one HTTP request, one
thread, one database transaction. `call` is its request, `pc` its position,
`held` the locks of its transaction, `seen` the balances it has read, `answer`
what its client heard. The four tables hold committed rows only; an attempt's
own writes become visible in `Commit`, all at once. Since the JPA
entities are flushed when the transaction ends, nothing it has written earlier
could be seen, nor is it locked by a write lock it does not already hold.

| Code | Action |
|---|---|
| `execute` entered, connection taken from the pool (`IdempotencyService` 37-54) | `Begin` |
| `idempotencyLock.acquire` (56) | `LockKey` |
| lookup, hash comparison, replay (58-74) | `ReplayStored`, `RejectKeyReuse` |
| the checks of `create` before it locks (`LedgerService` 66-82) | `RefuseCreate`, `StartCreate` |
| `findByIdAndUserIdForUpdate` of `reverse` (131-134) | `StartReverse`, `EntryNotFound`, `LockEntry` |
| its two checks (135-140) | `RefuseReversalOfReversal`, `AlreadyReversed`, `NotReversed` |
| `requireOwned` / `lockAccounts` (190-199), one row at a time | `AccountNotFound`, `LockAccount` |
| currency check, `addExact` | `CurrencyMismatch`, `Overflow` |
| entry, event, idempotency row, commit (105-126, 159-186; execute 76-80) | `Commit` |
| process or connection lost | `ConnectionLost` |

Abstractions. All 400s before the locks are one code, `INVALID_REQUEST`. The
request hash is the request body. A clock value is a period (a year stands for
the month), and `occurredAt` is always given. Key locks are on the key itself;
in the code they are on two 32-bit hashes, so that unrelated requests may also
wait for each other, which delays them and cannot close a cycle, as a
transaction takes one key lock, and takes it first. The optimistic `version` column of
`accounts` never decides anything here, because every write follows a locking
read; `ReadsStayCurrent` is what shows it. A connection time-out of the pool is
a request that never began. Accounts and categories are constants: their rows
are inserted and never changed in ways the ledger sees.

### EventContract

One action per decision: `Post` and `Reverse` write the event, one
`...HandleEvent` action per consumer accepts and projects it, in any order.
`...Accepts` is the consumer's decoding and validation, rule by rule. Currency
and user are constant, the category is its name, and the canonical event id is
the entry's. `Upgrade` is the deployment that turns v0 events (no deltas, no
category name) into v1.

### OutboxRelay

`relay[r]` is the loop of one instance: the rest of its batch (the oldest is
being delivered), the consumer it is at, whether a request is under way, and
the conjunction of the results so far (`&` does not short-circuit, all three
are always tried). `handler[h]` is one consumer transaction; it knows which
relay, if any, still waits for it. `Project` is the upsert, which waits for
the row lock and adds to the committed value; `MarkProcessed` the insert into
`processed_events`, which waits for an uncommitted equal key; `DuplicateKey`
the unique violation, a rollback and a 500. `DeliveryFails` is a lost request
or the read timeout: the relay goes on, the transaction goes on too. `Crash`
is a dead instance or a `save` that throws out of the loop. `Events` are
numbered by `created_at`, and `Enqueue` commits them in any order.

### SqsTransport

`relay[r]` is again the loop of one instance, with the queue (`target`) it sends
to next. Unlike `&` in the HTTP relay, `&&` tries no further queue after a failure.
`queue` holds the messages of all queues, with the number of times each was
received; `worker[w]` is an instance of a consumer with the rest of what it has
received and what it has handled and not yet deleted. Nothing else tells two
receives of a message apart, so their number is the receipt handle.

| Code | Action |
|---|---|
| `findUnpublished` (`SqsOutboxRelay` 49-51) | `Poll` |
| `deliver`: `sendMessage` returns, or throws with or without effect (62-78) | `Send`, `SendFails` |
| `markPublished`, `save` (56-57) | `MarkPublished` |
| `save` throws, the instance dies | `Crash` |
| `ReceiveMessage` with messages (`sqs.go` 62-67) | `Receive` |
| the handler returns nil, or an error and `continue` (87-90) | `Handle`, `HandleFails` |
| `DeleteMessage` and its error (91-97) | `Delete`, `DeleteFails` |
| the context ends, the process dies | `Stop` |
| SQS: visibility timeout, `maxReceiveCount` | `VisibilityEnds`, `DeadLetter` |

Abstractions. `HandleEvent` is one step, which `OutboxRelay` justifies: duplicates
and concurrent transactions project an event once. An event whose body cannot be
decoded is one the consumer always refuses (`Poison`). The visibility timeout may
end at any time, which covers handlers of any duration; a delete with an old
receipt handle may or may not delete, as SQS leaves open. The retention period of
the queues, within which nobody would have received, is not reached.

### BudgetService

A member of `Tx` is one attempt to create a budget, as in `LedgerService`; a
member of `Handlers` serves one delivery of an event after another, each in a
transaction. All hold locks in `held`.

| Code (`internal/budget/service.go`) | Action |
|---|---|
| key and input checks (114-127) | `RefuseInvalid` |
| `BeginTx`, advisory lock (134-146) | `Begin`, `LockKey` |
| lookup, hash, replay (148-172) | `ReplayStored`, `RejectKeyReuse` |
| `currentSpent` (176-187) | `ReadSpent` |
| `INSERT INTO budgets`, error 23505 (192-216) | `InsertBudget`, `BudgetExists` |
| idempotency row, commit (230-240) | `Commit` |
| `HandleEvent`: lookup (326-333) | `SkipProcessed`, `NotProcessed` |
| upsert of `category_spend` (342-353) | `Upsert` |
| `UPDATE budgets` (354-360): snapshot, then row by row | `StartUpdate`, `UpdateRow`, `Updated` |
| `INSERT INTO processed_events`, commit (362-367) | `MarkProcessed`, `DuplicateKey`, `CommitEvent` |
| deferred `Rollback` (138, 324) | `ConnectionLost`, `HandlerLost` |

`UPDATE budgets ... WHERE category_id = ...` locks the budgets of *all* months
of the category, in an order nobody fixes, while the upsert before it locks
only one month. Two events of different months therefore can wait for each
other: `Await` records what a transaction waits for, `DeadlockDetected` is
PostgreSQL failing one of a circle. Creations never wait in a circle: they wait
for their key first and for their slot last, and no one waits for the row of a
budget that is not committed but another creation. A waiting transaction gets
a row before newcomers do, as PostgreSQL's tuple locks arrange.

Abstractions. A period is a month in a currency. A budget row is locked under
its slot (what the two unique indexes compare), so that an insert waits for an
update of the row it collides with. The name of a category never changes, as
the ledger cannot rename one; names are trimmed (`Trim`) and compared without
case (`Lower`) by tables of the instance. `since` is a history variable.

### ApiClient

A call (`http[c]`) is one invocation of `api()`. Its `phase` says what it waits
for, `token` what it has sent, `refused` (history) the tokens it was refused
under. A tab has one `pendingDevSession`; the token is in `localStorage`, which
the tabs share.

| Code (`lib/api/client.ts`) | Action |
|---|---|
| `api()` entered, `ensureDevSession`: the stored token, or the pending sign-in, or a new one | `Start` |
| the gateway issues a token | `Issue` |
| the sign-in resolves, the session is stored, everyone who awaits it goes on | `SignedIn` |
| it rejects, for everyone who awaits it | `SignInFails` |
| a token's `exp` passes, or the gateway's secret changes | `Expire` |
| `require_user` of the gateway answers 401 | `Unauthorized` |
| 401 and `retryOnAuthFailure`: `clearSession()`, `api(path, init, false)` | `RetryOnce` |
| 401 the second time: "Your session has expired." | `SessionExpired` |
| an answer; no answer, 502, 4xx; the gateway's 10 s are over | `Read`, `Post`; `NoAnswer`; `GatewayTimeout`, `ExecuteLate` |

`callOf` is the refinement mapping: a caller cannot tell a call that waits for a
sign-in from one that was sent. Abstractions: the wording and classes of
errors; tokens are numbered; `isLoopbackDevSession` is a constant of the
deployment and true here, since without it there is no sign-in to race with.

### WebApp and its pages

`page` is the page that is open, `hook[list]` what `useAsyncData` holds for each
of its lists, `form`, `tx` and `ai` the state of the components. `call[c]` is a
call of `api()` as `ApiCalls` describes it, `records` what the services have
stored. Keys are numbered in the order in which they are minted
(`crypto.randomUUID`). `intents`, the `intent` of a request and `told` are
history: an intent is what the user means by a form as it is filled in, and
lasts over failures until the form is changed, saved, or left; `told` is what
the page has announced as saved.

| Code | Action |
|---|---|
| a navigation link (`Sidebar.tsx`): the component is unmounted with its state, its calls go on, its answers find nobody | `Navigate` (`Leave`) |
| `refresh` of a hook, its `Retry` button | `refreshed`, `RetryLoad` |
| the answer or error of a load, used if it is the latest request's (`requestId`) | `LoadReturns`, `LoadFails` (`settled`, `failedToLoad`) |
| `changeAccountIntent`, `changeCategoryIntent`, `changeBudgetIntent` | `Change` |
| `onCreate...`: mint the key if there is none, POST | `Submit` |
| its success: drop the key, reset, `await refresh()` | `Saved`, `resumed` |
| its `catch`: keep the key | `NotSaved` |
| `changeTransactionIntent`, `onSubmit`, `onReverse`, Cancel | `ChangeDraft`, `Review`, `AskReversal`, `Cancel` |
| `confirmTransaction`, `confirmReversal` up to the POST; after it; in `catch` | `ConfirmTransaction`, `ConfirmReversal`; `Posted`; `NotPosted` |
| AI page: `onDraft`, its answer and its `catch` | `Draft`, `Drafted`, `NotDrafted` |
| AI page: the text, the draft's fields, `onConfirm`, its ends, `onCancel` | `Type`, `EditDraft`, `Confirm`, `DraftSaved`, `DraftNotSaved`, `Discard` |
| gateway and services | `Service` (of `ApiCalls`: `Read`, `Accept`, `Refuse`, `LoseAnswer`, `GiveUp`, `Fail`), `ServiceLate` |

Abstractions. The accounts page has a form and a list for accounts and another
two for categories, which share nothing: each half counts as a page. A form is
filled in with one of `Contents`; the entry form with a category, which stands
for all its fields because it is the one with a default (the first of the list
as last loaded) and so can change without the user; a draft of the AI page says
an amount. The two loads of a page that go out in one `Promise.all` are one
call. A load that fails does so in one step (`LoadFails`), since whether the
service has read anything makes no difference. Lists are complete: the 100 rows
a list endpoint returns at most are not reached. Field validation and the
wording of errors are left out. The token is absent, as `ApiClient` is shown to
hide it.

## 3. Runs

| Run | Question |
|---|---|
| `ledger_races` | Does the service implement `Ledger`; do locked reads stay current, can transactions wait in a circle, do balances match entries and stay in range; is every race decided by a lock; has a key one posting and one answer, and stays a key spent before operation scopes spent for every operation; is a retry replayed and never told of a conflict? |
| `ledger_liveness` | Does every request end, with two connections? |
| `event_contract` | Do all consumers accept every v1 event, reversals of pre-v1 entries included, and do settled read models equal the standing entries, in any delivery order and across months? |
| `relay` | Exactly-once projection and published-means-processed with competing relays, time-outs, aborts and crashes; do deliverable events get published behind a poisoned one? |
| `sqs` | Is nothing lost that is marked published, with workers that compete, failed sends and deletes, early redelivery; does only failing bring a message to the dead-letter queue; is everything published and processed, and are the queues emptied, in spite of a refused event? |
| `budget_races` | Does the service implement `BudgetBook` under retries, duplicates and deadlocks; is a retry replayed to the letter and never refused; does every number shown count each event once? |
| `budget_liveness` | Do events get processed in spite of deadlocks, and do creations end, with two connections? |
| `web_session` | Does the API client implement `ApiCalls`; does one expiry of a token, however many calls of two tabs it hits, cost nobody a call; does every call end? |
| `web_pages` | Is every intent recorded once, is a key used for one intent, is a retry never refused for what its own first attempt did, is what was announced as saved in the ledger and in every list shown after it, does every form become usable again? |
| `event_year_10000`, `event_blank_name`, `ai_discard` | the three divergences, below |

**Bounds.** Three attempts (`Tx`): a post, and two that race to reverse, repeat
or block it; a wait cycle needs two, a third can hold what both want. Two users
and four accounts give a foreign account and a foreign currency; two keys one
reuse and one stranger, and a third key one legacy row, which creates and reversals meet; balances in -2..2 make overflow reachable in two posts.
`PoolSize` is 2 (the default) in `ledger_liveness`, where attempts also wait for
a connection, and 3 in `ledger_races`, where all interleavings are wanted. Events: three entries allow an entry, its reversal
and a bystander; one amount is enough, as a wrong sign, effect or month shows
with any, and the proofs are about all of them. Relay: two
instances, two concurrent transactions and a failure of any kind,
which are enough for a timeout followed by a duplicate running next to the
original (more of them are left to the proofs); deltas 1 and 2 make every wrong sum visible. `DeliverableEventsPublished` holds for fewer
poisoned events than a batch has room for, and so does the code: once
`OUTBOX_BATCH_SIZE` (100) events that a consumer refuses for ever head the table,
`findUnpublished` returns these and nothing else. `MaxEntries`,
`MaxFailures`, `Handlers`, `Amounts`, `Years` and the request sets are bounds of
the runs and not of the program.

SQS: two workers of one consumer meet each other's redeliveries, the worker of
another refuses one event; two messages at a time, counting those that workers
still hold, are two events of one consumer in a batch, or an event and its
duplicate. `MaxReceiveCount` is 2 for the code's 5 and
`MaxNumberOfMessages` 2 for its 10: the smallest values for which a batch can fail
in part and a message be received again. `Messages` and `MaxFailures` bound the
run only, but `ComesToRest` needs fewer failures than `MaxReceiveCount`, as the
code does: an event that a consumer fails on five times ends in a dead-letter
queue, which nothing reads. Several relays, more failures at once and the types
are left to the proofs.

Budget: two attempts, two handlers and two events of one category in different months, with
budgets for both months, which is the smallest deadlock; one event is a
reversal that arrives before its original, so that a negative sum occurs; the
pool has its default of two connections. `Handlers` and `MaxFailures` bound the
runs only.

API client: two calls of one tab share a sign-in, a third in another tab races
with it for the token; two tokens expire (`MaxExpiries`), so that a call can be
refused twice and a 401 for the old token can meet the new one. Web pages: three
calls, as no page has more under way (two lists and a POST; a POST, a draft and
a load); two visits (`MaxVisits`), so that calls outlive the page that made
them and forms are opened anew; three initial records, an account, a category and an entry to
reverse, and two keys beyond theirs (`MaxKeys` is 5), which is a first intent
with its retries and a second one next to it; two contents, names and amounts;
two texts, one of them with a space at its end, so that a draft can be stale as
soon as it is made. `PageNames` is four of the five pages: the accounts form and
the categories form are the same definition with another path, and the budgets
page needs the latter's. The proofs are about all five.

**Symmetry** is used for attempts and handlers in `ledger_races` and `budget_races`,
never in a run with liveness, and the request sets are closed under it.

**Deadlock** is checked for `LedgerService` (`Terminating` lets a finished
instance stutter), for `OutboxRelay`, where the poisoned event keeps the relay
polling, for `BudgetService`, which never stops, as deliveries may always be
repeated, and for `ApiClient`. It is off for `EventContract`, which stops once
the bounded entries are posted and processed, for `SqsTransport`, which stops
when nothing is left to send or receive, and for `WebApp`, which stops when the
keys and visits are used up and nothing is under way: a page that waits for its
user.

**Fairness.** `LedgerService`: weak fairness of each attempt's own steps; the
JVM schedules running threads, and PostgreSQL's lock queues are served in
order, so a lock that becomes free is granted (every lock is freed for good by
the end of its holder). No client is obliged to call and nothing is obliged to
fail. `OutboxRelay`: weak fairness of each relay's loop (`@Scheduled` with a
fixed delay) and of each transaction at a consumer; failures are finitely many,
as no retry scheme survives an endless run of them. `SqsTransport`: the
same for the relay's loop and for each worker's, which runs until the process ends; a
message that is not deleted becomes visible again or goes to the dead-letter queue.
`BudgetService`: weak
fairness of every transaction, deadlock detection included, and strong
fairness of the delivery of an unprocessed event, which competes with others
for a connection: the relay repeats it (`DeliverableEventsPublished`) and the
connection queue of `database/sql` is served in order. `ApiClient`: a sign-in
ends, a request is answered, as the gateway gives up after 10 s, and the
browser runs the continuations. `WebApp`: each call ends, and the browser runs
the handler that awaits it; the user is obliged to nothing, so a form that
stays disabled for want of a click would count as a violation.

**Every property has a mutant**, an operator next to the one it replaces
(lock dropped, sign lost, key recorded too late...) that TLC must catch.

**What the code and its documents disagree about.**
`event_year_10000`: `occurredAt` has no upper bound and `yyyy-MM` prints a
year beyond 9999 as `+10000-01`, which the schema's `yearMonth` pattern, and
with it all three consumers, refuse; the entry is in the ledger, its event is
retried for ever. `event_blank_name`: a category named by a no-break space
satisfies `@NotBlank` and the schema's `minLength`, but the budget service
trims Unicode white space and refuses the category's expenses for ever.
`ai_discard`: after a confirmation whose answer was lost, Cancel still works and
says "Draft discarded - ledger unchanged.", although the entry may be in the
ledger; the transactions page, in the same situation, keeps the key and says
nothing.

## 4. Proofs

The proofs hold for any number of attempts, users, accounts, requests, relays,
consumers, handlers, events and failures, under the named assumptions on the
constants (`ConstantsAssumption`, `ContractAssumption`, `RulesAssumption`,
`BudgetAssumption`, `RelayAssumption`, `TransportAssumption`,
`ClientAssumption`, `WebAssumption`), which TLC evaluates for the instances it
checks. They ask of sizes only that accounts, categories, workers, calls and
initial records are finitely many, and calls at least three. Every invariant and every refinement that the
passing runs check is a theorem (`AllConsumersAccept` of inputs without the two
things it is about); only liveness is not.

**SumTheorems.** Balances, totals and spending are sums over sets. The
community module adds up by a recursion inside `MapThenSumSet`, which chooses a
function with a recursive equation: `SumUnfolds` shows that there is exactly one
on the subsets of a finite set. That is an induction over these subsets, done
with a set of subsets for the claim and the well-foundedness of strict inclusion
(`SubsetInduction`), as an operator for a claim cannot be instantiated here.
From it: a sum is an integer, does not depend on which element is taken first,
and grows by a summand when an element is added (`SumAdd`), by the difference
when one summand changes (`SumUpdate`).

**LedgerServiceProofs.** `IInv` says: locks have one holder; a transaction past
`LockKey` holds its key and the key is unused as long as it has not replayed;
past `LockEntry` it holds the entry it found, which still stands when it goes
on; a balance in `seen` under an account lock is the committed one; entry ids
belong to attempts that are done. Without the lock conjuncts none of it is
inductive: they are why another attempt's commit cannot change what this one
has checked (`WriteDisturbsNobody`, the heart of the proof). From `IInv`:

* `TypeCorrect`, `LockedReadsStayCurrent`;
* `ConstraintsNeverDecide`: a ready transaction violates no constraint;
* `ServiceImplementsLedger`: a commit is `Post` or `Reverse` of `Ledger` with
  the rows it adds as witnesses, every other step leaves the tables alone.

`BalanceInv` adds that every balance is the sum of what the entries that count
have moved, those that are neither reversals nor reversed, and that what is
reversed was posted. A posting adds a summand; a reversal removes one, which it
could not do twice, as `IInv` has it that the entry still stands under its lock:
`BalancesAddUp`.

`RetryInv` adds what the records of keys say:
a key has one record, a record that is not a legacy one is that of the entry it names
and of the request that made it, and every answer given so far agrees with it; an attempt that has found
no record under either generation of keys still finds none, because it holds
the key's lock. `KeyPostsOnce`, `KeyAnswersOnce` and `RetryIsReplayed`
follow; the second speaks of legacy rows, too, whatever operation their key comes with.
That legacy records have their primary key is an assumption of the module.
`LocksInOrder` says that everything a transaction holds or waits for lies in
the order key, entry, accounts by id; in a circle of waiting transactions one
would hold the greatest of the locks waited for and wait for a greater one
(`NobodyWaitsInACircle`, for any set of transactions, over finitely many
accounts).

**EventContractProofs.** `WellFormed` says of an event what the three validators
check, but for the two things they refuse and the ledger writes: a year of more
than four digits and a category name without a visible character.
`NothingElseRefused` is therefore the exact extent of the two findings, and
`ConsumersAccept` gives `AllConsumersAccept` where neither occurs. `SumInv`
joins the two ends of the contract: ids are numbered and each event has its own
(`Numbered`); a cell, of a month's totals or of a category's spending, shows
what the events projected so far add up to, in whatever order they came
(`ShownSound`); and all events together add up to the entries that stand, as
long as none is of the time before v1, because a reversal's event takes back in
every cell what its original's event added there (`StandingSound`).
`TotalsSettle` and `SpendSettles` follow for a consumer that has seen all.

**BudgetServiceProofs.** `IInv` consists of: a lock has one holder (`OneHolder`);
a budget is what its attempt asked for, but for the name an event may have given
it, and slots and keys are unique (`BudgetsSound`, `RecordsSound`);
`category_spend` adds up to the processed events (`SpendSound`, for every finite
set of cells, so that one event that changes one row is one `SumUpdate`); what an
attempt found under its locks is still so, the spending it has read is that of
some moment since it began, and what it answered stays true (`Attempt`); a
handler past its upsert holds the row whose new value it has, and commits an
event nobody else has processed (`Handling`). The attempts' locks carry
uniqueness, the handlers' row locks carry the sums, and neither half stands
without the other, as both read what the other writes. From it: `TypeCorrect`,
`RepeatsRepeat`, `RetriesSucceed` (with `NotOwnBudget`), `AnswersInclude`,
`ListShows`; and `Refinement`: the commit of a create is `Create` of
`BudgetBook`, the commit of an event its `Project`, and locks, reads, deadlocks,
lost connections and retries stutter.

**OutboxRelayProofs.** `Coherent` ties a waiting relay to the transactions that
know it and says that what a relay counted as accepted is processed; it makes
`PublishedIsProcessed` inductive. `Exclusive` adds that two transactions never
hold the same row or the same uncommitted key, and that the value computed
under the row lock is the committed total plus the delta; a commit then is one
`Project` step of `Projection` (`ProjectedExactlyOnce`). That the oldest
message of a batch exists is the least-number principle
(`NaturalsInduction`/`WellFoundedInduction`).

**SqsTransportProofs.** A ticket in a worker's hands names the consumer and the event
of the message with its id, if that message still exists, and what was handled is
processed (`WorkersOK`); so a delete, even of a redelivered message, removes only what
is processed, and what is accounted for stays accounted for (`AccountedStays`). The
queues a relay has sent to are accounted for (`RelaysOK`), hence `PublishedIsNeverLost`.
Of a message's receives, all that are not in a worker's hands are failures
(`ReceivesExplained`, by counting its `carriers`), and its id is not used again
while anyone holds it: so `OnlyFailuresDeadLetter`.

**ApiClientProofs.** A token on its way to a tab has been used by nobody
(`FreshTokens`), of a first attempt nothing was refused and the second is not
made under the token that was (`AttemptsOf`): so `ExpiryIsHidden`. `Refinement`
maps sign-ins, expiries and second attempts to stuttering, a failed sign-in to
the failure of all who waited for it, and what reaches a service to the step of
`ApiCalls` of the same name.

**WebAppProofs** holds for any number of calls, visits, keys, contents, texts and
initial records. A *claim* (`Claims`) is a use of a key together with the intent it is for: by
a form, a draft or a reversal on the page, by a POST under way or late, by a
stored record. The invariant says that two claims with the same key or the same
intent are the same claim (`ClaimsOK`), that claims are of keys minted so far,
that an answer stays true of the records (`AnswersStand` in `CallsOK`), that
lists show records only (`HookOK`) and that a handler awaits a POST of the page
that is open, while a key that is held goes with an intent (`PagesOK`). Neither half stands alone: that no intent is recorded twice
rests on the page still holding the key of whatever may yet be executed, and
that a fresh key is unused rests on every use being counted. `KeysNameClaims`
is the invariant; `IntentRecordedOnce`, `KeyOfOneIntent`, `RetryAccepted` and
`ToldRecorded` follow from it for `OneRecordPerIntent`, `KeyNamesOneIntent`,
`RetryNeverRefused` and `ToldIsRecorded`.

`ScreenInv` is about what is shown: a list is loading exactly as long as it has a
latest request, which is under way or was answered after everything that was
announced by now; a list of another page is unmounted; a handler awaits a request
of its own page. The second half of the first part is why a list that refreshes
after a save cannot be overtaken: an older answer is not the latest request's.
`ListsShowSaved` follows for `ShowsWhatItSaved`. `TypeInv` gives `TypeCorrect`;
it needs what no type says alone, that a category's name in the choice of
an entry came from a form (`CategoriesNamed`, over all posts) and that the
intents the pages hold are no newer than the counter.

**Only model-checked.** Liveness (`EveryCallEnds`,
`DeliverableEventsPublished`, `ComesToRest`, `EveryCreateEnds`,
`EventsProcessed`, `CallsEnd`, `SubmitsEnd`): under fairness, out of the
prover's reach.

## 5. Not modelled, and the plan

In the order in which they are to be written:

1. `RateLimit`: Redis window, local windows, overflow bucket, fallback.
2. `MoneyParse` and `AiDraft`: amounts from text, checked against a reference
   reading of numbers; sanitising and fallback of the ai-service; formatting and
   the rounding of percentages in the browser (`money.ts`).
3. `ProfileService`, `Migrations`, account and category creation in the
   transaction-service (the pages that ask for them are in `CreateForms`).
4. In the browser: the profile form (a PUT without a key), the dashboard and the
   home page (each a single load, as in `AsyncData`), lists of more than 100
   rows, transfers from the AI page, the server's rendering.

Proofs to come: lemmas and invariants of the modules above as they are written;
of what is modelled now, all safety properties are proved.

Left out for good: presentation (layout, theme, components), read-only
endpoints, JSON and HTTP encoding, authentication cryptography, Terraform,
docker-compose and load scripts.
