------------------------------ MODULE OutboxRelay ------------------------------
(***************************************************************************)
(* From the outbox to the read models over HTTP: OutboxRelay.publishPending*)
(* on every instance of the transaction service, and the HandleEvent       *)
(* transactions it starts at the consumers.                                *)
(*                                                                         *)
(* Failures: a request is lost or its answer comes too late (the 10 s read *)
(* timeout; the consumer's transaction goes on without a client), the      *)
(* consumer's transaction is rolled back, saving the row fails, a relay    *)
(* dies.                                                                   *)
(***************************************************************************)
EXTENDS Integers, FiniteSets, FiniteSetsExt

CONSTANTS
  Events,         \* outbox rows, numbered in the order of created_at
  NumConsumers,   \* analytics, budget and notification, in the order called
  Appends,        \* consumers that insert a new row per event
  Rows, RowOf,    \* the row of its read model a consumer changes for an event
  Delta,          \* by how much; 0 if the event has no impact there
  Poison,         \* <<consumer, event>> it can never decode
  Relays,         \* instances of the transaction service
  Handlers,       \* bound: transactions in progress at the consumers
  BatchSize,
  MaxFailures,    \* bound: failures of any kind
  Nobody

Consumers == 1 .. NumConsumers

ASSUME RelayAssumption ==
  /\ Events \subseteq Nat
  /\ NumConsumers \in Nat \ {0} /\ BatchSize \in Nat \ {0} /\ MaxFailures \in Nat
  /\ Appends \subseteq Consumers
  /\ RowOf \in [Consumers -> [Events -> Rows]]
  /\ Delta \in [Consumers -> [Events -> Int]]
  /\ Poison \subseteq Consumers \X Events
  /\ Nobody \notin Relays

VARIABLES
  committed,   \* outbox rows whose transaction has committed
  published,   \* rows with published_at set
  relay,       \* each relay's loop over its batch
  handler,     \* each consumer transaction in progress
  processed,   \* each consumer's processed_events
  totals,      \* each consumer's read model
  failures     \* failures so far

vars == <<committed, published, relay, handler, processed, totals, failures>>

(* Mutant: rows of transactions that have not committed are seen.          *)
findUnpublishedDirty ==
  LET pending == Events \ published
  IN  {e \in pending : Cardinality({d \in pending : d < e}) < BatchSize}

(* The first BatchSize unpublished rows by created_at.                     *)
findUnpublished ==
  LET pending == committed \ published
  IN  {e \in pending : Cardinality({d \in pending : d < e}) < BatchSize}

(* No batch, or the message being delivered is the oldest of the batch,    *)
(* and its delivery to the target is next, under way, or all were tried.   *)
IdleRelay   == [batch |-> {}, target |-> 1, waiting |-> FALSE, accepted |-> TRUE]
IdleHandler == [pc |-> "idle", consumer |-> 1, event |-> 0, client |-> Nobody, value |-> 0]

message(r) == Min(relay[r].batch)

Init ==
  /\ committed = {} /\ published = {}
  /\ relay = [r \in Relays |-> IdleRelay]
  /\ handler = [h \in Handlers |-> IdleHandler]
  /\ processed = [c \in Consumers |-> {}]
  /\ totals = [c \in Consumers |-> [row \in Rows |-> 0]]
  /\ failures = 0

readModels == <<processed, totals>>

Failure == failures < MaxFailures /\ failures' = failures + 1
--------------------------------------------------------------------------------
(* A ledger transaction commits; not in the order created_at was drawn.    *)
Enqueue(e) ==
  /\ e \notin committed
  /\ committed' = committed \cup {e}
  /\ UNCHANGED <<published, relay, handler, readModels, failures>>

Poll(r) ==
  /\ relay[r].batch = {}
  /\ findUnpublished # {}
  /\ relay' = [relay EXCEPT ![r] = [IdleRelay EXCEPT !.batch = findUnpublished]]
  /\ UNCHANGED <<committed, published, handler, readModels, failures>>

(* The response, or its absence, decides allDelivered; & does not short-   *)
(* circuit, the next consumer is called in any case.                       *)
delivered(r, ok) ==
  [relay EXCEPT ![r] = [batch |-> @.batch, target |-> @.target + 1,
                        waiting |-> FALSE, accepted |-> @.accepted /\ ok]]

sending(r) == relay[r].batch # {} /\ relay[r].target \in Consumers

Send(r, h) ==
  /\ sending(r) /\ ~relay[r].waiting
  /\ handler[h].pc = "idle"
  /\ handler' = [handler EXCEPT ![h] =
       [pc |-> "received", consumer |-> relay[r].target, event |-> message(r),
        client |-> r, value |-> 0]]
  /\ relay' = [relay EXCEPT ![r].waiting = TRUE]
  /\ UNCHANGED <<committed, published, readModels, failures>>

abandon(r) ==
  [h \in Handlers |-> IF handler[h].client = r THEN [handler[h] EXCEPT !.client = Nobody]
                      ELSE handler[h]]

(* Mutant: a request that timed out counts as delivered.                   *)
DeliveryFailsUnnoticed(r) ==
  /\ sending(r) /\ Failure
  /\ relay' = delivered(r, TRUE)
  /\ handler' = abandon(r)
  /\ UNCHANGED <<committed, published, readModels>>

(* No connection, or no answer in time.                                    *)
DeliveryFails(r) ==
  /\ sending(r) /\ Failure
  /\ relay' = delivered(r, FALSE)
  /\ handler' = abandon(r)
  /\ UNCHANGED <<committed, published, readModels>>

tried(r) == relay[r].batch # {} /\ relay[r].target \notin Consumers

nextMessage(r) ==
  [relay EXCEPT ![r] = [IdleRelay EXCEPT !.batch = relay[r].batch \ {message(r)}]]

(* markPublished and save; other relays may have published it meanwhile.   *)
MarkPublished(r) ==
  /\ tried(r) /\ relay[r].accepted
  /\ published' = published \cup {message(r)}
  /\ relay' = nextMessage(r)
  /\ UNCHANGED <<committed, handler, readModels, failures>>

(* Mutant: the first message that is not delivered ends the batch.         *)
LeaveForNextPollEndsBatch(r) ==
  /\ tried(r) /\ ~relay[r].accepted
  /\ relay' = [relay EXCEPT ![r] = IdleRelay]
  /\ UNCHANGED <<committed, published, handler, readModels, failures>>

LeaveForNextPoll(r) ==
  /\ tried(r) /\ ~relay[r].accepted
  /\ relay' = nextMessage(r)
  /\ UNCHANGED <<committed, published, handler, readModels, failures>>

(* save throws out of publishPending, or the instance dies: the batch is   *)
(* forgotten.                                                              *)
Crash(r) ==
  /\ relay[r].batch # {} /\ Failure
  /\ relay' = [relay EXCEPT ![r] = IdleRelay]
  /\ handler' = abandon(r)
  /\ UNCHANGED <<committed, published, readModels>>
--------------------------------------------------------------------------------
(* HandleEvent at a consumer; Respond ends it and answers a relay that     *)
(* still listens.                                                          *)
Respond(h, ok) ==
  /\ handler' = [handler EXCEPT ![h] = IdleHandler]
  /\ relay' = IF handler[h].client = Nobody THEN relay ELSE delivered(handler[h].client, ok)

consumer(h) == handler[h].consumer
event(h)    == handler[h].event
row(h)      == RowOf[consumer(h)][event(h)]
delta(h)    == Delta[consumer(h)][event(h)]

(* Decoding or validation fails: 500, today and on every retry.            *)
Reject(h) ==
  /\ handler[h].pc = "received"
  /\ <<consumer(h), event(h)>> \in Poison
  /\ Respond(h, FALSE)
  /\ UNCHANGED <<committed, published, readModels, failures>>

SkipProcessed(h) ==
  /\ handler[h].pc = "received"
  /\ <<consumer(h), event(h)>> \notin Poison
  /\ event(h) \in processed[consumer(h)]
  /\ Respond(h, TRUE)
  /\ UNCHANGED <<committed, published, readModels, failures>>

NotProcessed(h) ==
  /\ handler[h].pc = "received"
  /\ <<consumer(h), event(h)>> \notin Poison
  /\ event(h) \notin processed[consumer(h)]
  /\ handler' = [handler EXCEPT ![h].pc = "project"]
  /\ UNCHANGED <<committed, published, relay, readModels, failures>>

(* The transactions that hold the lock on a row of a read model.           *)
upserts(h) == delta(h) # 0 /\ consumer(h) \notin Appends
holdsRow(h) == handler[h].pc \in {"projected", "marked"} /\ upserts(h)
sameRow(h, g) == consumer(g) = consumer(h) /\ row(g) = row(h)

(* Mutant: read, add up and write back without a lock on the row.          *)
ProjectUnlocked(h) ==
  /\ handler[h].pc = "project"
  /\ handler' = [handler EXCEPT ![h] =
       [@ EXCEPT !.pc = "projected", !.value = totals[consumer(h)][row(h)] + delta(h)]]
  /\ UNCHANGED <<committed, published, relay, readModels, failures>>

(* ON CONFLICT DO UPDATE waits for the row and adds to what is committed.  *)
Project(h) ==
  /\ handler[h].pc = "project"
  /\ upserts(h) => \A g \in Handlers \ {h} : ~(holdsRow(g) /\ sameRow(h, g))
  /\ handler' = [handler EXCEPT ![h] =
       [@ EXCEPT !.pc = "projected", !.value = totals[consumer(h)][row(h)] + delta(h)]]
  /\ UNCHANGED <<committed, published, relay, readModels, failures>>

(* An insert into processed_events waits for an uncommitted equal one.     *)
canInsert(h) ==
  /\ handler[h].pc = "projected"
  /\ \A g \in Handlers \ {h} :
       ~(handler[g].pc = "marked" /\ consumer(g) = consumer(h) /\ event(g) = event(h))

MarkProcessed(h) ==
  /\ canInsert(h)
  /\ event(h) \notin processed[consumer(h)]
  /\ handler' = [handler EXCEPT ![h].pc = "marked"]
  /\ UNCHANGED <<committed, published, relay, readModels, failures>>

(* Another delivery of the event committed first: 500, and rolled back.    *)
DuplicateKey(h) ==
  /\ canInsert(h)
  /\ event(h) \in processed[consumer(h)]
  /\ Respond(h, FALSE)
  /\ UNCHANGED <<committed, published, readModels, failures>>

Commit(h) ==
  /\ handler[h].pc = "marked"
  /\ processed' = [processed EXCEPT ![consumer(h)] = @ \cup {event(h)}]
  /\ totals' = [totals EXCEPT ![consumer(h)][row(h)] =
                  IF upserts(h) THEN handler[h].value ELSE @ + delta(h)]
  /\ Respond(h, TRUE)
  /\ UNCHANGED <<committed, published, failures>>

(* Database error, cancelled request context, or the consumer dies.        *)
Abort(h) ==
  /\ handler[h].pc # "idle" /\ Failure
  /\ Respond(h, FALSE)
  /\ UNCHANGED <<committed, published, readModels>>
--------------------------------------------------------------------------------
HandleEvent(h) ==
  \/ Reject(h)  \/ SkipProcessed(h) \/ NotProcessed(h)
  \/ Project(h) \/ MarkProcessed(h) \/ DuplicateKey(h) \/ Commit(h)

publishPending(r) ==
  \/ Poll(r) \/ MarkPublished(r) \/ LeaveForNextPoll(r)
  \/ \E h \in Handlers : Send(r, h)

Next ==
  \/ \E e \in Events : Enqueue(e)
  \/ \E r \in Relays : publishPending(r) \/ DeliveryFails(r) \/ Crash(r)
  \/ \E h \in Handlers : HandleEvent(h) \/ Abort(h)

Spec == Init /\ [][Next]_vars

(* The poller is scheduled again and again, consumers that run go on.      *)
FairSpec ==
  /\ Spec
  /\ \A r \in Relays : WF_vars(publishPending(r))
  /\ \A h \in Handlers : WF_vars(HandleEvent(h))
--------------------------------------------------------------------------------
(* Every variable has its type.                                            *)
RelayState == [batch : SUBSET Events, target : 1 .. NumConsumers + 1,
               waiting : BOOLEAN, accepted : BOOLEAN]
HandlerState ==
  [pc : {"idle", "received", "project", "projected", "marked"}, consumer : Consumers,
   event : Events \cup {0}, client : Relays \cup {Nobody}, value : Int]

TypeOK ==
  /\ committed \subseteq Events /\ published \subseteq committed
  /\ relay \in [Relays -> RelayState]
  /\ \A r \in Relays : relay[r].batch \subseteq committed
  /\ handler \in [Handlers -> HandlerState]
  /\ \A h \in Handlers : handler[h].pc # "idle" => event(h) \in committed
  /\ processed \in [Consumers -> SUBSET committed]
  /\ totals \in [Consumers -> [Rows -> Int]]
  /\ failures \in 0 .. MaxFailures

(***************************************************************************)
(* A row is marked published only when every consumer has the event in its *)
(* read model: after that nobody sends it again.                           *)
(***************************************************************************)
PublishedMeansProcessed == \A c \in Consumers : published \subseteq processed[c]

(***************************************************************************)
(* Duplicate and concurrent deliveries leave every read model as if each   *)
(* event had been projected once.                                          *)
(***************************************************************************)
Exactly == INSTANCE Projection WITH processed <- processed, totals <- totals
ProjectsExactlyOnce == Exactly!Spec

(***************************************************************************)
(* Every event no consumer chokes on is published in the end, even behind  *)
(* events some consumer refuses for ever, if those do not fill a batch.    *)
(***************************************************************************)
deliverable(e) == \A c \in Consumers : <<c, e>> \notin Poison

DeliverableEventsPublished ==
  \A e \in Events : deliverable(e) /\ e \in committed ~> e \in published
================================================================================
