----------------------------- MODULE SqsTransport -----------------------------
(***************************************************************************)
(* From the outbox to the read models over SQS: SqsOutboxRelay on every    *)
(* instance of the transaction service sends an event to one queue per     *)
(* consumer, Consumer.Run on every instance of a consumer receives, handles*)
(* and deletes.  A queue delivers at least once, in any order, and moves a *)
(* message that was received too often to the dead-letter queue.           *)
(*                                                                         *)
(* HandleEvent is one step: OutboxRelay shows that its transactions are    *)
(* together one Projection.                                                *)
(***************************************************************************)
EXTENDS Integers, FiniteSets, FiniteSetsExt

CONSTANTS
  Events,          \* outbox rows, numbered in the order of created_at
  NumConsumers,    \* budget, analytics and notification, in the order sent to
  Poison,          \* <<consumer, event>> its HandleEvent always refuses
  Relays,          \* instances of the transaction service
  Workers,         \* instances of the consumers
  ConsumerOf,      \* which consumer a worker is an instance of
  BatchSize,       \* of the outbox
  MaxNumberOfMessages, MaxReceiveCount,
  Messages,        \* bound: messages in the queues and in the workers' hands
  MaxFailures,     \* bound: failures of any kind
  NoTicket

Consumers == 1 .. NumConsumers

ASSUME TransportAssumption ==
  /\ Events \subseteq Nat
  /\ NumConsumers \in Nat \ {0} /\ BatchSize \in Nat \ {0}
  /\ MaxNumberOfMessages \in Nat \ {0} /\ MaxReceiveCount \in Nat \ {0} /\ MaxFailures \in Nat
  /\ Poison \subseteq Consumers \X Events
  /\ IsFiniteSet(Workers) /\ ConsumerOf \in [Workers -> Consumers]

VARIABLES
  committed,   \* outbox rows whose transaction has committed
  published,   \* rows with published_at set
  relay,       \* each relay's loop over its batch
  queue,       \* the messages in the consumers' queues
  dead,        \* <<consumer, event>> of those in the dead-letter queues
  worker,      \* each worker's loop over what it has received
  processed,   \* each consumer's processed_events
  failures     \* failures so far

vars == <<committed, published, relay, queue, dead, worker, processed, failures>>

outbox    == <<committed, published>>
consumers == <<worker, processed>>

Failure == failures < MaxFailures /\ failures' = failures + 1

(* The oldest of the batch is being sent to the target, or was to all.     *)
IdleRelay  == [batch |-> {}, target |-> 1]
IdleWorker == [batch |-> {}, handled |-> NoTicket]

Init ==
  /\ committed = {} /\ published = {} /\ queue = {} /\ dead = {}
  /\ relay = [r \in Relays |-> IdleRelay]
  /\ worker = [w \in Workers |-> IdleWorker]
  /\ processed = [c \in Consumers |-> {}]
  /\ failures = 0
--------------------------------------------------------------------------------
(* A ledger transaction commits; not in the order created_at was drawn.    *)
Enqueue(e) ==
  /\ e \notin committed
  /\ committed' = committed \cup {e}
  /\ UNCHANGED <<published, relay, queue, dead, consumers, failures>>

(* The first BatchSize unpublished rows by created_at.                     *)
findUnpublished ==
  LET pending == committed \ published
  IN  {e \in pending : Cardinality({d \in pending : d < e}) < BatchSize}

Poll(r) ==
  /\ relay[r].batch = {} /\ findUnpublished # {}
  /\ relay' = [relay EXCEPT ![r] = [batch |-> findUnpublished, target |-> 1]]
  /\ UNCHANGED <<outbox, queue, dead, consumers, failures>>

message(r) == Min(relay[r].batch)
sending(r) == relay[r].batch # {} /\ relay[r].target \in Consumers

nextMessage(r) == [relay EXCEPT ![r] = [batch |-> @.batch \ {message(r)}, target |-> 1]]

held(m) == \E w \in Workers : \/ \E ticket \in worker[w].batch : ticket.id = m
                              \/ worker[w].handled # NoTicket /\ worker[w].handled.id = m

unusedIds == {m \in Messages : ~held(m) /\ \A q \in queue : q.id # m}

(* sendMessage: a message of its own, whatever was sent before.            *)
enqueued(r, m) ==
  queue \cup {[id |-> m, consumer |-> relay[r].target, event |-> message(r),
               receives |-> 0, visible |-> TRUE]}

Send(r, m) ==
  /\ sending(r) /\ m \in unusedIds
  /\ queue' = enqueued(r, m)
  /\ relay' = [relay EXCEPT ![r].target = @ + 1]
  /\ UNCHANGED <<outbox, dead, consumers, failures>>

(* Mutant: a send that failed counts as delivered.                         *)
SendFailsUnnoticed(r) ==
  /\ sending(r) /\ Failure
  /\ queue' \in {queue} \cup {enqueued(r, m) : m \in unusedIds}
  /\ relay' = [relay EXCEPT ![r].target = @ + 1]
  /\ UNCHANGED <<outbox, dead, consumers>>

(* sendMessage throws, whether or not the queue has the message; && calls  *)
(* no further queue, the loop goes on with the next row.                   *)
SendFails(r) ==
  /\ sending(r) /\ Failure
  /\ queue' \in {queue} \cup {enqueued(r, m) : m \in unusedIds}
  /\ relay' = nextMessage(r)
  /\ UNCHANGED <<outbox, dead, consumers>>

(* Every queue has the event: markPublished and save.                      *)
MarkPublished(r) ==
  /\ relay[r].batch # {} /\ relay[r].target \notin Consumers
  /\ published' = published \cup {message(r)}
  /\ relay' = nextMessage(r)
  /\ UNCHANGED <<committed, queue, dead, consumers, failures>>

(* save throws out of publishPending, or the instance dies.                *)
Crash(r) ==
  /\ relay[r].batch # {} /\ Failure
  /\ relay' = [relay EXCEPT ![r] = IdleRelay]
  /\ UNCHANGED <<outbox, queue, dead, consumers>>
--------------------------------------------------------------------------------
(* The visibility timeout, even while a worker still has the message.      *)
VisibilityEnds(q) ==
  /\ ~q.visible
  /\ queue' = (queue \ {q}) \cup {[q EXCEPT !.visible = TRUE]}
  /\ UNCHANGED <<outbox, relay, dead, consumers, failures>>

(* Mutant: queues without a redrive policy.                                *)
DeadLetterNever(q) == q.visible /\ q.receives > MaxReceiveCount /\ UNCHANGED vars

(* The redrive policy.                                                     *)
DeadLetter(q) ==
  /\ q.visible /\ q.receives = MaxReceiveCount
  /\ queue' = queue \ {q}
  /\ dead' = dead \cup {<<q.consumer, q.event>>}
  /\ UNCHANGED <<outbox, relay, consumers, failures>>

receivable(c) == {q \in queue : q.consumer = c /\ q.visible /\ q.receives < MaxReceiveCount}

received(q) == [q EXCEPT !.receives = @ + 1, !.visible = FALSE]

(* The receipt handle is the number of the receive.                        *)
ticketOf(q) == [id |-> q.id, receipt |-> q.receives + 1, event |-> q.event]

idle(w) == worker[w] = IdleWorker

Receive(w, S) ==
  /\ idle(w) /\ S # {} /\ Cardinality(S) <= MaxNumberOfMessages
  /\ queue' = (queue \ S) \cup {received(q) : q \in S}
  /\ worker' = [worker EXCEPT ![w].batch = {ticketOf(q) : q \in S}]
  /\ UNCHANGED <<outbox, relay, dead, processed, failures>>

canHandle(w, ticket) == worker[w].handled = NoTicket /\ ticket \in worker[w].batch

poison(w, ticket) == <<ConsumerOf[w], ticket.event>> \in Poison

project(w, ticket) == [processed EXCEPT ![ConsumerOf[w]] = @ \cup {ticket.event}]

(* HandleEvent commits, or has nothing to do for a duplicate.              *)
Handle(w, ticket) ==
  /\ canHandle(w, ticket) /\ ~poison(w, ticket)
  /\ processed' = project(w, ticket)
  /\ worker' = [worker EXCEPT ![w] = [batch |-> @.batch \ {ticket}, handled |-> ticket]]
  /\ UNCHANGED <<outbox, relay, queue, dead, failures>>

(* HandleEvent's error: it always refuses, or this once, maybe after its   *)
(* commit.                                                                 *)
refuses(w, ticket) ==
  \/ poison(w, ticket) /\ UNCHANGED <<processed, failures>>
  \/ ~poison(w, ticket) /\ Failure /\ processed' \in {processed, project(w, ticket)}

(* Mutant: the loop ends at the first message that is not handled.         *)
HandleFailsEndsBatch(w, ticket) ==
  /\ canHandle(w, ticket) /\ refuses(w, ticket)
  /\ worker' = [worker EXCEPT ![w].batch = {}]
  /\ UNCHANGED <<outbox, relay, queue, dead>>

(* continue: the message stays in the queue until it is visible again.     *)
HandleFails(w, ticket) ==
  /\ canHandle(w, ticket) /\ refuses(w, ticket)
  /\ worker' = [worker EXCEPT ![w].batch = @ \ {ticket}]
  /\ UNCHANGED <<outbox, relay, queue, dead>>

(* A receipt handle that is not the latest may delete nothing.             *)
Delete(w) ==
  LET ticket == worker[w].handled
      same   == {q \in queue : q.id = ticket.id}
  IN  /\ ticket # NoTicket
      /\ worker' = [worker EXCEPT ![w].handled = NoTicket]
      /\ \/ queue' = queue \ same
         \/ queue' = queue /\ \A q \in same : q.receives # ticket.receipt
      /\ UNCHANGED <<outbox, relay, dead, processed, failures>>

DeleteFails(w) ==
  /\ worker[w].handled # NoTicket /\ Failure
  /\ worker' = [worker EXCEPT ![w].handled = NoTicket]
  /\ UNCHANGED <<outbox, relay, queue, dead, processed>>

(* The context ends, or the process dies: what it has is forgotten.        *)
Stop(w) ==
  /\ ~idle(w) /\ Failure
  /\ worker' = [worker EXCEPT ![w] = IdleWorker]
  /\ UNCHANGED <<outbox, relay, queue, dead, processed>>
--------------------------------------------------------------------------------
publishPending(r) == Poll(r) \/ MarkPublished(r) \/ \E m \in Messages : Send(r, m)

Run(w) ==
  \/ \E S \in SUBSET receivable(ConsumerOf[w]) : Receive(w, S)
  \/ \E ticket \in worker[w].batch : Handle(w, ticket) \/ HandleFails(w, ticket)
  \/ Delete(w)

Queue == \E q \in queue : VisibilityEnds(q) \/ DeadLetter(q)

Next ==
  \/ \E e \in Events : Enqueue(e)
  \/ \E r \in Relays : publishPending(r) \/ SendFails(r) \/ Crash(r)
  \/ Queue
  \/ \E w \in Workers : Run(w) \/ DeleteFails(w) \/ Stop(w)

Spec == Init /\ [][Next]_vars

(* The poller is scheduled again and again, workers that run go on, and a  *)
(* message that is not deleted becomes visible again.                      *)
FairSpec ==
  /\ Spec /\ WF_vars(Queue)
  /\ \A r \in Relays : WF_vars(publishPending(r))
  /\ \A w \in Workers : WF_vars(Run(w))
--------------------------------------------------------------------------------
Ticket  == [id : Messages, receipt : 1 .. MaxReceiveCount, event : Events]
Message == [id : Messages, consumer : Consumers, event : Events,
            receives : 0 .. MaxReceiveCount, visible : BOOLEAN]

(* Every variable has its type; no message has another's id.               *)
TypeOK ==
  /\ committed \subseteq Events /\ published \subseteq committed
  /\ relay \in [Relays -> [batch : SUBSET committed, target : 1 .. NumConsumers + 1]]
  /\ queue \subseteq Message
  /\ \A p, q \in queue : p.id = q.id => p = q
  /\ dead \subseteq Consumers \X committed
  /\ worker \in [Workers -> [batch : SUBSET Ticket, handled : Ticket \cup {NoTicket}]]
  /\ processed \in [Consumers -> SUBSET committed]
  /\ failures \in 0 .. MaxFailures

(***************************************************************************)
(* A row is marked published only when nothing can be lost any more: every *)
(* consumer has the event in its read model, in its queue, or in its       *)
(* dead-letter queue.                                                      *)
(***************************************************************************)
accountedFor(c, e) ==
  \/ e \in processed[c]
  \/ \E q \in queue : q.consumer = c /\ q.event = e
  \/ <<c, e>> \in dead

NothingIsLost == \A e \in published, c \in Consumers : accountedFor(c, e)

(***************************************************************************)
(* However slow the workers and however many of them, nothing but failures *)
(* brings an event to a dead-letter queue unprocessed: a message that has  *)
(* become visible too early and too often is still in somebody's hands, or *)
(* was refused each time it was received.                                  *)
(***************************************************************************)
inHand(c, e) ==
  \E w \in Workers : ConsumerOf[w] = c /\ \E ticket \in worker[w].batch : ticket.event = e

DeadLettersFailed ==
  \A c \in Consumers, e \in Events :
    <<c, e>> \in dead \ Poison =>
      e \in processed[c] \/ inHand(c, e) \/ failures >= MaxReceiveCount

(***************************************************************************)
(* Whatever one consumer refuses for ever, and with fewer failures than    *)
(* MaxReceiveCount, the system comes to rest again and again: every row is *)
(* published, every consumer has processed what it does not refuse, and no *)
(* duplicate or refused message is left in a queue.                        *)
(***************************************************************************)
AtRest ==
  /\ published = committed /\ queue = {}
  /\ \A c \in Consumers, e \in committed : <<c, e>> \in Poison \/ e \in processed[c]

ComesToRest == []<>AtRest
================================================================================
