-------------------------- MODULE SqsTransportProofs --------------------------
(***************************************************************************)
(* Proofs about SqsTransport, for any number of events, consumers, relays, *)
(* workers, messages and failures: its types, that what is marked published*)
(* is never lost, and what can bring it to a dead-letter queue.            *)
(***************************************************************************)
EXTENDS SqsTransport, FiniteSetTheorems, WellFoundedInduction, TLAPS

(* A worker holds what its queue had, and deletes only what it has handled.*)
TicketOK(w, ticket) ==
  /\ ticket.event \in committed
  /\ \A q \in queue : q.id = ticket.id => q.consumer = ConsumerOf[w] /\ q.event = ticket.event

WorkersOK ==
  \A w \in Workers :
    /\ \A ticket \in worker[w].batch : TicketOK(w, ticket)
    /\ worker[w].handled # NoTicket =>
         /\ TicketOK(w, worker[w].handled)
         /\ worker[w].handled.event \in processed[ConsumerOf[w]]

(* What a relay has sent so far cannot be lost.                            *)
RelaysOK ==
  \A r \in Relays : relay[r].batch # {} =>
    \A c \in Consumers : c < relay[r].target => accountedFor(c, message(r))

IInv ==
  /\ TypeOK /\ \A q \in queue : q.event \in committed
  /\ WorkersOK /\ RelaysOK /\ NothingIsLost
--------------------------------------------------------------------------------
(* The message being sent is one of the batch.                             *)
LEMMA OldestOfBatch ==
  ASSUME TypeOK, NEW r \in Relays, relay[r].batch # {}
  PROVE  message(r) \in relay[r].batch /\ message(r) \in committed
<1>1. relay[r].batch \subseteq committed /\ relay[r].batch \subseteq Nat
  BY TransportAssumption DEF TypeOK
<1>2. PICK x \in relay[r].batch : \A y \in relay[r].batch : ~(<<y, x>> \in OpToRel(<, Nat))
  BY <1>1, NatLessThanWellFounded, WFMin, Zenon
<1>3. ASSUME NEW y \in relay[r].batch PROVE x <= y
  <2>1. x \in Nat /\ y \in Nat
    BY <1>1
  <2>2. ~(y < x)
    BY <1>2, <2>1 DEF OpToRel
  <2> QED
    BY <2>1, <2>2
<1> QED
  BY <1>1, <1>3 DEF message, Min

(* Nothing is committed, sent or received at first.                        *)
LEMMA InitIInv == Init => IInv
<1> SUFFICES ASSUME Init PROVE IInv
  OBVIOUS
<1>1. TypeOK
  BY TransportAssumption DEF Init, TypeOK, IdleRelay, IdleWorker, Consumers
<1>2. WorkersOK /\ RelaysOK /\ NothingIsLost
  BY DEF Init, WorkersOK, RelaysOK, NothingIsLost, IdleRelay, IdleWorker
<1> QED
  BY <1>1, <1>2 DEF Init, IInv

(* After a message the relay is at the first queue of the next one.        *)
LEMMA NextMessageType ==
  ASSUME TypeOK, NEW r \in Relays
  PROVE  /\ nextMessage(r) \in [Relays -> [batch : SUBSET committed, target : 1 .. NumConsumers + 1]]
         /\ nextMessage(r)[r].target = 1
         /\ \A other \in Relays \ {r} : nextMessage(r)[other] = relay[other]
  BY TransportAssumption DEF TypeOK, nextMessage

(* A message that is sent has an id nobody holds.                          *)
LEMMA EnqueuedType ==
  ASSUME IInv, NEW r \in Relays, sending(r), NEW m \in unusedIds
  PROVE  /\ enqueued(r, m) \subseteq Message
         /\ \A p, q \in enqueued(r, m) : p.id = q.id => p = q
         /\ \A q \in enqueued(r, m) : q.event \in committed
         /\ queue \subseteq enqueued(r, m)
         /\ \A q \in enqueued(r, m) \ queue : q.id = m
         /\ \E q \in enqueued(r, m) : q.consumer = relay[r].target /\ q.event = message(r)
<1> DEFINE new == [id |-> m, consumer |-> relay[r].target, event |-> message(r),
                   receives |-> 0, visible |-> TRUE]
<1>1. enqueued(r, m) = queue \cup {new}
  BY DEF enqueued
<1>2. message(r) \in committed /\ relay[r].target \in Consumers
  BY OldestOfBatch DEF IInv, sending
<1>3. new \in Message
  <2>1. message(r) \in Events /\ m \in Messages
    BY <1>2 DEF unusedIds, IInv, TypeOK
  <2>2. 0 \in 0 .. MaxReceiveCount
    BY TransportAssumption
  <2> QED
    BY <1>2, <2>1, <2>2 DEF Message
<1>4. new.id = m /\ new.event = message(r) /\ new.consumer = relay[r].target
  OBVIOUS
<1>5. m \in Messages /\ \A q \in queue : q.id # m
  BY DEF unusedIds
<1> HIDE DEF new
<1> QED
  BY <1>1, <1>2, <1>3, <1>4, <1>5 DEF IInv, TypeOK
--------------------------------------------------------------------------------
(* A message that becomes visible, or is received, is the same message.    *)
LEMMA MessageFields ==
  ASSUME NEW q \in Message
  PROVE  LET shown == [q EXCEPT !.visible = TRUE]
         IN  /\ shown \in Message
             /\ shown.id = q.id /\ shown.consumer = q.consumer /\ shown.event = q.event
             /\ q.receives < MaxReceiveCount => received(q) \in Message
             /\ received(q).id = q.id
             /\ received(q).consumer = q.consumer /\ received(q).event = q.event
<1>1. q.receives + 1 \in 0 .. MaxReceiveCount \/ ~(q.receives < MaxReceiveCount)
  BY TransportAssumption DEF Message
<1> QED
  BY <1>1 DEF Message, received

(* What a step makes of the queues: the messages of before, perhaps        *)
(* received, visible or gone, and perhaps one more with an id nobody holds.*)
LEMMA QueueStep ==
  ASSUME IInv, Next
  PROVE  /\ queue' \subseteq Message
         /\ \A p, q \in queue' : p.id = q.id => p = q
         /\ \A q \in queue' :
              \/ \E p \in queue : p.id = q.id /\ p.consumer = q.consumer /\ p.event = q.event
              \/ ~held(q.id) /\ q.event \in committed
<1> DEFINE Was(q) == \E p \in queue : p.id = q.id /\ p.consumer = q.consumer /\ p.event = q.event
<1> DEFINE Goal == /\ queue' \subseteq Message
                   /\ \A p, q \in queue' : p.id = q.id => p = q
                   /\ \A q \in queue' : Was(q) \/ (~held(q.id) /\ q.event \in committed)
<1>0. /\ queue \subseteq Message
      /\ \A p, q \in queue : p.id = q.id => p = q
  BY DEF IInv, TypeOK
<1>1. ASSUME queue' \subseteq queue PROVE Goal
  BY <1>0, <1>1
<1>2. ASSUME NEW r \in Relays, sending(r), NEW m \in unusedIds, queue' = enqueued(r, m)
      PROVE  Goal
  <2>1. ~held(m)
    BY DEF unusedIds
  <2>2. \A q \in queue' : q \in queue \/ (q.id = m /\ q.event \in committed)
    BY <1>2, EnqueuedType
  <2>3. \A q \in queue' : Was(q) \/ (~held(q.id) /\ q.event \in committed)
    BY <2>1, <2>2
  <2>4. /\ queue' \subseteq Message
        /\ \A p, q \in queue' : p.id = q.id => p = q
    BY <1>2, EnqueuedType
  <2> QED
    BY <2>3, <2>4
<1>3. ASSUME NEW q \in queue, VisibilityEnds(q) PROVE Goal
  <2> DEFINE new == [q EXCEPT !.visible = TRUE]
  <2>1. new \in Message /\ new.id = q.id /\ new.consumer = q.consumer /\ new.event = q.event
    BY <1>0, MessageFields, Zenon
  <2>2. queue' = (queue \ {q}) \cup {new}
    BY <1>3 DEF VisibilityEnds
  <2> HIDE DEF new
  <2> QED
    BY <1>0, <2>1, <2>2
<1>4. ASSUME NEW w \in Workers, NEW S \in SUBSET receivable(ConsumerOf[w]), Receive(w, S)
      PROVE  Goal
  <2>1. \A q \in S : q \in queue /\ q.receives < MaxReceiveCount
    BY DEF receivable
  <2>2. \A q \in S : /\ received(q) \in Message
                     /\ received(q).id = q.id
                     /\ received(q).consumer = q.consumer /\ received(q).event = q.event
    BY <1>0, <2>1, MessageFields
  <2>3. queue' = (queue \ S) \cup {received(q) : q \in S}
    BY <1>4 DEF Receive
  <2>4. \A q \in queue' : \E p \in queue :
          /\ p.id = q.id /\ p.consumer = q.consumer /\ p.event = q.event
          /\ (q = p /\ p \notin S) \/ (q = received(p) /\ p \in S)
    BY <2>1, <2>2, <2>3
  <2>5. queue' \subseteq Message
    BY <1>0, <2>2, <2>3
  <2>6. \A p, q \in queue' : p.id = q.id => p = q
    BY <1>0, <2>4
  <2> QED
    BY <2>4, <2>5, <2>6
<1>5. CASE \E r \in Relays, m \in Messages : Send(r, m)
  BY <1>2, <1>5 DEF Send
<1>6. CASE \E r \in Relays : SendFails(r)
  BY <1>1, <1>2, <1>6 DEF SendFails
<1>7. CASE \E q \in queue : VisibilityEnds(q) \/ DeadLetter(q)
  BY <1>1, <1>3, <1>7 DEF DeadLetter
<1>8. CASE \E w \in Workers : Run(w)
  BY <1>1, <1>4, <1>8 DEF Run, Handle, HandleFails, Delete
<1>9. CASE \E r \in Relays : Poll(r) \/ MarkPublished(r) \/ Crash(r)
  BY <1>1, <1>9 DEF Poll, MarkPublished, Crash
<1>10. CASE \E w \in Workers : DeleteFails(w) \/ Stop(w)
  BY <1>1, <1>10 DEF DeleteFails, Stop
<1>11. CASE \E e \in Events : Enqueue(e)
  BY <1>1, <1>11 DEF Enqueue
<1> QED
  BY <1>5, <1>6, <1>7, <1>8, <1>9, <1>10, <1>11 DEF Next, publishPending, Queue

(* What a step makes of a worker's tickets, and that no row or processed   *)
(* event is forgotten.                                                     *)
LEMMA WorkerStep ==
  ASSUME IInv, Next
  PROVE  /\ worker' \in [Workers -> [batch : SUBSET Ticket, handled : Ticket \cup {NoTicket}]]
         /\ processed' \in [Consumers -> SUBSET committed]
         /\ \A c \in Consumers : processed[c] \subseteq processed'[c]
         /\ \A w \in Workers : \A ticket \in worker'[w].batch :
              \/ ticket \in worker[w].batch
              \/ \E q \in queue : /\ ticket.id = q.id /\ ticket.event = q.event
                                  /\ q.consumer = ConsumerOf[w]
         /\ \A w \in Workers :
              \/ worker'[w].handled \in {NoTicket, worker[w].handled}
              \/ /\ worker'[w].handled \in worker[w].batch
                 /\ worker'[w].handled.event \in processed'[ConsumerOf[w]]
<1> DEFINE WorkerType == worker' \in [Workers -> [batch : SUBSET Ticket, handled : Ticket \cup {NoTicket}]]
<1> DEFINE ProcessedType == /\ processed' \in [Consumers -> SUBSET committed]
                            /\ \A c \in Consumers : processed[c] \subseteq processed'[c]
<1> DEFINE Batches == \A w \in Workers : \A ticket \in worker'[w].batch :
                        \/ ticket \in worker[w].batch
                        \/ \E q \in queue : /\ ticket.id = q.id /\ ticket.event = q.event
                                            /\ q.consumer = ConsumerOf[w]
<1> DEFINE Handled == \A w \in Workers :
                        \/ worker'[w].handled \in {NoTicket, worker[w].handled}
                        \/ /\ worker'[w].handled \in worker[w].batch
                           /\ worker'[w].handled.event \in processed'[ConsumerOf[w]]
<1> DEFINE Goal == WorkerType /\ ProcessedType /\ Batches /\ Handled
<1>0. /\ worker \in [Workers -> [batch : SUBSET Ticket, handled : Ticket \cup {NoTicket}]]
      /\ processed \in [Consumers -> SUBSET committed]
      /\ queue \subseteq Message
      /\ ConsumerOf \in [Workers -> Consumers]
  BY TransportAssumption DEF IInv, TypeOK
<1>1. ASSUME UNCHANGED consumers PROVE Goal
  BY <1>0, <1>1 DEF consumers
<1>2. ASSUME NEW w \in Workers, NEW ticket \in worker[w].batch
      PROVE  /\ project(w, ticket) \in [Consumers -> SUBSET committed]
             /\ \A c \in Consumers : processed[c] \subseteq project(w, ticket)[c]
             /\ ticket.event \in project(w, ticket)[ConsumerOf[w]]
             /\ ticket \in Ticket
  <2>1. ticket.event \in committed
    BY DEF IInv, WorkersOK, TicketOK
  <2> QED
    BY <1>0, <2>1 DEF project
<1>3. ASSUME NEW w \in Workers, NEW S \in SUBSET receivable(ConsumerOf[w]), Receive(w, S)
      PROVE  Goal
  <2> DEFINE tickets == {ticketOf(q) : q \in S}
  <2>1. \A q \in S : /\ q \in queue /\ q.consumer = ConsumerOf[w]
                     /\ q \in Message /\ q.receives < MaxReceiveCount
    BY <1>0 DEF receivable
  <2>2. \A q \in S : /\ ticketOf(q) \in Ticket
                     /\ ticketOf(q).id = q.id /\ ticketOf(q).event = q.event
    BY <2>1, TransportAssumption DEF ticketOf, Ticket, Message
  <2>3. worker' = [worker EXCEPT ![w].batch = tickets] /\ processed' = processed
    BY <1>3 DEF Receive
  <2>4. tickets \subseteq Ticket
    BY <2>2
  <2>5. \A ticket \in tickets : \E q \in queue :
          ticket.id = q.id /\ ticket.event = q.event /\ q.consumer = ConsumerOf[w]
    BY <2>1, <2>2
  <2> HIDE DEF tickets
  <2> QED
    BY <1>0, <2>3, <2>4, <2>5
<1>4. ASSUME NEW w \in Workers, NEW ticket \in worker[w].batch, Handle(w, ticket) PROVE Goal
  BY <1>0, <1>2, <1>4 DEF Handle
<1>5. ASSUME NEW w \in Workers, NEW ticket \in worker[w].batch, HandleFails(w, ticket) PROVE Goal
  <2>1. processed' = processed \/ processed' = project(w, ticket)
    BY <1>5 DEF HandleFails, refuses
  <2>2. worker' = [worker EXCEPT ![w].batch = @ \ {ticket}]
    BY <1>5 DEF HandleFails
  <2> QED
    BY <1>0, <1>2, <2>1, <2>2
<1>6. ASSUME NEW w \in Workers, Delete(w) \/ DeleteFails(w) PROVE Goal
  <2>1. worker' = [worker EXCEPT ![w].handled = NoTicket] /\ processed' = processed
    BY <1>6 DEF Delete, DeleteFails
  <2> QED
    BY <1>0, <2>1
<1>7. ASSUME NEW w \in Workers, Stop(w) PROVE Goal
  BY <1>0, <1>7 DEF Stop, IdleWorker
<1>8. CASE \E w \in Workers : Run(w) \/ DeleteFails(w) \/ Stop(w)
  BY <1>3, <1>4, <1>5, <1>6, <1>7, <1>8 DEF Run
<1>9. CASE ~\E w \in Workers : Run(w) \/ DeleteFails(w) \/ Stop(w)
  BY <1>1, <1>9 DEF Next, publishPending, Queue, Enqueue, Poll, Send, SendFails, MarkPublished,
                    Crash, VisibilityEnds, DeadLetter, consumers
<1> QED
  BY <1>8, <1>9
--------------------------------------------------------------------------------
(* What a consumer has, is sent, or has refused too often, it never loses: *)
(* only what it has processed is deleted.                                  *)
LEMMA AccountedStays ==
  ASSUME IInv, Next, NEW c \in Consumers, NEW e \in Events, accountedFor(c, e)
  PROVE  accountedFor(c, e)'
<1> DEFINE Sent == \E q \in queue' : q.consumer = c /\ q.event = e
<1>1. processed[c] \subseteq processed'[c]
  BY WorkerStep
<1>2. SUFFICES ASSUME NEW q \in queue, q.consumer = c, q.event = e,
                      <<c, e>> \notin dead, e \notin processed[c]
               PROVE  Sent \/ <<c, e>> \in dead' \/ e \in processed'[c]
  <2>1. dead \subseteq dead'
    BY DEF Next, publishPending, Run, Queue, Enqueue, Poll, Send, SendFails, MarkPublished, Crash,
           VisibilityEnds, DeadLetter, Receive, Handle, HandleFails, Delete, DeleteFails, Stop
  <2> QED
    BY <1>1, <2>1 DEF accountedFor
<1>3. q \in Message
  BY DEF IInv, TypeOK
<1>4. ASSUME q \in queue' PROVE Sent
  BY <1>2, <1>4
<1>5. CASE \E r \in Relays : SendFails(r) \/ \E m \in Messages : Send(r, m)
  BY <1>4, <1>5 DEF Send, SendFails, enqueued
<1>6. ASSUME NEW p \in queue, VisibilityEnds(p) \/ DeadLetter(p)
      PROVE  Sent \/ <<c, e>> \in dead'
  <2>1. CASE p # q
    BY <1>4, <1>6, <2>1 DEF VisibilityEnds, DeadLetter
  <2>2. CASE p = q /\ DeadLetter(p)
    BY <1>2, <2>2 DEF DeadLetter
  <2>3. CASE p = q /\ VisibilityEnds(p)
    <3> DEFINE shown == [q EXCEPT !.visible = TRUE]
    <3>1. shown.consumer = c /\ shown.event = e
      BY <1>2, <1>3, MessageFields
    <3>2. shown \in queue'
      BY <2>3 DEF VisibilityEnds
    <3> HIDE DEF shown
    <3> QED
      BY <3>1, <3>2
  <2> QED
    BY <1>6, <2>1, <2>2, <2>3
<1>7. ASSUME NEW w \in Workers, NEW S \in SUBSET receivable(ConsumerOf[w]), Receive(w, S)
      PROVE  Sent
  <2>1. received(q).consumer = c /\ received(q).event = e
    BY <1>2, <1>3, MessageFields
  <2>2. q \in queue' \/ received(q) \in queue'
    BY <1>7 DEF Receive
  <2> QED
    BY <1>2, <2>1, <2>2
<1>8. ASSUME NEW w \in Workers, Delete(w) PROVE q \in queue'
  <2>1. q.id # worker[w].handled.id
    BY <1>2, <1>8 DEF IInv, WorkersOK, TicketOK, Delete
  <2> QED
    BY <1>8, <2>1 DEF Delete
<1>9. CASE UNCHANGED queue
  BY <1>4, <1>9
<1> QED
  BY <1>4, <1>5, <1>6, <1>7, <1>8, <1>9
  DEF Next, publishPending, Run, Queue, Enqueue, Poll, MarkPublished, Crash,
      Handle, HandleFails, DeleteFails, Stop

(* What a step makes of a relay: it is where it was, at the start of a     *)
(* message, or one queue further.                                          *)
LEMMA RelayStep ==
  ASSUME IInv, Next
  PROVE  /\ relay' \in [Relays -> [batch : SUBSET committed, target : 1 .. NumConsumers + 1]]
         /\ \A r \in Relays :
              \/ relay'[r] = relay[r]
              \/ relay'[r].target = 1
              \/ \E m \in Messages : Send(r, m)
<1> DEFINE RelayType == [Relays -> [batch : SUBSET committed, target : 1 .. NumConsumers + 1]]
<1> DEFINE Goal == /\ relay' \in RelayType
                   /\ \A r \in Relays : \/ relay'[r] = relay[r]
                                        \/ relay'[r].target = 1
                                        \/ \E m \in Messages : Send(r, m)
<1>0. relay \in RelayType /\ TypeOK /\ 1 \in 1 .. NumConsumers + 1
  BY TransportAssumption DEF IInv, TypeOK
<1>1. CASE UNCHANGED relay
  BY <1>0, <1>1
<1>2. ASSUME NEW r \in Relays, relay' = nextMessage(r) PROVE Goal
  BY <1>0, <1>2, NextMessageType
<1>3. ASSUME NEW r \in Relays, Poll(r) PROVE Goal
  <2>1. findUnpublished \subseteq committed
    BY DEF findUnpublished
  <2>2. relay' = [relay EXCEPT ![r] = [batch |-> findUnpublished, target |-> 1]]
    BY <1>3 DEF Poll
  <2> HIDE DEF IInv
  <2> QED
    BY <1>0, <2>1, <2>2
<1>4. ASSUME NEW r \in Relays, Crash(r) PROVE Goal
  BY <1>0, <1>4 DEF Crash, IdleRelay
<1>5. ASSUME NEW r \in Relays, NEW m \in Messages, Send(r, m) PROVE Goal
  <2>1. relay' = [relay EXCEPT ![r].target = @ + 1] /\ relay[r].target \in 1 .. NumConsumers
    BY <1>5 DEF Send, sending, Consumers
  <2>2. relay[r].target + 1 \in 1 .. NumConsumers + 1
    BY <2>1, TransportAssumption
  <2>3. relay' \in RelayType /\ \A other \in Relays \ {r} : relay'[other] = relay[other]
    BY <1>0, <2>1, <2>2
  <2> QED
    BY <1>5, <2>3
<1> QED
  BY <1>1, <1>2, <1>3, <1>4, <1>5
  DEF Next, publishPending, Run, Queue, Enqueue, SendFails, MarkPublished, VisibilityEnds,
      DeadLetter, Receive, Handle, HandleFails, Delete, DeleteFails, Stop

(* A step that adds no row keeps every row's type.                         *)
LEMMA OutboxStep ==
  ASSUME IInv, Next
  PROVE  /\ committed \subseteq committed' /\ committed' \subseteq Events
         /\ published' \subseteq committed'
         /\ dead' \subseteq Consumers \X committed'
         /\ failures' \in 0 .. MaxFailures
<1> USE DEF IInv, TypeOK
<1>1. CASE \E e \in Events : Enqueue(e)
  BY <1>1 DEF Enqueue
<1>2. ASSUME NEW r \in Relays, publishPending(r) \/ SendFails(r) \/ Crash(r)
      PROVE  /\ committed' = committed /\ dead' = dead
             /\ published' \subseteq committed
             /\ failures' \in 0 .. MaxFailures
  <2>1. CASE MarkPublished(r)
    BY <2>1, OldestOfBatch DEF MarkPublished
  <2>2. CASE ~MarkPublished(r)
    BY <1>2, <2>2, TransportAssumption DEF publishPending, Poll, Send, SendFails, Crash, Failure, outbox
  <2> QED
    BY <2>1, <2>2
<1>3. ASSUME NEW q \in queue, VisibilityEnds(q) \/ DeadLetter(q)
      PROVE  /\ UNCHANGED <<outbox, failures>>
             /\ dead' \subseteq Consumers \X committed
  BY <1>3 DEF VisibilityEnds, DeadLetter, outbox, Message
<1>4. ASSUME NEW w \in Workers, Run(w) \/ DeleteFails(w) \/ Stop(w)
      PROVE  UNCHANGED outbox /\ dead' = dead /\ failures' \in 0 .. MaxFailures
  BY <1>4, TransportAssumption
  DEF Run, Receive, Handle, HandleFails, refuses, Delete, DeleteFails, Stop, Failure
<1> QED
  BY <1>1, <1>2, <1>3, <1>4 DEF Next, Queue, outbox

(* What is sent before the row is marked is accounted for.                 *)
LEMMA RelaysStep == ASSUME IInv, Next PROVE RelaysOK'
<1> SUFFICES ASSUME NEW r \in Relays, relay'[r].batch # {},
                    NEW c \in Consumers, c < relay'[r].target
             PROVE  accountedFor(c, message(r))'
  BY DEF RelaysOK
<1>1. c \in Nat /\ 1 <= c
  BY TransportAssumption DEF Consumers
<1>2. relay'[r].target # 1
  BY <1>1
<1>3. ASSUME relay[r].batch # {} PROVE message(r) \in Events
  BY <1>3, OldestOfBatch DEF IInv, TypeOK
<1>4. CASE relay'[r] = relay[r]
  <2>1. accountedFor(c, message(r)) /\ message(r)' = message(r)
    BY <1>4 DEF IInv, RelaysOK, message
  <2>2. message(r) \in Events
    BY <1>3, <1>4
  <2>3. ASSUME NEW e \in Events, accountedFor(c, e) PROVE accountedFor(c, e)'
    BY <2>3, AccountedStays
  <2> QED
    BY <2>1, <2>2, <2>3 DEF accountedFor
<1>5. ASSUME NEW m \in Messages, Send(r, m) PROVE accountedFor(c, message(r))'
  <2>1. /\ relay' = [relay EXCEPT ![r].target = @ + 1]
        /\ relay[r].batch # {} /\ relay[r].target \in Consumers
        /\ queue' = enqueued(r, m) /\ m \in unusedIds
    BY <1>5 DEF Send, sending
  <2>2. relay'[r].batch = relay[r].batch /\ relay'[r].target = relay[r].target + 1
    BY <2>1 DEF IInv, TypeOK
  <2>3. message(r)' = message(r) /\ message(r) \in Events
    BY <1>3, <2>1, <2>2 DEF message
  <2>4. CASE c < relay[r].target
    <3>1. accountedFor(c, message(r))
      BY <2>1, <2>4 DEF IInv, RelaysOK
    <3>2. ASSUME NEW e \in Events, accountedFor(c, e) PROVE accountedFor(c, e)'
      BY <3>2, AccountedStays
    <3> QED
      BY <2>3, <3>1, <3>2 DEF accountedFor
  <2>5. CASE c = relay[r].target
    <3>1. \E q \in queue' : q.consumer = c /\ q.event = message(r)
      BY <2>1, <2>5, EnqueuedType DEF sending
    <3> QED
      BY <2>3, <3>1 DEF accountedFor
  <2>6. relay[r].target \in Nat
    BY <2>1, TransportAssumption DEF Consumers
  <2> QED
    BY <1>1, <2>2, <2>4, <2>5, <2>6
<1> QED
  BY <1>2, <1>4, <1>5, RelayStep

(* A row is marked only when the last queue has been sent to.              *)
LEMMA NothingIsLostStep == ASSUME IInv, Next PROVE NothingIsLost'
<1> SUFFICES ASSUME NEW e \in published', NEW c \in Consumers PROVE accountedFor(c, e)'
  BY DEF NothingIsLost
<1>1. CASE e \in published
  BY <1>1, AccountedStays DEF IInv, TypeOK, NothingIsLost
<1>2. CASE e \notin published
  <2>1. PICK r \in Relays : MarkPublished(r) /\ e = message(r)
    BY <1>2 DEF Next, publishPending, Run, Queue, Enqueue, Poll, Send, SendFails, MarkPublished,
                Crash, VisibilityEnds, DeadLetter, Receive, Handle, HandleFails, Delete,
                DeleteFails, Stop, outbox
  <2>2. relay[r].batch # {} /\ relay[r].target \in (1 .. NumConsumers + 1) \ Consumers
    BY <2>1 DEF MarkPublished, IInv, TypeOK
  <2>3. c < relay[r].target
    BY <2>2, TransportAssumption DEF Consumers
  <2>4. accountedFor(c, e)
    BY <2>1, <2>2, <2>3 DEF IInv, RelaysOK
  <2>5. e \in Events
    BY <2>1, <2>2, OldestOfBatch DEF IInv, TypeOK
  <2> QED
    BY <2>4, <2>5, AccountedStays
<1> QED
  BY <1>1, <1>2

(* A worker gets a ticket only by receiving, which sends nothing.          *)
LEMMA ReceiveStep ==
  ASSUME IInv, Next, NEW w \in Workers, NEW ticket \in worker'[w].batch \ worker[w].batch
  PROVE  \A q \in queue' : \E o \in queue :
           o.id = q.id /\ o.consumer = q.consumer /\ o.event = q.event
<1>1. worker \in [Workers -> [batch : SUBSET Ticket, handled : Ticket \cup {NoTicket}]]
  BY DEF IInv, TypeOK
<1>2. ~UNCHANGED worker
  OBVIOUS
<1>3. PICK v \in Workers : Run(v) \/ DeleteFails(v) \/ Stop(v)
  BY <1>2 DEF Next, publishPending, Queue, Enqueue, Poll, Send, SendFails, MarkPublished, Crash,
              VisibilityEnds, DeadLetter, consumers
<1>4. CASE \E S \in SUBSET receivable(ConsumerOf[v]) : Receive(v, S)
  <2>1. PICK S \in SUBSET receivable(ConsumerOf[v]) : Receive(v, S)
    BY <1>4
  <2>2. queue' = (queue \ S) \cup {received(q) : q \in S} /\ S \subseteq queue
    BY <2>1 DEF Receive, receivable
  <2>3. \A q \in queue : /\ received(q).id = q.id
                         /\ received(q).consumer = q.consumer /\ received(q).event = q.event
    BY MessageFields DEF IInv, TypeOK
  <2> QED
    BY <2>2, <2>3
<1>5. ASSUME ~\E S \in SUBSET receivable(ConsumerOf[v]) : Receive(v, S)
      PROVE  worker'[w].batch \subseteq worker[w].batch
  BY <1>1, <1>3, <1>5 DEF Run, Handle, HandleFails, Delete, DeleteFails, Stop, IdleWorker
<1> QED
  BY <1>4, <1>5

(* A ticket names what its queue had when it was received, and a message   *)
(* that is sent meanwhile has another id.                                  *)
LEMMA WorkersStep == ASSUME IInv, Next PROVE WorkersOK'
<1> DEFINE Fits(w, ticket) ==
      /\ ticket.event \in committed'
      /\ \A q \in queue' : q.id = ticket.id => q.consumer = ConsumerOf[w] /\ q.event = ticket.event
<1>1. committed \subseteq committed' /\ \A q \in queue : q.event \in committed
  BY OutboxStep DEF IInv
<1>2. ASSUME NEW w \in Workers, NEW ticket, TicketOK(w, ticket), held(ticket.id)
      PROVE  Fits(w, ticket)
  BY <1>1, <1>2, QueueStep DEF TicketOK
<1>3. ASSUME NEW w \in Workers, NEW ticket \in worker[w].batch PROVE Fits(w, ticket)
  BY <1>2, <1>3 DEF IInv, WorkersOK, held
<1>4. ASSUME NEW w \in Workers, worker[w].handled # NoTicket PROVE Fits(w, worker[w].handled)
  BY <1>2, <1>4 DEF IInv, WorkersOK, held
<1>5. ASSUME NEW w \in Workers, NEW ticket \in worker'[w].batch PROVE Fits(w, ticket)
  <2>1. CASE ticket \in worker[w].batch
    BY <1>3, <2>1
  <2>2. CASE ticket \notin worker[w].batch
    <3>1. PICK p \in queue : ticket.id = p.id /\ ticket.event = p.event /\ p.consumer = ConsumerOf[w]
      BY <1>5, <2>2, WorkerStep
    <3>2. \A q \in queue' : \E o \in queue :
            o.id = q.id /\ o.consumer = q.consumer /\ o.event = q.event
      BY <1>5, <2>2, ReceiveStep
    <3>3. \A o \in queue : o.id = p.id => o = p
      BY DEF IInv, TypeOK
    <3> QED
      BY <1>1, <3>1, <3>2, <3>3
  <2> QED
    BY <2>1, <2>2
<1>6. ASSUME NEW w \in Workers, worker'[w].handled # NoTicket
      PROVE  /\ Fits(w, worker'[w].handled)
             /\ worker'[w].handled.event \in processed'[ConsumerOf[w]]
  <2>1. CASE worker'[w].handled = worker[w].handled
    <3>1. ConsumerOf[w] \in Consumers
      BY TransportAssumption
    <3> QED
      BY <1>4, <1>6, <2>1, <3>1, WorkerStep DEF IInv, WorkersOK
  <2>2. CASE worker'[w].handled # worker[w].handled
    BY <1>3, <1>6, <2>2, WorkerStep
  <2> QED
    BY <2>1, <2>2
<1> QED
  BY <1>5, <1>6 DEF WorkersOK, TicketOK

(* Every step keeps the inductive invariant.                               *)
LEMMA NextIInv == ASSUME IInv, Next PROVE IInv'
<1>1. processed' \in [Consumers -> SUBSET committed']
  BY WorkerStep, OutboxStep
<1>2. relay' \in [Relays -> [batch : SUBSET committed', target : 1 .. NumConsumers + 1]]
  BY RelayStep, OutboxStep
<1>3. TypeOK'
  BY <1>1, <1>2, WorkerStep, OutboxStep, QueueStep DEF TypeOK, Message, Ticket
<1>4. \A q \in queue' : q.event \in committed'
  BY QueueStep, OutboxStep DEF IInv
<1> QED
  BY <1>3, <1>4, RelaysStep, WorkersStep, NothingIsLostStep DEF IInv

(* The inductive invariant holds in every reachable state.                 *)
LEMMA Invariance == Spec => []IInv
<1>1. IInv /\ [Next]_vars => IInv'
  <2>1. ASSUME IInv, UNCHANGED vars PROVE IInv'
    BY <2>1 DEF vars, IInv, TypeOK, WorkersOK, TicketOK, RelaysOK, NothingIsLost, accountedFor,
                message, Message, Ticket
  <2> QED
    BY <2>1, NextIInv
<1> QED
  BY <1>1, InitIInv, PTL DEF Spec

(* Every variable keeps its type, for every number of relays, workers and  *)
(* messages: nobody sends a message that exists, holds a message of        *)
(* another's queue, or publishes a row that has not committed.             *)
THEOREM TypeCorrect == Spec => []TypeOK
<1>1. IInv => TypeOK
  BY DEF IInv
<1> QED
  BY <1>1, Invariance, PTL

(* A published row is, for every consumer, processed, in its queue or in   *)
(* its dead-letter queue, whatever fails, and however many instances relay *)
(* and receive.                                                            *)
THEOREM PublishedIsNeverLost == Spec => []NothingIsLost
<1>1. IInv => NothingIsLost
  BY DEF IInv
<1> QED
  BY <1>1, Invariance, PTL
--------------------------------------------------------------------------------
(* Who holds the message m, received for the event e of consumer c.        *)
carriers(c, e, m) ==
  {w \in Workers : ConsumerOf[w] = c /\ \E ticket \in worker[w].batch : ticket.id = m /\ ticket.event = e}

(* n receives of a message are failures, or in somebody's hands still.     *)
explained(n, c, e, m) == n <= failures + Cardinality(carriers(c, e, m))

ReceivesExplained ==
  /\ \A q \in queue :
       <<q.consumer, q.event>> \notin Poison =>
         \/ q.event \in processed[q.consumer]
         \/ explained(q.receives, q.consumer, q.event, q.id)
  /\ \A c \in Consumers, e \in Events :
       <<c, e>> \in dead \ Poison =>
         \/ e \in processed[c]
         \/ \E m \in Messages : explained(MaxReceiveCount, c, e, m)

(* Whatever is in hand is so often.                                        *)
LEMMA CarriersCount ==
  ASSUME NEW c, NEW e, NEW m
  PROVE  IsFiniteSet(carriers(c, e, m)) /\ Cardinality(carriers(c, e, m)) \in Nat
<1>1. carriers(c, e, m) \subseteq Workers
  BY DEF carriers
<1> QED
  BY <1>1, TransportAssumption, FS_Subset, FS_CardinalityType

(* One carrier less is one receive less that is explained; one more, more. *)
LEMMA CountLess ==
  ASSUME NEW A, NEW B, IsFiniteSet(A), IsFiniteSet(B), NEW w, A \ {w} \subseteq B
  PROVE  /\ Cardinality(A) \in Nat /\ Cardinality(B) \in Nat
         /\ Cardinality(A) <= Cardinality(B) + 1
         /\ w \in B => Cardinality(A) <= Cardinality(B)
         /\ w \in B \ A => Cardinality(A) + 1 <= Cardinality(B)
<1>1. /\ IsFiniteSet(A \ {w})
      /\ Cardinality(A \ {w}) = IF w \in A THEN Cardinality(A) - 1 ELSE Cardinality(A)
  BY FS_RemoveElement
<1>2. /\ IsFiniteSet(B \ {w})
      /\ Cardinality(B \ {w}) = IF w \in B THEN Cardinality(B) - 1 ELSE Cardinality(B)
  BY FS_RemoveElement
<1>3. A \ {w} \subseteq B \ {w}
  OBVIOUS
<1>4. Cardinality(A \ {w}) <= Cardinality(B \ {w})
  BY <1>2, <1>3, FS_Subset
<1>5. Cardinality(A) \in Nat /\ Cardinality(B) \in Nat
  BY FS_CardinalityType
<1> QED
  BY <1>1, <1>2, <1>4, <1>5

(* Nothing but a failure, or processing, takes a ticket from its holder.   *)
LEMMA ExplainedStays ==
  ASSUME IInv, Next, NEW c \in Consumers, NEW e \in Events, NEW m \in Messages, NEW n \in Nat,
         <<c, e>> \notin Poison, e \notin processed'[c], explained(n, c, e, m)
  PROVE  explained(n, c, e, m)'
<1> DEFINE Now == carriers(c, e, m)
<1> DEFINE Then == carriers(c, e, m)'
<1>1. /\ IsFiniteSet(Now) /\ Cardinality(Now) \in Nat
      /\ IsFiniteSet(Then) /\ Cardinality(Then) \in Nat
  <2>1. Then \subseteq Workers
    BY DEF carriers
  <2> QED
    BY <2>1, CarriersCount, TransportAssumption, FS_Subset, FS_CardinalityType
<1>2. /\ worker \in [Workers -> [batch : SUBSET Ticket, handled : Ticket \cup {NoTicket}]]
      /\ processed \in [Consumers -> SUBSET committed] /\ failures \in Nat
      /\ n <= failures + Cardinality(Now)
  BY TransportAssumption DEF IInv, TypeOK, explained
<1>3. SUFFICES n <= failures' + Cardinality(Then)
  BY DEF explained
<1>4. ASSUME failures' = failures, Now \subseteq Then PROVE n <= failures' + Cardinality(Then)
  <2>1. Cardinality(Now) <= Cardinality(Then)
    BY <1>1, <1>4, FS_Subset
  <2> QED
    BY <1>1, <1>2, <1>4, <2>1
<1>5. ASSUME failures' = failures + 1, NEW w, Now \ {w} \subseteq Then
      PROVE  n <= failures' + Cardinality(Then)
  <2>1. Cardinality(Now) <= Cardinality(Then) + 1
    BY <1>1, <1>5, CountLess
  <2> QED
    BY <1>1, <1>2, <1>5, <2>1
<1>6. ASSUME NEW w \in Workers, \A v \in Workers \ {w} : worker'[v] = worker[v]
      PROVE  Now \ {w} \subseteq Then
  BY <1>6 DEF carriers
<1>7. ASSUME UNCHANGED worker PROVE n <= failures' + Cardinality(Then)
  <2>1. Then = Now
    BY <1>7 DEF carriers
  <2>2. failures' \in Nat /\ failures <= failures'
    BY <1>2 DEF Next, publishPending, Run, Queue, Enqueue, Poll, Send, SendFails, MarkPublished,
                Crash, VisibilityEnds, DeadLetter, Receive, Handle, HandleFails, refuses, Delete,
                DeleteFails, Stop, Failure
  <2> HIDE DEF Now, Then
  <2> QED
    BY <1>1, <1>2, <2>1, <2>2
<1>8. ASSUME NEW w \in Workers, Stop(w) PROVE n <= failures' + Cardinality(Then)
  <2>1. failures' = failures + 1 /\ \A v \in Workers \ {w} : worker'[v] = worker[v]
    BY <1>2, <1>8 DEF Stop, Failure
  <2> HIDE DEF Now, Then
  <2> QED
    BY <1>5, <1>6, <2>1
<1>9. ASSUME NEW w \in Workers, Delete(w) \/ DeleteFails(w)
      PROVE  n <= failures' + Cardinality(Then)
  <2>1. \A v \in Workers : worker'[v].batch = worker[v].batch
    BY <1>2, <1>9 DEF Delete, DeleteFails
  <2>2. Then = Now
    BY <2>1 DEF carriers
  <2>3. failures' = failures \/ failures' = failures + 1
    BY <1>9 DEF Delete, DeleteFails, Failure
  <2> HIDE DEF Now, Then
  <2> QED
    BY <1>1, <1>2, <2>2, <2>3
<1>10. ASSUME NEW w \in Workers, NEW S \in SUBSET receivable(ConsumerOf[w]), Receive(w, S)
       PROVE  n <= failures' + Cardinality(Then)
  <2>1. worker[w].batch = {}
    BY <1>10 DEF Receive, idle, IdleWorker
  <2>2. /\ \A v \in Workers : worker[v].batch \subseteq worker'[v].batch
        /\ failures' = failures
    BY <1>2, <1>10, <2>1 DEF Receive
  <2>3. Now \subseteq Then
    BY <2>2 DEF carriers
  <2> HIDE DEF Now, Then
  <2> QED
    BY <1>4, <2>2, <2>3
<1>11. ASSUME NEW w \in Workers, NEW ticket \in worker[w].batch,
              Handle(w, ticket) \/ HandleFails(w, ticket)
       PROVE  n <= failures' + Cardinality(Then)
  <2>1. \A v \in Workers : v # w => worker'[v] = worker[v]
    BY <1>2, <1>11 DEF Handle, HandleFails
  <2>2. worker[w].batch \ {ticket} \subseteq worker'[w].batch
    BY <1>2, <1>11 DEF Handle, HandleFails
  <2>3. CASE failures' = failures + 1
    <3>1. Now \ {w} \subseteq Then
      BY <1>6, <2>1
    <3> HIDE DEF Now, Then
    <3> QED
      BY <1>5, <2>3, <3>1
  <2>4. CASE failures' # failures + 1
    <3>1. failures' = failures /\ (<<ConsumerOf[w], ticket.event>> \in Poison \/ Handle(w, ticket))
      BY <1>11, <2>4 DEF Handle, HandleFails, refuses, poison, Failure
    <3>2. ASSUME Handle(w, ticket) PROVE ticket.event # e \/ ConsumerOf[w] # c
      <4>1. ConsumerOf[w] \in Consumers
        BY TransportAssumption
      <4>2. ticket.event \in processed'[ConsumerOf[w]]
        BY <1>2, <3>2, <4>1 DEF Handle, project
      <4> QED
        BY <4>2
    <3>3. ticket.event # e \/ ConsumerOf[w] # c
      BY <3>1, <3>2
    <3>4. Now \subseteq Then
      BY <2>1, <2>2, <3>3 DEF carriers
    <3> HIDE DEF Now, Then
    <3> QED
      BY <1>4, <3>1, <3>4
  <2> QED
    BY <2>3, <2>4
<1>12. ASSUME NEW w \in Workers, Run(w) PROVE n <= failures' + Cardinality(Then)
  BY <1>9, <1>10, <1>11, <1>12 DEF Run
<1> HIDE DEF Now, Then
<1> QED
  BY <1>7, <1>8, <1>9, <1>12
  DEF Next, publishPending, Queue, Enqueue, Poll, Send, SendFails, MarkPublished, Crash,
      VisibilityEnds, DeadLetter, consumers
(* A receive is one more in hand: an idle worker had nothing before.       *)
LEMMA ReceiveExplained ==
  ASSUME IInv, NEW w \in Workers, NEW S \in SUBSET receivable(ConsumerOf[w]), Receive(w, S),
         NEW q \in S, explained(q.receives, q.consumer, q.event, q.id)
  PROVE  explained(received(q).receives, q.consumer, q.event, q.id)'
<1> DEFINE Now == carriers(q.consumer, q.event, q.id)
<1> DEFINE Then == carriers(q.consumer, q.event, q.id)'
<1>1. /\ IsFiniteSet(Now) /\ Cardinality(Now) \in Nat
      /\ IsFiniteSet(Then) /\ Cardinality(Then) \in Nat
  <2>1. Then \subseteq Workers
    BY DEF carriers
  <2> QED
    BY <2>1, CarriersCount, TransportAssumption, FS_Subset, FS_CardinalityType
<1>2. /\ worker \in [Workers -> [batch : SUBSET Ticket, handled : Ticket \cup {NoTicket}]]
      /\ failures' = failures /\ failures \in Nat
      /\ worker' = [worker EXCEPT ![w].batch = {ticketOf(p) : p \in S}]
      /\ worker[w].batch = {}
  BY TransportAssumption DEF IInv, TypeOK, Receive, idle, IdleWorker
<1>3. q.consumer = ConsumerOf[w] /\ q \in Message
  BY DEF receivable, IInv, TypeOK
<1>4. w \in Then
  <2>1. ticketOf(q).id = q.id /\ ticketOf(q).event = q.event
    BY DEF ticketOf
  <2>2. ticketOf(q) \in worker'[w].batch
    BY <1>2
  <2> QED
    BY <1>3, <2>1, <2>2 DEF carriers
<1>5. w \notin Now
  BY <1>2 DEF carriers
<1>6. Now \ {w} \subseteq Then
  BY <1>2 DEF carriers
<1>7. Cardinality(Now) + 1 <= Cardinality(Then)
  <2> HIDE DEF Now, Then
  <2> QED
    BY <1>1, <1>4, <1>5, <1>6, CountLess
<1>8. received(q).receives = q.receives + 1 /\ q.receives \in Nat
  BY <1>3, TransportAssumption DEF received, Message
<1>9. q.receives <= failures + Cardinality(Now)
  BY DEF explained
<1>10. received(q).receives <= failures' + Cardinality(Then)
  <2> HIDE DEF Now, Then
  <2> QED
    BY <1>1, <1>2, <1>7, <1>8, <1>9
<1> QED
  BY <1>10 DEF explained, received

(* So a message that is received once more than its consumer has failed is *)
(* in somebody's hands.                                                    *)
LEMMA ReceivesExplainedStep == ASSUME IInv, ReceivesExplained, Next PROVE ReceivesExplained'
<1>0. /\ queue \subseteq Message /\ committed \subseteq Events
      /\ processed \in [Consumers -> SUBSET committed]
      /\ \A c \in Consumers : processed[c] \subseteq processed'[c]
      /\ \A q \in queue : q.receives \in Nat /\ q.consumer \in Consumers
                          /\ q.event \in Events /\ q.id \in Messages
  BY WorkerStep, TransportAssumption DEF IInv, TypeOK, Message
<1> DEFINE Fine(q) ==
      <<q.consumer, q.event>> \notin Poison =>
        \/ q.event \in processed'[q.consumer]
        \/ explained(q.receives, q.consumer, q.event, q.id)'
<1>1. ASSUME NEW q \in queue PROVE Fine(q)
  BY <1>0, <1>1, ExplainedStays DEF ReceivesExplained
<1>2. ASSUME NEW r \in Relays, NEW m \in Messages, NEW q \in enqueued(r, m) \ queue
      PROVE  Fine(q)
  <2>1. q.receives = 0
    BY DEF enqueued
  <2>2. IsFiniteSet(carriers(q.consumer, q.event, q.id)')
    <3>1. carriers(q.consumer, q.event, q.id)' \subseteq Workers
      BY DEF carriers
    <3> QED
      BY <3>1, TransportAssumption, FS_Subset
  <2>3. Cardinality(carriers(q.consumer, q.event, q.id)') \in Nat /\ failures' \in Nat
    BY <2>2, FS_CardinalityType, OutboxStep, TransportAssumption
  <2>4. 0 <= failures' + Cardinality(carriers(q.consumer, q.event, q.id)')
    BY <2>3
  <2> QED
    BY <2>1, <2>4 DEF explained
<1>3. ASSUME NEW q \in queue PROVE Fine([q EXCEPT !.visible = TRUE])
  <2>1. /\ [q EXCEPT !.visible = TRUE].consumer = q.consumer
        /\ [q EXCEPT !.visible = TRUE].event = q.event
        /\ [q EXCEPT !.visible = TRUE].receives = q.receives
        /\ [q EXCEPT !.visible = TRUE].id = q.id
    BY <1>0 DEF Message
  <2> QED
    BY <1>1, <2>1 DEF explained
<1>4. ASSUME NEW w \in Workers, NEW S \in SUBSET receivable(ConsumerOf[w]), Receive(w, S),
             NEW q \in S
      PROVE  Fine(received(q))
  <2>1. q \in queue /\ processed' = processed
    BY <1>4 DEF receivable, Receive
  <2>2. received(q).consumer = q.consumer /\ received(q).event = q.event /\ received(q).id = q.id
    BY <1>0, <2>1, MessageFields
  <2>3. \/ <<q.consumer, q.event>> \in Poison \/ q.event \in processed'[q.consumer]
        \/ explained(q.receives, q.consumer, q.event, q.id)
    BY <2>1 DEF ReceivesExplained
  <2>4. explained(q.receives, q.consumer, q.event, q.id)
          => explained(received(q).receives, q.consumer, q.event, q.id)'
    BY <1>4, ReceiveExplained
  <2> QED
    BY <2>2, <2>3, <2>4 DEF explained
<1>5. \A q \in queue' : Fine(q)
  <2>1. ASSUME queue' \subseteq queue PROVE \A q \in queue' : Fine(q)
    BY <1>1, <2>1
  <2>2. CASE \E r \in Relays : SendFails(r) \/ \E m \in Messages : Send(r, m)
    BY <1>1, <1>2, <2>2 DEF Send, SendFails, unusedIds
  <2>3. CASE \E q \in queue : VisibilityEnds(q) \/ DeadLetter(q)
    BY <1>1, <1>3, <2>3 DEF VisibilityEnds, DeadLetter
  <2>4. ASSUME NEW w \in Workers, NEW S \in SUBSET receivable(ConsumerOf[w]), Receive(w, S)
        PROVE  \A q \in queue' : Fine(q)
    BY <1>1, <1>4, <2>4 DEF Receive
  <2> HIDE DEF Fine
  <2> QED
    BY <2>1, <2>2, <2>3, <2>4
    DEF Next, publishPending, Run, Queue, Enqueue, Poll, MarkPublished, Crash, Handle, HandleFails,
        Delete, DeleteFails, Stop
<1>6. ASSUME NEW c \in Consumers, NEW e \in Events, <<c, e>> \in dead' \ Poison,
             e \notin processed'[c]
      PROVE  \E m \in Messages : explained(MaxReceiveCount, c, e, m)'
  <2>1. \E m \in Messages : explained(MaxReceiveCount, c, e, m)
    <3>1. e \notin processed[c]
      BY <1>0, <1>6
    <3>2. CASE <<c, e>> \in dead
      BY <1>6, <3>1, <3>2 DEF ReceivesExplained
    <3>3. CASE <<c, e>> \notin dead
      <4>1. PICK q \in queue : DeadLetter(q) /\ q.consumer = c /\ q.event = e
        BY <1>6, <3>3 DEF Next, publishPending, Run, Queue, Enqueue, Poll, Send, SendFails,
                          MarkPublished, Crash, VisibilityEnds, DeadLetter, Receive, Handle,
                          HandleFails, Delete, DeleteFails, Stop
      <4>2. q.receives = MaxReceiveCount
        BY <4>1 DEF DeadLetter
      <4>3. explained(MaxReceiveCount, c, e, q.id)
        BY <1>6, <3>1, <4>1, <4>2 DEF ReceivesExplained
      <4> QED
        BY <1>0, <4>3
    <3> QED
      BY <3>2, <3>3
  <2> QED
    BY <1>6, <2>1, ExplainedStays, TransportAssumption
<1> QED
  BY <1>5, <1>6 DEF ReceivesExplained

(* A consumer that has neither processed an event in its dead-letter queue *)
(* nor has it in hand has failed on it MaxReceiveCount times, or refuses it*)
(* for ever: no number of slow workers and early redeliveries is enough.   *)
THEOREM OnlyFailuresDeadLetter == Spec => []DeadLettersFailed
<1>1. Init => ReceivesExplained
  BY DEF Init, ReceivesExplained
<1>2. IInv /\ ReceivesExplained /\ [Next]_vars => ReceivesExplained'
  <2>1. ASSUME ReceivesExplained, UNCHANGED vars PROVE ReceivesExplained'
    BY <2>1 DEF vars, ReceivesExplained, explained, carriers
  <2> QED
    BY <2>1, ReceivesExplainedStep
<1>3. IInv /\ ReceivesExplained => DeadLettersFailed
  <2> SUFFICES ASSUME IInv, ReceivesExplained, NEW c \in Consumers, NEW e \in Events,
                      <<c, e>> \in dead \ Poison, e \notin processed[c], ~inHand(c, e)
               PROVE  failures >= MaxReceiveCount
    BY DEF DeadLettersFailed
  <2>1. PICK m \in Messages : explained(MaxReceiveCount, c, e, m)
    BY DEF ReceivesExplained
  <2>2. carriers(c, e, m) = {}
    BY DEF carriers, inHand
  <2>3. Cardinality(carriers(c, e, m)) = 0 /\ failures \in Nat
    BY <2>2, FS_EmptySet, TransportAssumption DEF IInv, TypeOK
  <2> QED
    BY <2>1, <2>3, TransportAssumption DEF explained
<1> QED
  BY <1>1, <1>2, <1>3, Invariance, PTL DEF Spec
================================================================================
