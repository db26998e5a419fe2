--------------------------- MODULE OutboxRelayProofs ---------------------------
(***************************************************************************)
(* Proofs about OutboxRelay, for any number of events, consumers, relays   *)
(* and consumer transactions: its types, that a published event is in      *)
(* every read model, and that read models are projected exactly once.      *)
(***************************************************************************)
EXTENDS OutboxRelay, WellFoundedInduction, TLAPS

(***************************************************************************)
(* A consumer transaction with a client works on what its client waits     *)
(* for, alone; and a relay that has accepted so far has an acceptance from *)
(* every consumer before the target.                                       *)
(***************************************************************************)
clientOf(h) == handler[h].client

ClientsServed ==
  \A h \in Handlers : clientOf(h) # Nobody =>
    /\ handler[h].pc # "idle"
    /\ sending(clientOf(h)) /\ relay[clientOf(h)].waiting
    /\ consumer(h) = relay[clientOf(h)].target
    /\ event(h) = message(clientOf(h))

ServedByOne ==
  \A g, h \in Handlers : clientOf(h) # Nobody /\ clientOf(g) = clientOf(h) => g = h

AcceptedProcessed ==
  \A r \in Relays : relay[r].batch # {} /\ relay[r].accepted =>
    \A c \in Consumers : c < relay[r].target => message(r) \in processed[c]

Coherent == ClientsServed /\ ServedByOne /\ AcceptedProcessed

(* The message being delivered is one of the batch.                        *)
LEMMA OldestIsMember ==
  ASSUME NEW S \in SUBSET Events, S # {}
  PROVE  Min(S) \in S
<1>1. S \subseteq Nat
  BY RelayAssumption
<1>2. PICK x \in S : \A y \in S : ~(<<y, x>> \in OpToRel(<, Nat))
  BY <1>1, NatLessThanWellFounded, WFMin, Zenon
<1>3. \A y \in S : x <= y
  <2> SUFFICES ASSUME NEW y \in S, ~(x <= y) PROVE FALSE
    OBVIOUS
  <2>1. x \in Nat /\ y \in Nat /\ y < x
    BY <1>1
  <2>2. <<y, x>> \in OpToRel(<, Nat)
    BY <2>1 DEF OpToRel
  <2> QED
    BY <1>2, <2>2
<1> QED
  BY <1>3 DEF Min

LEMMA IdleStates == IdleRelay \in RelayState /\ IdleHandler \in HandlerState
  BY RelayAssumption DEF IdleRelay, IdleHandler, RelayState, HandlerState, Consumers

LEMMA MessageIsCommitted ==
  ASSUME TypeOK, NEW r \in Relays, relay[r].batch # {}
  PROVE  message(r) \in relay[r].batch /\ message(r) \in committed /\ message(r) \in Events
  BY OldestIsMember DEF TypeOK, RelayState, message

(* The answer of a consumer keeps the relay's loop well formed.            *)
LEMMA DeliveredType ==
  ASSUME TypeOK, NEW r \in Relays, sending(r), NEW ok \in BOOLEAN
  PROVE  /\ delivered(r, ok) \in [Relays -> RelayState]
         /\ \A q \in Relays : delivered(r, ok)[q].batch = relay[q].batch
         /\ \A q \in Relays \ {r} : delivered(r, ok)[q] = relay[q]
         /\ delivered(r, ok)[r].target = relay[r].target + 1
         /\ delivered(r, ok)[r].waiting = FALSE
         /\ delivered(r, ok)[r].accepted = (relay[r].accepted /\ ok)
<1> DEFINE next == [batch |-> relay[r].batch, target |-> relay[r].target + 1,
                    waiting |-> FALSE, accepted |-> relay[r].accepted /\ ok]
<1>1. relay \in [Relays -> RelayState] /\ relay[r] \in RelayState
  BY DEF TypeOK
<1>2. delivered(r, ok) = [relay EXCEPT ![r] = next]
  BY DEF delivered
<1>3. next \in RelayState
  <2>1. relay[r].target + 1 \in 1 .. NumConsumers + 1
    BY <1>1, RelayAssumption DEF RelayState, sending, Consumers
  <2>2. (relay[r].accepted /\ ok) \in BOOLEAN
    BY <1>1 DEF RelayState
  <2>3. relay[r].batch \in SUBSET Events
    BY <1>1 DEF RelayState
  <2> QED
    BY <2>1, <2>2, <2>3 DEF RelayState
<1> QED
  BY <1>1, <1>2, <1>3

LEMMA AbandonType ==
  ASSUME TypeOK, NEW r \in Relays
  PROVE  /\ abandon(r) \in [Handlers -> HandlerState]
         /\ \A h \in Handlers : abandon(r)[h].pc = handler[h].pc
         /\ \A h \in Handlers : abandon(r)[h].event = handler[h].event
         /\ \A h \in Handlers : abandon(r)[h].consumer = handler[h].consumer
         /\ \A h \in Handlers : abandon(r)[h].value = handler[h].value
         /\ \A h \in Handlers : abandon(r)[h].client =
               IF handler[h].client = r THEN Nobody ELSE handler[h].client
  BY DEF TypeOK, HandlerState, abandon
--------------------------------------------------------------------------------
(* Every transaction has a row to change and an amount to change it by.    *)
LEMMA RowType ==
  ASSUME NEW h, consumer(h) \in Consumers, event(h) \in Events
  PROVE  row(h) \in Rows /\ delta(h) \in Int
<1>1. RowOf[consumer(h)] \in [Events -> Rows] /\ Delta[consumer(h)] \in [Events -> Int]
  BY RelayAssumption
<1> QED
  BY <1>1 DEF row, delta

(* A consumer's answer keeps both ends well formed.                        *)
LEMMA RespondType ==
  ASSUME TypeOK, Coherent, NEW h \in Handlers, NEW ok \in BOOLEAN, Respond(h, ok)
  PROVE  /\ relay' \in [Relays -> RelayState]
         /\ handler' \in [Handlers -> HandlerState]
         /\ handler'[h] = IdleHandler
         /\ \A g \in Handlers \ {h} : handler'[g] = handler[g]
         /\ \A r \in Relays : relay'[r].batch = relay[r].batch
         /\ \A g \in Handlers : handler'[g].pc # "idle" => handler'[g].event \in committed
<1>1. handler \in [Handlers -> HandlerState] /\ handler' = [handler EXCEPT ![h] = IdleHandler]
  BY DEF TypeOK, Respond
<1>2. /\ handler' \in [Handlers -> HandlerState] /\ handler'[h] = IdleHandler
      /\ \A g \in Handlers \ {h} : handler'[g] = handler[g]
  BY <1>1, IdleStates
<1>3. \A g \in Handlers : handler'[g].pc # "idle" => handler'[g].event \in committed
  BY <1>2 DEF IdleHandler, TypeOK, event
<1>4. CASE handler[h].client = Nobody
  BY <1>2, <1>3, <1>4 DEF Respond, TypeOK
<1>5. CASE handler[h].client # Nobody
  <2>1. handler[h].client \in Relays /\ sending(handler[h].client)
    BY <1>1, <1>5 DEF Coherent, ClientsServed, clientOf, HandlerState
  <2> QED
    BY <1>2, <1>3, <1>5, <2>1, DeliveredType DEF Respond
<1> QED
  BY <1>4, <1>5

(***************************************************************************)
(* Every step keeps the types.  The proof has a step for each action.      *)
(***************************************************************************)
LEMMA TypeStep == ASSUME TypeOK, Coherent, [Next]_vars PROVE TypeOK'
<1> USE DEF TypeOK, readModels
<1>1. CASE \E e \in Events : Enqueue(e)
  BY <1>1 DEF Enqueue, event
<1>2. ASSUME NEW r \in Relays, Poll(r) PROVE TypeOK'
  <2>1. findUnpublished \subseteq committed
    BY DEF findUnpublished
  <2>2. [IdleRelay EXCEPT !.batch = findUnpublished] \in RelayState
    BY <2>1, IdleStates DEF RelayState
  <2> QED
    BY <1>2, <2>1, <2>2 DEF Poll, event, RelayState
<1>3. ASSUME NEW r \in Relays, NEW h \in Handlers, Send(r, h) PROVE TypeOK'
  <2>1. message(r) \in Events /\ message(r) \in committed
    BY <1>3, MessageIsCommitted DEF Send, sending
  <2>2. handler' \in [Handlers -> HandlerState]
    BY <1>3, <2>1 DEF Send, sending, HandlerState
  <2>3. relay' \in [Relays -> RelayState] /\ \A q \in Relays : relay'[q].batch = relay[q].batch
    BY <1>3 DEF Send, RelayState
  <2>4. \A g \in Handlers : handler'[g].pc # "idle" => handler'[g].event \in committed
    BY <1>3, <2>1 DEF Send, event
  <2> QED
    BY <1>3, <2>2, <2>3, <2>4 DEF Send, event
<1>4. ASSUME NEW r \in Relays, DeliveryFails(r) PROVE TypeOK'
  <2>1. sending(r) /\ relay' = delivered(r, FALSE) /\ handler' = abandon(r)
    BY <1>4 DEF DeliveryFails
  <2>2. relay' \in [Relays -> RelayState] /\ \A q \in Relays : relay'[q].batch = relay[q].batch
    BY <2>1, DeliveredType
  <2>3. handler' \in [Handlers -> HandlerState]
    BY <2>1, AbandonType
  <2>4. \A h \in Handlers : handler'[h].pc # "idle" => handler'[h].event \in committed
    BY <2>1, AbandonType DEF event
  <2>5. failures' \in 0 .. MaxFailures
    BY <1>4, RelayAssumption DEF DeliveryFails, Failure
  <2> QED
    BY <1>4, <2>2, <2>3, <2>4, <2>5 DEF DeliveryFails, event
<1>5. ASSUME NEW r \in Relays, MarkPublished(r) PROVE TypeOK'
  <2>1. message(r) \in committed
    BY <1>5, MessageIsCommitted DEF MarkPublished, tried
  <2>2. [IdleRelay EXCEPT !.batch = relay[r].batch \ {message(r)}] \in RelayState
    BY IdleStates DEF RelayState
  <2> QED
    BY <1>5, <2>1, <2>2 DEF MarkPublished, nextMessage, event, RelayState
<1>6. ASSUME NEW r \in Relays, LeaveForNextPoll(r) PROVE TypeOK'
  <2>1. [IdleRelay EXCEPT !.batch = relay[r].batch \ {message(r)}] \in RelayState
    BY IdleStates DEF RelayState
  <2> QED
    BY <1>6, <2>1 DEF LeaveForNextPoll, nextMessage, event, RelayState
<1>7. ASSUME NEW r \in Relays, Crash(r) PROVE TypeOK'
  <2>1. relay' = [relay EXCEPT ![r] = IdleRelay] /\ handler' = abandon(r)
    BY <1>7 DEF Crash
  <2>2. relay' \in [Relays -> RelayState] /\ \A q \in Relays : relay'[q].batch \subseteq committed
    BY <2>1, IdleStates DEF IdleRelay
  <2>3. handler' \in [Handlers -> HandlerState]
    BY <2>1, AbandonType
  <2>4. \A h \in Handlers : handler'[h].pc # "idle" => handler'[h].event \in committed
    BY <2>1, AbandonType DEF event
  <2>5. failures' \in 0 .. MaxFailures
    BY <1>7, RelayAssumption DEF Crash, Failure
  <2> QED
    BY <1>7, <2>2, <2>3, <2>4, <2>5 DEF Crash, event
<1>8. ASSUME NEW h \in Handlers, NEW ok \in BOOLEAN, Respond(h, ok),
             UNCHANGED <<committed, published, readModels, failures>>
      PROVE TypeOK'
  <2>1. \A g \in Handlers : handler'[g].pc # "idle" => handler'[g].event \in committed
    BY <1>8, RespondType
  <2>2. /\ relay' \in [Relays -> RelayState] /\ handler' \in [Handlers -> HandlerState]
        /\ \A r \in Relays : relay'[r].batch \subseteq committed
    BY <1>8, RespondType
  <2> QED
    BY <1>8, <2>1, <2>2 DEF event
<1>9. ASSUME NEW h \in Handlers, NotProcessed(h) \/ MarkProcessed(h) PROVE TypeOK'
  <2>1. handler[h].pc # "idle"
    BY <1>9 DEF NotProcessed, MarkProcessed, canInsert
  <2>2. PICK next \in {"project", "marked"} : handler' = [handler EXCEPT ![h].pc = next]
    BY <1>9 DEF NotProcessed, MarkProcessed
  <2>3. handler' \in [Handlers -> HandlerState]
    BY <2>2 DEF HandlerState
  <2>4. \A g \in Handlers : handler'[g].pc # "idle" => handler'[g].event \in committed
    BY <2>1, <2>2 DEF HandlerState, event
  <2> QED
    BY <1>9, <2>3, <2>4 DEF NotProcessed, MarkProcessed, event
<1>10. ASSUME NEW h \in Handlers, Project(h) PROVE TypeOK'
  <2>1. consumer(h) \in Consumers /\ event(h) \in Events
    BY <1>10 DEF Project, consumer, event, HandlerState
  <2>2. row(h) \in Rows /\ delta(h) \in Int
    BY <2>1, RowType
  <2>3. totals[consumer(h)][row(h)] \in Int
    BY <2>1, <2>2
  <2>4. totals[consumer(h)][row(h)] + delta(h) \in Int
    BY <2>2, <2>3
  <2>5. handler' \in [Handlers -> HandlerState]
    BY <1>10, <2>4 DEF Project, HandlerState
  <2> QED
    BY <1>10, <2>5 DEF Project, event
<1>11. ASSUME NEW h \in Handlers, Commit(h) PROVE TypeOK'
  <2>1. consumer(h) \in Consumers /\ event(h) \in Events /\ event(h) \in committed
    BY <1>11 DEF Commit, consumer, event, HandlerState
  <2>2. row(h) \in Rows /\ delta(h) \in Int
    BY <2>1, RowType
  <2>3. totals[consumer(h)][row(h)] \in Int
    BY <2>1, <2>2
  <2>4. totals[consumer(h)][row(h)] + delta(h) \in Int
    BY <2>2, <2>3
  <2>5. handler[h].value \in Int
    BY DEF HandlerState
  <2>6. totals' \in [Consumers -> [Rows -> Int]]
    BY <1>11, <2>1, <2>2, <2>4, <2>5 DEF Commit
  <2>7. processed' \in [Consumers -> SUBSET committed]
    BY <1>11, <2>1 DEF Commit
  <2>8. Respond(h, TRUE) /\ TRUE \in BOOLEAN
    BY <1>11 DEF Commit
  <2>9. \A g \in Handlers : handler'[g].pc # "idle" => handler'[g].event \in committed
    BY <2>8, RespondType
  <2>10. /\ relay' \in [Relays -> RelayState] /\ handler' \in [Handlers -> HandlerState]
         /\ \A r \in Relays : relay'[r].batch \subseteq committed
    BY <2>8, RespondType
  <2> QED
    BY <1>11, <2>6, <2>7, <2>9, <2>10 DEF Commit, event
<1>12. ASSUME NEW h \in Handlers, Abort(h) PROVE TypeOK'
  <2>1. Respond(h, FALSE) /\ FALSE \in BOOLEAN
    BY <1>12 DEF Abort
  <2>2. \A g \in Handlers : handler'[g].pc # "idle" => handler'[g].event \in committed
    BY <2>1, RespondType
  <2>3. /\ relay' \in [Relays -> RelayState] /\ handler' \in [Handlers -> HandlerState]
        /\ \A r \in Relays : relay'[r].batch \subseteq committed
    BY <2>1, RespondType
  <2>4. failures' \in 0 .. MaxFailures
    BY <1>12, RelayAssumption DEF Abort, Failure
  <2> QED
    BY <1>12, <2>2, <2>3, <2>4 DEF Abort, event
<1>13. CASE UNCHANGED vars
  BY <1>13 DEF vars, event
<1> QED
  BY <1>1, <1>2, <1>3, <1>4, <1>5, <1>6, <1>7, <1>8, <1>9, <1>10, <1>11, <1>12, <1>13
     DEF Next, publishPending, HandleEvent, Reject, SkipProcessed, DuplicateKey
--------------------------------------------------------------------------------
(* A relay that starts with another message, and waits for nobody.         *)
LEMMA FreshMessage ==
  ASSUME TypeOK, Coherent, NEW r \in Relays, NEW fresh \in RelayState, fresh.target = 1,
         relay' = [relay EXCEPT ![r] = fresh], processed' = processed,
         \A h \in Handlers : handler'[h].client # r,
         \A h \in Handlers : handler'[h].client # Nobody => handler'[h] = handler[h]
  PROVE  Coherent'
<1> USE DEF Coherent, clientOf
<1>1. \A q \in Relays : q # r => relay'[q] = relay[q]
  BY DEF TypeOK
<1>2. relay'[r] = fresh
  BY DEF TypeOK
<1>3. ClientsServed'
  <2> SUFFICES ASSUME NEW h \in Handlers, handler'[h].client # Nobody
               PROVE  /\ handler'[h].pc # "idle"
                      /\ sending(clientOf(h))' /\ relay'[handler'[h].client].waiting
                      /\ consumer(h)' = relay'[handler'[h].client].target
                      /\ event(h)' = message(clientOf(h))'
    BY DEF ClientsServed
  <2>1. handler'[h] = handler[h] /\ handler[h].client \in Relays /\ handler[h].client # r
    BY DEF TypeOK, HandlerState
  <2>2. relay'[handler[h].client] = relay[handler[h].client]
    BY <1>1, <2>1
  <2> QED
    BY <2>1, <2>2 DEF ClientsServed, sending, message, consumer, event
<1>4. ServedByOne'
  BY DEF ServedByOne
<1>5. AcceptedProcessed'
  <2> SUFFICES ASSUME NEW q \in Relays, relay'[q].batch # {}, relay'[q].accepted,
                      NEW c \in Consumers, c < relay'[q].target
               PROVE  message(q)' \in processed[c]
    BY DEF AcceptedProcessed
  <2>1. q # r
    BY <1>2 DEF Consumers
  <2> QED
    BY <1>1, <2>1 DEF AcceptedProcessed, message
<1> QED
  BY <1>3, <1>4, <1>5

(* The answer to the target, or its absence, moves on to the next one.     *)
LEMMA NextTarget ==
  ASSUME TypeOK, Coherent, NEW r \in Relays, NEW ok \in BOOLEAN, sending(r),
         relay' = delivered(r, ok),
         ok => message(r) \in processed'[relay[r].target],
         \A c \in Consumers : processed[c] \subseteq processed'[c],
         \A h \in Handlers : handler'[h].client # r,
         \A h \in Handlers : handler'[h].client # Nobody => handler'[h] = handler[h]
  PROVE  Coherent'
<1> USE DEF Coherent, clientOf
<1>1. /\ \A q \in Relays : relay'[q].batch = relay[q].batch
      /\ \A q \in Relays : q # r => relay'[q] = relay[q]
      /\ relay'[r].target = relay[r].target + 1
      /\ relay'[r].accepted = (relay[r].accepted /\ ok)
  BY DeliveredType
<1>2. ClientsServed'
  <2> SUFFICES ASSUME NEW h \in Handlers, handler'[h].client # Nobody
               PROVE  /\ handler'[h].pc # "idle"
                      /\ sending(clientOf(h))' /\ relay'[handler'[h].client].waiting
                      /\ consumer(h)' = relay'[handler'[h].client].target
                      /\ event(h)' = message(clientOf(h))'
    BY DEF ClientsServed
  <2>1. handler'[h] = handler[h] /\ handler[h].client \in Relays /\ handler[h].client # r
    BY DEF TypeOK, HandlerState
  <2>2. relay'[handler[h].client] = relay[handler[h].client]
    BY <1>1, <2>1
  <2> QED
    BY <2>1, <2>2 DEF ClientsServed, sending, message, consumer, event
<1>3. ServedByOne'
  BY DEF ServedByOne
<1>4. AcceptedProcessed'
  <2> SUFFICES ASSUME NEW q \in Relays, relay'[q].batch # {}, relay'[q].accepted,
                      NEW c \in Consumers, c < relay'[q].target
               PROVE  message(q)' \in processed'[c]
    BY DEF AcceptedProcessed
  <2>1. CASE q # r
    BY <1>1, <2>1 DEF AcceptedProcessed, message
  <2>2. CASE q = r
    <3>1. ok /\ relay[r].accepted /\ relay[r].batch # {}
      BY <1>1, <2>2
    <3>2. message(r)' = message(r)
      BY <1>1 DEF message
    <3>3. CASE c = relay[r].target
      BY <2>2, <3>1, <3>2, <3>3
    <3>4. CASE c < relay[r].target
      BY <2>2, <3>1, <3>2, <3>4 DEF AcceptedProcessed
    <3> QED
      BY <1>1, <2>2, <3>3, <3>4 DEF TypeOK, RelayState, Consumers
  <2> QED
    BY <2>1, <2>2
<1> QED
  BY <1>2, <1>3, <1>4

(* Steps of a consumer transaction that its client does not notice.        *)
LEMMA ClientUnaware ==
  ASSUME TypeOK, Coherent, relay' = relay,
         \A c \in Consumers : processed[c] \subseteq processed'[c],
         \A h \in Handlers :
           \/ handler'[h].client = Nobody
           \/ /\ handler'[h].client = handler[h].client
              /\ handler'[h].consumer = handler[h].consumer
              /\ handler'[h].event = handler[h].event
              /\ handler[h].pc # "idle" => handler'[h].pc # "idle"
  PROVE  Coherent'
<1> USE DEF Coherent, clientOf
<1>1. ClientsServed'
  BY DEF ClientsServed, sending, message, consumer, event
<1>2. ServedByOne'
  BY DEF ServedByOne
<1>3. AcceptedProcessed'
  BY DEF AcceptedProcessed, message
<1> QED
  BY <1>1, <1>2, <1>3

LEMMA RespondCoherent ==
  ASSUME TypeOK, Coherent, NEW h \in Handlers, NEW ok \in BOOLEAN, Respond(h, ok),
         ok => event(h) \in processed'[consumer(h)],
         \A c \in Consumers : processed[c] \subseteq processed'[c]
  PROVE  Coherent'
<1>1. handler'[h] = IdleHandler /\ \A g \in Handlers : g # h => handler'[g] = handler[g]
  BY RespondType
<1>2. CASE handler[h].client = Nobody
  BY <1>1, <1>2, ClientUnaware DEF Respond, IdleHandler
<1>3. CASE handler[h].client # Nobody
  <2> DEFINE r == handler[h].client
  <2>1. /\ r \in Relays /\ sending(r)
        /\ consumer(h) = relay[r].target /\ event(h) = message(r)
    BY <1>3 DEF Coherent, ClientsServed, clientOf, TypeOK, HandlerState
  <2>2. relay' = delivered(r, ok)
    BY <1>3 DEF Respond
  <2>3. \A g \in Handlers : handler'[g].client # r
    BY <1>1, <1>3 DEF Coherent, ServedByOne, clientOf, IdleHandler
  <2>4. \A g \in Handlers : handler'[g].client # Nobody => handler'[g] = handler[g]
    BY <1>1 DEF IdleHandler
  <2>5. ok => message(r) \in processed'[relay[r].target]
    BY <2>1
  <2> HIDE DEF r
  <2> QED
    BY <2>1, <2>2, <2>3, <2>4, <2>5, NextTarget
<1> QED
  BY <1>2, <1>3

(***************************************************************************)
(* Every step keeps relays and consumers coherent.                         *)
(***************************************************************************)
LEMMA CoherentStep == ASSUME TypeOK, Coherent, [Next]_vars PROVE Coherent'
<1>1. CASE (\E e \in Events : Enqueue(e)) \/ UNCHANGED vars
  BY <1>1, ClientUnaware DEF Enqueue, readModels, vars
<1>2. ASSUME NEW r \in Relays, Poll(r) PROVE Coherent'
  <2>1. [IdleRelay EXCEPT !.batch = findUnpublished] \in RelayState
    BY IdleStates DEF RelayState, findUnpublished, TypeOK
  <2>2. [IdleRelay EXCEPT !.batch = findUnpublished].target = 1
    BY DEF IdleRelay
  <2>3. \A h \in Handlers : handler[h].client # r
    BY <1>2, RelayAssumption DEF Poll, Coherent, ClientsServed, clientOf, sending
  <2> QED
    BY <1>2, <2>1, <2>2, <2>3, FreshMessage DEF Poll, readModels
<1>3. ASSUME NEW r \in Relays, NEW h \in Handlers, Send(r, h) PROVE Coherent'
  <2>1. /\ handler' = [handler EXCEPT ![h] =
              [pc |-> "received", consumer |-> relay[r].target, event |-> message(r),
               client |-> r, value |-> 0]]
        /\ relay' = [relay EXCEPT ![r].waiting = TRUE] /\ processed' = processed
        /\ sending(r)
    BY <1>3 DEF Send, readModels
  <2>2. \A g \in Handlers : handler[g].client # r
    BY <1>3, RelayAssumption DEF Send, Coherent, ClientsServed, clientOf
  <2>3. \A q \in Relays : /\ relay'[q].batch = relay[q].batch
                          /\ relay'[q].target = relay[q].target
                          /\ relay'[q].accepted = relay[q].accepted
                          /\ relay'[q].waiting = (q = r \/ relay[q].waiting)
    BY <2>1 DEF TypeOK, RelayState
  <2>4. /\ handler'[h].client = r /\ handler'[h].pc = "received"
        /\ handler'[h].consumer = relay[r].target /\ handler'[h].event = message(r)
        /\ \A g \in Handlers : g # h => handler'[g] = handler[g]
    BY <2>1 DEF TypeOK
  <2>5. ClientsServed'
    <3> SUFFICES ASSUME NEW g \in Handlers, handler'[g].client # Nobody
                 PROVE  /\ handler'[g].pc # "idle"
                        /\ sending(clientOf(g))' /\ relay'[handler'[g].client].waiting
                        /\ consumer(g)' = relay'[handler'[g].client].target
                        /\ event(g)' = message(clientOf(g))'
      BY DEF ClientsServed, clientOf
    <3>1. CASE g = h
      <4>1. sending(r)' /\ message(r)' = message(r)
        BY <2>1, <2>3 DEF sending, message
      <4> QED
        BY <2>3, <2>4, <3>1, <4>1 DEF clientOf, consumer, event
    <3>2. CASE g # h
      <4>1. handler'[g] = handler[g] /\ handler[g].client \in Relays
        BY <2>4, <3>2 DEF TypeOK, HandlerState
      <4>2. PICK q \in Relays : q = handler[g].client
        BY <4>1
      <4>3. /\ handler[g].pc # "idle" /\ sending(q) /\ relay[q].waiting
            /\ consumer(g) = relay[q].target /\ event(g) = message(q)
        BY <4>1, <4>2, RelayAssumption DEF Coherent, ClientsServed, clientOf
      <4>4. /\ sending(q)' /\ message(q)' = message(q)
            /\ relay'[q].target = relay[q].target /\ relay'[q].waiting
        BY <2>3, <4>3 DEF sending, message
      <4> QED
        BY <4>1, <4>2, <4>3, <4>4 DEF clientOf, sending, message, consumer, event
    <3> QED
      BY <3>1, <3>2
  <2>6. ServedByOne'
    BY <2>2, <2>4 DEF Coherent, ServedByOne, clientOf
  <2>7. AcceptedProcessed'
    BY <2>1, <2>3 DEF Coherent, AcceptedProcessed, message
  <2> QED
    BY <2>5, <2>6, <2>7 DEF Coherent
<1>4. ASSUME NEW r \in Relays, DeliveryFails(r) PROVE Coherent'
  <2>1. \A h \in Handlers : handler'[h].client # r
    BY <1>4, AbandonType, RelayAssumption DEF DeliveryFails
  <2>2. \A h \in Handlers : handler'[h].client # Nobody => handler'[h] = handler[h]
    BY <1>4 DEF DeliveryFails, abandon, TypeOK, HandlerState
  <2> QED
    BY <1>4, <2>1, <2>2, NextTarget DEF DeliveryFails, readModels
<1>5. ASSUME NEW r \in Relays, MarkPublished(r) \/ LeaveForNextPoll(r) PROVE Coherent'
  <2> DEFINE fresh == [IdleRelay EXCEPT !.batch = relay[r].batch \ {message(r)}]
  <2>1. fresh \in RelayState /\ fresh.target = 1
    BY IdleStates DEF RelayState, IdleRelay, TypeOK
  <2>2. /\ relay' = [relay EXCEPT ![r] = fresh]
        /\ handler' = handler /\ processed' = processed
    BY <1>5 DEF MarkPublished, LeaveForNextPoll, nextMessage, readModels
  <2>3. \A h \in Handlers : handler[h].client # r
    BY <1>5, RelayAssumption
       DEF MarkPublished, LeaveForNextPoll, tried, Coherent, ClientsServed, clientOf, sending
  <2> QED
    BY <2>1, <2>2, <2>3, FreshMessage
<1>6. ASSUME NEW r \in Relays, Crash(r) PROVE Coherent'
  <2>1. \A h \in Handlers : handler'[h].client # r
    BY <1>6, AbandonType, RelayAssumption DEF Crash
  <2>2. \A h \in Handlers : handler'[h].client # Nobody => handler'[h] = handler[h]
    BY <1>6 DEF Crash, abandon, TypeOK, HandlerState
  <2>3. IdleRelay.target = 1
    BY DEF IdleRelay
  <2> QED
    BY <1>6, <2>1, <2>2, <2>3, IdleStates, FreshMessage DEF Crash, readModels
<1>7. ASSUME NEW h \in Handlers, Reject(h) \/ DuplicateKey(h) \/ Abort(h) PROVE Coherent'
  <2>1. Respond(h, FALSE) /\ FALSE \in BOOLEAN /\ processed' = processed
    BY <1>7 DEF Reject, DuplicateKey, Abort, readModels
  <2> QED
    BY <2>1, RespondCoherent
<1>8. ASSUME NEW h \in Handlers, SkipProcessed(h) PROVE Coherent'
  <2>1. Respond(h, TRUE) /\ TRUE \in BOOLEAN /\ processed' = processed
    BY <1>8 DEF SkipProcessed, readModels
  <2>2. event(h) \in processed'[consumer(h)]
    BY <1>8 DEF SkipProcessed, readModels
  <2> QED
    BY <2>1, <2>2, RespondCoherent
<1>9. ASSUME NEW h \in Handlers, Commit(h) PROVE Coherent'
  <2>1. Respond(h, TRUE) /\ TRUE \in BOOLEAN
    BY <1>9 DEF Commit
  <2>2. consumer(h) \in Consumers
    BY DEF TypeOK, HandlerState, consumer
  <2>3. /\ event(h) \in processed'[consumer(h)]
        /\ \A c \in Consumers : processed[c] \subseteq processed'[c]
    BY <1>9, <2>2 DEF Commit, TypeOK
  <2> QED
    BY <2>1, <2>3, RespondCoherent
<1>10. ASSUME NEW h \in Handlers, NotProcessed(h) \/ Project(h) \/ MarkProcessed(h)
       PROVE  Coherent'
  <2>1. relay' = relay /\ processed' = processed
    BY <1>10 DEF NotProcessed, Project, MarkProcessed, readModels
  <2>2. \A g \in Handlers : /\ handler'[g].client = handler[g].client
                            /\ handler'[g].consumer = handler[g].consumer
                            /\ handler'[g].event = handler[g].event
                            /\ handler[g].pc # "idle" => handler'[g].pc # "idle"
    <3>1. CASE NotProcessed(h)
      BY <3>1 DEF NotProcessed, TypeOK, HandlerState
    <3>2. CASE Project(h)
      BY <3>2 DEF Project, TypeOK, HandlerState
    <3>3. CASE MarkProcessed(h)
      BY <3>3 DEF MarkProcessed, TypeOK, HandlerState
    <3> QED
      BY <1>10, <3>1, <3>2, <3>3
  <2> QED
    BY <2>1, <2>2, ClientUnaware
<1> QED
  BY <1>1, <1>2, <1>3, <1>4, <1>5, <1>6, <1>7, <1>8, <1>9, <1>10
     DEF Next, publishPending, HandleEvent
--------------------------------------------------------------------------------
LEMMA InitTypedCoherent == Init => TypeOK /\ Coherent
<1> SUFFICES ASSUME Init PROVE TypeOK /\ Coherent
  OBVIOUS
<1>1. TypeOK
  BY IdleStates, RelayAssumption DEF Init, TypeOK, IdleRelay, IdleHandler, event
<1>2. Coherent
  BY DEF Init, Coherent, ClientsServed, ServedByOne, AcceptedProcessed, clientOf,
         IdleRelay, IdleHandler
<1> QED
  BY <1>1, <1>2

(* Types hold, and relays, consumers and messages agree, in every state.   *)
THEOREM TypesAndCoherence == Spec => [](TypeOK /\ Coherent)
<1>1. TypeOK /\ Coherent /\ [Next]_vars => TypeOK' /\ Coherent'
  BY TypeStep, CoherentStep
<1> QED
  BY InitTypedCoherent, <1>1, PTL DEF Spec

(***************************************************************************)
(* Every variable keeps its type, whatever the relays and consumers do.    *)
(***************************************************************************)
THEOREM TypeCorrect == Spec => []TypeOK
  BY TypesAndCoherence, PTL

(***************************************************************************)
(* Whatever fails, races or is sent twice, an outbox row that is marked    *)
(* published is in the read model of every consumer: marking needs the     *)
(* acceptance of all of them, and a consumer accepts after its commit.     *)
(***************************************************************************)
THEOREM PublishedIsProcessed == Spec => []PublishedMeansProcessed
<1>1. Init => PublishedMeansProcessed
  BY DEF Init, PublishedMeansProcessed
<1>2. TypeOK /\ Coherent /\ PublishedMeansProcessed /\ [Next]_vars
        => PublishedMeansProcessed'
  <2> SUFFICES ASSUME TypeOK, Coherent, PublishedMeansProcessed, [Next]_vars
               PROVE  PublishedMeansProcessed'
    OBVIOUS
  <2>1. ASSUME NEW r \in Relays, MarkPublished(r) PROVE PublishedMeansProcessed'
    <3>1. \A c \in Consumers : c < relay[r].target
      BY <2>1, RelayAssumption DEF MarkPublished, tried, Consumers, TypeOK, RelayState
    <3>2. \A c \in Consumers : message(r) \in processed[c]
      BY <2>1, <3>1 DEF MarkPublished, tried, Coherent, AcceptedProcessed
    <3> QED
      BY <2>1, <3>2 DEF MarkPublished, PublishedMeansProcessed, readModels
  <2>2. ASSUME NEW h \in Handlers, Commit(h) PROVE PublishedMeansProcessed'
    BY <2>2 DEF Commit, PublishedMeansProcessed, TypeOK
  <2>3. CASE UNCHANGED <<published, processed>>
    BY <2>3 DEF PublishedMeansProcessed
  <2> QED
    BY <2>1, <2>2, <2>3
       DEF Next, vars, publishPending, HandleEvent, readModels, Enqueue, Poll, Send,
           DeliveryFails, LeaveForNextPoll, Crash, Reject, SkipProcessed, NotProcessed,
           Project, MarkProcessed, DuplicateKey, Abort
<1> QED
  BY <1>1, <1>2, TypesAndCoherence, PTL DEF Spec
--------------------------------------------------------------------------------
(***************************************************************************)
(* What the row locks and the primary key of processed_events guarantee:   *)
(* a row has one writer, whose sum is up to date, and an event one writer, *)
(* who is the first.                                                       *)
(***************************************************************************)
OneWriterPerRow ==
  \A g, h \in Handlers : holdsRow(g) /\ holdsRow(h) /\ sameRow(h, g) => g = h

SumsCurrent ==
  \A h \in Handlers : holdsRow(h) =>
    handler[h].value = totals[consumer(h)][row(h)] + delta(h)

OneWriterPerEvent ==
  \A g, h \in Handlers :
    /\ handler[g].pc = "marked" /\ handler[h].pc = "marked"
    /\ consumer(g) = consumer(h) /\ event(g) = event(h)
    => g = h

MarkedFirst ==
  \A h \in Handlers : handler[h].pc = "marked" => event(h) \notin processed[consumer(h)]

Exclusive == OneWriterPerRow /\ SumsCurrent /\ OneWriterPerEvent /\ MarkedFirst

(* Steps that leave the read models alone and take no lock.                *)
LEMMA NoNewLock ==
  ASSUME TypeOK, Exclusive, UNCHANGED readModels,
         \A h \in Handlers :
           \/ handler'[h].pc \in {"idle", "received", "project"}
           \/ /\ handler'[h].pc = handler[h].pc
              /\ handler'[h].consumer = handler[h].consumer
              /\ handler'[h].event = handler[h].event
              /\ handler'[h].value = handler[h].value
  PROVE  Exclusive'
<1> USE DEF Exclusive, readModels, consumer, event
<1>1. \A h \in Handlers : holdsRow(h)' =>
        /\ holdsRow(h) /\ row(h)' = row(h) /\ delta(h)' = delta(h)
        /\ consumer(h)' = consumer(h) /\ handler'[h].value = handler[h].value
  BY DEF holdsRow, upserts, row, delta
<1>2. OneWriterPerRow'
  BY <1>1 DEF OneWriterPerRow, sameRow
<1>3. SumsCurrent'
  BY <1>1 DEF SumsCurrent
<1>4. OneWriterPerEvent'
  BY DEF OneWriterPerEvent
<1>5. MarkedFirst'
  BY DEF MarkedFirst
<1> QED
  BY <1>2, <1>3, <1>4, <1>5

(* Projecting an event locks its row.                                      *)
LEMMA ProjectExclusive ==
  ASSUME TypeOK, Exclusive, NEW h \in Handlers, Project(h)
  PROVE  Exclusive'
<1>1. /\ handler'[h].pc = "projected" /\ handler'[h].consumer = handler[h].consumer
      /\ handler'[h].event = handler[h].event
      /\ handler'[h].value = totals[consumer(h)][row(h)] + delta(h)
      /\ \A g \in Handlers : g # h => handler'[g] = handler[g]
  BY DEF Project, TypeOK, HandlerState
<1>2. processed' = processed /\ totals' = totals
  BY DEF Project, readModels
<1>3. \A g \in Handlers :
        /\ consumer(g)' = consumer(g) /\ event(g)' = event(g)
        /\ row(g)' = row(g) /\ delta(g)' = delta(g) /\ upserts(g)' = upserts(g)
  BY <1>1 DEF consumer, event, row, delta, upserts
<1>4. \A g \in Handlers : g # h => (holdsRow(g)' <=> holdsRow(g))
  BY <1>1, <1>3 DEF holdsRow
<1>5. holdsRow(h)' =>
        \A g \in Handlers : g # h => ~(holdsRow(g) /\ sameRow(h, g))
  BY <1>3 DEF Project, holdsRow
<1>6. \A f, g \in Handlers : sameRow(f, g)' <=> sameRow(f, g)
  BY <1>3 DEF sameRow
<1>7. OneWriterPerRow'
  BY <1>4, <1>5, <1>6 DEF Exclusive, OneWriterPerRow, sameRow
<1>8. SumsCurrent'
  BY <1>1, <1>2, <1>3, <1>4 DEF Exclusive, SumsCurrent
<1>9. OneWriterPerEvent'
  BY <1>1, <1>3 DEF Exclusive, OneWriterPerEvent
<1>10. MarkedFirst'
  BY <1>1, <1>2, <1>3 DEF Exclusive, MarkedFirst
<1> QED
  BY <1>7, <1>8, <1>9, <1>10 DEF Exclusive

(* Inserting the event's id makes its transaction the only one to.         *)
LEMMA MarkExclusive ==
  ASSUME TypeOK, Exclusive, NEW h \in Handlers, MarkProcessed(h)
  PROVE  Exclusive'
<1>1. /\ handler[h].pc = "projected" /\ handler'[h].pc = "marked"
      /\ \A g \in Handlers : /\ handler'[g].consumer = handler[g].consumer
                             /\ handler'[g].event = handler[g].event
                             /\ handler'[g].value = handler[g].value
                             /\ g # h => handler'[g].pc = handler[g].pc
  BY DEF MarkProcessed, canInsert, TypeOK, HandlerState
<1>2. processed' = processed /\ totals' = totals
  BY DEF MarkProcessed, readModels
<1>3. ASSUME NEW g \in Handlers
      PROVE  /\ consumer(g)' = consumer(g) /\ event(g)' = event(g)
             /\ row(g)' = row(g) /\ delta(g)' = delta(g)
             /\ (holdsRow(g)' <=> holdsRow(g))
  <2>1. consumer(g)' = consumer(g) /\ event(g)' = event(g)
    BY <1>1 DEF consumer, event
  <2>2. row(g)' = row(g) /\ delta(g)' = delta(g)
    BY <2>1 DEF row, delta
  <2>3. upserts(g)' <=> upserts(g)
    BY <2>1, <2>2 DEF upserts
  <2>4. handler'[g].pc \in {"projected", "marked"} <=> handler[g].pc \in {"projected", "marked"}
    BY <1>1
  <2> QED
    BY <2>1, <2>2, <2>3, <2>4 DEF holdsRow
<1>5. OneWriterPerRow'
  BY <1>3 DEF Exclusive, OneWriterPerRow, sameRow
<1>6. SumsCurrent'
  BY <1>1, <1>2, <1>3 DEF Exclusive, SumsCurrent
<1>7. OneWriterPerEvent'
  BY <1>1, <1>3 DEF MarkProcessed, canInsert, Exclusive, OneWriterPerEvent
<1>8. MarkedFirst'
  BY <1>1, <1>2, <1>3 DEF MarkProcessed, Exclusive, MarkedFirst
<1> QED
  BY <1>5, <1>6, <1>7, <1>8 DEF Exclusive

(* A commit is one step of the abstract projection.                        *)
LEMMA CommitProjects ==
  ASSUME TypeOK, Exclusive, NEW h \in Handlers, Commit(h)
  PROVE  Exactly!Project(consumer(h), event(h)) /\ consumer(h) \in Consumers
                                                /\ event(h) \in Events
<1>1. consumer(h) \in Consumers /\ event(h) \in Events
  BY DEF Commit, TypeOK, HandlerState, consumer, event
<1>2. row(h) \in Rows /\ delta(h) \in Int
  BY <1>1, RowType
<1>3. event(h) \notin processed[consumer(h)]
  BY DEF Commit, Exclusive, MarkedFirst
<1>4. upserts(h) => handler[h].value = totals[consumer(h)][row(h)] + delta(h)
  BY DEF Commit, Exclusive, SumsCurrent, holdsRow
<1>5. totals' = [totals EXCEPT ![consumer(h)][row(h)] = @ + delta(h)]
  BY <1>1, <1>2, <1>4 DEF Commit, TypeOK
<1> QED
  BY <1>1, <1>3, <1>5 DEF Commit, Exactly!Project, row, delta

(* It disturbs no other transaction, which works on other rows or events.  *)
LEMMA CommitExclusive ==
  ASSUME TypeOK, Coherent, Exclusive, NEW h \in Handlers, Commit(h)
  PROVE  Exclusive'
<1>1. consumer(h) \in Consumers /\ event(h) \in Events /\ row(h) \in Rows /\ delta(h) \in Int
  BY RowType DEF Commit, TypeOK, HandlerState, consumer, event
<1>2. handler'[h] = IdleHandler /\ \A g \in Handlers : g # h => handler'[g] = handler[g]
  BY RespondType, TRUE \in BOOLEAN DEF Commit
<1>3. /\ processed' = [processed EXCEPT ![consumer(h)] = @ \cup {event(h)}]
      /\ totals' = [totals EXCEPT ![consumer(h)][row(h)] = @ + delta(h)]
  BY CommitProjects DEF Exactly!Project, row, delta
<1>4. ~holdsRow(h)' /\ handler'[h].pc # "marked"
  BY <1>2 DEF holdsRow, IdleHandler
<1>5. \A g \in Handlers : g # h =>
        /\ consumer(g)' = consumer(g) /\ event(g)' = event(g)
        /\ row(g)' = row(g) /\ delta(g)' = delta(g) /\ (holdsRow(g)' <=> holdsRow(g))
  BY <1>2 DEF consumer, event, row, delta, upserts, holdsRow
<1>6. OneWriterPerRow'
  BY <1>4, <1>5 DEF Exclusive, OneWriterPerRow, sameRow
<1>7. SumsCurrent'
  <2> SUFFICES ASSUME NEW g \in Handlers, holdsRow(g)'
               PROVE  handler'[g].value = totals'[consumer(g)'][row(g)'] + delta(g)'
    BY DEF SumsCurrent
  <2>1. g # h /\ holdsRow(g)
    BY <1>4, <1>5
  <2>2. handler[g].value = totals[consumer(g)][row(g)] + delta(g)
    BY <2>1 DEF Exclusive, SumsCurrent
  <2>3. totals'[consumer(g)][row(g)] = totals[consumer(g)][row(g)]
    <3>1. CASE upserts(h)
      <4>1. ~sameRow(h, g)
        BY <2>1, <3>1 DEF Commit, Exclusive, OneWriterPerRow, holdsRow
      <4> QED
        BY <1>1, <1>3, <4>1 DEF sameRow, TypeOK
    <3>2. CASE delta(h) = 0
      <4>1. totals[consumer(h)][row(h)] + delta(h) = totals[consumer(h)][row(h)]
        BY <1>1, <3>2 DEF TypeOK
      <4> QED
        BY <1>1, <1>3, <4>1 DEF TypeOK
    <3>3. CASE consumer(h) \in Appends
      <4>1. consumer(g) # consumer(h)
        BY <2>1, <3>3 DEF holdsRow, upserts
      <4> QED
        BY <1>1, <1>3, <4>1 DEF TypeOK
    <3> QED
      BY <3>1, <3>2, <3>3 DEF upserts
  <2> QED
    BY <1>2, <1>5, <2>1, <2>2, <2>3
<1>8. OneWriterPerEvent'
  BY <1>2, <1>4, <1>5 DEF Exclusive, OneWriterPerEvent
<1>9. MarkedFirst'
  <2> SUFFICES ASSUME NEW g \in Handlers, handler'[g].pc = "marked"
               PROVE  event(g)' \notin processed'[consumer(g)']
    BY DEF MarkedFirst
  <2>1. g # h /\ handler[g].pc = "marked"
    BY <1>2, <1>4
  <2>2. event(g) \notin processed[consumer(g)]
    BY <2>1 DEF Exclusive, MarkedFirst
  <2>3. ~(consumer(g) = consumer(h) /\ event(g) = event(h))
    BY <2>1 DEF Commit, Exclusive, OneWriterPerEvent
  <2> QED
    BY <1>1, <1>3, <1>5, <2>1, <2>2, <2>3 DEF TypeOK
<1> QED
  BY <1>6, <1>7, <1>8, <1>9 DEF Exclusive

LEMMA ExclusiveStep == ASSUME TypeOK, Coherent, Exclusive, [Next]_vars PROVE Exclusive'
<1>1. CASE (\E e \in Events : Enqueue(e)) \/ UNCHANGED vars
  BY <1>1, NoNewLock DEF Enqueue, vars, readModels
<1>2. ASSUME NEW r \in Relays,
             Poll(r) \/ MarkPublished(r) \/ LeaveForNextPoll(r)
      PROVE  Exclusive'
  BY <1>2, NoNewLock DEF Poll, MarkPublished, LeaveForNextPoll
<1>3. ASSUME NEW r \in Relays, NEW h \in Handlers, Send(r, h) PROVE Exclusive'
  BY <1>3, NoNewLock DEF Send, TypeOK
<1>4. ASSUME NEW r \in Relays, DeliveryFails(r) \/ Crash(r) PROVE Exclusive'
  <2>1. handler' = abandon(r) /\ UNCHANGED readModels
    BY <1>4 DEF DeliveryFails, Crash
  <2>2. \A h \in Handlers : /\ handler'[h].pc = handler[h].pc
                            /\ handler'[h].consumer = handler[h].consumer
                            /\ handler'[h].event = handler[h].event
                            /\ handler'[h].value = handler[h].value
    BY <2>1, AbandonType
  <2> QED
    BY <2>1, <2>2, NoNewLock
<1>5. ASSUME NEW h \in Handlers, NEW ok \in BOOLEAN, Respond(h, ok), UNCHANGED readModels
      PROVE  Exclusive'
  BY <1>5, RespondType, NoNewLock DEF IdleHandler
<1>6. ASSUME NEW h \in Handlers, NotProcessed(h) PROVE Exclusive'
  BY <1>6, NoNewLock DEF NotProcessed, TypeOK, HandlerState
<1>7. ASSUME NEW h \in Handlers, Reject(h) \/ SkipProcessed(h) \/ DuplicateKey(h) \/ Abort(h)
      PROVE  Exclusive'
  <2>1. PICK ok \in BOOLEAN : Respond(h, ok)
    BY <1>7 DEF Reject, SkipProcessed, DuplicateKey, Abort
  <2>2. UNCHANGED readModels
    BY <1>7 DEF Reject, SkipProcessed, DuplicateKey, Abort
  <2> QED
    BY <1>5, <2>1, <2>2
<1>8. ASSUME NEW h \in Handlers, Project(h) \/ MarkProcessed(h) \/ Commit(h)
      PROVE  Exclusive'
  BY <1>8, ProjectExclusive, MarkExclusive, CommitExclusive
<1> QED
  BY <1>1, <1>2, <1>3, <1>4, <1>6, <1>7, <1>8
     DEF Next, publishPending, HandleEvent

LEMMA InitExclusive == Init => Exclusive
  BY DEF Init, Exclusive, OneWriterPerRow, SumsCurrent, OneWriterPerEvent, MarkedFirst,
         holdsRow, IdleHandler

(***************************************************************************)
(* Retries, duplicates and concurrent deliveries project every event at    *)
(* most once and lose no sum: every step of relays and HandleEvent         *)
(* transactions is a step of Projection, or changes no read model.         *)
(***************************************************************************)
THEOREM ProjectedExactlyOnce == Spec => ProjectsExactlyOnce
<1>1. Init => Exactly!Init
  BY DEF Init, Exactly!Init
<1>2. TypeOK /\ Coherent /\ Exclusive /\ [Next]_vars => Exclusive'
  BY ExclusiveStep
<1>3. TypeOK /\ Exclusive /\ [Next]_vars => [Exactly!Next]_(Exactly!vars)
  <2> SUFFICES ASSUME TypeOK, Exclusive, [Next]_vars
               PROVE  [Exactly!Next]_(Exactly!vars)
    OBVIOUS
  <2>1. ASSUME NEW h \in Handlers, Commit(h) PROVE Exactly!Next
    BY <2>1, CommitProjects DEF Exactly!Next
  <2>2. CASE UNCHANGED readModels
    BY <2>2 DEF readModels, Exactly!vars
  <2> QED
    BY <2>1, <2>2
       DEF Next, vars, publishPending, HandleEvent, readModels, Enqueue, Poll, Send,
           DeliveryFails, MarkPublished, LeaveForNextPoll, Crash, Reject, SkipProcessed,
           NotProcessed, Project, MarkProcessed, DuplicateKey, Abort
<1> QED
  BY <1>1, <1>2, <1>3, InitExclusive, TypesAndCoherence, PTL
     DEF Spec, ProjectsExactlyOnce, Exactly!Spec
================================================================================
