------------------------------- MODULE ApiCalls -------------------------------
(***************************************************************************)
(* What api() with the gateway and the services behind it is to a page: a  *)
(* call is answered, refused or fails, and of a POST that failed nobody    *)
(* knows whether it was, or is still to be, executed.  The services keep   *)
(* one record per idempotency key, as LedgerService and BudgetService do.  *)
(* ApiClient implements this with a token that expires.                    *)
(***************************************************************************)
EXTENDS Naturals, FiniteSets

CONSTANTS
  Calls,       \* 1 .. n: calls of api() under way at once
  Requests,    \* requests a caller may make
  NoRequest,
  InitialRecords

(* A request without a key reads, or asks for a draft.                     *)
NoKey == 0
Paths == {"accounts", "categories", "budgets", "transactions", "reversals"}
Lists == {"accounts", "categories", "budgets", "transactions", "aiContext"}

VARIABLES
  records,   \* what the services have stored: the request that made it
  call,      \* each call: its state, its request, the rows it was answered
  late       \* requests whose caller has given up, still on their way

callVars == <<records, call, late>>

Idle    == [state |-> "idle", request |-> NoRequest, data |-> {}]
sent(q) == [state |-> "sent", request |-> q, data |-> {}]
ended(c) == call[c].state \in {"ok", "conflict", "failed"}

(* The Promise.all loads of a page are one call: the entries with the      *)
(* categories to choose from, and the accounts an AI draft may be saved to.*)
pathsOf(list) ==
  CASE list = "transactions" -> {"transactions", "reversals", "categories"}
    [] list = "aiContext"    -> {"accounts"}
    [] OTHER                 -> {list}

contents(list) == {r \in records : r.path \in pathsOf(list)}

CallsInit ==
  /\ records = InitialRecords
  /\ call = [c \in Calls |-> Idle]
  /\ late = {}
--------------------------------------------------------------------------------
sameKey(q) == {r \in records : r.path = q.path /\ r.key = q.key}

(* Mutant: the payload is not compared with the stored request's.          *)
replaysAnyBody(q) == sameKey(q) # {}

(* The intent is known to the user only; the services compare the body.    *)
replays(q) == \E r \in sameKey(q) : r.body = q.body

(* A budget exists once per slot, an entry is reversed once.               *)
acceptable(q) ==
  /\ sameKey(q) = {}
  /\ q.path \in {"budgets", "reversals"} =>
       \A r \in records : r.path = q.path => r.body # q.body

Send(c, q) ==
  /\ call[c].state = "idle"
  /\ call' = [call EXCEPT ![c] = sent(q)]
  /\ UNCHANGED <<records, late>>

Read(c) ==
  /\ call[c].state = "sent" /\ call[c].request.key = NoKey
  /\ call' = [call EXCEPT ![c] =
                [state |-> "ok", request |-> @.request,
                 data |-> IF @.request.path \in Lists THEN contents(@.request.path) ELSE {}]]
  /\ UNCHANGED <<records, late>>

Accept(c) ==
  LET q == call[c].request
  IN  /\ call[c].state = "sent" /\ q.key # NoKey
      /\ replays(q) \/ acceptable(q)
      /\ call' = [call EXCEPT ![c].state = "ok"]
      /\ records' = IF replays(q) THEN records ELSE records \cup {q}
      /\ UNCHANGED late

(* 409: the key belongs to another body, the slot or the entry is taken.   *)
Refuse(c) ==
  LET q == call[c].request
  IN  /\ call[c].state = "sent" /\ q.key # NoKey
      /\ ~replays(q) /\ ~acceptable(q)
      /\ call' = [call EXCEPT ![c].state = "conflict"]
      /\ UNCHANGED <<records, late>>

(* The answer is lost: a 502 of the gateway, or no answer at all.          *)
LoseAnswer(c) ==
  /\ call[c].state \in {"ok", "conflict"}
  /\ call' = [call EXCEPT ![c] = [state |-> "failed", request |-> @.request, data |-> {}]]
  /\ UNCHANGED <<records, late>>

(* The gateway's 10 s are over, the service has yet to execute it.         *)
GiveUp(c) ==
  /\ call[c].state = "sent" /\ call[c].request.key # NoKey
  /\ call' = [call EXCEPT ![c].state = "failed"]
  /\ late' = late \cup {call[c].request}
  /\ UNCHANGED records

(* Calls that never reach a service: no sign-in, no network, a 4xx.        *)
Fail(S) ==
  /\ S # {} /\ \A c \in S : call[c].state = "sent"
  /\ call' = [c \in Calls |-> IF c \in S THEN [call[c] EXCEPT !.state = "failed"] ELSE call[c]]
  /\ UNCHANGED <<records, late>>

ExecuteLate(q) ==
  /\ q \in late
  /\ late' = late \ {q}
  /\ records' = IF acceptable(q) THEN records \cup {q} ELSE records
  /\ UNCHANGED call

Return(c) ==
  /\ ended(c)
  /\ call' = [call EXCEPT ![c] = Idle]
  /\ UNCHANGED <<records, late>>

(* What happens to the calls without the page's doing.                     *)
Served(c) == Read(c) \/ Accept(c) \/ Refuse(c) \/ LoseAnswer(c) \/ GiveUp(c)

CallsNext ==
  \/ \E c \in Calls : Served(c) \/ Return(c) \/ \E q \in Requests : Send(c, q)
  \/ \E S \in SUBSET Calls : Fail(S)
  \/ \E q \in late : ExecuteLate(q)

CallsSpec == CallsInit /\ [][CallsNext]_callVars
================================================================================
