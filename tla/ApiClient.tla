------------------------------ MODULE ApiClient ------------------------------
(***************************************************************************)
(* lib/api/client.ts: every call of api() gets the stored token or waits   *)
(* for its tab's one sign-in, sends, and when the gateway answers 401      *)
(* drops the session and tries once more.  The token is in localStorage,   *)
(* which the tabs of the browser share.  A call is one invocation of api().*)
(***************************************************************************)
EXTENDS Naturals, FiniteSets

CONSTANTS
  Calls, Requests, NoRequest, InitialRecords, Tabs, TabOf, NoSignIn, Asked,
  RequestsOf,   \* the requests each call may make
  MaxExpiries   \* bound: tokens that expire

ASSUME ClientAssumption ==
  /\ Calls \subseteq Nat /\ IsFiniteSet(Calls)
  /\ TabOf \in [Calls -> Tabs] /\ RequestsOf \in [Calls -> SUBSET Requests]
  /\ NoSignIn \notin Nat /\ Asked \notin Nat /\ Asked # NoSignIn
  /\ MaxExpiries \in Nat

VARIABLES
  token,     \* localStorage's afm_access_token, NoToken without a session
  issued,    \* how many tokens the gateway has issued
  expired,   \* the tokens it accepts no more
  pending,   \* each tab's pendingDevSession: none, asked, or the token on its way
  http,      \* each call: its phase, request, token, what it was answered
  records, late

vars == <<token, issued, expired, pending, http, records, late>>
session == <<token, issued, expired, pending>>

NoToken == 0

(* A call that is over, or has yet to begin, remembers no token.           *)
noToken(phase, request, data) ==
  [phase |-> phase, request |-> request, data |-> data, token |-> NoToken,
   retryOnAuthFailure |-> TRUE, refused |-> {}]

NotCalled == noToken("idle", NoRequest, {})

endedAs(c, phase, data) == [http EXCEPT ![c] = noToken(phase, http[c].request, data)]

(* What a caller can see of a call, and the services behind it.            *)
callOf(c) ==
  LET state == CASE http[c].phase \in {"signIn", "sent", "refused"} -> "sent"
                 [] http[c].phase = "unauthorized" -> "failed"
                 [] OTHER -> http[c].phase
  IN  [state |-> state, request |-> http[c].request, data |-> http[c].data]
call == [c \in Calls |-> callOf(c)]

Api == INSTANCE ApiCalls WITH call <- call, records <- records, late <- late

Init ==
  /\ token = NoToken /\ issued = 0 /\ expired = {}
  /\ pending = [tab \in Tabs |-> NoSignIn]
  /\ http = [c \in Calls |-> NotCalled]
  /\ records = InitialRecords /\ late = {}
--------------------------------------------------------------------------------
(* ensureDevSession: the stored token, or the tab's sign-in, begun if need *)
(* be; attempt is what the call does with it.                              *)
Attempt(c, attempt) ==
  IF token # NoToken
  THEN /\ http' = [http EXCEPT ![c] = [attempt EXCEPT !.phase = "sent", !.token = token]]
       /\ UNCHANGED pending
  ELSE /\ http' = [http EXCEPT ![c] = [attempt EXCEPT !.phase = "signIn"]]
       /\ pending' = [pending EXCEPT ![TabOf[c]] = IF @ = NoSignIn THEN Asked ELSE @]

Start(c, q) ==
  /\ http[c].phase = "idle"
  /\ Attempt(c, noToken("idle", q, {}))
  /\ UNCHANGED <<token, issued, expired, records, late>>

waiting(tab) == {c \in Calls : TabOf[c] = tab /\ http[c].phase = "signIn"}

Issue(tab) ==
  /\ pending[tab] = Asked
  /\ issued' = issued + 1
  /\ pending' = [pending EXCEPT ![tab] = issued + 1]
  /\ UNCHANGED <<token, expired, http, records, late>>

(* Mutant: only the calls that make their first attempt go on.             *)
SignedInForFirstAttempts(tab) ==
  /\ pending[tab] \in 1 .. issued
  /\ token' = pending[tab]
  /\ pending' = [pending EXCEPT ![tab] = NoSignIn]
  /\ http' = [c \in Calls |->
       IF c \in waiting(tab) /\ http[c].retryOnAuthFailure
       THEN [http[c] EXCEPT !.phase = "sent", !.token = token'] ELSE http[c]]
  /\ UNCHANGED <<issued, expired, records, late>>

(* The session is stored and everyone who waits for it goes on: their      *)
(* continuations are microtasks of one turn of the event loop.             *)
SignedIn(tab) ==
  /\ pending[tab] \in 1 .. issued
  /\ token' = pending[tab]
  /\ pending' = [pending EXCEPT ![tab] = NoSignIn]
  /\ http' = [c \in Calls |->
       IF c \in waiting(tab)
       THEN [http[c] EXCEPT !.phase = "sent", !.token = token'] ELSE http[c]]
  /\ UNCHANGED <<issued, expired, records, late>>

(* Mutant: pendingDevSession is reset, those who wait for it are not told. *)
SignInFailsUnnoticed(tab) ==
  /\ pending[tab] # NoSignIn
  /\ pending' = [pending EXCEPT ![tab] = NoSignIn]
  /\ UNCHANGED <<token, issued, expired, http, records, late>>

(* No answer, not ok, or not a session: everyone who waits for it fails.   *)
SignInFails(tab) ==
  /\ pending[tab] # NoSignIn
  /\ pending' = [pending EXCEPT ![tab] = NoSignIn]
  /\ http' = [c \in Calls |->
       IF c \in waiting(tab)
       THEN noToken("failed", http[c].request, {}) ELSE http[c]]
  /\ UNCHANGED <<token, issued, expired, records, late>>

(* Its exp is over, or the gateway's secret is another.                    *)
Expire(t) ==
  /\ t \notin expired /\ Cardinality(expired) < MaxExpiries
  /\ expired' = expired \cup {t}
  /\ UNCHANGED <<token, issued, pending, http, records, late>>
--------------------------------------------------------------------------------
(* require_user of the gateway, before anything is forwarded.              *)
Unauthorized(c) ==
  /\ http[c].phase = "sent" /\ http[c].token \in expired
  /\ http' = [http EXCEPT ![c].phase = "refused", ![c].refused = @ \cup {http[c].token}]
  /\ UNCHANGED <<session, records, late>>

(* Mutant: the token that was refused stays in localStorage.               *)
RetryOnceWithOldSession(c) ==
  /\ http[c].phase = "refused" /\ http[c].retryOnAuthFailure
  /\ Attempt(c, [http[c] EXCEPT !.retryOnAuthFailure = FALSE])
  /\ UNCHANGED <<token, issued, expired, records, late>>

(* clearSession, whatever token is stored by now, and api(path, init,      *)
(* false), which finds no token and joins or begins a sign-in.             *)
RetryOnce(c) ==
  /\ http[c].phase = "refused" /\ http[c].retryOnAuthFailure
  /\ token' = NoToken
  /\ http' = [http EXCEPT ![c].phase = "signIn", ![c].retryOnAuthFailure = FALSE]
  /\ pending' = [pending EXCEPT ![TabOf[c]] = IF @ = NoSignIn THEN Asked ELSE @]
  /\ UNCHANGED <<issued, expired, records, late>>

(* toApiError: "Your session has expired."                                 *)
SessionExpired(c) ==
  /\ http[c].phase = "refused" /\ ~http[c].retryOnAuthFailure
  /\ http' = [http EXCEPT ![c].phase = "unauthorized"]
  /\ UNCHANGED <<session, records, late>>
--------------------------------------------------------------------------------
valid(c) == http[c].phase = "sent" /\ http[c].token \notin expired

Read(c) ==
  LET path == http[c].request.path
  IN  /\ valid(c) /\ http[c].request.key = Api!NoKey
      /\ http' = endedAs(c, "ok", IF path \in Api!Lists THEN Api!contents(path) ELSE {})
      /\ UNCHANGED <<session, records, late>>

Post(c) ==
  LET q == http[c].request
      accepted == Api!replays(q) \/ Api!acceptable(q)
  IN  /\ valid(c) /\ q.key # Api!NoKey
      /\ http' = endedAs(c, IF accepted THEN "ok" ELSE "conflict", {})
      /\ records' = IF Api!acceptable(q) THEN records \cup {q} ELSE records
      /\ UNCHANGED <<session, late>>

(* Mutant: a call without an answer is tried once more, under a POST too.  *)
NoAnswerRetried(c) ==
  /\ http[c].phase \in {"sent", "refused", "ok", "conflict"}
  /\ http' = [http EXCEPT ![c].phase = IF http[c].retryOnAuthFailure THEN "sent" ELSE "failed",
                          ![c].retryOnAuthFailure = FALSE, ![c].data = {}]
  /\ UNCHANGED <<session, records, late>>

(* fetch rejects, a 502, a 4xx, an answer that is not JSON: api() throws,  *)
(* whether or not the request was executed.                                *)
NoAnswer(c) ==
  /\ http[c].phase \in {"sent", "refused", "ok", "conflict"}
  /\ http' = endedAs(c, "failed", {})
  /\ UNCHANGED <<session, records, late>>

(* The gateway's time-out: the service may execute it later.               *)
GatewayTimeout(c) ==
  /\ valid(c) /\ http[c].request.key # Api!NoKey
  /\ http' = endedAs(c, "failed", {})
  /\ late' = late \cup {http[c].request}
  /\ UNCHANGED <<session, records>>

ExecuteLate(q) ==
  /\ late' = late \ {q}
  /\ records' = IF Api!acceptable(q) THEN records \cup {q} ELSE records
  /\ UNCHANGED <<session, http>>
--------------------------------------------------------------------------------
over(c) == http[c].phase \in {"idle", "ok", "conflict", "failed", "unauthorized"}

Terminating == (\A c \in Calls : over(c)) /\ UNCHANGED vars

Next ==
  \/ \E c \in Calls :
       \/ \E q \in RequestsOf[c] : Start(c, q)
       \/ Unauthorized(c) \/ RetryOnce(c) \/ SessionExpired(c)
       \/ Read(c) \/ Post(c) \/ NoAnswer(c) \/ GatewayTimeout(c)
  \/ \E tab \in Tabs : Issue(tab) \/ SignedIn(tab) \/ SignInFails(tab)
  \/ \E t \in 1 .. issued : Expire(t)
  \/ \E q \in late : ExecuteLate(q)
  \/ Terminating

(* A sign-in ends; a request that was sent is answered or fails; and the   *)
(* browser runs what waits for either.                                     *)
Fairness ==
  /\ \A tab \in Tabs : WF_vars(Issue(tab)) /\ WF_vars(SignedIn(tab))
  /\ \A c \in Calls :
       /\ WF_vars(Unauthorized(c) \/ Read(c) \/ Post(c))
       /\ WF_vars(RetryOnce(c)) /\ WF_vars(SessionExpired(c))

Spec == Init /\ [][Next]_vars /\ Fairness
--------------------------------------------------------------------------------
Phases == {"idle", "signIn", "sent", "refused", "ok", "conflict", "failed", "unauthorized"}

(* Every variable has its type; who waits for a sign-in has one under way. *)
TypeOK ==
  /\ token \in 0 .. issued /\ issued \in Nat /\ expired \subseteq 1 .. issued
  /\ \A tab \in Tabs :
       /\ pending[tab] \in {NoSignIn, Asked} \cup 1 .. issued
       /\ waiting(tab) # {} => pending[tab] # NoSignIn
  /\ \A c \in Calls :
       /\ http[c].phase \in Phases
       /\ http[c].request \in Requests \cup {NoRequest}
       /\ http[c].token \in 0 .. issued /\ http[c].refused \subseteq expired
  /\ records \subseteq Requests \cup InitialRecords /\ late \subseteq Requests

(***************************************************************************)
(* "Drop the session and retry once": the user is told that the session    *)
(* has expired only after two different tokens were refused; one expiry,   *)
(* however many calls and tabs it hits at once, costs nobody a call.       *)
(***************************************************************************)
OneExpiryIsHidden ==
  \A c \in Calls : http[c].phase = "unauthorized" => Cardinality(http[c].refused) = 2

(***************************************************************************)
(* Tokens, sign-ins, expiries and the second attempt cannot be seen from   *)
(* outside: api() implements ApiCalls, so a POST is executed at most once  *)
(* per call, and never after its answer.                                   *)
(***************************************************************************)
ImplementsApiCalls == Api!CallsSpec

(* Every call ends: nobody is left waiting for a sign-in that is over.     *)
CallsEnd == \A c \in Calls : http[c].phase # "idle" ~> over(c)
================================================================================
