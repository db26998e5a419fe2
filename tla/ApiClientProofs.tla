---------------------------- MODULE ApiClientProofs ----------------------------
(***************************************************************************)
(* Proofs about ApiClient, for any number of calls, tabs, requests and     *)
(* expiries: its types, that one expiry of a token costs nobody a call,    *)
(* and that api() implements ApiCalls.                                     *)
(***************************************************************************)
EXTENDS ApiClient, FiniteSetTheorems, TLAPS

(* A token that is still on its way to a tab has been used by nobody, and  *)
(* is on its way to that tab only.                                         *)
FreshTokens ==
  \A tab \in Tabs : pending[tab] \in 1 .. issued =>
    /\ pending[tab] # token
    /\ \A c \in Calls : pending[tab] # http[c].token /\ pending[tab] \notin http[c].refused
    /\ \A other \in Tabs \ {tab} : pending[other] # pending[tab]

(* Of the first attempt nothing was refused, of the second one token; and  *)
(* the second is not made under the token that was refused.                *)
AttemptsOf(c) ==
  /\ http[c].phase = "unauthorized" => Cardinality(http[c].refused) = 2
  /\ http[c].phase \in {"signIn", "sent", "refused"} /\ http[c].retryOnAuthFailure =>
       http[c].refused = IF http[c].phase = "refused" THEN {http[c].token} ELSE {}
  /\ http[c].phase \in {"signIn", "sent"} /\ ~http[c].retryOnAuthFailure =>
       \E t \in 1 .. issued :
         http[c].refused = {t} /\ (http[c].phase = "sent" => http[c].token # t)
  /\ http[c].phase = "refused" /\ ~http[c].retryOnAuthFailure =>
       Cardinality(http[c].refused) = 2

(* A call that has not been answered has no data yet.                      *)
Unanswered(c) ==
  http[c].phase \in {"idle", "signIn", "sent", "refused", "unauthorized"} => http[c].data = {}

CallType ==
  [phase : Phases, request : Requests \cup {NoRequest},
   data : SUBSET (Requests \cup InitialRecords), token : 0 .. issued,
   retryOnAuthFailure : BOOLEAN, refused : SUBSET (1 .. issued)]

CallOK(c) ==
  /\ http[c].refused \subseteq expired
  /\ http[c].phase # "idle" => http[c].request \in Requests
  /\ http[c].phase = "signIn" => pending[TabOf[c]] # NoSignIn
  /\ AttemptsOf(c) /\ Unanswered(c)

SessionType ==
  /\ token \in 0 .. issued /\ issued \in Nat /\ expired \subseteq 1 .. issued
  /\ pending \in [Tabs -> {NoSignIn, Asked} \cup 1 .. issued]

ServiceType == records \subseteq Requests \cup InitialRecords /\ late \subseteq Requests

IInv ==
  /\ SessionType /\ ServiceType /\ http \in [Calls -> CallType]
  /\ FreshTokens
  /\ \A c \in Calls : CallOK(c)
--------------------------------------------------------------------------------
(* At first there is no token, no sign-in and no call.                       *)
LEMMA InitIInv == Init => IInv
<1> SUFFICES ASSUME Init PROVE IInv
  OBVIOUS
<1>1. \A c \in Calls : http[c] = NotCalled
  BY DEF Init
<1>2. SessionType
  BY ClientAssumption DEF Init, SessionType, NoToken
<1>3. ServiceType
  BY DEF Init, ServiceType
<1>4. http \in [Calls -> CallType]
  <2>1. NotCalled \in CallType
    BY <1>2 DEF NotCalled, noToken, CallType, Phases, NoToken, SessionType
  <2> QED
    BY <2>1 DEF Init
<1>5. FreshTokens
  BY ClientAssumption DEF Init, FreshTokens
<1>6. ASSUME NEW c \in Calls PROVE CallOK(c)
  <2>1. /\ http[c].phase = "idle" /\ http[c].data = {}
        /\ http[c].refused = {} /\ http[c].retryOnAuthFailure = TRUE
    BY <1>1 DEF NotCalled, noToken
  <2> QED
    BY <2>1 DEF CallOK, AttemptsOf, Unanswered
<1> QED
  BY <1>2, <1>3, <1>4, <1>5, <1>6 DEF IInv

(* What the runs call TypeOK is part of the invariant.                     *)
LEMMA TypesOfIInv == IInv => TypeOK
<1> SUFFICES ASSUME IInv PROVE TypeOK
  OBVIOUS
<1>1. ASSUME NEW c \in Calls
      PROVE  /\ http[c].phase \in Phases /\ http[c].request \in Requests \cup {NoRequest}
             /\ http[c].token \in 0 .. issued /\ http[c].refused \subseteq expired
  <2>1. http[c] \in CallType
    BY DEF IInv
  <2> QED
    BY <2>1 DEF IInv, CallType, CallOK
<1>2. ASSUME NEW tab \in Tabs
      PROVE  /\ pending[tab] \in {NoSignIn, Asked} \cup 1 .. issued
             /\ waiting(tab) # {} => pending[tab] # NoSignIn
  BY DEF IInv, SessionType, waiting, CallOK
<1> QED
  BY <1>1, <1>2 DEF IInv, TypeOK, SessionType, ServiceType

(* Two different tokens are two.                                             *)
LEMMA TwoTokens == ASSUME NEW t, NEW u, t # u PROVE Cardinality({t} \cup {u}) = 2
<1>1. IsFiniteSet({}) /\ Cardinality({}) = 0
  BY FS_EmptySet
<1>2. IsFiniteSet({t}) /\ Cardinality({t}) = 1
  BY FS_Singleton
<1>3. Cardinality({t} \cup {u}) = Cardinality({t}) + 1
  BY <1>2, FS_AddElement, u \notin {t}
<1> QED
  BY <1>2, <1>3

--------------------------------------------------------------------------------
(* One call moves: the only tokens it meets are the one it was sent with   *)
(* and the stored one, and a sign-in is begun at most.                     *)
LEMMA OneCallMoves ==
  ASSUME IInv, NEW c \in Calls, NEW v \in CallType, ServiceType',
         http' = [http EXCEPT ![c] = v],
         UNCHANGED <<issued, expired>>, token' \in {token, NoToken},
         \/ UNCHANGED pending
         \/ pending' = [pending EXCEPT ![TabOf[c]] = IF @ = NoSignIn THEN Asked ELSE @],
         v.token \in {http[c].token, token, NoToken},
         v.refused \subseteq http[c].refused \cup {http[c].token},
         CallOK(c)'
  PROVE  IInv'
<1>1. /\ SessionType /\ FreshTokens /\ http \in [Calls -> CallType]
      /\ \A d \in Calls : CallOK(d)
  BY DEF IInv
<1>2. CallType' = CallType
  BY DEF CallType
<1>3. http' \in [Calls -> CallType]
  BY <1>1
<1>4. TabOf[c] \in Tabs
  BY ClientAssumption
<1>5. SessionType'
  BY <1>1, <1>4 DEF SessionType, NoToken
<1>6. \A tab \in Tabs :
        /\ pending'[tab] \in 1 .. issued => pending'[tab] = pending[tab]
        /\ pending[tab] # NoSignIn => pending'[tab] # NoSignIn
  BY <1>1, <1>4, ClientAssumption DEF SessionType
<1>7. http'[c] = v /\ \A d \in Calls \ {c} : http'[d] = http[d]
  BY <1>1
<1>8. FreshTokens'
  <2> SUFFICES ASSUME NEW tab \in Tabs, pending'[tab] \in 1 .. issued
               PROVE  /\ pending'[tab] # token'
                      /\ \A d \in Calls : /\ pending'[tab] # http'[d].token
                                          /\ pending'[tab] \notin http'[d].refused
                      /\ \A other \in Tabs \ {tab} : pending'[other] # pending'[tab]
    BY DEF FreshTokens
  <2>1. /\ pending'[tab] = pending[tab] /\ pending[tab] # token /\ pending[tab] # NoToken
        /\ \A d \in Calls : pending[tab] # http[d].token /\ pending[tab] \notin http[d].refused
        /\ \A other \in Tabs \ {tab} : pending[other] # pending[tab]
    BY <1>1, <1>6 DEF FreshTokens, NoToken
  <2>2. pending'[tab] # token'
    BY <2>1
  <2>3. ASSUME NEW d \in Calls
        PROVE  pending'[tab] # http'[d].token /\ pending'[tab] \notin http'[d].refused
    BY <1>7, <2>1
  <2>4. ASSUME NEW other \in Tabs \ {tab} PROVE pending'[other] # pending'[tab]
    <3>1. pending'[other] = pending[tab] => pending'[other] = pending[other]
      BY <1>6, <2>1
    <3> QED
      BY <2>1, <3>1
  <2> QED
    BY <2>2, <2>3, <2>4
<1>9. ASSUME NEW d \in Calls \ {c} PROVE CallOK(d)'
  <2>1. CallOK(d) /\ http'[d] = http[d] /\ TabOf[d] \in Tabs
    BY <1>1, <1>7, ClientAssumption
  <2> QED
    BY <2>1, <1>6 DEF CallOK, AttemptsOf, Unanswered
<1> QED
  BY <1>2, <1>3, <1>5, <1>8, <1>9 DEF IInv

(* A call ends: it remembers no token, and no data unless it was answered. *)
LEMMA CallEnds ==
  ASSUME IInv, NEW c \in Calls, NEW phase \in {"ok", "conflict", "failed"},
         NEW data \in SUBSET (Requests \cup InitialRecords), http[c].phase # "idle",
         http' = endedAs(c, phase, data), UNCHANGED session, ServiceType'
  PROVE  IInv'
<1> DEFINE v == noToken(phase, http[c].request, data)
<1>1. /\ http[c] \in CallType /\ http[c].request \in Requests /\ http \in [Calls -> CallType]
      /\ issued \in Nat
  BY DEF IInv, CallOK, SessionType
<1>2. v \in CallType
  BY <1>1 DEF CallType, Phases, NoToken, noToken
<1>3. /\ v.phase = phase /\ v.request = http[c].request /\ v.data = data
      /\ v.token = NoToken /\ v.refused = {}
  BY DEF noToken
<1>4. http' = [http EXCEPT ![c] = v] /\ http'[c] = v
  BY <1>1 DEF endedAs
<1> HIDE DEF v
<1>5. CallOK(c)'
  BY <1>1, <1>3, <1>4 DEF CallOK, AttemptsOf, Unanswered
<1> QED
  BY <1>2, <1>3, <1>4, <1>5, OneCallMoves DEF session
--------------------------------------------------------------------------------
(* Start takes the stored token or waits for its tab's sign-in.            *)
LEMMA StartKeeps ==
  ASSUME IInv, NEW c \in Calls, NEW q \in RequestsOf[c], Start(c, q)
  PROVE  IInv'
<1> DEFINE phase == IF token # NoToken THEN "sent" ELSE "signIn"
           w == [phase |-> phase, request |-> q, data |-> {}, token |-> token,
                 retryOnAuthFailure |-> TRUE, refused |-> {}]
<1>1. http \in [Calls -> CallType] /\ q \in Requests /\ SessionType /\ ServiceType
  BY ClientAssumption DEF IInv
<1>2. http' = [http EXCEPT ![c] = w]
  <2>1. CASE token # NoToken
    BY <2>1, Zenon DEF Start, Attempt, noToken
  <2>2. CASE token = NoToken
    BY <2>2, Zenon DEF Start, Attempt, noToken
  <2> QED
    BY <2>1, <2>2
<1>3. w \in CallType
  BY <1>1 DEF CallType, Phases, SessionType
<1>4. /\ w.phase = phase /\ w.request = q /\ w.data = {} /\ w.token = token
      /\ w.retryOnAuthFailure = TRUE /\ w.refused = {}
  OBVIOUS
<1>5. /\ UNCHANGED <<token, issued, expired, records, late>>
      /\ IF phase = "sent" THEN UNCHANGED pending
         ELSE pending' = [pending EXCEPT ![TabOf[c]] = IF @ = NoSignIn THEN Asked ELSE @]
  BY DEF Start, Attempt
<1>6. phase \in {"sent", "signIn"} /\ http'[c] = w
  BY <1>1, <1>2
<1>7. phase = "signIn" => pending'[TabOf[c]] # NoSignIn
  BY <1>1, <1>5, ClientAssumption DEF SessionType
<1> HIDE DEF w, phase
<1>8. CallOK(c)'
  BY <1>1, <1>4, <1>6, <1>7 DEF CallOK, AttemptsOf, Unanswered
<1>9. ServiceType'
  BY <1>1, <1>5 DEF ServiceType
<1> QED
  BY <1>2, <1>3, <1>4, <1>5, <1>8, <1>9, OneCallMoves

(* The gateway refuses the token of the attempt: the first one is          *)
(* remembered, the second one is another.                                  *)
LEMMA UnauthorizedKeeps ==
  ASSUME IInv, NEW c \in Calls, Unauthorized(c)
  PROVE  IInv'
<1> DEFINE w == [http[c] EXCEPT !.phase = "refused", !.refused = @ \cup {http[c].token}]
<1>1. /\ http \in [Calls -> CallType] /\ http[c] \in CallType /\ SessionType /\ ServiceType
      /\ CallOK(c) /\ http[c].phase = "sent" /\ http[c].token \in expired
  BY DEF IInv, Unauthorized
<1>2. http' = [http EXCEPT ![c] = w]
  BY <1>1 DEF Unauthorized
<1>3. /\ w.phase = "refused" /\ w.request = http[c].request /\ w.data = http[c].data
      /\ w.token = http[c].token /\ w.retryOnAuthFailure = http[c].retryOnAuthFailure
      /\ w.refused = http[c].refused \cup {http[c].token} /\ w \in CallType
  BY <1>1 DEF CallType, Phases, SessionType
<1>4. http'[c] = w /\ UNCHANGED session /\ UNCHANGED <<records, late>>
  BY <1>1, <1>2 DEF Unauthorized
<1> HIDE DEF w
<1>5. AttemptsOf(c)'
  <2>1. CASE http[c].retryOnAuthFailure
    BY <1>1, <1>3, <1>4, <2>1 DEF CallOK, AttemptsOf
  <2>2. CASE ~http[c].retryOnAuthFailure
    <3>1. PICK t \in 1 .. issued : http[c].refused = {t} /\ http[c].token # t
      BY <1>1, <2>2 DEF CallOK, AttemptsOf
    <3>2. Cardinality({t} \cup {http[c].token}) = 2
      BY <3>1, TwoTokens
    <3> QED
      BY <1>3, <1>4, <2>2, <3>1, <3>2 DEF AttemptsOf
  <2> QED
    BY <2>1, <2>2
<1>6. CallOK(c)'
  BY <1>1, <1>3, <1>4, <1>5 DEF CallOK, Unanswered, session, CallType
<1>7. ServiceType'
  BY <1>1, <1>4 DEF ServiceType
<1> QED
  BY <1>2, <1>3, <1>4, <1>6, <1>7, OneCallMoves DEF session

(* The second attempt: the session is dropped, a sign-in is awaited.       *)
LEMMA RetryOnceKeeps ==
  ASSUME IInv, NEW c \in Calls, RetryOnce(c)
  PROVE  IInv'
<1> DEFINE w == [http[c] EXCEPT !.phase = "signIn", !.retryOnAuthFailure = FALSE]
<1>1. /\ http \in [Calls -> CallType] /\ http[c] \in CallType /\ SessionType /\ ServiceType
      /\ CallOK(c) /\ http[c].phase = "refused" /\ http[c].retryOnAuthFailure
  BY DEF IInv, RetryOnce
<1>2. http' = [http EXCEPT ![c] = w]
  BY <1>1 DEF RetryOnce
<1>3. /\ w.phase = "signIn" /\ w.request = http[c].request /\ w.data = http[c].data
      /\ w.token = http[c].token /\ w.retryOnAuthFailure = FALSE
      /\ w.refused = http[c].refused /\ w \in CallType
  BY <1>1 DEF CallType, Phases, SessionType
<1>4. /\ http'[c] = w /\ UNCHANGED <<issued, expired, records, late>> /\ token' = NoToken
      /\ pending' = [pending EXCEPT ![TabOf[c]] = IF @ = NoSignIn THEN Asked ELSE @]
  BY <1>1, <1>2 DEF RetryOnce
<1>5. pending'[TabOf[c]] # NoSignIn
  BY <1>1, <1>4, ClientAssumption DEF SessionType
<1> HIDE DEF w
<1>6. CallOK(c)'
  <2>1. http[c].refused = {http[c].token} /\ http[c].token \in 1 .. issued
    BY <1>1 DEF CallOK, AttemptsOf, SessionType
  <2>2. AttemptsOf(c)'
    BY <1>3, <1>4, <2>1 DEF AttemptsOf
  <2> QED
    BY <1>1, <1>3, <1>4, <1>5, <2>2 DEF CallOK, Unanswered
<1>7. ServiceType'
  BY <1>1, <1>4 DEF ServiceType
<1> QED
  BY <1>2, <1>3, <1>4, <1>6, <1>7, OneCallMoves

(* The second attempt was refused: two tokens have been.                     *)
LEMMA SessionExpiredKeeps ==
  ASSUME IInv, NEW c \in Calls, SessionExpired(c)
  PROVE  IInv'
<1> DEFINE w == [http[c] EXCEPT !.phase = "unauthorized"]
<1>1. /\ http \in [Calls -> CallType] /\ http[c] \in CallType /\ SessionType /\ ServiceType
      /\ CallOK(c) /\ http[c].phase = "refused" /\ ~http[c].retryOnAuthFailure
  BY DEF IInv, SessionExpired
<1>2. http' = [http EXCEPT ![c] = w]
  BY <1>1 DEF SessionExpired
<1>3. /\ w.phase = "unauthorized" /\ w.request = http[c].request /\ w.data = http[c].data
      /\ w.token = http[c].token /\ w.retryOnAuthFailure = FALSE
      /\ w.refused = http[c].refused /\ w \in CallType
  BY <1>1 DEF CallType, Phases, SessionType
<1>4. http'[c] = w /\ UNCHANGED session /\ UNCHANGED <<records, late>>
  BY <1>1, <1>2 DEF SessionExpired
<1> HIDE DEF w
<1>5. CallOK(c)'
  BY <1>1, <1>3, <1>4 DEF CallOK, AttemptsOf, Unanswered, session
<1>6. ServiceType'
  BY <1>1, <1>4 DEF ServiceType
<1> QED
  BY <1>2, <1>3, <1>4, <1>5, <1>6, OneCallMoves DEF session

(* A call is answered, or fails: what it asked for has been executed or    *)
(* goes on without it.                                                     *)
LEMMA AnswersKeep ==
  ASSUME IInv, NEW c \in Calls, Read(c) \/ Post(c) \/ NoAnswer(c) \/ GatewayTimeout(c)
  PROVE  IInv'
<1>1. ServiceType /\ CallOK(c)
  BY DEF IInv
<1>2. CASE Read(c)
  <2> DEFINE path == http[c].request.path
             rows == IF path \in Api!Lists THEN Api!contents(path) ELSE {}
  <2>1. rows \in SUBSET (Requests \cup InitialRecords)
    BY <1>1 DEF ServiceType, Api!contents
  <2>2. /\ http[c].phase = "sent" /\ http' = endedAs(c, "ok", rows)
        /\ UNCHANGED session /\ UNCHANGED <<records, late>>
    BY <1>2 DEF Read, valid
  <2>3. ServiceType'
    BY <1>1, <2>2 DEF ServiceType
  <2> HIDE DEF rows
  <2> QED
    BY <2>1, <2>2, <2>3, CallEnds
<1>3. CASE Post(c)
  <2>1. http[c].phase = "sent" /\ http[c].request \in Requests
    BY <1>1, <1>3 DEF Post, valid, CallOK
  <2>2. PICK phase \in {"ok", "conflict"} : http' = endedAs(c, phase, {})
    BY <1>3 DEF Post
  <2>3. UNCHANGED session /\ ServiceType'
    BY <1>1, <1>3, <2>1 DEF Post, ServiceType
  <2> QED
    BY <2>1, <2>2, <2>3, CallEnds
<1>4. CASE NoAnswer(c)
  <2>1. /\ http[c].phase # "idle" /\ http' = endedAs(c, "failed", {})
        /\ UNCHANGED session /\ UNCHANGED <<records, late>>
    BY <1>4 DEF NoAnswer
  <2>2. ServiceType'
    BY <1>1, <2>1 DEF ServiceType
  <2> QED
    BY <2>1, <2>2, CallEnds
<1>5. CASE GatewayTimeout(c)
  <2>1. /\ http[c].phase # "idle" /\ http' = endedAs(c, "failed", {}) /\ UNCHANGED session
    BY <1>5 DEF GatewayTimeout, valid
  <2>2. ServiceType'
    BY <1>1, <1>5 DEF ServiceType, GatewayTimeout, valid, CallOK
  <2> QED
    BY <2>1, <2>2, CallEnds
<1> QED
  BY <1>2, <1>3, <1>4, <1>5
--------------------------------------------------------------------------------
(* The gateway issues a token that nobody has seen.                        *)
LEMMA IssueKeeps ==
  ASSUME IInv, NEW tab \in Tabs, Issue(tab)
  PROVE  IInv'
<1>1. /\ SessionType /\ ServiceType /\ FreshTokens /\ http \in [Calls -> CallType]
      /\ \A c \in Calls : CallOK(c) /\ http[c] \in CallType
  BY DEF IInv
<1>2. /\ issued' = issued + 1 /\ pending' = [pending EXCEPT ![tab] = issued + 1]
      /\ UNCHANGED <<token, expired, http, records, late>> /\ pending[tab] = Asked
  BY DEF Issue
<1>3. SessionType' /\ ServiceType'
  BY <1>1, <1>2, ClientAssumption DEF SessionType, ServiceType
<1>4. 0 .. issued \subseteq 0 .. issued' /\ 1 .. issued \subseteq 1 .. issued'
  BY <1>1, <1>2 DEF SessionType
<1>5. CallType \subseteq CallType'
  BY <1>4 DEF CallType
<1>6. http' \in [Calls -> CallType']
  BY <1>1, <1>2, <1>5
<1>7. \A c \in Calls : /\ http[c].token \in 0 .. issued
                       /\ http[c].refused \subseteq 1 .. issued
  BY <1>1 DEF CallType
<1>8. /\ pending'[tab] = issued + 1
      /\ \A other \in Tabs \ {tab} : pending'[other] = pending[other]
      /\ issued + 1 \notin 0 .. issued /\ issued + 1 # NoSignIn
      /\ \A other \in Tabs : pending[other] # issued + 1
  BY <1>1, <1>2, ClientAssumption DEF SessionType
<1>9. FreshTokens'
  <2> SUFFICES ASSUME NEW t \in Tabs, pending'[t] \in 1 .. issued'
               PROVE  /\ pending'[t] # token
                      /\ \A c \in Calls : /\ pending'[t] # http[c].token
                                          /\ pending'[t] \notin http[c].refused
                      /\ \A other \in Tabs \ {t} : pending'[other] # pending'[t]
    BY <1>2 DEF FreshTokens
  <2>1. CASE t = tab
    BY <1>1, <1>7, <1>8, <2>1 DEF SessionType
  <2>2. CASE t # tab
    <3>1. pending'[t] = pending[t] /\ pending[t] \in 1 .. issued
      BY <1>1, <1>2, <1>8, <2>2, ClientAssumption DEF SessionType
    <3>2. /\ pending[t] # token
          /\ \A c \in Calls : pending[t] # http[c].token /\ pending[t] \notin http[c].refused
          /\ \A other \in Tabs \ {t} : pending[other] # pending[t]
      BY <1>1, <3>1 DEF FreshTokens
    <3>3. \A other \in Tabs \ {t} : pending'[other] # pending[t]
      BY <1>8, <3>2
    <3> QED
      BY <3>1, <3>2, <3>3
  <2> QED
    BY <2>1, <2>2
<1>10. ASSUME NEW c \in Calls PROVE CallOK(c)'
  <2>1. CallOK(c) /\ TabOf[c] \in Tabs
    BY <1>1, ClientAssumption
  <2>2. http[c].phase = "signIn" => pending'[TabOf[c]] # NoSignIn
    BY <1>8, <2>1 DEF CallOK
  <2> QED
    BY <1>2, <1>4, <2>1, <2>2 DEF CallOK, AttemptsOf, Unanswered
<1> QED
  BY <1>2, <1>3, <1>6, <1>9, <1>10 DEF IInv

(* Those who waited go on with a token that none of them was refused.      *)
LEMMA SignedInKeeps ==
  ASSUME IInv, NEW tab \in Tabs, SignedIn(tab)
  PROVE  IInv'
<1> DEFINE w(c) == [http[c] EXCEPT !.phase = "sent", !.token = pending[tab]]
<1>1. /\ SessionType /\ ServiceType /\ FreshTokens /\ http \in [Calls -> CallType]
      /\ \A c \in Calls : CallOK(c) /\ http[c] \in CallType
  BY DEF IInv
<1>2. /\ pending[tab] \in 1 .. issued /\ token' = pending[tab]
      /\ pending' = [pending EXCEPT ![tab] = NoSignIn]
      /\ http' = [c \in Calls |-> IF c \in waiting(tab) THEN w(c) ELSE http[c]]
      /\ UNCHANGED <<issued, expired, records, late>>
  BY DEF SignedIn
<1>3. ASSUME NEW c \in Calls
      PROVE  /\ w(c) \in CallType /\ w(c).phase = "sent" /\ w(c).request = http[c].request
             /\ w(c).data = http[c].data /\ w(c).token = pending[tab]
             /\ w(c).retryOnAuthFailure = http[c].retryOnAuthFailure
             /\ w(c).refused = http[c].refused
  <2>1. pending[tab] \in 1 .. issued /\ issued \in Nat
    BY <1>1, <1>2 DEF SessionType
  <2>2. http[c] \in CallType
    BY <1>1
  <2>3. pending[tab] \in 0 .. issued
    BY <2>1
  <2> QED
    BY <2>2, <2>3 DEF CallType, Phases
<1>4. ASSUME NEW c \in Calls
      PROVE  http'[c] = IF c \in waiting(tab) THEN w(c) ELSE http[c]
  BY <1>2
<1> HIDE DEF w
<1>5. SessionType' /\ ServiceType' /\ CallType' = CallType
  BY <1>1, <1>2 DEF SessionType, ServiceType, CallType
<1>6. http' \in [Calls -> CallType]
  BY <1>1, <1>2, <1>3
<1>7. \A t \in Tabs : pending'[t] \in 1 .. issued => t # tab /\ pending'[t] = pending[t]
  BY <1>1, <1>2, ClientAssumption DEF SessionType
<1>8. FreshTokens'
  <2> SUFFICES ASSUME NEW t \in Tabs, pending'[t] \in 1 .. issued
               PROVE  /\ pending'[t] # token'
                      /\ \A c \in Calls : /\ pending'[t] # http'[c].token
                                          /\ pending'[t] \notin http'[c].refused
                      /\ \A other \in Tabs \ {t} : pending'[other] # pending'[t]
    BY <1>2 DEF FreshTokens
  <2>1. t # tab /\ pending'[t] = pending[t] /\ pending[t] \in 1 .. issued
    BY <1>7
  <2>2. /\ \A c \in Calls : pending[t] # http[c].token /\ pending[t] \notin http[c].refused
        /\ \A other \in Tabs \ {t} : pending[other] # pending[t]
        /\ pending[tab] # pending[t]
    BY <1>1, <2>1 DEF FreshTokens
  <2>3. \A c \in Calls : pending[t] # http'[c].token /\ pending[t] \notin http'[c].refused
    BY <1>3, <1>4, <2>2
  <2>4. \A other \in Tabs \ {t} : pending'[other] # pending[t]
    BY <1>1, <1>2, <2>1, <2>2, ClientAssumption DEF SessionType
  <2> QED
    BY <1>2, <2>1, <2>2, <2>3, <2>4
<1>9. ASSUME NEW c \in Calls PROVE CallOK(c)'
  <2>1. CallOK(c) /\ TabOf[c] \in Tabs
    BY <1>1, ClientAssumption
  <2>2. CASE c \in waiting(tab)
    <3>1. /\ http'[c] = w(c) /\ http[c].phase = "signIn"
          /\ pending[tab] \notin http[c].refused
      BY <1>1, <1>2, <1>4, <2>2 DEF waiting, FreshTokens
    <3>2. AttemptsOf(c)'
      BY <1>2, <1>3, <2>1, <3>1 DEF CallOK, AttemptsOf
    <3> QED
      BY <1>2, <1>3, <2>1, <3>1, <3>2 DEF CallOK, Unanswered
  <2>3. CASE c \notin waiting(tab)
    <3>1. http'[c] = http[c] /\ (http[c].phase = "signIn" => TabOf[c] # tab)
      BY <1>4, <2>3 DEF waiting
    <3>2. http[c].phase = "signIn" => pending'[TabOf[c]] # NoSignIn
      BY <1>1, <1>2, <2>1, <3>1 DEF CallOK, SessionType
    <3> QED
      BY <1>2, <2>1, <3>1, <3>2 DEF CallOK, AttemptsOf, Unanswered
  <2> QED
    BY <2>2, <2>3
<1> QED
  BY <1>5, <1>6, <1>8, <1>9 DEF IInv

(* Those who waited fail, and hold no token.                                 *)
LEMMA SignInFailsKeeps ==
  ASSUME IInv, NEW tab \in Tabs, SignInFails(tab)
  PROVE  IInv'
<1> DEFINE w(c) == noToken("failed", http[c].request, {})
<1>1. /\ SessionType /\ ServiceType /\ FreshTokens /\ http \in [Calls -> CallType]
      /\ \A c \in Calls : CallOK(c) /\ http[c] \in CallType
  BY DEF IInv
<1>2. /\ pending' = [pending EXCEPT ![tab] = NoSignIn]
      /\ http' = [c \in Calls |-> IF c \in waiting(tab) THEN w(c) ELSE http[c]]
      /\ UNCHANGED <<token, issued, expired, records, late>>
  BY DEF SignInFails
<1>3. ASSUME NEW c \in Calls
      PROVE  /\ w(c) \in CallType /\ w(c).phase = "failed" /\ w(c).request = http[c].request
             /\ w(c).token = NoToken /\ w(c).refused = {}
  BY <1>1 DEF CallType, Phases, SessionType, noToken, NoToken
<1>4. ASSUME NEW c \in Calls
      PROVE  http'[c] = IF c \in waiting(tab) THEN w(c) ELSE http[c]
  BY <1>2
<1> HIDE DEF w
<1>5. SessionType' /\ ServiceType' /\ CallType' = CallType
  BY <1>1, <1>2 DEF SessionType, ServiceType, CallType
<1>6. http' \in [Calls -> CallType]
  BY <1>1, <1>2, <1>3
<1>7. \A t \in Tabs : pending'[t] \in 1 .. issued => t # tab /\ pending'[t] = pending[t]
  BY <1>1, <1>2, ClientAssumption DEF SessionType
<1>8. FreshTokens'
  <2> SUFFICES ASSUME NEW t \in Tabs, pending'[t] \in 1 .. issued
               PROVE  /\ pending'[t] # token
                      /\ \A c \in Calls : /\ pending'[t] # http'[c].token
                                          /\ pending'[t] \notin http'[c].refused
                      /\ \A other \in Tabs \ {t} : pending'[other] # pending'[t]
    BY <1>2 DEF FreshTokens
  <2>1. t # tab /\ pending'[t] = pending[t] /\ pending[t] \in 1 .. issued /\ pending[t] # NoToken
    BY <1>7 DEF NoToken
  <2>2. /\ pending[t] # token
        /\ \A c \in Calls : pending[t] # http[c].token /\ pending[t] \notin http[c].refused
        /\ \A other \in Tabs \ {t} : pending[other] # pending[t]
    BY <1>1, <2>1 DEF FreshTokens
  <2>3. \A c \in Calls : pending[t] # http'[c].token /\ pending[t] \notin http'[c].refused
    BY <1>3, <1>4, <2>1, <2>2
  <2>4. \A other \in Tabs \ {t} : pending'[other] # pending[t]
    BY <1>1, <1>2, <2>1, <2>2, ClientAssumption DEF SessionType
  <2> QED
    BY <2>1, <2>2, <2>3, <2>4
<1>9. ASSUME NEW c \in Calls PROVE CallOK(c)'
  <2>1. CallOK(c) /\ TabOf[c] \in Tabs
    BY <1>1, ClientAssumption
  <2>2. CASE c \in waiting(tab)
    <3>1. http'[c] = w(c) /\ http[c].phase = "signIn"
      BY <1>4, <2>2 DEF waiting
    <3> QED
      BY <1>3, <2>1, <3>1 DEF CallOK, AttemptsOf, Unanswered
  <2>3. CASE c \notin waiting(tab)
    <3>1. http'[c] = http[c] /\ (http[c].phase = "signIn" => TabOf[c] # tab)
      BY <1>4, <2>3 DEF waiting
    <3>2. http[c].phase = "signIn" => pending'[TabOf[c]] # NoSignIn
      BY <1>1, <1>2, <2>1, <3>1 DEF CallOK, SessionType
    <3> QED
      BY <1>2, <2>1, <3>1, <3>2 DEF CallOK, AttemptsOf, Unanswered
  <2> QED
    BY <2>2, <2>3
<1> QED
  BY <1>5, <1>6, <1>8, <1>9 DEF IInv

(* A token expires, or a late request is executed.                         *)
LEMMA OutsideKeeps ==
  ASSUME IInv, (\E t \in 1 .. issued : Expire(t)) \/ (\E q \in late : ExecuteLate(q))
               \/ UNCHANGED vars
  PROVE  IInv'
<1>1. /\ SessionType /\ ServiceType /\ FreshTokens /\ http \in [Calls -> CallType]
      /\ \A c \in Calls : CallOK(c)
  BY DEF IInv
<1>2. /\ UNCHANGED <<token, issued, pending, http>>
      /\ expired \subseteq expired' /\ expired' \subseteq 1 .. issued
  BY <1>1 DEF Expire, ExecuteLate, session, vars, SessionType
<1>3. SessionType' /\ CallType' = CallType
  BY <1>1, <1>2 DEF SessionType, CallType
<1>4. ServiceType'
  BY <1>1 DEF ServiceType, Expire, ExecuteLate, vars
<1>5. FreshTokens'
  BY <1>1, <1>2 DEF FreshTokens
<1>6. ASSUME NEW c \in Calls PROVE CallOK(c)'
  <2>1. CallOK(c)
    BY <1>1
  <2> QED
    BY <1>2, <2>1 DEF CallOK, AttemptsOf, Unanswered
<1> QED
  BY <1>1, <1>2, <1>3, <1>4, <1>5, <1>6 DEF IInv
--------------------------------------------------------------------------------
(* Every step of the client keeps the invariant.                             *)
LEMMA StepKeeps == IInv /\ [Next]_vars => IInv'
<1> SUFFICES ASSUME IInv, [Next]_vars PROVE IInv'
  OBVIOUS
<1>1. ASSUME NEW c \in Calls, NEW q \in RequestsOf[c], Start(c, q) PROVE IInv'
  BY <1>1, StartKeeps
<1>2. ASSUME NEW c \in Calls, Unauthorized(c) PROVE IInv'
  BY <1>2, UnauthorizedKeeps
<1>3. ASSUME NEW c \in Calls, RetryOnce(c) PROVE IInv'
  BY <1>3, RetryOnceKeeps
<1>4. ASSUME NEW c \in Calls, SessionExpired(c) PROVE IInv'
  BY <1>4, SessionExpiredKeeps
<1>5. ASSUME NEW c \in Calls, Read(c) \/ Post(c) \/ NoAnswer(c) \/ GatewayTimeout(c)
      PROVE  IInv'
  BY <1>5, AnswersKeep
<1>6. ASSUME NEW tab \in Tabs, Issue(tab) \/ SignedIn(tab) \/ SignInFails(tab) PROVE IInv'
  BY <1>6, IssueKeeps, SignedInKeeps, SignInFailsKeeps
<1>7. CASE \/ \E t \in 1 .. issued : Expire(t)
           \/ \E q \in late : ExecuteLate(q)
           \/ UNCHANGED vars
  BY <1>7, OutsideKeeps
<1> QED
  BY <1>1, <1>2, <1>3, <1>4, <1>5, <1>6, <1>7 DEF Next, Terminating

(* So it holds throughout every behaviour.                                   *)
LEMMA Invariance == Spec => []IInv
  BY InitIInv, StepKeeps, PTL DEF Spec

(* TypeOK holds for any calls, tabs and requests: every variable of the    *)
(* client has its type, and who waits for a sign-in has one under way.     *)
THEOREM TypeCorrect == Spec => []TypeOK
  BY Invariance, TypesOfIInv, PTL

(* Whatever the tabs, the calls and the expiries: "session has expired" is *)
(* said only of a call that was refused two different tokens.              *)
THEOREM ExpiryIsHidden == Spec => []OneExpiryIsHidden
<1>1. IInv => OneExpiryIsHidden
  BY DEF IInv, CallOK, AttemptsOf, OneExpiryIsHidden
<1> QED
  BY <1>1, Invariance, PTL
--------------------------------------------------------------------------------
(* What the page sees of a call.                                           *)
Seen(c) ==
  /\ call[c].request = http[c].request /\ call[c].data = http[c].data
  /\ http[c].phase \in {"signIn", "sent", "refused"} => call[c].state = "sent"
  /\ http[c].phase = "unauthorized" => call[c].state = "failed"
  /\ http[c].phase \in {"idle", "ok", "conflict", "failed"} => call[c].state = http[c].phase
  /\ call[c] = [state |-> call[c].state, request |-> call[c].request, data |-> call[c].data]

(* Seen says what callOf does, before a step,                                *)
LEMMA SeenBefore == ASSUME NEW c \in Calls, http[c].phase \in Phases PROVE Seen(c)
  BY DEF Seen, call, callOf, Phases

(* and after it.                                                             *)
LEMMA SeenAfter == ASSUME NEW c \in Calls, http'[c].phase \in Phases PROVE Seen(c)'
  BY DEF Seen, call, callOf, Phases

(* What the invariant says of the view of all calls.                         *)
LEMMA AllSeen ==
  ASSUME IInv, IInv'
  PROVE  /\ \A c \in Calls : Seen(c) /\ Seen(c)' /\ Unanswered(c)
         /\ call = [c \in Calls |-> call[c]] /\ call' = [c \in Calls |-> call'[c]]
         /\ http \in [Calls -> CallType] /\ http' \in [Calls -> CallType']
<1>1. \A c \in Calls : http[c].phase \in Phases /\ http'[c].phase \in Phases
  BY DEF IInv, CallType
<1>2. call = [c \in Calls |-> call[c]] /\ call' = [c \in Calls |-> call'[c]]
  BY DEF call
<1> QED
  BY <1>1, <1>2, SeenBefore, SeenAfter DEF IInv, CallOK

(* A step of one call that its page cannot see.                            *)
LEMMA Unseen ==
  ASSUME IInv, IInv', NEW c \in Calls,
         \A d \in Calls \ {c} : http'[d] = http[d],
         http'[c].request = http[c].request, http'[c].data = http[c].data,
         {http[c].phase, http'[c].phase} \subseteq {"signIn", "sent", "refused"}
  PROVE  call' = call
<1>1. \A d \in Calls \ {c} : call'[d] = call[d]
  BY DEF call, callOf
<1>2. call'[c] = call[c]
  BY AllSeen DEF Seen
<1> QED
  BY <1>1, <1>2, AllSeen

(* A step of one call changes what is seen of that call only.              *)
LEMMA OnlyOneSeen ==
  ASSUME IInv, IInv', NEW c \in Calls, \A d \in Calls \ {c} : http'[d] = http[d]
  PROVE  call' = [call EXCEPT ![c] = call'[c]]
<1>1. \A d \in Calls \ {c} : call'[d] = call[d]
  BY DEF call, callOf
<1> QED
  BY <1>1, AllSeen

(* Nothing is changed but what no page sees.                               *)
LEMMA SessionSteps ==
  ASSUME IInv, IInv', UNCHANGED <<records, late>>, NEW c \in Calls,
         Unauthorized(c) \/ RetryOnce(c)
  PROVE  UNCHANGED Api!callVars
<1>1. http \in [Calls -> CallType] /\ http[c] \in CallType
  BY DEF IInv
<1>2. \A d \in Calls \ {c} : http'[d] = http[d]
  BY <1>1 DEF Unauthorized, RetryOnce
<1>3. /\ http'[c].request = http[c].request /\ http'[c].data = http[c].data
      /\ {http[c].phase, http'[c].phase} \subseteq {"signIn", "sent", "refused"}
  BY <1>1 DEF Unauthorized, RetryOnce, CallType
<1> QED
  BY <1>2, <1>3, Unseen DEF Api!callVars

(* A call that begins is a request that is sent.                             *)
LEMMA StartSends ==
  ASSUME IInv, IInv', NEW c \in Calls, NEW q \in RequestsOf[c], Start(c, q)
  PROVE  Api!Send(c, q)
<1>1. http \in [Calls -> CallType] /\ http[c].phase = "idle" /\ UNCHANGED <<records, late>>
  BY DEF IInv, Start
<1>2. PICK phase \in {"sent", "signIn"} :
        http' = [http EXCEPT ![c] = [phase |-> phase, request |-> q, data |-> {}, token |-> token,
                                     retryOnAuthFailure |-> TRUE, refused |-> {}]]
  <2>1. CASE token # NoToken
    BY <2>1, Zenon DEF Start, Attempt, noToken
  <2>2. CASE token = NoToken
    BY <2>2, Zenon DEF Start, Attempt, noToken
  <2> QED
    BY <2>1, <2>2
<1>3. /\ http'[c].phase = phase /\ http'[c].request = q /\ http'[c].data = {}
      /\ \A d \in Calls \ {c} : http'[d] = http[d]
  BY <1>1, <1>2
<1>4. call[c].state = "idle" /\ call'[c] = [state |-> "sent", request |-> q, data |-> {}]
  BY <1>1, <1>3, AllSeen DEF Seen
<1> QED
  BY <1>1, <1>3, <1>4, OnlyOneSeen DEF Api!Send, Api!sent

(* A call without data whose state changes.                                *)
LEMMA StateChanges ==
  ASSUME NEW r, NEW q, NEW state, NEW other, r = [state |-> other, request |-> q, data |-> {}]
  PROVE  [r EXCEPT !.state = state] = [state |-> state, request |-> q, data |-> {}]
  OBVIOUS

(* A call that gives up has failed without a trace.                        *)
LEMMA OneFails ==
  ASSUME IInv, IInv', NEW c \in Calls, UNCHANGED <<records, late>>,
         \A d \in Calls \ {c} : http'[d] = http[d],
         http[c].phase \in {"signIn", "sent", "refused"},
         http'[c].phase \in {"failed", "unauthorized"},
         http'[c].request = http[c].request, http'[c].data = {}
  PROVE  Api!Fail({c})
<1>1. /\ call[c].state = "sent"
      /\ call[c] = [state |-> "sent", request |-> http[c].request, data |-> {}]
      /\ call'[c] = [state |-> "failed", request |-> http[c].request, data |-> {}]
  BY AllSeen DEF Seen, Unanswered
<1>2. \A d \in Calls \ {c} : call'[d] = call[d]
  BY DEF call, callOf
<1>3. call' = [d \in Calls |-> IF d \in {c} THEN [call[d] EXCEPT !.state = "failed"] ELSE call[d]]
  <2>1. call'[c] = [call[c] EXCEPT !.state = "failed"]
    BY <1>1, StateChanges
  <2> QED
    BY <1>2, <2>1, AllSeen
<1> QED
  BY <1>1, <1>3 DEF Api!Fail

(* A second refusal is a failure: no service has seen the request.           *)
LEMMA SessionExpiredFails ==
  ASSUME IInv, IInv', NEW c \in Calls, SessionExpired(c)
  PROVE  Api!Fail({c})
<1>1. http \in [Calls -> CallType] /\ http[c] \in CallType /\ http[c].data = {}
  BY DEF IInv, CallOK, Unanswered, SessionExpired
<1> QED
  BY <1>1, OneFails DEF SessionExpired, CallType

(* What endedAs leaves to be seen.                                         *)
LEMMA EndedSeen ==
  ASSUME IInv, IInv', NEW c \in Calls, NEW phase \in {"ok", "conflict", "failed"}, NEW data,
         http' = endedAs(c, phase, data)
  PROVE  /\ http'[c].phase = phase /\ http'[c].request = http[c].request /\ http'[c].data = data
         /\ \A d \in Calls \ {c} : http'[d] = http[d]
         /\ call' = [call EXCEPT ![c] =
                       [state |-> phase, request |-> call[c].request, data |-> data]]
<1>1. http \in [Calls -> CallType]
  BY DEF IInv
<1>2. /\ http'[c].phase = phase /\ http'[c].request = http[c].request /\ http'[c].data = data
      /\ \A d \in Calls \ {c} : http'[d] = http[d]
  BY <1>1 DEF endedAs, noToken
<1>3. call'[c] = [state |-> phase, request |-> call[c].request, data |-> data]
  BY <1>2, AllSeen DEF Seen
<1> QED
  BY <1>2, <1>3, OnlyOneSeen

(* Without an answer, either nothing was done or the answer is lost.         *)
LEMMA NoAnswerFails ==
  ASSUME IInv, IInv', NEW c \in Calls, NoAnswer(c)
  PROVE  Api!Fail({c}) \/ Api!LoseAnswer(c)
<1>1. /\ http' = endedAs(c, "failed", {}) /\ UNCHANGED <<records, late>>
      /\ http[c].phase \in {"sent", "refused", "ok", "conflict"}
  BY DEF NoAnswer
<1>2. /\ http'[c].phase = "failed" /\ http'[c].request = http[c].request /\ http'[c].data = {}
      /\ \A d \in Calls \ {c} : http'[d] = http[d]
      /\ call' = [call EXCEPT ![c] =
                    [state |-> "failed", request |-> call[c].request, data |-> {}]]
  BY <1>1, EndedSeen
<1>3. CASE http[c].phase \in {"sent", "refused"}
  BY <1>1, <1>2, <1>3, OneFails
<1>4. CASE http[c].phase \in {"ok", "conflict"}
  <2>1. call[c].state \in {"ok", "conflict"}
    BY <1>4, AllSeen DEF Seen
  <2> QED
    BY <1>1, <1>2, <2>1 DEF Api!LoseAnswer
<1> QED
  BY <1>1, <1>3, <1>4

(* A list is read in one step.                                               *)
LEMMA ReadReads ==
  ASSUME IInv, IInv', NEW c \in Calls, Read(c)
  PROVE  Api!Read(c)
<1> DEFINE path == http[c].request.path
           rows == IF path \in Api!Lists THEN Api!contents(path) ELSE {}
<1>1. /\ http[c].phase = "sent" /\ http[c].request.key = Api!NoKey
      /\ http' = endedAs(c, "ok", rows) /\ UNCHANGED <<records, late>>
  BY DEF Read, valid
<1>2. call[c].state = "sent" /\ call[c].request = http[c].request
  BY <1>1, AllSeen DEF Seen
<1> HIDE DEF rows
<1>3. call' = [call EXCEPT ![c] = [state |-> "ok", request |-> call[c].request, data |-> rows]]
  BY <1>1, EndedSeen
<1>4. call' = [call EXCEPT ![c] =
                 [state |-> "ok", request |-> @.request,
                  data |-> IF @.request.path \in Api!Lists
                           THEN Api!contents(@.request.path) ELSE {}]]
  BY <1>2, <1>3 DEF rows
<1> QED
  BY <1>1, <1>2, <1>4 DEF Api!Read

(* A POST is accepted or refused in one step, once.                          *)
LEMMA PostPosts ==
  ASSUME IInv, IInv', NEW c \in Calls, Post(c)
  PROVE  Api!Accept(c) \/ Api!Refuse(c)
<1> DEFINE q == http[c].request
           accepted == Api!replays(q) \/ Api!acceptable(q)
<1>1. /\ http[c].phase = "sent" /\ q.key # Api!NoKey
      /\ http' = endedAs(c, IF accepted THEN "ok" ELSE "conflict", {})
      /\ records' = IF Api!acceptable(q) THEN records \cup {q} ELSE records
      /\ late' = late
  BY DEF Post, valid
<1>2. call[c] = [state |-> "sent", request |-> q, data |-> {}] /\ call[c].request = q
  BY <1>1, AllSeen DEF Seen, Unanswered
<1>3. CASE accepted
  <2>1. call' = [call EXCEPT ![c] = [state |-> "ok", request |-> q, data |-> {}]]
    BY <1>1, <1>3, <1>2, EndedSeen
  <2>2. call' = [call EXCEPT ![c].state = "ok"]
    <3>1. [call[c] EXCEPT !.state = "ok"] = [state |-> "ok", request |-> q, data |-> {}]
      BY <1>2, StateChanges
    <3>2. call' = [call EXCEPT ![c] = [call[c] EXCEPT !.state = "ok"]]
      BY <2>1, <3>1
    <3> QED
      BY <3>2
  <2>3. Api!replays(q) => ~Api!acceptable(q)
    BY DEF Api!replays, Api!acceptable
  <2>4. records' = IF Api!replays(q) THEN records ELSE records \cup {q}
    BY <1>1, <1>3, <2>3
  <2> QED
    BY <1>1, <1>2, <1>3, <2>2, <2>4 DEF Api!Accept
<1>4. CASE ~accepted
  <2>1. call' = [call EXCEPT ![c] = [state |-> "conflict", request |-> q, data |-> {}]]
    BY <1>1, <1>4, <1>2, EndedSeen
  <2>2. call' = [call EXCEPT ![c].state = "conflict"]
    <3>1. [call[c] EXCEPT !.state = "conflict"] = [state |-> "conflict", request |-> q, data |-> {}]
      BY <1>2, StateChanges
    <3>2. call' = [call EXCEPT ![c] = [call[c] EXCEPT !.state = "conflict"]]
      BY <2>1, <3>1
    <3> QED
      BY <3>2
  <2> QED
    BY <1>1, <1>2, <1>4, <2>2 DEF Api!Refuse
<1> QED
  BY <1>3, <1>4

(* The gateway gives up; the request may still be executed.                  *)
LEMMA TimeoutGivesUp ==
  ASSUME IInv, IInv', NEW c \in Calls, GatewayTimeout(c)
  PROVE  Api!GiveUp(c)
<1>1. /\ http[c].phase = "sent" /\ http[c].request.key # Api!NoKey
      /\ http' = endedAs(c, "failed", {}) /\ late' = late \cup {http[c].request}
      /\ records' = records
  BY DEF GatewayTimeout, valid
<1>2. /\ call[c] = [state |-> "sent", request |-> http[c].request, data |-> {}]
      /\ call[c].request = http[c].request
  BY <1>1, AllSeen DEF Seen, Unanswered
<1>3. call' = [call EXCEPT ![c] = [state |-> "failed", request |-> http[c].request, data |-> {}]]
  BY <1>1, <1>2, EndedSeen
<1>4. call' = [call EXCEPT ![c].state = "failed"]
  <2>1. [call[c] EXCEPT !.state = "failed"] =
          [state |-> "failed", request |-> http[c].request, data |-> {}]
    BY <1>2, StateChanges
  <2>2. call' = [call EXCEPT ![c] = [call[c] EXCEPT !.state = "failed"]]
    BY <1>3, <2>1
  <2> QED
    BY <2>2
<1> QED
  BY <1>1, <1>2, <1>4 DEF Api!GiveUp

(* A sign-in that is over is seen by those who waited for it only.         *)
LEMMA SignInSeen ==
  ASSUME IInv, IInv', NEW tab \in Tabs, Issue(tab) \/ SignedIn(tab)
  PROVE  UNCHANGED Api!callVars
<1>1. http \in [Calls -> CallType] /\ UNCHANGED <<records, late>>
  BY DEF IInv, Issue, SignedIn
<1>2. ASSUME NEW c \in Calls PROVE call'[c] = call[c]
  <2>1. CASE http'[c] = http[c]
    BY <2>1 DEF call, callOf
  <2>2. CASE http'[c] # http[c]
    <3>1. c \in waiting(tab) /\ http'[c] = [http[c] EXCEPT !.phase = "sent", !.token = token']
      BY <1>1, <2>2 DEF Issue, SignedIn
    <3>2. /\ http[c].phase = "signIn" /\ http'[c].phase = "sent"
          /\ http'[c].request = http[c].request /\ http'[c].data = http[c].data
      BY <1>1, <3>1 DEF waiting, CallType
    <3> QED
      BY <3>2, AllSeen DEF Seen
  <2> QED
    BY <2>1, <2>2
<1> QED
  BY <1>1, <1>2, AllSeen DEF Api!callVars

(* All who waited for a sign-in fail at once.                                *)
LEMMA SignInFailsSeen ==
  ASSUME IInv, IInv', NEW tab \in Tabs, SignInFails(tab)
  PROVE  Api!Fail(waiting(tab)) \/ UNCHANGED Api!callVars
<1>1. /\ http \in [Calls -> CallType] /\ UNCHANGED <<records, late>>
      /\ http' = [c \in Calls |-> IF c \in waiting(tab)
                                  THEN noToken("failed", http[c].request, {}) ELSE http[c]]
  BY DEF IInv, SignInFails
<1>2. waiting(tab) \subseteq Calls
  BY DEF waiting
<1>3. ASSUME NEW c \in waiting(tab)
      PROVE  call[c].state = "sent" /\ call'[c] = [call[c] EXCEPT !.state = "failed"]
  <2>1. /\ c \in Calls /\ http[c].phase = "signIn" /\ http'[c].phase = "failed"
        /\ http'[c].request = http[c].request /\ http'[c].data = {}
    BY <1>1 DEF waiting, noToken
  <2>2. /\ call[c] = [state |-> "sent", request |-> http[c].request, data |-> {}]
        /\ call'[c] = [state |-> "failed", request |-> http[c].request, data |-> {}]
        /\ call[c].state = "sent"
    BY <2>1, AllSeen DEF Seen, Unanswered
  <2> QED
    BY <2>2, StateChanges
<1>4. ASSUME NEW c \in Calls, c \notin waiting(tab) PROVE call'[c] = call[c]
  BY <1>1, <1>4 DEF call, callOf
<1>5. call' = [c \in Calls |-> IF c \in waiting(tab)
                               THEN [call[c] EXCEPT !.state = "failed"] ELSE call[c]]
  BY <1>2, <1>3, <1>4, AllSeen
<1>6. CASE waiting(tab) = {}
  BY <1>1, <1>4, <1>6, AllSeen DEF Api!callVars
<1>7. CASE waiting(tab) # {}
  BY <1>1, <1>3, <1>5, <1>7 DEF Api!Fail
<1> QED
  BY <1>6, <1>7

(* Expiry is not seen; a late request is executed as ApiCalls has it.        *)
LEMMA OutsideSeen ==
  ASSUME IInv, IInv',
         \/ \E t \in 1 .. issued : Expire(t)
         \/ \E q \in late : ExecuteLate(q)
         \/ UNCHANGED vars
  PROVE  (\E q \in late : Api!ExecuteLate(q)) \/ UNCHANGED Api!callVars
<1>1. http' = http
  BY DEF Expire, ExecuteLate, vars
<1>2. call' = call
  BY <1>1 DEF call, callOf
<1> QED
  BY <1>2 DEF Expire, ExecuteLate, vars, Api!ExecuteLate, Api!callVars

(* The client's first state is ApiCalls'.                                    *)
LEMMA InitSeen == Init => Api!CallsInit
<1> SUFFICES ASSUME Init PROVE Api!CallsInit
  OBVIOUS
<1>1. \A c \in Calls : call[c] = [state |-> "idle", request |-> NoRequest, data |-> {}]
  BY DEF Init, NotCalled, noToken, call, callOf
<1>2. call = [c \in Calls |-> [state |-> "idle", request |-> NoRequest, data |-> {}]]
  BY <1>1 DEF call
<1> QED
  BY <1>2 DEF Init, Api!CallsInit, Api!Idle

(* Every step of the client is one of ApiCalls, or is not seen.              *)
LEMMA StepSeen == IInv /\ IInv' /\ [Next]_vars => [Api!CallsNext]_(Api!callVars)
<1> SUFFICES ASSUME IInv, IInv', [Next]_vars PROVE [Api!CallsNext]_(Api!callVars)
  OBVIOUS
<1>1. ASSUME NEW c \in Calls, NEW q \in RequestsOf[c], Start(c, q)
      PROVE  Api!CallsNext
  <2>1. q \in Requests
    BY ClientAssumption
  <2> QED
    BY <1>1, <2>1, StartSends DEF Api!CallsNext
<1>2. ASSUME NEW c \in Calls, Unauthorized(c) \/ RetryOnce(c) PROVE UNCHANGED Api!callVars
  <2>1. UNCHANGED <<records, late>>
    BY <1>2 DEF Unauthorized, RetryOnce
  <2> QED
    BY <1>2, <2>1, SessionSteps
<1>3. ASSUME NEW c \in Calls, SessionExpired(c) PROVE Api!CallsNext
  BY <1>3, SessionExpiredFails DEF Api!CallsNext
<1>4. ASSUME NEW c \in Calls, Read(c) PROVE Api!CallsNext
  BY <1>4, ReadReads DEF Api!CallsNext, Api!Served
<1>5. ASSUME NEW c \in Calls, Post(c) PROVE Api!CallsNext
  BY <1>5, PostPosts DEF Api!CallsNext, Api!Served
<1>6. ASSUME NEW c \in Calls, NoAnswer(c) PROVE Api!CallsNext
  BY <1>6, NoAnswerFails DEF Api!CallsNext, Api!Served
<1>7. ASSUME NEW c \in Calls, GatewayTimeout(c) PROVE Api!CallsNext
  BY <1>7, TimeoutGivesUp DEF Api!CallsNext, Api!Served
<1>8. ASSUME NEW tab \in Tabs, Issue(tab) \/ SignedIn(tab) PROVE UNCHANGED Api!callVars
  BY <1>8, SignInSeen
<1>9. ASSUME NEW tab \in Tabs, SignInFails(tab) PROVE [Api!CallsNext]_(Api!callVars)
  <2>1. waiting(tab) \in SUBSET Calls
    BY DEF waiting
  <2> QED
    BY <1>9, <2>1, SignInFailsSeen DEF Api!CallsNext
<1>10. CASE \/ \E t \in 1 .. issued : Expire(t)
            \/ \E q \in late : ExecuteLate(q)
            \/ UNCHANGED vars
  BY <1>10, OutsideSeen DEF Api!CallsNext
<1> QED
  BY <1>1, <1>2, <1>3, <1>4, <1>5, <1>6, <1>7, <1>8, <1>9, <1>10 DEF Next, Terminating

(* api() with its tokens, sign-ins and second attempts implements ApiCalls *)
(* for any calls, tabs and requests: a POST is executed at most once per   *)
(* call, never after its answer, and what fails is not known to be undone. *)
THEOREM Refinement == Spec => ImplementsApiCalls
<1>1. IInv /\ IInv' /\ [Next]_vars => [Api!CallsNext]_(Api!callVars)
  BY StepSeen
<1> QED
  BY <1>1, InitSeen, Invariance, PTL DEF Spec, ImplementsApiCalls, Api!CallsSpec
================================================================================
