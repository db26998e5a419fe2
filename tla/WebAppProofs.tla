----------------------------- MODULE WebAppProofs -----------------------------
(***************************************************************************)
(* Proofs that, whatever the user does and however many calls fail, lose   *)
(* their answers or are executed late, every intent is recorded once, a    *)
(* retry is never refused for what it did itself, and what is announced as *)
(* saved is stored.                                                        *)
(*                                                                         *)
(* The inductive invariant says of every key in use what it is used for:   *)
(* claims are the uses of keys on the pages, under way, and recorded, and  *)
(* two claims with one key or one intent are the same claim.               *)
(*                                                                         *)
(* Then the lists: what is on the screen shows all that was announced as   *)
(* saved, because the latest request of every list is still under way or   *)
(* was answered after that.  Last the types.                               *)
(***************************************************************************)
EXTENDS WebApp, FiniteSetTheorems, WellFoundedInduction, TLAPS

(* What a key is used for; an entry's body may change under its key.       *)
Claim(path, key, intent, what) ==
  [path |-> path, key |-> key, intent |-> intent,
   body |-> IF path = "transactions" THEN <<>> ELSE what]
claimOf(q) == Claim(q.path, q.key, q.intent, q.body)

sentClaims     == {claimOf(q) : q \in posts}
formClaims     == {Claim(f, form[f].key, form[f].intent, body(f)) :
                     f \in {g \in Forms : form[g].key # NoKey}}
entryClaims    == {Claim("transactions", k, tx.intent, <<>>) : k \in {tx.key} \ {NoKey}}
reversalClaims == {Claim("reversals", tx.reversals[e].key, tx.reversals[e].intent, <<e>>) :
                     e \in {d \in 1 .. MaxKeys : tx.reversals[d].key # NoKey}}
draftClaims    == {Claim("transactions", k, ai.intent, <<>>) : k \in {ai.key} \ {NoKey}}
heldClaims     == formClaims \cup entryClaims \cup reversalClaims \cup draftClaims
claims         == sentClaims \cup heldClaims

ClaimsOK ==
  /\ minted \in Nat /\ intents \in Nat /\ minted <= MaxKeys
  /\ \A x \in claims : x.key \in 1 .. minted /\ x.intent \in 1 .. intents
  /\ \A x, y \in claims : x.key = y.key \/ x.intent = y.intent => x = y

(* The variables are functions and records.                                *)
CallShape ==
  call = [c \in Calls |-> [state |-> call[c].state, request |-> call[c].request,
                           data |-> call[c].data]]
HookShape ==
  hook = [l \in Lists |-> [data |-> hook[l].data, loading |-> hook[l].loading,
                           error |-> hook[l].error, latest |-> hook[l].latest]]
FormShape ==
  form = [f \in Forms |-> [content |-> form[f].content, key |-> form[f].key,
                           intent |-> form[f].intent, phase |-> form[f].phase,
                           call |-> form[f].call]]
TxShape ==
  /\ DOMAIN tx = {"choice", "key", "intent", "dialog", "posting", "reversals"}
  /\ tx.reversals = [e \in 1 .. MaxKeys |-> tx.reversals[e]]
AiShape ==
  DOMAIN ai = {"text", "source", "amount", "key", "intent", "drafting", "from", "saving",
               "message"}
isPost(q) == q = Post(q.path, q.key, q.body, q.intent) /\ q.key # NoKey

PostsOK == \A q \in posts : isPost(q)

RecordsUnique == \A r, s \in records : r.path = s.path /\ r.key = s.key => r = s

(* An answer stays true: what was stored is stored, what was refused would *)
(* be refused again.                                                       *)
AnswersStand ==
  \A c \in Calls :
    /\ call[c].state = "ok" /\ call[c].request.key # NoKey => call[c].request \in records
    /\ call[c].state = "conflict" => /\ call[c].request.key # NoKey
                                     /\ ~replays(call[c].request) /\ ~acceptable(call[c].request)

(* Lists show records only.                                                *)
HookOK == HookShape /\ \A l \in Lists : hook[l].data # NoData => hook[l].data \subseteq records

CallsOK == CallShape /\ PostsOK /\ RecordsUnique /\ AnswersStand
           /\ \A c \in Calls : call[c].data \subseteq records

(* Who awaits the answer to a POST awaits his own.                         *)
awaitsPost(c) == c \in Calls /\ call[c].state # "idle" /\ call[c].request.key # NoKey
HandlersOK ==
  /\ \A f \in Forms : form[f].phase = "posting" => page = f /\ awaitsPost(form[f].call)
  /\ tx.posting # NoCall => page = "transactions" /\ awaitsPost(tx.posting)
  /\ ai.saving # NoCall => page = "ai" /\ awaitsPost(ai.saving)
  /\ ai.drafting # NoCall =>
       /\ page = "ai" /\ ai.drafting \in Calls /\ call[ai.drafting].state # "idle"
       /\ call[ai.drafting].request = [path |-> "drafts", key |-> NoKey, body |-> <<>>, intent |-> 0]
  /\ tx.dialog.kind # "none" => page = "transactions"
  /\ ai.source # NoText => page = "ai"

(* Without a key there is no intent yet, and a dialog reverses an entry.   *)
HoldersOK ==
  /\ \A f \in Forms : form[f].key = NoKey => form[f].intent = 0
  /\ tx.key = NoKey => tx.intent = 0
  /\ \A e \in 1 .. MaxKeys : tx.reversals[e].key = NoKey => tx.reversals[e].intent = 0
  /\ ai.drafting # NoCall => ai.source = NoText
  /\ ai.key = NoKey /\ (hasDraft \/ ai.drafting # NoCall) => ai.intent = 0
  /\ tx.dialog.kind = "reversal" =>
       tx.dialog.body = <<tx.dialog.body[1]>> /\ tx.dialog.body[1] \in 1 .. MaxKeys

PagesOK == FormShape /\ TxShape /\ AiShape /\ HandlersOK /\ HoldersOK

IInv == ClaimsOK /\ CallsOK /\ HookOK /\ PagesOK /\ ToldIsRecorded
--------------------------------------------------------------------------------
(* The calls under way stay so.                                            *)
UnderWay(d) == call'[d].state # "idle" /\ call'[d].request = call[d].request
CallsGoOn   == \A d \in Calls : call[d].state # "idle" => UnderWay(d)
OthersGoOn(c) == \A d \in Calls \ {c} : call[d].state # "idle" => UnderWay(d)

(* Two posts under one key, or with one intent, to one path agree in all   *)
(* but, for an entry, the body.                                            *)
LEMMA SameClaim ==
  ASSUME ClaimsOK, NEW q \in posts, NEW r \in posts,
         q.key = r.key \/ q.intent = r.intent
  PROVE  /\ q.key = r.key /\ q.intent = r.intent /\ q.path = r.path
         /\ q.path # "transactions" => q.body = r.body
<1>1. claimOf(q) \in claims /\ claimOf(r) \in claims
  BY DEF claims, sentClaims
<1>2. claimOf(q) = claimOf(r)
  BY <1>1 DEF ClaimsOK, claimOf, Claim
<1> QED
  BY <1>2 DEF claimOf, Claim

(* A post that is sent is one more call under way.                         *)
LEMMA SendPosts ==
  ASSUME CallsOK, NEW c, NEW q, Send(c, q), q.key # NoKey, isPost(q)
  PROVE  CallsOK' /\ posts' \subseteq posts \cup {q} /\ CallsGoOn
<1>1. \A d \in Calls : call'[d] = IF d = c THEN sent(q) ELSE call[d]
  BY DEF Send, CallsOK, CallShape
<1>2. posts' \subseteq posts \cup {q}
  BY <1>1 DEF posts, Send, sent
<1>3. CallShape'
  BY <1>1 DEF CallsOK, CallShape, Send, sent
<1>4. AnswersStand'
  BY <1>1 DEF CallsOK, AnswersStand, Send, sent, replays, acceptable, sameKey
<1>5. \A d \in Calls : call'[d].data \subseteq records'
  BY <1>1 DEF CallsOK, Send, sent
<1>9. CallsGoOn
  BY <1>1 DEF CallsGoOn, UnderWay, Send
<1> QED
  BY <1>9, <1>2, <1>3, <1>4, <1>5 DEF CallsOK, PostsOK, RecordsUnique, Send

(* A call that sends no post.                                              *)
LEMMA SendReads ==
  ASSUME CallsOK, NEW c, NEW q, Send(c, q), q.key = NoKey
  PROVE  CallsOK' /\ posts' \subseteq posts /\ CallsGoOn
<1>1. \A d \in Calls : call'[d] = IF d = c THEN sent(q) ELSE call[d]
  BY DEF Send, CallsOK, CallShape
<1>2. posts' \subseteq posts
  BY <1>1 DEF posts, Send, sent
<1>3. CallShape'
  BY <1>1 DEF CallsOK, CallShape, Send, sent
<1>4. AnswersStand'
  BY <1>1 DEF CallsOK, AnswersStand, Send, sent, replays, acceptable, sameKey
<1>5. \A d \in Calls : call'[d].data \subseteq records'
  BY <1>1 DEF CallsOK, Send, sent
<1>9. CallsGoOn
  BY <1>1 DEF CallsGoOn, UnderWay, Send
<1> QED
  BY <1>9, <1>2, <1>3, <1>4, <1>5 DEF CallsOK, PostsOK, RecordsUnique, Send

(* An answer to a read has rows of what is recorded.                       *)
LEMMA ReadKeeps ==
  ASSUME CallsOK, NEW c \in Calls, Read(c)
  PROVE  CallsOK' /\ posts' \subseteq posts /\ records' = records /\ CallsGoOn
<1> DEFINE rows == IF call[c].request.path \in Lists THEN contents(call[c].request.path) ELSE {}
<1>1. \A d \in Calls : call'[d] = IF d = c THEN [state |-> "ok", request |-> call[c].request,
                                                 data |-> rows] ELSE call[d]
  BY DEF Read, CallsOK, CallShape
<1>2. rows \subseteq records
  BY DEF contents
<1> HIDE DEF rows
<1>3. posts' \subseteq posts
  BY <1>1 DEF posts, Read
<1>4. CallShape'
  BY <1>1 DEF CallsOK, CallShape, Read
<1>5. AnswersStand'
  BY <1>1 DEF CallsOK, AnswersStand, Read, replays, acceptable, sameKey
<1>6. \A d \in Calls : call'[d].data \subseteq records'
  BY <1>1, <1>2 DEF CallsOK, Read
<1>9. CallsGoOn
  BY <1>1 DEF CallsGoOn, UnderWay, Read
<1> QED
  BY <1>9, <1>3, <1>4, <1>5, <1>6 DEF CallsOK, PostsOK, RecordsUnique, Read

(* A post that can be stored now: storing it keeps every other answer.     *)
LEMMA StoreKeeps ==
  ASSUME CallsOK, NEW q \in posts, acceptable(q), records' = records \cup {q}
  PROVE  /\ RecordsUnique'
         /\ \A p : ~replays(p) /\ ~acceptable(p) => ~replays(p)' /\ ~acceptable(p)'
<1>1. RecordsUnique'
  BY DEF CallsOK, RecordsUnique, acceptable, sameKey
<1>2. ASSUME NEW p, ~replays(p), ~acceptable(p)
      PROVE  ~replays(p)' /\ ~acceptable(p)'
  <2>1. ~acceptable(p)'
    BY <1>2 DEF acceptable, sameKey
  <2>2. ~replays(p)'
    BY <1>2 DEF replays, acceptable, sameKey
  <2> QED
    BY <2>1, <2>2
<1> QED
  BY <1>1, <1>2

(* A post accepted, or replayed, is recorded as it was sent.               *)
LEMMA AcceptKeeps ==
  ASSUME CallsOK, ClaimsOK, NEW c \in Calls, Accept(c)
  PROVE  CallsOK' /\ posts' \subseteq posts /\ records \subseteq records' /\ CallsGoOn
<1> DEFINE q == call[c].request
<1>1. \A d \in Calls : call'[d] = IF d = c THEN [state |-> "ok", request |-> q,
                                                 data |-> call[c].data] ELSE call[d]
  BY DEF Accept, CallsOK, CallShape
<1>2. q \in posts
  BY DEF Accept, posts
<1>3. posts' \subseteq posts /\ records \subseteq records' /\ records' \subseteq records \cup {q}
  BY <1>1, <1>2 DEF posts, Accept
<1>4. CallShape'
  BY <1>1 DEF CallsOK, CallShape, Accept
<1>5. q \in records'
  <2>1. CASE ~replays(q)
    BY <2>1 DEF Accept
  <2>2. CASE replays(q)
    <3>1. PICK r \in records : r.path = q.path /\ r.key = q.key /\ r.body = q.body
      BY <2>2 DEF replays, sameKey
    <3>2. r \in posts
      BY DEF posts
    <3>3. r.intent = q.intent
      BY <1>2, <3>1, <3>2, SameClaim
    <3> QED
      BY <1>2, <2>2, <3>1, <3>2, <3>3 DEF CallsOK, PostsOK, isPost, Post, Accept
  <2> QED
    BY <2>1, <2>2
<1>6. /\ RecordsUnique'
      /\ \A p : ~replays(p) /\ ~acceptable(p) => ~replays(p)' /\ ~acceptable(p)'
  <2>1. CASE replays(q)
    BY <2>1 DEF Accept, CallsOK, RecordsUnique, replays, acceptable, sameKey
  <2>2. CASE ~replays(q)
    BY <1>2, <2>2, StoreKeeps DEF Accept
  <2> QED
    BY <2>1, <2>2
<1>7. AnswersStand'
  BY <1>1, <1>3, <1>5, <1>6 DEF CallsOK, AnswersStand
<1>8. \A d \in Calls : call'[d].data \subseteq records'
  BY <1>1, <1>3 DEF CallsOK
<1>9. CallsGoOn
  BY <1>1 DEF CallsGoOn, UnderWay, Accept
<1> QED
  BY <1>9, <1>3, <1>4, <1>6, <1>7, <1>8 DEF CallsOK, PostsOK

(* A refusal stands: nothing is recorded that it did not meet.             *)
LEMMA RefuseKeeps ==
  ASSUME CallsOK, NEW c \in Calls, Refuse(c)
  PROVE  CallsOK' /\ posts' \subseteq posts /\ records' = records /\ CallsGoOn
<1>1. \A d \in Calls : call'[d] = IF d = c THEN [state |-> "conflict", request |-> call[c].request,
                                                 data |-> call[c].data] ELSE call[d]
  BY DEF Refuse, CallsOK, CallShape
<1>2. posts' \subseteq posts
  BY <1>1 DEF posts, Refuse
<1>3. CallShape'
  BY <1>1 DEF CallsOK, CallShape, Refuse
<1>4. AnswersStand'
  BY <1>1 DEF CallsOK, AnswersStand, Refuse, replays, acceptable, sameKey
<1>5. \A d \in Calls : call'[d].data \subseteq records'
  BY <1>1 DEF CallsOK, Refuse
<1>9. CallsGoOn
  BY <1>1 DEF CallsGoOn, UnderWay, Refuse
<1> QED
  BY <1>9, <1>2, <1>3, <1>4, <1>5 DEF CallsOK, PostsOK, RecordsUnique, Refuse

(* An answer that is lost takes no record with it.                         *)
LEMMA LoseAnswerKeeps ==
  ASSUME CallsOK, NEW c \in Calls, LoseAnswer(c)
  PROVE  CallsOK' /\ posts' \subseteq posts /\ records' = records /\ CallsGoOn
<1>1. \A d \in Calls : call'[d] = IF d = c THEN [state |-> "failed", request |-> call[c].request,
                                                 data |-> {}] ELSE call[d]
  BY DEF LoseAnswer, CallsOK, CallShape
<1>2. posts' \subseteq posts
  BY <1>1 DEF posts, LoseAnswer
<1>3. CallShape'
  BY <1>1 DEF CallsOK, CallShape, LoseAnswer
<1>4. AnswersStand'
  BY <1>1 DEF CallsOK, AnswersStand, LoseAnswer, replays, acceptable, sameKey
<1>5. \A d \in Calls : call'[d].data \subseteq records'
  BY <1>1 DEF CallsOK, LoseAnswer
<1>9. CallsGoOn
  BY <1>1 DEF CallsGoOn, UnderWay, LoseAnswer
<1> QED
  BY <1>9, <1>2, <1>3, <1>4, <1>5 DEF CallsOK, PostsOK, RecordsUnique, LoseAnswer

(* A call that is given up leaves its request on the way.                  *)
LEMMA GiveUpKeeps ==
  ASSUME CallsOK, NEW c \in Calls, GiveUp(c)
  PROVE  CallsOK' /\ posts' \subseteq posts /\ records' = records /\ CallsGoOn
<1>1. \A d \in Calls : call'[d] = IF d = c THEN [state |-> "failed", request |-> call[c].request,
                                                 data |-> call[c].data] ELSE call[d]
  BY DEF GiveUp, CallsOK, CallShape
<1>2. posts' \subseteq posts
  BY <1>1 DEF posts, GiveUp
<1>3. CallShape'
  BY <1>1 DEF CallsOK, CallShape, GiveUp
<1>4. AnswersStand'
  BY <1>1 DEF CallsOK, AnswersStand, GiveUp, replays, acceptable, sameKey
<1>5. \A d \in Calls : call'[d].data \subseteq records'
  BY <1>1 DEF CallsOK, GiveUp
<1>9. CallsGoOn
  BY <1>1 DEF CallsGoOn, UnderWay, GiveUp
<1> QED
  BY <1>9, <1>2, <1>3, <1>4, <1>5 DEF CallsOK, PostsOK, RecordsUnique, GiveUp

(* Calls that never reach a service change no record.                      *)
LEMMA FailKeeps ==
  ASSUME CallsOK, NEW S, Fail(S)
  PROVE  CallsOK' /\ posts' \subseteq posts /\ records' = records /\ CallsGoOn
<1>1. \A d \in Calls : call'[d] = IF d \in S THEN [state |-> "failed", request |-> call[d].request,
                                                   data |-> call[d].data] ELSE call[d]
  BY DEF Fail, CallsOK, CallShape
<1>2. posts' \subseteq posts
  BY <1>1 DEF posts, Fail
<1>3. CallShape'
  BY <1>1 DEF CallsOK, CallShape, Fail
<1>4. AnswersStand'
  BY <1>1 DEF CallsOK, AnswersStand, Fail, replays, acceptable, sameKey
<1>5. \A d \in Calls : call'[d].data \subseteq records'
  BY <1>1 DEF CallsOK, Fail
<1>9. CallsGoOn
  BY <1>1 DEF CallsGoOn, UnderWay, Fail
<1> QED
  BY <1>9, <1>2, <1>3, <1>4, <1>5 DEF CallsOK, PostsOK, RecordsUnique, Fail

(* A request executed late cannot contradict an answer given.              *)
LEMMA ExecuteLateKeeps ==
  ASSUME CallsOK, NEW q, ExecuteLate(q)
  PROVE  CallsOK' /\ posts' \subseteq posts /\ records \subseteq records' /\ call' = call
<1>1. q \in posts /\ posts' \subseteq posts /\ records \subseteq records'
  BY DEF ExecuteLate, posts
<1>2. /\ RecordsUnique'
      /\ \A p : ~replays(p) /\ ~acceptable(p) => ~replays(p)' /\ ~acceptable(p)'
  <2>1. CASE acceptable(q)
    BY <1>1, <2>1, StoreKeeps DEF ExecuteLate
  <2>2. CASE ~acceptable(q)
    BY <2>2 DEF ExecuteLate, CallsOK, RecordsUnique, replays, acceptable, sameKey
  <2> QED
    BY <2>1, <2>2
<1>3. AnswersStand'
  BY <1>1, <1>2 DEF ExecuteLate, CallsOK, AnswersStand
<1> QED
  BY <1>1, <1>2, <1>3 DEF ExecuteLate, CallsOK, CallShape, PostsOK

(* Calls that are over, and one that may take the place of another.        *)
LEMMA ReturnKeeps ==
  ASSUME CallsOK, NEW c, NEW d, NEW list,
         UNCHANGED <<records, late>>,
         \/ call' = [call EXCEPT ![c] = Idle]
         \/ call' = [call EXCEPT ![c] = Idle, ![d] = sent(listRequest(list))]
  PROVE  CallsOK' /\ posts' \subseteq posts
<1>1. \A b \in Calls : call'[b] \in {call[b], Idle, sent(listRequest(list))}
  BY DEF CallsOK, CallShape
<1>2. posts' \subseteq posts
  BY <1>1 DEF posts, Idle, sent, listRequest
<1>3. CallShape'
  BY <1>1 DEF CallsOK, CallShape, Idle, sent
<1>4. AnswersStand'
  BY <1>1 DEF CallsOK, AnswersStand, Idle, sent, replays, acceptable, sameKey
<1>5. \A b \in Calls : call'[b].data \subseteq records'
  BY <1>1 DEF CallsOK, Idle, sent
<1> QED
  BY <1>2, <1>3, <1>4, <1>5 DEF CallsOK, PostsOK, RecordsUnique

(* Leaving a page sends reads only, and forgets no request on its way.     *)
LEMMA LeaveKeeps ==
  ASSUME CallsOK, NEW p, Leave(p)
  PROVE  CallsOK' /\ posts' \subseteq posts
<1>1. \A b \in Calls : \/ call'[b] = Idle
                       \/ \E list : call'[b] = sent(listRequest(list))
  BY DEF Leave, loading
<1>a. \A b \in Calls : /\ call'[b].state \in {"idle", "sent"} /\ call'[b].data = {}
                       /\ call'[b].state = "idle" \/ call'[b].request.key = NoKey
  <2>1. \A list : /\ sent(listRequest(list)).state = "sent" /\ sent(listRequest(list)).data = {}
                  /\ sent(listRequest(list)).request.key = NoKey
    BY DEF sent, listRequest
  <2>2. Idle.state = "idle" /\ Idle.data = {}
    BY DEF Idle
  <2> QED
    BY <1>1, <2>1, <2>2
<1>2. posts' \subseteq posts
  BY <1>a DEF posts, Leave
<1>3. CallShape'
  BY <1>1 DEF CallShape, Leave, loading, Idle, sent
<1>4. AnswersStand'
  BY <1>a DEF AnswersStand
<1>5. \A b \in Calls : call'[b].data \subseteq records'
  BY <1>a
<1> QED
  BY <1>2, <1>3, <1>4, <1>5 DEF CallsOK, PostsOK, RecordsUnique, Leave
--------------------------------------------------------------------------------
(* No use of a key is added.                                               *)
LEMMA ClaimsShrink ==
  ASSUME ClaimsOK, claims' \subseteq claims, UNCHANGED <<minted, intents>>
  PROVE  ClaimsOK'
BY DEF ClaimsOK

(* One use is added, under the key its holder has or under a new one.      *)
LEMMA ClaimsGrow ==
  ASSUME ClaimsOK, NEW p, NEW k, NEW i, NEW b, mint(k, i),
         k # NoKey => Claim(p, k, i, b) \in claims,
         k = NoKey => i = 0,
         claims' \subseteq claims \cup {Claim(p, keyOf(k), intentOf(i), b)}
  PROVE  ClaimsOK'
<1>1. CASE k # NoKey
  <2>1. i # 0
    BY <1>1 DEF ClaimsOK, Claim
  <2>2. keyOf(k) = k /\ intentOf(i) = i /\ UNCHANGED <<minted, intents>>
    BY <1>1, <2>1 DEF keyOf, intentOf, mint
  <2> QED
    BY <1>1, <2>2, ClaimsShrink
<1>2. CASE k = NoKey
  <2>1. keyOf(k) = minted + 1 /\ intentOf(i) = intents + 1
    BY <1>2 DEF keyOf, intentOf
  <2>2. minted' = minted + 1 /\ intents' = intents + 1 /\ minted < MaxKeys
    BY <1>2 DEF mint, mayMint
  <2>3. MaxKeys \in Nat
    BY WebAssumption
  <2> DEFINE n == Claim(p, minted + 1, intents + 1, b)
  <2>4. n.key = minted + 1 /\ n.intent = intents + 1
    BY DEF Claim
  <2> HIDE DEF n
  <2>5. \A x \in claims' : x \in claims \/ x = n
    BY <2>1 DEF n
  <2>6. \A x \in claims : x.key \in 1 .. minted /\ x.intent \in 1 .. intents
    BY DEF ClaimsOK
  <2>7. minted \in Nat /\ intents \in Nat
    BY DEF ClaimsOK
  <2>8. \A x \in claims' : x.key \in 1 .. minted' /\ x.intent \in 1 .. intents'
    BY <2>2, <2>4, <2>5, <2>6, <2>7
  <2>9. \A x, y \in claims' : x.key = y.key \/ x.intent = y.intent => x = y
    BY <2>4, <2>5, <2>6, <2>7 DEF ClaimsOK
  <2> QED
    BY <2>2, <2>3, <2>7, <2>8, <2>9 DEF ClaimsOK
<1> QED
  BY <1>1, <1>2

(* The key of a post has been minted.                                      *)
LEMMA KeyMinted ==
  ASSUME ClaimsOK, NEW k
  PROVE  k = NoKey => keyOf(k) # NoKey
BY DEF ClaimsOK, keyOf, NoKey

(* What the pages hold does not change when they do not.                   *)
LEMMA HeldSame ==
  ASSUME UNCHANGED <<form, tx, ai>>
  PROVE  heldClaims' = heldClaims
BY DEF heldClaims, formClaims, entryClaims, reversalClaims, draftClaims, body

(* No request, no use of a key.                                            *)
LEMMA SentSame ==
  ASSUME posts' \subseteq posts
  PROVE  sentClaims' \subseteq sentClaims
BY DEF sentClaims

(* A request uses the key it carries.                                      *)
LEMMA SentGrows ==
  ASSUME NEW p, NEW k, NEW i, NEW b, posts' \subseteq posts \cup {Post(p, k, b, i)}
  PROVE  sentClaims' \subseteq sentClaims \cup {Claim(p, k, i, b)}
BY DEF sentClaims, claimOf, Post

(* Who awaits an answer still does while the pages stay as they are.       *)
LEMMA PagesWait ==
  ASSUME PagesOK, UNCHANGED <<page, form, tx, ai>>, CallsGoOn
  PROVE  PagesOK'
<1>1. HandlersOK'
  BY DEF PagesOK, HandlersOK, awaitsPost, CallsGoOn, UnderWay
<1> QED
  BY <1>1 DEF PagesOK, FormShape, TxShape, AiShape, HoldersOK, hasDraft

(* What was told stays recorded, what lists show stays recorded.           *)
LEMMA RecordsStay ==
  ASSUME HookOK, ToldIsRecorded, UNCHANGED <<hook, told>>, records \subseteq records'
  PROVE  HookOK' /\ ToldIsRecorded'
BY DEF HookOK, HookShape, ToldIsRecorded

(* A list that is loaded anew keeps what it shows.                         *)
LEMMA RefreshKeeps ==
  ASSUME HookOK, NEW list, NEW c, hook' = refreshed(list, c), UNCHANGED records
  PROVE  HookOK'
<1>1. \A l \in Lists : l # list => hook'[l] = hook[l]
  BY DEF HookOK, HookShape, refreshed
<1>2. list \in Lists =>
        hook'[list] = [data |-> hook[list].data, loading |-> TRUE, error |-> FALSE, latest |-> c]
  BY DEF HookOK, HookShape, refreshed
<1>3. HookShape'
  BY <1>1, <1>2 DEF HookOK, HookShape, refreshed
<1>4. \A l \in Lists : hook'[l].data = hook[l].data
  BY <1>1, <1>2
<1> QED
  BY <1>3, <1>4 DEF HookOK

(* The call taken for a request is idle.                                   *)
LEMMA FreeCall ==
  ASSUME idleCalls # {}
  PROVE  freeCall \in Calls /\ call[freeCall].state = "idle"
BY DEF freeCall, idleCalls
--------------------------------------------------------------------------------
(* The services.                                                           *)
LEMMA ServiceStep ==
  ASSUME IInv, Service
  PROVE  IInv'
<1>1. CallsOK' /\ posts' \subseteq posts /\ records \subseteq records' /\ CallsGoOn
  <2>1. PICK c \in Calls : Read(c) \/ Served(c) \/ Fail({c})
    BY DEF Service
  <2> QED
    BY <2>1, ReadKeeps, AcceptKeeps, RefuseKeeps, LoseAnswerKeeps, GiveUpKeeps, FailKeeps
       DEF Served, IInv
<1>2. UNCHANGED <<hook, page, visits, minted, intents, told, form, tx, ai>>
  BY DEF Service, pageVars
<1>3. claims' \subseteq claims
  BY <1>1, <1>2, HeldSame, SentSame DEF claims
<1> QED
  BY <1>1, <1>2, <1>3, ClaimsShrink, PagesWait, RecordsStay DEF IInv

(* A request is executed after its caller has given up.                    *)
LEMMA ServiceLateStep ==
  ASSUME IInv, ServiceLate
  PROVE  IInv'
<1>1. CallsOK' /\ posts' \subseteq posts /\ records \subseteq records' /\ call' = call
  BY ExecuteLateKeeps DEF ServiceLate, IInv
<1>2. UNCHANGED <<hook, page, visits, minted, intents, told, form, tx, ai>>
  BY DEF ServiceLate, pageVars
<1>3. claims' \subseteq claims
  BY <1>1, <1>2, HeldSame, SentSame DEF claims
<1>4. CallsGoOn
  BY <1>1 DEF CallsGoOn, UnderWay
<1> QED
  BY <1>1, <1>2, <1>3, <1>4, ClaimsShrink, PagesWait, RecordsStay DEF IInv
--------------------------------------------------------------------------------
(* A request is sent that stores nothing.                                  *)
LEMMA RetryLoadStep ==
  ASSUME IInv, NEW list \in Lists, RetryLoad(list), UNCHANGED <<pageVars, form, tx, ai>>
  PROVE  IInv'
<1>1. CallsOK' /\ posts' \subseteq posts /\ CallsGoOn /\ UNCHANGED records
  <2>1. listRequest(list).key = NoKey
    BY DEF listRequest
  <2> QED
    BY <2>1, SendReads DEF RetryLoad, IInv, Send
<1>2. UNCHANGED <<page, visits, minted, intents, told, form, tx, ai>>
  BY DEF pageVars
<1>3. claims' \subseteq claims
  BY <1>1, <1>2, HeldSame, SentSame DEF claims
<1>4. HookOK'
  BY <1>1, RefreshKeeps DEF RetryLoad, IInv
<1>5. ToldIsRecorded'
  BY <1>1, <1>2 DEF IInv, ToldIsRecorded
<1> QED
  BY <1>1, <1>2, <1>3, <1>4, <1>5, ClaimsShrink, PagesWait DEF IInv

(* One form changes, the others use their keys as before.                  *)
LEMMA FormClaims ==
  ASSUME NEW f \in Forms, \A g \in Forms : g # f => form'[g] = form[g]
  PROVE  /\ formClaims' \subseteq formClaims \cup
                             {Claim(f, form'[f].key, form'[f].intent, <<form'[f].content>>)}
         /\ form'[f].key = NoKey => formClaims' \subseteq formClaims
BY DEF formClaims, body

(* One form takes a new value, the others keep theirs.                     *)
LEMMA FormSet ==
  ASSUME FormShape, NEW f \in Forms, NEW e, form' = [form EXCEPT ![f] = e],
         e = [content |-> e.content, key |-> e.key, intent |-> e.intent,
              phase |-> e.phase, call |-> e.call]
  PROVE  FormShape' /\ form'[f] = e /\ \A g \in Forms : g # f => form'[g] = form[g]
<1>1. form'[f] = e /\ \A g \in Forms : g # f => form'[g] = form[g]
  BY DEF FormShape
<1>2. \A g \in Forms : form'[g] = [content |-> form'[g].content, key |-> form'[g].key,
                                   intent |-> form'[g].intent, phase |-> form'[g].phase,
                                   call |-> form'[g].call]
  BY <1>1 DEF FormShape
<1>3. form' = [g \in Forms |-> form'[g]]
  BY DEF FormShape
<1> QED
  BY <1>1, <1>2, <1>3 DEF FormShape

(* A form is submitted, under the key it holds or a new one.               *)
LEMMA SubmitStep ==
  ASSUME IInv, NEW f \in Forms, Submit(f), UNCHANGED <<tx, ai>>
  PROVE  IInv'
<1>1. PICK c, key, intent, what :
        /\ c = freeCall /\ key = keyOf(form[f].key) /\ intent = intentOf(form[f].intent)
        /\ what = body(f)
  OBVIOUS
<1>2. /\ HandlersOK /\ HoldersOK /\ FormShape /\ TxShape /\ AiShape
      /\ CallsOK /\ ClaimsOK /\ HookOK /\ ToldIsRecorded
  BY DEF IInv, PagesOK
<1>3. /\ page = f /\ c \in Calls /\ mint(form[f].key, form[f].intent)
      /\ Send(c, Post(f, key, what, intent))
      /\ form' = [form EXCEPT ![f] = [content |-> form[f].content, key |-> key,
                                      intent |-> intent, phase |-> "posting", call |-> c]]
      /\ UNCHANGED <<hook, page, visits, told>>
  BY <1>1, FreeCall DEF Submit
<1>4. key # NoKey
  BY <1>1, <1>2, KeyMinted DEF keyOf
<1>5. CallsOK' /\ posts' \subseteq posts \cup {Post(f, key, what, intent)} /\ CallsGoOn
  <2>1. isPost(Post(f, key, what, intent)) /\ Post(f, key, what, intent).key # NoKey
    BY <1>4 DEF isPost, Post
  <2> QED
    BY <1>2, <1>3, <2>1, SendPosts
<1>6. /\ FormShape'
      /\ form'[f] = [content |-> form[f].content, key |-> key, intent |-> intent,
                     phase |-> "posting", call |-> c]
      /\ \A g \in Forms : g # f => form'[g] = form[g]
  BY <1>2, <1>3, FormSet
<1>7. ClaimsOK'
  <2>1. formClaims' \subseteq formClaims \cup {Claim(f, key, intent, what)}
    BY <1>1, <1>6, FormClaims DEF body
  <2>2. claims' \subseteq claims \cup {Claim(f, key, intent, what)}
    BY <1>5, <2>1, SentGrows DEF claims, heldClaims, entryClaims, reversalClaims, draftClaims
  <2>3. form[f].key # NoKey => Claim(f, form[f].key, form[f].intent, what) \in claims
    BY <1>1 DEF claims, heldClaims, formClaims
  <2>4. form[f].key = NoKey => form[f].intent = 0
    BY <1>2 DEF HoldersOK
  <2> QED
    BY <1>1, <1>2, <1>3, <2>2, <2>3, <2>4, ClaimsGrow
<1>8. HandlersOK'
  <2>1. call'[c] = sent(Post(f, key, what, intent))
    BY <1>2, <1>3 DEF Send, CallsOK, CallShape
  <2>2. awaitsPost(c)'
    BY <1>3, <1>4, <2>1 DEF sent, Post, awaitsPost
  <2>3. \A g \in Forms : form[g].phase = "posting" => g = f
    BY <1>2, <1>3 DEF HandlersOK
  <2>4. /\ tx.posting = NoCall /\ ai.saving = NoCall /\ ai.drafting = NoCall
        /\ tx.dialog.kind = "none" /\ ai.source = NoText
    BY <1>2, <1>3 DEF HandlersOK, Forms
  <2> QED
    BY <1>3, <1>6, <2>2, <2>3, <2>4 DEF HandlersOK
<1>9. HoldersOK'
  BY <1>2, <1>4, <1>6 DEF HoldersOK, hasDraft
<1>10. TxShape' /\ AiShape'
  BY <1>2 DEF TxShape, AiShape
<1>11. HookOK' /\ ToldIsRecorded'
  BY <1>2, <1>3, RecordsStay DEF Send
<1> QED
  BY <1>5, <1>6, <1>7, <1>8, <1>9, <1>10, <1>11 DEF IInv, PagesOK
--------------------------------------------------------------------------------
(* Nothing happens but on the page.                                        *)
LEMMA PageOnly ==
  ASSUME IInv, UNCHANGED <<callVars, hook, pageVars>>
  PROVE  /\ CallsOK' /\ HookOK' /\ ToldIsRecorded'
         /\ UNCHANGED <<records, call, page, minted, intents>>
         /\ \A d : awaitsPost(d) => awaitsPost(d)'
         /\ heldClaims' \subseteq heldClaims => ClaimsOK'
<1>1. UNCHANGED <<records, call, late, hook, page, minted, intents, told>>
  BY DEF callVars, pageVars
<1>2. posts' = posts
  BY <1>1 DEF posts
<1>3. CallsOK'
  BY <1>1, <1>2 DEF IInv, CallsOK, CallShape, PostsOK, RecordsUnique, AnswersStand,
                    replays, acceptable, sameKey
<1>4. HookOK' /\ ToldIsRecorded'
  BY <1>1, RecordsStay DEF IInv
<1>5. heldClaims' \subseteq heldClaims => ClaimsOK'
  BY <1>1, <1>2, SentSame, ClaimsShrink DEF IInv, claims
<1> QED
  BY <1>1, <1>3, <1>4, <1>5 DEF awaitsPost

(* A form is changed and drops its key.                                    *)
LEMMA ChangeStep ==
  ASSUME IInv, NEW f \in Forms, NEW content, Change(f, content), UNCHANGED <<tx, ai>>
  PROVE  IInv'
<1>1. HandlersOK /\ HoldersOK /\ FormShape /\ TxShape /\ AiShape
  BY DEF IInv, PagesOK
<1>2. /\ CallsOK' /\ HookOK' /\ ToldIsRecorded'
      /\ UNCHANGED <<records, call, page, minted, intents>>
      /\ \A d : awaitsPost(d) => awaitsPost(d)'
      /\ heldClaims' \subseteq heldClaims => ClaimsOK'
  BY PageOnly DEF Change
<1>3. /\ FormShape'
      /\ form'[f] = [content |-> content, key |-> NoKey, intent |-> 0,
                     phase |-> form[f].phase, call |-> form[f].call]
      /\ \A g \in Forms : g # f => form'[g] = form[g]
  BY <1>1, FormSet DEF Change
<1>4. ClaimsOK'
  <2>0. form'[f].key = NoKey
    BY <1>3
  <2>1. formClaims' \subseteq formClaims
    BY <1>3, <2>0, FormClaims
  <2> QED
    BY <1>2, <2>1 DEF heldClaims, entryClaims, reversalClaims, draftClaims
<1>5. HandlersOK'
  BY <1>1, <1>2, <1>3 DEF HandlersOK, Change
<1>6. HoldersOK' /\ TxShape' /\ AiShape'
  BY <1>1, <1>3 DEF HoldersOK, hasDraft, TxShape, AiShape
<1> QED
  BY <1>2, <1>3, <1>4, <1>5, <1>6 DEF IInv, PagesOK

(* The transactions page without its calls.                                *)
LEMMA TxKeeps ==
  ASSUME IInv, UNCHANGED <<callVars, hook, pageVars>>, UNCHANGED <<form, ai>>, TxShape',
         \/ tx'.key = tx.key /\ tx'.intent = tx.intent
         \/ tx'.key = NoKey /\ tx'.intent = 0,
         tx'.reversals = tx.reversals, tx'.posting = tx.posting,
         tx'.dialog.kind # "none" => page = "transactions",
         tx'.dialog.kind = "reversal" =>
           tx'.dialog.body = <<tx'.dialog.body[1]>> /\ tx'.dialog.body[1] \in 1 .. MaxKeys
  PROVE  IInv'
<1>1. HandlersOK /\ HoldersOK /\ FormShape /\ TxShape /\ AiShape
  BY DEF IInv, PagesOK
<1>2. /\ CallsOK' /\ HookOK' /\ ToldIsRecorded'
      /\ UNCHANGED <<records, call, page, minted, intents>>
      /\ \A d : awaitsPost(d) => awaitsPost(d)'
      /\ heldClaims' \subseteq heldClaims => ClaimsOK'
  BY PageOnly
<1>4. ClaimsOK'
  <2>1. entryClaims' \subseteq entryClaims
    BY DEF entryClaims
  <2> QED
    BY <1>2, <2>1 DEF heldClaims, formClaims, reversalClaims, draftClaims, body
<1>5. HandlersOK'
  BY <1>1, <1>2 DEF HandlersOK
<1>6. HoldersOK' /\ FormShape' /\ AiShape'
  BY <1>1 DEF HoldersOK, hasDraft, FormShape, AiShape
<1> QED
  BY <1>2, <1>4, <1>5, <1>6 DEF IInv, PagesOK

(* The entry drafted is changed and drops its key.                         *)
LEMMA ChangeDraftStep ==
  ASSUME IInv, NEW choice, ChangeDraft(choice), UNCHANGED <<form, ai>>
  PROVE  IInv'
<1>1. TxShape
  BY DEF IInv, PagesOK
<1>2. /\ tx'.key = NoKey /\ tx'.intent = 0 /\ tx'.reversals = tx.reversals
      /\ tx'.posting = tx.posting /\ tx'.dialog = tx.dialog
  BY <1>1 DEF ChangeDraft, TxShape
<1>3. TxShape'
  BY <1>1 DEF ChangeDraft, TxShape
<1>4. HoldersOK /\ HandlersOK /\ UNCHANGED <<callVars, hook, pageVars>>
  BY DEF ChangeDraft, IInv, PagesOK
<1>5. /\ tx'.dialog.kind # "none" => page = "transactions"
      /\ tx'.dialog.kind = "reversal" =>
           tx'.dialog.body = <<tx'.dialog.body[1]>> /\ tx'.dialog.body[1] \in 1 .. MaxKeys
  BY <1>2, <1>4 DEF HoldersOK, HandlersOK
<1> QED
  BY <1>2, <1>3, <1>4, <1>5, TxKeeps

(* A dialog opens or closes.                                               *)
LEMMA DialogKeeps ==
  ASSUME IInv, UNCHANGED <<callVars, hook, pageVars>>, UNCHANGED <<form, ai>>,
         NEW d, tx' = [tx EXCEPT !.dialog = d],
         d.kind # "none" => page = "transactions",
         d.kind = "reversal" => d.body = <<d.body[1]>> /\ d.body[1] \in 1 .. MaxKeys
  PROVE  IInv'
<1>1. TxShape
  BY DEF IInv, PagesOK
<1>2. /\ tx'.key = tx.key /\ tx'.intent = tx.intent /\ tx'.reversals = tx.reversals
      /\ tx'.posting = tx.posting /\ tx'.dialog = d
  BY <1>1 DEF TxShape
<1>3. TxShape'
  BY <1>1 DEF TxShape
<1> QED
  BY <1>2, <1>3, TxKeeps

(* The dialog shows the entry drafted.                                     *)
LEMMA ReviewStep ==
  ASSUME IInv, Review, UNCHANGED <<form, ai>>
  PROVE  IInv'
<1> DEFINE d == [kind |-> "entry", body |-> <<selectedCategory>>]
<1>1. /\ tx' = [tx EXCEPT !.dialog = d] /\ UNCHANGED <<callVars, hook, pageVars>>
      /\ page = "transactions"
  BY DEF Review, formEnabled
<1>2. d.kind # "reversal"
  OBVIOUS
<1> HIDE DEF d
<1> QED
  BY <1>1, <1>2, DialogKeeps

(* The dialog closes, and no key is dropped.                               *)
LEMMA CancelStep ==
  ASSUME IInv, Cancel, UNCHANGED <<form, ai>>
  PROVE  IInv'
<1>1. tx' = [tx EXCEPT !.dialog = NoDialog] /\ UNCHANGED <<callVars, hook, pageVars>>
  BY DEF Cancel
<1>2. NoDialog.kind = "none"
  BY DEF NoDialog
<1> QED
  BY <1>1, <1>2, DialogKeeps

(* A dialog reverses an entry of the list, which has a number in use.      *)
LEMMA AskReversalStep ==
  ASSUME IInv, NEW r \in loaded, AskReversal(r), UNCHANGED <<form, ai>>
  PROVE  IInv'
<1> DEFINE d == [kind |-> "reversal", body |-> <<r.key>>]
<1>2. /\ tx' = [tx EXCEPT !.dialog = d] /\ UNCHANGED <<callVars, hook, pageVars>>
      /\ page = "transactions"
  BY DEF AskReversal
<1>5. r.key \in 1 .. MaxKeys
  <2>1. r \in records
    BY DEF loaded, IInv, HookOK, Lists
  <2>2. claimOf(r) \in claims /\ claimOf(r).key = r.key
    BY <2>1 DEF claims, sentClaims, posts, claimOf, Claim
  <2> QED
    BY <2>2, WebAssumption DEF IInv, ClaimsOK
<1>6. d.body = <<d.body[1]>> /\ d.body[1] \in 1 .. MaxKeys
  BY <1>5
<1> HIDE DEF d
<1> QED
  BY <1>2, <1>6, DialogKeeps
--------------------------------------------------------------------------------
(* A post is sent, and the page holds its key.                             *)
LEMMA PostSent ==
  ASSUME IInv, NEW c \in Calls, NEW p, NEW k, NEW i, NEW what, NEW key, NEW intent,
         key = keyOf(k), intent = intentOf(i), mint(k, i),
         Send(c, Post(p, key, what, intent)),
         k # NoKey => Claim(p, k, i, what) \in heldClaims,
         k = NoKey => i = 0,
         heldClaims' \subseteq heldClaims \cup {Claim(p, key, intent, what)},
         UNCHANGED <<hook, told>>
  PROVE  /\ key # NoKey /\ ClaimsOK' /\ CallsOK' /\ HookOK' /\ ToldIsRecorded'
         /\ awaitsPost(c)' /\ CallsGoOn /\ \A d : awaitsPost(d) => awaitsPost(d)'
<1>1. CallsOK /\ ClaimsOK /\ HookOK /\ ToldIsRecorded
  BY DEF IInv
<1>2. key # NoKey
  BY <1>1, KeyMinted DEF keyOf
<1>3. CallsOK' /\ posts' \subseteq posts \cup {Post(p, key, what, intent)} /\ CallsGoOn
  <2>1. isPost(Post(p, key, what, intent)) /\ Post(p, key, what, intent).key # NoKey
    BY <1>2 DEF isPost, Post
  <2> QED
    BY <1>1, <2>1, SendPosts
<1>4. claims' \subseteq claims \cup {Claim(p, key, intent, what)}
  BY <1>3, SentGrows DEF claims
<1>5. k # NoKey => Claim(p, k, i, what) \in claims
  BY DEF claims
<1>6. ClaimsOK'
  BY <1>1, <1>4, <1>5, ClaimsGrow
<1>7. awaitsPost(c)'
  <2>1. call'[c] = sent(Post(p, key, what, intent))
    BY <1>1 DEF Send, CallsOK, CallShape
  <2> QED
    BY <1>2, <2>1 DEF sent, Post, awaitsPost
<1>8. \A d : awaitsPost(d) => awaitsPost(d)'
  BY <1>3 DEF awaitsPost, CallsGoOn, UnderWay
<1>9. HookOK' /\ ToldIsRecorded'
  BY <1>1, RecordsStay DEF Send
<1> QED
  BY <1>2, <1>3, <1>6, <1>7, <1>8, <1>9

(* The entry is posted, under the key its draft holds or a new one.        *)
LEMMA ConfirmTransactionStep ==
  ASSUME IInv, ConfirmTransaction, UNCHANGED <<form, ai>>
  PROVE  IInv'
<1>1. PICK c, key, intent, what, k, i :
        /\ c = freeCall /\ key = keyOf(k) /\ intent = intentOf(i)
        /\ what = tx.dialog.body /\ k = tx.key /\ i = tx.intent
  OBVIOUS
<1>2. HandlersOK /\ HoldersOK /\ FormShape /\ TxShape /\ AiShape
  BY DEF IInv, PagesOK
<1>3. /\ c \in Calls /\ mint(k, i) /\ Send(c, Post("transactions", key, what, intent))
      /\ tx' = [tx EXCEPT !.key = key, !.intent = intent, !.posting = c]
      /\ UNCHANGED <<hook, page, visits, told>> /\ tx.dialog.kind = "entry"
  BY <1>1, FreeCall DEF ConfirmTransaction
<1>4. /\ TxShape' /\ tx'.key = key /\ tx'.intent = intent /\ tx'.posting = c
      /\ tx'.reversals = tx.reversals /\ tx'.dialog = tx.dialog
  BY <1>2, <1>3 DEF TxShape
<1>5. heldClaims' \subseteq heldClaims \cup {Claim("transactions", key, intent, what)}
  <2>1. entryClaims' \subseteq {Claim("transactions", key, intent, what)}
    BY <1>4 DEF entryClaims, Claim
  <2>2. reversalClaims' = reversalClaims
    BY <1>4 DEF reversalClaims
  <2> QED
    BY <2>1, <2>2 DEF heldClaims, formClaims, draftClaims, body
<1>6. k # NoKey => Claim("transactions", k, i, what) \in heldClaims
  BY <1>1 DEF heldClaims, entryClaims, Claim
<1>7. k = NoKey => i = 0
  BY <1>1, <1>2 DEF HoldersOK
<1>8. /\ key # NoKey /\ ClaimsOK' /\ CallsOK' /\ HookOK' /\ ToldIsRecorded'
      /\ awaitsPost(c)' /\ CallsGoOn /\ \A d : awaitsPost(d) => awaitsPost(d)'
  BY <1>1, <1>3, <1>5, <1>6, <1>7, PostSent
<1>9. page = "transactions"
  BY <1>2, <1>3 DEF HandlersOK
<1>10. HandlersOK'
  BY <1>2, <1>3, <1>4, <1>8, <1>9 DEF HandlersOK, Forms
<1>11. HoldersOK'
  BY <1>2, <1>3, <1>4, <1>8 DEF HoldersOK, hasDraft
<1>12. FormShape' /\ AiShape'
  BY <1>2 DEF FormShape, AiShape
<1> QED
  BY <1>4, <1>8, <1>10, <1>11, <1>12 DEF IInv, PagesOK

(* The reversal is posted, under the key kept for the entry or a new one.  *)
LEMMA ConfirmReversalStep ==
  ASSUME IInv, ConfirmReversal, UNCHANGED <<form, ai>>
  PROVE  IInv'
<1>1. PICK c, key, intent, what, entry, k, i :
        /\ c = freeCall /\ key = keyOf(k) /\ intent = intentOf(i)
        /\ what = tx.dialog.body /\ entry = tx.dialog.body[1]
        /\ k = tx.reversals[entry].key /\ i = tx.reversals[entry].intent
  OBVIOUS
<1>2. HandlersOK /\ HoldersOK /\ FormShape /\ TxShape /\ AiShape
  BY DEF IInv, PagesOK
<1>3. /\ c \in Calls /\ mint(k, i) /\ Send(c, Post("reversals", key, what, intent))
      /\ tx' = [tx EXCEPT !.reversals[entry] = [key |-> key, intent |-> intent], !.posting = c]
      /\ UNCHANGED <<hook, page, visits, told>> /\ tx.dialog.kind = "reversal"
  BY <1>1, FreeCall DEF ConfirmReversal
<1>a. what = <<entry>> /\ entry \in 1 .. MaxKeys
  BY <1>1, <1>2, <1>3 DEF HoldersOK
<1>4. /\ TxShape' /\ tx'.key = tx.key /\ tx'.intent = tx.intent /\ tx'.posting = c
      /\ tx'.dialog = tx.dialog
      /\ tx'.reversals = [tx.reversals EXCEPT ![entry] = [key |-> key, intent |-> intent]]
  BY <1>2, <1>3 DEF TxShape
<1>b. /\ tx'.reversals[entry] = [key |-> key, intent |-> intent]
      /\ \A e \in 1 .. MaxKeys : e # entry => tx'.reversals[e] = tx.reversals[e]
  BY <1>2, <1>4, <1>a DEF TxShape
<1>5. heldClaims' \subseteq heldClaims \cup {Claim("reversals", key, intent, what)}
  <2>1. entryClaims' = entryClaims
    BY <1>4 DEF entryClaims
  <2>2. reversalClaims' \subseteq reversalClaims \cup {Claim("reversals", key, intent, what)}
    BY <1>a, <1>b DEF reversalClaims
  <2> QED
    BY <2>1, <2>2 DEF heldClaims, formClaims, draftClaims, body
<1>6. k # NoKey => Claim("reversals", k, i, what) \in heldClaims
  BY <1>1, <1>a DEF heldClaims, reversalClaims
<1>7. k = NoKey => i = 0
  BY <1>1, <1>2, <1>a DEF HoldersOK
<1>8. /\ key # NoKey /\ ClaimsOK' /\ CallsOK' /\ HookOK' /\ ToldIsRecorded'
      /\ awaitsPost(c)' /\ CallsGoOn /\ \A d : awaitsPost(d) => awaitsPost(d)'
  <2>1. key = keyOf(k) /\ intent = intentOf(i)
    BY <1>1
  <2>2. /\ c \in Calls /\ mint(k, i) /\ Send(c, Post("reversals", key, what, intent))
        /\ UNCHANGED <<hook, told>>
    BY <1>3
  <2> QED
    BY <2>1, <2>2, <1>5, <1>6, <1>7, PostSent
<1>9. page = "transactions"
  BY <1>2, <1>3 DEF HandlersOK
<1>10. HandlersOK'
  BY <1>2, <1>3, <1>4, <1>8, <1>9 DEF HandlersOK, Forms
<1>11. HoldersOK'
  BY <1>2, <1>4, <1>8, <1>b DEF HoldersOK, hasDraft
<1>12. FormShape' /\ AiShape'
  BY <1>2 DEF FormShape, AiShape
<1> QED
  BY <1>4, <1>8, <1>10, <1>11, <1>12 DEF IInv, PagesOK

(* The AI draft is posted, under the key it holds or a new one.            *)
LEMMA ConfirmStep ==
  ASSUME IInv, Confirm, UNCHANGED <<form, tx>>
  PROVE  IInv'
<1>1. PICK c, key, intent, what, k, i :
        /\ c = freeCall /\ key = keyOf(k) /\ intent = intentOf(i)
        /\ what = <<ai.amount>> /\ k = ai.key /\ i = ai.intent
  OBVIOUS
<1>2. HandlersOK /\ HoldersOK /\ FormShape /\ TxShape /\ AiShape
  BY DEF IInv, PagesOK
<1>3. /\ c \in Calls /\ mint(k, i) /\ Send(c, Post("transactions", key, what, intent))
      /\ ai' = [ai EXCEPT !.key = key, !.intent = intent, !.saving = c]
      /\ UNCHANGED <<hook, page, visits, told>> /\ hasDraft
  BY <1>1, FreeCall DEF Confirm
<1>4. /\ AiShape' /\ ai'.key = key /\ ai'.intent = intent /\ ai'.saving = c
      /\ ai'.drafting = ai.drafting /\ ai'.source = ai.source
  BY <1>2, <1>3 DEF AiShape
<1>5. heldClaims' \subseteq heldClaims \cup {Claim("transactions", key, intent, what)}
  <2>1. draftClaims' \subseteq {Claim("transactions", key, intent, what)}
    BY <1>4 DEF draftClaims, Claim
  <2> QED
    BY <2>1 DEF heldClaims, formClaims, entryClaims, reversalClaims, body
<1>6. k # NoKey => Claim("transactions", k, i, what) \in heldClaims
  BY <1>1 DEF heldClaims, draftClaims, Claim
<1>7. k = NoKey => i = 0
  BY <1>1, <1>2, <1>3 DEF HoldersOK
<1>8. /\ key # NoKey /\ ClaimsOK' /\ CallsOK' /\ HookOK' /\ ToldIsRecorded'
      /\ awaitsPost(c)' /\ CallsGoOn /\ \A d : awaitsPost(d) => awaitsPost(d)'
  BY <1>1, <1>3, <1>5, <1>6, <1>7, PostSent
<1>9. page = "ai"
  BY <1>2, <1>3 DEF HandlersOK, hasDraft
<1>10. HandlersOK'
  <2>1. ai.drafting = NoCall
    BY <1>2, <1>3 DEF HoldersOK, hasDraft
  <2> QED
    BY <1>2, <1>3, <1>4, <1>8, <1>9, <2>1 DEF HandlersOK, Forms
<1>11. HoldersOK'
  BY <1>2, <1>4, <1>8 DEF HoldersOK, hasDraft
<1>12. FormShape' /\ TxShape'
  BY <1>2 DEF FormShape, TxShape
<1> QED
  BY <1>4, <1>8, <1>10, <1>11, <1>12 DEF IInv, PagesOK

(* The AI page without its posts.                                          *)
LEMMA AiKeeps ==
  ASSUME IInv, UNCHANGED <<callVars, hook, pageVars>>, UNCHANGED <<form, tx>>, AiShape',
         UNCHANGED <<ai.drafting, ai.saving>>,
         \/ UNCHANGED <<ai.source, ai.key, ai.intent>>
         \/ ai'.source = NoText /\ ai'.key = NoKey /\ ai.drafting = NoCall
  PROVE  IInv'
<1>1. HandlersOK /\ HoldersOK /\ FormShape /\ TxShape /\ AiShape
  BY DEF IInv, PagesOK
<1>2. /\ CallsOK' /\ HookOK' /\ ToldIsRecorded'
      /\ UNCHANGED <<records, call, page, minted, intents>>
      /\ \A d : awaitsPost(d) => awaitsPost(d)'
      /\ heldClaims' \subseteq heldClaims => ClaimsOK'
  BY PageOnly
<1>3. ClaimsOK'
  <2>1. draftClaims' \subseteq draftClaims
    BY DEF draftClaims
  <2> QED
    BY <1>2, <2>1 DEF heldClaims, formClaims, entryClaims, reversalClaims, body
<1>4. HandlersOK'
  BY <1>1, <1>2 DEF HandlersOK
<1>5. HoldersOK' /\ FormShape' /\ TxShape'
  BY <1>1 DEF HoldersOK, hasDraft, FormShape, TxShape
<1> QED
  BY <1>2, <1>3, <1>4, <1>5 DEF IInv, PagesOK

(* Text is typed beside a draft.                                           *)
LEMMA TypeStep ==
  ASSUME IInv, NEW text, Type(text), UNCHANGED <<form, tx>>
  PROVE  IInv'
<1>1. AiShape
  BY DEF IInv, PagesOK
<1>2. AiShape' /\ UNCHANGED <<ai.drafting, ai.saving, ai.source, ai.key, ai.intent>>
  BY <1>1 DEF Type, AiShape
<1> QED
  BY <1>2, AiKeeps DEF Type

(* The draft is edited and keeps its key.                                  *)
LEMMA EditDraftStep ==
  ASSUME IInv, NEW amount, EditDraft(amount), UNCHANGED <<form, tx>>
  PROVE  IInv'
<1>1. AiShape
  BY DEF IInv, PagesOK
<1>2. AiShape' /\ UNCHANGED <<ai.drafting, ai.saving, ai.source, ai.key, ai.intent>>
  BY <1>1 DEF EditDraft, AiShape
<1> QED
  BY <1>2, AiKeeps DEF EditDraft

(* The draft is discarded with its key.                                    *)
LEMMA DiscardStep ==
  ASSUME IInv, Discard, UNCHANGED <<form, tx>>
  PROVE  IInv'
<1>1. AiShape /\ HoldersOK
  BY DEF IInv, PagesOK
<1>2. AiShape' /\ UNCHANGED <<ai.drafting, ai.saving>> /\ ai'.source = NoText /\ ai'.key = NoKey
  BY <1>1 DEF Discard, AiShape
<1>3. ai.drafting = NoCall
  BY <1>1 DEF Discard, HoldersOK, hasDraft
<1> QED
  BY <1>2, <1>3, AiKeeps DEF Discard

(* A new draft is asked for; the old one is gone with its key.             *)
LEMMA DraftStep ==
  ASSUME IInv, Draft, UNCHANGED <<form, tx>>
  PROVE  IInv'
<1>1. PICK c, q : c = freeCall /\ q = [path |-> "drafts", key |-> NoKey, body |-> <<>>, intent |-> 0]
  OBVIOUS
<1>2. /\ HandlersOK /\ HoldersOK /\ FormShape /\ TxShape /\ AiShape
      /\ CallsOK /\ ClaimsOK /\ HookOK /\ ToldIsRecorded
  BY DEF IInv, PagesOK
<1>3. /\ c \in Calls /\ Send(c, q) /\ page = "ai"
      /\ UNCHANGED <<hook, page, visits, minted, intents, told>>
  BY <1>1, FreeCall DEF Draft, pageVars
<1>4. /\ AiShape' /\ ai'.key = NoKey /\ ai'.intent = 0 /\ ai'.source = NoText
      /\ ai'.drafting = c /\ ai'.saving = ai.saving
  BY <1>1, <1>2 DEF Draft, AiShape
<1>5. CallsOK' /\ posts' \subseteq posts /\ CallsGoOn
  <2>1. q.key = NoKey
    BY <1>1
  <2> QED
    BY <1>2, <1>3, <2>1, SendReads
<1>6. ClaimsOK'
  <2>1. draftClaims' \subseteq draftClaims
    BY <1>4 DEF draftClaims
  <2>2. claims' \subseteq claims
    BY <1>5, <2>1, SentSame
       DEF claims, heldClaims, formClaims, entryClaims, reversalClaims, body
  <2> QED
    BY <1>2, <1>3, <2>2, ClaimsShrink
<1>7. HandlersOK'
  <2>1. call'[c] = sent(q)
    BY <1>2, <1>3 DEF Send, CallsOK, CallShape
  <2>2. call'[c].state # "idle" /\ call'[c].request = q
    BY <2>1 DEF sent
  <2>3. \A d : awaitsPost(d) => awaitsPost(d)'
    BY <1>5 DEF awaitsPost, CallsGoOn, UnderWay
  <2> QED
    BY <1>1, <1>2, <1>3, <1>4, <2>2, <2>3 DEF HandlersOK, Forms
<1>8. HoldersOK' /\ FormShape' /\ TxShape'
  BY <1>2, <1>4 DEF HoldersOK, hasDraft, FormShape, TxShape
<1>9. HookOK' /\ ToldIsRecorded'
  BY <1>2, <1>3, RecordsStay DEF Send
<1> QED
  BY <1>4, <1>5, <1>6, <1>7, <1>8, <1>9 DEF IInv, PagesOK
--------------------------------------------------------------------------------
(* A call has come back; another may have been started.                    *)
LEMMA OthersWait ==
  ASSUME IInv, NEW c, UNCHANGED <<records, late>>,
         \/ call' = [call EXCEPT ![c] = Idle]
         \/ \E d, list : /\ call[d].state = "idle"
                        /\ call' = [call EXCEPT ![c] = Idle, ![d] = sent(listRequest(list))]
  PROVE  /\ CallsOK' /\ sentClaims' \subseteq sentClaims /\ OthersGoOn(c)
         /\ \A b : b # c /\ awaitsPost(b) => awaitsPost(b)'
<1>1. CallsOK
  BY DEF IInv
<1>2. CallsOK' /\ posts' \subseteq posts
  BY <1>1, ReturnKeeps
<1>3. OthersGoOn(c)
  BY <1>1 DEF CallsOK, CallShape, OthersGoOn, UnderWay
<1>4. \A b : b # c /\ awaitsPost(b) => awaitsPost(b)'
  BY <1>3 DEF awaitsPost, OthersGoOn, UnderWay
<1> QED
  BY <1>2, <1>3, <1>4, SentSame

(* A load is over: no handler of a post waited for it.                     *)
LEMMA LoadEnds ==
  ASSUME IInv, NEW c \in Calls, isLoad(c), call' = [call EXCEPT ![c] = Idle],
         form' = resumed(c), UNCHANGED <<records, late, pageVars, tx, ai>>, HookOK'
  PROVE  IInv'
<1>1. /\ HandlersOK /\ HoldersOK /\ FormShape /\ TxShape /\ AiShape
      /\ CallsOK /\ ClaimsOK /\ HookOK /\ ToldIsRecorded
      /\ UNCHANGED <<page, minted, intents, told>>
  BY DEF IInv, PagesOK, pageVars
<1>2. /\ CallsOK' /\ sentClaims' \subseteq sentClaims /\ OthersGoOn(c)
      /\ \A b : b # c /\ awaitsPost(b) => awaitsPost(b)'
  BY OthersWait
<1>3. FormShape'
  BY <1>1 DEF FormShape, resumed
<1>4. \A f \in Forms : /\ form'[f].content = form[f].content /\ form'[f].key = form[f].key
                      /\ form'[f].intent = form[f].intent
  BY <1>1 DEF FormShape, resumed
<1>9. \A f \in Forms : form'[f].phase = "posting" =>
                         form[f].phase = "posting" /\ form'[f].call = form[f].call
  BY <1>1 DEF FormShape, resumed
<1>5. ClaimsOK'
  <2>1. formClaims' \subseteq formClaims
    <3>1. \A f \in Forms : /\ form'[f].key # NoKey <=> form[f].key # NoKey
                          /\ Claim(f, form'[f].key, form'[f].intent, <<form'[f].content>>)
                             = Claim(f, form[f].key, form[f].intent, <<form[f].content>>)
      BY <1>4
    <3> QED
      BY <3>1 DEF formClaims, body
  <2>2. claims' \subseteq claims
    BY <1>2, <2>1 DEF claims, heldClaims, entryClaims, reversalClaims, draftClaims
  <2> QED
    BY <1>1, <2>2, ClaimsShrink
<1>6. HandlersOK'
  <2>1. ~awaitsPost(c)
    BY DEF isLoad, awaitsPost
  <2>2. ai.drafting # NoCall => ai.drafting # c
    BY <1>1 DEF HandlersOK, isLoad, Lists
  <2>3. ai.drafting # NoCall => UnderWay(ai.drafting)
    BY <1>1, <1>2, <2>2 DEF HandlersOK, OthersGoOn
  <2> QED
    BY <1>1, <1>2, <1>9, <2>1, <2>3 DEF HandlersOK, UnderWay
<1>7. HoldersOK'
  <2>1. UNCHANGED <<tx, ai>>
    OBVIOUS
  <2> QED
    BY <1>1, <1>4, <2>1 DEF HoldersOK, hasDraft
<1>10. TxShape' /\ AiShape'
  BY <1>1 DEF TxShape, AiShape
<1>8. ToldIsRecorded'
  BY <1>1 DEF ToldIsRecorded
<1> QED
  BY <1>2, <1>3, <1>5, <1>6, <1>7, <1>8, <1>10 DEF IInv, PagesOK

(* A list is loaded.                                                       *)
LEMMA LoadReturnsStep ==
  ASSUME IInv, NEW c \in Calls, LoadReturns(c)
  PROVE  IInv'
<1>1. HookOK /\ UNCHANGED records /\ call[c].data \subseteq records
  BY DEF LoadReturns, Return, IInv, CallsOK
<1>2. HookOK'
  <2>1. CASE hook' = hook
    BY <1>1, <2>1 DEF HookOK, HookShape
  <2>2. CASE hook' # hook
    <3>1. PICK l : hook' = [hook EXCEPT ![l] = [data |-> call[c].data, loading |-> FALSE,
                                               error |-> FALSE, latest |-> NoCall]]
      BY <2>2 DEF LoadReturns, settled
    <3>2. \A m \in Lists : m # l => hook'[m] = hook[m]
      BY <1>1, <3>1 DEF HookOK, HookShape
    <3>3. l \in Lists => hook'[l] = [data |-> call[c].data, loading |-> FALSE,
                                    error |-> FALSE, latest |-> NoCall]
      BY <1>1, <3>1 DEF HookOK, HookShape
    <3>4. HookShape'
      BY <1>1, <3>1, <3>2, <3>3 DEF HookOK, HookShape
    <3> QED
      BY <1>1, <3>2, <3>3, <3>4 DEF HookOK
  <2> QED
    BY <2>1, <2>2
<1> QED
  BY <1>2, LoadEnds DEF LoadReturns, Return

(* A list fails to load and shows what it did.                             *)
LEMMA LoadFailsStep ==
  ASSUME IInv, NEW c \in Calls, LoadFails(c)
  PROVE  IInv'
<1>1. HookOK /\ UNCHANGED records
  BY DEF LoadFails, IInv
<1>2. HookOK'
  <2>1. CASE hook' = hook
    BY <1>1, <2>1 DEF HookOK, HookShape
  <2>2. CASE hook' # hook
    <3>1. PICK l : hook' = [hook EXCEPT ![l] = [data |-> hook[l].data, loading |-> FALSE,
                                               error |-> TRUE, latest |-> NoCall]]
      BY <2>2 DEF LoadFails, failedToLoad
    <3>2. \A m \in Lists : m # l => hook'[m] = hook[m]
      BY <1>1, <3>1 DEF HookOK, HookShape
    <3>3. l \in Lists => hook'[l] = [data |-> hook[l].data, loading |-> FALSE,
                                    error |-> TRUE, latest |-> NoCall]
      BY <1>1, <3>1 DEF HookOK, HookShape
    <3>4. HookShape'
      BY <1>1, <3>1, <3>2, <3>3 DEF HookOK, HookShape
    <3>5. \A m \in Lists : hook'[m].data = hook[m].data
      BY <3>2, <3>3
    <3> QED
      BY <1>1, <3>4, <3>5 DEF HookOK
  <2> QED
    BY <2>1, <2>2
<1> QED
  BY <1>2, LoadEnds DEF LoadFails
--------------------------------------------------------------------------------
(* A handler goes on after its post; lists may be loaded anew.             *)
LEMMA PostEnds ==
  ASSUME IInv, NEW c, UNCHANGED <<late, visits, minted, intents, page>>,
         \/ /\ call' = [call EXCEPT ![c] = Idle] /\ UNCHANGED <<records, hook>>
         \/ \E list : returnAndLoad(c, list) /\ UNCHANGED records,
         \/ UNCHANGED told
         \/ awaitsPost(c) /\ call[c].state = "ok" /\ told' = told \cup {call[c].request},
         heldClaims' \subseteq heldClaims
  PROVE  /\ CallsOK' /\ ClaimsOK' /\ HookOK' /\ ToldIsRecorded'
         /\ OthersGoOn(c) /\ \A b : b # c /\ awaitsPost(b) => awaitsPost(b)'
<1>1. CallsOK /\ ClaimsOK /\ HookOK /\ ToldIsRecorded
  BY DEF IInv
<1>2. \/ call' = [call EXCEPT ![c] = Idle]
      \/ \E d, list : /\ call[d].state = "idle"
                     /\ call' = [call EXCEPT ![c] = Idle, ![d] = sent(listRequest(list))]
  BY FreeCall DEF returnAndLoad
<1>3. /\ CallsOK' /\ sentClaims' \subseteq sentClaims /\ OthersGoOn(c)
      /\ \A b : b # c /\ awaitsPost(b) => awaitsPost(b)'
  BY <1>2, OthersWait
<1>4. ClaimsOK'
  BY <1>1, <1>3, ClaimsShrink DEF claims
<1>5. HookOK'
  <2>1. CASE UNCHANGED <<records, hook>>
    BY <1>1, <2>1 DEF HookOK, HookShape
  <2>2. CASE \E list : returnAndLoad(c, list) /\ UNCHANGED records
    BY <1>1, <2>2, RefreshKeeps DEF returnAndLoad
  <2> QED
    BY <2>1, <2>2
<1>6. ToldIsRecorded'
  <2>1. UNCHANGED records
    OBVIOUS
  <2>2. CASE UNCHANGED told
    BY <1>1, <2>1, <2>2 DEF ToldIsRecorded
  <2>3. CASE awaitsPost(c) /\ call[c].state = "ok" /\ told' = told \cup {call[c].request}
    <3>1. call[c].request \in records
      BY <1>1, <2>3 DEF awaitsPost, CallsOK, AnswersStand
    <3> QED
      BY <1>1, <2>1, <2>3, <3>1 DEF ToldIsRecorded
  <2> QED
    BY <2>2, <2>3
<1> QED
  BY <1>3, <1>4, <1>5, <1>6

(* A form has been saved: its key is spent, the user told.                 *)
LEMMA SavedStep ==
  ASSUME IInv, NEW f \in Forms, Saved(f), UNCHANGED <<tx, ai>>
  PROVE  IInv'
<1>1. /\ HandlersOK /\ HoldersOK /\ FormShape /\ TxShape /\ AiShape
      /\ CallsOK /\ ClaimsOK /\ HookOK /\ ToldIsRecorded
  BY DEF IInv, PagesOK
<1>2. PICK c, d : c = form[f].call /\ d = hook'[f].latest
  OBVIOUS
<1>3. /\ form[f].phase = "posting" /\ call[c].state = "ok"
      /\ told' = told \cup {call[c].request} /\ returnAndLoad(c, f)
      /\ form' = [form EXCEPT ![f] = [content |-> form[f].content, key |-> NoKey, intent |-> 0,
                                      phase |-> "refreshing", call |-> d]]
      /\ UNCHANGED <<records, late, page, visits, minted, intents>>
  BY <1>2 DEF Saved
<1>4. page = f /\ awaitsPost(c)
  BY <1>1, <1>2, <1>3 DEF HandlersOK
<1>5. /\ FormShape'
      /\ form'[f] = [content |-> form[f].content, key |-> NoKey, intent |-> 0,
                     phase |-> "refreshing", call |-> d]
      /\ \A g \in Forms : g # f => form'[g] = form[g]
  BY <1>1, <1>3, FormSet
<1>6. heldClaims' \subseteq heldClaims
  <2>1. form'[f].key = NoKey
    BY <1>5
  <2>2. formClaims' \subseteq formClaims
    BY <1>5, <2>1, FormClaims
  <2> QED
    BY <2>2 DEF heldClaims, entryClaims, reversalClaims, draftClaims
<1>7. CallsOK' /\ ClaimsOK' /\ HookOK' /\ ToldIsRecorded'
  BY <1>3, <1>4, <1>6, PostEnds
<1>8. HandlersOK'
  <2>1. \A g \in Forms : form'[g].phase # "posting"
    BY <1>1, <1>4, <1>5 DEF HandlersOK
  <2>2. /\ tx.posting = NoCall /\ ai.saving = NoCall /\ ai.drafting = NoCall
        /\ tx.dialog.kind = "none" /\ ai.source = NoText
    BY <1>1, <1>4 DEF HandlersOK, Forms
  <2> QED
    BY <2>1, <2>2 DEF HandlersOK
<1>9. HoldersOK'
  BY <1>1, <1>5 DEF HoldersOK, hasDraft
<1>10. TxShape' /\ AiShape'
  BY <1>1 DEF TxShape, AiShape
<1> QED
  BY <1>5, <1>7, <1>8, <1>9, <1>10 DEF IInv, PagesOK

(* A form has not been saved, as far as it knows: it keeps its key.        *)
LEMMA NotSavedStep ==
  ASSUME IInv, NEW f \in Forms, NotSaved(f), UNCHANGED <<tx, ai>>
  PROVE  IInv'
<1>1. /\ HandlersOK /\ HoldersOK /\ FormShape /\ TxShape /\ AiShape
      /\ CallsOK /\ ClaimsOK /\ HookOK /\ ToldIsRecorded
  BY DEF IInv, PagesOK
<1>2. PICK c : c = form[f].call
  OBVIOUS
<1>3. /\ form[f].phase = "posting" /\ call' = [call EXCEPT ![c] = Idle]
      /\ form' = [form EXCEPT ![f] = [content |-> form[f].content, key |-> form[f].key,
                                      intent |-> form[f].intent, phase |-> "editing",
                                      call |-> NoCall]]
      /\ UNCHANGED <<records, late, hook, page, visits, minted, intents, told>>
  BY <1>2 DEF NotSaved, Return, pageVars
<1>4. page = f /\ awaitsPost(c)
  BY <1>1, <1>2, <1>3 DEF HandlersOK
<1>5. /\ FormShape'
      /\ form'[f] = [content |-> form[f].content, key |-> form[f].key,
                     intent |-> form[f].intent, phase |-> "editing", call |-> NoCall]
      /\ \A g \in Forms : g # f => form'[g] = form[g]
  BY <1>1, <1>3, FormSet
<1>6. heldClaims' \subseteq heldClaims
  <2>1. /\ form'[f].key = form[f].key /\ form'[f].intent = form[f].intent
        /\ form'[f].content = form[f].content
    BY <1>5
  <2>2. formClaims' \subseteq formClaims
    BY <1>5, <2>1 DEF formClaims, body
  <2> QED
    BY <2>2 DEF heldClaims, entryClaims, reversalClaims, draftClaims
<1>7. CallsOK' /\ ClaimsOK' /\ HookOK' /\ ToldIsRecorded'
  BY <1>3, <1>4, <1>6, PostEnds
<1>8. HandlersOK'
  <2>1. \A g \in Forms : form'[g].phase # "posting"
    BY <1>1, <1>4, <1>5 DEF HandlersOK
  <2>2. /\ tx.posting = NoCall /\ ai.saving = NoCall /\ ai.drafting = NoCall
        /\ tx.dialog.kind = "none" /\ ai.source = NoText
    BY <1>1, <1>4 DEF HandlersOK, Forms
  <2> QED
    BY <2>1, <2>2 DEF HandlersOK
<1>9. HoldersOK'
  BY <1>1, <1>5 DEF HoldersOK, hasDraft
<1>10. TxShape' /\ AiShape'
  BY <1>1 DEF TxShape, AiShape
<1> QED
  BY <1>5, <1>7, <1>8, <1>9, <1>10 DEF IInv, PagesOK

(* A key that is spent, of the entry drafted or of a reversal.             *)
LEMMA SpentKeys ==
  ASSUME TxShape, UNCHANGED <<form, ai>>,
         \/ tx'.key = tx.key /\ tx'.intent = tx.intent
         \/ tx'.key = NoKey,
         \A e \in 1 .. MaxKeys : \/ tx'.reversals[e] = tx.reversals[e]
                                \/ tx'.reversals[e].key = NoKey
  PROVE  heldClaims' \subseteq heldClaims
<1>1. entryClaims' \subseteq entryClaims
  BY DEF entryClaims
<1>2. reversalClaims' \subseteq reversalClaims
  BY DEF reversalClaims
<1> QED
  BY <1>1, <1>2 DEF heldClaims, formClaims, draftClaims, body

(* An entry or a reversal has been posted: its key is spent, the user told. *)
LEMMA PostedStep ==
  ASSUME IInv, Posted, UNCHANGED <<form, ai>>
  PROVE  IInv'
<1>1. /\ HandlersOK /\ HoldersOK /\ FormShape /\ TxShape /\ AiShape
      /\ CallsOK /\ ClaimsOK /\ HookOK /\ ToldIsRecorded
  BY DEF IInv, PagesOK
<1>2. PICK c, entry : c = tx.posting /\ entry = tx.dialog.body[1]
  OBVIOUS
<1>3. /\ c # NoCall /\ call[c].state = "ok"
      /\ told' = told \cup {call[c].request} /\ returnAndLoad(c, "transactions")
      /\ UNCHANGED <<records, late, page, visits, minted, intents>>
  BY <1>2 DEF Posted
<1>4. page = "transactions" /\ awaitsPost(c)
  BY <1>1, <1>2, <1>3 DEF HandlersOK
<1>5. /\ TxShape' /\ tx'.posting = NoCall /\ tx'.dialog = NoDialog
      /\ \/ tx'.key = tx.key /\ tx'.intent = tx.intent
         \/ tx'.key = NoKey /\ tx'.intent = 0
      /\ \A e \in 1 .. MaxKeys : \/ tx'.reversals[e] = tx.reversals[e]
                                \/ tx'.reversals[e] = [key |-> NoKey, intent |-> 0]
  <2>1. CASE tx.dialog.kind = "entry"
    <3>1. tx' = [tx EXCEPT !.key = NoKey, !.intent = 0, !.dialog = NoDialog, !.posting = NoCall]
      BY <2>1 DEF Posted
    <3> QED
      BY <1>1, <3>1 DEF TxShape
  <2>2. CASE tx.dialog.kind # "entry"
    <3>1. tx' = [tx EXCEPT !.reversals[entry] = [key |-> NoKey, intent |-> 0],
                           !.dialog = NoDialog, !.posting = NoCall]
      BY <1>2, <2>2 DEF Posted
    <3>2. /\ TxShape' /\ tx'.posting = NoCall /\ tx'.dialog = NoDialog
          /\ tx'.key = tx.key /\ tx'.intent = tx.intent
          /\ tx'.reversals = [tx.reversals EXCEPT ![entry] = [key |-> NoKey, intent |-> 0]]
      BY <1>1, <3>1 DEF TxShape
    <3>3. \A e \in 1 .. MaxKeys : \/ tx'.reversals[e] = tx.reversals[e]
                                 \/ tx'.reversals[e] = [key |-> NoKey, intent |-> 0]
      BY <1>1, <3>2 DEF TxShape
    <3> QED
      BY <3>2, <3>3
  <2> QED
    BY <2>1, <2>2
<1>6. heldClaims' \subseteq heldClaims
  BY <1>1, <1>5, SpentKeys
<1>7. CallsOK' /\ ClaimsOK' /\ HookOK' /\ ToldIsRecorded'
  BY <1>3, <1>4, <1>6, PostEnds
<1>8. HandlersOK'
  <2>1. /\ \A g \in Forms : form[g].phase # "posting"
        /\ ai.saving = NoCall /\ ai.drafting = NoCall /\ ai.source = NoText
    BY <1>1, <1>4 DEF HandlersOK, Forms
  <2> QED
    BY <1>5, <2>1 DEF HandlersOK, NoDialog
<1>9. HoldersOK'
  BY <1>1, <1>5 DEF HoldersOK, hasDraft, NoDialog
<1>10. FormShape' /\ AiShape'
  BY <1>1 DEF FormShape, AiShape
<1> QED
  BY <1>5, <1>7, <1>8, <1>9, <1>10 DEF IInv, PagesOK

(* An entry or a reversal has not been posted: its key is kept.            *)
LEMMA NotPostedStep ==
  ASSUME IInv, NotPosted, UNCHANGED <<form, ai>>
  PROVE  IInv'
<1>1. /\ HandlersOK /\ HoldersOK /\ FormShape /\ TxShape /\ AiShape
      /\ CallsOK /\ ClaimsOK /\ HookOK /\ ToldIsRecorded
  BY DEF IInv, PagesOK
<1>2. PICK c : c = tx.posting
  OBVIOUS
<1>3. /\ c # NoCall /\ call' = [call EXCEPT ![c] = Idle]
      /\ tx' = [tx EXCEPT !.posting = NoCall]
      /\ UNCHANGED <<records, late, hook, page, visits, minted, intents, told>>
  BY <1>2 DEF NotPosted, Return, pageVars
<1>4. page = "transactions"
  BY <1>1, <1>2, <1>3 DEF HandlersOK
<1>5. /\ TxShape' /\ tx'.posting = NoCall /\ tx'.dialog = tx.dialog
      /\ tx'.key = tx.key /\ tx'.intent = tx.intent /\ tx'.reversals = tx.reversals
  BY <1>1, <1>3 DEF TxShape
<1>6. heldClaims' \subseteq heldClaims
  BY <1>1, <1>5, SpentKeys
<1>7. CallsOK' /\ ClaimsOK' /\ HookOK' /\ ToldIsRecorded'
  BY <1>3, <1>6, PostEnds
<1>8. HandlersOK'
  <2>1. /\ \A g \in Forms : form[g].phase # "posting"
        /\ ai.saving = NoCall /\ ai.drafting = NoCall /\ ai.source = NoText
    BY <1>1, <1>4 DEF HandlersOK, Forms
  <2> QED
    BY <1>3, <1>4, <1>5, <2>1 DEF HandlersOK
<1>9. HoldersOK'
  BY <1>1, <1>5 DEF HoldersOK, hasDraft
<1>10. FormShape' /\ AiShape'
  BY <1>1 DEF FormShape, AiShape
<1> QED
  BY <1>5, <1>7, <1>8, <1>9, <1>10 DEF IInv, PagesOK
--------------------------------------------------------------------------------
(* A handler of the AI page goes on.                                       *)
LEMMA AiReturns ==
  ASSUME IInv, NEW c, call' = [call EXCEPT ![c] = Idle], page = "ai",
         UNCHANGED <<records, late, hook, page, visits, minted, intents, form, tx>>,
         \/ UNCHANGED told
         \/ awaitsPost(c) /\ call[c].state = "ok" /\ told' = told \cup {call[c].request},
         AiShape',
         \/ ai'.key = ai.key /\ ai'.intent = ai.intent
         \/ ai'.key = NoKey /\ ai'.intent = 0,
         ai'.drafting # NoCall => ai'.drafting = ai.drafting /\ c # ai.drafting /\ ai'.source = NoText,
         ai'.saving # NoCall => ai'.saving = ai.saving /\ c # ai.saving,
         ai'.key = NoKey /\ (ai'.source # NoText \/ ai'.drafting # NoCall) => ai'.intent = 0
  PROVE  IInv'
<1>1. /\ HandlersOK /\ HoldersOK /\ FormShape /\ TxShape /\ AiShape
      /\ CallsOK /\ ClaimsOK /\ HookOK /\ ToldIsRecorded
  BY DEF IInv, PagesOK
<1>2. heldClaims' \subseteq heldClaims
  <2>1. draftClaims' \subseteq draftClaims
    BY DEF draftClaims
  <2> QED
    BY <2>1 DEF heldClaims, formClaims, entryClaims, reversalClaims, body
<1>3. /\ CallsOK' /\ ClaimsOK' /\ HookOK' /\ ToldIsRecorded'
      /\ OthersGoOn(c) /\ \A b : b # c /\ awaitsPost(b) => awaitsPost(b)'
  BY <1>2, PostEnds
<1>4. HandlersOK'
  <2>1. /\ \A g \in Forms : form[g].phase # "posting"
        /\ tx.posting = NoCall /\ tx.dialog.kind = "none"
    BY <1>1 DEF HandlersOK, Forms
  <2>2. ai'.drafting # NoCall => UnderWay(ai.drafting)
    BY <1>1, <1>3 DEF HandlersOK, OthersGoOn
  <2> QED
    BY <1>1, <1>3, <2>1, <2>2 DEF HandlersOK, UnderWay
<1>5. HoldersOK'
  BY <1>1 DEF HoldersOK, hasDraft
<1>6. FormShape' /\ TxShape'
  BY <1>1 DEF FormShape, TxShape
<1> QED
  BY <1>3, <1>4, <1>5, <1>6 DEF IInv, PagesOK

(* The page drafts and saves in different calls.                           *)
LEMMA AiCalls ==
  ASSUME IInv
  PROVE  /\ ai.drafting # NoCall => ai.drafting # ai.saving /\ page = "ai"
         /\ ai.saving # NoCall => page = "ai" /\ awaitsPost(ai.saving)
BY DEF IInv, PagesOK, HandlersOK, awaitsPost

(* A draft has come; it has no key yet.                                    *)
LEMMA DraftedStep ==
  ASSUME IInv, NEW amount, Drafted(amount), UNCHANGED <<form, tx>>
  PROVE  IInv'
<1>1. /\ HandlersOK /\ HoldersOK /\ FormShape /\ TxShape /\ AiShape
      /\ CallsOK /\ ClaimsOK /\ HookOK /\ ToldIsRecorded
  BY DEF IInv, PagesOK
<1>2. PICK c, source : c = ai.drafting /\ source = ai.from
  OBVIOUS
<1>3. /\ c # NoCall /\ call' = [call EXCEPT ![c] = Idle]
      /\ ai' = [ai EXCEPT !.source = source, !.amount = amount, !.drafting = NoCall,
                          !.from = NoText]
      /\ UNCHANGED <<records, late, hook, page, visits, minted, intents, told>>
  BY <1>2 DEF Drafted, Return, pageVars
<1>4. /\ AiShape' /\ ai'.key = ai.key /\ ai'.intent = ai.intent /\ ai'.drafting = NoCall
      /\ ai'.saving = ai.saving
  BY <1>1, <1>3 DEF AiShape
<1>5. ai.key = NoKey => ai.intent = 0
  BY <1>1, <1>2, <1>3 DEF HoldersOK
<1> QED
  BY <1>2, <1>3, <1>4, <1>5, AiCalls, AiReturns

(* No draft has come.                                                      *)
LEMMA NotDraftedStep ==
  ASSUME IInv, NotDrafted, UNCHANGED <<form, tx>>
  PROVE  IInv'
<1>1. /\ HandlersOK /\ HoldersOK /\ FormShape /\ TxShape /\ AiShape
      /\ CallsOK /\ ClaimsOK /\ HookOK /\ ToldIsRecorded
  BY DEF IInv, PagesOK
<1>2. PICK c : c = ai.drafting
  OBVIOUS
<1>3. /\ c # NoCall /\ call' = [call EXCEPT ![c] = Idle]
      /\ ai' = [ai EXCEPT !.drafting = NoCall, !.from = NoText]
      /\ UNCHANGED <<records, late, hook, page, visits, minted, intents, told>>
  BY <1>2 DEF NotDrafted, Return, pageVars
<1>4. /\ AiShape' /\ ai'.key = ai.key /\ ai'.intent = ai.intent /\ ai'.drafting = NoCall
      /\ ai'.saving = ai.saving
  BY <1>1, <1>3 DEF AiShape
<1>5. ai.key = NoKey => ai.intent = 0
  BY <1>1, <1>2, <1>3 DEF HoldersOK
<1> QED
  BY <1>2, <1>3, <1>4, <1>5, AiCalls, AiReturns

(* The draft has been saved: its key is spent, the user told.              *)
LEMMA DraftSavedStep ==
  ASSUME IInv, DraftSaved, UNCHANGED <<form, tx>>
  PROVE  IInv'
<1>1. /\ HandlersOK /\ HoldersOK /\ FormShape /\ TxShape /\ AiShape
      /\ CallsOK /\ ClaimsOK /\ HookOK /\ ToldIsRecorded
  BY DEF IInv, PagesOK
<1>2. PICK c : c = ai.saving
  OBVIOUS
<1>3. /\ c # NoCall /\ call[c].state = "ok" /\ call' = [call EXCEPT ![c] = Idle]
      /\ told' = told \cup {call[c].request}
      /\ UNCHANGED <<records, late, hook, page, visits, minted, intents>>
  BY <1>2 DEF DraftSaved, Return
<1>4. /\ AiShape' /\ ai'.key = NoKey /\ ai'.intent = 0 /\ ai'.drafting = ai.drafting
      /\ ai'.saving = NoCall /\ ai'.source = NoText
  BY <1>1 DEF DraftSaved, AiShape
<1> QED
  BY <1>2, <1>3, <1>4, AiCalls, AiReturns

(* The draft has not been saved: it keeps its key.                         *)
LEMMA DraftNotSavedStep ==
  ASSUME IInv, DraftNotSaved, UNCHANGED <<form, tx>>
  PROVE  IInv'
<1>1. /\ HandlersOK /\ HoldersOK /\ FormShape /\ TxShape /\ AiShape
      /\ CallsOK /\ ClaimsOK /\ HookOK /\ ToldIsRecorded
  BY DEF IInv, PagesOK
<1>2. PICK c : c = ai.saving
  OBVIOUS
<1>3. /\ c # NoCall /\ call' = [call EXCEPT ![c] = Idle]
      /\ ai' = [ai EXCEPT !.saving = NoCall]
      /\ UNCHANGED <<records, late, hook, page, visits, minted, intents, told>>
  BY <1>2 DEF DraftNotSaved, Return, pageVars
<1>4. /\ AiShape' /\ ai'.key = ai.key /\ ai'.intent = ai.intent /\ ai'.drafting = ai.drafting
      /\ ai'.saving = NoCall /\ ai'.source = ai.source
  BY <1>1, <1>3 DEF AiShape
<1>5. /\ ai.drafting # NoCall => ai.source = NoText
      /\ ai.key = NoKey /\ (ai.source # NoText \/ ai.drafting # NoCall) => ai.intent = 0
  BY <1>1 DEF HoldersOK, hasDraft
<1> QED
  BY <1>2, <1>3, <1>4, <1>5, AiCalls, AiReturns
--------------------------------------------------------------------------------
(* The page is left, and what it held is gone.                             *)
LEMMA FreshPages ==
  form = [f \in Forms |-> FreshForm] /\ tx = FreshTx /\ ai = FreshAi
    => PagesOK /\ heldClaims = {}
<1> SUFFICES ASSUME form = [f \in Forms |-> FreshForm], tx = FreshTx, ai = FreshAi
             PROVE  PagesOK /\ heldClaims = {}
  OBVIOUS
<1>1. /\ FormShape
      /\ \A f \in Forms : form[f].key = NoKey /\ form[f].intent = 0 /\ form[f].phase = "editing"
  BY DEF FormShape, FreshForm
<1>2. /\ TxShape /\ tx.key = NoKey /\ tx.intent = 0 /\ tx.posting = NoCall
      /\ tx.dialog.kind = "none"
      /\ \A e \in 1 .. MaxKeys : tx.reversals[e].key = NoKey /\ tx.reversals[e].intent = 0
  BY DEF TxShape, FreshTx, NoDialog
<1>3. /\ AiShape /\ ai.key = NoKey /\ ai.intent = 0 /\ ai.drafting = NoCall
      /\ ai.saving = NoCall /\ ai.source = NoText
  BY DEF AiShape, FreshAi
<1>4. HandlersOK /\ HoldersOK
  BY <1>1, <1>2, <1>3 DEF HandlersOK, HoldersOK, hasDraft
<1>5. heldClaims = {}
  BY <1>1, <1>2, <1>3 DEF heldClaims, formClaims, entryClaims, reversalClaims, draftClaims
<1> QED
  BY <1>1, <1>2, <1>3, <1>4, <1>5 DEF PagesOK

(* The user goes to another page.                                          *)
LEMMA NavigateStep ==
  ASSUME IInv, NEW p, Navigate(p)
  PROVE  IInv'
<1>1. (form = [f \in Forms |-> FreshForm] /\ tx = FreshTx /\ ai = FreshAi
         => PagesOK /\ heldClaims = {})'
  BY FreshPages, PTL
<1>2. PagesOK' /\ heldClaims' = {}
  BY <1>1 DEF Navigate, FreshForm, FreshTx, FreshAi
<1>3. CallsOK' /\ posts' \subseteq posts
  BY LeaveKeeps DEF Navigate, IInv
<1>4. ClaimsOK'
  <2>1. claims' \subseteq claims
    BY <1>2, <1>3, SentSame DEF claims
  <2> QED
    BY <2>1, ClaimsShrink DEF Navigate, Leave, IInv
<1>5. HookOK'
  BY DEF Navigate, Leave, opened, mounted, Unmounted, HookOK, HookShape
<1>6. ToldIsRecorded'
  BY DEF Navigate, Leave, IInv, ToldIsRecorded
<1> QED
  BY <1>2, <1>3, <1>4, <1>5, <1>6 DEF IInv
--------------------------------------------------------------------------------
(* The first page opens on what has been recorded before.                  *)
LEMMA InitIInv == Init => IInv
<1> SUFFICES ASSUME Init PROVE IInv
  OBVIOUS
<1>1. /\ records = InitialRecords /\ late = {} /\ told = {}
      /\ hook = opened(page) /\ call = loading(page)
      /\ minted = Cardinality(InitialRecords) /\ intents = Cardinality(InitialRecords)
      /\ form = [f \in Forms |-> FreshForm] /\ tx = FreshTx /\ ai = FreshAi
  BY DEF Init, PagesInit, FormsInit, TxInit, AiInit
<1>2. PagesOK /\ heldClaims = {}
  BY <1>1, FreshPages
<1>3. /\ minted \in Nat /\ minted = intents /\ minted <= MaxKeys /\ MaxKeys \in Nat
  BY <1>1, FS_CardinalityType, WebAssumption
<1>4. \A r \in records :
        /\ r = Post(r.path, r.key, r.body, r.intent)
        /\ r.key \in 1 .. minted /\ r.intent = r.key
        /\ \A s \in records : r.key = s.key => r = s
  BY <1>1, WebAssumption
<1>5. \A b \in Calls : \/ call[b] = Idle
                      \/ \E list : call[b] = sent(listRequest(list))
  BY <1>1 DEF loading
<1>6. \A b \in Calls : call[b].data = {} /\ call[b].state # "ok" /\ call[b].state # "conflict"
                      /\ (call[b].state = "idle" \/ call[b].request.key = NoKey)
  <2>1. \A list : /\ sent(listRequest(list)).state = "sent" /\ sent(listRequest(list)).data = {}
                  /\ sent(listRequest(list)).request.key = NoKey
    BY DEF sent, listRequest
  <2>2. Idle.state = "idle" /\ Idle.data = {}
    BY DEF Idle
  <2> QED
    BY <1>5, <2>1, <2>2
<1>7. posts = records
  BY <1>1, <1>6 DEF posts
<1>8. ClaimsOK
  <2>1. claims = {claimOf(r) : r \in records}
    BY <1>2, <1>7 DEF claims, sentClaims
  <2>2. \A r \in records : claimOf(r).key = r.key /\ claimOf(r).intent = r.intent
    BY DEF claimOf, Claim
  <2>3. \A x \in claims : x.key \in 1 .. minted /\ x.intent \in 1 .. intents
    BY <1>3, <1>4, <2>1, <2>2
  <2>4. \A r, s \in records : r.key = s.key \/ r.intent = s.intent => r = s
    BY <1>4
  <2>5. \A x, y \in claims : x.key = y.key \/ x.intent = y.intent => x = y
    BY <2>1, <2>2, <2>4
  <2> QED
    BY <1>3, <2>3, <2>5 DEF ClaimsOK
<1>9. CallsOK
  <2>1. CallShape
    BY <1>1, <1>5 DEF CallShape, loading, Idle, sent
  <2>2. PostsOK
    <3>1. \A r \in records : r.key # NoKey
      BY <1>3, <1>4 DEF NoKey
    <3> QED
      BY <1>4, <1>7, <3>1 DEF PostsOK, isPost
  <2>3. RecordsUnique
    BY <1>4 DEF RecordsUnique
  <2>4. AnswersStand
    BY <1>6 DEF AnswersStand
  <2>5. \A b \in Calls : call[b].data \subseteq records
    BY <1>6
  <2> QED
    BY <2>1, <2>2, <2>3, <2>4, <2>5 DEF CallsOK
<1>10. HookOK /\ ToldIsRecorded
  BY <1>1 DEF opened, mounted, Unmounted, HookOK, HookShape, ToldIsRecorded
<1> QED
  BY <1>2, <1>8, <1>9, <1>10 DEF IInv

(* The steps of the forms.                                                 *)
LEMMA FormsStep ==
  ASSUME IInv, FormsNext, UNCHANGED <<tx, ai>>
  PROVE  IInv'
BY SubmitStep, SavedStep, NotSavedStep, ChangeStep DEF FormsNext

(* The steps of the transactions page.                                     *)
LEMMA TxStep ==
  ASSUME IInv, TxNext, UNCHANGED <<form, ai>>
  PROVE  IInv'
BY ChangeDraftStep, AskReversalStep, ReviewStep, CancelStep, ConfirmTransactionStep,
   ConfirmReversalStep, PostedStep, NotPostedStep DEF TxNext

(* The steps of the AI page.                                               *)
LEMMA AiStep ==
  ASSUME IInv, AiNext, UNCHANGED <<form, tx>>
  PROVE  IInv'
BY TypeStep, DraftedStep, EditDraftStep, DraftStep, NotDraftedStep, ConfirmStep,
   DraftSavedStep, DraftNotSavedStep, DiscardStep DEF AiNext

(* Nothing happens.                                                        *)
LEMMA StutterStep ==
  ASSUME IInv, UNCHANGED vars
  PROVE  IInv'
<1>1. UNCHANGED <<callVars, hook, pageVars>> /\ UNCHANGED <<form, tx, ai>>
  BY DEF vars
<1>2. /\ CallsOK' /\ HookOK' /\ ToldIsRecorded'
      /\ UNCHANGED <<records, call, page, minted, intents>>
      /\ heldClaims' \subseteq heldClaims => ClaimsOK'
  BY <1>1, PageOnly
<1>3. ClaimsOK'
  BY <1>1, <1>2, HeldSame
<1>4. CallsGoOn
  BY <1>2 DEF CallsGoOn, UnderWay
<1>5. PagesOK'
  BY <1>1, <1>2, <1>4, PagesWait DEF IInv
<1> QED
  BY <1>2, <1>3, <1>5 DEF IInv

(* Every step keeps the invariant.                                         *)
LEMMA StepKeepsIInv == IInv /\ [Next]_vars => IInv'
<1> SUFFICES ASSUME IInv, [Next]_vars PROVE IInv'
  OBVIOUS
<1>1. CASE \E p \in PageNames : Navigate(p)
  BY <1>1, NavigateStep
<1>2. CASE \E list \in Lists : RetryLoad(list) /\ UNCHANGED <<pageVars, form, tx, ai>>
  BY <1>2, RetryLoadStep
<1>3. CASE \E c \in Calls : LoadReturns(c) \/ LoadFails(c)
  BY <1>3, LoadReturnsStep, LoadFailsStep
<1>4. CASE FormsNext /\ UNCHANGED <<tx, ai>>
  BY <1>4, FormsStep
<1>5. CASE TxNext /\ UNCHANGED <<form, ai>>
  BY <1>5, TxStep
<1>6. CASE AiNext /\ UNCHANGED <<form, tx>>
  BY <1>6, AiStep
<1>7. CASE Service \/ ServiceLate
  BY <1>7, ServiceStep, ServiceLateStep
<1>8. CASE UNCHANGED vars
  BY <1>8, StutterStep
<1> QED
  BY <1>1, <1>2, <1>3, <1>4, <1>5, <1>6, <1>7, <1>8 DEF Next

(* The invariant holds: two uses of one key, or for one intent, are one.   *)
THEOREM KeysNameClaims == Spec => []IInv
<1>1. Init => IInv
  BY InitIInv
<1>2. IInv /\ [Next]_vars => IInv'
  BY StepKeepsIInv
<1> QED
  BY <1>1, <1>2, PTL DEF Spec

(* However often a request is repeated, executed late or left behind, one  *)
(* intent is recorded once (OneRecordPerIntent).                           *)
THEOREM IntentRecordedOnce == Spec => []OneRecordPerIntent
<1>1. IInv => OneRecordPerIntent
  <2> SUFFICES ASSUME IInv, NEW r \in records, NEW s \in records, r.intent = s.intent
               PROVE  r = s
    BY DEF OneRecordPerIntent
  <2>1. r \in posts /\ s \in posts /\ ClaimsOK /\ RecordsUnique
    BY DEF posts, IInv, CallsOK
  <2>2. r.key = s.key /\ r.path = s.path
    BY <2>1, SameClaim
  <2> QED
    BY <2>1, <2>2 DEF RecordsUnique
<1> QED
  BY <1>1, KeysNameClaims, PTL

(* A key is never used for two intents, be they on the way or recorded     *)
(* (KeyNamesOneIntent).                                                    *)
THEOREM KeyOfOneIntent == Spec => []KeyNamesOneIntent
<1>1. IInv => KeyNamesOneIntent
  <2> SUFFICES ASSUME IInv, NEW q \in posts, NEW r \in posts, q.key = r.key
               PROVE  /\ q.intent = r.intent /\ q.path = r.path
                      /\ q.path # "transactions" => q.body = r.body
    BY DEF KeyNamesOneIntent
  <2> QED
    BY SameClaim DEF IInv
<1> QED
  BY <1>1, KeysNameClaims, PTL

(* A retry is never told of a conflict with what its own first attempt has *)
(* done (RetryNeverRefused).                                               *)
THEOREM RetryAccepted == Spec => []RetryNeverRefused
<1>1. IInv => RetryNeverRefused
  <2> SUFFICES ASSUME IInv, NEW c \in Calls, call[c].state = "conflict",
                      NEW r \in records, r.intent = call[c].request.intent
               PROVE  r.body # call[c].request.body
    BY DEF RetryNeverRefused
  <2>1. call[c].request.key # NoKey /\ ~replays(call[c].request)
    BY DEF IInv, CallsOK, AnswersStand
  <2>2. r \in posts /\ call[c].request \in posts
    BY <2>1 DEF posts
  <2>3. r.key = call[c].request.key /\ r.path = call[c].request.path
    BY <2>2, SameClaim DEF IInv
  <2> QED
    BY <2>1, <2>3 DEF replays, sameKey
<1> QED
  BY <1>1, KeysNameClaims, PTL

(* What the user is told has been saved is recorded as he was told         *)
(* (ToldIsRecorded).                                                       *)
THEOREM ToldRecorded == Spec => []ToldIsRecorded
<1>1. IInv => ToldIsRecorded
  BY DEF IInv
<1> QED
  BY <1>1, KeysNameClaims, PTL
--------------------------------------------------------------------------------
(* What the lists of the open page have to show: what was told of them.    *)
toldOf(list) == {q \in told : listOf(q) = list}

(* The latest request of a list is under way, or was answered after all    *)
(* that was told.                                                          *)
LatestOK(list) ==
  LET c == hook[list].latest
  IN  /\ c \in Calls /\ call[c].request = listRequest(list)
      /\ \/ call[c].state = "sent"
         \/ call[c].state = "ok" /\ toldOf(list) \subseteq call[c].data

ListOK(list) ==
  /\ hook[list].loading \in BOOLEAN /\ hook[list].error \in BOOLEAN
  /\ hook[list].loading <=> hook[list].latest # NoCall
  /\ hook[list].latest # NoCall => LatestOK(list)
  /\ shown(list) => toldOf(list) \subseteq hook[list].data
  /\ list \notin listsOf(page) => hook[list] = Unmounted

(* What a handler awaits is a request of its own page.                     *)
OwnRequests ==
  /\ \A f \in Forms : form[f].phase = "posting" => call[form[f].call].request.path = f
  /\ tx.posting # NoCall => call[tx.posting].request.path \in {"transactions", "reversals"}
  /\ ai.saving # NoCall => call[ai.saving].request.path = "transactions"

ScreenInv ==
  /\ page \in PageNames /\ OwnRequests
  /\ \A q \in told : q.path \in Paths
  /\ \A list \in Lists : ListOK(list)

(* The types, with what they rest on: names of categories come from forms. *)
CategoriesNamed ==
  \A q \in posts : q.path = "categories" => q.body \in {<<name>> : name \in Names}
TypeInv ==
  /\ FormsType /\ TxType /\ AiType /\ ai.text \in Texts
  /\ visits \in 1 .. MaxVisits /\ CategoriesNamed
--------------------------------------------------------------------------------
(* No call is the number that stands for none.                             *)
LEMMA CallNumbers == NoCall \notin Calls /\ 1 \in Calls /\ 2 \in Calls
<1>1. Cardinality(Calls) \in Nat
  BY WebAssumption, FS_CardinalityType
<1> QED
  BY <1>1, WebAssumption DEF NoCall

(* The latest request of a list is a load that is under way.               *)
LEMMA LatestIsLoad ==
  ASSUME ScreenInv, NEW list \in Lists, hook[list].latest # NoCall
  PROVE  LET c == hook[list].latest
         IN  /\ c \in Calls /\ isLoad(c) /\ call[c].state # "idle" /\ ~awaitsPost(c)
             /\ call[c].request = listRequest(list) /\ call[c].request.path = list
<1>1. LatestOK(list)
  BY DEF ScreenInv, ListOK
<1>2. listRequest(list).path = list /\ listRequest(list).key = NoKey
  BY DEF listRequest
<1> QED
  BY <1>1, <1>2, WebAssumption DEF LatestOK, isLoad, awaitsPost

(* A list with nothing new, and whose request goes on, is as it was.       *)
LEMMA ListStays ==
  ASSUME NEW list \in Lists, ListOK(list), hook'[list] = hook[list], page' = page,
         toldOf(list)' = toldOf(list),
         hook[list].latest # NoCall => call'[hook[list].latest] = call[hook[list].latest]
  PROVE  ListOK(list)'
<1>1. hook'[list].latest # NoCall => LatestOK(list)'
  BY DEF ListOK, LatestOK
<1> QED
  BY <1>1 DEF ListOK, shown

(* Nothing happens to the lists and what they wait for.                    *)
LEMMA ListsStay ==
  ASSUME ScreenInv, UNCHANGED <<hook, told, page>>, OwnRequests',
         \A d \in Calls : isLoad(d) /\ call[d].state # "idle" => call'[d] = call[d]
  PROVE  ScreenInv'
<1>1. ASSUME NEW list \in Lists PROVE ListOK(list)'
  <2>1. hook[list].latest # NoCall => call'[hook[list].latest] = call[hook[list].latest]
    BY LatestIsLoad
  <2>2. toldOf(list)' = toldOf(list)
    BY DEF toldOf, listOf
  <2> QED
    BY <2>1, <2>2, ListStays DEF ScreenInv
<1> QED
  BY <1>1 DEF ScreenInv

(* Something happens to one list.                                          *)
LEMMA OneListChanges ==
  ASSUME ScreenInv, page' = page, OwnRequests', \A q \in told' : q.path \in Paths,
         NEW list \in Lists, ListOK(list)',
         \A m \in Lists \ {list} :
           /\ hook'[m] = hook[m] /\ toldOf(m)' = toldOf(m)
           /\ hook[m].latest # NoCall => call'[hook[m].latest] = call[hook[m].latest]
  PROVE  ScreenInv'
<1>1. ASSUME NEW m \in Lists, m # list PROVE ListOK(m)'
  BY <1>1, ListStays DEF ScreenInv
<1> QED
  BY <1>1 DEF ScreenInv

(* Handlers await the requests they did while the pages stay as they are.  *)
LEMMA OwnRequestsStay ==
  ASSUME IInv, ScreenInv, CallsGoOn, UNCHANGED <<form, tx, ai>>
  PROVE  OwnRequests'
<1>1. HandlersOK /\ OwnRequests
  BY DEF IInv, PagesOK, ScreenInv
<1>2. \A c : awaitsPost(c) => call'[c].request = call[c].request
  BY DEF CallsGoOn, UnderWay, awaitsPost
<1> QED
  BY <1>1, <1>2 DEF OwnRequests, HandlersOK

(* What was told is in an answer read now.                                 *)
LEMMA ReadHasTold ==
  ASSUME IInv, ScreenInv, NEW list \in Lists
  PROVE  toldOf(list) \subseteq contents(list)
<1>1. \A q \in told : q \in records /\ q.path \in Paths
  BY DEF IInv, ToldIsRecorded, ScreenInv
<1>2. \A q \in told : listOf(q) = list => q.path \in pathsOf(list)
  BY <1>1 DEF listOf, pathsOf, Paths, Lists
<1> QED
  BY <1>1, <1>2 DEF toldOf, contents

(* The services.                                                           *)
LEMMA ServiceShows ==
  ASSUME IInv, ScreenInv, Service
  PROVE  ScreenInv'
<1>1. UNCHANGED <<hook, page, told, form, tx, ai>>
  BY DEF Service, pageVars
<1>2. PICK c \in Calls : Read(c) \/ (~isLoad(c) /\ (Served(c) \/ Fail({c})))
  BY DEF Service
<1>3. CallsGoOn
  BY <1>2, ReadKeeps, AcceptKeeps, RefuseKeeps, LoseAnswerKeeps, GiveUpKeeps, FailKeeps
     DEF Served, IInv
<1>4. OwnRequests'
  BY <1>1, <1>3, OwnRequestsStay
<1>5. CallShape
  BY DEF IInv, CallsOK
<1>6. \A d \in Calls : d # c => call'[d] = call[d]
  BY <1>2, <1>5 DEF CallShape, Served, Read, Accept, Refuse, LoseAnswer, GiveUp, Fail
<1>7. CASE ~isLoad(c)
  BY <1>1, <1>4, <1>6, <1>7, ListsStay
<1>8. CASE isLoad(c)
  <2>0. PICK list : list = call[c].request.path
    OBVIOUS
  <2>1. Read(c) /\ list \in Lists
    BY <1>2, <1>8, <2>0 DEF isLoad
  <2>2. call'[c] = [state |-> "ok", request |-> call[c].request, data |-> contents(list)]
    BY <1>5, <2>0, <2>1 DEF Read, CallShape
  <2>3. toldOf(list)' = toldOf(list) /\ toldOf(list) \subseteq contents(list)
    BY <1>1, <2>1, ReadHasTold DEF toldOf, listOf
  <2>4. ListOK(list)'
    <3>1. CASE hook[list].latest # c
      BY <1>1, <1>6, <2>1, <2>3, <3>1, LatestIsLoad, ListStays DEF ScreenInv
    <3>2. CASE hook[list].latest = c
      <4>1. LatestOK(list)'
        <5>1. call[c].request = listRequest(list)
          BY <2>1, <3>2, CallNumbers, LatestIsLoad
        <5>2. hook'[list].latest = c /\ call'[c].state = "ok" /\ call'[c].data = contents(list)
              /\ call'[c].request = listRequest(list)
          BY <1>1, <2>2, <3>2, <5>1
        <5> QED
          BY <2>3, <5>2 DEF LatestOK, listRequest
      <4> QED
        BY <1>1, <2>1, <2>3, <4>1 DEF ScreenInv, ListOK, shown
    <3> QED
      BY <3>1, <3>2
  <2>5. \A m \in Lists \ {list} : hook[m].latest # NoCall => hook[m].latest # c
    BY <2>0, LatestIsLoad
  <2>6. \A m \in Lists : hook[m].latest # NoCall => hook[m].latest \in Calls
    BY LatestIsLoad
  <2>7. \A m \in Lists \ {list} :
           /\ hook'[m] = hook[m] /\ toldOf(m)' = toldOf(m)
           /\ hook[m].latest # NoCall => call'[hook[m].latest] = call[hook[m].latest]
    BY <1>1, <1>6, <2>5, <2>6 DEF toldOf, listOf
  <2>8. page' = page /\ \A q \in told' : q.path \in Paths
    BY <1>1 DEF ScreenInv
  <2> QED
    BY <1>4, <2>1, <2>4, <2>7, <2>8, OneListChanges
<1> QED
  BY <1>7, <1>8

(* A request is executed after its caller has given up.                    *)
LEMMA ServiceLateShows ==
  ASSUME IInv, ScreenInv, ServiceLate
  PROVE  ScreenInv'
<1>1. UNCHANGED <<call, hook, page, told, form, tx, ai>>
  BY DEF ServiceLate, ExecuteLate, pageVars
<1>2. OwnRequests'
  BY <1>1 DEF ScreenInv, OwnRequests
<1> QED
  BY <1>1, <1>2, ListsStay

(* Nothing happens but on the page.                                        *)
LEMMA PageOnlyShows ==
  ASSUME ScreenInv, UNCHANGED <<callVars, hook, pageVars>>, OwnRequests'
  PROVE  ScreenInv'
<1>1. UNCHANGED <<call, hook, page, told>>
  BY DEF callVars, pageVars
<1> QED
  BY <1>1, ListsStay

(* A load is sent that becomes the latest of its list.                     *)
LEMMA NewLoadShows ==
  ASSUME IInv, ScreenInv, NEW list \in Lists, list \in listsOf(page), page' = page,
         NEW c \in Calls, call[c].state = "idle", hook' = refreshed(list, c),
         call'[c] = sent(listRequest(list)),
         \A d \in Calls : isLoad(d) /\ call[d].state # "idle" => call'[d] = call[d],
         \A m \in Lists \ {list} : toldOf(m)' = toldOf(m),
         OwnRequests', \A q \in told' : q.path \in Paths
  PROVE  ScreenInv'
<1>1. /\ \A m \in Lists \ {list} : hook'[m] = hook[m]
      /\ hook'[list] = [data |-> hook[list].data, loading |-> TRUE, error |-> FALSE, latest |-> c]
  BY DEF IInv, HookOK, HookShape, refreshed
<1>2. ListOK(list)'
  <2>1. LatestOK(list)'
    BY <1>1 DEF LatestOK, sent, listRequest
  <2> QED
    BY <1>1, <2>1, CallNumbers DEF ListOK, shown
<1>3. \A m \in Lists : hook[m].latest # NoCall => call'[hook[m].latest] = call[hook[m].latest]
  BY LatestIsLoad
<1> QED
  BY <1>1, <1>2, <1>3, OneListChanges

(* A list that could not be loaded is loaded again.                        *)
LEMMA RetryLoadShows ==
  ASSUME IInv, ScreenInv, NEW list \in Lists, RetryLoad(list),
         UNCHANGED <<pageVars, form, tx, ai>>
  PROVE  ScreenInv'
<1>1. PICK c : c = freeCall
  OBVIOUS
<1>2. c \in Calls /\ call[c].state = "idle"
  BY <1>1, FreeCall DEF RetryLoad
<1>3. UNCHANGED <<page, told>>
  BY DEF pageVars
<1>4. \A d \in Calls : call'[d] = IF d = c THEN sent(listRequest(list)) ELSE call[d]
  BY <1>1 DEF RetryLoad, Send, IInv, CallsOK, CallShape
<1>5. CallsGoOn
  <2>1. listRequest(list).key = NoKey
    BY DEF listRequest
  <2> QED
    BY <2>1, SendReads DEF RetryLoad, IInv
<1>6. OwnRequests'
  BY <1>5, OwnRequestsStay
<1>7. list \in listsOf(page)
  BY DEF RetryLoad, ScreenInv, ListOK, Unmounted
<1>8. hook' = refreshed(list, c)
  BY <1>1 DEF RetryLoad
<1>9. \A m \in Lists : toldOf(m)' = toldOf(m)
  BY <1>3 DEF toldOf, listOf
<1> QED
  BY <1>2, <1>3, <1>4, <1>6, <1>7, <1>8, <1>9, NewLoadShows DEF ScreenInv

(* A load is over, and no handler of a post waited for it.                 *)
LEMMA OwnRequestsAfterLoad ==
  ASSUME IInv, ScreenInv, NEW c \in Calls, isLoad(c), call' = [call EXCEPT ![c] = Idle],
         form' = resumed(c), UNCHANGED <<tx, ai>>
  PROVE  OwnRequests'
<1>1. HandlersOK /\ OwnRequests /\ FormShape /\ CallShape
  BY DEF IInv, PagesOK, ScreenInv, CallsOK
<1>2. \A f \in Forms : form'[f].phase = "posting" =>
                         form[f].phase = "posting" /\ form'[f].call = form[f].call
  BY <1>1 DEF FormShape, resumed
<1>3. \A d : awaitsPost(d) => call'[d] = call[d]
  BY <1>1 DEF awaitsPost, isLoad, CallShape
<1> QED
  BY <1>1, <1>2, <1>3 DEF OwnRequests, HandlersOK

(* A load ends whose list shows the answer, if it was the latest.          *)
LEMMA LoadEndShows ==
  ASSUME IInv, ScreenInv, NEW c \in Calls, isLoad(c), call[c].state # "idle",
         call' = [call EXCEPT ![c] = Idle], form' = resumed(c), UNCHANGED <<pageVars, tx, ai>>,
         NEW shows, NEW failed \in BOOLEAN, NEW list, list = call[c].request.path,
         hook' = IF hook[list].latest # c THEN hook
                 ELSE [hook EXCEPT ![list] = [data |-> shows, loading |-> FALSE,
                                              error |-> failed, latest |-> NoCall]],
         ~failed /\ hook[list].latest = c => toldOf(list) \subseteq shows
  PROVE  ScreenInv'
<1>1. OwnRequests' /\ UNCHANGED <<page, told>> /\ list \in Lists
  BY OwnRequestsAfterLoad DEF pageVars, isLoad
<1>2. \A d \in Calls : call'[d] = IF d = c THEN Idle ELSE call[d]
  BY DEF IInv, CallsOK, CallShape
<1>3. \A m \in Lists : toldOf(m)' = toldOf(m)
  BY <1>1 DEF toldOf, listOf
<1>4. \A m \in Lists \ {list} :
        /\ hook'[m] = hook[m] /\ toldOf(m)' = toldOf(m)
        /\ hook[m].latest # NoCall => call'[hook[m].latest] = call[hook[m].latest]
  <2>1. \A m \in Lists \ {list} : hook'[m] = hook[m]
    BY DEF IInv, HookOK, HookShape
  <2>2. \A m \in Lists : hook[m].latest # NoCall =>
          hook[m].latest \in Calls /\ call[hook[m].latest].request.path = m
    BY LatestIsLoad
  <2>3. \A m \in Lists \ {list} : hook[m].latest # NoCall =>
          call'[hook[m].latest] = call[hook[m].latest]
    BY <1>2, <2>2
  <2> QED
    BY <1>3, <2>1, <2>3
<1>5. ListOK(list)'
  <2>1. CASE hook[list].latest # c
    <3>1. hook'[list] = hook[list]
      BY <2>1
    <3>2. hook[list].latest # NoCall => call'[hook[list].latest] = call[hook[list].latest]
      BY <1>1, <1>2, <2>1, LatestIsLoad
    <3> QED
      BY <1>1, <1>3, <3>1, <3>2, ListStays DEF ScreenInv
  <2>2. CASE hook[list].latest = c
    <3>1. hook'[list] = [data |-> shows, loading |-> FALSE, error |-> failed, latest |-> NoCall]
      BY <1>1, <2>2 DEF IInv, HookOK, HookShape
    <3>2. list \in listsOf(page)
      BY <1>1, <2>2, CallNumbers DEF ScreenInv, ListOK, Unmounted
    <3>3. /\ hook'[list].data = shows /\ hook'[list].loading = FALSE
          /\ hook'[list].error = failed /\ hook'[list].latest = NoCall
      BY <3>1
    <3>4. shown(list)' => toldOf(list)' \subseteq hook'[list].data
      BY <1>1, <1>3, <2>2, <3>3 DEF shown
    <3>5. list \in listsOf(page')
      BY <1>1, <3>2
    <3> QED
      BY <1>1, <3>3, <3>4, <3>5 DEF ListOK
  <2> QED
    BY <2>1, <2>2
<1>6. \A q \in told' : q.path \in Paths
  BY <1>1 DEF ScreenInv
<1> QED
  BY <1>1, <1>4, <1>5, <1>6, OneListChanges

(* A list is loaded: the answer to its latest request has all it was told. *)
LEMMA LoadReturnsShows ==
  ASSUME IInv, ScreenInv, NEW c \in Calls, LoadReturns(c)
  PROVE  ScreenInv'
<1>1. PICK list, shows : list = call[c].request.path /\ shows = call[c].data
  OBVIOUS
<1>2. /\ isLoad(c) /\ call[c].state = "ok" /\ form' = resumed(c)
      /\ call' = [call EXCEPT ![c] = Idle] /\ UNCHANGED <<pageVars, tx, ai>> /\ list \in Lists
      /\ hook' = IF hook[list].latest # c THEN hook
                 ELSE [hook EXCEPT ![list] = [data |-> shows, loading |-> FALSE,
                                              error |-> FALSE, latest |-> NoCall]]
  BY <1>1 DEF LoadReturns, Return, isLoad, settled
<1>3. hook[list].latest = c => toldOf(list) \subseteq shows
  BY <1>1, <1>2, CallNumbers DEF ScreenInv, ListOK, LatestOK
<1> QED
  BY <1>1, <1>2, <1>3, LoadEndShows

(* A list fails to load: what it shows is not taken for complete.          *)
LEMMA LoadFailsShows ==
  ASSUME IInv, ScreenInv, NEW c \in Calls, LoadFails(c)
  PROVE  ScreenInv'
<1>1. PICK list, shows : list = call[c].request.path /\ shows = hook[list].data
  OBVIOUS
<1>2. /\ isLoad(c) /\ call[c].state = "sent" /\ form' = resumed(c)
      /\ call' = [call EXCEPT ![c] = Idle] /\ UNCHANGED <<pageVars, tx, ai>>
      /\ hook' = IF hook[list].latest # c THEN hook
                 ELSE [hook EXCEPT ![list] = [data |-> shows, loading |-> FALSE,
                                              error |-> TRUE, latest |-> NoCall]]
  BY <1>1 DEF LoadFails, failedToLoad
<1> QED
  BY <1>1, <1>2, LoadEndShows
--------------------------------------------------------------------------------
(* A call is sent that is not a load; no list is concerned.                *)
LEMMA SendShows ==
  ASSUME IInv, ScreenInv, NEW c, NEW q, Send(c, q), UNCHANGED <<hook, told, page>>, OwnRequests'
  PROVE  ScreenInv'
<1>1. \A d \in Calls : d # c => call'[d] = call[d]
  BY DEF Send, IInv, CallsOK, CallShape
<1>2. call[c].state = "idle"
  BY DEF Send
<1> QED
  BY <1>1, <1>2, ListsStay

(* A post, or a draft, has come back; no list is concerned.                *)
LEMMA ReturnShows ==
  ASSUME IInv, ScreenInv, NEW c, ~isLoad(c), call' = [call EXCEPT ![c] = Idle],
         UNCHANGED <<hook, told, page>>, OwnRequests'
  PROVE  ScreenInv'
<1>1. \A d \in Calls : d # c => call'[d] = call[d]
  BY DEF IInv, CallsOK, CallShape
<1> QED
  BY <1>1, ListsStay

(* A post has come back, the user is told, and its list is loaded anew.    *)
LEMMA PostEndShows ==
  ASSUME IInv, ScreenInv, NEW c, awaitsPost(c), NEW list \in Lists, returnAndLoad(c, list),
         told' = told \cup {call[c].request}, page' = page, list \in listsOf(page),
         listOf(call[c].request) = list, call[c].request.path \in Paths, OwnRequests'
  PROVE  ScreenInv'
<1>1. PICK d : d = freeCall
  OBVIOUS
<1>2. /\ d \in Calls /\ call[d].state = "idle" /\ d # c /\ hook' = refreshed(list, d)
      /\ call' = [call EXCEPT ![c] = Idle, ![d] = sent(listRequest(list))]
  BY <1>1, FreeCall DEF returnAndLoad, awaitsPost
<1>3. \A b \in Calls : call'[b] = IF b = d THEN sent(listRequest(list))
                                 ELSE IF b = c THEN Idle ELSE call[b]
  BY <1>2 DEF IInv, CallsOK, CallShape
<1>4. ~isLoad(c)
  BY DEF isLoad, awaitsPost
<1>5. \A b \in Calls : isLoad(b) /\ call[b].state # "idle" => call'[b] = call[b]
  BY <1>2, <1>3, <1>4
<1>6. \A m \in Lists \ {list} : toldOf(m)' = toldOf(m)
  BY DEF toldOf, listOf
<1>7. \A q \in told' : q.path \in Paths
  BY DEF ScreenInv
<1> QED
  BY <1>2, <1>3, <1>5, <1>6, <1>7, NewLoadShows
--------------------------------------------------------------------------------
(* While a form's page is open nothing else awaits an answer to a post.    *)
LEMMA FormAlone ==
  ASSUME IInv, NEW f \in Forms, page = f
  PROVE  /\ \A g \in Forms \ {f} : form[g].phase # "posting"
         /\ tx.posting = NoCall /\ ai.saving = NoCall
BY DEF IInv, PagesOK, HandlersOK, Forms

(* A form is submitted.                                                    *)
LEMMA SubmitShows ==
  ASSUME IInv, ScreenInv, NEW f \in Forms, Submit(f), UNCHANGED <<tx, ai>>
  PROVE  ScreenInv'
<1>1. PICK c, q, key, intent : /\ c = freeCall /\ q = Post(f, key, body(f), intent)
                               /\ key = keyOf(form[f].key) /\ intent = intentOf(form[f].intent)
  OBVIOUS
<1>2. /\ Send(c, q) /\ c \in Calls /\ UNCHANGED <<hook, told, page>> /\ page = f
      /\ form' = [form EXCEPT ![f] = [content |-> form[f].content, key |-> key,
                                      intent |-> intent, phase |-> "posting", call |-> c]]
  BY <1>1, FreeCall DEF Submit
<1>3. call'[c].request.path = f
  BY <1>1, <1>2 DEF Send, sent, Post, IInv, CallsOK, CallShape
<1>4. /\ form'[f].call = c
      /\ \A g \in Forms \ {f} : form'[g] = form[g]
  BY <1>2 DEF IInv, PagesOK, FormShape
<1>5. OwnRequests'
  BY <1>2, <1>3, <1>4, FormAlone DEF OwnRequests
<1> QED
  BY <1>2, <1>5, SendShows

(* A form has been saved.                                                  *)
LEMMA SavedShows ==
  ASSUME IInv, ScreenInv, NEW f \in Forms, Saved(f), UNCHANGED <<tx, ai>>
  PROVE  ScreenInv'
<1>1. PICK c, d : c = form[f].call /\ d = hook'[f].latest
  OBVIOUS
<1>2. /\ form[f].phase = "posting" /\ told' = told \cup {call[c].request}
      /\ returnAndLoad(c, f) /\ page' = page
      /\ form' = [form EXCEPT ![f] = [content |-> form[f].content, key |-> NoKey, intent |-> 0,
                                      phase |-> "refreshing", call |-> d]]
  BY <1>1 DEF Saved
<1>3. page = f /\ awaitsPost(c) /\ call[c].request.path = f
  BY <1>1, <1>2 DEF IInv, PagesOK, HandlersOK, ScreenInv, OwnRequests
<1>4. /\ form'[f].phase = "refreshing"
      /\ \A g \in Forms \ {f} : form'[g] = form[g]
  BY <1>2 DEF IInv, PagesOK, FormShape
<1>5. OwnRequests'
  BY <1>3, <1>4, FormAlone DEF OwnRequests
<1>6. /\ f \in Lists /\ f \in listsOf(page) /\ listOf(call[c].request) = f
      /\ call[c].request.path \in Paths
  BY <1>3 DEF Forms, Lists, listsOf, listOf, Paths
<1> QED
  BY <1>2, <1>3, <1>5, <1>6, PostEndShows

(* A form has not been saved.                                              *)
LEMMA NotSavedShows ==
  ASSUME IInv, ScreenInv, NEW f \in Forms, NotSaved(f), UNCHANGED <<tx, ai>>
  PROVE  ScreenInv'
<1>1. PICK c : c = form[f].call
  OBVIOUS
<1>2. /\ form[f].phase = "posting" /\ call' = [call EXCEPT ![c] = Idle]
      /\ UNCHANGED <<hook, told, page>>
      /\ form' = [form EXCEPT ![f] = [content |-> form[f].content, key |-> form[f].key,
                                      intent |-> form[f].intent, phase |-> "editing",
                                      call |-> NoCall]]
  BY <1>1 DEF NotSaved, Return, pageVars
<1>3. page = f /\ ~isLoad(c)
  BY <1>1, <1>2 DEF IInv, PagesOK, HandlersOK, awaitsPost, isLoad
<1>4. /\ form'[f].phase = "editing"
      /\ \A g \in Forms \ {f} : form'[g] = form[g]
  BY <1>2 DEF IInv, PagesOK, FormShape
<1>5. OwnRequests'
  BY <1>3, <1>4, FormAlone DEF OwnRequests
<1> QED
  BY <1>2, <1>3, <1>5, ReturnShows

(* A form is changed, which it cannot be while it is being submitted.      *)
LEMMA ChangeShows ==
  ASSUME IInv, ScreenInv, NEW f \in Forms, NEW content, Change(f, content), UNCHANGED <<tx, ai>>
  PROVE  ScreenInv'
<1>1. /\ form'[f].phase = form[f].phase /\ form[f].phase = "editing"
      /\ \A g \in Forms \ {f} : form'[g] = form[g]
  BY DEF Change, IInv, PagesOK, FormShape
<1>2. UNCHANGED <<call, tx, ai>> /\ UNCHANGED <<callVars, hook, pageVars>>
  BY DEF Change, callVars
<1>3. OwnRequests'
  BY <1>1, <1>2 DEF ScreenInv, OwnRequests
<1> QED
  BY <1>2, <1>3, PageOnlyShows

(* The steps of the forms.                                                 *)
LEMMA FormsShow ==
  ASSUME IInv, ScreenInv, FormsNext, UNCHANGED <<tx, ai>>
  PROVE  ScreenInv'
BY SubmitShows, SavedShows, NotSavedShows, ChangeShows DEF FormsNext
--------------------------------------------------------------------------------
(* While the transactions page is open nobody else awaits a post.          *)
LEMMA TxAlone ==
  ASSUME IInv, page = "transactions"
  PROVE  (\A f \in Forms : form[f].phase # "posting") /\ ai.saving = NoCall
BY DEF IInv, PagesOK, HandlersOK, Forms

(* The transactions page without its calls.                                *)
LEMMA TxKeepsShowing ==
  ASSUME IInv, ScreenInv, UNCHANGED <<callVars, hook, pageVars>>, UNCHANGED <<form, ai>>,
         tx'.posting = tx.posting
  PROVE  ScreenInv'
<1>1. UNCHANGED call
  BY DEF callVars
<1>2. OwnRequests'
  BY <1>1 DEF ScreenInv, OwnRequests
<1> QED
  BY <1>2, PageOnlyShows

(* An entry or a reversal is posted.                                       *)
LEMMA ConfirmTxShows ==
  ASSUME IInv, ScreenInv, ConfirmTransaction \/ ConfirmReversal, UNCHANGED <<form, ai>>
  PROVE  ScreenInv'
<1>1. PICK c : c = freeCall
  OBVIOUS
<1>2. PICK q : Send(c, q) /\ q.path \in {"transactions", "reversals"}
  BY <1>1 DEF ConfirmTransaction, ConfirmReversal, Post
<1>3. c \in Calls /\ UNCHANGED <<hook, told, page>> /\ tx.dialog.kind # "none"
  BY <1>1, FreeCall DEF ConfirmTransaction, ConfirmReversal
<1>4. tx'.posting = c
  <2>1. CASE ConfirmTransaction
    BY <1>1, <2>1 DEF ConfirmTransaction, IInv, PagesOK, TxShape
  <2>2. CASE ConfirmReversal
    <3>1. PICK entry, record :
            tx' = [tx EXCEPT !.reversals[entry] = record, !.posting = c]
      BY <1>1, <2>2 DEF ConfirmReversal
    <3> QED
      BY <3>1 DEF IInv, PagesOK, TxShape
  <2> QED
    BY <2>1, <2>2
<1>5. page = "transactions"
  BY <1>3 DEF IInv, PagesOK, HandlersOK
<1>6. call'[c].request = q
  BY <1>2, <1>3 DEF Send, sent, IInv, CallsOK, CallShape
<1>7. OwnRequests'
  BY <1>2, <1>4, <1>5, <1>6, TxAlone DEF OwnRequests
<1> QED
  BY <1>2, <1>3, <1>7, SendShows

(* An entry or a reversal has been posted.                                 *)
LEMMA PostedShows ==
  ASSUME IInv, ScreenInv, Posted, UNCHANGED <<form, ai>>
  PROVE  ScreenInv'
<1>1. PICK c : c = tx.posting
  OBVIOUS
<1>2. /\ c # NoCall /\ told' = told \cup {call[c].request}
      /\ returnAndLoad(c, "transactions") /\ page' = page
  BY <1>1 DEF Posted
<1>3. /\ page = "transactions" /\ awaitsPost(c)
      /\ call[c].request.path \in {"transactions", "reversals"}
  BY <1>1, <1>2 DEF IInv, PagesOK, HandlersOK, ScreenInv, OwnRequests
<1>4. tx'.posting = NoCall
  <2>1. CASE tx.dialog.kind = "entry"
    BY <2>1 DEF Posted, IInv, PagesOK, TxShape
  <2>2. CASE tx.dialog.kind # "entry"
    <3>1. PICK entry, record :
            tx' = [tx EXCEPT !.reversals[entry] = record, !.dialog = NoDialog, !.posting = NoCall]
      BY <2>2 DEF Posted
    <3> QED
      BY <3>1 DEF IInv, PagesOK, TxShape
  <2> QED
    BY <2>1, <2>2
<1>5. OwnRequests'
  BY <1>3, <1>4, TxAlone DEF OwnRequests
<1>6. /\ "transactions" \in Lists /\ "transactions" \in listsOf(page)
      /\ listOf(call[c].request) = "transactions" /\ call[c].request.path \in Paths
  BY <1>3 DEF Lists, listsOf, listOf, Paths
<1> QED
  BY <1>2, <1>3, <1>5, <1>6, PostEndShows

(* An entry or a reversal has not been posted.                             *)
LEMMA NotPostedShows ==
  ASSUME IInv, ScreenInv, NotPosted, UNCHANGED <<form, ai>>
  PROVE  ScreenInv'
<1>1. PICK c : c = tx.posting
  OBVIOUS
<1>2. /\ c # NoCall /\ call' = [call EXCEPT ![c] = Idle] /\ UNCHANGED <<hook, told, page>>
      /\ tx' = [tx EXCEPT !.posting = NoCall]
  BY <1>1 DEF NotPosted, Return, pageVars
<1>3. page = "transactions" /\ ~isLoad(c)
  BY <1>1, <1>2 DEF IInv, PagesOK, HandlersOK, awaitsPost, isLoad
<1>4. tx'.posting = NoCall
  BY <1>2 DEF IInv, PagesOK, TxShape
<1>5. OwnRequests'
  BY <1>3, <1>4, TxAlone DEF OwnRequests
<1> QED
  BY <1>2, <1>3, <1>5, ReturnShows

(* The steps of the transactions page.                                     *)
LEMMA TxShows ==
  ASSUME IInv, ScreenInv, TxNext, UNCHANGED <<form, ai>>
  PROVE  ScreenInv'
<1>1. CASE \/ \E choice \in Names : ChangeDraft(choice)
           \/ \E r \in loaded : AskReversal(r)
           \/ Review \/ Cancel
  <2>1. UNCHANGED <<callVars, hook, pageVars>>
    BY <1>1 DEF ChangeDraft, AskReversal, Review, Cancel
  <2>2. tx'.posting = tx.posting
    BY <1>1 DEF ChangeDraft, AskReversal, Review, Cancel, IInv, PagesOK, TxShape
  <2> QED
    BY <2>1, <2>2, TxKeepsShowing
<1> QED
  BY <1>1, ConfirmTxShows, PostedShows, NotPostedShows DEF TxNext
--------------------------------------------------------------------------------
(* While the AI page is open nobody else awaits a post.                    *)
LEMMA AiAlone ==
  ASSUME IInv, page = "ai"
  PROVE  (\A f \in Forms : form[f].phase # "posting") /\ tx.posting = NoCall
BY DEF IInv, PagesOK, HandlersOK, Forms

(* The AI page without its calls.                                          *)
LEMMA AiKeepsShowing ==
  ASSUME IInv, ScreenInv, UNCHANGED <<callVars, hook, pageVars>>, UNCHANGED <<form, tx>>,
         ai'.saving = ai.saving
  PROVE  ScreenInv'
<1>1. UNCHANGED call
  BY DEF callVars
<1>2. OwnRequests'
  BY <1>1 DEF ScreenInv, OwnRequests
<1> QED
  BY <1>2, PageOnlyShows

(* A new draft is asked for, perhaps while the old one is being saved.     *)
LEMMA DraftShows ==
  ASSUME IInv, ScreenInv, Draft, UNCHANGED <<form, tx>>
  PROVE  ScreenInv'
<1>1. PICK c, q :
        c = freeCall /\ q = [path |-> "drafts", key |-> NoKey, body |-> <<>>, intent |-> 0]
  OBVIOUS
<1>2. Send(c, q) /\ call[c].state = "idle" /\ UNCHANGED <<hook, told, page>> /\ page = "ai"
  BY <1>1, FreeCall DEF Draft, pageVars
<1>3. ai'.saving = ai.saving
  BY DEF Draft, IInv, PagesOK, AiShape
<1>4. \A d \in Calls : d # c => call'[d] = call[d]
  BY <1>2 DEF Send, IInv, CallsOK, CallShape
<1>5. ai.saving # NoCall => ai.saving \in Calls /\ ai.saving # c
  BY <1>2 DEF IInv, PagesOK, HandlersOK, awaitsPost
<1>6. OwnRequests'
  BY <1>2, <1>3, <1>4, <1>5, AiAlone DEF ScreenInv, OwnRequests
<1> QED
  BY <1>2, <1>6, SendShows

(* The AI draft is posted.                                                 *)
LEMMA ConfirmShows ==
  ASSUME IInv, ScreenInv, Confirm, UNCHANGED <<form, tx>>
  PROVE  ScreenInv'
<1>1. PICK c : c = freeCall
  OBVIOUS
<1>2. PICK q : Send(c, q) /\ q.path = "transactions"
  BY <1>1 DEF Confirm, Post
<1>3. c \in Calls /\ UNCHANGED <<hook, told, page>>
  BY <1>1, FreeCall DEF Confirm
<1>4. ai'.saving = c
  BY <1>1 DEF Confirm, IInv, PagesOK, AiShape
<1>5. page = "ai"
  BY DEF Confirm, hasDraft, IInv, PagesOK, HandlersOK
<1>6. call'[c].request = q
  BY <1>2, <1>3 DEF Send, sent, IInv, CallsOK, CallShape
<1>7. OwnRequests'
  BY <1>2, <1>4, <1>5, <1>6, AiAlone DEF OwnRequests
<1> QED
  BY <1>2, <1>3, <1>7, SendShows

(* A draft comes back, or does not; a draft may be being saved meanwhile.  *)
LEMMA DraftedShows ==
  ASSUME IInv, ScreenInv, NotDrafted \/ \E amount : Drafted(amount), UNCHANGED <<form, tx>>
  PROVE  ScreenInv'
<1>1. PICK c : c = ai.drafting
  OBVIOUS
<1>2. /\ c # NoCall /\ call' = [call EXCEPT ![c] = Idle] /\ UNCHANGED <<hook, told, page>>
  BY <1>1 DEF NotDrafted, Drafted, Return, pageVars
<1>3. ai'.saving = ai.saving
  BY DEF NotDrafted, Drafted, IInv, PagesOK, AiShape
<1>4. page = "ai" /\ ~isLoad(c)
  BY <1>1, <1>2 DEF IInv, PagesOK, HandlersOK, isLoad, Lists
<1>5. ai.saving # NoCall => ai.saving \in Calls /\ ai.saving # c
  BY <1>1, <1>2, AiCalls DEF awaitsPost
<1>6. \A d \in Calls : d # c => call'[d] = call[d]
  BY <1>2 DEF IInv, CallsOK, CallShape
<1>7. OwnRequests'
  BY <1>3, <1>4, <1>5, <1>6, AiAlone DEF ScreenInv, OwnRequests
<1> QED
  BY <1>2, <1>4, <1>7, ReturnShows

(* A draft has been saved: the list of entries is not on this page.        *)
LEMMA DraftSavedShows ==
  ASSUME IInv, ScreenInv, DraftSaved, UNCHANGED <<form, tx>>
  PROVE  ScreenInv'
<1>1. PICK c : c = ai.saving
  OBVIOUS
<1>2. /\ c # NoCall /\ call' = [call EXCEPT ![c] = Idle] /\ UNCHANGED <<hook, page>>
      /\ told' = told \cup {call[c].request}
  BY <1>1 DEF DraftSaved, Return
<1>3. /\ page = "ai" /\ ~isLoad(c) /\ call[c].request.path = "transactions"
  BY <1>1, <1>2 DEF IInv, PagesOK, HandlersOK, awaitsPost, isLoad, ScreenInv, OwnRequests
<1>4. ai'.saving = NoCall
  BY DEF DraftSaved, IInv, PagesOK, AiShape
<1>5. OwnRequests'
  BY <1>3, <1>4, AiAlone DEF OwnRequests
<1>6. \A q \in told' : q.path \in Paths
  BY <1>2, <1>3 DEF ScreenInv, Paths
<1>7. "transactions" \in Lists /\ "transactions" \notin listsOf(page)
  BY <1>3 DEF Lists, listsOf
<1>8. ListOK("transactions")'
  <2>1. hook'["transactions"] = Unmounted
    BY <1>2, <1>7 DEF ScreenInv, ListOK
  <2>2. ~shown("transactions")' /\ hook'["transactions"].latest = NoCall
        /\ hook'["transactions"].loading = FALSE /\ hook'["transactions"].error = FALSE
    BY <2>1 DEF Unmounted, shown
  <2> QED
    BY <2>1, <2>2 DEF ListOK
<1>9. \A m \in Lists \ {"transactions"} : toldOf(m)' = toldOf(m)
  BY <1>2, <1>3 DEF toldOf, listOf
<1>10. \A d \in Calls : d # c => call'[d] = call[d]
  BY <1>2 DEF IInv, CallsOK, CallShape
<1>11. \A m \in Lists : hook[m].latest # NoCall => call'[hook[m].latest] = call[hook[m].latest]
  BY <1>3, <1>10, LatestIsLoad
<1> QED
  BY <1>2, <1>5, <1>6, <1>7, <1>8, <1>9, <1>11, OneListChanges

(* A draft has not been saved.                                             *)
LEMMA DraftNotSavedShows ==
  ASSUME IInv, ScreenInv, DraftNotSaved, UNCHANGED <<form, tx>>
  PROVE  ScreenInv'
<1>1. PICK c : c = ai.saving
  OBVIOUS
<1>2. /\ c # NoCall /\ call' = [call EXCEPT ![c] = Idle] /\ UNCHANGED <<hook, told, page>>
  BY <1>1 DEF DraftNotSaved, Return, pageVars
<1>3. ai'.saving = NoCall
  BY DEF DraftNotSaved, IInv, PagesOK, AiShape
<1>4. page = "ai" /\ ~isLoad(c)
  BY <1>1, <1>2 DEF IInv, PagesOK, HandlersOK, awaitsPost, isLoad
<1>5. OwnRequests'
  BY <1>3, <1>4, AiAlone DEF OwnRequests
<1> QED
  BY <1>2, <1>4, <1>5, ReturnShows

(* The steps of the AI page.                                               *)
LEMMA AiShows ==
  ASSUME IInv, ScreenInv, AiNext, UNCHANGED <<form, tx>>
  PROVE  ScreenInv'
<1>1. CASE \/ \E text \in Texts : Type(text)
           \/ \E amount \in Amounts : EditDraft(amount)
           \/ Discard
  <2>1. UNCHANGED <<callVars, hook, pageVars>>
    BY <1>1 DEF Type, EditDraft, Discard
  <2>2. ai'.saving = ai.saving
    BY <1>1 DEF Type, EditDraft, Discard, IInv, PagesOK, AiShape
  <2> QED
    BY <2>1, <2>2, AiKeepsShowing
<1> QED
  BY <1>1, DraftShows, ConfirmShows, DraftedShows, DraftSavedShows, DraftNotSavedShows DEF AiNext
--------------------------------------------------------------------------------
(* A page that has just been opened loads each of its lists.               *)
LEMMA OpenedPage ==
  page \in PageNames /\ hook = opened(page) /\ call = loading(page)
    => \A list \in Lists : ListOK(list)
<1> SUFFICES ASSUME page \in PageNames, hook = opened(page), call = loading(page)
             PROVE  \A list \in Lists : ListOK(list)
  OBVIOUS
<1>1. ASSUME NEW list \in Lists, list \notin listsOf(page) PROVE ListOK(list)
  <2>1. hook[list] = Unmounted
    BY <1>1 DEF opened
  <2> QED
    BY <2>1 DEF ListOK, Unmounted, shown
<1>2. ASSUME NEW list \in Lists, list \in listsOf(page) PROVE ListOK(list)
  <2>1. PICK c : c = mountCall(page, list)
    OBVIOUS
  <2>2. c \in Calls
    BY <2>1, CallNumbers DEF mountCall
  <2>3. page \in AllPages
    BY WebAssumption
  <2>4. \A m \in listsOf(page) : c = mountCall(page, m) => m = list
    BY <1>2, <2>1, <2>3 DEF AllPages, listsOf, mountCall
  <2>5. call[c] = sent(listRequest(list))
    <3>1. (CHOOSE m \in listsOf(page) : c = mountCall(page, m)) = list
      BY <1>2, <2>1, <2>4
    <3> QED
      BY <1>2, <2>1, <2>2, <3>1 DEF loading
  <2>6. hook[list] = mounted(c)
    BY <1>2, <2>1 DEF opened
  <2>7. LatestOK(list)
    BY <2>2, <2>5, <2>6 DEF LatestOK, mounted, sent
  <2> QED
    BY <1>2, <2>2, <2>6, <2>7, CallNumbers DEF ListOK, mounted, shown
<1> QED
  BY <1>1, <1>2

(* Fresh pages await nothing.                                              *)
LEMMA FreshAwaitNothing ==
  form = [f \in Forms |-> FreshForm] /\ tx = FreshTx /\ ai = FreshAi => OwnRequests
BY DEF OwnRequests, FreshForm, FreshTx, FreshAi

(* The first page opens, and nothing was told yet.                         *)
LEMMA InitScreen == Init => ScreenInv
<1> SUFFICES ASSUME Init PROVE ScreenInv
  OBVIOUS
<1>1. /\ page \in PageNames /\ hook = opened(page) /\ call = loading(page) /\ told = {}
      /\ form = [f \in Forms |-> FreshForm] /\ tx = FreshTx /\ ai = FreshAi
  BY DEF Init, PagesInit, FormsInit, TxInit, AiInit
<1> QED
  BY <1>1, OpenedPage, FreshAwaitNothing DEF ScreenInv

(* The user goes to another page.                                          *)
LEMMA NavigateShows ==
  ASSUME ScreenInv, NEW p \in PageNames, Navigate(p)
  PROVE  ScreenInv'
<1>1. (page \in PageNames /\ hook = opened(page) /\ call = loading(page)
         => \A list \in Lists : ListOK(list))'
  BY OpenedPage, PTL
<1>2. (form = [f \in Forms |-> FreshForm] /\ tx = FreshTx /\ ai = FreshAi => OwnRequests)'
  BY FreshAwaitNothing, PTL
<1>3. \A list \in Lists : ListOK(list)'
  BY <1>1 DEF Navigate, Leave
<1>4. OwnRequests'
  BY <1>2 DEF Navigate, FreshForm, FreshTx, FreshAi
<1> QED
  BY <1>3, <1>4 DEF Navigate, Leave, ScreenInv

(* Every step keeps the lists as they have to be.                          *)
LEMMA StepKeepsScreen == IInv /\ ScreenInv /\ [Next]_vars => ScreenInv'
<1> SUFFICES ASSUME IInv, ScreenInv, [Next]_vars PROVE ScreenInv'
  OBVIOUS
<1>1. CASE \E p \in PageNames : Navigate(p)
  BY <1>1, NavigateShows
<1>2. CASE \E list \in Lists : RetryLoad(list) /\ UNCHANGED <<pageVars, form, tx, ai>>
  BY <1>2, RetryLoadShows
<1>3. CASE \E c \in Calls : LoadReturns(c) \/ LoadFails(c)
  BY <1>3, LoadReturnsShows, LoadFailsShows
<1>4. CASE FormsNext /\ UNCHANGED <<tx, ai>>
  BY <1>4, FormsShow
<1>5. CASE TxNext /\ UNCHANGED <<form, ai>>
  BY <1>5, TxShows
<1>6. CASE AiNext /\ UNCHANGED <<form, tx>>
  BY <1>6, AiShows
<1>7. CASE Service \/ ServiceLate
  BY <1>7, ServiceShows, ServiceLateShows
<1>8. CASE UNCHANGED vars
  <2>1. UNCHANGED <<callVars, hook, pageVars>> /\ UNCHANGED <<form, tx, ai>>
    BY <1>8 DEF vars
  <2> QED
    BY <2>1, TxKeepsShowing
<1> QED
  BY <1>1, <1>2, <1>3, <1>4, <1>5, <1>6, <1>7, <1>8 DEF Next

(* The lists are as they have to be in every state.                        *)
LEMMA ScreenInvariant == Spec => [](IInv /\ ScreenInv)
<1>1. Init => IInv /\ ScreenInv
  BY InitIInv, InitScreen
<1>2. IInv /\ ScreenInv /\ [Next]_vars => (IInv /\ ScreenInv)'
  BY StepKeepsIInv, StepKeepsScreen
<1> QED
  BY <1>1, <1>2, PTL DEF Spec

(* However loads, retries and answers overlap, a list on the screen shows  *)
(* all the user was told has been saved (ShowsWhatItSaved).                *)
THEOREM ListsShowSaved == Spec => []ShowsWhatItSaved
<1>1. ScreenInv => ShowsWhatItSaved
  BY DEF ScreenInv, ListOK, ShowsWhatItSaved, toldOf
<1> QED
  BY <1>1, ScreenInvariant, PTL
--------------------------------------------------------------------------------
(* The least of some numbers is one of them.                               *)
LEMMA MinIsMember ==
  ASSUME NEW S, S \subseteq Nat, S # {}
  PROVE  Min(S) \in S
<1>1. PICK x \in S : \A y \in S : ~ (<<y, x>> \in OpToRel(<, Nat))
  BY NatLessThanWellFounded, WFMin, Zenon
<1>2. \A y \in S : x <= y
  <2> SUFFICES ASSUME NEW y \in S, ~(x <= y) PROVE FALSE
    OBVIOUS
  <2>1. x \in Nat /\ y \in Nat /\ y < x
    OBVIOUS
  <2>2. <<y, x>> \in OpToRel(<, Nat)
    BY <2>1 DEF OpToRel
  <2> QED
    BY <1>1, <2>2
<1> QED
  BY <1>2 DEF Min

(* Keys and intents stay within what was minted.                           *)
LEMMA MintTypes ==
  ASSUME ClaimsOK, NEW k \in 0 .. MaxKeys, NEW i \in 0 .. intents, mint(k, i)
  PROVE  /\ keyOf(k) \in 0 .. MaxKeys /\ intentOf(i) \in 0 .. intents'
         /\ intents' \in Nat /\ intents <= intents'
<1>1. MaxKeys \in Nat /\ minted \in Nat /\ intents \in Nat
  BY WebAssumption DEF ClaimsOK
<1> QED
  BY <1>1 DEF mint, mayMint, keyOf, intentOf, NoKey

(* Types of what stays the same while intents grow.                        *)
LEMMA FormsTypeGrows ==
  ASSUME FormsType, intents \in Nat, intents' \in Nat, intents <= intents', form' = form
  PROVE  FormsType'
<1>1. 0 .. intents \subseteq 0 .. intents'
  OBVIOUS
<1> QED
  BY <1>1 DEF FormsType

(* The types of the two other pages grow with the intents likewise.        *)
LEMMA TxTypeGrows ==
  ASSUME TxType, intents \in Nat, intents' \in Nat, intents <= intents', tx' = tx
  PROVE  TxType'
<1>1. 0 .. intents \subseteq 0 .. intents'
  OBVIOUS
<1>2. [1 .. MaxKeys -> [key : 0 .. MaxKeys, intent : 0 .. intents]] \subseteq
      [1 .. MaxKeys -> [key : 0 .. MaxKeys, intent : 0 .. intents']]
  BY <1>1
<1> QED
  BY <1>1, <1>2 DEF TxType

(* The same for the AI page.                                               *)
LEMMA AiTypeGrows ==
  ASSUME AiType, intents \in Nat, intents' \in Nat, intents <= intents', ai' = ai
  PROVE  AiType'
<1>1. 0 .. intents \subseteq 0 .. intents'
  OBVIOUS
<1> QED
  BY <1>1 DEF AiType

(* Posts that are not new are named as they were.                          *)
LEMMA CategoriesStay ==
  ASSUME CategoriesNamed, NEW q, posts' \subseteq posts \cup {q},
         q \in posts \/ q.path # "categories" \/ \E name \in Names : q.body = <<name>>
  PROVE  CategoriesNamed'
BY DEF CategoriesNamed

(* The list to choose a category from has names of categories.             *)
LEMMA AllowedAreNames ==
  ASSUME IInv, TypeInv
  PROVE  /\ allowedCategories \subseteq Names
         /\ allowedCategories # {} => selectedCategory \in Names
<1>1. loaded \subseteq posts
  BY DEF loaded, posts, IInv, HookOK, Lists
<1>2. allowedCategories \subseteq Names
  <2>1. ASSUME NEW r \in loaded, r.path = "categories" PROVE r.body[1] \in Names
    <3>1. PICK name \in Names : r.body = <<name>>
      BY <1>1, <2>1 DEF TypeInv, CategoriesNamed
    <3> QED
      BY <3>1
  <2> QED
    BY <2>1 DEF allowedCategories
<1>3. Names \subseteq Nat
  BY WebAssumption
<1> QED
  BY <1>2, <1>3, MinIsMember DEF selectedCategory

(* Fresh pages have their types.                                           *)
LEMMA FreshTypes ==
  ASSUME intents \in Nat
  PROVE  /\ form = [f \in Forms |-> FreshForm] => FormsType
         /\ tx = FreshTx => TxType
         /\ ai = FreshAi => AiType /\ ai.text \in Texts
<1>1. Min(Contents) \in Contents /\ Min(Amounts) \in Amounts
  BY WebAssumption, MinIsMember
<1>2. MaxKeys \in Nat /\ FirstText \in Texts
  BY WebAssumption
<1>3. form = [f \in Forms |-> FreshForm] => FormsType
  BY <1>1, <1>2 DEF FormsType, FreshForm, NoKey
<1>4. tx = FreshTx => TxType
  BY <1>2 DEF TxType, FreshTx, NoKey
<1>5. ai = FreshAi => AiType /\ ai.text \in Texts
  BY <1>1, <1>2 DEF AiType, FreshAi, NoKey
<1> QED
  BY <1>3, <1>4, <1>5

(* One form takes a new value of the type.                                 *)
LEMMA FormSetTypes ==
  ASSUME FormsType, intents \in Nat, intents' \in Nat, intents <= intents',
         NEW f \in Forms, NEW e, form' = [form EXCEPT ![f] = e],
         e \in [content : Contents, key : 0 .. MaxKeys, intent : 0 .. intents',
                phase : {"editing", "posting", "refreshing"}, call : Calls \cup {NoCall}]
  PROVE  FormsType'
<1>1. 0 .. intents \subseteq 0 .. intents'
  OBVIOUS
<1>2. \A g \in Forms : form'[g] = IF g = f THEN e ELSE form[g]
  BY DEF FormsType
<1>3. \A g \in Forms : form[g] \in
        [content : Contents, key : 0 .. MaxKeys, intent : 0 .. intents',
         phase : {"editing", "posting", "refreshing"}, call : Calls \cup {NoCall}]
  BY <1>1 DEF FormsType
<1>4. form' = [g \in Forms |-> form'[g]]
  BY DEF FormsType
<1> QED
  BY <1>2, <1>3, <1>4 DEF FormsType

(* What a form is: the fields of its record.                               *)
LEMMA FormFields ==
  ASSUME FormsType, NEW f \in Forms
  PROVE  /\ form[f].content \in Contents /\ form[f].key \in 0 .. MaxKeys
         /\ form[f].intent \in 0 .. intents
BY DEF FormsType

(* A form is submitted.                                                    *)
LEMMA SubmitTypes ==
  ASSUME IInv, TypeInv, NEW f \in Forms, Submit(f), UNCHANGED <<tx, ai>>
  PROVE  TypeInv'
<1>1. PICK c, key, intent, what :
        /\ c = freeCall /\ key = keyOf(form[f].key) /\ intent = intentOf(form[f].intent)
        /\ what = body(f)
  OBVIOUS
<1>2. /\ c \in Calls /\ mint(form[f].key, form[f].intent) /\ Send(c, Post(f, key, what, intent))
      /\ form' = [form EXCEPT ![f] = [content |-> form[f].content, key |-> key,
                                      intent |-> intent, phase |-> "posting", call |-> c]]
      /\ visits' = visits
  BY <1>1, FreeCall DEF Submit
<1>3. ClaimsOK /\ CallsOK /\ FormsType /\ intents \in Nat
  BY DEF IInv, TypeInv, ClaimsOK
<1>4. /\ key \in 0 .. MaxKeys /\ intent \in 0 .. intents'
      /\ intents' \in Nat /\ intents <= intents'
  BY <1>1, <1>2, <1>3, FormFields, MintTypes
<1>5. FormsType'
  BY <1>2, <1>3, <1>4, FormFields, FormSetTypes
<1>6. CategoriesNamed'
  <2>1. key # NoKey
    BY <1>1, <1>3, KeyMinted DEF keyOf
  <2>2. isPost(Post(f, key, what, intent)) /\ Post(f, key, what, intent).key # NoKey
    BY <2>1 DEF isPost, Post
  <2>3. posts' \subseteq posts \cup {Post(f, key, what, intent)}
    BY <1>2, <1>3, <2>2, SendPosts
  <2>4. \E name \in Names : Post(f, key, what, intent).body = <<name>>
    BY <1>1, <1>3, FormFields, WebAssumption DEF body, Post
  <2> QED
    BY <2>3, <2>4, CategoriesStay DEF TypeInv
<1> QED
  BY <1>2, <1>3, <1>4, <1>5, <1>6, TxTypeGrows, AiTypeGrows DEF TypeInv

(* A step that mints and posts nothing, and keeps the types of its page.   *)
LEMMA QuietTypes ==
  ASSUME IInv, TypeInv, posts' \subseteq posts, UNCHANGED <<intents, visits>>,
         form' # form => FormsType', tx' # tx => TxType',
         ai' # ai => AiType' /\ ai'.text \in Texts
  PROVE  TypeInv'
<1>1. intents \in Nat /\ intents' \in Nat /\ intents <= intents'
  BY DEF IInv, ClaimsOK
<1>2. FormsType' /\ TxType' /\ AiType'
  BY <1>1, FormsTypeGrows, TxTypeGrows, AiTypeGrows DEF TypeInv
<1>3. CategoriesNamed'
  BY DEF TypeInv, CategoriesNamed
<1> QED
  BY <1>2, <1>3 DEF TypeInv

(* A form has been saved.                                                  *)
LEMMA SavedTypes ==
  ASSUME IInv, ScreenInv, TypeInv, NEW f \in Forms, Saved(f), UNCHANGED <<tx, ai>>
  PROVE  TypeInv'
<1>1. PICK c, d : c = form[f].call /\ d = freeCall
  OBVIOUS
<1>2. d \in Calls /\ hook' = refreshed(f, d)
      /\ call' = [call EXCEPT ![c] = Idle, ![d] = sent(listRequest(f))]
      /\ UNCHANGED <<records, late, visits, intents>>
  BY <1>1, FreeCall DEF Saved, returnAndLoad
<1>3. hook'[f].latest = d
  BY <1>2 DEF IInv, HookOK, HookShape, refreshed, Forms, Lists
<1>4. form' = [form EXCEPT ![f] = [content |-> form[f].content, key |-> NoKey, intent |-> 0,
                                   phase |-> "refreshing", call |-> d]]
  BY <1>3 DEF Saved
<1>5. intents \in Nat /\ MaxKeys \in Nat
  BY WebAssumption DEF IInv, ClaimsOK
<1>6. FormsType'
  <2> DEFINE e == [content |-> form[f].content, key |-> NoKey, intent |-> 0,
                   phase |-> "refreshing", call |-> d]
  <2>1. e \in [content : Contents, key : 0 .. MaxKeys, intent : 0 .. intents',
               phase : {"editing", "posting", "refreshing"}, call : Calls \cup {NoCall}]
    BY <1>2, <1>5, FormFields DEF TypeInv, NoKey
  <2>2. FormsType /\ form' = [form EXCEPT ![f] = e]
    BY <1>4 DEF TypeInv
  <2>3. intents' \in Nat /\ intents <= intents'
    BY <1>2, <1>5
  <2> HIDE DEF e
  <2> QED
    BY <1>5, <2>1, <2>2, <2>3, FormSetTypes
<1>7. posts' \subseteq posts
  BY <1>2, ReturnKeeps DEF IInv
<1> QED
  BY <1>2, <1>6, <1>7, QuietTypes

(* A form has not been saved.                                              *)
LEMMA NotSavedTypes ==
  ASSUME IInv, TypeInv, NEW f \in Forms, NotSaved(f), UNCHANGED <<tx, ai>>
  PROVE  TypeInv'
<1>1. PICK c : c = form[f].call
  OBVIOUS
<1>2. /\ call' = [call EXCEPT ![c] = Idle] /\ UNCHANGED <<records, late, visits, intents>>
      /\ form' = [form EXCEPT ![f] = [content |-> form[f].content, key |-> form[f].key,
                                      intent |-> form[f].intent, phase |-> "editing",
                                      call |-> NoCall]]
  BY <1>1 DEF NotSaved, Return, pageVars
<1>3. intents \in Nat
  BY DEF IInv, ClaimsOK
<1>4. FormsType'
  <2> DEFINE e == [content |-> form[f].content, key |-> form[f].key,
                   intent |-> form[f].intent, phase |-> "editing", call |-> NoCall]
  <2>1. e \in [content : Contents, key : 0 .. MaxKeys, intent : 0 .. intents',
               phase : {"editing", "posting", "refreshing"}, call : Calls \cup {NoCall}]
    BY <1>2, FormFields DEF TypeInv
  <2>2. FormsType /\ form' = [form EXCEPT ![f] = e]
    BY <1>2 DEF TypeInv
  <2>3. intents' \in Nat /\ intents <= intents'
    BY <1>2, <1>3
  <2> HIDE DEF e
  <2> QED
    BY <1>3, <2>1, <2>2, <2>3, FormSetTypes
<1>5. posts' \subseteq posts
  BY <1>2, ReturnKeeps DEF IInv
<1> QED
  BY <1>2, <1>4, <1>5, QuietTypes

(* Nothing is sent while nothing happens but on the page.                  *)
LEMMA PageOnlyTypes ==
  ASSUME IInv, TypeInv, UNCHANGED <<callVars, hook, pageVars>>,
         form' # form => FormsType', tx' # tx => TxType',
         ai' # ai => AiType' /\ ai'.text \in Texts
  PROVE  TypeInv'
<1>1. UNCHANGED <<records, call, late, intents, visits>>
  BY DEF callVars, pageVars
<1>2. posts' = posts
  BY <1>1 DEF posts
<1> QED
  BY <1>1, <1>2, QuietTypes

(* A form is changed.                                                      *)
LEMMA ChangeTypes ==
  ASSUME IInv, TypeInv, NEW f \in Forms, NEW content \in Contents, Change(f, content),
         UNCHANGED <<tx, ai>>
  PROVE  TypeInv'
<1>1. PICK c : c = form[f].call
  OBVIOUS
<1>2. /\ UNCHANGED <<callVars, hook, pageVars>> /\ c \in Calls \cup {NoCall}
      /\ form' = [form EXCEPT ![f] = [content |-> content, key |-> NoKey, intent |-> 0,
                                      phase |-> "editing", call |-> c]]
  BY <1>1 DEF Change, TypeInv, FormsType
<1>3. intents \in Nat /\ intents' = intents /\ MaxKeys \in Nat
  BY <1>2, WebAssumption DEF IInv, ClaimsOK, pageVars
<1>4. FormsType'
  <2> DEFINE e == [content |-> content, key |-> NoKey, intent |-> 0,
                   phase |-> "editing", call |-> c]
  <2>1. e \in [content : Contents, key : 0 .. MaxKeys, intent : 0 .. intents',
               phase : {"editing", "posting", "refreshing"}, call : Calls \cup {NoCall}]
    BY <1>2, <1>3 DEF NoKey
  <2>2. FormsType /\ form' = [form EXCEPT ![f] = e]
    BY <1>2 DEF TypeInv
  <2>3. intents' \in Nat /\ intents <= intents'
    BY <1>3
  <2> HIDE DEF e
  <2> QED
    BY <1>3, <2>1, <2>2, <2>3, FormSetTypes
<1> QED
  BY <1>2, <1>4, PageOnlyTypes

(* The steps of the forms.                                                 *)
LEMMA FormsKeepTypes ==
  ASSUME IInv, ScreenInv, TypeInv, FormsNext, UNCHANGED <<tx, ai>>
  PROVE  TypeInv'
BY SubmitTypes, SavedTypes, NotSavedTypes, ChangeTypes DEF FormsNext
--------------------------------------------------------------------------------
(* A load ends.                                                            *)
LEMMA LoadEndTypes ==
  ASSUME IInv, TypeInv, NEW c \in Calls, LoadReturns(c) \/ LoadFails(c)
  PROVE  TypeInv'
<1>1. /\ call' = [call EXCEPT ![c] = Idle] /\ form' = resumed(c)
      /\ UNCHANGED <<records, late, intents, visits, tx, ai>>
  BY DEF LoadReturns, LoadFails, Return, pageVars
<1>2. posts' \subseteq posts
  BY <1>1, ReturnKeeps DEF IInv
<1>3. FormsType'
  BY <1>1 DEF TypeInv, FormsType, resumed
<1> QED
  BY <1>1, <1>2, <1>3, QuietTypes

(* A load is sent, or the services work.                                   *)
LEMMA ServiceTypes ==
  ASSUME IInv, TypeInv,
         \/ Service \/ ServiceLate
         \/ \E list \in Lists : RetryLoad(list) /\ UNCHANGED <<pageVars, form, tx, ai>>
  PROVE  TypeInv'
<1>1. UNCHANGED <<intents, visits, form, tx, ai>>
  BY DEF Service, ServiceLate, pageVars
<1>2. posts' \subseteq posts
  <2>1. CASE Service
    <3>1. PICK c \in Calls : Read(c) \/ Served(c) \/ Fail({c})
      BY <2>1 DEF Service
    <3> QED
      BY <3>1, ReadKeeps, AcceptKeeps, RefuseKeeps, LoseAnswerKeeps, GiveUpKeeps, FailKeeps
         DEF Served, IInv
  <2>2. CASE ServiceLate
    BY <2>2, ExecuteLateKeeps DEF ServiceLate, IInv
  <2>3. CASE \E list \in Lists : RetryLoad(list)
    <3>1. \A list : listRequest(list).key = NoKey
      BY DEF listRequest
    <3> QED
      BY <2>3, <3>1, SendReads DEF RetryLoad, IInv
  <2> QED
    BY <2>1, <2>2, <2>3
<1> QED
  BY <1>1, <1>2, QuietTypes
--------------------------------------------------------------------------------
(* What may be asked to be confirmed.                                      *)
Dialogs == {NoDialog} \cup [kind : {"entry"}, body : {<<n>> : n \in Names}]
                      \cup [kind : {"reversal"}, body : {<<k>> : k \in 1 .. MaxKeys}]

(* The fields of the transactions page.                                    *)
LEMMA TxFields ==
  ASSUME TxType
  PROVE  /\ tx = [choice |-> tx.choice, key |-> tx.key, intent |-> tx.intent,
                  dialog |-> tx.dialog, posting |-> tx.posting, reversals |-> tx.reversals]
         /\ tx.dialog \in Dialogs
         /\ tx.choice \in Names \cup {NoChoice} /\ tx.key \in 0 .. MaxKeys
         /\ tx.intent \in 0 .. intents /\ tx.posting \in Calls \cup {NoCall}
         /\ tx.reversals \in [1 .. MaxKeys -> [key : 0 .. MaxKeys, intent : 0 .. intents]]
         /\ \A e \in 1 .. MaxKeys : /\ tx.reversals[e].key \in 0 .. MaxKeys
                                    /\ tx.reversals[e].intent \in 0 .. intents
BY DEF TxType, Dialogs

(* Its state is of the type again if each field is.                        *)
LEMMA TxRecord ==
  ASSUME NEW choice \in Names \cup {NoChoice}, NEW key \in 0 .. MaxKeys,
         NEW intent \in 0 .. intents', NEW dialog \in Dialogs, NEW posting \in Calls \cup {NoCall},
         NEW reversals \in [1 .. MaxKeys -> [key : 0 .. MaxKeys, intent : 0 .. intents']],
         tx' = [choice |-> choice, key |-> key, intent |-> intent, dialog |-> dialog,
                posting |-> posting, reversals |-> reversals]
  PROVE  TxType'
BY DEF TxType, Dialogs

(* The transactions page without its calls.                                *)
LEMMA TxPageTypes ==
  ASSUME IInv, TypeInv, UNCHANGED <<form, ai>>,
         \/ \E choice \in Names : ChangeDraft(choice)
         \/ \E r \in loaded : AskReversal(r)
         \/ Review \/ Cancel
  PROVE  TypeInv'
<1>1. UNCHANGED <<callVars, hook, pageVars>> /\ intents' = intents
  BY DEF ChangeDraft, AskReversal, Review, Cancel, pageVars
<1>2. TxType /\ intents \in Nat /\ MaxKeys \in Nat
  BY WebAssumption DEF TypeInv, IInv, ClaimsOK
<1>3. CASE \E choice \in Names : ChangeDraft(choice)
  <2>1. PICK choice \in Names : tx' = [tx EXCEPT !.choice = choice, !.key = NoKey, !.intent = 0]
    BY <1>3 DEF ChangeDraft
  <2>2. tx' = [choice |-> choice, key |-> NoKey, intent |-> 0, dialog |-> tx.dialog,
               posting |-> tx.posting, reversals |-> tx.reversals]
    BY <1>2, <2>1, TxFields
  <2>3. NoKey \in 0 .. MaxKeys /\ 0 \in 0 .. intents'
    BY <1>1, <1>2 DEF NoKey
  <2>4. TxType'
    BY <1>1, <1>2, <2>2, <2>3, TxFields, TxRecord
  <2> QED
    BY <1>1, <2>4, PageOnlyTypes
<1>4. CASE \/ \E r \in loaded : AskReversal(r)
           \/ Review \/ Cancel
  <2>1. PICK d : tx' = [tx EXCEPT !.dialog = d]
                 /\ d \in Dialogs
    <3>1. CASE Cancel
      BY <3>1 DEF Cancel, Dialogs
    <3>2. CASE Review
      <4>1. selectedCategory \in Names
        BY <3>2, AllowedAreNames DEF Review
      <4>2. [kind |-> "entry", body |-> <<selectedCategory>>]
              \in [kind : {"entry"}, body : {<<n>> : n \in Names}]
        BY <4>1
      <4> QED
        BY <3>2, <4>2 DEF Review, Dialogs
    <3>3. CASE \E r \in loaded : AskReversal(r)
      <4>1. PICK r \in loaded : AskReversal(r)
        BY <3>3
      <4>2. r \in posts
        BY DEF loaded, posts, IInv, HookOK, Lists
      <4>3. claimOf(r).key = r.key /\ claimOf(r) \in claims
        BY <4>2 DEF claims, sentClaims, claimOf, Claim
      <4>4. r.key \in 1 .. MaxKeys
        BY <1>2, <4>3 DEF IInv, ClaimsOK
      <4>5. [kind |-> "reversal", body |-> <<r.key>>]
              \in [kind : {"reversal"}, body : {<<k>> : k \in 1 .. MaxKeys}]
        BY <4>4
      <4> QED
        BY <4>1, <4>5 DEF AskReversal, Dialogs
    <3> QED
      BY <1>4, <3>1, <3>2, <3>3
  <2>2. tx' = [choice |-> tx.choice, key |-> tx.key, intent |-> tx.intent, dialog |-> d,
               posting |-> tx.posting, reversals |-> tx.reversals]
    BY <1>2, <2>1, TxFields
  <2>3. TxType'
    BY <1>1, <1>2, <2>1, <2>2, TxFields, TxRecord
  <2> QED
    BY <1>1, <2>3, PageOnlyTypes
<1> QED
  BY <1>3, <1>4

(* A post of something other than a category.                              *)
LEMMA PostTypes ==
  ASSUME IInv, TypeInv, NEW c, NEW p, NEW k \in 0 .. MaxKeys, NEW i \in 0 .. intents, NEW what,
         NEW key, NEW intent, key = keyOf(k), intent = intentOf(i), mint(k, i),
         Send(c, Post(p, key, what, intent)), p # "categories"
  PROVE  /\ key \in 0 .. MaxKeys /\ intent \in 0 .. intents'
         /\ intents \in Nat /\ intents' \in Nat /\ intents <= intents' /\ CategoriesNamed'
<1>1. ClaimsOK /\ CallsOK /\ CategoriesNamed /\ intents \in Nat
  BY DEF IInv, TypeInv, ClaimsOK
<1>2. /\ key \in 0 .. MaxKeys /\ intent \in 0 .. intents'
      /\ intents' \in Nat /\ intents <= intents'
  BY <1>1, MintTypes
<1>3. key # NoKey
  BY <1>1, KeyMinted DEF keyOf
<1>4. isPost(Post(p, key, what, intent)) /\ Post(p, key, what, intent).key # NoKey
      /\ Post(p, key, what, intent).path = p
  BY <1>3 DEF isPost, Post
<1>5. posts' \subseteq posts \cup {Post(p, key, what, intent)}
  BY <1>1, <1>4, SendPosts
<1>6. CategoriesNamed'
  BY <1>1, <1>4, <1>5, CategoriesStay
<1> QED
  BY <1>1, <1>2, <1>6

(* An entry is posted.                                                     *)
LEMMA ConfirmTransactionTypes ==
  ASSUME IInv, TypeInv, ConfirmTransaction, UNCHANGED <<form, ai>>
  PROVE  TypeInv'
<1>1. PICK c, key, intent, what, k, i :
        /\ c = freeCall /\ key = keyOf(k) /\ intent = intentOf(i)
        /\ what = tx.dialog.body /\ k = tx.key /\ i = tx.intent
  OBVIOUS
<1>2. /\ c \in Calls /\ mint(k, i) /\ Send(c, Post("transactions", key, what, intent))
      /\ tx' = [tx EXCEPT !.key = key, !.intent = intent, !.posting = c] /\ visits' = visits
  BY <1>1, FreeCall DEF ConfirmTransaction
<1>3. TxType /\ k \in 0 .. MaxKeys /\ i \in 0 .. intents
  BY <1>1, TxFields DEF TypeInv
<1>4. /\ key \in 0 .. MaxKeys /\ intent \in 0 .. intents'
      /\ intents \in Nat /\ intents' \in Nat /\ intents <= intents' /\ CategoriesNamed'
  BY <1>1, <1>2, <1>3, PostTypes
<1>5. TxType'
  <2>1. [1 .. MaxKeys -> [key : 0 .. MaxKeys, intent : 0 .. intents]] \subseteq
        [1 .. MaxKeys -> [key : 0 .. MaxKeys, intent : 0 .. intents']]
    BY <1>4
  <2>2. tx' = [choice |-> tx.choice, key |-> key, intent |-> intent, dialog |-> tx.dialog,
               posting |-> c, reversals |-> tx.reversals]
    BY <1>2, <1>3, TxFields
  <2>3. /\ tx.reversals \in [1 .. MaxKeys -> [key : 0 .. MaxKeys, intent : 0 .. intents']]
        /\ tx.choice \in Names \cup {NoChoice} /\ tx.dialog \in Dialogs
        /\ c \in Calls \cup {NoCall}
    BY <1>2, <1>3, <2>1, TxFields
  <2> QED
    BY <1>4, <2>2, <2>3, TxRecord
<1> QED
  BY <1>2, <1>4, <1>5, FormsTypeGrows, AiTypeGrows DEF TypeInv

(* A reversal is posted.                                                   *)
LEMMA ConfirmReversalTypes ==
  ASSUME IInv, TypeInv, ConfirmReversal, UNCHANGED <<form, ai>>
  PROVE  TypeInv'
<1>1. PICK c, key, intent, what, entry, k, i :
        /\ c = freeCall /\ key = keyOf(k) /\ intent = intentOf(i)
        /\ what = tx.dialog.body /\ entry = tx.dialog.body[1]
        /\ k = tx.reversals[entry].key /\ i = tx.reversals[entry].intent
  OBVIOUS
<1>2. /\ c \in Calls /\ mint(k, i) /\ Send(c, Post("reversals", key, what, intent))
      /\ tx' = [tx EXCEPT !.reversals[entry] = [key |-> key, intent |-> intent], !.posting = c]
      /\ visits' = visits /\ tx.dialog.kind = "reversal"
  BY <1>1, FreeCall DEF ConfirmReversal
<1>3. entry \in 1 .. MaxKeys
  BY <1>1, <1>2 DEF IInv, PagesOK, HoldersOK
<1>4. TxType /\ k \in 0 .. MaxKeys /\ i \in 0 .. intents
  BY <1>1, <1>3, TxFields DEF TypeInv
<1>5. /\ key \in 0 .. MaxKeys /\ intent \in 0 .. intents'
      /\ intents \in Nat /\ intents' \in Nat /\ intents <= intents' /\ CategoriesNamed'
  BY <1>1, <1>2, <1>4, PostTypes
<1>6. TxType'
  <2>1. PICK reversals :
          /\ reversals = [tx.reversals EXCEPT ![entry] = [key |-> key, intent |-> intent]]
          /\ tx' = [tx EXCEPT !.reversals = reversals, !.posting = c]
    BY <1>2, <1>4 DEF TxType
  <2>2. tx.reversals \in [1 .. MaxKeys -> [key : 0 .. MaxKeys, intent : 0 .. intents']]
    BY <1>4, <1>5, TxFields
  <2>3. reversals \in [1 .. MaxKeys -> [key : 0 .. MaxKeys, intent : 0 .. intents']]
    BY <1>5, <2>1, <2>2
  <2>4. tx' = [choice |-> tx.choice, key |-> tx.key, intent |-> tx.intent, dialog |-> tx.dialog,
               posting |-> c, reversals |-> reversals]
    BY <1>4, <2>1, TxFields
  <2>5. /\ tx.intent \in 0 .. intents' /\ tx.key \in 0 .. MaxKeys
        /\ tx.choice \in Names \cup {NoChoice} /\ tx.dialog \in Dialogs
        /\ c \in Calls \cup {NoCall}
    BY <1>2, <1>4, <1>5, TxFields
  <2> QED
    BY <2>3, <2>4, <2>5, TxRecord
<1> QED
  BY <1>2, <1>5, <1>6, FormsTypeGrows, AiTypeGrows DEF TypeInv

(* A post of the page has come back.                                       *)
LEMMA PostedTypes ==
  ASSUME IInv, TypeInv, Posted \/ NotPosted, UNCHANGED <<form, ai>>
  PROVE  TypeInv'
<1>1. PICK c, d : c = tx.posting /\ d = freeCall
  OBVIOUS
<1>2. /\ UNCHANGED <<records, late, visits, intents>>
      /\ \/ call' = [call EXCEPT ![c] = Idle]
         \/ call' = [call EXCEPT ![c] = Idle, ![d] = sent(listRequest("transactions"))]
  BY <1>1 DEF Posted, NotPosted, Return, returnAndLoad, pageVars
<1>3. posts' \subseteq posts
  BY <1>2, ReturnKeeps DEF IInv
<1>4. TxType /\ intents \in Nat /\ MaxKeys \in Nat
  BY WebAssumption DEF TypeInv, IInv, ClaimsOK
<1>5. TxType'
  <2>1. PICK key, intent, dialog, reversals :
          /\ key \in 0 .. MaxKeys /\ intent \in 0 .. intents /\ dialog \in Dialogs
          /\ reversals \in [1 .. MaxKeys -> [key : 0 .. MaxKeys, intent : 0 .. intents]]
          /\ tx' = [choice |-> tx.choice, key |-> key, intent |-> intent, dialog |-> dialog,
                    posting |-> NoCall, reversals |-> reversals]
    <3>1. CASE NotPosted
      BY <1>4, <3>1, TxFields DEF NotPosted
    <3>2. CASE Posted /\ tx.dialog.kind = "entry"
      <4>1. tx' = [choice |-> tx.choice, key |-> 0, intent |-> 0, dialog |-> NoDialog,
                   posting |-> NoCall, reversals |-> tx.reversals]
        BY <1>4, <3>2, TxFields DEF Posted, NoKey
      <4>2. 0 \in 0 .. MaxKeys /\ 0 \in 0 .. intents /\ NoDialog \in Dialogs
        BY <1>4 DEF Dialogs
      <4> QED
        BY <1>4, <4>1, <4>2, TxFields
    <3>3. CASE Posted /\ tx.dialog.kind # "entry"
      <4>1. PICK entry, none : entry = tx.dialog.body[1] /\ none = [key |-> NoKey, intent |-> 0]
        OBVIOUS
      <4>2. tx' = [tx EXCEPT !.reversals[entry] = none, !.dialog = NoDialog, !.posting = NoCall]
        BY <3>3, <4>1 DEF Posted
      <4>3. tx' = [choice |-> tx.choice, key |-> tx.key, intent |-> tx.intent, dialog |-> NoDialog,
                   posting |-> NoCall, reversals |-> [tx.reversals EXCEPT ![entry] = none]]
        BY <1>4, <4>2, TxFields
      <4>4. none \in [key : 0 .. MaxKeys, intent : 0 .. intents]
        BY <1>4, <4>1 DEF NoKey
      <4>5. [tx.reversals EXCEPT ![entry] = none]
              \in [1 .. MaxKeys -> [key : 0 .. MaxKeys, intent : 0 .. intents]]
        BY <1>4, <4>4, TxFields
      <4> QED
        BY <1>4, <4>3, <4>5, TxFields DEF Dialogs
    <3> QED
      BY <3>1, <3>2, <3>3
  <2>2. tx.choice \in Names \cup {NoChoice} /\ NoCall \in Calls \cup {NoCall}
    BY <1>4, TxFields
  <2>3. intent \in 0 .. intents'
        /\ reversals \in [1 .. MaxKeys -> [key : 0 .. MaxKeys, intent : 0 .. intents']]
    BY <1>2, <2>1
  <2> QED
    BY <2>1, <2>2, <2>3, TxRecord
<1> QED
  BY <1>2, <1>3, <1>5, QuietTypes

(* The steps of the transactions page.                                     *)
LEMMA TxKeepsTypes ==
  ASSUME IInv, TypeInv, TxNext, UNCHANGED <<form, ai>>
  PROVE  TypeInv'
BY TxPageTypes, ConfirmTransactionTypes, ConfirmReversalTypes, PostedTypes DEF TxNext
--------------------------------------------------------------------------------
(* The fields of the AI page.                                              *)
LEMMA AiFields ==
  ASSUME AiType
  PROVE  /\ ai = [text |-> ai.text, source |-> ai.source, amount |-> ai.amount, key |-> ai.key,
                  intent |-> ai.intent, drafting |-> ai.drafting, from |-> ai.from,
                  saving |-> ai.saving, message |-> ai.message]
         /\ ai.source \in Texts \cup {NoText} /\ ai.amount \in Amounts /\ ai.key \in 0 .. MaxKeys
         /\ ai.intent \in 0 .. intents /\ ai.drafting \in Calls \cup {NoCall}
         /\ ai.from \in Texts \cup {NoText} /\ ai.saving \in Calls \cup {NoCall}
         /\ ai.message \in {"none", "saved", "discarded"}
BY DEF AiType

(* What the page starts with is of its type.                               *)
LEMMA AiConstants ==
  ASSUME IInv
  PROVE  /\ NoKey \in 0 .. MaxKeys /\ Min(Amounts) \in Amounts /\ 0 \in 0 .. intents
         /\ \A text \in Texts : Trim[text] \in Texts \cup {NoText}
<1>1. NoKey \in 0 .. MaxKeys
  BY WebAssumption DEF NoKey
<1>2. Amounts \subseteq Nat /\ Amounts # {}
  BY WebAssumption
<1>3. Min(Amounts) \in Amounts
  BY <1>2, MinIsMember
<1>4. 0 \in 0 .. intents
  BY DEF IInv, ClaimsOK
<1>5. \A text \in Texts : Trim[text] \in Texts \cup {NoText}
  BY WebAssumption
<1> QED
  BY <1>1, <1>3, <1>4, <1>5

(* The AI page without its posts.                                          *)
LEMMA AiPageTypes ==
  ASSUME IInv, TypeInv, UNCHANGED <<form, tx>>,
         \/ \E text \in Texts : Type(text)
         \/ \E amount \in Amounts : EditDraft(amount)
         \/ Discard
  PROVE  TypeInv'
<1>1. UNCHANGED <<callVars, hook, pageVars>> /\ intents' = intents
  BY DEF Type, EditDraft, Discard, pageVars
<1>2. /\ AiType /\ ai.text \in Texts /\ NoKey \in 0 .. MaxKeys /\ Min(Amounts) \in Amounts
  BY AiConstants DEF TypeInv
<1>3. PICK text, source, amount, key, message :
        /\ text \in Texts /\ source \in Texts \cup {NoText} /\ amount \in Amounts
        /\ key \in 0 .. MaxKeys /\ message \in {"none", "saved", "discarded"}
        /\ ai' = [text |-> text, source |-> source, amount |-> amount, key |-> key,
                  intent |-> ai.intent, drafting |-> ai.drafting, from |-> ai.from,
                  saving |-> ai.saving, message |-> message]
  <2>1. CASE \E text \in Texts : Type(text)
    <3>1. PICK text \in Texts : Type(text)
      BY <2>1
    <3>2. ai' = [text |-> text, source |-> ai.source, amount |-> ai.amount, key |-> ai.key,
                 intent |-> ai.intent, drafting |-> ai.drafting, from |-> ai.from,
                 saving |-> ai.saving, message |-> ai.message]
      BY <1>2, <3>1, AiFields DEF Type
    <3> QED
      BY <1>2, <3>2, AiFields
  <2>2. CASE \E amount \in Amounts : EditDraft(amount)
    BY <1>2, <2>2, AiFields DEF EditDraft
  <2>3. CASE Discard
    <3>1. ai' = [text |-> ai.text, source |-> NoText, amount |-> Min(Amounts), key |-> NoKey,
                 intent |-> ai.intent, drafting |-> ai.drafting, from |-> ai.from,
                 saving |-> ai.saving, message |-> "discarded"]
      BY <1>2, <2>3, AiFields DEF Discard
    <3>2. NoText \in Texts \cup {NoText} /\ "discarded" \in {"none", "saved", "discarded"}
      OBVIOUS
    <3> QED
      BY <1>2, <3>1, <3>2
  <2> QED
    BY <2>1, <2>2, <2>3
<1>4. /\ ai.intent \in 0 .. intents' /\ ai.drafting \in Calls \cup {NoCall}
      /\ ai.from \in Texts \cup {NoText} /\ ai.saving \in Calls \cup {NoCall}
  BY <1>1, <1>2, AiFields
<1>5. AiType' /\ ai'.text \in Texts
  BY <1>3, <1>4 DEF AiType
<1> QED
  BY <1>1, <1>5, PageOnlyTypes

(* The draft is posted.                                                    *)
LEMMA ConfirmTypes ==
  ASSUME IInv, TypeInv, Confirm, UNCHANGED <<form, tx>>
  PROVE  TypeInv'
<1>1. PICK c, key, intent, what, k, i :
        /\ c = freeCall /\ key = keyOf(k) /\ intent = intentOf(i)
        /\ what = <<ai.amount>> /\ k = ai.key /\ i = ai.intent
  OBVIOUS
<1>2. /\ c \in Calls /\ mint(k, i) /\ Send(c, Post("transactions", key, what, intent))
      /\ ai' = [ai EXCEPT !.key = key, !.intent = intent, !.saving = c] /\ visits' = visits
  BY <1>1, FreeCall DEF Confirm
<1>3. AiType /\ ai.text \in Texts /\ k \in 0 .. MaxKeys /\ i \in 0 .. intents
  BY <1>1, AiFields DEF TypeInv
<1>4. /\ key \in 0 .. MaxKeys /\ intent \in 0 .. intents'
      /\ intents \in Nat /\ intents' \in Nat /\ intents <= intents' /\ CategoriesNamed'
  BY <1>1, <1>2, <1>3, PostTypes
<1>5. AiType' /\ ai'.text \in Texts
  <2>1. ai' = [text |-> ai.text, source |-> ai.source, amount |-> ai.amount, key |-> key,
               intent |-> intent, drafting |-> ai.drafting, from |-> ai.from, saving |-> c,
               message |-> ai.message]
    BY <1>2, <1>3, AiFields
  <2>2. /\ ai.source \in Texts \cup {NoText} /\ ai.amount \in Amounts
        /\ ai.drafting \in Calls \cup {NoCall} /\ ai.from \in Texts \cup {NoText}
        /\ ai.message \in {"none", "saved", "discarded"}
    BY <1>3, AiFields
  <2>3. c \in Calls \cup {NoCall}
    BY <1>2
  <2> QED
    BY <1>3, <1>4, <2>1, <2>2, <2>3 DEF AiType
<1> QED
  BY <1>2, <1>4, <1>5, FormsTypeGrows, TxTypeGrows DEF TypeInv

(* A draft is asked for, or a call of the page has come back.              *)
LEMMA AiCallTypes ==
  ASSUME IInv, TypeInv, UNCHANGED <<form, tx>>,
         \/ Draft \/ NotDrafted \/ DraftSaved \/ DraftNotSaved
         \/ \E amount \in Amounts : Drafted(amount)
  PROVE  TypeInv'
<1>1. PICK c, d, e, q : /\ c = ai.drafting /\ d = ai.saving /\ e = freeCall
                        /\ q = [path |-> "drafts", key |-> NoKey, body |-> <<>>, intent |-> 0]
  OBVIOUS
<1>2. UNCHANGED <<visits, intents>>
  BY DEF Draft, NotDrafted, DraftSaved, DraftNotSaved, Drafted, pageVars
<1>3. posts' \subseteq posts
  <2>1. CASE Draft
    <3>1. Send(e, q) /\ q.key = NoKey
      BY <1>1, <2>1 DEF Draft
    <3> QED
      BY <3>1, SendReads DEF IInv
  <2>2. CASE ~Draft
    <3>1. /\ UNCHANGED <<records, late>>
          /\ \/ call' = [call EXCEPT ![c] = Idle]
             \/ call' = [call EXCEPT ![d] = Idle]
      BY <1>1, <2>2 DEF NotDrafted, DraftSaved, DraftNotSaved, Drafted, Return
    <3> QED
      BY <3>1, ReturnKeeps DEF IInv
  <2> QED
    BY <2>1, <2>2
<1>4. /\ AiType /\ ai.text \in Texts /\ NoKey \in 0 .. MaxKeys /\ Min(Amounts) \in Amounts
      /\ Trim[ai.text] \in Texts \cup {NoText} /\ 0 \in 0 .. intents /\ intents' = intents
  BY <1>2, AiConstants DEF TypeInv
<1>5. /\ ai.source \in Texts \cup {NoText} /\ ai.amount \in Amounts /\ ai.key \in 0 .. MaxKeys
      /\ ai.intent \in 0 .. intents' /\ ai.drafting \in Calls \cup {NoCall}
      /\ ai.from \in Texts \cup {NoText} /\ ai.saving \in Calls \cup {NoCall}
      /\ ai.message \in {"none", "saved", "discarded"}
  BY <1>2, <1>4, AiFields
<1>6. /\ 0 \in 0 .. intents' /\ NoText \in Texts \cup {NoText} /\ NoCall \in Calls \cup {NoCall}
      /\ "none" \in {"none", "saved", "discarded"} /\ "saved" \in {"none", "saved", "discarded"}
  BY <1>4
<1>7. AiType' /\ ai'.text \in Texts
  <2>1. CASE Draft
    <3>1. e \in Calls \cup {NoCall}
      BY <1>1, <2>1, FreeCall DEF Draft
    <3>2. ai' = [text |-> ai.text, source |-> NoText, amount |-> Min(Amounts), key |-> NoKey,
                 intent |-> 0, drafting |-> e, from |-> Trim[ai.text], saving |-> ai.saving,
                 message |-> "none"]
      BY <1>1, <1>4, <2>1, AiFields DEF Draft
    <3> QED
      BY <1>4, <1>5, <1>6, <3>1, <3>2 DEF AiType
  <2>2. CASE NotDrafted
    <3>1. ai' = [text |-> ai.text, source |-> ai.source, amount |-> ai.amount, key |-> ai.key,
                 intent |-> ai.intent, drafting |-> NoCall, from |-> NoText,
                 saving |-> ai.saving, message |-> ai.message]
      BY <1>4, <2>2, AiFields DEF NotDrafted
    <3> QED
      BY <1>4, <1>5, <1>6, <3>1 DEF AiType
  <2>3. CASE DraftSaved
    <3>1. ai' = [text |-> ai.text, source |-> NoText, amount |-> Min(Amounts), key |-> NoKey,
                 intent |-> 0, drafting |-> ai.drafting, from |-> ai.from, saving |-> NoCall,
                 message |-> "saved"]
      BY <1>4, <2>3, AiFields DEF DraftSaved
    <3> QED
      BY <1>4, <1>5, <1>6, <3>1 DEF AiType
  <2>4. CASE DraftNotSaved
    <3>1. ai' = [text |-> ai.text, source |-> ai.source, amount |-> ai.amount, key |-> ai.key,
                 intent |-> ai.intent, drafting |-> ai.drafting, from |-> ai.from,
                 saving |-> NoCall, message |-> ai.message]
      BY <1>4, <2>4, AiFields DEF DraftNotSaved
    <3> QED
      BY <1>4, <1>5, <1>6, <3>1 DEF AiType
  <2>5. CASE \E amount \in Amounts : Drafted(amount)
    <3>1. PICK amount \in Amounts : Drafted(amount)
      BY <2>5
    <3>2. ai' = [text |-> ai.text, source |-> ai.from, amount |-> amount, key |-> ai.key,
                 intent |-> ai.intent, drafting |-> NoCall, from |-> NoText,
                 saving |-> ai.saving, message |-> ai.message]
      BY <1>4, <3>1, AiFields DEF Drafted
    <3> QED
      BY <1>4, <1>5, <1>6, <3>2 DEF AiType
  <2> QED
    BY <2>1, <2>2, <2>3, <2>4, <2>5
<1> QED
  BY <1>2, <1>3, <1>7, QuietTypes

(* The steps of the AI page.                                               *)
LEMMA AiKeepsTypes ==
  ASSUME IInv, TypeInv, AiNext, UNCHANGED <<form, tx>>
  PROVE  TypeInv'
BY AiPageTypes, ConfirmTypes, AiCallTypes DEF AiNext
--------------------------------------------------------------------------------
(* The user goes to another page, whose state is fresh.                    *)
LEMMA NavigateTypes ==
  ASSUME IInv, TypeInv, NEW p, Navigate(p)
  PROVE  TypeInv'
<1>1. (intents \in Nat => /\ form = [f \in Forms |-> FreshForm] => FormsType
                          /\ tx = FreshTx => TxType
                          /\ ai = FreshAi => AiType /\ ai.text \in Texts)'
  BY FreshTypes, PTL
<1>2. FormsType' /\ TxType' /\ AiType' /\ ai'.text \in Texts
  BY <1>1 DEF Navigate, Leave, FreshForm, FreshTx, FreshAi, IInv, ClaimsOK
<1>3. posts' \subseteq posts
  BY LeaveKeeps DEF Navigate, IInv
<1>4. visits' \in 1 .. MaxVisits
  BY WebAssumption DEF Navigate, Leave, TypeInv
<1> QED
  BY <1>2, <1>3, <1>4 DEF TypeInv, CategoriesNamed

(* The first page opens.                                                   *)
LEMMA InitTypes == Init => TypeInv
<1> SUFFICES ASSUME Init PROVE TypeInv
  OBVIOUS
<1>1. IInv
  BY InitIInv
<1>2. FormsType /\ TxType /\ AiType /\ ai.text \in Texts
  BY <1>1, FreshTypes DEF Init, FormsInit, TxInit, AiInit, IInv, ClaimsOK
<1>3. visits \in 1 .. MaxVisits
  BY WebAssumption DEF Init, PagesInit
<1>4. posts \subseteq records
  <2>1. \A c \in Calls : \/ call[c] = Idle
                         \/ \E list : call[c] = sent(listRequest(list))
    BY DEF Init, PagesInit, loading
  <2>2. \A list : sent(listRequest(list)).request.key = NoKey
    BY DEF sent, listRequest
  <2>3. Idle.state = "idle"
    BY DEF Idle
  <2> QED
    BY <2>1, <2>2, <2>3 DEF posts, Init, PagesInit
<1>5. CategoriesNamed
  BY <1>4, WebAssumption DEF CategoriesNamed, Init, PagesInit
<1> QED
  BY <1>2, <1>3, <1>5 DEF TypeInv

(* Every step keeps the types.                                             *)
LEMMA StepKeepsTypes == IInv /\ ScreenInv /\ TypeInv /\ [Next]_vars => TypeInv'
<1> SUFFICES ASSUME IInv, ScreenInv, TypeInv, [Next]_vars PROVE TypeInv'
  OBVIOUS
<1>1. CASE \E p \in PageNames : Navigate(p)
  BY <1>1, NavigateTypes
<1>2. CASE \E list \in Lists : RetryLoad(list) /\ UNCHANGED <<pageVars, form, tx, ai>>
  BY <1>2, ServiceTypes
<1>3. CASE \E c \in Calls : LoadReturns(c) \/ LoadFails(c)
  BY <1>3, LoadEndTypes
<1>4. CASE FormsNext /\ UNCHANGED <<tx, ai>>
  BY <1>4, FormsKeepTypes
<1>5. CASE TxNext /\ UNCHANGED <<form, ai>>
  BY <1>5, TxKeepsTypes
<1>6. CASE AiNext /\ UNCHANGED <<form, tx>>
  BY <1>6, AiKeepsTypes
<1>7. CASE Service \/ ServiceLate
  BY <1>7, ServiceTypes
<1>8. CASE UNCHANGED vars
  <2>1. UNCHANGED <<callVars, hook, pageVars>> /\ UNCHANGED <<form, tx, ai>>
    BY <1>8 DEF vars
  <2> QED
    BY <2>1, PageOnlyTypes
<1> QED
  BY <1>1, <1>2, <1>3, <1>4, <1>5, <1>6, <1>7, <1>8 DEF Next

(* Every variable has its type, and a handler awaits a call that is its    *)
(* own (TypeOK).                                                           *)
THEOREM TypeCorrect == Spec => []TypeOK
<1>1. Init => IInv /\ ScreenInv /\ TypeInv
  BY InitIInv, InitScreen, InitTypes
<1>2. IInv /\ ScreenInv /\ TypeInv /\ [Next]_vars => (IInv /\ ScreenInv /\ TypeInv)'
  BY StepKeepsIInv, StepKeepsScreen, StepKeepsTypes
<1>3. IInv /\ ScreenInv /\ TypeInv => TypeOK
  <2> SUFFICES ASSUME IInv, ScreenInv, TypeInv PROVE TypeOK
    OBVIOUS
  <2>1. HookType
    <3>1. \A l \in Lists : /\ hook[l].data \in {NoData} \cup SUBSET records
                          /\ hook[l].loading \in BOOLEAN /\ hook[l].error \in BOOLEAN
                          /\ hook[l].latest \in Calls \cup {NoCall}
      BY DEF IInv, HookOK, ScreenInv, ListOK, LatestOK
    <3>2. HookShape
      BY DEF IInv, HookOK
    <3> QED
      BY <3>1, <3>2 DEF HookType, HookShape
  <2>2. minted \in 0 .. MaxKeys /\ intents \in Nat
    BY WebAssumption DEF IInv, ClaimsOK
  <2>3. \A list \in Lists :
          hook[list].loading =>
            hook[list].latest # NoCall /\ call[hook[list].latest].request = listRequest(list)
    BY DEF ScreenInv, ListOK, LatestOK
  <2> QED
    BY <2>1, <2>2, <2>3 DEF TypeOK, TypeInv, ScreenInv
<1> QED
  BY <1>1, <1>2, <1>3, PTL DEF Spec
================================================================================
