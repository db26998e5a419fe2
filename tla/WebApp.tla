-------------------------------- MODULE WebApp --------------------------------
(***************************************************************************)
(* The pages of the web application that write, with the calls they make   *)
(* and the services behind these.  The user opens one page after another,  *)
(* fills in, retries, cancels, and leaves whenever he likes.               *)
(***************************************************************************)
EXTENDS CreateForms, TransactionsPage, AiPage

ASSUME WebAssumption ==
  /\ IsFiniteSet(Calls) /\ Calls = 1 .. Cardinality(Calls) /\ Cardinality(Calls) >= 3
  /\ PageNames \subseteq AllPages /\ MaxKeys \in Nat /\ MaxVisits \in Nat \ {0}
  /\ Names \subseteq Nat \ {0} /\ Contents \subseteq Names /\ Contents # {}
  /\ Amounts \subseteq Nat \ {0} /\ Amounts # {}
  /\ \A list \in Lists : listRequest(list) # NoRequest
  /\ FirstText \in Texts /\ NoText \notin Texts /\ Trim \in [Texts -> Texts \cup {NoText}]
  /\ IsFiniteSet(InitialRecords) /\ Cardinality(InitialRecords) <= MaxKeys
  /\ \A r \in InitialRecords :
       /\ r = Post(r.path, r.key, r.body, r.intent)
       /\ r.key \in 1 .. Cardinality(InitialRecords) /\ r.intent = r.key
       /\ r.path = "categories" => r.body \in {<<name>> : name \in Names}
       /\ \A s \in InitialRecords : r.key = s.key => r = s

vars == <<callVars, hook, pageVars, form, tx, ai>>

Init == PagesInit /\ FormsInit /\ TxInit /\ AiInit

(* Mutant: the hooks of the page that is left go on.                       *)
NavigateKeepingHooks(p) ==
  /\ visits < MaxVisits /\ visits' = visits + 1
  /\ page' = p
  /\ call' = loading(p)
  /\ form' = [f \in Forms |-> FreshForm] /\ tx' = FreshTx /\ ai' = FreshAi
  /\ UNCHANGED <<records, late, hook, minted, intents, told>>

(* The component of a page is unmounted with all its state.                *)
Navigate(p) ==
  /\ Leave(p)
  /\ form' = [f \in Forms |-> FreshForm] /\ tx' = FreshTx /\ ai' = FreshAi

(* A list has been loaded, or has failed to; it is the same to the page    *)
(* whether the services have read anything in vain.                        *)
LoadReturns(c) ==
  /\ isLoad(c) /\ call[c].state = "ok"
  /\ hook' = settled(call[c].request.path, c)
  /\ form' = resumed(c)
  /\ Return(c)
  /\ UNCHANGED <<pageVars, tx, ai>>

LoadFails(c) ==
  /\ isLoad(c) /\ call[c].state = "sent"
  /\ hook' = failedToLoad(call[c].request.path, c)
  /\ form' = resumed(c)
  /\ call' = [call EXCEPT ![c] = Idle]
  /\ UNCHANGED <<records, late, pageVars, tx, ai>>

Service ==
  /\ \E c \in Calls : Read(c) \/ (~isLoad(c) /\ (Served(c) \/ Fail({c})))
  /\ UNCHANGED <<hook, pageVars, form, tx, ai>>
ServiceLate ==
  /\ \E q \in late : ExecuteLate(q)
  /\ UNCHANGED <<hook, pageVars, form, tx, ai>>

Next ==
  \/ \E p \in PageNames : Navigate(p)
  \/ \E list \in Lists : RetryLoad(list) /\ UNCHANGED <<pageVars, form, tx, ai>>
  \/ \E c \in Calls : LoadReturns(c) \/ LoadFails(c)
  \/ FormsNext /\ UNCHANGED <<tx, ai>>
  \/ TxNext /\ UNCHANGED <<form, ai>>
  \/ AiNext /\ UNCHANGED <<form, tx>>
  \/ Service \/ ServiceLate

(* A call ends, answered or given up by the gateway's time-out, and the    *)
(* browser runs the handler that awaits it.  The user is obliged to nothing.*)
Fairness ==
  /\ \A c \in Calls :
       WF_vars(\/ (Read(c) \/ Accept(c) \/ Refuse(c)) /\ UNCHANGED <<hook, pageVars, form, tx, ai>>
               \/ LoadReturns(c))
  /\ WF_vars(\/ (\E f \in Forms : Saved(f) \/ NotSaved(f)) /\ UNCHANGED <<tx, ai>>
             \/ (Posted \/ NotPosted) /\ UNCHANGED <<form, ai>>
             \/ (DraftSaved \/ DraftNotSaved) /\ UNCHANGED <<form, tx>>)

Spec == Init /\ [][Next]_vars /\ Fairness
--------------------------------------------------------------------------------
(* Every variable has its type; a handler awaits a call that is its own.   *)
TypeOK ==
  /\ HookType /\ FormsType /\ TxType /\ AiType
  /\ page \in PageNames /\ visits \in 1 .. MaxVisits
  /\ minted \in 0 .. MaxKeys /\ intents \in Nat
  /\ \A list \in Lists :
       hook[list].loading =>
         hook[list].latest # NoCall /\ call[hook[list].latest].request = listRequest(list)

(* All that was ever sent to be stored, and might be.                      *)
posts == records \cup late \cup
  {call[c].request : c \in {d \in Calls : /\ call[d].state # "idle"
                                          /\ call[d].request.key # NoKey}}

(***************************************************************************)
(* However often a request is repeated after failures, whatever of it is   *)
(* executed late, and wherever the user goes meanwhile: one intent is      *)
(* recorded once.                                                          *)
(***************************************************************************)
OneRecordPerIntent ==
  \A r, s \in records : r.intent = s.intent => r = s

(***************************************************************************)
(* A key is used for one intent only; so changing a form, discarding a     *)
(* draft or saving it never leaves the next request under a spent key.     *)
(* Except for an AI draft, whose fields may be edited under its key, and   *)
(* an entry whose category is the default, an intent has one body, too.    *)
(***************************************************************************)
KeyNamesOneIntent ==
  \A q, r \in posts :
    q.key = r.key => /\ q.intent = r.intent /\ q.path = r.path
                     /\ q.path # "transactions" => q.body = r.body

(***************************************************************************)
(* "Retry without changing the form to safely reuse this request": a retry *)
(* is never told of a conflict with what its own first attempt has done.   *)
(***************************************************************************)
RetryNeverRefused ==
  \A c \in Calls :
    call[c].state = "conflict" =>
      \A r \in records : r.intent = call[c].request.intent => r.body # call[c].request.body

(***************************************************************************)
(* What the user is told has been saved is in the ledger word for word:    *)
(* also an AI draft that was edited after a first attempt to save it.      *)
(***************************************************************************)
ToldIsRecorded == told \subseteq records

(***************************************************************************)
(* A list on the screen shows all the user was told has been saved: an     *)
(* answer to an older request, read before the change, is never shown.     *)
(***************************************************************************)
ShowsWhatItSaved ==
  \A list \in Lists :
    shown(list) => {q \in told : listOf(q) = list} \subseteq hook[list].data

(***************************************************************************)
(* "Draft discarded - ledger unchanged.": the draft that was discarded is  *)
(* not in the ledger.                                                      *)
(***************************************************************************)
DiscardLeavesLedgerUnchanged ==
  ai.message = "discarded" /\ ai.intent # 0 => \A r \in records : r.intent # ai.intent

(* A handler of the page awaits the answer to what was submitted.          *)
submitting ==
  \/ \E f \in Forms : form[f].phase # "editing"
  \/ tx.posting # NoCall \/ ai.saving # NoCall

(***************************************************************************)
(* No form stays disabled: what was submitted comes to an end, whether it  *)
(* was saved or not, loaded again or not; a page submits one form at once. *)
(***************************************************************************)
SubmitsEnd == submitting ~> ~submitting
================================================================================
