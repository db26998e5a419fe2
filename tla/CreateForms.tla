----------------------------- MODULE CreateForms -----------------------------
(***************************************************************************)
(* The forms that create something: a new account and a new category on    *)
(* the accounts page, a new budget on the budgets page.  Each keeps its    *)
(* idempotency key over failures ("Retry without changing the form to      *)
(* safely reuse this request") and drops it when a field changes.          *)
(* A form is named by its path, which is also the list it adds to and, in  *)
(* Pages, the page it is on.                                               *)
(***************************************************************************)
EXTENDS Pages

CONSTANT Contents     \* what a form can be filled in with

VARIABLE form         \* each form: its fields, key, what its handler awaits

Forms == {"accounts", "categories", "budgets"}

FreshForm == [content |-> Min(Contents), key |-> NoKey, intent |-> 0,
              phase |-> "editing", call |-> NoCall]

FormsInit == form = [f \in Forms |-> FreshForm]

body(f) == <<form[f].content>>
--------------------------------------------------------------------------------
(* Mutant: the field changes, the key stays.                               *)
ChangeKeepingKey(f, content) ==
  /\ page = f /\ form[f].phase = "editing"
  /\ content # form[f].content
  /\ form' = [form EXCEPT ![f] = [content |-> content, key |-> @.key, intent |-> 0,
                                phase |-> @.phase, call |-> @.call]]
  /\ UNCHANGED <<callVars, hook, pageVars>>

(* changeAccountIntent, changeCategoryIntent, changeBudgetIntent; the      *)
(* fields are disabled while the form is being submitted.                  *)
Change(f, content) ==
  /\ page = f /\ form[f].phase = "editing"
  /\ content # form[f].content
  /\ form' = [form EXCEPT ![f] = [content |-> content, key |-> NoKey, intent |-> 0,
                                phase |-> @.phase, call |-> @.call]]
  /\ UNCHANGED <<callVars, hook, pageVars>>

(* A budget needs a category, which must have been loaded.                 *)
complete(f) == f = "budgets" => shown("categories") /\ hook["categories"].data # {}

Submit(f) ==
  LET c == freeCall
      key == keyOf(form[f].key)
      intent == intentOf(form[f].intent)
  IN  /\ page = f /\ form[f].phase = "editing" /\ complete(f)
      /\ idleCalls # {}
      /\ mint(form[f].key, form[f].intent)
      /\ Send(c, Post(f, key, body(f), intent))
      /\ form' = [form EXCEPT ![f] = [content |-> @.content, key |-> key, intent |-> intent,
                                    phase |-> "posting", call |-> c]]
      /\ UNCHANGED <<hook, page, visits, told>>

(* The key is spent; the handler awaits refresh().                         *)
Saved(f) ==
  LET c == form[f].call
  IN  /\ form[f].phase = "posting" /\ call[c].state = "ok"
      /\ told' = told \cup {call[c].request}
      /\ returnAndLoad(c, f)
      /\ form' = [form EXCEPT ![f] = [content |-> @.content, key |-> NoKey, intent |-> 0,
                                    phase |-> "refreshing", call |-> hook'[f].latest]]
      /\ UNCHANGED <<records, late, page, visits, minted, intents>>

(* Mutant: a failed request is taken for one that did nothing.             *)
NotSavedDropsKey(f) ==
  LET c == form[f].call
  IN  /\ form[f].phase = "posting" /\ call[c].state \in {"conflict", "failed"}
      /\ Return(c)
      /\ form' = [form EXCEPT ![f] = [content |-> @.content, key |-> NoKey, intent |-> @.intent,
                                    phase |-> "editing", call |-> NoCall]]
      /\ UNCHANGED <<hook, pageVars>>

(* Whatever the error, the key is kept: the request may have been executed.*)
NotSaved(f) ==
  LET c == form[f].call
  IN  /\ form[f].phase = "posting" /\ call[c].state \in {"conflict", "failed"}
      /\ Return(c)
      /\ form' = [form EXCEPT ![f] = [content |-> @.content, key |-> @.key, intent |-> @.intent,
                                    phase |-> "editing", call |-> NoCall]]
      /\ UNCHANGED <<hook, pageVars>>

(* Mutant: only an answer that is used lets the handler go on.             *)
resumedIfLatest(c) ==
  [f \in Forms |-> IF form[f].phase = "refreshing" /\ form[f].call = c /\ call[c].state = "ok"
                   THEN [form[f] EXCEPT !.phase = "editing", !.call = NoCall] ELSE form[f]]

(* The handlers that await this load: refresh() resolves whether it was    *)
(* answered or not, and whether or not the answer was still wanted.        *)
resumed(c) ==
  [f \in Forms |-> IF form[f].phase = "refreshing" /\ form[f].call = c
                   THEN [content |-> form[f].content, key |-> form[f].key,
                         intent |-> form[f].intent, phase |-> "editing", call |-> NoCall]
                   ELSE form[f]]

FormsNext ==
  \E f \in Forms : Submit(f) \/ Saved(f) \/ NotSaved(f)
                   \/ \E content \in Contents : Change(f, content)

FormsType ==
  form \in [Forms -> [content : Contents, key : 0 .. MaxKeys, intent : 0 .. intents,
                      phase : {"editing", "posting", "refreshing"}, call : Calls \cup {NoCall}]]
================================================================================
