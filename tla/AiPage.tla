-------------------------------- MODULE AiPage --------------------------------
(***************************************************************************)
(* ai/page.tsx: a text is turned into a draft, which the user may edit and *)
(* must confirm before it is posted.  One draft has one key, over failures *)
(* and edits, until it is saved, discarded or drafted again.               *)
(***************************************************************************)
EXTENDS Pages

CONSTANTS
  Amounts,     \* what a draft can say
  Texts, Trim, \* texts, and what is left of each when trimmed
  FirstText    \* the text the page comes with

VARIABLE ai    \* the state of the page

NoText == ""

(* The draft is there if it has a source text.                             *)
FreshAi == [text |-> FirstText, source |-> NoText, amount |-> Min(Amounts), key |-> NoKey,
            intent |-> 0, drafting |-> NoCall, from |-> NoText, saving |-> NoCall,
            message |-> "none"]

AiInit == ai = FreshAi

hasDraft == ai.source # NoText
isDraftStale == hasDraft /\ ai.source # ai.text
contextLoaded == hook["aiContext"].data \notin {NoData, {}}
--------------------------------------------------------------------------------
Type(text) ==
  /\ page = "ai" /\ ai.drafting = NoCall
  /\ text # ai.text
  /\ ai' = [ai EXCEPT !.text = text]
  /\ UNCHANGED <<callVars, hook, pageVars>>

(* onDraft, also while a confirmed draft is still being saved.             *)
Draft ==
  LET c == freeCall
  IN  /\ page = "ai" /\ ai.drafting = NoCall /\ Trim[ai.text] # NoText
      /\ idleCalls # {}
      /\ Send(c, [path |-> "drafts", key |-> NoKey, body |-> <<>>, intent |-> 0])
      /\ ai' = [ai EXCEPT !.source = NoText, !.amount = Min(Amounts), !.key = NoKey, !.intent = 0,
                          !.drafting = c, !.from = Trim[ai.text], !.message = "none"]
      /\ UNCHANGED <<hook, pageVars>>

Drafted(amount) ==
  /\ ai.drafting # NoCall /\ call[ai.drafting].state = "ok"
  /\ Return(ai.drafting)
  /\ ai' = [ai EXCEPT !.source = ai.from, !.amount = amount, !.drafting = NoCall,
                      !.from = NoText]
  /\ UNCHANGED <<hook, pageVars>>

NotDrafted ==
  /\ ai.drafting # NoCall /\ call[ai.drafting].state = "failed"
  /\ Return(ai.drafting)
  /\ ai' = [ai EXCEPT !.drafting = NoCall, !.from = NoText]
  /\ UNCHANGED <<hook, pageVars>>

(* The fields of the draft: editing them does not renew the key.           *)
EditDraft(amount) ==
  /\ hasDraft /\ ai.saving = NoCall /\ ~isDraftStale
  /\ amount # ai.amount
  /\ ai' = [ai EXCEPT !.amount = amount]
  /\ UNCHANGED <<callVars, hook, pageVars>>

Confirm ==
  LET c == freeCall
      key == keyOf(ai.key)
      intent == intentOf(ai.intent)
  IN  /\ hasDraft /\ ai.saving = NoCall /\ ~isDraftStale /\ contextLoaded
      /\ idleCalls # {}
      /\ mint(ai.key, ai.intent)
      /\ Send(c, Post("transactions", key, <<ai.amount>>, intent))
      /\ ai' = [ai EXCEPT !.key = key, !.intent = intent, !.saving = c]
      /\ UNCHANGED <<hook, page, visits, told>>

(* The page clears whatever draft it shows by now.                         *)
DraftSaved ==
  LET c == ai.saving
  IN  /\ c # NoCall /\ call[c].state = "ok"
      /\ told' = told \cup {call[c].request}
      /\ Return(c)
      /\ ai' = [ai EXCEPT !.key = NoKey, !.intent = 0, !.source = NoText, !.amount = Min(Amounts),
                          !.saving = NoCall, !.message = "saved"]
      /\ UNCHANGED <<hook, page, visits, minted, intents>>

DraftNotSaved ==
  LET c == ai.saving
  IN  /\ c # NoCall /\ call[c].state \in {"conflict", "failed"}
      /\ Return(c)
      /\ ai' = [ai EXCEPT !.saving = NoCall]
      /\ UNCHANGED <<hook, pageVars>>

(* onCancel: "Draft discarded - ledger unchanged."  The intent is kept as  *)
(* history, to tell which draft the message is about.                      *)
Discard ==
  /\ hasDraft /\ ai.saving = NoCall
  /\ ai' = [ai EXCEPT !.source = NoText, !.amount = Min(Amounts), !.key = NoKey,
                          !.message = "discarded"]
  /\ UNCHANGED <<callVars, hook, pageVars>>

AiNext ==
  \/ \E text \in Texts : Type(text)
  \/ \E amount \in Amounts : Drafted(amount) \/ EditDraft(amount)
  \/ Draft \/ NotDrafted \/ Confirm \/ DraftSaved \/ DraftNotSaved \/ Discard

AiType ==
  ai \in [text : Texts \cup {NoText}, source : Texts \cup {NoText}, amount : Amounts,
          key : 0 .. MaxKeys, intent : 0 .. intents, drafting : Calls \cup {NoCall},
          from : Texts \cup {NoText}, saving : Calls \cup {NoCall},
          message : {"none", "saved", "discarded"}]
================================================================================
