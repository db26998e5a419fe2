--------------------------- MODULE TransactionsPage ---------------------------
(***************************************************************************)
(* transactions/page.tsx: an entry is drafted in a form, reviewed in a     *)
(* dialog and posted; an entry in the list is reversed through a dialog.   *)
(* Cancelling the dialog keeps the key of a request that has failed.       *)
(* A draft is the category chosen: the other fields behave as it does, but *)
(* it has a default, the first category of the list as it was last loaded. *)
(***************************************************************************)
EXTENDS Pages

CONSTANT Names        \* names of categories, in their order

VARIABLE tx           \* the state of the page

NoChoice == 0
NoDialog == [kind |-> "none", body |-> <<>>]

FreshTx == [choice |-> NoChoice, key |-> NoKey, intent |-> 0, dialog |-> NoDialog,
            posting |-> NoCall,
            reversals |-> [entry \in 1 .. MaxKeys |-> [key |-> NoKey, intent |-> 0]]]

TxInit == tx = FreshTx

loaded == IF hook["transactions"].data = NoData THEN {} ELSE hook["transactions"].data
allowedCategories == {r.body[1] : r \in {s \in loaded : s.path = "categories"}}
selectedCategory ==
  IF tx.choice \in allowedCategories THEN tx.choice ELSE Min(allowedCategories)

reviewOpen == tx.dialog.kind # "none"
formEnabled == page = "transactions" /\ ~hook["transactions"].loading /\ ~reviewOpen
--------------------------------------------------------------------------------
(* changeTransactionIntent.                                                *)
ChangeDraft(choice) ==
  /\ formEnabled
  /\ choice # tx.choice /\ choice \in allowedCategories
  /\ tx' = [tx EXCEPT !.choice = choice, !.key = NoKey, !.intent = 0]
  /\ UNCHANGED <<callVars, hook, pageVars>>

(* onSubmit: the draft is copied into the dialog.                          *)
Review ==
  /\ formEnabled /\ allowedCategories # {}
  /\ tx' = [tx EXCEPT !.dialog = [kind |-> "entry", body |-> <<selectedCategory>>]]
  /\ UNCHANGED <<callVars, hook, pageVars>>

(* onReverse: the button of an entry, in a list that is on the screen.     *)
AskReversal(r) ==
  /\ page = "transactions" /\ shown("transactions") /\ ~reviewOpen
  /\ r.path = "transactions"
  /\ tx' = [tx EXCEPT !.dialog = [kind |-> "reversal", body |-> <<r.key>>]]
  /\ UNCHANGED <<callVars, hook, pageVars>>

(* Cancel or Escape, neither of which works while a request is under way.  *)
Cancel ==
  /\ reviewOpen /\ tx.posting = NoCall
  /\ tx' = [tx EXCEPT !.dialog = NoDialog]
  /\ UNCHANGED <<callVars, hook, pageVars>>

ConfirmTransaction ==
  LET c == freeCall
      key == keyOf(tx.key)
      intent == intentOf(tx.intent)
  IN  /\ tx.dialog.kind = "entry" /\ tx.posting = NoCall /\ idleCalls # {}
      /\ mint(tx.key, tx.intent)
      /\ Send(c, Post("transactions", key, tx.dialog.body, intent))
      /\ tx' = [tx EXCEPT !.key = key, !.intent = intent, !.posting = c]
      /\ UNCHANGED <<hook, page, visits, told>>

ConfirmReversal ==
  LET c == freeCall
      entry == tx.dialog.body[1]
      key == keyOf(tx.reversals[entry].key)
      intent == intentOf(tx.reversals[entry].intent)
  IN  /\ tx.dialog.kind = "reversal" /\ tx.posting = NoCall /\ idleCalls # {}
      /\ mint(tx.reversals[entry].key, tx.reversals[entry].intent)
      /\ Send(c, Post("reversals", key, tx.dialog.body, intent))
      /\ tx' = [tx EXCEPT !.reversals[entry] = [key |-> key, intent |-> intent], !.posting = c]
      /\ UNCHANGED <<hook, page, visits, told>>

(* Success: the key is dropped, the dialog closes, the page loads anew.    *)
Posted ==
  LET c == tx.posting
  IN  /\ c # NoCall /\ call[c].state = "ok"
      /\ told' = told \cup {call[c].request}
      /\ returnAndLoad(c, "transactions")
      /\ tx' = IF tx.dialog.kind = "entry"
               THEN [tx EXCEPT !.key = NoKey, !.intent = 0, !.dialog = NoDialog, !.posting = NoCall]
               ELSE [tx EXCEPT !.reversals[tx.dialog.body[1]] = [key |-> NoKey, intent |-> 0],
                               !.dialog = NoDialog, !.posting = NoCall]
      /\ UNCHANGED <<records, late, page, visits, minted, intents>>

(* Mutant: the key of a reversal is deleted in a finally block.            *)
NotPostedDeletesKey ==
  LET c == tx.posting
  IN  /\ c # NoCall /\ call[c].state \in {"conflict", "failed"}
      /\ Return(c)
      /\ tx' = IF tx.dialog.kind = "entry" THEN [tx EXCEPT !.posting = NoCall]
               ELSE [tx EXCEPT !.reversals[tx.dialog.body[1]].key = NoKey, !.posting = NoCall]
      /\ UNCHANGED <<hook, pageVars>>

(* An error: the dialog stays open, and the key is kept.                   *)
NotPosted ==
  LET c == tx.posting
  IN  /\ c # NoCall /\ call[c].state \in {"conflict", "failed"}
      /\ Return(c)
      /\ tx' = [tx EXCEPT !.posting = NoCall]
      /\ UNCHANGED <<hook, pageVars>>

TxNext ==
  \/ \E choice \in Names : ChangeDraft(choice)
  \/ \E r \in loaded : AskReversal(r)
  \/ Review \/ Cancel \/ ConfirmTransaction \/ ConfirmReversal \/ Posted \/ NotPosted

TxType ==
  tx \in [choice : Names \cup {NoChoice}, key : 0 .. MaxKeys, intent : 0 .. intents,
          dialog : {NoDialog} \cup [kind : {"entry"}, body : {<<n>> : n \in Names}]
                     \cup [kind : {"reversal"}, body : {<<k>> : k \in 1 .. MaxKeys}],
          posting : Calls \cup {NoCall},
          reversals : [1 .. MaxKeys -> [key : 0 .. MaxKeys, intent : 0 .. intents]]]
================================================================================
