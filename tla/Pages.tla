-------------------------------- MODULE Pages --------------------------------
(***************************************************************************)
(* What the pages of the web application have in common: one is open, its  *)
(* lists load when it opens, it mints idempotency keys, and when the user  *)
(* goes elsewhere its state is gone while its calls go on.                 *)
(* An intent is what the user means by a form as it is filled in: it lasts *)
(* over failures, until the form is changed, saved or left.                *)
(***************************************************************************)
EXTENDS AsyncData

CONSTANTS
  PageNames,   \* pages the user opens: all of AllPages, or some
  MaxKeys,     \* bound: keys minted
  MaxVisits    \* bound: pages opened

VARIABLES
  page,      \* the page that is open
  visits,    \* how many were opened
  minted,    \* keys minted so far: crypto.randomUUID never repeats one
  intents,   \* intents the user has acted on so far
  told       \* what the user was told has been saved

pageVars == <<page, visits, minted, intents, told>>

(* The accounts page has a form and a list for accounts and another two    *)
(* for categories, which share nothing: either half counts as a page.      *)
AllPages == {"accounts", "categories", "budgets", "transactions", "ai"}

listsOf(p) ==
  CASE p = "budgets" -> {"budgets", "categories"}
    [] p = "ai"      -> {"aiContext"}
    [] OTHER         -> {p}

(* Which list shows the record a request makes.                            *)
listOf(q) == IF q.path = "reversals" THEN "transactions" ELSE q.path
--------------------------------------------------------------------------------
Post(path, key, body, intent) == [path |-> path, key |-> key, body |-> body, intent |-> intent]

mayMint(key)   == key = NoKey => minted < MaxKeys
keyOf(key)     == IF key = NoKey THEN minted + 1 ELSE key
intentOf(i)    == IF i = 0 THEN intents + 1 ELSE i
mint(key, i) ==
  /\ mayMint(key)
  /\ minted' = IF key = NoKey THEN minted + 1 ELSE minted
  /\ intents' = IF i = 0 THEN intents + 1 ELSE intents

(* The call of a POST has come back, and its handler loads a list anew.    *)
returnAndLoad(c, list) ==
  LET next == freeCall
  IN  /\ idleCalls # {}
      /\ call' = [call EXCEPT ![c] = Idle, ![next] = sent(listRequest(list))]
      /\ hook' = refreshed(list, next)
--------------------------------------------------------------------------------
(* The Retry buttons, which stand where a list could not be loaded.        *)
RetryLoad(list) ==
  /\ hook[list].error /\ ~hook[list].loading
  /\ idleCalls # {}
  /\ Send(freeCall, listRequest(list))
  /\ hook' = refreshed(list, freeCall)

(* The n-th list of page p is loaded by call n.                            *)
mountCall(p, list) == IF list = "categories" THEN 2 ELSE 1

opened(p) ==
  [list \in Lists |-> IF list \in listsOf(p) THEN mounted(mountCall(p, list)) ELSE Unmounted]
loading(p) ==
  [c \in Calls |-> IF \E list \in listsOf(p) : c = mountCall(p, list)
                   THEN sent(listRequest(CHOOSE list \in listsOf(p) : c = mountCall(p, list)))
                   ELSE Idle]

(* Answers still to come find no page; POSTs not yet executed may be.      *)
Leave(p) ==
  /\ visits < MaxVisits
  /\ visits' = visits + 1
  /\ page' = p
  /\ hook' = opened(p) /\ call' = loading(p)
  /\ late' = late \cup {call[c].request : c \in {d \in Calls : /\ call[d].state = "sent"
                                                               /\ call[d].request.key # NoKey}}
  /\ UNCHANGED <<records, minted, intents, told>>

PagesInit ==
  /\ records = InitialRecords /\ late = {}
  /\ page \in PageNames /\ visits = 1
  /\ hook = opened(page) /\ call = loading(page)
  /\ minted = Cardinality(InitialRecords) /\ intents = Cardinality(InitialRecords)
  /\ told = {}
================================================================================
