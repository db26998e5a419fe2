------------------------------ MODULE BudgetBook ------------------------------
(***************************************************************************)
(* What the budget service promises: a budget and the key of its request   *)
(* appear together, at most one budget per slot and per key; each event    *)
(* counts once.  Every change is one indivisible step.                     *)
(* BudgetService implements this with concurrent database transactions.    *)
(***************************************************************************)
EXTENDS BudgetRules

CONSTANTS Events, EventKey, Delta

VARIABLES budgets, idempotency, spend, processed

vars == <<budgets, idempotency, spend, processed>>

Init ==
  /\ budgets = {}
  /\ idempotency = {}
  /\ spend = [cs \in SpendKey |-> 0]
  /\ processed = {}

(* What the stored answer says it had spent may be older than the budget.  *)
Create(b, rec) ==
  /\ \A other \in budgets : other.id # b.id /\ slot(other) # slot(b)
  /\ \A other \in idempotency : <<other.userId, other.key>> # <<rec.userId, rec.key>>
  /\ rec.userId = b.userId /\ rec.response.id = b.id
  /\ rec.body = [f \in DOMAIN rec.body |-> b[f]]
  /\ budgets' = budgets \cup {b}
  /\ idempotency' = idempotency \cup {rec}
  /\ UNCHANGED <<spend, processed>>

(* The event's category name goes to budgets of that category.             *)
Project(e) ==
  /\ e \notin processed
  /\ processed' = processed \cup {e}
  /\ spend' = IF Delta[e] = 0 THEN spend ELSE [spend EXCEPT ![EventKey[e]] = @ + Delta[e]]
  /\ \E renamed \in SUBSET {b \in budgets : /\ Delta[e] # 0
                                            /\ b.userId = EventKey[e][1]
                                            /\ b.categoryId = EventKey[e][2]} :
       budgets' = (budgets \ renamed)
                    \cup {[b EXCEPT !.categoryName = CategoryName[EventKey[e][2]]] : b \in renamed}
  /\ UNCHANGED idempotency

Next ==
  \/ \E b \in budgets' \ budgets, rec \in idempotency' \ idempotency : Create(b, rec)
  \/ \E e \in Events : Project(e)

Spec == Init /\ [][Next]_vars
================================================================================
