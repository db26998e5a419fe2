------------------------------ MODULE Projection ------------------------------
(***************************************************************************)
(* What a consumer of ledger events promises of its read model: each event *)
(* is projected at most once, in one indivisible step, in any order.       *)
(* OutboxRelay implements this with retries and database transactions.     *)
(***************************************************************************)
EXTENDS Integers

CONSTANTS Consumers, Events, Rows, RowOf, Delta

VARIABLES processed, totals

vars == <<processed, totals>>

Init ==
  /\ processed = [c \in Consumers |-> {}]
  /\ totals = [c \in Consumers |-> [row \in Rows |-> 0]]

Project(c, e) ==
  /\ e \notin processed[c]
  /\ processed' = [processed EXCEPT ![c] = @ \cup {e}]
  /\ totals' = [totals EXCEPT ![c][RowOf[c][e]] = @ + Delta[c][e]]

Next == \E c \in Consumers, e \in Events : Project(c, e)

Spec == Init /\ [][Next]_vars
================================================================================
