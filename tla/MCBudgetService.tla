---------------------------- MODULE MCBudgetService ----------------------------
(* Small instances of BudgetService for TLC.                               *)
EXTENDS BudgetService, TLC

CONSTANTS alice, bob, k1, k2, food, groceries, july, august, t1, t2, t3, h1, h2

(* "food" is groceries in lower case, but for a budget without an id.      *)
MCNames == {"Food", "food", " food ", "Travel", "  "}
MCCategoryName == (food :> "Food") @@ (groceries :> "food")
MCTrim == ("Food" :> "Food") @@ ("food" :> "food") @@ (" food " :> "food")
            @@ ("Travel" :> "Travel") @@ ("  " :> NoName)
MCLower == ("Food" :> "food") @@ ("food" :> "food") @@ (" food " :> " food ")
             @@ ("Travel" :> "travel") @@ ("  " :> "  ")

request(user, key, category, name, period, limit, threshold) ==
  [userId |-> user, key |-> key,
   body |-> [categoryId |-> category, categoryName |-> name, period |-> period,
             limitMinor |-> limit, thresholdPercent |-> threshold]]

byId(user, key, period, limit) == request(user, key, food, "Food", period, limit, 80)

(* Budgets of one category in both months, by a name they do not keep, and *)
(* one without an id; keys used for two requests, one of them for a slot   *)
(* already taken; and what is refused at once.                             *)
RaceRequests ==
  {request(alice, k1, food, "Travel", july, 1, 0),
   request(alice, k1, NoCategory, " food ", july, 1, 80),
   byId(alice, k2, august, 1), byId(alice, k2, july, 1), byId(alice, k1, july, -1)}

(* Budgets of one category in both months.                                 *)
LivenessRequests == {byId(alice, k1, july, 1), byId(alice, k2, august, 1)}

(* An expense in one month, and in the other a reversal that comes first.  *)
MCEventKey == (1 :> <<alice, food, july>>) @@ (2 :> <<alice, food, august>>)
MCDelta == (1 :> 3) @@ (2 :> -2)

RaceSymmetry == Permutations(Tx) \cup Permutations(Handlers)
================================================================================
