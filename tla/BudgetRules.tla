------------------------------ MODULE BudgetRules ------------------------------
(***************************************************************************)
(* What a budget is and what counts as its spending: pure operators of the *)
(* budget service, shared by BudgetBook and BudgetService.                 *)
(*                                                                         *)
(* A period is a month in a currency.  The name of a category is the       *)
(* ledger's and does not change; a budget either carries a category's id,  *)
(* or, from older clients, only a name, compared without case.             *)
(***************************************************************************)
EXTENDS Integers, FiniteSets, FiniteSetsExt

CONSTANTS
  Users, Categories, Periods,
  NoCategory,      \* no categoryId in the request
  Malformed,       \* a categoryId or period that does not parse
  Names, NoName,   \* category names; one that is blank or too long
  CategoryName,    \* the name events give a category
  Trim,            \* strings.TrimSpace, on names
  Lower,           \* SQL LOWER, on names
  MaxLimit         \* maxSafeMinor

ASSUME RulesAssumption ==
  /\ NoCategory \notin Categories /\ Malformed \notin Categories \cup Periods
  /\ IsFiniteSet(Categories) /\ NoName \notin Names
  /\ CategoryName \in [Categories -> Names]
  /\ Trim \in [Names -> Names \cup {NoName}]
  /\ DOMAIN Lower = Names
  /\ MaxLimit \in Nat

CreateInput ==
  [categoryId : Categories \cup {NoCategory, Malformed}, categoryName : Names,
   period : Periods \cup {Malformed}, limitMinor : Int, thresholdPercent : Int]

normalizeCreateInput(in) ==
  [in EXCEPT !.categoryName = Trim[@],
             !.thresholdPercent = IF @ = 0 THEN 80 ELSE @]

(* Mutant: a negative limit is accepted.                                   *)
validSigned(in) ==
  LET input == normalizeCreateInput(in)
  IN  /\ input.categoryName # NoName
      /\ input.categoryId # Malformed /\ input.period # Malformed
      /\ input.limitMinor <= MaxLimit
      /\ input.thresholdPercent \in 1 .. 100

valid(in) ==
  LET input == normalizeCreateInput(in)
  IN  /\ input.categoryName # NoName
      /\ input.categoryId # Malformed /\ input.period # Malformed
      /\ input.limitMinor \in 0 .. MaxLimit
      /\ input.thresholdPercent \in 1 .. 100

(* The two partial unique indexes: one budget per slot.                    *)
slot(b) ==
  <<b.userId,
    IF b.categoryId # NoCategory THEN <<"id", b.categoryId>>
                                 ELSE <<"name", Lower[b.categoryName]>>,
    b.period>>

(* The primary key of category_spend.                                      *)
SpendKey == Users \X Categories \X Periods

(* The SELECT of currentSpent: by the id, or else by the name.             *)
currentSpent(spend, b) ==
  IF b.categoryId # NoCategory
  THEN spend[<<b.userId, b.categoryId, b.period>>]
  ELSE MapThenSumSet(LAMBDA c : spend[<<b.userId, c, b.period>>],
                     {c \in Categories : Lower[CategoryName[c]] = Lower[b.categoryName]})

(* Mutant: names are compared with their case.                             *)
listedSpentOfCase(spend, b) ==
  LET counts(cs) ==
        /\ cs[1] = b.userId /\ cs[3] = b.period
        /\ \/ b.categoryId # NoCategory /\ cs[2] = b.categoryId
           \/ b.categoryId = NoCategory /\ CategoryName[cs[2]] = b.categoryName
  IN  MapThenSumSet(LAMBDA cs : spend[cs], {cs \in SpendKey : counts(cs)})

(* The correlated subquery of List.                                        *)
listedSpent(spend, b) ==
  LET counts(cs) ==
        /\ cs[1] = b.userId /\ cs[3] = b.period
        /\ \/ b.categoryId # NoCategory /\ cs[2] = b.categoryId
           \/ b.categoryId = NoCategory /\ Lower[CategoryName[cs[2]]] = Lower[b.categoryName]
  IN  MapThenSumSet(LAMBDA cs : spend[cs], {cs \in SpendKey : counts(cs)})

displaySpent(spentMinor) == IF spentMinor < 0 THEN 0 ELSE spentMinor
================================================================================
