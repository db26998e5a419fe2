---------------------------- MODULE MCLedgerService ----------------------------
(* Small instances of LedgerService for TLC.                               *)
EXTENDS LedgerService, TLC

CONSTANTS alice, bob, k1, k2, k3, food, salary, t1, t2, t3, legacy

MCMinBalance == -2

MCAccounts == 1 .. 4
MCOwner    == (1 :> alice) @@ (2 :> alice) @@ (3 :> bob) @@ (4 :> alice)
MCCurrency == (1 :> "VND") @@ (2 :> "VND") @@ (3 :> "VND") @@ (4 :> "USD")
MCCategoryOwner == (food :> alice) @@ (salary :> alice)
MCCategoryKind  == (food :> "EXPENSE") @@ (salary :> "INCOME")

create(user, key, type, account, category, amount, target) ==
  [userId |-> user, operation |-> "create", key |-> key,
   body |-> [entryType |-> type, accountId |-> account, categoryId |-> category,
             amountMinor |-> amount, occurredAt |-> 2025, transferAccountId |-> target]]
reverse(user, key, id) ==
  [userId |-> user, operation |-> "reverse", key |-> key, body |-> id]

transfer(user, key, from, to, amount) ==
  create(user, key, "TRANSFER", from, NoCategory, amount, to)
expense(user, key, amount) == create(user, key, "EXPENSE", 1, food, amount, NoAccount)

(* Transfers in both directions over the same accounts, and everything     *)
(* that makes one fail.                                                    *)
TransferRequests ==
  {transfer(alice, k1, 1, 2, 1), transfer(alice, k2, 2, 1, 2),
   transfer(alice, k1, 1, 4, 1), transfer(alice, k2, 2, 3, 1),
   create(alice, k1, "INCOME", 1, salary, 2, 2)}

(* An expense, its reversals under two keys, and requests that must fail.  *)
ReversalRequests ==
  {expense(alice, k1, 1), transfer(alice, k2, 2, 1, 1)}
    \cup {reverse(alice, k, t) : k \in {k1, k2}, t \in Tx}
    \cup {reverse(bob, k1, t) : t \in Tx}

(* An expense, requests under two keys to reverse it, a transfer each way. *)
LivenessRequests ==
  {expense(alice, k1, 1), transfer(alice, k2, 1, 2, 1), transfer(alice, k1, 2, 1, 1)}
    \cup {reverse(alice, k, t) : k \in {k1, k2}, t \in Tx}

(* One key for several requests, concurrently and with a legacy row.       *)
KeyRequests ==
  {expense(alice, k1, 1), expense(alice, k1, 2), expense(bob, k1, 1),
   create(bob, k1, "INCOME", 3, NoCategory, 1, NoAccount),
   create(alice, k3, "INCOME", 1, NoCategory, 1, NoAccount),
   create(alice, k3, "INCOME", 1, food, 1, NoAccount),
   create(alice, k3, "REVERSAL", 1, NoCategory, 1, NoAccount)}
    \cup {reverse(alice, k, t) : k \in {k1, k3}, t \in Tx}

RaceRequests == TransferRequests \cup ReversalRequests \cup KeyRequests

NoLegacyRecords == {}
OneLegacyRecord ==
  {[userId |-> alice, key |-> <<"raw", k3>>,
    hash |-> create(alice, k3, "INCOME", 1, NoCategory, 1, NoAccount).body,
    entryId |-> legacy]}

Symmetry == Permutations(Tx)
================================================================================
