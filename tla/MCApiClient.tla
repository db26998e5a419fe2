----------------------------- MODULE MCApiClient -----------------------------
(* A small instance of ApiClient for TLC.                                  *)
EXTENDS ApiClient

post(key, body) == [path |-> "transactions", key |-> key, body |-> body, intent |-> key]

list == [path |-> "transactions", key |-> 0, body |-> 0, intent |-> 0]

MCRequests == {list, post(1, 1), post(1, 2)}

(* Two calls of one tab and one of another: a POST and a list, and the     *)
(* same POST again or another body under its key.                          *)
MCTabs == {"first", "second"}
MCTabOf == <<"first", "first", "second">>
MCRequestsOf == <<{post(1, 1)}, {list}, {post(1, 1), post(1, 2)}>>
================================================================================
