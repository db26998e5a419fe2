------------------------------- MODULE MCWebApp -------------------------------
(* A small instance of WebApp for TLC.                                     *)
EXTENDS WebApp

(* An account, a category, and an entry that may be reversed.              *)
MCInitialRecords ==
  {[path |-> "accounts", key |-> 1, body |-> <<1>>, intent |-> 1],
   [path |-> "categories", key |-> 2, body |-> <<2>>, intent |-> 2],
   [path |-> "transactions", key |-> 3, body |-> <<2>>, intent |-> 3]}

(* A text with a space at its end.                                         *)
MCTexts == {"coffee", "coffee "}
MCTrim == [text \in MCTexts |-> "coffee"]
MCFirstText == "coffee"
================================================================================
