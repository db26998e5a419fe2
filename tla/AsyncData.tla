------------------------------ MODULE AsyncData ------------------------------
(***************************************************************************)
(* hooks/useAsyncData.ts: a page mounts a hook per list, which loads it,   *)
(* loads it again after a mutation or on the Retry button, and uses the    *)
(* answer to its latest request only.  The counter requestId is told by    *)
(* the call that was given the highest id, hook[list].latest.              *)
(***************************************************************************)
EXTENDS ApiCalls, FiniteSetsExt

CONSTANT NoData   \* data: null

VARIABLE hook     \* each list's data, loading, error, and the latest call

NoCall == 0

Unmounted == [data |-> NoData, loading |-> FALSE, error |-> FALSE, latest |-> NoCall]
mounted(c) == [data |-> NoData, loading |-> TRUE, error |-> FALSE, latest |-> c]

idleCalls == {c \in Calls : call[c].state = "idle"}
freeCall  == CHOOSE c \in idleCalls : TRUE

listRequest(list) == [path |-> list, key |-> NoKey, body |-> <<>>, intent |-> 0]

(* refresh: what is shown stays, until the answer comes.                   *)
refreshed(list, c) ==
  [hook EXCEPT ![list] = [data |-> @.data, loading |-> TRUE, error |-> FALSE, latest |-> c]]

(* Mutant: any answer is taken, the latest or not.                         *)
settledByAny(list, c) ==
  [hook EXCEPT ![list] = [data |-> call[c].data, loading |-> FALSE,
                          error |-> FALSE, latest |-> NoCall]]

(* The answer to call c is used if no later request was made.              *)
settled(list, c) ==
  IF hook[list].latest # c THEN hook
  ELSE [hook EXCEPT ![list] = [data |-> call[c].data, loading |-> FALSE,
                               error |-> FALSE, latest |-> NoCall]]

(* An error leaves the data of before.                                     *)
failedToLoad(list, c) ==
  IF hook[list].latest # c THEN hook
  ELSE [hook EXCEPT ![list] = [data |-> @.data, loading |-> FALSE,
                               error |-> TRUE, latest |-> NoCall]]

isLoad(c) == call[c].request # NoRequest /\ call[c].request.path \in Lists
               /\ call[c].request.key = NoKey

(* What is on the screen: neither a skeleton nor an error.                 *)
shown(list) == hook[list].data # NoData /\ ~hook[list].loading /\ ~hook[list].error

HookType ==
  hook \in [Lists -> [data : {NoData} \cup SUBSET records, loading : BOOLEAN,
                      error : BOOLEAN, latest : Calls \cup {NoCall}]]
================================================================================
