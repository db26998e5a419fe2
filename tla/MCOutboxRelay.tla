----------------------------- MODULE MCOutboxRelay -----------------------------
(* A small instance of OutboxRelay for TLC.                                *)
EXTENDS OutboxRelay

CONSTANTS h1, h2, r1, r2

(* Both events change row 1 of an upserting consumer; for the last one,    *)
(* which appends, every event is a row of its own.                         *)
MCRowOf == [c \in Consumers |-> [e \in Events |-> IF c \in Appends THEN e ELSE 1]]

(* The amounts tell every combination of events apart.  Event 2 has no     *)
(* impact on the second consumer: a transfer.                              *)
MCDelta ==
  [c \in Consumers |-> [e \in Events |-> IF c = 2 /\ e = 2 THEN 0 ELSE 2^(e - 1)]]

(* The last consumer refuses event 1.                                      *)
MCPoison == {<<NumConsumers, 1>>}
================================================================================
