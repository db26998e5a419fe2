---------------------------- MODULE MCSqsTransport ----------------------------
(* A small instance of SqsTransport for TLC.                               *)
EXTENDS SqsTransport

CONSTANTS m1, m2, r1, w1, w2, w3

(* Two instances of the first consumer and one of the second, which        *)
(* refuses event 1.                                                        *)
MCConsumerOf == [w \in Workers |-> IF w = w3 THEN 2 ELSE 1]
MCPoison     == {<<2, 1>>}
================================================================================
