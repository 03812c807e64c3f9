---------------------------- MODULE MCJobWorker -----------------------------
(* Small instances of JobWorker for TLC. *)
EXTENDS JobWorker, TLC

CONSTANTS w1, w2     (* the two workers *)

TwoWorkers == {w1, w2}
NoSkew     == [w \in Workers |-> 0]
(* w2's clock is one unit ahead. *)
AheadSkew  == [w \in Workers |-> IF w = w2 THEN 1 ELSE 0]
=============================================================================
