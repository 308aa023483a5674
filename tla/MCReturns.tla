----------------------------- MODULE MCReturns -----------------------------
(* An instance of Returns for TLC.                                         *)
EXTENDS Returns

CONSTANTS r1, r2, x, y, q1, q2, v1, d1, d2, b1

\* Of one product a unit is left; of the other there will be one when the first
\* request's is restocked.
ItemsByName == [r \in Return |-> {x, y}]
StockByName == [p \in Product |-> IF p = x THEN 1 ELSE 0]
KindByName == [c \in Call |->
    CASE c \in {q1, q2, b1} -> "Update"
      [] c = v1 -> "Accept"
      [] OTHER -> "Refund"]
TargetByName == [c \in Call |-> IF c \in {v1, b1} THEN r2 ELSE r1]
AskedByName == [c \in Call |->
    IF c \in {q1, q2} THEN "QC_PASSED" ELSE "APPROVED"]
=============================================================================
