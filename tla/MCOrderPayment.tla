--------------------------- MODULE MCOrderPayment ---------------------------
(* Instances of OrderPayment for TLC.                                      *)
EXTENDS OrderPayment, TLC

CONSTANTS o1, o2, c1, c2, k1, k2, v1, m1, a1, q1, w1, p1

OneCoin == [o \in Order |-> 1]
Single == [o \in Order |-> "PENDING"]
Group == [o \in Order |-> "PENDING_PAYMENT"]
AllFirst == [o \in Order |-> p1]
ConfirmFirst == [c \in ConfirmCall |-> p1]
OnFirst == [c \in CancelCall \cup VendorCall \cup MoveCall \cup AdminCall \cup PayCall |-> o1]
\* Calls that bring the same payment, and cancellations of the same order, are alike.
Alike == Permutations(ConfirmCall) \cup Permutations(CancelCall)
=============================================================================
