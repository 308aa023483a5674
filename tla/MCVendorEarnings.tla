-------------------------- MODULE MCVendorEarnings --------------------------
(* Instances of VendorEarnings for TLC.                                    *)
EXTENDS VendorEarnings, TLC

CONSTANTS v1, o1, o2, j1, j2, d1, d2, k1, k2, w1, a1, t1

OneVendor(S) == [s \in S |-> v1]
OrdersOfOne == OneVendor(Order)
RequestsOfOne == OneVendor(Request)
TwoAndOne == [o \in Order |-> IF o = o1 THEN 2 ELSE 1]
OneEach == [r \in Request |-> 1]
KindByName == [r \in Request |->
    IF r \in {d1, d2} THEN "Direct" ELSE IF r \in {k1, k2} THEN "Ask" ELSE "Withdraw"]
OneTransfer == [r \in Request |-> t1]
=============================================================================
