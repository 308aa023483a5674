------------------------- MODULE MCVendorMembership -------------------------
(* An instance of VendorMembership for TLC.                                *)
EXTENDS VendorMembership, TLC

CONSTANTS v1, s1, s2, p1, p2, w1, j1, j2

OneVendor(S) == [s \in S |-> v1]
CallsOfOne == OneVendor(Call)
KindByName == [c \in Call |->
    IF c \in {s1, s2} THEN "Subscribe" ELSE IF c = w1 THEN "Spend" ELSE "Upgrade"]
TierByName == [c \in Call |-> IF c = p2 THEN 2 ELSE 1]
OnePerTier == [t \in Tier |-> t]
\* A day costs a coin; a membership that ended a while ago yields coins.
ByDays == [t \in Tier |-> [e \in Ends |-> IF e = "ahead" THEN t ELSE IF e = "soon" THEN 1 ELSE -1]]
Alike == Permutations({s1, s2}) \cup Permutations({j1, j2})
Two == [v \in Vendor |-> 2]
=============================================================================
