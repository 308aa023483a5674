---------------------------- MODULE MCCoinLedger ----------------------------
(* An instance of CoinLedger for TLC.                                      *)
EXTENDS CoinLedger, TLC

CONSTANTS u1, c1, c2, b1, b2, f1, a1, g1, v1, r1, s1, s2

OneUser == [c \in Call |-> u1]
Kinds1 == c1 :> "Credit" @@ c2 :> "Credit" @@ b1 :> "Debit" @@ b2 :> "Debit"
    @@ f1 :> "Refund" @@ a1 :> "Adjust" @@ g1 :> "Grant" @@ v1 :> "Revoke" @@ r1 :> "Boost"
Kind1 == [c \in Call |-> Kinds1[c]]
Amount1 == [c \in Call |-> IF c = a1 THEN -1 ELSE IF c \in {c1, b1, f1} THEN 2 ELSE 1]
RefundOfB1 == [c \in Call |-> b1]
=============================================================================
