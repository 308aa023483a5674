------------------------ MODULE MCStockReservation ------------------------
(* Instances of StockReservation for TLC.                                  *)
EXTENDS StockReservation, TLC

CONSTANTS r1, r2, r3, u1, u2, a, b

One(s) == [sku |-> s, qty |-> 1]
Two(s) == [sku |-> s, qty |-> 2]

OwnersApart == r1 :> u1 @@ r2 :> u2
CodAndOnline == r1 :> "COD" @@ r2 :> "ONLINE"
OwnersAll1 == [r \in Request |-> u1]
TwoCodOneOnline == [r \in Request |-> IF r = r3 THEN "ONLINE" ELSE "COD"]
\* Carts with the same two SKUs in opposite orders.  Of the unequal ones, two
\* units of b are enough for the first cart twice, but not for both carts.
CrossedCarts == {<<One(a), One(b)>>, <<One(b), One(a)>>}
UnequalCarts == {<<One(a), One(b)>>, <<Two(b), One(a)>>}
SmallCarts == {<<One(a)>>, <<Two(a)>>}
Stock2 == [s \in SKU |-> 2]
=============================================================================
