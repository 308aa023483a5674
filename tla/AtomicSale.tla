----------------------------- MODULE AtomicSale -----------------------------
(***************************************************************************)
(* What the checkout promises of the stock in the database, whatever the   *)
(* carts, the Redis counters, the payments and the crashes do on the way:  *)
(* an order is sold once, all its lines together, and only out of units    *)
(* that are there.  StockReservation implements it.                        *)
(***************************************************************************)
EXTENDS Integers, Sequences

CONSTANTS
    Request,        \* checkout requests; a request becomes at most one sale
    SKU,            \* things that have a stock of their own
    Carts,          \* the possible contents of an order: sequences of lines
    InitialStock    \* [SKU -> Nat]

VARIABLES
    stock,          \* [SKU -> Int]: units on hand
    sold            \* [Request -> Carts \cup {<<>>}]: what was sold, <<>> if nothing

vars == <<stock, sold>>

Nothing == <<>>

Skus(lines) == {lines[i].sku : i \in DOMAIN lines}

\* Units of s that the lines ask for; no SKU is on two lines of a cart.
Units(lines, s) ==
    IF s \in Skus(lines)
    THEN lines[CHOOSE i \in DOMAIN lines : lines[i].sku = s].qty
    ELSE 0

Init ==
    /\ stock = InitialStock
    /\ sold = [r \in Request |-> Nothing]

Sell(r, lines) ==
    /\ sold[r] = Nothing
    /\ \A s \in SKU : stock[s] >= Units(lines, s)
    /\ stock' = [s \in SKU |-> stock[s] - Units(lines, s)]
    /\ sold' = [sold EXCEPT ![r] = lines]

Next == \E r \in Request, lines \in Carts : Sell(r, lines)

Spec == Init /\ [][Next]_vars
=============================================================================
