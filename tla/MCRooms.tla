------------------------------ MODULE MCRooms ------------------------------
(* Instances of Rooms: a discount room with racing members, and a goal room *)
(* with racing confirmations, links and expiries.                           *)
EXTENDS Rooms

CONSTANTS u1, u2, u3, c1, c2, o1, o2, l1, r1, r2

\* The second customer calls from two devices.
Callers == [c \in Call |-> CASE c = c1 -> u1 [] c = c2 -> u3 [] OTHER -> u2]
OrderedByFirst == [o \in Order |-> u1]

\* r1 is a customer's room, r2 an administrator's, of one place more.
HostedByFirst == [r \in Room |-> IF r = r1 THEN u1 ELSE NoUser]
Places == [r \in Room |-> IF r = r1 THEN 2 ELSE 3]

\* Each order may be linked to the first room.
LinkedRooms == [l \in Link |-> r1]
LinkedOrders == [l \in Link |-> IF l = l1 THEN o1 ELSE o2]

\* The goal of r1 is two orders, the goal of r2 the second order alone.
TwoOrSecond(r, S) == IF r = r1 THEN Cardinality(S) >= 2 ELSE r \in Discount \/ o2 \in S
=============================================================================
