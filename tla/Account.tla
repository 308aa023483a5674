------------------------------ MODULE Account ------------------------------
(***************************************************************************)
(* What a balance kept in one column promises: it moves only by bookings,  *)
(* a booking moves it by its value, and no booking is made twice.  Whether *)
(* a balance may go below zero is up to the code that decides on bookings. *)
(***************************************************************************)
EXTENDS Integers

CONSTANTS
    Owner,      \* who has a balance
    Booking,    \* what may be booked, once
    OwnerOf,    \* [Booking -> Owner]
    Value       \* [Booking -> Int]

VARIABLES
    booked,     \* the bookings made
    balance     \* [Owner -> Int]

vars == <<booked, balance>>

Init ==
    /\ booked = {}
    /\ balance = [o \in Owner |-> 0]

Book(b) ==
    /\ b \notin booked
    /\ booked' = booked \cup {b}
    /\ balance' = [balance EXCEPT ![OwnerOf[b]] = @ + Value[b]]

Next == \E b \in Booking : Book(b)

Spec == Init /\ [][Next]_vars
=============================================================================
