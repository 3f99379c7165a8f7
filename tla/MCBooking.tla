------------------------------ MODULE MCBooking ------------------------------
(* Instances of Booking for TLC. *)
EXTENDS Booking

Profits == {-2}
\* Midnight is between the second instant and the third.
Dates == <<1, 1, 2>>
=============================================================================
