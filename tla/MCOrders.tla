------------------------------ MODULE MCOrders ------------------------------
(* Small instances of Orders for TLC. *)
EXTENDS Orders, TLC

CONSTANTS me, other, mine, theirs, none

TwoParties == {me, other}
TwoListings == {mine, theirs}
OneListing == {mine}
\* A user may order from himself; only he has a profile here.
Sellers == [l \in Listings |-> IF l = mine THEN me ELSE other]
Stocks == [l \in Listings |-> -1]
=============================================================================
