----------------------------- MODULE MCListings -----------------------------
(* Small instances of Listings for TLC. *)
EXTENDS Listings

CONSTANTS boot, peer, l1, l2

TwoNodes    == {boot, peer}
TwoListings == {l1, l2}
\* Each node sells one.
Sellers == [l \in ListingIds |-> IF l = l1 THEN boot ELSE peer]
=============================================================================
