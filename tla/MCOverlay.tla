------------------------------ MODULE MCOverlay ------------------------------
(* A small instance of Overlay for TLC. *)
EXTENDS Overlay, TLC

CONSTANTS b, peer, w1, w2, self

TwoPeers   == {b, peer}
TwoWorkers == {w1, w2}
Boot       == {b}
OneMortal  == {peer}
\* The ids share a bucket.
Buckets    == [x \in TwoPeers |-> 0]
=============================================================================
