------------------------------ MODULE MCEscrow ------------------------------
(* Small instances of Escrow for TLC. *)
EXTENDS Escrow, TLC

CONSTANTS o1, o2, p1, p2, p3, noPayment, noOrder

OneOrder  == {o1}
TwoOrders == {o1, o2}
TwoPayments   == {p1, p2}
ThreePayments == {p1, p2, p3}

\* Orders and payment ids are interchangeable in every safety run.
Symmetry == Permutations(Orders) \cup Permutations(PaymentIds)
=============================================================================
