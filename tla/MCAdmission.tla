---------------------------- MODULE MCAdmission ----------------------------
(* Small instances of Admission for TLC. *)
EXTENDS Admission

CONSTANTS p, none

OnePeer == {p}

Step(at, for) == [at |-> at, for |-> for]

\* Two steps for what counts as bad, an immediate ban for a signature.
ShortBans ==
  [bad |-> <<Step(2, 1), Step(3, 2)>>,
   sig |-> <<Step(1, 1), Step(2, 2)>>,
   limit |-> <<Step(2, 2)>>]
=============================================================================
