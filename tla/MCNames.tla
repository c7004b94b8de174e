------------------------------ MODULE MCNames ------------------------------
(* Small instances of Names for TLC. *)
EXTENDS Names

CONSTANTS a, b, d, noReg

NodeA     == a
TwoNodes  == {a, b}
Rivals    == {a, b}
OneDomain == {d}
=============================================================================
