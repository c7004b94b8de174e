----------------------------- MODULE MCSaveFile -----------------------------
(* Small instances of SaveFile for TLC. *)
EXTENDS SaveFile

CONSTANTS s1, s2, f1, f2, f3, noFile

AllProtocols == {"shared", "inplace"}
TwoSavers == {s1, s2}
\* The live one, the temporary one, and one that has lost its name while a
\* saver still has it open.
ThreeFiles == {f1, f2, f3}
=============================================================================
