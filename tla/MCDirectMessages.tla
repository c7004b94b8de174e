-------------------------- MODULE MCDirectMessages --------------------------
(* A small instance of DirectMessages for TLC. *)
EXTENDS DirectMessages, TLC

CONSTANTS p1, p2, o1, o2, o3, a, b, mine, oops, them, typed

TwoProcs  == {p1, p2}
ThreeObjs == {o1, o2, o3}
TwoPeers  == {them, typed}
Typed     == {typed}
AllIds    == {a, b, mine, oops}
Ours      == {mine, oops}
\* oops is for somebody of whom only the beginning of the id was typed.
WithBoth  == (a :> them) @@ (b :> them) @@ (mine :> them) @@ (oops :> typed)
Symmetric == Permutations({p1, p2}) \cup Permutations({o1, o2, o3})
=============================================================================
