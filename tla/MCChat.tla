------------------------------- MODULE MCChat -------------------------------
(* Small instances of Chat for TLC. *)
EXTENDS Chat, TLC

CONSTANTS p1, p2, r1, r2, a, b, mine, me, them, none

TwoProcs == {p1, p2}
TwoRooms == {r1, r2}
AllIds   == {a, b, mine}
Mine     == {mine}
SenderOf == (a :> them) @@ (b :> them) @@ (mine :> me)
\* a was written before the others.
StampOf  == (a :> 0) @@ (b :> 1) @@ (mine :> 1)
FullRoom == {<<b, a>>}
=============================================================================
