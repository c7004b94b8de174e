------------------------------ MODULE MCGossip ------------------------------
(* Small instances of Gossip for TLC. *)
EXTENDS Gossip, TLC

CONSTANTS a, b, c, m1, m2, noAddress, g1, g2

Three == {a, b, c}
TwoMessages   == {m1, m2}
TwoGoroutines == {g1, g2}

\* The ends of the path talk at the same time.
SenderEnds == (m1 :> a) @@ (m2 :> c)

\* One sender's clock is ahead of the others'.
AheadC == (a :> 0) @@ (b :> 0) @@ (c :> 1)

Both(e)  == {e, <<e[2], e[1]>>}
Path     == Both(<<a, b>>) \cup Both(<<b, c>>)

OnePath == {Path}
=============================================================================
