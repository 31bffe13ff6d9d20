------------------------------ MODULE MCSatellites ------------------------------
(* Two comments of one kind and one of the other. *)
EXTENDS Satellites, TLC

CONSTANTS c1, c2, r1, i1, i2, loop, pool, a1, a2

MCKindOf == c1 :> "comments" @@ c2 :> "comments" @@ r1 :> "reviews"
=============================================================================
