------------------------------ MODULE MCAdaptation -------------------------------
(* Two stories of different sizes, bounds close to the defaults.             *)
EXTENDS Adaptation, TLC

CONSTANTS s1, s2

MCPoints == [s \in Stories |-> IF s = s1 THEN 3 ELSE 1]
=============================================================================
