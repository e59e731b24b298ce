------------------------- MODULE MCStatusProjection -------------------------
(* Model-checking instance of StatusProjection, with the children as model *)
(* values: two PodVolumeBackups and no DataUpload for the tally (the two   *)
(* tallies share their loop), one of each for convergence.                 *)
EXTENDS StatusProjection

CONSTANTS p1, p2, d1

MCPvbs  == {p1, p2}
OnePvb  == {p1}
MCDus   == {d1}
NoDus   == {}
====
