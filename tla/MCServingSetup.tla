---------------------------- MODULE MCServingSetup ----------------------------
(* ServingSetup for TLC: two codes, one of which is the default of the     *)
(* admins and the other that of everybody else, and a mode that is none.   *)
EXTENDS ServingSetup, TLC

CONSTANTS x, y

MCDefaultCode == [role \in Roles |-> IF role = "Admin" THEN y ELSE x]

MCModeTags == {"normal", "rproxy", "cluster"}

Symmetry == Permutations(Conns)
=============================================================================
