-------------------------- MODULE MCMessageRouting --------------------------
(* MessageRouting for TLC.  Connections, ids and objects are               *)
(* interchangeable where the sets of ids clients name are all of Ids or    *)
(* none of them.                                                           *)
EXTENDS MessageRouting, TLC

Symmetry == Permutations(Conns) \cup Permutations(Ids) \cup Permutations(Eps)
=============================================================================
