------------------------- MODULE MCEndpointRegistry -------------------------
(* EndpointRegistry for TLC.  Connections, ids and objects are             *)
(* interchangeable, which the safety runs use.                             *)
EXTENDS EndpointRegistry, TLC

Symmetry == Permutations(Conns) \cup Permutations(Ids) \cup Permutations(Eps)
=============================================================================
