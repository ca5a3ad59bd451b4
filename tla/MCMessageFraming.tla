--------------------------- MODULE MCMessageFraming ---------------------------
(* MessageFraming for TLC: clients of a kind are interchangeable.          *)
EXTENDS MessageFraming, TLC

Symmetry == Permutations(Registered)
=============================================================================
