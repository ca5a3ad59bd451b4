---------------------------- MODULE MCSwitchClient ----------------------------
(* Clients of the library for TLC: the application of k1 registers by      *)
(* itself, in two roles, and kicks out; that of the others leaves          *)
(* everything to the library.  In client_names k1 names any of the ids too.*)
(* Connections and ids are witnesses of the liveness properties: in        *)
(* client_system nothing is reduced by symmetry.                           *)
EXTENDS RegistrationHistory, TLC

CONSTANTS k1, i1

MCOptionRoles == [k \in Clients |-> {"Normal"}]

MCClientRoles ==
    [k \in Clients |-> IF k = k1 THEN {"Normal", "Admin"} ELSE {}]

MCKickouts == [k \in Clients |-> IF k = k1 THEN {{i1}} ELSE {}]

NoNames == [k \in Clients |-> {}]

AnyNames == [k \in Clients |-> IF k = k1 THEN Ids ELSE {}]

ConnSymmetry == Permutations(Conns)
=============================================================================
