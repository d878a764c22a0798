------------------------ MODULE MCClientDependency ------------------------
(* Three clients, the least for a chain with a client in between. *)
EXTENDS ClientDependency

CONSTANTS c1, c2, c3

ClientSymmetry == Permutations(Client)
=============================================================================
