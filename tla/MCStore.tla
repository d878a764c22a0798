------------------------------ MODULE MCStore ------------------------------
(* A client with two keys that sends data sets of one or two configs. *)
EXTENDS Store

CONSTANTS k1, k2, v1, v2

Batches == {<<c>> : c \in Config} \cup {<<c, d>> : c, d \in Config}

(* Keys and values have no identity of their own. *)
StoreSymmetry == Permutations(Key) \cup Permutations(Value)
=============================================================================
