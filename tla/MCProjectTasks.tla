--------------------------- MODULE MCProjectTasks ---------------------------
(* Small sessions of the daemon for TLC: two clients, two processes. *)
EXTENDS ProjectTasks, TLC

CONSTANTS c1, c2, p1, p2

(* The second client may be made to depend on the first. *)
OneEdge == {<<c2, c1>>}

(* Processes have no identity of their own. *)
PidSymmetry == Permutations(Pid)
=============================================================================
