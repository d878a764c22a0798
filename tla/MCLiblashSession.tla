-------------------------- MODULE MCLiblashSession --------------------------
(* Kinds of clients of liblash. *)
EXTENDS LiblashSession

CONSTANTS a, b, c

Kind(old, flags, callbacks, controller, restored) ==
  [old_api |-> old, flags |-> flags, callbacks |-> callbacks,
   controller |-> controller, restored |-> restored]

Setups ==
  { Kind(TRUE, {"File", "DataSet"}, {}, FALSE, TRUE),
    Kind(TRUE, {"File"}, {}, TRUE, FALSE),
    Kind(FALSE, {"DataSet"}, Callback, FALSE, TRUE),
    Kind(FALSE, {"File"}, Callback, TRUE, FALSE),
    Kind(FALSE, {"File"}, {}, FALSE, TRUE),
    Kind(FALSE, {"DataSet"}, {"load_data_set"}, FALSE, TRUE) }
=============================================================================
