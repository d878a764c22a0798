------------------------------ MODULE DataSet ------------------------------
(***************************************************************************)
(* What the store of a client promises, the abstract specification that    *)
(* Store implements: a map from keys to configs that only commits change.  *)
(*                                                                         *)
(* After a fault (a crash of the daemon, a failing write, a data set that  *)
(* cannot be read) configs may be missing, out of date or without their    *)
(* type, but nothing is ever loaded that the client has not given.         *)
(***************************************************************************)

CONSTANTS Key, Value,
          Nothing   \* what is loaded for a key without a config

VARIABLES
  data,     \* what the client would be sent for each key
  given,    \* the values it has ever given for each key
  faulty    \* something has failed

vars == <<data, given, faulty>>

Reading(values) == [value : values, type : {"own", "raw"}] \cup {Nothing}

Init ==
  /\ data = [k \in Key |-> Nothing]
  /\ given = [k \in Key |-> {}]
  /\ faulty = FALSE

(* The client gives a config. *)
Commit ==
  \E k \in Key, v \in Value :
    /\ data' = [data EXCEPT ![k] = [value |-> v, type |-> "own"]]
    /\ given' = [given EXCEPT ![k] = @ \cup {v}]
    /\ UNCHANGED faulty

(* The client is forgotten, and its data with it. *)
Forget ==
  /\ data' = [k \in Key |-> Nothing]
  /\ given' = [k \in Key |-> {}]
  /\ faulty => faulty'

(* A fault, or a later consequence of one. *)
Lapse ==
  /\ faulty'
  /\ \A k \in Key : given[k] \subseteq given'[k]
  /\ \A k \in Key : data'[k] \in Reading(given'[k])

Next == Commit \/ Forget \/ Lapse

Spec == Init /\ [][Next]_vars
=============================================================================
