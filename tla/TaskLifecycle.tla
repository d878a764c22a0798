--------------------------- MODULE TaskLifecycle ---------------------------
(***************************************************************************)
(* What a project promises about its task, the abstract specification that *)
(* ProjectTasks implements: at most one task at a time; a task of n client *)
(* tasks ends with the n-th completion and is then announced once; nothing *)
(* is announced while client tasks are pending.                            *)
(*                                                                         *)
(* Which signal announces the end is left open, because the code takes it  *)
(* from the last client's event and not from the task.                     *)
(***************************************************************************)
EXTENDS Naturals

CONSTANT MaxLeft  \* a natural number: the most client tasks of one task

VARIABLES
  open,      \* the project is loaded
  task,      \* the task in progress
  left,      \* client tasks still to complete
  signal     \* the completion signal broadcast by the last step

vars == <<open, task, left, signal>>

Completion == {"ProjectSaved", "ProjectLoaded"}

Init ==
  /\ open = FALSE
  /\ task = "none"
  /\ left = 0
  /\ signal = "nothing"

(* A client connects and the daemon creates a project for it. *)
Create ==
  /\ ~open
  /\ task = "none"
  /\ open' = TRUE
  /\ signal' = "nothing"
  /\ UNCHANGED <<task, left>>

(* A project read from disk is loading, even if it has no clients. *)
StartLoad(n) ==
  /\ ~open
  /\ open' = TRUE
  /\ task' = "load"
  /\ left' = n
  /\ signal' = "nothing"

StartSave(n) ==
  /\ open
  /\ task = "none"
  /\ n > 0
  /\ task' = "save"
  /\ left' = n
  /\ signal' = "nothing"
  /\ UNCHANGED open

(* A save that has to ask nobody. *)
SaveAtOnce ==
  /\ open
  /\ task = "none"
  /\ signal' = "ProjectSaved"
  /\ UNCHANGED <<open, task, left>>

CompleteOne ==
  /\ open
  /\ left > 1
  /\ left' = left - 1
  /\ signal' = "nothing"
  /\ UNCHANGED <<open, task>>

CompleteLast ==
  /\ open
  /\ left = 1
  /\ left' = 0
  /\ task' = "none"
  /\ signal' \in Completion
  /\ UNCHANGED open

(* Everything else that happens to the project. *)
Quiet ==
  /\ signal' = "nothing"
  /\ UNCHANGED <<open, task, left>>

(* A closed project keeps its stale task, or is forgotten altogether. *)
Close ==
  /\ open
  /\ open' = FALSE
  /\ signal' = "nothing"
  /\ \/ UNCHANGED <<task, left>>
     \/ task' = "none" /\ left' = 0

Next ==
  \/ Create
  \/ \E n \in 0..MaxLeft : StartLoad(n) \/ StartSave(n)
  \/ SaveAtOnce
  \/ CompleteOne
  \/ CompleteLast
  \/ Quiet
  \/ Close

Spec == Init /\ [][Next]_vars
=============================================================================
