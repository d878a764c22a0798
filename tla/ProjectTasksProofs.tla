------------------------- MODULE ProjectTasksProofs -------------------------
(***************************************************************************)
(* Theorems about ProjectTasks, for any number of clients, processes and   *)
(* tasks: its invariant and the life cycle it implements; then what lashd  *)
(* counts and launches: the order of the launches, the number of pending   *)
(* client tasks, and the truth of the completion signals.                  *)
(***************************************************************************)
EXTENDS ProjectTasks, FiniteSetTheorems, TLAPS

------------------------------------------------------------------------------
(* Counting clients *)

(* The totals that a task starts from are natural numbers, and none counts *)
(* more than the clients there are.                                        *)
LEMMA CountsClients ==
  ASSUME NEW S \in SUBSET Client
  PROVE  Cardinality(S) \in Nat /\ Cardinality(S) <= Cardinality(Client)
                                /\ (Cardinality(S) = 0 <=> S = {})
  BY ConstantsOK, FS_Subset, FS_CardinalityType, FS_EmptySet
     DEF ConstantAssumption

------------------------------------------------------------------------------
(* Every step preserves the types *)

(* client_destroy leaves fields of the right type. *)
LEMMA DestroyType ==
  ASSUME ClientTypeOK, NEW S \in SUBSET Client, Destroy(S)
  PROVE  ClientTypeOK'
  BY DEF ClientTypeOK, Destroy, Assign

LEMMA LaunchType ==
  ASSUME ClientTypeOK, ProcessTypeOK, NEW S \in SUBSET Client,
         NEW fork \in Forks(S), Launch(fork)
  PROVE  /\ pid' \in [Client -> Pid \cup {NoPid}]
         /\ proc' \in [Pid -> {"free", "running", "connected", "dying", "gone"}]
         /\ child' \in [Pid -> BOOLEAN]
<1>1. DOMAIN fork = S /\ \A c \in S : fork[c] \in Pid \cup {NoPid}
  BY DEF Forks
<1>2. pid' \in [Client -> Pid \cup {NoPid}]
  BY <1>1 DEF Launch, ClientTypeOK
<1>3. proc' \in [Pid -> {"free", "running", "connected", "dying", "gone"}]
  BY DEF Launch, ProcessTypeOK
<1>4. child' \in [Pid -> BOOLEAN]
  <2>1. \A p \in Pid : (child[p] \/ \E c \in DOMAIN fork : fork[c] = p) \in BOOLEAN
    OBVIOUS
  <2> QED BY <2>1, Zenon DEF Launch
<1> QED BY <1>2, <1>3, <1>4

LEMMA LoseType ==
  ASSUME TypeOK, NEW S \in SUBSET Client, LoseAny(S)
  PROVE  ProjectTypeOK' /\ ClientTypeOK' /\ steady' \in BOOLEAN
<1>1. ASSUME NEW c \in S, Lose(c)
      PROVE  ProjectTypeOK' /\ ClientTypeOK' /\ steady' \in BOOLEAN
  BY <1>1 DEF Lose, TypeOK, ProjectTypeOK, ClientTypeOK, HistoryTypeOK
<1>2. CASE UNCHANGED <<projectVars, clientVars, steady>>
  BY <1>2 DEF projectVars, clientVars, TypeOK, ProjectTypeOK, ClientTypeOK,
              HistoryTypeOK
<1> QED BY <1>1, <1>2 DEF LoseAny

(* project_client_task_completed: the reading stays a natural number even  *)
(* though the code subtracts the client's old reading from it.             *)
LEMMA CompletedType ==
  ASSUME TypeOK, NEW c \in Client, NEW event, NEW sv \in SUBSET Client,
         ProjectClientTaskCompleted(c, event, sv)
  PROVE  /\ task_type' \in {NoTask, LASH_TASK_SAVE, LASH_TASK_LOAD}
         /\ client_tasks_total' \in Nat
         /\ client_tasks_pending' \in Nat
         /\ client_tasks_progress' \in Nat
         /\ announced' \in {"nothing", "ProjectSaved", "ProjectLoaded"}
         /\ steady' \in BOOLEAN
         /\ modified_status' \in BOOLEAN
         /\ doc' \in Document
<1> USE DEF TypeOK, ProjectTypeOK, TaskTypeOK, ClientTaskTypeOK, HistoryTypeOK
<1>1. CASE LastPendingTask
  <2>1. task_type' = NoTask /\ client_tasks_total' = 0
          /\ client_tasks_pending' = 0 /\ client_tasks_progress' = 0
    BY <1>1 DEF ProjectClientTaskCompleted, TaskFinished
  <2>2. steady' = TRUE
    BY <1>1 DEF ProjectClientTaskCompleted
  <2>3. CASE event \in SaveEvents
    <3>1. SaveComplete(sv)
      BY <1>1, <2>3 DEF ProjectClientTaskCompleted
    <3>2. doc' \in Document
      BY <3>1 DEF SaveComplete, Written, Document, ClientTypeOK
    <3> QED BY <2>1, <2>2, <3>1, <3>2 DEF SaveComplete
  <2>4. CASE event \notin SaveEvents
    <3>1. ProjectLoaded
      BY <1>1, <2>4 DEF ProjectClientTaskCompleted
    <3> QED BY <2>1, <2>2, <3>1 DEF ProjectLoaded
  <2> QED BY <2>3, <2>4
<1>2. CASE ~LastPendingTask
  <2>1. NewReading(c, 100) \in Nat
    BY DEF NewReading
  <2> QED BY <1>2, <2>1 DEF ProjectClientTaskCompleted, LastPendingTask
<1> QED BY <1>1, <1>2

LEMMA ClientTaskCompletedType ==
  ASSUME TypeOK, NEW c \in Client, NEW success \in BOOLEAN,
         ClientTaskCompleted(c, success)
  PROVE  TypeOK'
<1> USE DEF TypeOK
<1>1. PICK sv \in MarksSaved(c, success) :
        saved' = sv /\ ProjectClientTaskCompleted(c, client_task[c], sv)
  BY DEF ClientTaskCompleted
<1>2. sv \in SUBSET Client
  BY <1>1 DEF MarksSaved, ClientTypeOK
<1>3. UNCHANGED <<loaded, clients, lost_clients, dbus_name, dependencies,
                 task_iter, onBus, asked, waiting>>
  BY DEF ClientTaskCompleted
<1>4. ProjectTypeOK' /\ TaskTypeOK' /\ announced' \in {"nothing", "ProjectSaved",
        "ProjectLoaded"} /\ steady' \in BOOLEAN
  BY <1>1, <1>2, <1>3, CompletedType DEF ProjectTypeOK, TaskTypeOK
<1>5. ClientTaskTypeOK'
  BY DEF ClientTaskCompleted, ClearTask, ClientTaskTypeOK
<1>6. /\ ClientTypeOK' /\ ProcessTypeOK' /\ restored' \subseteq Client
  <2>1. CASE success /\ client_task[c] \in RestoreEvents
    <3>1. SatisfyDependency(c) /\ restored' = restored \cup {c}
      BY <2>1 DEF ClientTaskCompleted
    <3>2. PICK fork \in Forks(WaitingOnlyFor(c)) : Launch(fork)
      BY <3>1 DEF SatisfyDependency
    <3>3. WaitingOnlyFor(c) \in SUBSET Client
      BY DEF WaitingOnlyFor, ProjectTypeOK
    <3>4. unsatisfied_deps' \in [Client -> SUBSET Client]
      BY <3>1 DEF SatisfyDependency, ClientTypeOK
    <3> QED BY <1>1, <1>2, <1>3, <3>1, <3>2, <3>3, <3>4, LaunchType
            DEF ClientTypeOK, ProcessTypeOK, HistoryTypeOK
  <2>2. CASE ~(success /\ client_task[c] \in RestoreEvents)
    BY <1>1, <1>2, <1>3, <2>2
       DEF ClientTaskCompleted, ClientTypeOK, ProcessTypeOK, HistoryTypeOK
  <2> QED BY <2>1, <2>2
<1> QED BY <1>3, <1>4, <1>5, <1>6 DEF HistoryTypeOK

------------------------------------------------------------------------------
(* The inductive invariant *)

(* project_unload of a project that was never saved leaves nothing.        *)
NewbornsAreIdle == ~loaded /\ ~doc.written => task_type = NoTask

(* That a reading never falls below zero takes more than the types: a      *)
(* report must be about a task that is not at 100 percent, so that no      *)
(* report is below the reading, which in turn takes that the process of a  *)
(* running client is its own.                                              *)
Inv ==
  /\ TypeOK
  /\ TaskFieldsAgree
  /\ NewbornsAreIdle
  /\ RunningClientsHaveProcesses
  /\ AskedTaskHasEvent

LEMMA InitInv == Init => Inv
<1> SUFFICES ASSUME Init PROVE Inv
  OBVIOUS
<1> USE DEF Init
<1>1. ProjectTypeOK /\ TaskTypeOK
  <2>1. NoDoc \in Document
    BY DEF NoDoc, Document
  <2>2. 0 \in 0..MaxTask
    BY ConstantsOK DEF ConstantAssumption
  <2> QED BY <2>1, <2>2 DEF ProjectTypeOK, TaskTypeOK
<1>2. ClientTaskTypeOK /\ ClientTypeOK
  BY DEF ClientTaskTypeOK, ClientTypeOK, NoTask
<1>3. ProcessTypeOK /\ HistoryTypeOK
  BY DEF ProcessTypeOK, HistoryTypeOK
<1>4. TaskFieldsAgree
  BY DEF TaskFieldsAgree, NoTask, LASH_TASK_SAVE
<1>5. RunningClientsHaveProcesses /\ AskedTaskHasEvent
  BY DEF RunningClientsHaveProcesses, AskedTaskHasEvent
<1> QED BY <1>1, <1>2, <1>3, <1>4, <1>5 DEF Inv, TypeOK, NewbornsAreIdle

LEMMA ConnectNewType ==
  ASSUME Inv, NEW p \in Pid, NEW c \in Client, ConnectNew(p, c)
  PROVE  TypeOK'
<1> USE DEF Inv, TypeOK
<1>1. ProjectTypeOK'
  BY DEF ConnectNew, ProjectTypeOK
<1>2. TaskTypeOK' /\ ClientTaskTypeOK'
  BY DEF ConnectNew, taskVars, clientTask, TaskTypeOK, ClientTaskTypeOK
<1>3. ClientTypeOK'
  BY DEF ConnectNew, ClientTypeOK
<1>4. ProcessTypeOK' /\ HistoryTypeOK'
  BY DEF ConnectNew, CallsConnect, ProcessTypeOK, HistoryTypeOK
<1> QED BY <1>1, <1>2, <1>3, <1>4

LEMMA ConnectElsewhereType ==
  ASSUME Inv, NEW p \in Pid, ConnectElsewhere(p)
  PROVE  TypeOK'
BY DEF Inv, TypeOK, ConnectElsewhere, CallsConnect, projectVars, taskVars,
       clientTask, clientVars, ProjectTypeOK, TaskTypeOK, ClientTaskTypeOK,
       ClientTypeOK, ProcessTypeOK, HistoryTypeOK

(* What the three ways to resume have in common. *)
LEMMA ResumesType ==
  ASSUME Inv, NEW p \in Pid, NEW c \in Client, Resumes(p, c)
  PROVE  /\ loaded' \in BOOLEAN
         /\ clients' \subseteq Client
         /\ lost_clients' \subseteq Client
         /\ ClientTypeOK'
         /\ proc' \in [Pid -> {"free", "running", "connected", "dying", "gone"}]
         /\ onBus' \in [Pid -> BOOLEAN]
         /\ child' \in [Pid -> BOOLEAN]
         /\ waiting' \subseteq Client
         /\ restored' \subseteq Client
BY DEF Inv, TypeOK, Resumes, CallsConnect, ProjectTypeOK, ClientTypeOK,
       ProcessTypeOK, HistoryTypeOK

LEMMA ResumeLoadsType ==
  ASSUME Inv, NEW p \in Pid, NEW c \in Client, ResumeLoads(p, c)
  PROVE  TypeOK'
<1> USE DEF Inv, TypeOK
<1>1. Resumes(p, c)
  BY DEF ResumeLoads
<1>2. task_iter' \in 1..MaxTask
  BY ConstantsOK DEF ResumeLoads, ConstantAssumption, TaskTypeOK
<1>3. ProjectTypeOK' /\ HistoryTypeOK'
  BY <1>1, ResumesType DEF ResumeLoads, ProjectTypeOK, HistoryTypeOK
<1>4. TaskTypeOK'
  BY <1>2 DEF ResumeLoads, taskVars, TaskTypeOK
<1>5. ClientTaskTypeOK'
  BY <1>2 DEF ResumeLoads, ClientTaskTypeOK, RestoreEvents
<1>6. ProcessTypeOK'
  BY <1>1, <1>2, ResumesType DEF ResumeLoads, ProcessTypeOK
<1> QED BY <1>1, <1>3, <1>4, <1>5, <1>6, ResumesType

LEMMA ResumeSendsNothingType ==
  ASSUME Inv, NEW p \in Pid, NEW c \in Client, ResumeSendsNothing(p, c)
  PROVE  TypeOK'
<1>1. Resumes(p, c)
  BY DEF ResumeSendsNothing
<1> QED BY <1>1, ResumesType
        DEF Inv, TypeOK, ResumeSendsNothing, taskVars, clientTask,
            ProjectTypeOK, TaskTypeOK, ClientTaskTypeOK, ProcessTypeOK,
            HistoryTypeOK

LEMMA ResumeStatelessType ==
  ASSUME Inv, NEW p \in Pid, NEW c \in Client, ResumeStateless(p, c)
  PROVE  TypeOK'
<1> USE DEF Inv, TypeOK
<1>1. Resumes(p, c) /\ ProjectClientTaskCompleted(c, "Restore_Data_Set", saved)
  BY DEF ResumeStateless
<1>2. saved \in SUBSET Client
  BY DEF ClientTypeOK
<1>3. ClientTaskTypeOK'
  BY DEF ResumeStateless, ClientTaskTypeOK
<1> QED BY <1>1, <1>2, <1>3, ResumesType, CompletedType
        DEF ResumeStateless, ProjectTypeOK, TaskTypeOK, ProcessTypeOK,
            HistoryTypeOK

(* A report above the client's reading moves both readings up. *)
LEMMA ProgressReading ==
  ASSUME Inv, NEW p \in Pid, NEW t \in 1..MaxTask, NEW c \in Client,
         NEW percentage \in Percent,
         Accepts(p, t, c), TaskProgressed(c, percentage)
  PROVE  /\ Truncated(percentage) \in 1..99
         /\ Truncated(percentage) >= task_progress[c]
         /\ client_tasks_progress' >= client_tasks_progress
         /\ client_tasks_progress' \in Nat
<1>1. task_progress[c] \in 0..99
  <2>1. c \in clients /\ pending_task[c] \in asked[dbus_name[c]]
    BY DEF Accepts, CheckTasks
  <2> QED BY <2>1 DEF Inv, AskedTaskHasEvent, TypeOK, ClientTaskTypeOK
<1>2. percentage \in 1..254 /\ percentage > task_progress[c]
  BY DEF TaskProgressed
<1>3. Truncated(percentage) \in 1..99 /\ Truncated(percentage) >= task_progress[c]
  BY <1>1, <1>2 DEF Truncated
<1>4. client_tasks_progress' = client_tasks_progress - task_progress[c]
                                 + Truncated(percentage)
  BY DEF TaskProgressed, NewReading
<1> QED BY <1>1, <1>3, <1>4 DEF Inv, TypeOK, TaskTypeOK

LEMMA ReportType ==
  ASSUME Inv, NEW p \in Pid, Report(p)
  PROVE  TypeOK'
<1>1. ASSUME NEW t \in 1..MaxTask, NEW c \in Client, NEW percentage \in Percent,
             Progress(p, t, c, percentage)
      PROVE  TypeOK'
  <2>1. CASE \E success \in BOOLEAN : ClientTaskCompleted(c, success)
    BY <2>1, ClientTaskCompletedType DEF Inv
  <2>2. CASE TaskProgressed(c, percentage)
    <3>1. /\ Truncated(percentage) \in 1..99
          /\ client_tasks_progress' \in Nat
      BY <1>1, <2>2, ProgressReading DEF Progress
    <3> QED BY <2>2, <3>1
            DEF Inv, TypeOK, TaskProgressed, projectVars, clientVars,
                processVars, ProjectTypeOK, TaskTypeOK, ClientTaskTypeOK,
                ClientTypeOK, ProcessTypeOK, HistoryTypeOK
  <2> QED BY <1>1, <2>1, <2>2 DEF Progress
<1>2. ASSUME NEW t \in 1..MaxTask, NEW c \in Client, NEW readable \in BOOLEAN,
             CommitDataSet(p, t, c, readable)
      PROVE  TypeOK'
  BY <1>2, ClientTaskCompletedType DEF CommitDataSet, Inv
<1> QED BY <1>1, <1>2 DEF Report

LEMMA NoticeType ==
  ASSUME Inv, NEW p \in Pid, BusNotice(p) \/ Bury(p)
  PROVE  TypeOK'
<1> USE DEF Inv, TypeOK
<1>1. WithName(p) \in SUBSET Client /\ WithPid(p) \in SUBSET Client
  BY DEF WithName, WithPid, ProjectTypeOK
<1>2. ProjectTypeOK' /\ ClientTypeOK' /\ steady' \in BOOLEAN
  BY <1>1, LoseType DEF BusNotice, Bury
<1>3. TaskTypeOK' /\ ClientTaskTypeOK'
  BY DEF BusNotice, Bury, taskVars, clientTask, TaskTypeOK, ClientTaskTypeOK
<1>4. ProcessTypeOK' /\ HistoryTypeOK'
  BY <1>2 DEF BusNotice, Bury, ProcessTypeOK, HistoryTypeOK
<1> QED BY <1>2, <1>3, <1>4

LEMMA ProcessEndsType ==
  ASSUME Inv, NEW p \in Pid, Exits(p) \/ Recycle(p)
  PROVE  TypeOK'
<1> USE DEF Inv, TypeOK
<1>1. UNCHANGED <<projectVars, taskVars, clientTask, clientVars, task_iter>>
  BY DEF Exits, Recycle
<1>2. ProcessTypeOK' /\ HistoryTypeOK'
  BY DEF Exits, Recycle, ProcessTypeOK, HistoryTypeOK
<1> QED BY <1>1, <1>2 DEF projectVars, taskVars, clientTask, clientVars,
           ProjectTypeOK, TaskTypeOK, ClientTaskTypeOK, ClientTypeOK

LEMMA SaveAsksNobodyType ==
  ASSUME Inv, SaveAsksNobody
  PROVE  TypeOK'
<1> USE DEF Inv, TypeOK
<1>1. /\ Destroy(lost_clients) /\ NoTasks(lost_clients)
      /\ lost_clients' = {} /\ waiting' = {}
      /\ UNCHANGED <<loaded, clients, taskVars, task_iter, processVars, steady,
                     restored>>
  BY DEF SaveAsksNobody, ProjectSave
<1>2. ClientTypeOK'
  BY <1>1, DestroyType DEF ProjectTypeOK
<1>3. ClientTaskTypeOK'
  BY <1>1 DEF NoTasks, Assign, ClientTaskTypeOK
<1>4. /\ doc' \in Document /\ modified_status' \in BOOLEAN
      /\ announced' \in {"nothing", "ProjectSaved", "ProjectLoaded"}
  <2>1. CASE SaveComplete(saved)
    BY <2>1 DEF SaveComplete, Written, Document, ProjectTypeOK, ClientTypeOK
  <2>2. CASE announced' = "nothing" /\ UNCHANGED <<doc, modified_status>>
    BY <2>2 DEF ProjectTypeOK
  <2> QED BY <2>1, <2>2 DEF SaveAsksNobody
<1> QED BY <1>1, <1>2, <1>3, <1>4
        DEF taskVars, processVars, ProjectTypeOK, TaskTypeOK, ProcessTypeOK,
            HistoryTypeOK

LEMMA SaveAsksClientsType ==
  ASSUME Inv, SaveAsksClients
  PROVE  TypeOK'
<1> USE DEF Inv, TypeOK
<1> DEFINE asking == clients \cap InternalState
<1>1. /\ Destroy(lost_clients)
      /\ lost_clients' = {} /\ waiting' = {} /\ steady' = TRUE
      /\ UNCHANGED <<loaded, clients, proc, onBus, child, restored>>
  BY DEF SaveAsksClients, ProjectSave
<1>2. task_iter' \in 1..MaxTask
  BY ConstantsOK DEF SaveAsksClients, ConstantAssumption, TaskTypeOK
<1>3. ClientTypeOK'
  BY <1>1, DestroyType DEF ProjectTypeOK
<1>4. ClientTaskTypeOK'
  <2>1. pending_task' \in [Client -> Nat]
    BY <1>2 DEF SaveAsksClients, Assign, ClientTaskTypeOK
  <2>2. client_task' \in [Client -> SaveEvents \cup RestoreEvents \cup {NoTask}]
    BY DEF SaveAsksClients, ClientTaskTypeOK, SaveEvents
  <2>3. task_progress' \in [Client -> 0..100]
    BY DEF SaveAsksClients, Assign, ClientTaskTypeOK
  <2> QED BY <2>1, <2>2, <2>3 DEF ClientTaskTypeOK
<1>5. /\ client_tasks_total' \in Nat /\ client_tasks_pending' \in Nat
      /\ client_tasks_progress' \in Nat
  BY CountsClients DEF SaveAsksClients, ProjectTypeOK
<1>6. /\ task_type' \in {NoTask, LASH_TASK_SAVE, LASH_TASK_LOAD}
      /\ doc' \in Document /\ modified_status' \in BOOLEAN
      /\ announced' \in {"nothing", "ProjectSaved", "ProjectLoaded"}
  <2>1. CASE asking = {}
    <3>1. task_type' = NoTask /\ SaveComplete(saved)
      BY <2>1 DEF SaveAsksClients
    <3> QED BY <3>1 DEF SaveComplete, Written, Document, ProjectTypeOK, ClientTypeOK
  <2>2. CASE asking # {}
    BY <2>2 DEF SaveAsksClients, ProjectTypeOK
  <2> QED BY <2>1, <2>2
<1>7. ProcessTypeOK'
  BY <1>1, <1>2 DEF SaveAsksClients, ProcessTypeOK
<1> QED BY <1>1, <1>2, <1>3, <1>4, <1>5, <1>6, <1>7
        DEF ProjectTypeOK, TaskTypeOK, HistoryTypeOK

LEMMA ProjectOpenType ==
  ASSUME Inv, NEW nameTaken \in BOOLEAN, ProjectOpen(nameTaken)
  PROVE  TypeOK'
<1> USE DEF Inv, TypeOK
<1>1. doc.clients \in SUBSET Client /\ doc.saved \in SUBSET Client
      /\ doc.dependencies \in [Client -> SUBSET Client]
  BY DEF ProjectTypeOK, Document
<1>2. UNCHANGED <<doc, clients, clientTask, dbus_name, task_iter, onBus, asked>>
  BY DEF ProjectOpen
<1>3. PICK fork \in Forks(LaunchedFirst(dependencies')) : Launch(fork)
  BY DEF ProjectOpen
<1>4. LaunchedFirst(dependencies') \in SUBSET Client
  BY <1>1 DEF LaunchedFirst
<1>5. ClientTypeOK' /\ ProcessTypeOK'
  BY <1>1, <1>2, <1>3, <1>4, LaunchType
     DEF ProjectOpen, ProjectLoad, SaneDependencies, ClientTypeOK, ProcessTypeOK
<1>6. ProjectTypeOK' /\ HistoryTypeOK'
  BY <1>1 DEF ProjectOpen, ProjectLoad, ProjectTypeOK, HistoryTypeOK
<1>7. TaskTypeOK'
  BY <1>1, CountsClients DEF ProjectOpen, TaskTypeOK
<1> QED BY <1>2, <1>5, <1>6, <1>7 DEF clientTask, ClientTaskTypeOK

LEMMA ProjectCloseType ==
  ASSUME Inv, ProjectClose
  PROVE  TypeOK'
<1> USE DEF Inv, TypeOK
<1>1. ClientTypeOK'
  BY DestroyType DEF ProjectClose
<1>2. ClientTaskTypeOK'
  BY DEF ProjectClose, NoTasks, Assign, ClientTaskTypeOK
<1>3. TaskTypeOK' /\ modified_status' \in BOOLEAN
  <2>1. CASE doc.written
    BY <2>1 DEF ProjectClose, taskVars, TaskTypeOK, ProjectTypeOK
  <2>2. CASE ~doc.written
    <3>1. /\ task_type' = NoTask /\ client_tasks_total' = 0
          /\ client_tasks_pending' = 0 /\ client_tasks_progress' = 0
          /\ modified_status' = FALSE /\ task_iter' = task_iter
      BY <2>2 DEF ProjectClose
    <3> QED BY <3>1 DEF TaskTypeOK
  <2> QED BY <2>1, <2>2
<1>4. ProjectTypeOK'
  BY <1>3 DEF ProjectClose, ProjectTypeOK
<1>5. ProcessTypeOK' /\ HistoryTypeOK'
  BY DEF ProjectClose, processVars, ProcessTypeOK, HistoryTypeOK
<1> QED BY <1>1, <1>2, <1>3, <1>4, <1>5

LEMMA LostClientLaunchType ==
  ASSUME Inv, NEW c \in Client, LostClientLaunch(c)
  PROVE  TypeOK'
<1> USE DEF Inv, TypeOK
<1>1. PICK fork \in Forks({c}) : Launch(fork)
  BY DEF LostClientLaunch
<1>2. ClientTypeOK' /\ ProcessTypeOK'
  BY <1>1, LaunchType DEF LostClientLaunch, ClientTypeOK, ProcessTypeOK
<1>3. waiting' \subseteq Client
  BY DEF LostClientLaunch, HistoryTypeOK
<1> QED BY <1>2, <1>3 DEF LostClientLaunch, projectVars, taskVars, clientTask,
           ProjectTypeOK, TaskTypeOK, ClientTaskTypeOK, HistoryTypeOK

LEMMA EditType ==
  ASSUME Inv, Edit
  PROVE  TypeOK'
BY DEF Inv, TypeOK, Edit, taskVars, clientTask, clientVars, processVars,
       ProjectTypeOK, TaskTypeOK, ClientTaskTypeOK, ClientTypeOK,
       ProcessTypeOK, HistoryTypeOK

LEMMA ModifyDependencyType ==
  ASSUME Inv, NEW c \in Client, NEW d \in Client, ModifyDependency(c, d)
  PROVE  TypeOK'
<1> USE DEF Inv, TypeOK
<1>1. ClientTypeOK'
  BY DEF ModifyDependency, ClientTypeOK
<1> QED BY <1>1 DEF ModifyDependency, projectVars, taskVars, clientTask,
           processVars, ProjectTypeOK, TaskTypeOK, ClientTaskTypeOK,
           ProcessTypeOK, HistoryTypeOK

LEMMA TypeStep == Inv /\ [Next]_vars => TypeOK'
<1> SUFFICES ASSUME Inv, [Next]_vars PROVE TypeOK'
  OBVIOUS
<1>1. ASSUME NEW p \in Pid, Connect(p) PROVE TypeOK'
  BY <1>1, ConnectNewType, ConnectElsewhereType, ResumeLoadsType,
     ResumeSendsNothingType, ResumeStatelessType DEF Connect
<1>2. ASSUME Control PROVE TypeOK'
  <2>1. ASSUME NEW e \in DepEdges, ModifyDependency(e[1], e[2])
        PROVE  TypeOK'
    <3>1. e[1] \in Client /\ e[2] \in Client
      BY EdgesOK DEF RankedEdges
    <3> QED BY <2>1, <3>1, ModifyDependencyType
  <2> QED BY <1>2, <2>1, SaveAsksNobodyType, SaveAsksClientsType,
             ProjectOpenType, ProjectCloseType, LostClientLaunchType, EditType
          DEF Control
<1>3. ASSUME NEW p \in Pid,
             BusNotice(p) \/ Bury(p) \/ Exits(p) \/ Recycle(p)
      PROVE  TypeOK'
  BY <1>3, NoticeType, ProcessEndsType
<1>4. CASE UNCHANGED vars
  BY <1>4 DEF Inv, vars, projectVars, taskVars, clientTask, clientVars,
              processVars, history, TypeOK, ProjectTypeOK, TaskTypeOK,
              ClientTaskTypeOK, ClientTypeOK, ProcessTypeOK, HistoryTypeOK
<1> QED BY <1>1, <1>2, <1>3, <1>4, ReportType DEF Next

------------------------------------------------------------------------------
(* Every step keeps the fields of the task in agreement *)

(* project_client_task_completed counts down and finishes at zero. *)
LEMMA CompletedAgrees ==
  ASSUME Inv, NEW c \in Client, NEW event, NEW sv,
         ProjectClientTaskCompleted(c, event, sv)
  PROVE  TaskFieldsAgree'
<1> USE DEF Inv, TaskFieldsAgree
<1>1. CASE LastPendingTask
  <2>1. TaskFinished
    BY <1>1 DEF ProjectClientTaskCompleted
  <2> QED BY <2>1 DEF TaskFinished, NoTask, LASH_TASK_SAVE
<1>2. CASE ~LastPendingTask
  BY <1>2 DEF ProjectClientTaskCompleted, LastPendingTask, TypeOK, TaskTypeOK
<1> QED BY <1>1, <1>2

LEMMA ReportAgrees ==
  ASSUME Inv, NEW p \in Pid, Report(p)
  PROVE  TaskFieldsAgree'
<1>1. ASSUME NEW c \in Client, NEW success \in BOOLEAN,
             ClientTaskCompleted(c, success)
      PROVE  TaskFieldsAgree'
  BY <1>1, CompletedAgrees DEF ClientTaskCompleted
<1>2. ASSUME NEW c \in Client, NEW percentage \in Percent,
             TaskProgressed(c, percentage)
      PROVE  TaskFieldsAgree'
  BY <1>2 DEF TaskProgressed, Inv, TaskFieldsAgree
<1> QED BY <1>1, <1>2 DEF Report, Progress, CommitDataSet

LEMMA SaveAgrees ==
  ASSUME Inv, SaveAsksClients
  PROVE  TaskFieldsAgree'
<1> DEFINE asking == clients \cap InternalState
<1>1. asking \in SUBSET Client
  BY DEF Inv, TypeOK, ProjectTypeOK
<1>2. /\ client_tasks_total' = Cardinality(asking)
      /\ client_tasks_pending' = Cardinality(asking)
      /\ task_type' = IF asking = {} THEN NoTask ELSE LASH_TASK_SAVE
  BY DEF SaveAsksClients
<1> HIDE DEF asking
<1> QED BY <1>1, <1>2, CountsClients
        DEF TaskFieldsAgree, NoTask, LASH_TASK_SAVE

LEMMA OpenAgrees ==
  ASSUME Inv, NEW nameTaken \in BOOLEAN, ProjectOpen(nameTaken)
  PROVE  TaskFieldsAgree'
<1>1. doc.clients \in SUBSET Client
  BY DEF Inv, TypeOK, ProjectTypeOK, Document
<1> QED BY <1>1, CountsClients
        DEF ProjectOpen, TaskFieldsAgree, NoTask, LASH_TASK_SAVE, LASH_TASK_LOAD

LEMMA CloseAgrees ==
  ASSUME Inv, ProjectClose
  PROVE  TaskFieldsAgree'
BY DEF Inv, ProjectClose, taskVars, TaskFieldsAgree, NoTask, LASH_TASK_SAVE

LEMMA AgreeStep == Inv /\ [Next]_vars => TaskFieldsAgree'
<1> SUFFICES ASSUME Inv, [Next]_vars PROVE TaskFieldsAgree'
  OBVIOUS
<1>1. ASSUME UNCHANGED taskVars PROVE TaskFieldsAgree'
  BY <1>1 DEF taskVars, Inv, TaskFieldsAgree
<1>2. ASSUME NEW p \in Pid, Connect(p) PROVE TaskFieldsAgree'
  BY <1>1, <1>2, CompletedAgrees
     DEF Connect, ConnectNew, ConnectElsewhere, ResumeLoads,
         ResumeSendsNothing, ResumeStateless
<1>3. ASSUME Control PROVE TaskFieldsAgree'
  BY <1>1, <1>3, SaveAgrees, OpenAgrees, CloseAgrees
     DEF Control, SaveAsksNobody, LostClientLaunch, ModifyDependency, Edit
<1>4. ASSUME NEW p \in Pid,
             BusNotice(p) \/ Bury(p) \/ Exits(p) \/ Recycle(p)
      PROVE  TaskFieldsAgree'
  BY <1>1, <1>4 DEF BusNotice, Bury, Exits, Recycle
<1>5. CASE UNCHANGED vars
  BY <1>1, <1>5 DEF vars
<1> QED BY <1>2, <1>3, <1>4, <1>5, ReportAgrees DEF Next

(* Only project_unload takes a project off the loaded ones, and what was   *)
(* written stays written.                                                  *)
LEMMA NewbornStep == Inv /\ [Next]_vars => NewbornsAreIdle'
<1> SUFFICES ASSUME Inv, [Next]_vars, ~loaded', ~doc'.written
             PROVE  task_type' = NoTask
  BY DEF NewbornsAreIdle
<1>1. ASSUME UNCHANGED <<loaded, doc, task_type>> PROVE task_type' = NoTask
  BY <1>1 DEF Inv, NewbornsAreIdle
<1>2. ASSUME NEW c \in clients \cup lost_clients, UNCHANGED loaded PROVE FALSE
  BY <1>2 DEF Inv, RunningClientsHaveProcesses
<1>3. ASSUME NEW p \in Pid, Connect(p) PROVE task_type' = NoTask
  BY <1>1, <1>2, <1>3
     DEF Connect, ConnectNew, ConnectElsewhere, ResumeLoads,
         ResumeSendsNothing, ResumeStateless, Resumes, LostWithPid,
         projectVars, taskVars
<1>4. ASSUME NEW p \in Pid, Report(p) PROVE task_type' = NoTask
  <2>1. PICK c \in clients :
          (\E success \in BOOLEAN : ClientTaskCompleted(c, success))
          \/ (\E percentage \in Percent : TaskProgressed(c, percentage))
    BY <1>4 DEF Report, Progress, CommitDataSet, Accepts
  <2>2. UNCHANGED loaded
    BY <2>1 DEF ClientTaskCompleted, TaskProgressed, projectVars
  <2> QED BY <1>2, <2>1, <2>2
<1>5. ASSUME Control PROVE task_type' = NoTask
  <2>1. ASSUME ProjectClose PROVE task_type' = NoTask
    BY <2>1 DEF ProjectClose
  <2>2. ASSUME loaded /\ UNCHANGED loaded PROVE task_type' = NoTask
    BY <2>2
  <2>3. ~SaveAsksNobody /\ ~SaveAsksClients
    BY <2>2 DEF SaveAsksNobody, SaveAsksClients, ProjectSave
  <2>4. \A nameTaken \in BOOLEAN : ~ProjectOpen(nameTaken)
    BY DEF ProjectOpen
  <2>5. ~Edit /\ \A c \in Client : ~LostClientLaunch(c)
    BY DEF Edit, LostClientLaunch, projectVars
  <2>6. ASSUME NEW e \in DepEdges, ModifyDependency(e[1], e[2])
        PROVE  task_type' = NoTask
    BY <1>1, <2>6 DEF ModifyDependency, projectVars, taskVars
  <2> QED BY <1>5, <2>1, <2>3, <2>4, <2>5, <2>6 DEF Control
<1>6. ASSUME NEW p \in Pid,
             BusNotice(p) \/ Bury(p) \/ Exits(p) \/ Recycle(p)
      PROVE  task_type' = NoTask
  <2>1. UNCHANGED <<loaded, doc>>
    BY <1>6 DEF BusNotice, Bury, Exits, Recycle, LoseAny, Lose, projectVars
  <2> QED BY <1>1, <1>6, <2>1 DEF BusNotice, Bury, Exits, Recycle, taskVars
<1>7. CASE UNCHANGED vars
  BY <1>1, <1>7 DEF vars, projectVars, taskVars
<1> QED BY <1>3, <1>4, <1>5, <1>6, <1>7 DEF Next

------------------------------------------------------------------------------
(* Every step keeps the processes of running clients apart *)

(* A process that connects is nobody's yet. *)
LEMMA ConnectingIsNew ==
  ASSUME Inv, NEW p \in Pid, CallsConnect(p)
  PROVE  /\ \A d \in clients : pid[d] # p /\ dbus_name[d] # p
         /\ asked[p] = {}
         /\ proc'[p] \in {"connected", "gone"}
         /\ onBus'[p]
         /\ \A q \in Pid \ {p} : proc'[q] = proc[q] /\ onBus'[q] = onBus[q]
BY DEF Inv, RunningClientsHaveProcesses, AskedTaskHasEvent, CallsConnect,
       TypeOK, ProcessTypeOK

LEMMA ConnectNewProcesses ==
  ASSUME Inv, NEW p \in Pid, NEW c \in Client, ConnectNew(p, c)
  PROVE  RunningClientsHaveProcesses' /\ AskedTaskHasEvent'
<1>1. /\ CallsConnect(p) /\ c \notin clients \cup lost_clients
      /\ loaded' = TRUE /\ clients' = clients \cup {c}
      /\ pid' = [pid EXCEPT ![c] = p] /\ dbus_name' = [dbus_name EXCEPT ![c] = p]
      /\ UNCHANGED <<lost_clients, pending_task, client_task, task_progress, asked>>
  BY DEF ConnectNew, Fresh, clientTask
<1>2. pid \in [Client -> Pid \cup {NoPid}] /\ dbus_name \in [Client -> Pid \cup {NoPid}]
      /\ clients \subseteq Client
  BY DEF Inv, TypeOK, ProjectTypeOK, ClientTypeOK
<1>3. RunningClientsHaveProcesses'
  BY <1>1, <1>2, ConnectingIsNew DEF Inv, RunningClientsHaveProcesses
<1>4. AskedTaskHasEvent'
  BY <1>1, <1>2, ConnectingIsNew DEF Inv, AskedTaskHasEvent
<1> QED BY <1>3, <1>4

LEMMA ResumesProcesses ==
  ASSUME Inv, NEW p \in Pid, NEW c \in Client, Resumes(p, c)
  PROVE  /\ RunningClientsHaveProcesses'
         /\ dbus_name'[c] = p
         /\ clients' = clients \cup {c}
         /\ \A d \in clients : dbus_name'[d] = dbus_name[d] /\ dbus_name[d] # p /\ d # c
         /\ asked[p] = {}
         /\ \A q \in Pid : proc'[q] \in {"free", "running", "dying"} => 
                            q # p /\ proc[q] = proc'[q]
<1>1. /\ CallsConnect(p) /\ c \in lost_clients /\ pid[c] = p
      /\ lost_clients' = lost_clients \ {c} /\ clients' = clients \cup {c}
      /\ dbus_name' = [dbus_name EXCEPT ![c] = p]
      /\ UNCHANGED <<loaded, pid>>
  BY DEF Resumes, LostWithPid
<1>2. pid \in [Client -> Pid \cup {NoPid}] /\ dbus_name \in [Client -> Pid \cup {NoPid}]
      /\ clients \subseteq Client
  BY DEF Inv, TypeOK, ProjectTypeOK, ClientTypeOK
<1>3. c \notin clients
  BY <1>1 DEF Inv, RunningClientsHaveProcesses
<1>4. RunningClientsHaveProcesses'
  BY <1>1, <1>2, <1>3, ConnectingIsNew DEF Inv, RunningClientsHaveProcesses
<1> QED BY <1>1, <1>2, <1>3, <1>4, ConnectingIsNew

LEMMA ConnectProcesses ==
  ASSUME Inv, NEW p \in Pid, Connect(p)
  PROVE  RunningClientsHaveProcesses' /\ AskedTaskHasEvent'
<1>1. ASSUME ConnectElsewhere(p)
      PROVE  RunningClientsHaveProcesses' /\ AskedTaskHasEvent'
  <2>1. /\ CallsConnect(p)
        /\ UNCHANGED <<loaded, clients, lost_clients, pid, dbus_name,
                       pending_task, client_task, task_progress, asked>>
    BY <1>1 DEF ConnectElsewhere, projectVars, clientTask, clientVars
  <2> QED BY <2>1, ConnectingIsNew
          DEF Inv, RunningClientsHaveProcesses, AskedTaskHasEvent
<1>2. ASSUME NEW c \in Client, ResumeLoads(p, c)
      PROVE  RunningClientsHaveProcesses' /\ AskedTaskHasEvent'
  <2>1. Resumes(p, c)
    BY <1>2 DEF ResumeLoads
  <2>2. /\ \A d \in Client \ {c} : /\ pending_task'[d] = pending_task[d]
                                   /\ client_task'[d] = client_task[d]
                                   /\ task_progress'[d] = task_progress[d]
        /\ client_task'[c] # NoTask
        /\ task_progress'[c] = 0
        /\ \A q \in Pid \ {p} : asked'[q] = asked[q]
    BY <1>2 DEF ResumeLoads, Inv, TypeOK, ClientTaskTypeOK, ProcessTypeOK, NoTask
  <2>3. AskedTaskHasEvent'
    BY <2>1, <2>2, ResumesProcesses
       DEF Inv, AskedTaskHasEvent, RunningClientsHaveProcesses, TypeOK,
           ProjectTypeOK
  <2> QED BY <2>1, <2>3, ResumesProcesses
<1>3. ASSUME NEW c \in Client, ResumeSendsNothing(p, c) \/ ResumeStateless(p, c)
      PROVE  RunningClientsHaveProcesses' /\ AskedTaskHasEvent'
  <2>1. Resumes(p, c)
    BY <1>3 DEF ResumeSendsNothing, ResumeStateless
  <2>2. /\ \A d \in Client \ {c} : /\ pending_task'[d] = pending_task[d]
                                   /\ client_task'[d] = client_task[d]
                                   /\ task_progress'[d] = task_progress[d]
        /\ asked' = asked
    BY <1>3 DEF ResumeSendsNothing, ResumeStateless, clientTask, Inv, TypeOK,
                ClientTaskTypeOK
  <2>3. AskedTaskHasEvent'
    BY <2>1, <2>2, ResumesProcesses
       DEF Inv, AskedTaskHasEvent, RunningClientsHaveProcesses, TypeOK,
           ProjectTypeOK
  <2> QED BY <2>1, <2>3, ResumesProcesses
<1> QED BY <1>1, <1>2, <1>3, ConnectNewProcesses DEF Connect

(* loader_execute takes processes that are free, for clients not running. *)
LEMMA LaunchProcesses ==
  ASSUME Inv, NEW S \in SUBSET Client, S \cap clients = {},
         NEW fork \in Forks(S), Launch(fork)
  PROVE  /\ \A c \in clients : pid'[c] = pid[c]
         /\ \A p \in Pid : \/ proc'[p] = proc[p]
                           \/ proc[p] = "free" /\ proc'[p] = "running"
<1>1. DOMAIN fork = S /\ \A c \in S : fork[c] \in Pid => proc[fork[c]] = "free"
  BY ConstantsOK DEF Forks, ConstantAssumption
<1>2. \A c \in clients : pid'[c] = pid[c]
  BY <1>1 DEF Launch, Inv, TypeOK, ProjectTypeOK, ClientTypeOK
<1>3. \A p \in Pid : \/ proc'[p] = proc[p]
                     \/ proc[p] = "free" /\ proc'[p] = "running"
  <2> TAKE p \in Pid
  <2>1. CASE \E c \in DOMAIN fork : fork[c] = p
    <3>1. proc[p] = "free"
      BY <1>1, <2>1
    <3> QED BY <2>1, <3>1 DEF Launch
  <2>2. CASE ~ \E c \in DOMAIN fork : fork[c] = p
    BY <2>2 DEF Launch
  <2> QED BY <2>1, <2>2
<1> QED BY <1>2, <1>3

(* What a step must leave alone for the running clients to keep their      *)
(* processes.                                                              *)
LEMMA SameProcesses ==
  ASSUME Inv,
         UNCHANGED <<loaded, clients, lost_clients, dbus_name, onBus, asked>>,
         \A c \in clients : pid'[c] = pid[c],
         \A p \in Pid : \/ proc'[p] = proc[p]
                        \/ proc[p] = "free" /\ proc'[p] = "running",
         \A c \in clients :
           \/ pending_task'[c] = 0
           \/ /\ pending_task'[c] = pending_task[c]
              /\ client_task'[c] = client_task[c]
              /\ task_progress'[c] = task_progress[c] \/ task_progress'[c] < 100
  PROVE  RunningClientsHaveProcesses' /\ AskedTaskHasEvent'
<1>1. RunningClientsHaveProcesses'
  BY DEF Inv, RunningClientsHaveProcesses
<1>2. \A c \in clients : asked[dbus_name[c]] \subseteq 1..MaxTask
  BY DEF Inv, TypeOK, ProcessTypeOK, RunningClientsHaveProcesses
<1>3. AskedTaskHasEvent'
  BY <1>2 DEF Inv, AskedTaskHasEvent
<1> QED BY <1>1, <1>3

LEMMA ReportProcesses ==
  ASSUME Inv, NEW p \in Pid, Report(p)
  PROVE  RunningClientsHaveProcesses' /\ AskedTaskHasEvent'
<1>1. ASSUME NEW c \in Client, NEW success \in BOOLEAN,
             ClientTaskCompleted(c, success)
      PROVE  RunningClientsHaveProcesses' /\ AskedTaskHasEvent'
  <2>1. /\ UNCHANGED <<loaded, clients, lost_clients, dbus_name, onBus, asked>>
        /\ ClearTask(c)
    BY <1>1 DEF ClientTaskCompleted
  <2>2. \A d \in clients :
          \/ pending_task'[d] = 0
          \/ /\ pending_task'[d] = pending_task[d]
             /\ client_task'[d] = client_task[d]
             /\ task_progress'[d] = task_progress[d]
    BY <2>1 DEF ClearTask, Inv, TypeOK, ProjectTypeOK, ClientTaskTypeOK
  <2>3. CASE SatisfyDependency(c)
    <3>1. PICK fork \in Forks(WaitingOnlyFor(c)) : Launch(fork)
      BY <2>3 DEF SatisfyDependency
    <3>2. WaitingOnlyFor(c) \in SUBSET Client /\ WaitingOnlyFor(c) \cap clients = {}
      BY DEF WaitingOnlyFor, Inv, TypeOK, ProjectTypeOK,
             RunningClientsHaveProcesses
    <3> QED BY <2>1, <2>2, <3>1, <3>2, LaunchProcesses, SameProcesses
  <2>4. CASE UNCHANGED <<pid, proc>>
    <3>1. /\ \A d \in clients : pid'[d] = pid[d]
          /\ \A q \in Pid : proc'[q] = proc[q]
      BY <2>4
    <3> QED BY <2>1, <2>2, <3>1, SameProcesses
  <2> QED BY <1>1, <2>3, <2>4 DEF ClientTaskCompleted
<1>2. ASSUME NEW t \in 1..MaxTask, NEW c \in Client, NEW percentage \in Percent,
             Accepts(p, t, c), TaskProgressed(c, percentage)
      PROVE  RunningClientsHaveProcesses' /\ AskedTaskHasEvent'
  <2>1. UNCHANGED <<loaded, clients, lost_clients, dbus_name, onBus, asked,
                   pid, proc, pending_task, client_task>>
    BY <1>2 DEF TaskProgressed, projectVars, clientVars, processVars
  <2>2. \A d \in clients : task_progress'[d] = task_progress[d]
                           \/ task_progress'[d] < 100
    <3>1. Truncated(percentage) \in 1..99
      BY <1>2, ProgressReading
    <3>2. task_progress' = [task_progress EXCEPT ![c] = Truncated(percentage)]
      BY <1>2 DEF TaskProgressed
    <3> QED BY <3>1, <3>2 DEF Inv, TypeOK, ProjectTypeOK, ClientTaskTypeOK
  <2>3. /\ \A d \in clients : pid'[d] = pid[d]
        /\ \A q \in Pid : proc'[q] = proc[q]
        /\ \A d \in clients : pending_task'[d] = pending_task[d]
                            /\ client_task'[d] = client_task[d]
    BY <2>1
  <2> QED BY <2>1, <2>2, <2>3, SameProcesses
<1> QED BY <1>1, <1>2 DEF Report, Progress, CommitDataSet

(* client_disconnected: the process of no other client is touched. *)
LEMMA NoticeProcesses ==
  ASSUME Inv, NEW p \in Pid, BusNotice(p) \/ Bury(p)
  PROVE  RunningClientsHaveProcesses' /\ AskedTaskHasEvent'
<1> DEFINE S == IF BusNotice(p) THEN WithName(p) ELSE WithPid(p)
<1>1. /\ LoseAny(S)
      /\ UNCHANGED <<pending_task, client_task, task_progress, proc, asked>>
      /\ \A q \in Pid \ {p} : onBus'[q] = onBus[q]
      /\ onBus' = onBus \/ BusNotice(p)
  BY DEF BusNotice, Bury, clientTask, Inv, TypeOK, ProcessTypeOK
<1>2. \A c \in clients : c \in S <=> pid[c] = p
  BY DEF WithName, WithPid, Inv, RunningClientsHaveProcesses
<1>3. S \subseteq clients
  BY DEF WithName, WithPid
<1> HIDE DEF S
<1>4. /\ loaded' = loaded /\ dbus_name' = dbus_name
      /\ clients' = clients \ S /\ lost_clients' = lost_clients \cup S
      /\ \A c \in clients' : pid'[c] = pid[c]
  <2>1. ASSUME NEW c \in S, Lose(c)
        PROVE  /\ loaded' = loaded /\ dbus_name' = dbus_name
               /\ clients' = clients \ S /\ lost_clients' = lost_clients \cup S
               /\ \A d \in clients' : pid'[d] = pid[d]
    <3>1. S = {c}
      BY <1>2, <1>3 DEF Inv, RunningClientsHaveProcesses
    <3> QED BY <2>1, <3>1 DEF Lose, Inv, TypeOK, ProjectTypeOK, ClientTypeOK
  <2>2. CASE S = {} /\ UNCHANGED <<projectVars, clientVars, steady>>
    BY <2>2 DEF projectVars, clientVars
  <2> QED BY <1>1, <2>1, <2>2 DEF LoseAny
<1>5. loaded = FALSE => S = {}
  BY <1>3 DEF Inv, RunningClientsHaveProcesses
<1>6. RunningClientsHaveProcesses'
  BY <1>1, <1>2, <1>3, <1>4, <1>5 DEF Inv, RunningClientsHaveProcesses, TypeOK,
     ProjectTypeOK
<1>7. AskedTaskHasEvent'
  BY <1>1, <1>4 DEF Inv, AskedTaskHasEvent
<1> QED BY <1>6, <1>7

LEMMA ProcessEndsProcesses ==
  ASSUME Inv, NEW p \in Pid, Exits(p) \/ Recycle(p)
  PROVE  RunningClientsHaveProcesses' /\ AskedTaskHasEvent'
<1>1. UNCHANGED <<loaded, clients, lost_clients, dbus_name, onBus, pid,
                 pending_task, client_task, task_progress>>
  BY DEF Exits, Recycle, projectVars, clientTask, clientVars
<1>2. CASE Exits(p)
  <2>1. /\ asked' = asked
        /\ proc' \in {[proc EXCEPT ![p] = "gone"], [proc EXCEPT ![p] = "dying"]}
        /\ proc[p] = "running" \/ proc' = [proc EXCEPT ![p] = "gone"]
    BY <1>2 DEF Exits
  <2>2. RunningClientsHaveProcesses'
    BY <1>1, <2>1 DEF Inv, RunningClientsHaveProcesses, TypeOK, ProcessTypeOK
  <2>3. AskedTaskHasEvent'
    BY <1>1, <2>1 DEF Inv, AskedTaskHasEvent, TypeOK, ProcessTypeOK
  <2> QED BY <2>2, <2>3
<1>3. CASE Recycle(p)
  <2>1. /\ ~onBus[p]
        /\ proc' = [proc EXCEPT ![p] = "free"] /\ asked' = [asked EXCEPT ![p] = {}]
    BY <1>3 DEF Recycle
  <2>2. RunningClientsHaveProcesses'
    BY <1>1, <2>1 DEF Inv, RunningClientsHaveProcesses, TypeOK, ProcessTypeOK
  <2>3. AskedTaskHasEvent'
    BY <1>1, <2>1 DEF Inv, AskedTaskHasEvent, RunningClientsHaveProcesses,
                      TypeOK, ProcessTypeOK
  <2> QED BY <2>2, <2>3
<1> QED BY <1>2, <1>3

(* project_clear_lost_clients destroys no running client, and the tasks of *)
(* a save are new to the processes it asks.                                *)
LEMMA SaveProcesses ==
  ASSUME Inv, SaveAsksNobody \/ SaveAsksClients
  PROVE  RunningClientsHaveProcesses' /\ AskedTaskHasEvent'
<1>1. /\ Destroy(lost_clients)
      /\ lost_clients' = {} /\ loaded
      /\ UNCHANGED <<loaded, clients, proc, onBus>>
  BY DEF SaveAsksNobody, SaveAsksClients, ProjectSave, processVars
<1>2. /\ \A c \in clients : c \notin lost_clients
      /\ clients \subseteq Client
  BY DEF Inv, RunningClientsHaveProcesses, TypeOK, ProjectTypeOK
<1>3. \A c \in clients : pid'[c] = pid[c] /\ dbus_name'[c] = dbus_name[c]
  BY <1>1, <1>2 DEF Destroy, Assign
<1>4. RunningClientsHaveProcesses'
  BY <1>1, <1>2, <1>3 DEF Inv, RunningClientsHaveProcesses
<1>5. CASE SaveAsksNobody
  <2>1. /\ NoTasks(lost_clients) /\ UNCHANGED asked
    BY <1>5 DEF SaveAsksNobody, processVars
  <2>2. \A c \in clients : /\ pending_task'[c] = pending_task[c]
                           /\ client_task'[c] = client_task[c]
                           /\ task_progress'[c] = task_progress[c]
    BY <1>2, <2>1 DEF NoTasks, Assign
  <2>3. AskedTaskHasEvent'
    BY <1>1, <1>3, <2>1, <2>2 DEF Inv, AskedTaskHasEvent
  <2> QED BY <1>4, <2>3
<1>6. CASE SaveAsksClients
  <2> DEFINE asking == clients \cap InternalState
  <2>1. \A c \in asking : client_task'[c] # NoTask /\ task_progress'[c] = 0
    BY <1>2, <1>6 DEF SaveAsksClients, Assign, NoTask, InternalState
  <2>2. \A c \in clients \ asking : pending_task'[c] = 0
    <3>1. \A c \in clients : pending_task[c] = 0
      BY <1>6 DEF SaveAsksClients, Busy
    <3> QED BY <1>2, <1>6, <3>1 DEF SaveAsksClients, Assign
  <2>3. task_iter' \in 1..MaxTask
    BY <1>6, ConstantsOK
       DEF SaveAsksClients, ConstantAssumption, Inv, TypeOK, TaskTypeOK
  <2>4. \A p \in Pid : asked'[p] \subseteq 1..MaxTask
    BY <1>6, <2>3 DEF SaveAsksClients, Inv, TypeOK, ProcessTypeOK
  <2>5. \A c \in clients : dbus_name[c] \in Pid
    BY DEF Inv, RunningClientsHaveProcesses
  <2>6. \A p \in Pid : proc[p] \in {"free", "running", "dying"} => asked'[p] = {}
    BY <1>6 DEF SaveAsksClients, Inv, RunningClientsHaveProcesses,
                AskedTaskHasEvent
  <2>7. AskedTaskHasEvent'
    BY <1>1, <1>3, <2>1, <2>2, <2>4, <2>5, <2>6 DEF AskedTaskHasEvent
  <2> QED BY <1>4, <2>7
<1> QED BY <1>5, <1>6

LEMMA OpenProcesses ==
  ASSUME Inv, NEW nameTaken \in BOOLEAN, ProjectOpen(nameTaken)
  PROVE  RunningClientsHaveProcesses' /\ AskedTaskHasEvent'
<1>1. /\ clients = {}
      /\ loaded' = TRUE
      /\ UNCHANGED <<clients, dbus_name, onBus, asked>>
  BY DEF ProjectOpen, Inv, RunningClientsHaveProcesses
<1>2. PICK fork \in Forks(LaunchedFirst(dependencies')) : Launch(fork)
  BY DEF ProjectOpen
<1>3. LaunchedFirst(dependencies') \in SUBSET Client
  BY DEF LaunchedFirst, Inv, TypeOK, ProjectTypeOK, Document
<1>4. \A p \in Pid : \/ proc'[p] = proc[p]
                     \/ proc[p] = "free" /\ proc'[p] = "running"
  BY <1>1, <1>2, <1>3, LaunchProcesses
<1> QED BY <1>1, <1>4
        DEF Inv, RunningClientsHaveProcesses, AskedTaskHasEvent

LEMMA CloseProcesses ==
  ASSUME Inv, ProjectClose
  PROVE  RunningClientsHaveProcesses' /\ AskedTaskHasEvent'
<1>1. /\ clients' = {} /\ lost_clients' = {}
      /\ UNCHANGED <<proc, asked>>
  BY DEF ProjectClose, processVars
<1> QED BY <1>1 DEF Inv, RunningClientsHaveProcesses, AskedTaskHasEvent

LEMMA LostClientLaunchProcesses ==
  ASSUME Inv, NEW c \in Client, LostClientLaunch(c)
  PROVE  RunningClientsHaveProcesses' /\ AskedTaskHasEvent'
<1>1. /\ {c} \cap clients = {}
      /\ UNCHANGED <<loaded, clients, lost_clients, dbus_name, onBus, asked,
                     pending_task, client_task, task_progress>>
  BY DEF LostClientLaunch, projectVars, clientTask, Inv,
         RunningClientsHaveProcesses
<1>2. PICK fork \in Forks({c}) : Launch(fork)
  BY DEF LostClientLaunch
<1>3. /\ \A d \in clients : pid'[d] = pid[d]
      /\ \A p \in Pid : \/ proc'[p] = proc[p]
                        \/ proc[p] = "free" /\ proc'[p] = "running"
  BY <1>1, <1>2, LaunchProcesses
<1> QED BY <1>1, <1>3, SameProcesses

LEMMA ProcessStep ==
  Inv /\ [Next]_vars => RunningClientsHaveProcesses' /\ AskedTaskHasEvent'
<1> DEFINE Goal == RunningClientsHaveProcesses' /\ AskedTaskHasEvent'
<1> SUFFICES ASSUME Inv, [Next]_vars PROVE Goal
  OBVIOUS
<1>1. ASSUME UNCHANGED <<loaded, clients, lost_clients, pid, dbus_name, proc,
                         onBus, asked, pending_task, client_task, task_progress>>
      PROVE  Goal
  BY <1>1 DEF Inv, RunningClientsHaveProcesses, AskedTaskHasEvent
<1>2. ASSUME NEW c \in Client, NEW d \in Client, ModifyDependency(c, d)
      PROVE  Goal
  BY <1>1, <1>2 DEF ModifyDependency, projectVars, clientTask, processVars
<1>3. ASSUME Edit PROVE Goal
  BY <1>1, <1>3 DEF Edit, clientTask, clientVars, processVars
<1>4. ASSUME Control PROVE Goal
  <2>1. ASSUME NEW e \in DepEdges, ModifyDependency(e[1], e[2]) PROVE Goal
    <3>1. e[1] \in Client /\ e[2] \in Client
      BY EdgesOK DEF RankedEdges
    <3> QED BY <1>2, <2>1, <3>1
  <2> QED BY <1>3, <1>4, <2>1, SaveProcesses, OpenProcesses, CloseProcesses,
             LostClientLaunchProcesses DEF Control
<1>5. ASSUME NEW p \in Pid,
             BusNotice(p) \/ Bury(p) \/ Exits(p) \/ Recycle(p)
      PROVE  Goal
  BY <1>5, NoticeProcesses, ProcessEndsProcesses
<1>6. CASE UNCHANGED vars
  BY <1>1, <1>6 DEF vars, projectVars, clientTask, clientVars, processVars
<1> QED BY <1>4, <1>5, <1>6, ConnectProcesses, ReportProcesses DEF Next

------------------------------------------------------------------------------
(* Theorems *)

LEMMA Invariance == Spec => []Inv
<1>1. Inv /\ [Next]_vars => Inv'
  BY TypeStep, AgreeStep, NewbornStep, ProcessStep DEF Inv
<1> QED BY InitInv, <1>1, PTL DEF Spec

(* The fields always hold what their types allow, and the unsigned reading *)
(* that project_client_progress subtracts from never wraps below zero.     *)
THEOREM TypeCorrect == Spec => []TypeOK
<1>1. Inv => TypeOK
  BY DEF Inv
<1> QED BY Invariance, <1>1, PTL

(* A save in progress always has a pending client task, and an idle        *)
(* project has none (project_save, project_client_task_completed).         *)
THEOREM TaskFieldsCorrect == Spec => []TaskFieldsAgree
<1>1. Inv => TaskFieldsAgree
  BY DEF Inv
<1> QED BY Invariance, <1>1, PTL

(* Every running client has a process of its own, whose death lashd is     *)
(* still to hear of if it is dead.                                         *)
THEOREM ProcessesCorrect == Spec => []RunningClientsHaveProcesses
<1>1. Inv => RunningClientsHaveProcesses
  BY DEF Inv
<1> QED BY Invariance, <1>1, PTL

(* A task that the process of a client was told of and that is pending has *)
(* an event to complete: client_task_completed never meets its default     *)
(* case for a call that check_tasks let through.                           *)
THEOREM AskedTasksCorrect == Spec => []AskedTaskHasEvent
<1>1. Inv => AskedTaskHasEvent
  BY DEF Inv
<1> QED BY Invariance, <1>1, PTL

------------------------------------------------------------------------------
(* Action properties *)

(* project_client_progress with 100: no client is above 100.               *)
LEMMA CompletedReading ==
  ASSUME Inv, NEW c \in Client, NEW event, NEW sv,
         ProjectClientTaskCompleted(c, event, sv), task_type' # NoTask
  PROVE  client_tasks_progress' >= client_tasks_progress
<1>1. ~LastPendingTask
  BY DEF ProjectClientTaskCompleted, TaskFinished
<1>2. client_tasks_progress' = client_tasks_progress - task_progress[c] + 100
  BY <1>1 DEF ProjectClientTaskCompleted, NewReading
<1>3. task_progress[c] \in 0..100 /\ client_tasks_progress \in Nat
  BY DEF Inv, TypeOK, TaskTypeOK, ClientTaskTypeOK
<1> QED BY <1>2, <1>3

(* The reading of a task in progress only grows.                           *)
LEMMA ProgressStep ==
  ASSUME Inv, Next, loaded, loaded', task_type # NoTask, task_type' = task_type
  PROVE  client_tasks_progress' >= client_tasks_progress
<1> DEFINE Grows == client_tasks_progress' >= client_tasks_progress
<1>1. ASSUME UNCHANGED client_tasks_progress PROVE Grows
  BY <1>1 DEF Inv, TypeOK, TaskTypeOK
<1>2. ASSUME NEW p \in Pid, Connect(p) PROVE Grows
  BY <1>1, <1>2, CompletedReading
     DEF Connect, ConnectNew, ConnectElsewhere, ResumeLoads,
         ResumeSendsNothing, ResumeStateless, taskVars
<1>3. ASSUME NEW p \in Pid, Report(p) PROVE Grows
  <2>1. ASSUME NEW c \in Client, NEW success \in BOOLEAN,
               ClientTaskCompleted(c, success)
        PROVE  Grows
    BY <2>1, CompletedReading DEF ClientTaskCompleted
  <2> QED BY <1>3, <2>1, ProgressReading DEF Report, Progress, CommitDataSet
<1>4. ASSUME Control PROVE Grows
  BY <1>1, <1>4
     DEF Control, SaveAsksNobody, SaveAsksClients, ProjectSave, ProjectOpen,
         ProjectClose, LostClientLaunch, ModifyDependency, Edit, taskVars
<1>5. ASSUME NEW p \in Pid,
             BusNotice(p) \/ Bury(p) \/ Exits(p) \/ Recycle(p)
      PROVE  Grows
  BY <1>1, <1>5 DEF BusNotice, Bury, Exits, Recycle, taskVars
<1> QED BY <1>2, <1>3, <1>4, <1>5 DEF Next

(* The readings that lashd sends to controllers never fall back while a    *)
(* task is in progress (client_task_progressed).                           *)
THEOREM ProgressGrows == Spec => ProgressNeverFallsBack
<1>1. Inv /\ [Next]_vars =>
        [loaded /\ loaded' /\ task_type # NoTask /\ task_type' = task_type =>
           client_tasks_progress' >= client_tasks_progress]_vars
  BY ProgressStep
<1> QED BY Invariance, <1>1, PTL DEF Spec, ProgressNeverFallsBack

LEMMA DeathStep ==
  ASSUME Inv, Next, loaded', NEW c \in clients, c \notin clients'
  PROVE  proc[pid[c]] = "gone"
<1>1. ASSUME clients \subseteq clients' PROVE FALSE
  BY <1>1
<1>2. ASSUME NEW p \in Pid, Connect(p) PROVE FALSE
  BY <1>1, <1>2
     DEF Connect, ConnectNew, ConnectElsewhere, ResumeLoads,
         ResumeSendsNothing, ResumeStateless, Resumes, projectVars
<1>3. ASSUME NEW p \in Pid, Report(p) PROVE FALSE
  BY <1>1, <1>3 DEF Report, Progress, CommitDataSet, ClientTaskCompleted,
                    TaskProgressed, projectVars
<1>4. ASSUME Control PROVE FALSE
  BY <1>1, <1>4
     DEF Control, SaveAsksNobody, SaveAsksClients, ProjectOpen, ProjectClose,
         LostClientLaunch, ModifyDependency, Edit, projectVars
<1>5. ASSUME NEW p \in Pid, Exits(p) \/ Recycle(p) PROVE FALSE
  BY <1>1, <1>5 DEF Exits, Recycle, projectVars
<1>6. ASSUME NEW p \in Pid, BusNotice(p) \/ Bury(p)
      PROVE  proc[pid[c]] = "gone"
  <2>1. ASSUME NEW S, LoseAny(S) PROVE c \in S
    BY <2>1 DEF LoseAny, Lose, projectVars
  <2>2. pid[c] = p /\ proc[p] \in {"dying", "gone"}
    BY <1>6, <2>1 DEF BusNotice, Bury, NameLost, WithName, WithPid, Inv,
                      RunningClientsHaveProcesses
  <2> QED BY <2>2 DEF Inv, RunningClientsHaveProcesses
<1> QED BY <1>2, <1>3, <1>4, <1>5, <1>6 DEF Next

(* Only the death of its own process makes a running client a lost one     *)
(* (lashd_client_disconnect_handler, loader_childs_bury).                  *)
THEOREM DeathAlone == Spec => OnlyDeathLosesClients
<1>1. Inv /\ [Next]_vars =>
        [loaded' => \A c \in clients \ clients' : proc[pid[c]] = "gone"]_vars
  BY DeathStep
<1> QED BY Invariance, <1>1, PTL DEF Spec, OnlyDeathLosesClients

------------------------------------------------------------------------------
(* ProjectTasks implements TaskLifecycle *)

(* A completed client task counts down once, and the last one announces    *)
(* the end of the task.                                                    *)
LEMMA CompletedImplements ==
  ASSUME Inv, loaded, UNCHANGED loaded, NEW c \in Client, NEW event, NEW sv,
         ProjectClientTaskCompleted(c, event, sv)
  PROVE  Lifecycle!Next
<1> USE DEF Inv, TypeOK, TaskTypeOK
<1>1. CASE LastPendingTask
  <2>1. /\ task_type' = NoTask /\ client_tasks_pending' = 0
        /\ announced' \in {"ProjectSaved", "ProjectLoaded"}
    BY <1>1 DEF ProjectClientTaskCompleted, TaskFinished, SaveComplete,
                ProjectLoaded
  <2>2. Lifecycle!CompleteLast
    BY <1>1, <2>1 DEF Lifecycle!CompleteLast, Lifecycle!Completion,
                      LastPendingTask, NoTask
  <2> QED BY <2>2 DEF Lifecycle!Next
<1>2. CASE ~LastPendingTask
  <2>1. /\ task_type' = task_type /\ announced' = "nothing"
        /\ client_tasks_pending' = IF client_tasks_pending = 0 THEN 0
                                   ELSE client_tasks_pending - 1
    BY <1>2 DEF ProjectClientTaskCompleted
  <2>2. CASE client_tasks_pending = 0
    BY <2>1, <2>2 DEF Lifecycle!Next, Lifecycle!Quiet
  <2>3. CASE client_tasks_pending > 1
    BY <2>1, <2>3 DEF Lifecycle!Next, Lifecycle!CompleteOne
  <2> QED BY <1>2, <2>2, <2>3 DEF LastPendingTask
<1> QED BY <1>1, <1>2

LEMMA ConnectImplements ==
  ASSUME Inv, NEW p \in Pid, Connect(p)
  PROVE  Lifecycle!Next
<1>1. ASSUME announced' = "nothing",
             UNCHANGED <<loaded, task_type, client_tasks_pending>>
      PROVE  Lifecycle!Next
  BY <1>1 DEF Lifecycle!Next, Lifecycle!Quiet
<1>2. ASSUME NEW c \in Client, ConnectNew(p, c) PROVE Lifecycle!Next
  <2>1. CASE loaded
    BY <1>1, <1>2, <2>1 DEF ConnectNew, taskVars
  <2>2. CASE ~loaded
    <3>1. task_type = NoTask
      BY <1>2, <2>2 DEF ConnectNew, Inv, NewbornsAreIdle
    <3> QED BY <1>2, <2>2, <3>1
            DEF ConnectNew, taskVars, NoTask, Lifecycle!Next, Lifecycle!Create
  <2> QED BY <2>1, <2>2 DEF Inv, TypeOK, ProjectTypeOK
<1>3. ASSUME ConnectElsewhere(p) PROVE Lifecycle!Next
  BY <1>1, <1>3 DEF ConnectElsewhere, projectVars, taskVars
<1>4. ASSUME NEW c \in Client, ResumeLoads(p, c) \/ ResumeSendsNothing(p, c)
      PROVE  Lifecycle!Next
  BY <1>1, <1>4 DEF ResumeLoads, ResumeSendsNothing, Resumes, taskVars
<1>5. ASSUME NEW c \in Client, ResumeStateless(p, c) PROVE Lifecycle!Next
  <2>1. loaded /\ UNCHANGED loaded
    BY <1>5 DEF ResumeStateless, Resumes, LostWithPid, Inv, TypeOK,
                ProjectTypeOK, RunningClientsHaveProcesses
  <2> QED BY <1>5, <2>1, CompletedImplements DEF ResumeStateless
<1> QED BY <1>2, <1>3, <1>4, <1>5 DEF Connect

LEMMA ReportImplements ==
  ASSUME Inv, NEW p \in Pid, Report(p)
  PROVE  Lifecycle!Next
<1>1. ASSUME NEW t \in 1..MaxTask, NEW c \in Client, NEW success \in BOOLEAN,
             Accepts(p, t, c), ClientTaskCompleted(c, success)
      PROVE  Lifecycle!Next
  <2>1. loaded /\ UNCHANGED loaded
    BY <1>1 DEF ClientTaskCompleted, Accepts, Inv, TypeOK, ProjectTypeOK,
                RunningClientsHaveProcesses
  <2> QED BY <1>1, <2>1, CompletedImplements DEF ClientTaskCompleted
<1>2. ASSUME NEW c \in Client, NEW percentage \in Percent,
             TaskProgressed(c, percentage)
      PROVE  Lifecycle!Next
  BY <1>2 DEF TaskProgressed, projectVars, Lifecycle!Next, Lifecycle!Quiet
<1> QED BY <1>1, <1>2 DEF Report, Progress, CommitDataSet

LEMMA SaveImplements ==
  ASSUME Inv, SaveAsksNobody \/ SaveAsksClients
  PROVE  Lifecycle!Next
<1>1. /\ loaded /\ task_type = NoTask /\ UNCHANGED loaded
      /\ client_tasks_pending = 0 /\ client_tasks_total = 0
  BY DEF SaveAsksNobody, SaveAsksClients, ProjectSave, Inv, TaskFieldsAgree
<1>2. CASE SaveAsksNobody
  BY <1>1, <1>2 DEF SaveAsksNobody, SaveComplete, taskVars, NoTask,
                    Lifecycle!Next, Lifecycle!SaveAtOnce
<1>3. CASE SaveAsksClients
  <2> DEFINE asking == clients \cap InternalState
  <2>1. asking \in SUBSET Client
    BY DEF Inv, TypeOK, ProjectTypeOK
  <2>2. client_tasks_pending' = Cardinality(asking)
    BY <1>3 DEF SaveAsksClients
  <2>3. CASE asking = {}
    <3>1. task_type' = NoTask /\ SaveComplete(saved)
      BY <1>3, <2>3 DEF SaveAsksClients
    <3>2. client_tasks_pending' = 0
      BY <2>1, <2>2, <2>3, CountsClients
    <3> QED BY <1>1, <3>1, <3>2
            DEF SaveComplete, NoTask, Lifecycle!Next, Lifecycle!SaveAtOnce
  <2>4. CASE asking # {}
    <3>1. task_type' = LASH_TASK_SAVE /\ announced' = "nothing"
      BY <1>3, <2>4 DEF SaveAsksClients
    <3>2. /\ client_tasks_pending' \in 0..Cardinality(Client)
          /\ client_tasks_pending' > 0
      <4> HIDE DEF asking
      <4>1. /\ Cardinality(asking) \in Nat /\ Cardinality(Client) \in Nat
            /\ Cardinality(asking) <= Cardinality(Client)
            /\ Cardinality(asking) # 0
        BY <2>1, <2>4, CountsClients
      <4> QED BY <2>2, <4>1
    <3>3. Lifecycle!StartSave(client_tasks_pending')
      BY <1>1, <3>1, <3>2 DEF Lifecycle!StartSave, NoTask, LASH_TASK_SAVE
    <3> QED BY <3>2, <3>3 DEF Lifecycle!Next
  <2> QED BY <2>3, <2>4
<1> QED BY <1>2, <1>3

LEMMA OpenImplements ==
  ASSUME Inv, NEW nameTaken \in BOOLEAN, ProjectOpen(nameTaken)
  PROVE  Lifecycle!Next
<1>1. doc.clients \in SUBSET Client
  BY DEF Inv, TypeOK, ProjectTypeOK, Document
<1>2. client_tasks_pending' = Cardinality(doc.clients)
  BY DEF ProjectOpen
<1>3. Cardinality(doc.clients) \in 0..Cardinality(Client)
  BY <1>1, CountsClients
<1>4. Lifecycle!StartLoad(client_tasks_pending')
  BY DEF ProjectOpen, LASH_TASK_LOAD, Lifecycle!StartLoad
<1> QED BY <1>2, <1>3, <1>4 DEF Lifecycle!Next

LEMMA ControlImplements ==
  ASSUME Inv, Control
  PROVE  Lifecycle!Next
<1>1. ASSUME ProjectClose PROVE Lifecycle!Next
  <2>1. Lifecycle!Close
    BY <1>1 DEF ProjectClose, taskVars, NoTask, Lifecycle!Close
  <2> QED BY <2>1 DEF Lifecycle!Next
<1>2. ASSUME announced' = "nothing",
             UNCHANGED <<loaded, task_type, client_tasks_pending>>
      PROVE  Lifecycle!Next
  BY <1>2 DEF Lifecycle!Next, Lifecycle!Quiet
<1> QED BY <1>1, <1>2, SaveImplements, OpenImplements
        DEF Control, LostClientLaunch, ModifyDependency, Edit, projectVars,
            taskVars

(* At most one task at a time, ended by the last completion it counts and  *)
(* announced exactly once.                                                 *)
THEOREM TasksImplementLifecycle == Spec => ImplementsLifecycle
<1>1. Init => Lifecycle!Init
  BY DEF Init, Lifecycle!Init, NoTask
<1>2. Inv /\ [Next]_vars => [Lifecycle!Next]_(Lifecycle!vars)
  <2> SUFFICES ASSUME Inv, [Next]_vars, ~UNCHANGED Lifecycle!vars
               PROVE  Lifecycle!Next
    OBVIOUS
  <2>1. ASSUME NEW p \in Pid,
               BusNotice(p) \/ Bury(p) \/ Exits(p) \/ Recycle(p)
        PROVE  Lifecycle!Next
    <3>1. UNCHANGED loaded
      BY <2>1 DEF BusNotice, Bury, Exits, Recycle, LoseAny, Lose, projectVars
    <3> QED BY <2>1, <3>1 DEF BusNotice, Bury, Exits, Recycle, taskVars,
               Lifecycle!Next, Lifecycle!Quiet
  <2>2. CASE UNCHANGED vars
    BY <2>2 DEF vars, projectVars, taskVars, history, Lifecycle!vars
  <2> QED BY <2>1, <2>2, ConnectImplements, ReportImplements,
             ControlImplements DEF Next
<1> QED BY Invariance, <1>1, <1>2, PTL DEF Spec, ImplementsLifecycle, Lifecycle!Spec

------------------------------------------------------------------------------
(* Launching in the order of the dependencies *)

(* Only the clients of a loaded project have a process. *)
UnloadedHaveNoPid == ~loaded => \A c \in Client : pid[c] = NoPid

(* A client that waits for its launch has each dependency either on its    *)
(* list of unsatisfied ones, or restored; it is launched when the list is  *)
(* empty.                                                                  *)
WaitingInv ==
  /\ waiting \subseteq lost_clients
  /\ \A c \in waiting :
       /\ dependencies[c] \subseteq unsatisfied_deps[c] \cup restored
       /\ pid[c] # NoPid => unsatisfied_deps[c] = {}

LaunchInv == UnloadedHaveNoPid /\ WaitingInv

(* loader_execute of the clients of S gives no process to another client.  *)
LEMMA LaunchPids ==
  ASSUME Inv, NEW S \in SUBSET Client, NEW fork \in Forks(S), Launch(fork)
  PROVE  \A c \in Client \ S : pid'[c] = pid[c]
<1>1. DOMAIN fork = S
  BY DEF Forks
<1> QED BY <1>1 DEF Launch

(* What a step must leave alone for the waiting clients to keep their      *)
(* place.                                                                  *)
LEMMA SameWaiting ==
  ASSUME Inv, LaunchInv, loaded',
         waiting' \subseteq waiting, waiting' \subseteq lost_clients',
         \A c \in waiting' : /\ pid'[c] = pid[c]
                             /\ dependencies'[c] = dependencies[c]
                             /\ unsatisfied_deps'[c] = unsatisfied_deps[c],
         restored \subseteq restored'
  PROVE  LaunchInv'
BY DEF LaunchInv, UnloadedHaveNoPid, WaitingInv

LEMMA SameLaunch ==
  ASSUME Inv, LaunchInv,
         UNCHANGED <<loaded, waiting, lost_clients, pid, dependencies,
                     unsatisfied_deps, restored>>
  PROVE  LaunchInv'
BY DEF LaunchInv, UnloadedHaveNoPid, WaitingInv

(* A client that is handled is a client of a loaded project.               *)
LEMMA HandledIsLoaded ==
  ASSUME Inv, NEW c \in clients \cup lost_clients
  PROVE  loaded /\ c \in Client
BY DEF Inv, RunningClientsHaveProcesses, TypeOK, ProjectTypeOK

LEMMA ConnectLaunch ==
  ASSUME Inv, LaunchInv, NEW p \in Pid, Connect(p)
  PROVE  LaunchInv'
<1>1. ASSUME NEW c \in Client, ConnectNew(p, c) PROVE LaunchInv'
  <2>1. /\ loaded' /\ c \notin lost_clients
        /\ pid' = [pid EXCEPT ![c] = p]
        /\ UNCHANGED <<waiting, lost_clients, dependencies, unsatisfied_deps,
                       restored>>
    BY <1>1 DEF ConnectNew, Fresh
  <2>2. \A d \in Client : d # c => pid'[d] = pid[d]
    BY <2>1 DEF Inv, TypeOK, ClientTypeOK
  <2>3. waiting \subseteq lost_clients /\ lost_clients \subseteq Client
    BY DEF LaunchInv, WaitingInv, Inv, TypeOK, ProjectTypeOK
  <2> QED BY <2>1, <2>2, <2>3, SameWaiting
<1>2. ASSUME ConnectElsewhere(p) PROVE LaunchInv'
  BY <1>2, SameLaunch DEF ConnectElsewhere, projectVars, clientVars
<1>3. ASSUME NEW c \in Client, Resumes(p, c) PROVE LaunchInv'
  <2>1. /\ c \in lost_clients
        /\ waiting' = waiting \ {c} /\ lost_clients' = lost_clients \ {c}
        /\ UNCHANGED <<loaded, pid, dependencies, unsatisfied_deps, restored>>
    BY <1>3 DEF Resumes, LostWithPid
  <2>2. loaded' /\ waiting \subseteq lost_clients
    BY <2>1, HandledIsLoaded DEF LaunchInv, WaitingInv
  <2> QED BY <2>1, <2>2, SameWaiting
<1> QED BY <1>1, <1>2, <1>3
        DEF Connect, ResumeLoads, ResumeSendsNothing, ResumeStateless

(* project_satisfy_client_dependency: the restored client is taken off the *)
(* lists, and those clients are launched that waited for nothing else.     *)
LEMMA SatisfyLaunch ==
  ASSUME Inv, LaunchInv, loaded', NEW c \in Client, SatisfyDependency(c),
         restored' = restored \cup {c},
         UNCHANGED <<waiting, lost_clients, dependencies>>
  PROVE  LaunchInv'
<1> DEFINE ready == WaitingOnlyFor(c)
<1>1. PICK fork \in Forks(ready) : Launch(fork)
  BY DEF SatisfyDependency
<1>2. ready \in SUBSET Client
  BY DEF WaitingOnlyFor, Inv, TypeOK, ProjectTypeOK
<1>3. \A d \in Client \ ready : pid'[d] = pid[d]
  BY <1>1, <1>2, LaunchPids
<1>4. waiting \subseteq lost_clients /\ lost_clients \subseteq Client
  BY DEF LaunchInv, WaitingInv, Inv, TypeOK, ProjectTypeOK
<1>5. \A d \in lost_clients : unsatisfied_deps'[d] = unsatisfied_deps[d] \ {c}
  BY <1>4 DEF SatisfyDependency
<1>6. ASSUME NEW d \in waiting'
      PROVE  /\ dependencies'[d] \subseteq unsatisfied_deps'[d] \cup restored'
             /\ pid'[d] # NoPid => unsatisfied_deps'[d] = {}
  <2>1. /\ d \in waiting /\ d \in Client
        /\ unsatisfied_deps'[d] = unsatisfied_deps[d] \ {c}
        /\ dependencies'[d] = dependencies[d]
    BY <1>4, <1>5
  <2>2. /\ dependencies[d] \subseteq unsatisfied_deps[d] \cup restored
        /\ pid[d] # NoPid => unsatisfied_deps[d] = {}
    BY <2>1 DEF LaunchInv, WaitingInv
  <2>3. CASE d \in ready
    BY <2>1, <2>2, <2>3 DEF WaitingOnlyFor
  <2>4. CASE d \notin ready
    BY <1>3, <2>1, <2>2, <2>4
  <2> QED BY <2>3, <2>4
<1> QED BY <1>4, <1>6 DEF LaunchInv, UnloadedHaveNoPid, WaitingInv

LEMMA ReportLaunch ==
  ASSUME Inv, LaunchInv, NEW p \in Pid, Report(p)
  PROVE  LaunchInv'
<1>1. ASSUME NEW t \in 1..MaxTask, NEW c \in Client, NEW success \in BOOLEAN,
             Accepts(p, t, c), ClientTaskCompleted(c, success)
      PROVE  LaunchInv'
  <2>1. /\ loaded'
        /\ UNCHANGED <<loaded, waiting, lost_clients, dependencies>>
    BY <1>1, HandledIsLoaded DEF ClientTaskCompleted, Accepts
  <2>2. \/ SatisfyDependency(c) /\ restored' = restored \cup {c}
        \/ UNCHANGED <<unsatisfied_deps, pid, restored>>
    BY <1>1 DEF ClientTaskCompleted
  <2> QED BY <2>1, <2>2, SatisfyLaunch, SameLaunch
<1>2. ASSUME NEW c \in Client, NEW percentage \in Percent,
             TaskProgressed(c, percentage)
      PROVE  LaunchInv'
  BY <1>2, SameLaunch DEF TaskProgressed, projectVars, clientVars
<1> QED BY <1>1, <1>2 DEF Report, Progress, CommitDataSet

(* client_disconnected: the client that is lost was not waiting.           *)
LEMMA NoticeLaunch ==
  ASSUME Inv, LaunchInv, NEW p \in Pid, BusNotice(p) \/ Bury(p)
  PROVE  LaunchInv'
<1>1. PICK S \in SUBSET clients : LoseAny(S)
  BY DEF BusNotice, Bury, WithName, WithPid
<1>2. UNCHANGED <<waiting, restored>>
  BY DEF BusNotice, Bury
<1>3. ASSUME NEW c \in S, Lose(c) PROVE LaunchInv'
  <2>1. /\ c \in clients /\ c \in Client /\ loaded
        /\ waiting \subseteq lost_clients /\ lost_clients \subseteq Client
        /\ c \notin lost_clients
    BY HandledIsLoaded
       DEF LaunchInv, WaitingInv, Inv, TypeOK, ProjectTypeOK,
           RunningClientsHaveProcesses
  <2>2. /\ lost_clients' = lost_clients \cup {c}
        /\ pid' = [pid EXCEPT ![c] = NoPid]
        /\ UNCHANGED <<loaded, dependencies, unsatisfied_deps>>
    BY <1>3 DEF Lose
  <2>3. \A d \in Client : d # c => pid'[d] = pid[d]
    BY <2>2 DEF Inv, TypeOK, ClientTypeOK
  <2> QED BY <1>2, <2>1, <2>2, <2>3, SameWaiting
<1>4. CASE UNCHANGED <<projectVars, clientVars>>
  BY <1>2, <1>4, SameLaunch DEF projectVars, clientVars
<1> QED BY <1>1, <1>3, <1>4 DEF LoseAny

(* server_project_restore launches the clients that depend on no other.    *)
LEMMA OpenLaunch ==
  ASSUME Inv, LaunchInv, NEW nameTaken \in BOOLEAN, ProjectOpen(nameTaken)
  PROVE  LaunchInv'
<1> DEFINE first == LaunchedFirst(dependencies')
<1>1. /\ ~loaded /\ loaded' /\ waiting' = doc.clients
      /\ lost_clients' = doc.clients
      /\ unsatisfied_deps' = dependencies'
  BY DEF ProjectOpen, ProjectLoad
<1>2. PICK fork \in Forks(first) : Launch(fork)
  BY DEF ProjectOpen
<1>3. doc.clients \in SUBSET Client
  BY DEF Inv, TypeOK, ProjectTypeOK, Document
<1>4. \A c \in Client \ first : pid'[c] = NoPid
  <2>1. first \in SUBSET Client
    BY <1>3 DEF LaunchedFirst
  <2> QED BY <1>1, <1>2, <2>1, LaunchPids DEF LaunchInv, UnloadedHaveNoPid
<1>5. \A c \in first : unsatisfied_deps'[c] = {}
  BY <1>1 DEF LaunchedFirst
<1>6. \A c \in waiting' :
        /\ dependencies'[c] \subseteq unsatisfied_deps'[c] \cup restored'
        /\ pid'[c] # NoPid => unsatisfied_deps'[c] = {}
  <2> HIDE DEF first
  <2> QED BY <1>1, <1>3, <1>4, <1>5
<1> QED BY <1>1, <1>6 DEF LaunchInv, UnloadedHaveNoPid, WaitingInv

LEMMA ControlLaunch ==
  ASSUME Inv, LaunchInv, Control
  PROVE  LaunchInv'
<1>1. ASSUME SaveAsksNobody \/ SaveAsksClients PROVE LaunchInv'
  BY <1>1 DEF SaveAsksNobody, SaveAsksClients, ProjectSave, LaunchInv,
              UnloadedHaveNoPid, WaitingInv
<1>2. ASSUME ProjectClose PROVE LaunchInv'
  BY <1>2 DEF ProjectClose, Destroy, Assign, LaunchInv, UnloadedHaveNoPid,
              WaitingInv
<1>3. ASSUME NEW c \in Client, LostClientLaunch(c) PROVE LaunchInv'
  <2>1. /\ loaded' /\ waiting' = waiting \ {c}
        /\ UNCHANGED <<lost_clients, dependencies, unsatisfied_deps, restored>>
    BY <1>3 DEF LostClientLaunch, projectVars
  <2>2. \A d \in Client \ {c} : pid'[d] = pid[d]
    BY <1>3, LaunchPids DEF LostClientLaunch
  <2>3. waiting \subseteq lost_clients /\ lost_clients \subseteq Client
    BY DEF LaunchInv, WaitingInv, Inv, TypeOK, ProjectTypeOK
  <2> QED BY <2>1, <2>2, <2>3, SameWaiting
<1>4. ASSUME NEW c \in Client, NEW d \in Client, ModifyDependency(c, d)
      PROVE  LaunchInv'
  <2>1. /\ c \in clients /\ loaded /\ c \notin lost_clients
        /\ waiting \subseteq lost_clients /\ lost_clients \subseteq Client
    BY <1>4, HandledIsLoaded
       DEF ModifyDependency, LaunchInv, WaitingInv, Inv, TypeOK, ProjectTypeOK,
           RunningClientsHaveProcesses
  <2>2. UNCHANGED <<loaded, waiting, lost_clients, pid, unsatisfied_deps,
                   restored>>
    BY <1>4 DEF ModifyDependency, projectVars
  <2>3. \A x \in Client : x # c => dependencies'[x] = dependencies[x]
    BY <1>4 DEF ModifyDependency, Inv, TypeOK, ClientTypeOK
  <2> QED BY <2>1, <2>2, <2>3, SameWaiting
<1>5. ASSUME NEW e \in DepEdges, ModifyDependency(e[1], e[2]) PROVE LaunchInv'
  <2>1. e[1] \in Client /\ e[2] \in Client
    BY EdgesOK DEF RankedEdges
  <2> QED BY <1>4, <1>5, <2>1
<1>6. ASSUME Edit PROVE LaunchInv'
  BY <1>6, SameLaunch DEF Edit, clientVars
<1> QED BY <1>1, <1>2, <1>3, <1>5, <1>6, OpenLaunch DEF Control

LEMMA LaunchStep == Inv /\ LaunchInv /\ [Next]_vars => LaunchInv'
<1> SUFFICES ASSUME Inv, LaunchInv, [Next]_vars PROVE LaunchInv'
  OBVIOUS
<1>1. ASSUME NEW p \in Pid, Exits(p) \/ Recycle(p) PROVE LaunchInv'
  BY <1>1, SameLaunch DEF Exits, Recycle, projectVars, clientVars
<1>2. CASE UNCHANGED vars
  BY <1>2, SameLaunch DEF vars, projectVars, clientVars, history
<1> QED BY <1>1, <1>2, ConnectLaunch, ReportLaunch, NoticeLaunch, ControlLaunch
        DEF Next

(* A client that lashd launched by itself has had all its dependencies     *)
(* restored (server_project_restore, project_satisfy_client_dependency).   *)
THEOREM LaunchOrder == Spec => []LaunchedAfterDependencies
<1>1. Init => LaunchInv
  BY DEF Init, LaunchInv, UnloadedHaveNoPid, WaitingInv
<1>2. LaunchInv => LaunchedAfterDependencies
  BY DEF LaunchInv, WaitingInv, LaunchedAfterDependencies
<1> QED BY Invariance, LaunchStep, <1>1, <1>2, PTL DEF Spec

------------------------------------------------------------------------------
(* Counting the pending client tasks *)

(* What a task of the project may leave behind in the clients. A client    *)
(* that is nowhere has no task (client_destroy), and one without a task    *)
(* has no event to complete (client_task_completed).                       *)
NoTaskNoEvent ==
  /\ \A c \in Client \ (clients \cup lost_clients) : pending_task[c] = 0
  /\ \A c \in Client : pending_task[c] = 0 => client_task[c] = NoTask

(* project_save clears the lost clients, and project_load makes new ones,  *)
(* so none has a task left over, until one is lost during the task.        *)
LostHaveNoTask ==
  loaded /\ steady =>
    /\ task_type = LASH_TASK_SAVE => lost_clients = {}
    /\ task_type = LASH_TASK_LOAD => \A c \in lost_clients : pending_task[c] = 0

CountInv == NoTaskNoEvent /\ LostHaveNoTask /\ PendingCountsClients

LEMMA CountAdded ==
  ASSUME NEW S \in SUBSET Client, NEW c \in Client, c \notin S
  PROVE  Cardinality(S \cup {c}) = Cardinality(S) + 1
<1>1. IsFiniteSet(S)
  BY ConstantsOK, FS_Subset DEF ConstantAssumption
<1> QED BY <1>1, FS_AddElement

LEMMA CountRemoved ==
  ASSUME NEW S \in SUBSET Client, NEW c \in S
  PROVE  /\ Cardinality(S \ {c}) = Cardinality(S) - 1
         /\ Cardinality(S) = 1 => S = {c}
<1>1. IsFiniteSet(S) /\ S \ {c} \in SUBSET Client
  BY ConstantsOK, FS_Subset DEF ConstantAssumption
<1>2. Cardinality(S \ {c}) = Cardinality(S) - 1
  BY <1>1, FS_RemoveElement
<1>3. ASSUME Cardinality(S) = 1 PROVE S = {c}
  <2>1. S \ {c} = {}
    BY <1>1, <1>2, <1>3, CountsClients
  <2> QED BY <2>1
<1> QED BY <1>2, <1>3

(* The clients that are performing a task, and the numbers of them and of  *)
(* the lost ones.                                                          *)
LEMMA CountTypes ==
  ASSUME Inv
  PROVE  /\ clients \subseteq Client /\ lost_clients \subseteq Client
         /\ clients \cap lost_clients = {}
         /\ Performing \in SUBSET Client
         /\ Cardinality(Performing) \in Nat /\ Cardinality(lost_clients) \in Nat
         /\ client_tasks_pending \in Nat
         /\ pending_task \in [Client -> Nat]
         /\ DOMAIN client_task = Client
<1>1. clients \subseteq Client /\ lost_clients \subseteq Client
  BY DEF Inv, TypeOK, ProjectTypeOK
<1>2. Performing \in SUBSET Client
  BY <1>1 DEF Performing
<1>3. Cardinality(Performing) \in Nat /\ Cardinality(lost_clients) \in Nat
  BY <1>1, <1>2, CountsClients
<1> QED BY <1>1, <1>2, <1>3
        DEF Inv, RunningClientsHaveProcesses, TypeOK, TaskTypeOK,
            ClientTaskTypeOK

(* A step that ends the task leaves nothing to count.                      *)
LEMMA IdleCount ==
  ASSUME NoTaskNoEvent', task_type' = NoTask
  PROVE  CountInv'
BY DEF CountInv, LostHaveNoTask, PendingCountsClients, NoTask, LASH_TASK_SAVE,
       LASH_TASK_LOAD

LEMMA SameCount ==
  ASSUME CountInv,
         UNCHANGED <<loaded, clients, lost_clients, task_type,
                     client_tasks_pending, pending_task, client_task, steady>>
  PROVE  CountInv'
BY DEF CountInv, NoTaskNoEvent, LostHaveNoTask, PendingCountsClients, Performing

LEMMA ConnectNewCount ==
  ASSUME Inv, CountInv, NEW p \in Pid, NEW c \in Client, ConnectNew(p, c)
  PROVE  CountInv'
<1>1. /\ c \notin clients \cup lost_clients /\ clients' = clients \cup {c}
      /\ UNCHANGED <<lost_clients, task_type, client_tasks_pending,
                     pending_task, client_task, steady>>
  BY DEF ConnectNew, Fresh, taskVars, clientTask
<1>2. NoTaskNoEvent'
  BY <1>1 DEF CountInv, NoTaskNoEvent
<1>3. pending_task[c] = 0
  BY <1>1 DEF CountInv, NoTaskNoEvent
<1>4. Performing' = Performing
  BY <1>1, <1>3 DEF Performing
<1>5. CASE loaded
  BY <1>1, <1>2, <1>4, <1>5
     DEF CountInv, LostHaveNoTask, PendingCountsClients
<1>6. CASE ~loaded
  <2>1. task_type' = NoTask
    BY <1>1, <1>6 DEF ConnectNew, Inv, NewbornsAreIdle
  <2> QED BY <1>2, <2>1, IdleCount
<1> QED BY <1>5, <1>6

(* A client that resumes leaves the lost ones.                             *)
LEMMA ResumesCount ==
  ASSUME Inv, CountInv, NEW p \in Pid, NEW c \in Client, Resumes(p, c)
  PROVE  /\ loaded /\ c \in lost_clients /\ c \notin clients
         /\ clients' = clients \cup {c} /\ lost_clients' = lost_clients \ {c}
         /\ Cardinality(lost_clients') = Cardinality(lost_clients) - 1
         /\ clients' \cup lost_clients' = clients \cup lost_clients
         /\ UNCHANGED loaded
<1>1. /\ c \in lost_clients
      /\ clients' = clients \cup {c} /\ lost_clients' = lost_clients \ {c}
      /\ UNCHANGED loaded
  BY DEF Resumes, LostWithPid
<1> QED BY <1>1, HandledIsLoaded, CountTypes, CountRemoved

(* The client that is sent its state counts among the performing ones      *)
(* instead.                                                                *)
LEMMA ResumeLoadsCount ==
  ASSUME Inv, CountInv, NEW p \in Pid, NEW c \in Client, ResumeLoads(p, c)
  PROVE  CountInv'
<1>1. Resumes(p, c)
  BY DEF ResumeLoads
<1>2. /\ pending_task' = [pending_task EXCEPT ![c] = task_iter']
      /\ task_iter' # 0
      /\ \A d \in Client : d # c => client_task'[d] = client_task[d]
      /\ UNCHANGED <<task_type, client_tasks_pending, steady>>
  <2>1. task_iter' = task_iter + 1 /\ task_iter \in Nat
    BY ConstantsOK DEF ResumeLoads, Inv, TypeOK, TaskTypeOK, ConstantAssumption
  <2> QED BY <2>1 DEF ResumeLoads, taskVars, Inv, TypeOK, ClientTaskTypeOK
<1>3. NoTaskNoEvent'
  BY <1>1, <1>2, ResumesCount, CountTypes DEF CountInv, NoTaskNoEvent
<1>4. LostHaveNoTask'
  BY <1>1, <1>2, ResumesCount, CountTypes DEF CountInv, LostHaveNoTask
<1>5. Performing' = Performing \cup {c} /\ c \notin Performing
  BY <1>1, <1>2, ResumesCount, CountTypes DEF Performing
<1>6. Cardinality(Performing') = Cardinality(Performing) + 1
  BY <1>5, CountTypes, CountAdded
<1>7. ASSUME steady PROVE task_type # LASH_TASK_SAVE
  BY <1>1, <1>7, ResumesCount DEF CountInv, LostHaveNoTask
<1>8. PendingCountsClients'
  <2> SUFFICES ASSUME loaded', steady'
               PROVE  /\ task_type' # LASH_TASK_SAVE
                      /\ task_type' = LASH_TASK_LOAD =>
                           client_tasks_pending' >= Cardinality(lost_clients')
                                                      + Cardinality(Performing')
    BY DEF PendingCountsClients
  <2>1. loaded /\ steady /\ task_type' = task_type
        /\ client_tasks_pending' = client_tasks_pending
    BY <1>1, <1>2, ResumesCount
  <2>2. task_type = LASH_TASK_LOAD =>
          client_tasks_pending >= Cardinality(lost_clients)
                                    + Cardinality(Performing)
    BY <2>1 DEF CountInv, PendingCountsClients
  <2>3. Cardinality(lost_clients') = Cardinality(lost_clients) - 1
    BY <1>1, ResumesCount
  <2> QED BY <1>6, <1>7, <2>1, <2>2, <2>3, CountTypes
<1> QED BY <1>3, <1>4, <1>8 DEF CountInv

LEMMA ResumeSendsNothingCount ==
  ASSUME Inv, CountInv, NEW p \in Pid, NEW c \in Client,
         ResumeSendsNothing(p, c)
  PROVE  CountInv'
<1>1. Resumes(p, c)
  BY DEF ResumeSendsNothing
<1>2. UNCHANGED <<task_type, client_tasks_pending, pending_task, client_task,
                 steady>>
  BY DEF ResumeSendsNothing, taskVars, clientTask
<1>3. NoTaskNoEvent' /\ LostHaveNoTask'
  BY <1>1, <1>2, ResumesCount
     DEF CountInv, NoTaskNoEvent, LostHaveNoTask
<1>4. ASSUME loaded, steady, task_type \in {LASH_TASK_SAVE, LASH_TASK_LOAD}
      PROVE  task_type = LASH_TASK_LOAD /\ Performing' = Performing
  BY <1>1, <1>2, <1>4, ResumesCount, CountTypes
     DEF CountInv, LostHaveNoTask, Performing
<1>5. PendingCountsClients'
  <2> SUFFICES ASSUME loaded', steady'
               PROVE  /\ task_type' # LASH_TASK_SAVE
                      /\ task_type' = LASH_TASK_LOAD =>
                           client_tasks_pending' >= Cardinality(lost_clients')
                                                      + Cardinality(Performing')
    BY DEF PendingCountsClients
  <2>1. loaded /\ steady /\ task_type' = task_type
        /\ client_tasks_pending' = client_tasks_pending
    BY <1>1, <1>2, ResumesCount
  <2>2. task_type = LASH_TASK_LOAD =>
          client_tasks_pending >= Cardinality(lost_clients)
                                    + Cardinality(Performing)
    BY <2>1 DEF CountInv, PendingCountsClients
  <2>3. Cardinality(lost_clients') = Cardinality(lost_clients) - 1
    BY <1>1, ResumesCount
  <2>4. task_type' # LASH_TASK_SAVE
    BY <1>4, <2>1 DEF LASH_TASK_SAVE, LASH_TASK_LOAD
  <2> QED BY <1>4, <2>1, <2>2, <2>3, <2>4, CountTypes
<1> QED BY <1>3, <1>5 DEF CountInv

LEMMA CompletedEndsOrGoesOn ==
  ASSUME NEW c, NEW event, NEW sv, ProjectClientTaskCompleted(c, event, sv)
  PROVE  task_type' = NoTask \/ (task_type' = task_type /\ steady' = steady)
BY DEF ProjectClientTaskCompleted, TaskFinished

(* A client that completes, on the spot or with a report, counts one less. *)
LEMMA CompletedCount ==
  ASSUME Inv, CountInv, loaded, UNCHANGED loaded,
         NEW c \in Client, NEW event, NEW sv,
         ProjectClientTaskCompleted(c, event, sv),
         NoTaskNoEvent', LostHaveNoTask',
         Cardinality(Performing') \in Nat, Cardinality(lost_clients') \in Nat,
         Cardinality(lost_clients') + Cardinality(Performing') =
           Cardinality(lost_clients) + Cardinality(Performing) - 1,
         steady /\ task_type = LASH_TASK_SAVE =>
           /\ Cardinality(Performing') = Cardinality(Performing) - 1
           /\ Performing' \subseteq Performing
           /\ \A d \in Performing' : client_task'[d] = client_task[d]
  PROVE  CountInv'
<1>1. CASE LastPendingTask
  <2>1. task_type' = NoTask
    BY <1>1 DEF ProjectClientTaskCompleted, TaskFinished
  <2> QED BY <2>1, IdleCount
<1>2. CASE ~LastPendingTask
  <2>1. /\ task_type' = task_type /\ steady' = steady
        /\ client_tasks_pending' = IF client_tasks_pending = 0 THEN 0
                                   ELSE client_tasks_pending - 1
    BY <1>2 DEF ProjectClientTaskCompleted
  <2>2. ASSUME loaded', steady', task_type' = LASH_TASK_SAVE
        PROVE  /\ client_tasks_pending' = Cardinality(Performing')
               /\ \A d \in Performing' : client_task'[d] \in SaveEvents
    <3>1. /\ client_tasks_pending = Cardinality(Performing)
          /\ \A d \in Performing : client_task[d] \in SaveEvents
      BY <2>1, <2>2 DEF CountInv, PendingCountsClients
    <3>2. /\ Cardinality(Performing') = Cardinality(Performing) - 1
          /\ Performing' \subseteq Performing
          /\ \A d \in Performing' : client_task'[d] = client_task[d]
      BY <2>1, <2>2
    <3>3. client_tasks_pending' = Cardinality(Performing')
      BY <2>1, <3>1, <3>2, CountTypes
    <3> QED BY <3>1, <3>2, <3>3
  <2>3. ASSUME loaded', steady', task_type' = LASH_TASK_LOAD
        PROVE  client_tasks_pending' >= Cardinality(lost_clients')
                                          + Cardinality(Performing')
    <3>1. client_tasks_pending >= Cardinality(lost_clients)
                                    + Cardinality(Performing)
      BY <2>1, <2>3 DEF CountInv, PendingCountsClients
    <3> QED BY <2>1, <3>1, CountTypes
  <2> QED BY <2>2, <2>3 DEF CountInv, PendingCountsClients
<1> QED BY <1>1, <1>2

LEMMA ResumeStatelessCount ==
  ASSUME Inv, CountInv, NEW p \in Pid, NEW c \in Client, ResumeStateless(p, c)
  PROVE  CountInv'
<1>1. Resumes(p, c) /\ ProjectClientTaskCompleted(c, "Restore_Data_Set", saved)
  BY DEF ResumeStateless
<1>2. /\ pending_task' = pending_task
      /\ client_task' = [client_task EXCEPT ![c] = NoTask]
  BY DEF ResumeStateless
<1>3. task_type' = NoTask \/ (task_type' = task_type /\ steady' = steady)
  BY <1>1, CompletedEndsOrGoesOn
<1>4. NoTaskNoEvent'
  BY <1>1, <1>2, ResumesCount, CountTypes DEF CountInv, NoTaskNoEvent
<1>5. LostHaveNoTask'
  BY <1>1, <1>2, <1>3, ResumesCount
     DEF CountInv, LostHaveNoTask, NoTask, LASH_TASK_SAVE, LASH_TASK_LOAD
<1>6. CASE task_type' = NoTask
  BY <1>4, <1>6, IdleCount
<1>7. CASE ~steady /\ task_type' = task_type /\ steady' = steady
  BY <1>4, <1>5, <1>7 DEF CountInv, PendingCountsClients
<1>8. CASE task_type \notin {LASH_TASK_SAVE, LASH_TASK_LOAD}
           /\ task_type' = task_type
  BY <1>4, <1>5, <1>8 DEF CountInv, PendingCountsClients
<1>9. CASE steady /\ task_type \in {LASH_TASK_SAVE, LASH_TASK_LOAD}
  <2>1. task_type # LASH_TASK_SAVE /\ pending_task[c] = 0
    BY <1>1, <1>9, ResumesCount DEF CountInv, LostHaveNoTask
  <2>2. Performing' = Performing
    BY <1>1, <1>2, <2>1, ResumesCount DEF Performing
  <2>3. Cardinality(lost_clients') = Cardinality(lost_clients) - 1
    BY <1>1, ResumesCount
  <2>4. Cardinality(lost_clients') \in Nat
    BY <1>1, ResumesCount, CountTypes, CountsClients
  <2> QED BY <1>1, <1>4, <1>5, <2>1, <2>2, <2>3, <2>4, ResumesCount,
             CountTypes, CompletedCount
<1> QED BY <1>3, <1>6, <1>7, <1>8, <1>9

LEMMA ReportCount ==
  ASSUME Inv, CountInv, NEW p \in Pid, Report(p)
  PROVE  CountInv'
<1>1. ASSUME NEW t \in 1..MaxTask, NEW c \in Client, NEW success \in BOOLEAN,
             Accepts(p, t, c), ClientTaskCompleted(c, success)
      PROVE  CountInv'
  <2>1. /\ c \in Performing /\ loaded
        /\ UNCHANGED <<loaded, clients, lost_clients>>
    BY <1>1, HandledIsLoaded
       DEF Accepts, CheckTasks, Performing, ClientTaskCompleted
  <2>2. /\ pending_task' = [pending_task EXCEPT ![c] = 0]
        /\ client_task' = [client_task EXCEPT ![c] = NoTask]
    BY <1>1 DEF ClientTaskCompleted, ClearTask
  <2>3. PICK sv \in MarksSaved(c, success) :
          ProjectClientTaskCompleted(c, client_task[c], sv)
    BY <1>1 DEF ClientTaskCompleted
  <2>4. task_type' = NoTask \/ (task_type' = task_type /\ steady' = steady)
    BY <2>3, CompletedEndsOrGoesOn
  <2>5. NoTaskNoEvent'
    BY <2>1, <2>2, CountTypes DEF CountInv, NoTaskNoEvent
  <2>6. LostHaveNoTask'
    BY <2>1, <2>2, <2>4, CountTypes
       DEF CountInv, LostHaveNoTask, NoTask, LASH_TASK_SAVE, LASH_TASK_LOAD
  <2>7. Performing' = Performing \ {c}
    BY <2>1, <2>2, CountTypes DEF Performing
  <2>8. /\ Cardinality(Performing') = Cardinality(Performing) - 1
        /\ Cardinality(Performing') \in Nat
    BY <2>1, <2>7, CountTypes, CountRemoved, CountsClients
  <2>9. \A d \in Performing' : client_task'[d] = client_task[d]
    BY <2>2, <2>7, CountTypes
  <2>10. Cardinality(lost_clients') = Cardinality(lost_clients)
    BY <2>1
  <2> QED BY <2>1, <2>3, <2>5, <2>6, <2>7, <2>8, <2>9, <2>10, CountTypes,
             CompletedCount
<1>2. ASSUME NEW c \in Client, NEW percentage \in Percent,
             TaskProgressed(c, percentage)
      PROVE  CountInv'
  BY <1>2, SameCount DEF TaskProgressed, projectVars
<1> QED BY <1>1, <1>2 DEF Report, Progress, CommitDataSet

(* A client that is lost during a task takes its count with it, and no     *)
(* more is said of the task.                                               *)
LEMMA NoticeCount ==
  ASSUME Inv, CountInv, NEW p \in Pid, BusNotice(p) \/ Bury(p)
  PROVE  CountInv'
<1>1. PICK S \in SUBSET clients : LoseAny(S)
  BY DEF BusNotice, Bury, WithName, WithPid
<1>2. UNCHANGED <<task_type, client_tasks_pending, pending_task, client_task>>
  BY DEF BusNotice, Bury, taskVars, clientTask
<1>3. ASSUME NEW c \in S, Lose(c) PROVE CountInv'
  <2>1. NoTaskNoEvent'
    BY <1>2, <1>3 DEF Lose, CountInv, NoTaskNoEvent
  <2>2. steady' => task_type' = NoTask
    BY <1>2, <1>3 DEF Lose
  <2> QED BY <2>1, <2>2, IdleCount
          DEF CountInv, LostHaveNoTask, PendingCountsClients
<1>4. CASE UNCHANGED <<projectVars, clientVars, steady>>
  BY <1>2, <1>4, SameCount DEF projectVars
<1> QED BY <1>1, <1>3, <1>4 DEF LoseAny

(* project_save_clients counts the clients it asks, and no other client    *)
(* has a task.                                                             *)
LEMMA SaveCount ==
  ASSUME Inv, CountInv, SaveAsksClients
  PROVE  CountInv'
<1> DEFINE asking == clients \cap InternalState
<1>1. /\ lost_clients' = {} /\ clients' = clients
      /\ \A c \in clients : pending_task[c] = 0
      /\ task_iter' # 0
  <2>1. task_iter' = task_iter + 1 /\ task_iter \in Nat
    BY ConstantsOK
       DEF SaveAsksClients, Inv, TypeOK, TaskTypeOK, ConstantAssumption
  <2> QED BY <2>1 DEF SaveAsksClients, ProjectSave, Busy
<1>2. \A c \in Client :
        pending_task'[c] = IF c \in asking THEN task_iter'
                           ELSE IF c \in lost_clients THEN 0 ELSE pending_task[c]
  BY DEF SaveAsksClients, Assign
<1>3. \A c \in Client :
        client_task'[c] = IF c \in asking \cap FileClient THEN "Save_File"
                          ELSE IF c \in asking THEN "Save_Data_Set"
                          ELSE IF c \in lost_clients THEN NoTask
                          ELSE client_task[c]
  BY DEF SaveAsksClients
<1>4. /\ client_tasks_pending' = Cardinality(asking)
      /\ task_type' = IF asking = {} THEN NoTask ELSE LASH_TASK_SAVE
  BY DEF SaveAsksClients
<1> HIDE DEF asking
<1>5. asking \subseteq clients /\ clients \subseteq Client
  BY CountTypes DEF asking
<1>6. NoTaskNoEvent'
  BY <1>1, <1>2, <1>3, <1>5 DEF CountInv, NoTaskNoEvent
<1>7. Performing' = asking
  BY <1>1, <1>2, <1>5, CountTypes DEF Performing
<1>8. \A c \in asking : client_task'[c] \in SaveEvents
  BY <1>3, <1>5 DEF SaveEvents
<1> QED BY <1>1, <1>4, <1>6, <1>7, <1>8
        DEF CountInv, LostHaveNoTask, PendingCountsClients, NoTask,
            LASH_TASK_SAVE, LASH_TASK_LOAD

(* project_load counts the clients of the document.                        *)
LEMMA OpenCount ==
  ASSUME Inv, CountInv, NEW nameTaken \in BOOLEAN, ProjectOpen(nameTaken)
  PROVE  CountInv'
<1>1. /\ clients = {} /\ lost_clients = {} /\ clients' = {}
      /\ lost_clients' = doc.clients
      /\ client_tasks_pending' = Cardinality(doc.clients)
      /\ task_type' = LASH_TASK_LOAD
      /\ UNCHANGED <<pending_task, client_task>>
  BY DEF ProjectOpen, ProjectLoad, clientTask, Inv, RunningClientsHaveProcesses
<1>2. doc.clients \in SUBSET Client
  BY DEF Inv, TypeOK, ProjectTypeOK, Document
<1>3. \A c \in Client : pending_task[c] = 0
  BY <1>1 DEF CountInv, NoTaskNoEvent
<1>4. NoTaskNoEvent' /\ LostHaveNoTask'
  BY <1>1, <1>2, <1>3
     DEF CountInv, NoTaskNoEvent, LostHaveNoTask, LASH_TASK_SAVE, LASH_TASK_LOAD
<1>5. Cardinality(Performing') = 0
  BY <1>1, FS_EmptySet DEF Performing
<1>6. Cardinality(doc.clients) \in Nat
  BY <1>2, CountsClients
<1>7. PendingCountsClients'
  BY <1>1, <1>5, <1>6 DEF PendingCountsClients, LASH_TASK_SAVE, LASH_TASK_LOAD
<1> QED BY <1>4, <1>7 DEF CountInv

LEMMA ControlCount ==
  ASSUME Inv, CountInv, Control
  PROVE  CountInv'
<1>1. ASSUME SaveAsksNobody PROVE CountInv'
  <2>1. /\ lost_clients' = {} /\ task_type' = NoTask
        /\ NoTasks(lost_clients) /\ clients' = clients
    BY <1>1 DEF SaveAsksNobody, ProjectSave, taskVars
  <2>2. NoTaskNoEvent'
    BY <2>1 DEF NoTasks, Assign, CountInv, NoTaskNoEvent
  <2> QED BY <2>1, <2>2, IdleCount
<1>2. ASSUME ProjectClose PROVE CountInv'
  <2>1. NoTasks(Client) /\ loaded' = FALSE
    BY <1>2 DEF ProjectClose
  <2> QED BY <2>1 DEF NoTasks, Assign, CountInv, NoTaskNoEvent, LostHaveNoTask,
                      PendingCountsClients
<1>3. ASSUME UNCHANGED <<projectVars, taskVars, clientTask, steady>>
      PROVE  CountInv'
  BY <1>3, SameCount DEF projectVars, taskVars, clientTask
<1>4. ASSUME Edit PROVE CountInv'
  BY <1>4, SameCount DEF Edit, taskVars, clientTask
<1> QED BY <1>1, <1>2, <1>3, <1>4, SaveCount, OpenCount
        DEF Control, LostClientLaunch, ModifyDependency

LEMMA CountStep == Inv /\ CountInv /\ [Next]_vars => CountInv'
<1> SUFFICES ASSUME Inv, CountInv, [Next]_vars PROVE CountInv'
  OBVIOUS
<1>1. ASSUME NEW p \in Pid, Connect(p) PROVE CountInv'
  <2>1. CASE ConnectElsewhere(p)
    BY <2>1, SameCount DEF ConnectElsewhere, projectVars, taskVars, clientTask
  <2> QED BY <1>1, <2>1, ConnectNewCount, ResumeLoadsCount,
             ResumeSendsNothingCount, ResumeStatelessCount DEF Connect
<1>2. ASSUME NEW p \in Pid, Exits(p) \/ Recycle(p) PROVE CountInv'
  BY <1>2, SameCount DEF Exits, Recycle, projectVars, taskVars, clientTask
<1>3. CASE UNCHANGED vars
  BY <1>3, SameCount DEF vars, projectVars, taskVars, clientTask, history
<1> QED BY <1>1, <1>2, <1>3, ReportCount, NoticeCount, ControlCount DEF Next

LEMMA CountInvariance == Spec => []CountInv
<1>1. Init => CountInv
  BY DEF Init, CountInv, NoTaskNoEvent, LostHaveNoTask, PendingCountsClients
<1> QED BY Invariance, CountStep, <1>1, PTL DEF Spec

(* While no client is lost, a save waits for exactly the clients that were *)
(* asked and have not answered, and a load at least for the clients still  *)
(* to appear and those restoring (project_save_clients, project_load,      *)
(* project_client_task_completed).                                         *)
THEOREM PendingTasksCounted == Spec => []PendingCountsClients
<1>1. CountInv => PendingCountsClients
  BY DEF CountInv
<1> QED BY CountInvariance, <1>1, PTL

------------------------------------------------------------------------------
(* The completion signals *)

(* The report that completes the last pending task.                        *)
LEMMA ReportTruthful ==
  ASSUME Inv, CountInv, steady, NEW p \in Pid, Report(p)
  PROVE  /\ announced' = "ProjectSaved" /\ task_type = LASH_TASK_SAVE =>
              \A c \in clients' : client_task'[c] \notin SaveEvents
         /\ announced' = "ProjectLoaded" /\ task_type = LASH_TASK_LOAD =>
              /\ lost_clients' = {}
              /\ \A c \in clients' : client_task'[c] \notin RestoreEvents
<1> SUFFICES ASSUME announced' # "nothing",
                    task_type \in {LASH_TASK_SAVE, LASH_TASK_LOAD}
             PROVE  /\ task_type = LASH_TASK_LOAD => lost_clients' = {}
                    /\ \A d \in clients' : client_task'[d] = NoTask
  BY DEF NoTask, SaveEvents, RestoreEvents
<1>1. PICK t \in 1..MaxTask, c \in Client, success \in BOOLEAN :
        Accepts(p, t, c) /\ ClientTaskCompleted(c, success)
  <2>1. ASSUME NEW c \in Client, NEW percentage \in Percent,
               TaskProgressed(c, percentage)
        PROVE  FALSE
    BY <2>1 DEF TaskProgressed
  <2> QED BY <2>1 DEF Report, Progress, CommitDataSet
<1>2. /\ c \in Performing /\ loaded
      /\ UNCHANGED <<clients, lost_clients>>
      /\ client_task' = [client_task EXCEPT ![c] = NoTask]
  BY <1>1, HandledIsLoaded
     DEF Accepts, CheckTasks, Performing, ClientTaskCompleted, ClearTask
<1>3. client_tasks_pending = 1
  BY <1>1 DEF ClientTaskCompleted, ProjectClientTaskCompleted, LastPendingTask
<1>4. Cardinality(Performing) >= 1
  <2>1. Cardinality(Performing \ {c}) \in Nat
    BY CountTypes, CountsClients
  <2> QED BY <1>2, <2>1, CountTypes, CountRemoved
<1>5. /\ Cardinality(Performing) = 1
      /\ task_type = LASH_TASK_LOAD => Cardinality(lost_clients) = 0
  BY <1>2, <1>3, <1>4, CountTypes DEF CountInv, PendingCountsClients
<1>6. Performing = {c}
  BY <1>2, <1>5, CountTypes, CountRemoved
<1>7. \A d \in clients : d # c => client_task[d] = NoTask
  BY <1>6, CountTypes DEF Performing, CountInv, NoTaskNoEvent
<1>8. task_type = LASH_TASK_LOAD => lost_clients = {}
  BY <1>5, CountTypes, CountsClients
<1> QED BY <1>2, <1>7, <1>8, CountTypes

(* The client with nothing to load that appears last.                      *)
LEMMA ResumeTruthful ==
  ASSUME Inv, CountInv, steady, NEW p \in Pid, NEW c \in Client,
         ResumeStateless(p, c)
  PROVE  /\ announced' # "ProjectSaved"
         /\ announced' = "ProjectLoaded" /\ task_type = LASH_TASK_LOAD =>
              /\ lost_clients' = {}
              /\ \A d \in clients' : client_task'[d] \notin RestoreEvents
<1>1. /\ Resumes(p, c) /\ ProjectClientTaskCompleted(c, "Restore_Data_Set", saved)
      /\ client_task' = [client_task EXCEPT ![c] = NoTask]
  BY DEF ResumeStateless
<1>2. announced' # "ProjectSaved"
  BY <1>1 DEF ProjectClientTaskCompleted, SaveEvents, ProjectLoaded
<1>3. ASSUME announced' = "ProjectLoaded", task_type = LASH_TASK_LOAD
      PROVE  /\ lost_clients' = {}
             /\ \A d \in clients' : client_task'[d] = NoTask
  <2>1. client_tasks_pending = 1
    BY <1>1, <1>3 DEF ProjectClientTaskCompleted, LastPendingTask
  <2>2. 1 >= Cardinality(lost_clients) + Cardinality(Performing)
    BY <1>1, <1>3, <2>1, ResumesCount DEF CountInv, PendingCountsClients
  <2>3. Cardinality(lost_clients') \in Nat
    BY <1>1, ResumesCount, CountTypes, CountsClients
  <2>4. Cardinality(lost_clients') = 0 /\ Cardinality(Performing) = 0
    BY <1>1, <2>2, <2>3, ResumesCount, CountTypes
  <2>5. lost_clients' = {} /\ Performing = {}
    BY <1>1, <2>4, ResumesCount, CountTypes, CountsClients
  <2>6. \A d \in clients : client_task[d] = NoTask
    BY <2>5, CountTypes DEF Performing, CountInv, NoTaskNoEvent
  <2> QED BY <1>1, <2>5, <2>6, ResumesCount, CountTypes
<1> QED BY <1>2, <1>3 DEF NoTask, RestoreEvents

(* ProjectSaved and ProjectLoaded tell the truth about a task during which *)
(* no client was lost (project_clients_save_complete, project_loaded).     *)
THEOREM SignalsAreTrue == Spec => SignalsTellTheTruth
<1>1. ASSUME Inv, CountInv, Next, steady
      PROVE  /\ announced' = "ProjectSaved" /\ task_type = LASH_TASK_SAVE =>
                  \A c \in clients' : client_task'[c] \notin SaveEvents
             /\ announced' = "ProjectLoaded" /\ task_type = LASH_TASK_LOAD =>
                  /\ lost_clients' = {}
                  /\ \A c \in clients' : client_task'[c] \notin RestoreEvents
  <2> DEFINE Truthful ==
        /\ announced' = "ProjectSaved" /\ task_type = LASH_TASK_SAVE =>
             \A c \in clients' : client_task'[c] \notin SaveEvents
        /\ announced' = "ProjectLoaded" /\ task_type = LASH_TASK_LOAD =>
             /\ lost_clients' = {}
             /\ \A c \in clients' : client_task'[c] \notin RestoreEvents
  <2>1. ASSUME announced' = "nothing" PROVE Truthful
    BY <2>1
  <2>2. ASSUME NEW p \in Pid, Connect(p) PROVE Truthful
    BY <1>1, <2>1, <2>2, ResumeTruthful
       DEF Connect, ConnectNew, ConnectElsewhere, ResumeLoads,
           ResumeSendsNothing
  <2>3. ASSUME NEW p \in Pid, Report(p) PROVE Truthful
    BY <1>1, <2>3, ReportTruthful
  <2>4. ASSUME SaveAsksNobody \/ SaveAsksClients PROVE Truthful
    <3>1. task_type \notin {LASH_TASK_SAVE, LASH_TASK_LOAD}
      BY <2>4 DEF SaveAsksNobody, SaveAsksClients, ProjectSave, NoTask,
                  LASH_TASK_SAVE, LASH_TASK_LOAD
    <3> QED BY <3>1
  <2>5. ASSUME Control PROVE Truthful
    BY <2>1, <2>4, <2>5
       DEF Control, ProjectOpen, ProjectClose, LostClientLaunch,
           ModifyDependency, Edit
  <2>6. ASSUME NEW p \in Pid,
               BusNotice(p) \/ Bury(p) \/ Exits(p) \/ Recycle(p)
        PROVE  Truthful
    BY <2>1, <2>6 DEF BusNotice, Bury, Exits, Recycle
  <2> QED BY <1>1, <2>2, <2>3, <2>5, <2>6 DEF Next
<1>2. Inv /\ CountInv /\ [Next]_vars =>
        [steady =>
           /\ announced' = "ProjectSaved" /\ task_type = LASH_TASK_SAVE =>
                \A c \in clients' : client_task'[c] \notin SaveEvents
           /\ announced' = "ProjectLoaded" /\ task_type = LASH_TASK_LOAD =>
                /\ lost_clients' = {}
                /\ \A c \in clients' : client_task'[c] \notin RestoreEvents]_vars
  BY <1>1
<1> QED BY Invariance, CountInvariance, <1>2, PTL DEF Spec, SignalsTellTheTruth

=============================================================================
