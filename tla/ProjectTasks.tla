---------------------------- MODULE ProjectTasks ----------------------------
(***************************************************************************)
(* One project of the LASH daemon: the clients that run in its session,    *)
(* the clients it has lost, the save or load task in progress, and the     *)
(* processes behind the clients (lashd/project.c, lashd/client.c,          *)
(* lashd/server.c and the handlers of lashd/dbus_iface_*.c).               *)
(*                                                                         *)
(* lashd is one thread that handles one D-Bus message at a time and then   *)
(* buries its dead children (server_main), so every handler is one action. *)
(* What is concurrent is the outside: processes start, connect, answer and *)
(* die at any time, and the daemon learns of a death twice, from the bus   *)
(* (NameOwnerChanged) and from SIGCHLD, in either order.                   *)
(*                                                                         *)
(* Beside some helpers stands a faulty variant of it (NotTruncated beside  *)
(* Truncated, ...): the fault that shows what a property detects. Nothing  *)
(* uses the variants.                                                      *)
(***************************************************************************)
EXTENDS Integers, FiniteSets

CONSTANTS
  Client,         \* client identities (the uuid in client->id)
  FileClient,     \* the clients whose flags have LASH_Config_File
  DataSetClient,  \* the clients whose flags have LASH_Config_Data_Set
  Pid,            \* process identities: an operating-system pid and, one to
                  \*   one with it, the unique bus name of the process
  NoPid,          \* the pid 0
  Percent,        \* the byte values a client puts in a Progress report
  DepEdges,       \* bound: the <<client, dependency>> pairs controllers add
  MaxTask,        \* bound on task_iter
  MaxProgress     \* bound on client_tasks_progress (a uint32_t in the code)

(***************************************************************************)
(* DepEdges follows a ranking of the clients, so no request of the         *)
(* controllers is circular: the circularity check of AddDependency has a   *)
(* module of its own, ClientDependency.                                    *)
(***************************************************************************)
ConstantAssumption ==
  /\ IsFiniteSet(Client)
  /\ FileClient \subseteq Client
  /\ DataSetClient \subseteq Client
  /\ NoPid \notin Pid
  /\ Percent \subseteq 0..255
  /\ MaxTask \in Nat
  /\ MaxProgress \in Nat

RankedEdges ==
  /\ DepEdges \subseteq Client \X Client
  /\ \E rank \in [Client -> 1..Cardinality(Client)] :
       \A e \in DepEdges : rank[e[1]] > rank[e[2]]

ASSUME ConstantsOK == ConstantAssumption
ASSUME EdgesOK == RankedEdges

VARIABLES
  (* struct _project *)
  loaded,                 \* the project is linked in g_server->loaded_projects
  doc,                    \* project->doc: what the info file records
  modified_status,
  clients, lost_clients,  \* the two client lists, as sets
  task_type,
  client_tasks_total, client_tasks_pending, client_tasks_progress,
  (* struct lash_client *)
  saved,                  \* the clients whose flags have LASH_Saved
  pid, dbus_name,
  pending_task, client_task, task_progress,
  dependencies, unsatisfied_deps,
  (* g_server *)
  task_iter,
  (* the processes and what lashd has still to hear of them *)
  proc,                   \* the life of a process
  onBus,                  \* its bus name is owned, or its loss not handled yet
  child,                  \* it has an entry in the loader's g_childs_list
  asked,                  \* the task ids that lashd has sent to it
  (* observations *)
  announced,              \* the completion signal that the last step broadcast
  steady,                 \* no client was lost since the task in progress began
  waiting,                \* lost clients nobody but lashd has launched since
                          \*   the project was opened
  restored                \* clients that reported a successful restore since then

projectVars == <<loaded, doc, modified_status, clients, lost_clients>>
taskVars    == <<task_type, client_tasks_total, client_tasks_pending,
                 client_tasks_progress>>
clientTask  == <<pending_task, client_task, task_progress>>
clientVars  == <<saved, pid, dbus_name, dependencies, unsatisfied_deps>>
processVars == <<proc, onBus, child, asked>>
history     == <<announced, steady, waiting, restored>>
vars == <<projectVars, taskVars, clientTask, clientVars, task_iter,
          processVars, history>>

------------------------------------------------------------------------------
(* Task types *)

LASH_TASK_SAVE == "save"
LASH_TASK_LOAD == "load"
NoTask         == "none"

SaveEvents    == {"Save_File", "Save_Data_Set"}
RestoreEvents == {"Restore_File", "Restore_Data_Set"}

InternalState == FileClient \cup DataSetClient  \* CLIENT_HAS_INTERNAL_STATE

(* The document of a newborn project: nothing was written yet. *)
NoDoc == [written |-> FALSE, clients |-> {}, saved |-> {},
          dependencies |-> [c \in Client |-> {}]]

(* No client with this identity exists in memory or in the document. *)
Fresh(c) == c \notin clients \cup lost_clients \cup doc.clients

Init ==
  /\ loaded = FALSE
  /\ doc = NoDoc
  /\ modified_status = FALSE
  /\ clients = {}
  /\ lost_clients = {}
  /\ task_type = NoTask
  /\ client_tasks_total = 0
  /\ client_tasks_pending = 0
  /\ client_tasks_progress = 0
  /\ saved = {}
  /\ pid = [c \in Client |-> NoPid]
  /\ dbus_name = [c \in Client |-> NoPid]
  /\ pending_task = [c \in Client |-> 0]
  /\ client_task = [c \in Client |-> NoTask]
  /\ task_progress = [c \in Client |-> 0]
  /\ dependencies = [c \in Client |-> {}]
  /\ unsatisfied_deps = [c \in Client |-> {}]
  /\ task_iter = 0
  /\ proc = [p \in Pid |-> "free"]
  /\ onBus = [p \in Pid |-> FALSE]
  /\ child = [p \in Pid |-> FALSE]
  /\ asked = [p \in Pid |-> {}]
  /\ announced = "nothing"
  /\ steady = TRUE
  /\ waiting = {}
  /\ restored = {}

------------------------------------------------------------------------------
(* What the handlers share *)

(* f with the value v at every client of S. *)
Assign(f, S, v) == [c \in Client |-> IF c \in S THEN v ELSE f[c]]

(* client_destroy of every client of S: nothing of them is left, neither   *)
(* the data nor the task.                                                  *)
NoTasks(S) ==
  /\ pending_task' = Assign(pending_task, S, 0)
  /\ client_task' = Assign(client_task, S, NoTask)
  /\ task_progress' = Assign(task_progress, S, 0)

Destroy(S) ==
  /\ saved' = saved \ S
  /\ pid' = Assign(pid, S, NoPid)
  /\ dbus_name' = Assign(dbus_name, S, NoPid)
  /\ dependencies' = Assign(dependencies, S, {})
  /\ unsatisfied_deps' = Assign(unsatisfied_deps, S, {})

(* client_task_completed leaves the client without a task.                 *)
ClearTaskKeepsPending(c) ==
  /\ client_task' = [client_task EXCEPT ![c] = NoTask]
  /\ task_progress' = [task_progress EXCEPT ![c] = 0]
  /\ UNCHANGED pending_task

ClearTask(c) ==
  /\ pending_task' = [pending_task EXCEPT ![c] = 0]
  /\ client_task' = [client_task EXCEPT ![c] = NoTask]
  /\ task_progress' = [task_progress EXCEPT ![c] = 0]

(* The pids that forking the clients of S can return: a free pid for each  *)
(* client, or 0 where fork fails and loader_execute gives up.              *)
Forks(S) ==
  {f \in [S -> {p \in Pid : proc[p] = "free"} \cup {NoPid}] :
     \A c, d \in S : f[c] = f[d] /\ f[c] # NoPid => c = d}

(* loader_execute of the clients in the domain of fork. *)
Launch(fork) ==
  /\ pid' = [c \in Client |-> IF c \in DOMAIN fork THEN fork[c] ELSE pid[c]]
  /\ proc' = [p \in Pid |-> IF \E c \in DOMAIN fork : fork[c] = p
                              THEN "running" ELSE proc[p]]
  /\ child' = [p \in Pid |-> child[p] \/ \E c \in DOMAIN fork : fork[c] = p]

(* project_create_xml: the info file and project->doc record the running   *)
(* clients (the lost ones are not written), with the flags sv.             *)
Written(sv) ==
  [written |-> TRUE, clients |-> clients, saved |-> clients \cap sv,
   dependencies |-> [c \in Client |-> IF c \in clients
                                        THEN dependencies[c] ELSE {}]]

(* project_clients_save_complete: a failure to write the file is only      *)
(* logged.                                                                 *)
SaveComplete(sv) ==
  /\ doc' = Written(sv)
  /\ modified_status' = FALSE
  /\ announced' = "ProjectSaved"

(* project_loaded *)
ProjectLoaded ==
  /\ modified_status' = FALSE
  /\ announced' = "ProjectLoaded"
  /\ UNCHANGED doc

(* project_client_progress: the project's reading trades the client's old  *)
(* reading for the new one, whatever the project's total is.               *)
NewReading(c, percentage) ==
  client_tasks_progress - task_progress[c] + percentage

(* project_client_task_completed. The client counts for one pending task,  *)
(* if the project has any, and the event it completes, not the project's   *)
(* task, decides which signal ends the task.                               *)
OneTaskLeftOver == client_tasks_pending \in {1, 2}

NoTaskEverLast == client_tasks_pending = 0 /\ task_type = NoTask

LastPendingTask == client_tasks_pending = 1

TaskFinished ==
  /\ task_type' = NoTask
  /\ client_tasks_total' = 0
  /\ client_tasks_pending' = 0
  /\ client_tasks_progress' = 0

ProjectClientTaskCompleted(c, event, sv) ==
  IF LastPendingTask
    THEN /\ TaskFinished
         /\ steady' = TRUE
         /\ IF event \in SaveEvents THEN SaveComplete(sv) ELSE ProjectLoaded
    ELSE /\ client_tasks_pending' = IF client_tasks_pending = 0 THEN 0
                                      ELSE client_tasks_pending - 1
         /\ client_tasks_progress' = NewReading(c, 100)
         /\ client_tasks_progress' <= MaxProgress
         /\ announced' = "nothing"
         /\ UNCHANGED <<task_type, client_tasks_total, steady, doc,
                        modified_status>>

(* The lost clients that wait for nothing but the restore of client c. *)
WaitingOnlyFor(c) == {l \in lost_clients : unsatisfied_deps[l] = {c}}

(* project_satisfy_client_dependency *)
SatisfyDependency(c) ==
  /\ unsatisfied_deps' = [l \in Client |-> IF l \in lost_clients
                                             THEN unsatisfied_deps[l] \ {c}
                                             ELSE unsatisfied_deps[l]]
  /\ \E fork \in Forks(WaitingOnlyFor(c)) : Launch(fork)

(* client_task_completed. store_write of a data set may fail, and then the *)
(* client keeps its old flags. (The default case of the switch cannot be   *)
(* reached: a client with a pending task that its process was told of has  *)
(* an event to complete, see AskedTaskHasEvent.)                           *)
MarksSaved(c, success) ==
  IF success /\ client_task[c] \in SaveEvents
    THEN {saved \cup {c}} \cup (IF client_task[c] = "Save_Data_Set"
                                  THEN {saved} ELSE {})
    ELSE {saved}

ClientTaskCompleted(c, success) ==
  /\ \E sv \in MarksSaved(c, success) :
       /\ saved' = sv
       /\ ProjectClientTaskCompleted(c, client_task[c], sv)
  /\ IF success /\ client_task[c] \in RestoreEvents
       THEN SatisfyDependency(c) /\ restored' = restored \cup {c}
       ELSE UNCHANGED <<unsatisfied_deps, pid, proc, child, restored>>
  /\ ClearTask(c)
  /\ UNCHANGED <<loaded, clients, lost_clients, dbus_name, dependencies,
                 task_iter, onBus, asked, waiting>>

------------------------------------------------------------------------------
(* Connecting: lashd_dbus_connect, server_add_client *)

(* A process calls Connect: one the user started, one lashd launched, or   *)
(* one that has exited since, its call still in the queue.                 *)
CallsConnect(p) ==
  /\ proc[p] \in {"free", "running", "dying"}
  /\ proc' = [proc EXCEPT ![p] = IF @ = "dying" THEN "gone" ELSE "connected"]
  /\ onBus' = [onBus EXCEPT ![p] = TRUE]
  /\ UNCHANGED child

(* server_find_lost_client_by_pid *)
AnyLostClient(p) == lost_clients

LostWithPid(p) == {c \in lost_clients : pid[c] = p}

(* server_add_client for an unknown pid, when the project is the one that  *)
(* server_get_newborn_project picks or creates: project_new_client.        *)
ConnectNew(p, c) ==
  /\ CallsConnect(p)
  /\ LostWithPid(p) = {}
  /\ loaded \/ ~doc.written
  /\ Fresh(c)
  /\ loaded' = TRUE
  /\ clients' = clients \cup {c}
  /\ pid' = [pid EXCEPT ![c] = p]
  /\ dbus_name' = [dbus_name EXCEPT ![c] = p]
  /\ modified_status' = TRUE
  /\ announced' = "nothing"
  /\ UNCHANGED <<doc, lost_clients, taskVars, clientTask, saved, dependencies,
                 unsatisfied_deps, task_iter, asked, steady, waiting, restored>>

(* The same when it picks or creates another project. *)
ConnectElsewhere(p) ==
  /\ CallsConnect(p)
  /\ LostWithPid(p) = {}
  /\ announced' = "nothing"
  /\ UNCHANGED <<projectVars, taskVars, clientTask, clientVars, task_iter,
                 asked, steady, waiting, restored>>

(* server_add_client for the pid of a lost client, client_resume_project:  *)
(* what every case does.                                                   *)
Resumes(p, c) ==
  /\ CallsConnect(p)
  /\ c \in LostWithPid(p)
  /\ lost_clients' = lost_clients \ {c}
  /\ clients' = clients \cup {c}
  /\ dbus_name' = [dbus_name EXCEPT ![c] = p]
  /\ waiting' = waiting \ {c}
  /\ UNCHANGED <<loaded, pid, saved, dependencies, unsatisfied_deps, restored>>

(* project_load_file, or project_load_data_set when it sends the data set. *)
ResumeLoads(p, c) ==
  /\ Resumes(p, c)
  /\ c \in saved \cap InternalState
  /\ task_iter < MaxTask
  /\ task_iter' = task_iter + 1
  /\ pending_task' = [pending_task EXCEPT ![c] = task_iter']
  /\ client_task' = [client_task EXCEPT ![c] =
                       IF c \in FileClient THEN "Restore_File"
                                           ELSE "Restore_Data_Set"]
  /\ task_progress' = [task_progress EXCEPT ![c] = 0]
  /\ asked' = [asked EXCEPT ![p] = @ \cup {task_iter'}]
  /\ announced' = "nothing"
  /\ UNCHANGED <<doc, modified_status, taskVars, steady>>

(* project_load_data_set when the store cannot be opened or has no key: it *)
(* returns, and the client has no task that it could complete.             *)
ResumeSendsNothing(p, c) ==
  /\ Resumes(p, c)
  /\ c \in (saved \cap DataSetClient) \ FileClient
  /\ announced' = "nothing"
  /\ UNCHANGED <<doc, modified_status, taskVars, clientTask, task_iter, asked,
                 steady>>

(* A client with nothing to load completes on the spot; its task_progress  *)
(* stays at 100.                                                           *)
ResumeStateless(p, c) ==
  /\ Resumes(p, c)
  /\ c \notin saved \cap InternalState
  /\ client_task' = [client_task EXCEPT ![c] = NoTask]
  /\ task_progress' = [task_progress EXCEPT ![c] = 100]
  /\ ProjectClientTaskCompleted(c, "Restore_Data_Set", saved)
  /\ UNCHANGED <<pending_task, task_iter, asked>>

------------------------------------------------------------------------------
(* Reports: lashd_dbus_progress, lashd_dbus_commit_data_set *)

(* get_message_sender and check_tasks let a call of process p about task t *)
(* through for client c. A call is handled while the name of p is on the   *)
(* bus, or before the notice that it is gone. Any other call is refused.   *)
CheckTasks(c, t) == pending_task[c] # 0 /\ pending_task[c] = t

Accepts(p, t, c) ==
  /\ onBus[p]
  /\ t \in asked[p]
  /\ c \in clients
  /\ dbus_name[c] = p
  /\ CheckTasks(c, t)

(* client_task_progressed: "Truncate a percentage too big". *)
NotTruncated(percentage) == percentage

Truncated(percentage) == IF percentage > 99 THEN 99 ELSE percentage

TaskProgressed(c, percentage) ==
  /\ percentage \in 1..254
  /\ percentage > task_progress[c]
  /\ client_tasks_progress' = NewReading(c, Truncated(percentage))
  /\ client_tasks_progress' <= MaxProgress
  /\ task_progress' = [task_progress EXCEPT ![c] = Truncated(percentage)]
  /\ announced' = "nothing"
  /\ UNCHANGED <<projectVars, task_type, client_tasks_total,
                 client_tasks_pending, pending_task, client_task, clientVars,
                 task_iter, processVars, steady, waiting, restored>>

Progress(p, t, c, percentage) ==
  /\ Accepts(p, t, c)
  /\ \/ percentage = 0 /\ ClientTaskCompleted(c, FALSE)
     \/ percentage = 255 /\ ClientTaskCompleted(c, TRUE)
     \/ TaskProgressed(c, percentage)

(* The client must have a store; a config that cannot be read fails the    *)
(* task, and a call without configs is refused.                            *)
CommitDataSet(p, t, c, readable) ==
  /\ Accepts(p, t, c)
  /\ c \in DataSetClient
  /\ ClientTaskCompleted(c, readable)

------------------------------------------------------------------------------
(* Losing clients: client_disconnected, project_lose_client *)

Lose(c) ==
  /\ clients' = clients \ {c}
  /\ lost_clients' = lost_clients \cup {c}
  /\ pid' = [pid EXCEPT ![c] = NoPid]
  /\ modified_status' = TRUE
  /\ steady' = (steady /\ task_type = NoTask)
  /\ UNCHANGED <<loaded, doc, saved, dbus_name, dependencies, unsatisfied_deps>>

LoseAny(S) ==
  \/ \E c \in S : Lose(c)
  \/ /\ S = {}
     /\ UNCHANGED <<projectVars, clientVars, steady>>

(* server_find_client_by_dbus_name, server_find_client_by_pid *)
IdleWithName(p) == {c \in clients : dbus_name[c] = p /\ pending_task[c] = 0}

WithName(p) == {c \in clients : dbus_name[c] = p}

WithPid(p) == {c \in clients : pid[c] = p}

(* NameOwnerChanged for the name of p, which has no new owner. *)
NameChanged(p) == onBus[p]

NameLost(p) == onBus[p] /\ proc[p] = "gone"

(* lashd_client_disconnect_handler *)
BusNotice(p) ==
  /\ NameLost(p)
  /\ LoseAny(WithName(p))
  /\ onBus' = [onBus EXCEPT ![p] = FALSE]
  /\ announced' = "nothing"
  /\ UNCHANGED <<taskVars, clientTask, task_iter, proc, child, asked, waiting,
                 restored>>

(* loader_childs_bury, after SIGCHLD marked the child dead. *)
Bury(p) ==
  /\ proc[p] \in {"dying", "gone"}
  /\ child[p]
  /\ LoseAny(WithPid(p))
  /\ child' = [child EXCEPT ![p] = FALSE]
  /\ announced' = "nothing"
  /\ UNCHANGED <<taskVars, clientTask, task_iter, proc, onBus, asked, waiting,
                 restored>>

(* A process exits; a launched one may have its Connect still queued. *)
Exits(p) ==
  /\ \/ proc[p] \in {"running", "connected"} /\ proc' = [proc EXCEPT ![p] = "gone"]
     \/ proc[p] = "running" /\ proc' = [proc EXCEPT ![p] = "dying"]
  /\ announced' = "nothing"
  /\ UNCHANGED <<projectVars, taskVars, clientTask, clientVars, task_iter,
                 onBus, child, asked, steady, waiting, restored>>

(* The operating system may use the pid again. *)
Recycle(p) ==
  /\ proc[p] = "gone" /\ ~onBus[p] /\ ~child[p]
  /\ proc' = [proc EXCEPT ![p] = "free"]
  /\ asked' = [asked EXCEPT ![p] = {}]
  /\ announced' = "nothing"
  /\ UNCHANGED <<projectVars, taskVars, clientTask, clientVars, task_iter,
                 onBus, child, steady, waiting, restored>>

------------------------------------------------------------------------------
(* Saving: project_save *)

Busy == {c \in clients : pending_task[c] # 0}

(* Every save that is not refused destroys the lost clients, and completes *)
(* at once if the project counts no client task.                           *)
SavesDuringTask ==
  /\ loaded
  /\ Destroy(lost_clients)
  /\ lost_clients' = {}
  /\ waiting' = {}

ProjectSave ==
  /\ loaded
  /\ task_type = NoTask
  /\ Destroy(lost_clients)
  /\ lost_clients' = {}
  /\ waiting' = {}

(* project_save_clients gives up: a client still has a task. *)
SaveAsksNobody ==
  /\ ProjectSave
  /\ Busy # {}
  /\ IF client_tasks_total = 0
       THEN SaveComplete(saved)
       ELSE announced' = "nothing" /\ UNCHANGED <<doc, modified_status>>
  /\ NoTasks(lost_clients)
  /\ UNCHANGED <<loaded, clients, taskVars, task_iter, processVars, steady,
                 restored>>

(* project_save_clients sends Save: the clients with internal state get a  *)
(* pending task, all of them the same, and the project counts them.        *)
SaveAsksClients ==
  /\ ProjectSave
  /\ Busy = {}
  /\ task_iter < MaxTask
  /\ task_iter' = task_iter + 1
  /\ LET asking == clients \cap InternalState IN
       /\ pending_task' = Assign(Assign(pending_task, lost_clients, 0),
                                 asking, task_iter')
       /\ client_task' = [c \in Client |->
            IF c \in asking \cap FileClient THEN "Save_File"
            ELSE IF c \in asking THEN "Save_Data_Set"
            ELSE IF c \in lost_clients THEN NoTask ELSE client_task[c]]
       /\ task_progress' = Assign(task_progress, asking \cup lost_clients, 0)
       /\ client_tasks_total' = Cardinality(asking)
       /\ client_tasks_pending' = Cardinality(asking)
       /\ client_tasks_progress' = 0
       /\ IF asking = {}
            THEN task_type' = NoTask /\ SaveComplete(saved)
            ELSE /\ task_type' = LASH_TASK_SAVE
                 /\ announced' = "nothing"
                 /\ UNCHANGED <<doc, modified_status>>
  /\ asked' = [p \in Pid |-> IF \E c \in clients : dbus_name[c] = p
                               THEN asked[p] \cup {task_iter'} ELSE asked[p]]
  /\ steady' = TRUE
  /\ UNCHANGED <<loaded, clients, proc, onBus, child, restored>>

------------------------------------------------------------------------------
(* Opening and closing: server_project_restore, server_close_project *)

(* "First only launch clients which don't depend on others". *)
LaunchedAtOnce(deps) == doc.clients

LaunchedFirst(deps) == {c \in doc.clients : deps[c] = {}}

(* client_dependency_list_sanity_check of every client *)
SaneDependencies == [c \in Client |-> doc.dependencies[c] \cap doc.clients]

(* project_load: every client of the document is a lost one at first. *)
ProjectLoad ==
  /\ lost_clients' = doc.clients
  /\ saved' = doc.saved
  /\ dependencies' = SaneDependencies

(* project_load and the launch loop of server_project_restore. When another *)
(* loaded project has the name, project_rename marks this one modified.     *)
ProjectOpen(nameTaken) ==
  /\ ~loaded
  /\ doc.written
  /\ loaded' = TRUE
  /\ ProjectLoad
  /\ unsatisfied_deps' = dependencies'
  /\ modified_status' = nameTaken
  /\ task_type' = LASH_TASK_LOAD
  /\ client_tasks_total' = Cardinality(doc.clients)
  /\ client_tasks_pending' = Cardinality(doc.clients)
  /\ client_tasks_progress' = 0
  /\ \E fork \in Forks(LaunchedFirst(dependencies')) : Launch(fork)
  /\ waiting' = doc.clients
  /\ restored' = {}
  /\ steady' = TRUE
  /\ announced' = "nothing"
  /\ UNCHANGED <<doc, clients, clientTask, dbus_name, task_iter, onBus, asked>>

(* project_unload. A newborn project is gone for good; a saved one stays   *)
(* in all_projects with the task fields it had.                            *)
ProjectClose ==
  /\ loaded
  /\ loaded' = FALSE
  /\ clients' = {}
  /\ lost_clients' = {}
  /\ Destroy(Client)
  /\ NoTasks(Client)
  /\ IF doc.written
       THEN UNCHANGED <<taskVars, modified_status>>
       ELSE /\ task_type' = NoTask
            /\ client_tasks_total' = 0
            /\ client_tasks_pending' = 0
            /\ client_tasks_progress' = 0
            /\ modified_status' = FALSE
  /\ waiting' = {}
  /\ restored' = {}
  /\ steady' = TRUE
  /\ announced' = "nothing"
  /\ UNCHANGED <<doc, task_iter, processVars>>

------------------------------------------------------------------------------
(* The other requests of controllers *)

(* lashd_dbus_lost_client_launch: it does not ask whether the client was   *)
(* launched before.                                                        *)
LostClientLaunch(c) ==
  /\ loaded
  /\ c \in lost_clients
  /\ \E fork \in Forks({c}) : Launch(fork)
  /\ waiting' = waiting \ {c}
  /\ announced' = "nothing"
  /\ UNCHANGED <<projectVars, taskVars, clientTask, saved, dbus_name,
                 dependencies, unsatisfied_deps, task_iter, onBus, asked,
                 steady, restored>>

(* client_dependency_add and client_dependency_remove. *)
ModifyDependency(c, d) ==
  /\ c \in clients
  /\ dependencies' = [dependencies EXCEPT ![c] =
                        IF d \in @ THEN @ \ {d} ELSE @ \cup {d}]
  /\ announced' = "nothing"
  /\ UNCHANGED <<projectVars, taskVars, clientTask, saved, pid, dbus_name,
                 unsatisfied_deps, task_iter, processVars, steady, waiting,
                 restored>>

(* project_rename, project_set_description, project_set_notes.             *)
Edit ==
  /\ loaded
  /\ modified_status' = TRUE
  /\ announced' = "nothing"
  /\ UNCHANGED <<loaded, doc, clients, lost_clients, taskVars, clientTask,
                 clientVars, task_iter, processVars, steady, waiting, restored>>

------------------------------------------------------------------------------

Connect(p) ==
  \/ \E c \in Client : ConnectNew(p, c)
  \/ ConnectElsewhere(p)
  \/ \E c \in Client : ResumeLoads(p, c)
  \/ \E c \in Client : ResumeSendsNothing(p, c)
  \/ \E c \in Client : ResumeStateless(p, c)

Report(p) ==
  \E t \in 1..MaxTask, c \in Client :
    \/ \E percentage \in Percent : Progress(p, t, c, percentage)
    \/ \E readable \in BOOLEAN : CommitDataSet(p, t, c, readable)

Control ==
  \/ SaveAsksNobody
  \/ SaveAsksClients
  \/ \E nameTaken \in BOOLEAN : ProjectOpen(nameTaken)
  \/ ProjectClose
  \/ \E c \in Client : LostClientLaunch(c)
  \/ \E e \in DepEdges : ModifyDependency(e[1], e[2])
  \/ Edit

Next ==
  \/ \E p \in Pid : Connect(p) \/ Report(p)
  \/ Control
  \/ \E p \in Pid : BusNotice(p) \/ Bury(p)
  \/ \E p \in Pid : Exits(p) \/ Recycle(p)

Spec == Init /\ [][Next]_vars

------------------------------------------------------------------------------
(* Invariants *)

Document == [written : BOOLEAN, clients : SUBSET Client, saved : SUBSET Client,
             dependencies : [Client -> SUBSET Client]]

ProjectTypeOK ==
  /\ loaded \in BOOLEAN
  /\ doc \in Document
  /\ modified_status \in BOOLEAN
  /\ clients \subseteq Client
  /\ lost_clients \subseteq Client

TaskTypeOK ==
  /\ task_type \in {NoTask, LASH_TASK_SAVE, LASH_TASK_LOAD}
  /\ client_tasks_total \in Nat
  /\ client_tasks_pending \in Nat
  /\ client_tasks_progress \in Nat
  /\ task_iter \in 0..MaxTask

ClientTaskTypeOK ==
  /\ pending_task \in [Client -> Nat]
  /\ client_task \in [Client -> SaveEvents \cup RestoreEvents \cup {NoTask}]
  /\ task_progress \in [Client -> 0..100]

ClientTypeOK ==
  /\ saved \subseteq Client
  /\ pid \in [Client -> Pid \cup {NoPid}]
  /\ dbus_name \in [Client -> Pid \cup {NoPid}]
  /\ dependencies \in [Client -> SUBSET Client]
  /\ unsatisfied_deps \in [Client -> SUBSET Client]

ProcessTypeOK ==
  /\ proc \in [Pid -> {"free", "running", "connected", "dying", "gone"}]
  /\ onBus \in [Pid -> BOOLEAN]
  /\ child \in [Pid -> BOOLEAN]
  /\ asked \in [Pid -> SUBSET (1..MaxTask)]

HistoryTypeOK ==
  /\ announced \in {"nothing", "ProjectSaved", "ProjectLoaded"}
  /\ steady \in BOOLEAN
  /\ waiting \subseteq Client
  /\ restored \subseteq Client

(* The fields hold what their C types and enumerations allow; the progress *)
(* readings, which the code subtracts from, never wrap below zero.         *)
TypeOK ==
  /\ ProjectTypeOK /\ TaskTypeOK
  /\ ClientTaskTypeOK /\ ClientTypeOK
  /\ ProcessTypeOK /\ HistoryTypeOK

(* project_save refuses to start while task_type is set, and only a client *)
(* that completes the last pending task clears it: a save in progress      *)
(* always has a pending client task, and an idle project has none.         *)
TaskFieldsAgree ==
  /\ client_tasks_pending <= client_tasks_total
  /\ client_tasks_pending = 0 => client_tasks_total = 0
  /\ task_type = NoTask => client_tasks_pending = 0
  /\ task_type = LASH_TASK_SAVE => client_tasks_pending > 0

(* The lookups by bus name and by pid (server_find_client_by_dbus_name,    *)
(* server_find_client_by_pid) can neither confuse two running clients nor  *)
(* miss one: each has a process of its own, which is connected or whose    *)
(* disappearance from the bus is still to be handled, so it will be lost.  *)
RunningClientsHaveProcesses ==
  /\ clients \cap lost_clients = {}
  /\ ~loaded => clients \cup lost_clients = {}
  /\ \A c \in clients :
       /\ pid[c] = dbus_name[c]
       /\ pid[c] \in Pid
       /\ onBus[pid[c]]
       /\ proc[pid[c]] \in {"connected", "gone"}
  /\ \A c, d \in clients : pid[c] = pid[d] => c = d

(* check_tasks: the tasks that the process of a running client was told of *)
(* and that are still pending have an event to complete and are not at     *)
(* 100 percent yet. A task left over from a process that died is never     *)
(* continued by the next one, for a process is asked nothing before it     *)
(* connects.                                                               *)
AskedTaskHasEvent ==
  /\ \A c \in clients :
       pending_task[c] \in asked[dbus_name[c]] =>
         client_task[c] # NoTask /\ task_progress[c] < 100
  /\ \A p \in Pid : proc[p] \in {"free", "running", "dying"} => asked[p] = {}

Performing == {c \in clients : pending_task[c] # 0}

(* While no client is lost during the task, a save waits for exactly the   *)
(* clients that were asked and have not answered, and a load waits at      *)
(* least for the clients still to appear and those restoring.              *)
PendingCountsClients ==
  loaded /\ steady =>
    /\ task_type = LASH_TASK_SAVE =>
         /\ client_tasks_pending = Cardinality(Performing)
         /\ \A c \in Performing : client_task[c] \in SaveEvents
    /\ task_type = LASH_TASK_LOAD =>
         client_tasks_pending >= Cardinality(lost_clients)
                                   + Cardinality(Performing)

(* server_project_restore, project_satisfy_client_dependency: a client     *)
(* that lashd launched by itself has had all its dependencies restored.    *)
LaunchedAfterDependencies ==
  \A c \in waiting : pid[c] # NoPid => dependencies[c] \subseteq restored

------------------------------------------------------------------------------
(* Action properties *)

(* ProjectSaved and ProjectLoaded tell the truth about a task during which *)
(* no client was lost: nobody is left that was asked to save, and every    *)
(* client of the project has appeared and been restored.                   *)
SignalsTellTheTruth ==
  [][steady =>
       /\ announced' = "ProjectSaved" /\ task_type = LASH_TASK_SAVE =>
            \A c \in clients' : client_task'[c] \notin SaveEvents
       /\ announced' = "ProjectLoaded" /\ task_type = LASH_TASK_LOAD =>
            /\ lost_clients' = {}
            /\ \A c \in clients' : client_task'[c] \notin RestoreEvents]_vars

(* The readings of a task never fall back (successive percentages).        *)
ProgressNeverFallsBack ==
  [][loaded /\ loaded' /\ task_type # NoTask /\ task_type' = task_type =>
       client_tasks_progress' >= client_tasks_progress]_vars

(* While the project is open, only the death of its own process takes a    *)
(* client off the list of running clients: neither a death notice nor a    *)
(* dead child is ever mistaken for another client's, and a pid that is     *)
(* used again does not make a running client's successor the lost one.     *)
OnlyDeathLosesClients ==
  [][loaded' => \A c \in clients \ clients' : proc[pid[c]] = "gone"]_vars

------------------------------------------------------------------------------
(* Liveness. server_main dispatches every message of the bus, and clients  *)
(* must always answer what they are asked (the manual, LASH_Save_File and  *)
(* LASH_Save_Data_Set). Nothing is assumed of Bury: a child that dies      *)
(* before loader_execute has stored its pid is never buried.               *)

Answers(c) ==
  \E p \in Pid, t \in 1..MaxTask :
    \/ Progress(p, t, c, 255) \/ Progress(p, t, c, 0)

Fairness ==
  /\ \A p \in Pid : WF_vars(BusNotice(p))
  /\ \A c \in Client : WF_vars(Answers(c))

FairSpec == Spec /\ Fairness

(* The client of a process that is gone is lost (or destroyed) in the end. *)
DeadClientsAreLost ==
  \A p \in Pid :
    proc[p] = "gone" ~> ~\E c \in clients : dbus_name[c] = p

(* A save ends, unless a client is lost while it is in progress.           *)
SavesEnd == task_type = LASH_TASK_SAVE ~> (task_type # LASH_TASK_SAVE \/ ~steady)

------------------------------------------------------------------------------
(* The abstract specification: at most one task at a time, which ends with *)
(* the last completion it counts and is announced exactly once.            *)

Lifecycle == INSTANCE TaskLifecycle WITH
  MaxLeft <- Cardinality(Client),
  open <- loaded,
  task <- task_type,
  left <- client_tasks_pending,
  signal <- announced

(* Every handler of the daemon is a step of the task's life cycle, or      *)
(* leaves it alone.                                                        *)
ImplementsLifecycle == Lifecycle!Spec

==============================================================================
