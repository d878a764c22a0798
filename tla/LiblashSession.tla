--------------------------- MODULE LiblashSession ---------------------------
(***************************************************************************)
(* A client's side of a session: liblash (liblash/lash.c, dbus_service.c,  *)
(* dbus_iface_client.c, event.c, client.c) between an application and the  *)
(* daemon. The application uses callbacks, or the event queue of the old   *)
(* API, where the library answers for an application that does not.        *)
(*                                                                         *)
(* The message bus is the code's environment: it keeps the order of the    *)
(* messages from one sender to one receiver, and passes on a signal only   *)
(* to those that have a match rule for it at that time. The daemon is      *)
(* reduced to what concerns the one client; ProjectTasks has the rest.     *)
(***************************************************************************)
EXTENDS Naturals, FiniteSets, SequencesExt

CONSTANTS
  Name,       \* names of projects
  NoName,     \* NULL
  Text,       \* any other string the Control signals carry
  Setup,      \* the kinds of clients, see SetupType
  MaxTask,    \* bound on g_server->task_iter
  MaxRename   \* bound on renames and other changes of projects

Callback == {"save", "load", "save_data_set", "load_data_set"}

(* How the library was built (LASH_OLD_API), the client's flags, the       *)
(* callbacks it registers, if it is a controller as well, and if it is a   *)
(* client with saved data that the daemon has launched.                    *)
SetupType == [old_api : BOOLEAN, flags : SUBSET {"File", "DataSet"} \ {{}},
              callbacks : SUBSET Callback, controller : BOOLEAN,
              restored : BOOLEAN]

ASSUME SetupOK == Setup \subseteq SetupType
ASSUME BoundsOK == MaxTask \in Nat /\ MaxRename \in Nat
ASSUME NamesOK == NoName \notin Name /\ Text \notin Name /\ Text # NoName

VARIABLES
  setup,
  (* the daemon *)
  project,         \* the name of the client's project; NoName: not a member
  other,           \* the name of another project
  task_iter,
  client_task,     \* the client's pending_task
  closed,          \* the client's project was closed
  changes,         \* renames and other changes so far
  (* the bus *)
  to_client, to_server,
  matched,         \* the match rules of the client's connection
  (* struct _lash_client and g_pending_event *)
  phase, server_connected, project_name, pending_task, events_in,
  unsent_configs,  \* "none", "empty" or "some" configs in the open message
  g_pending_event,
  (* the application *)
  handling,        \* the event it has got and not sent back
  (* observations *)
  taken,           \* tasks the application has been told of
  answers,         \* the final answers to each task
  successes,       \* tasks that were reported as done
  told,            \* the application was told to quit
  lost,            \* tasks that nobody will answer, 0 stands for the Quit
  misnamed         \* the client may have lost track of its project's name

daemon == <<project, other, task_iter, client_task, closed, changes>>
queue == <<events_in, unsent_configs, g_pending_event, handling>>
library == <<phase, server_connected, project_name, pending_task, queue>>
history == <<taken, answers, successes, told, lost, misnamed>>
vars == <<setup, daemon, to_client, to_server, matched, library, history>>

------------------------------------------------------------------------------
(* Messages *)

Task == 1..MaxTask
Save(n, t)     == [type |-> "Save", name |-> n, task |-> t]
Quit(n)        == [type |-> "Quit", name |-> n]
NameChanged(n, new)    == [type |-> "ProjectNameChanged", old |-> n, new |-> new]
ProjectChanged(n, new) == [type |-> "ProjectPathChanged", old |-> n, new |-> new]
Load(t)        == [type |-> "Load", task |-> t]
Reply(n)       == [type |-> "Reply", name |-> n]
Connect        == [type |-> "Connect"]
Request(type)  == [type |-> type]
Progress(t, x) == [type |-> "Progress", task |-> t, percentage |-> x]
CommitDataSet(t, configs) ==
  [type |-> "CommitDataSet", task |-> t, configs |-> configs]

(* The rules that lash_client_open adds, in its order. *)
Rules == (IF setup.controller THEN <<"Control">> ELSE <<>>)
           \o <<"Server", "ProjectNameChanged">>

Heard(m) ==
  CASE m.type \in {"Save", "Quit"} -> "Server" \in matched
    [] m.type = "ProjectNameChanged" ->
         matched \cap {"Control", "ProjectNameChanged"} # {}
    [] OTHER -> "Control" \in matched

Broadcast(m) == to_client' = IF Heard(m) THEN Append(to_client, m) ELSE to_client

Send(msgs) == to_server' = to_server \o msgs

------------------------------------------------------------------------------

Init ==
  /\ setup \in Setup
  /\ project = NoName /\ other \in Name
  /\ task_iter = 0 /\ client_task = 0 /\ closed = FALSE /\ changes = 0
  /\ to_client = <<>> /\ to_server = <<>> /\ matched = {}
  /\ phase = "closed" /\ server_connected = FALSE
  /\ project_name = NoName /\ pending_task = 0
  /\ events_in = <<>> /\ unsent_configs = "none"
  /\ g_pending_event = "none" /\ handling = "none"
  /\ taken = {} /\ answers = [t \in Task |-> 0] /\ successes = {}
  /\ told = FALSE /\ lost = {} /\ misnamed = FALSE

------------------------------------------------------------------------------
(* The daemon *)

Member == project # NoName

(* A broadcast that the client has no match rule for passes by. *)
Missed(m, mark) == lost' = IF Heard(m) THEN lost ELSE lost \cup {mark}

(* project_load_file and project_load_data_set, for a client that was      *)
(* launched to restore its data, then the reply of lashd_dbus_connect.     *)
HandleConnect ==
  /\ to_server # <<>> /\ Head(to_server) = Connect
  /\ \E n \in Name \ {other} :
       /\ project' = n
       /\ IF setup.restored
            THEN /\ task_iter < MaxTask
                 /\ task_iter' = task_iter + 1
                 /\ client_task' = task_iter'
                 /\ to_client' = to_client \o <<Load(task_iter'), Reply(n)>>
            ELSE /\ to_client' = Append(to_client, Reply(n))
                 /\ UNCHANGED <<task_iter, client_task>>
  /\ to_server' = Tail(to_server)
  /\ UNCHANGED <<setup, other, closed, changes, matched, library, history>>

(* project_save and project_save_clients, when no task is in progress. *)
ProjectSave ==
  /\ task_iter' = task_iter + 1
  /\ client_task' = task_iter'
  /\ Broadcast(Save(project, task_iter'))
  /\ Missed(Save(project, task_iter'), task_iter')
  /\ UNCHANGED <<project, closed>>

(* server_close_project and project_unload *)
ProjectClose ==
  /\ project' = NoName
  /\ closed' = TRUE
  /\ client_task' = 0
  /\ Broadcast(Quit(project))
  /\ Missed(Quit(project), 0)
  /\ UNCHANGED task_iter

CanSave == Member /\ client_task = 0 /\ task_iter < MaxTask

(* A controller asks for a save, or to close the project. *)
SaveRequested ==
  /\ CanSave
  /\ ProjectSave
  /\ UNCHANGED <<setup, other, changes, to_server, matched, library, taken,
                 answers, successes, told, misnamed>>

CloseRequested ==
  /\ Member
  /\ ProjectClose
  /\ UNCHANGED <<setup, other, changes, to_server, matched, library, taken,
                 answers, successes, told, misnamed>>

(* check_tasks: the report is about the task that the client has pending. *)
Expected(m) == Member /\ client_task # 0 /\ m.task = client_task

(* lashd_dbus_progress, and lashd_dbus_commit_data_set, which refuses a    *)
(* message without configs. Only 255 and 0 end a task (client.c).          *)
HandleReport ==
  /\ to_server # <<>> /\ Head(to_server).type \in {"Progress", "CommitDataSet"}
  /\ LET m == Head(to_server)
         final == IF m.type = "Progress" THEN m.percentage \in {0, 255}
                                         ELSE m.configs
     IN /\ client_task' = IF Expected(m) /\ final THEN 0 ELSE client_task
        /\ lost' = IF m.type = "CommitDataSet" /\ Expected(m) /\ ~final
                     THEN lost \cup {m.task} ELSE lost
  /\ to_server' = Tail(to_server)
  /\ UNCHANGED <<setup, project, other, task_iter, closed, changes, to_client,
                 matched, library, taken, answers, successes, told, misnamed>>

(* The server's table of methods has neither SaveProject nor CloseProject  *)
(* (their handlers are compiled out), so the call gets an error reply,     *)
(* which the library logs; an error reply to a call of lashd's is logged   *)
(* there.                                                                  *)
HandleRequest ==
  /\ to_server # <<>>
  /\ Head(to_server).type \in {"SaveProject", "CloseProject", "Error"}
  /\ to_server' = Tail(to_server)
  /\ UNCHANGED <<setup, daemon, to_client, matched, library, history>>

Change == changes < MaxRename /\ changes' = changes + 1

(* project_rename, which does not look if the name is taken. The client    *)
(* may miss the signal, or come to share its project's name.               *)
Rename(new) ==
  /\ Change
  /\ Member /\ new # project
  /\ project' = new
  /\ Broadcast(NameChanged(project, new))
  /\ misnamed' = (misnamed \/ ~Heard(NameChanged(project, new)) \/ new = other)
  /\ UNCHANGED <<setup, other, task_iter, client_task, closed, to_server,
                 matched, library, taken, answers, successes, told, lost>>

RenameOther(new) ==
  /\ Change
  /\ new # other
  /\ other' = new
  /\ Broadcast(NameChanged(other, new))
  /\ misnamed' = (misnamed \/ new = project)
  /\ UNCHANGED <<setup, project, task_iter, client_task, closed, to_server,
                 matched, library, taken, answers, successes, told, lost>>

(* The other project is saved, or closed. *)
SignalOther ==
  /\ Change
  /\ \/ /\ task_iter < MaxTask
        /\ task_iter' = task_iter + 1
        /\ Broadcast(Save(other, task_iter'))
     \/ /\ Broadcast(Quit(other))
        /\ UNCHANGED task_iter
  /\ UNCHANGED <<setup, project, other, client_task, closed, to_server,
                 matched, library, history>>

(* project_move, project_set_description and project_set_notes: a Control  *)
(* signal with the project's name and another string, which a client that  *)
(* is a controller as well takes for a new name.                           *)
ChangeProject ==
  /\ Change
  /\ Member
  /\ Broadcast(ProjectChanged(project, Text))
  /\ misnamed' = (misnamed \/ Heard(ProjectChanged(project, Text)))
  /\ UNCHANGED <<setup, project, other, task_iter, client_task, closed,
                 to_server, matched, library, taken, answers, successes, told,
                 lost>>

------------------------------------------------------------------------------
(* Opening the client *)

(* lash_dbus_service_connect sends its call and waits for the reply. *)
ClientOpen ==
  /\ phase = "closed"
  /\ phase' = "connecting"
  /\ Send(<<Connect>>)
  /\ UNCHANGED <<setup, daemon, to_client, matched, server_connected,
                 project_name, pending_task, queue, history>>

(* lash_dbus_service_connect_handler. What came before the reply stays in  *)
(* the queue of the connection.                                            *)
ConnectReply ==
  /\ phase = "connecting"
  /\ \E i \in DOMAIN to_client :
       /\ to_client[i].type = "Reply"
       /\ project_name' = to_client[i].name
       /\ to_client' = RemoveAt(to_client, i)
  /\ server_connected' = TRUE
  /\ phase' = "matching"
  /\ UNCHANGED <<setup, daemon, to_server, matched, pending_task, queue, history>>

(* The reply does not come in time; lash_client_open goes on all the same, *)
(* and the daemon may still take the client into a project.                *)
ConnectTimeout ==
  /\ phase = "connecting"
  /\ phase' = "matching"
  /\ misnamed' = TRUE
  /\ UNCHANGED <<setup, daemon, to_client, to_server, matched, server_connected,
                 project_name, pending_task, queue, taken, answers, successes,
                 told, lost>>

(* dbus_bus_add_match waits for the bus, rule by rule. After the last one  *)
(* the filter is set, and the application registers its callbacks.         *)
AddMatch ==
  /\ phase = "matching"
  /\ LET n == Cardinality(matched)
     IN IF n < Len(Rules)
          THEN matched' = matched \cup {Rules[n + 1]} /\ UNCHANGED phase
          ELSE phase' = "running" /\ UNCHANGED matched
  /\ UNCHANGED <<setup, daemon, to_client, to_server, server_connected,
                 project_name, pending_task, queue, history>>

------------------------------------------------------------------------------
(* Tasks in the library *)

(* A final answer to the task. *)
Answer(t, msgs, success) ==
  /\ Send(msgs)
  /\ answers' = [answers EXCEPT ![t] = @ + 1]
  /\ successes' = IF success THEN successes \cup {t} ELSE successes

NoAnswer == UNCHANGED <<to_server, answers, successes>>

(* lash_set_*_callback refuse a client that is not connected. *)
Registered(callback) == server_connected /\ callback \in setup.callbacks

CallbackFor ==
  [Save_File |-> "save", Save_Data_Set |-> "save_data_set",
   Restore_File |-> "load", Restore_Data_Set |-> "load_data_set"]

(* The application's callback, which may notify of its progress, and the   *)
(* report on what it returns: report_success_or_failure, or the data set.  *)
RunCallback(t, event) ==
  /\ \E notified \in {<<>>, <<Progress(t, 99)>>}, success \in BOOLEAN :
       IF event = "Save_Data_Set" /\ success
         THEN \E configs \in BOOLEAN :
                Answer(t, Append(notified, CommitDataSet(t, configs)), TRUE)
         ELSE Answer(t, Append(notified, Progress(t, IF success THEN 255 ELSE 0)),
                     success)
  /\ taken' = taken \cup {t}
  /\ UNCHANGED <<pending_task, queue, lost>>

(* An event for lash_get_event; a data set to save is begun at once. *)
AddEvent(t, event) ==
  /\ pending_task' = t
  /\ events_in' = Append(events_in, event)
  /\ unsent_configs' = IF event = "Save_Data_Set" THEN "empty" ELSE unsent_configs
  /\ NoAnswer
  /\ UNCHANGED <<g_pending_event, handling, taken, lost>>

(* Without the old API and without a callback: a save to a file is left    *)
(* pending, one of a data set is reported as failed, and a load is         *)
(* answered with an error that the daemon only logs.                       *)
NobodyToAsk(t, event) ==
  /\ CASE event = "Save_File" ->
            /\ pending_task' = t /\ lost' = lost \cup {t} /\ NoAnswer
       [] event = "Save_Data_Set" ->
            /\ Answer(t, <<Progress(t, 0)>>, FALSE)
            /\ UNCHANGED <<pending_task, lost>>
       [] OTHER ->
            /\ Send(<<Request("Error")>>) /\ lost' = lost \cup {t}
            /\ UNCHANGED <<pending_task, answers, successes>>
  /\ UNCHANGED <<queue, taken>>

(* lash_new_save_task, lash_new_save_data_set_task, lash_dbus_load and     *)
(* lash_dbus_load_data_set                                                 *)
NewTask(t, event) ==
  IF Registered(CallbackFor[event]) THEN RunCallback(t, event)
  ELSE IF setup.old_api THEN AddEvent(t, event)
  ELSE NobodyToAsk(t, event)

NoTask == NoAnswer /\ UNCHANGED <<pending_task, queue, taken, lost>>

SaveEvent == IF "DataSet" \in setup.flags THEN "Save_Data_Set" ELSE "Save_File"
LoadEvent == IF "File" \in setup.flags THEN "Restore_File" ELSE "Restore_Data_Set"

OwnProject(m) == project_name = m.name

(* lash_server_signal_handler, Save *)
HandleSave(m) ==
  /\ IF OwnProject(m) /\ pending_task = 0 THEN NewTask(m.task, SaveEvent) ELSE NoTask
  /\ UNCHANGED <<project_name, told>>

(* A client without a project heeds any Quit. *)
QuitConcerns(m) == project_name \in {m.name, NoName}

(* lash_server_signal_handler, Quit *)
HandleQuit(m) ==
  /\ IF QuitConcerns(m)
       THEN /\ told' = TRUE
            /\ events_in' = IF setup.old_api THEN Append(events_in, "Quit")
                                             ELSE events_in
       ELSE UNCHANGED <<told, events_in>>
  /\ NoAnswer
  /\ UNCHANGED <<project_name, pending_task, unsent_configs, g_pending_event,
                 handling, taken, lost>>

(* get_task_id bounces a task while another one is pending; the daemon     *)
(* logs the error.                                                         *)
HandleLoad(m) ==
  /\ IF pending_task = 0 THEN NewTask(m.task, LoadEvent)
     ELSE /\ Send(<<Request("Error")>>)
          /\ UNCHANGED <<answers, successes, pending_task, queue, taken, lost>>
  /\ UNCHANGED <<project_name, told>>

(* Faulty: any project's new name is taken for the client's. *)
FollowAny(name, m) == IF "new" \in DOMAIN m THEN m.new ELSE name

(* lash_project_name_changed_handler, and the reply to Connect *)
Follow(name, m) ==
  IF "new" \in DOMAIN m /\ name = m.old THEN m.new ELSE name

(* lash_dbus_signal_handler and the object path of the client: the next    *)
(* message of the connection. A reply that comes too late is dropped.      *)
Dispatch ==
  /\ phase = "running" /\ to_client # <<>>
  /\ LET m == Head(to_client)
     IN CASE m.type = "Save" -> HandleSave(m)
          [] m.type = "Quit" -> HandleQuit(m)
          [] m.type = "Load" -> HandleLoad(m)
          [] OTHER -> project_name' = Follow(project_name, m) /\ NoTask
                      /\ UNCHANGED told
  /\ to_client' = Tail(to_client)
  /\ UNCHANGED <<setup, daemon, matched, phase, server_connected, misnamed>>

------------------------------------------------------------------------------
(* The old API *)

Polling == setup.old_api /\ phase = "running" /\ server_connected /\ handling = "none"

TaskEvent == DOMAIN CallbackFor

(* lash_get_event, once nothing is left of the event before. *)
GetEvent ==
  /\ Polling /\ g_pending_event = "none"
  /\ events_in # <<>>
  /\ LET event == Head(events_in)
     IN IF event \in TaskEvent
          THEN /\ g_pending_event' = event
               /\ handling' = event
               /\ taken' = taken \cup {pending_task}
          ELSE UNCHANGED <<g_pending_event, handling, taken>>
  /\ events_in' = Tail(events_in)
  /\ UNCHANGED <<setup, daemon, to_client, to_server, matched, phase,
                 server_connected, project_name, pending_task, unsent_configs,
                 answers, successes, told, lost, misnamed>>

(* lash_send_config *)
SendConfig ==
  /\ handling = "Save_Data_Set" /\ unsent_configs = "empty"
  /\ unsent_configs' = "some"
  /\ UNCHANGED <<setup, daemon, to_client, to_server, matched, phase,
                 server_connected, project_name, pending_task, events_in,
                 g_pending_event, handling, history>>

(* lash_notify_progress; one report on its way is enough to see. *)
NotifyProgress ==
  /\ handling # "none" /\ pending_task # 0 /\ to_server = <<>>
  /\ Send(<<Progress(pending_task, 99)>>)
  /\ UNCHANGED <<setup, daemon, to_client, matched, library, history>>

(* Faulty: the library does not forget the event that was sent back. *)
KeepPendingEvent == g_pending_event' = g_pending_event

ForgetPendingEvent == g_pending_event' = "none"

(* Faulty: the task stays pending after its data set was sent. *)
StaysPending == UNCHANGED pending_task

TaskOver == pending_task' = 0

(* lash_send_event with an event of a task: _lash_task_done and            *)
(* _lash_save_data_set.                                                    *)
SendEvent(event) ==
  /\ ForgetPendingEvent
  /\ IF pending_task = 0 THEN NoAnswer /\ UNCHANGED <<pending_task, unsent_configs>>
     ELSE /\ TaskOver
          /\ IF event = "Save_Data_Set"
               THEN /\ unsent_configs' = "none"
                    /\ Answer(pending_task, <<CommitDataSet(pending_task,
                                unsent_configs = "some")>>, TRUE)
               ELSE /\ Answer(pending_task, <<Progress(pending_task, 255)>>, TRUE)
                    /\ UNCHANGED unsent_configs
  /\ UNCHANGED <<setup, daemon, to_client, matched, phase, server_connected,
                 project_name, events_in, taken, told, lost, misnamed>>

(* The application sends the event back, or is through with it without     *)
(* doing so; then lash_handle_pending_event sends it, the next time that   *)
(* lash_get_event or lash_get_pending_event_count is called.               *)
SendBack == handling # "none" /\ handling' = "none" /\ SendEvent(handling)

Forget ==
  /\ handling # "none"
  /\ handling' = "none"
  /\ UNCHANGED <<setup, daemon, to_client, to_server, matched, phase,
                 server_connected, project_name, pending_task, events_in,
                 unsent_configs, g_pending_event, history>>

HandlePendingEvent ==
  /\ Polling /\ g_pending_event # "none"
  /\ SendEvent(g_pending_event)
  /\ UNCHANGED handling

(* _lash_save and _lash_quit: the application asks for a save of its       *)
(* project, or to close it, in vain (HandleRequest). One request on its    *)
(* way is enough to see.                                                   *)
SendRequest ==
  /\ Polling /\ to_server = <<>>
  /\ \E type \in {"SaveProject", "CloseProject"} : Send(<<Request(type)>>)
  /\ UNCHANGED <<setup, daemon, to_client, matched, library, history>>

------------------------------------------------------------------------------

DaemonStep ==
  \/ HandleConnect \/ HandleReport \/ HandleRequest
  \/ SaveRequested \/ CloseRequested \/ ChangeProject \/ SignalOther
  \/ \E n \in Name : Rename(n) \/ RenameOther(n)

Opening == ClientOpen \/ ConnectReply \/ ConnectTimeout \/ AddMatch

OldAPI ==
  \/ GetEvent \/ SendConfig \/ NotifyProgress \/ SendBack \/ Forget
  \/ HandlePendingEvent \/ SendRequest

Next == DaemonStep \/ Opening \/ Dispatch \/ OldAPI

Spec == Init /\ [][Next]_vars

(* The daemon and the library process their messages, and an application   *)
(* that has connected dispatches, polls, and is through with an event      *)
(* after a while, whether or not it sends the event back.                  *)
Fairness ==
  /\ WF_vars(HandleConnect \/ HandleReport \/ HandleRequest)
  /\ WF_vars(ConnectReply \/ AddMatch)
  /\ WF_vars(Dispatch)
  /\ WF_vars(GetEvent \/ HandlePendingEvent)
  /\ WF_vars(SendBack \/ Forget)

FairSpec == Spec /\ Fairness

------------------------------------------------------------------------------
(* Properties *)

InTransit(q, t, types) ==
  \E i \in DOMAIN q : q[i].type \in types /\ q[i].task = t

FinalInTransit(t) ==
  \E i \in DOMAIN to_server :
    LET m == to_server[i] IN
      \/ m.type = "CommitDataSet" /\ m.task = t
      \/ m.type = "Progress" /\ m.task = t /\ m.percentage \in {0, 255}

(* As long as the daemon waits for the client's task, the request is on    *)
(* its way, or the library has the task pending and the application its    *)
(* event, or the answer is on its way: unless the client was not listening *)
(* or has nobody to ask, sent an empty data set, or may have lost track of *)
(* its project's name.                                                     *)
AskedTaskIsUnderway ==
  client_task # 0 =>
    \/ InTransit(to_client, client_task, {"Save", "Load"})
    \/ /\ pending_task = client_task
       /\ \/ g_pending_event # "none"
          \/ \E i \in DOMAIN events_in : events_in[i] \in TaskEvent
    \/ FinalInTransit(client_task)
    \/ client_task \in lost
    \/ misnamed

(* What a client that calls its project n calls it after message m.        *)
Called(n, m) == IF m.type = "Reply" THEN m.name ELSE Follow(n, m)

(* What it calls its project, n, and what it will call it after the first, *)
(* the second, ... of the messages s.                                      *)
Known(n, s) ==
  LET name[i \in 0..Len(s)] == IF i = 0 THEN n ELSE Called(name[i - 1], s[i])
  IN name

(* The client follows its project through all renames, in the order they   *)
(* happened: what it will call its project after the signals that are on   *)
(* their way is the project's name. (Save and Quit are matched by it.) It  *)
(* is told to quit only when that project was closed, and then it is,      *)
(* unless it did not listen.                                               *)
ClientKnowsItsProject ==
  ~misnamed =>
    /\ Member => project = Known(project_name, to_client)[Len(to_client)]
    /\ told => closed
    /\ closed => \/ told \/ 0 \in lost
                 \/ \E i \in DOMAIN to_client : to_client[i].type = "Quit"

(* Every task gets at most one final answer, and none is reported as done  *)
(* that the application was not told of, although the library answers for  *)
(* applications that do not.                                               *)
AnswersAreDeserved ==
  /\ \A t \in Task : answers[t] <= 1
  /\ successes \subseteq taken

(* A task that the daemon waits for ends, or one of the exceptions of      *)
(* AskedTaskIsUnderway holds.                                              *)
TasksEnd ==
  \A t \in Task :
    client_task = t ~> (client_task # t \/ t \in lost \/ misnamed)
=============================================================================
