# A verification of the LASH audio session handler

LASH keeps *sessions* of audio programs. The daemon `lashd` groups the running
clients into *projects*, asks them to save and restore their state, starts them
again when a project is opened, and puts their JACK and ALSA connections back.
Daemon, clients and controllers talk over D-Bus. This directory holds TLA+
models of the daemon, of the client library and of the two controllers that come with them, the TLC configurations that
check them on small instances, and proofs, checked by TLAPS, of theorems about
eight of the models: a project's session and tasks, the data sets, the client
library, the loader, the projects of the server, and the three managers of connections.

1. [The system](#1-the-system)
2. [Modules](#2-modules)
3. [Runs](#3-runs)
4. [Fairness](#4-fairness)
5. [Proofs](#5-proofs)
6. [Where the code departs from what it promises](#6-where-the-code-departs-from-what-it-promises)
7. [What is not modelled](#7-what-is-not-modelled)
8. [Plan](#8-plan)

## 1. The system

### Parts, their state and operations

| part | state it keeps | operations | what makes it correct |
|---|---|---|---|
| project sessions and tasks (`lashd/project.c`, `client.c`, `dbus_iface_server.c`, `dbus_iface_control.c`, `dbus_service.c`) | running and lost clients, task in progress, counters of client tasks, each client's pending task, pid, bus name, flags | connect, resume, save, load, report, lose, launch, close | one task at a time; the counters fit the clients; completion signals are true; only a dead process loses its client |
| client dependencies (`lashd/client_dependency.c`) | two lists per client | add, remove, read, check for circles | no circle among what the search can see; the search ends |
| data sets (`lashd/store.c`) | keys, unwritten configs; a directory with an info file and a file per key | open, set, write, read, rename | what was set is what is loaded; the index names no missing file |
| loader (`lashd/loader.c`) | list of children; a SIGCHLD handler works on it | fork, mark dead, bury, read output | every ended child is buried, and nobody else; no client is lost whose process lives |
| projects of the server (`lashd/server.c`, `project.c`) | lists of available and of loaded projects; directories | create, save, close, restore, rename, move, exit, start | directories are not shared; what was saved is found again; names clash only by the user's doing |
| JACK D-Bus manager (`lashd/jackdbus_mgr.c`, `jack_mgr_client.c`, `jack_patch.c`) | entries of JACK clients, known and unknown; waiting and backed-up patches; a copy of JACK's graph | JACK's signals, bind a LASH client, resume patches, backup, hand out patches | a restored client gets its connections back, whatever comes first; a save writes what is connected |
| ALSA manager (`lashd/alsa_mgr.c`, `alsa_client.c`, `alsa_patch.c`, `alsa_fport.c`) | entries of clients with patches in three states; ports of nobody | an event thread and the main thread under one lock: ports come and go, connections change, backup, add, remove, hand out patches | the same |
| JACK manager without D-Bus (`lashd/jack_mgr.c`, `jack_mgr_client.c`, `jack_patch.c`, `jack_fport.c`; a build option, the D-Bus one is the default) | entries of clients with current, waiting and backed-up patches; ports of nobody | JACK's callbacks write notices into a socket; a thread reads them under the lock the main thread takes to add, remove and save clients | the same |
| client library (`liblash/`) | pending task, event and config queues, project name, callbacks | D-Bus signals and calls in, callbacks or events out, answers back | every task is answered once, and only by right; the client knows its project |
| controllers (`clients/shell/`, `clients/panel/`, the controller's side of `liblash/lash.c`) | a list of projects and their clients by name; selection (shell), pages and dialogs (panel) | signals in; rename, move, save, close, restore by the user | the list becomes lashd's; a command reaches the project the user saw; a widget shows its own project |
| D-Bus layer (`dbus/`) | tables of methods; pending calls | dispatch a call, send, reply | marshalling |

### How they interact

`server_main` is one loop on one thread: it dispatches one bus message, then
calls `loader_run` twice, which reads the children's output and buries dead
children. A D-Bus handler therefore is atomic towards other handlers. It is
not atomic towards the SIGCHLD handler, which marks children dead in the middle
of anything, nor towards the ALSA event thread, nor, of course, towards the
processes: clients, JACK, the ALSA sequencer and the bus, which answer
calls and send signals that lie in lashd's queue while the world goes on.

A session: a program calls `Connect`; `server_add_client` resumes a lost client
with its pid or makes a new one in the project that has no document yet. A
controller asks for a save: `project_save` sends `Save` to all
clients with internal state, who answer with `Progress` or `CommitDataSet`;
with the last answer `project_clients_save_complete` writes the document,
with the connections that the JACK and ALSA managers hand out. When a project is
restored its clients are *lost*; those without dependencies are launched by the
loader, the others when a client they depend on has been restored. When a client
connects, its patches go to the managers, which connect the ports as they
appear. A process that ends is noticed twice: by the bus (`NameOwnerChanged`)
and by SIGCHLD, if lashd launched it, in either order; either makes the client a lost one.

### What is hard about it

* Two notices of one death in either order, pids and ALSA numbers that are
  used again, relaunches under the same client, saves and loads over all of it.
* Signals that are older than answers: JACK's queue against `GetGraph`, the
  sequencer's announcements against the copies lashd keeps.
* Counters (`client_tasks_pending`, `client_tasks_progress`) kept by difference
  while clients come and go.
* Failed writes and crashes between the files of a data set.
* Signals matched by a project name that changes by signals of their own.
* Calls that carry a name, from a user who has not seen the latest signals yet.
* Notices that carry a port's number, read when the number is another port's.

## 2. Modules

Each module models one part; its header says what it abstracts from. Names are
the code's wherever TLA+ allows it. An operator that nothing uses, named as such
in the header, is a *faulty variant* of the operator below it: put in its
place, it makes a property fail, which shows that the property looks at the code.

| module | models | abstract specification |
|---|---|---|
| `ProjectTasks` | one project: sessions, tasks, losses, launches | `TaskLifecycle` |
| `ClientDependency` | dependencies and the search for circles | |
| `Store` | one client's data set, memory and files | `DataSet` |
| `Loader` | forks, SIGCHLD, burial | |
| `ServerProjects` | all projects: names, lists, directories | |
| `JackdbusManager` | the JACK D-Bus manager with one project | |
| `AlsaManager` | the ALSA manager with one project | |
| `LiblashSession` | the client library between application and daemon | |
| `JackManager` | the JACK manager without D-Bus with one project | |
| `ControlView` | the shell or the panel with lashd's projects | |
| `MC...` | instances for TLC: the constants and symmetry of the runs | |
| `Lists` | what is left of a list when entries are deleted (`list_del`) | |
| `ProjectTasksProofs`, `StoreProofs`, `LiblashSessionProofs`, `LoaderProofs`, `ServerProjectsProofs`, `JackManagerProofs`, `AlsaManagerProofs`, `JackdbusManagerProofs` | theorems | |

The parts overlap on purpose: each module has the handlers of the others
as far as they change its state. `ProjectTasks` knows that a client has a data
set or not, `Store` knows what is in it; `ServerProjects` lets a task end at
will, `ProjectTasks` says when; the managers have a project with a document of
patches, which `ServerProjects` reduces to a name; `ControlView` reduces `ServerProjects`
to the projects that are loaded and adds who hears of them.

**ProjectTasks.** `clients`, `lost_clients`, `task_type`, `client_tasks_*`,
`pending_task`, `client_task` (the pending event), `task_progress`, `pid`,
`dbus_name`, `dependencies`, `unsatisfied_deps` are the fields of `project_t` and
`struct lash_client`; `proc`, `onBus`, `child` are the world. `Connect` (new,
to another project, resumed with a data set, with nothing to send, or
stateless), `Progress`, `CommitDataSet`, `BusNotice`, `Bury`, the save that asks
clients and the one that asks nobody, `ProjectOpen`, `ProjectClose`,
`LostClientLaunch`, `ModifyDependency` are the handlers; a handler that fails
its first checks does nothing and is not an action. `asked` is what a process
was told; `steady`, `waiting`, `restored` and `announced` are history. A pid
and a bus name are one to one here, and a pid is not used again while lashd has
an entry for it (`Loader` does away with that); a process connects once.
Dependencies follow a ranking (`RankedEdges`), so that no request is circular.

**TaskLifecycle.** A project is closed or open, has at most one task of n client
tasks, which ends with the n-th completion and is then announced once.

**ClientDependency.** A client is running, lost or gone; `Search` is
`client_dependency_find_circular`, a recursive function; lashd is `dead` when
it does not end. `Reopen` reads the project client by client.

**Store.** The steps of `store_write` (each config file, then the info file) are
actions of their own, between which lashd may be killed; each write may fail
and leave the old file, an untyped one or a torn one. Everything else of the daemon is
atomic. A value is whole, untyped or torn. The client's view of its document is
reduced to whether it has the client and the saved flag. A key name torn at the end of
an info file is `TornName`. A message with a data set is read config by config (`message`, `phase = "set"`):
a step for `store_set_config` of each, as an unreadable one leaves those before it.
`DataSet`: a map from keys to values that only commits change, while nothing has failed.

**LiblashSession.** The bus is two FIFO queues, one each way; match rules are those that `lash_client_open` adds, in its order, one call at a
time. The daemon is reduced to the one client. The library's old API (events,
configs, answers on behalf of an application) and the new one (callbacks) are
both modelled. What an application of the old API asks of the server (`SendRequest`: `SaveProject`,
`CloseProject`) is refused, because the server's table of methods has neither (`HandleRequest`):
saves and closings are asked for by controllers. `lost` collects the tasks that nobody can answer (a signal sent
before its match rule; no callback; an empty data set), `misnamed` says that the
client may have lost its project's name: both are what the code does. What the client
will call its project when it has handled what is on its way is a recursive function of the queue
(`Known`), so that a theorem may be proved about it.

**Loader.** The main thread's program counter stops wherever the handler can see
a difference: before the fork, after it, before the pid is stored, between the
entries of a burial. Processes are pid and number of birth, so that pids can be
used again; SIGCHLD signals merge; Connect messages and bus notices wait in lashd's
queue, beyond the end of their process. A failed fork leaves an entry with pid 0
and file descriptor 0: lashd then reads its own standard input (`pc = "stdin"`).

**ServerProjects.** Names are a typed name with the numbers lashd appended (`New
Project 2`), directories hold an info file with a name, no info file, or do not
exist. `Exit` and `Crash` end lashd; `Start` reads the directories, as many as there are
objects for. A handler makes a new `World` of the one it finds, and a loop over a list makes it project by
project (`InTurn`). Whatever
dereferences a project without a document makes lashd fail.

**JackdbusManager.** JACK (clients with one port each, wires, a server that starts
and stops) is external. Its signals wait in a queue, calls to it are
answered at once, and its own connecting is a step of its own. What the code does with
freed entries (`lashd_jackdbus_mgr_clear`) is a choice between going on and failing.

**AlsaManager.** One step for each time a thread holds the manager's lock. The
sequencer numbers programs and uses numbers again; its announcements wait in a
queue. A patch names its ends by uuid or by number. The interval of backups is a choice
after each event. `due` is what a loaded document has at both its ends and has not
been given up, `unread` the clients with connections that were not announced.

**JackManager.** One step for each time a thread holds the manager's lock. JACK is
external: names of programs, ports by number (the lowest free one), wires. Notices
wait in the socket; when one is read, lashd sees what JACK says of that number *then*.
Whenever the graph was reordered the copy
of each client's connections is read from JACK anew. `jack_patch_unset` is read as it is written: a uuid that no entry
has is taken for the last entry's (`Holder`). A patch of a document that is spent on such a
connection (`Misspent`) is no longer `due`; `unread` are the clients added since the graph was last asked for.

**ControlView.** lashd's loaded projects with names, directories and documents,
the signals on their way to a controller (`wire`) and its calls on the way back
(`calls`), both queues. lashd serves a call in one step; other controllers
(`OthersAsk`) and clients that come and go have theirs in between. The controller is the shell or the panel: `view` is its list by name, in
the order of its list, with the selection of the shell or the pages of the
panel. Both dispatch as many signals as there are when they look (`AfterDispatch`):
the shell after each line, the panel in its idle callback, in the dialog's main
loop too, where it may free the entry the dialog is about; the model goes no further then.
`missed` are projects loaded before the controller registered, `owners` the
projects that have had a name, `confused` says that lashd announced a new name of one project
by the name of another one.

## 3. Runs

Times are those of four workers; all runs explore their whole state space.

| run | instance | states | shows |
|---|---|---|---|
| `session` | 2 clients (one with internal state; it may be a dependency), 2 pids, 2 tasks | 1.8 M | running clients have distinct processes; dependents are launched after what they depend on; only a dead process loses its client; `ProjectTasks` implements `TaskLifecycle` |
| `reports` | both clients have internal state, one by file, one by data set; readings of 120 and 255 | 2.1 M | types (no reading wraps); pending counts fit the clients; signals are true |
| `live` | 2 clients that save to files, 1 task, fair | 0.5 M | dead clients are lost; saves end |
| `dependencies` | 3 clients, 2 dependencies each | 12 k | the search is right about what it can see, and only what it cannot see makes circles; reading a project breaks them |
| `store` | 2 keys, 2 values, 2 data sets, 2 faults | 25 k | the index names no missing file; a client marked saved can load; `Store` implements `DataSet` |
| `liblash` | 6 kinds of clients, 3 names, 2 tasks, 2 renames, fair | 0.5 M | an asked task is under way; the client knows its project, and is told to quit only when it is closed; answers are deserved; tasks end |
| `loader` | 2 clients (one in a terminal), 2 pids, 3 processes, 2 entries, fair | 1.0 M | only the ended are lost; a launched client's place is not taken; ended children are buried |
| `projects` | 3 projects, 2 names, 1 directory elsewhere | 1.0 M | directories are distinct; what was saved is on disk and what is offered can be loaded; only users make names clash |
| `jackdbus` | 2 programs, 1 wire, 1 fault, 1 waiting signal | 3.0 M | clients are bound; nothing waits that could be connected; patches are kept; unmodified means saved; saves write the connections |
| `alsa` | 2 programs (one with two ports), 1 connection, 2 numbers under a symmetry (no number means anything), 2 ends, 1 waiting announcement | 3.0 M | connections are restored; to the right programs; saves write them |
| `jack` | 2 programs (one with two ports), 1 connection, 2 names, 3 numbers of ports, 1 end, 1 waiting notice | 1.5 M | the same three |
| `control` | shell and panel, 2 projects, 2 names, 1 client, 1 directory elsewhere, 4 events of others, 1 command, fair | 0.7 M | the list becomes lashd's; commands reach a project that had the name; pages are the list's; the prompt's project gets the command; the panel catches up |

**Bounds.** Two clients and two processes are enough for one client to be
mistaken for the other, for a pid to pass from one to the other and for a count to be one
off; two tasks (`MaxTask`) for a report to come from an earlier one; three
processes on two pids for a pid to be used again while the other client lives.
Three clients are the least with a chain through one in between. Two configs and
two faults let a write fail after one that succeeded, and a crash follow a
failed write. Three projects and two names make lashd run out of its own names.
A queue of one (`MaxQueue`) lets every signal be older than the state lashd asks
for: a further step of JACK or of the sequencer would have to wait, but the calls
lashd makes in the meantime do not; two waiting signals would add orders of
handling which are those of the queue. Announcements of lashd's own connecting
are not bounded. `MaxProgress`, `MaxRename`, `MaxNumber`, `MaxLength`, `MaxEntries`,
`MaxDeps`, `MaxCommits` and `MaxFaults` end counters that the code leaves open.
`jack` has a third port number, so that a freed number is not the only one, and two
names under a symmetry, because no name means anything; one end of a program (`MaxEnds`)
is what makes a number, a name and a relaunch meet. In `control` four events
(`MaxEvents`) let both projects be loaded, one be renamed or closed and a name come
back, beside a command (`MaxCommands`) that is on its way meanwhile; three entries
(`MaxAdded`) let a project leave the panel's list and come back, and its page number
be wrong. The shell's empty lines are not bounded. Its documents are one of each kind up to renaming.

**Exceptions.** A property that would fail for a cause the code does have
names it: `steady` (no client lost during the task), `missed` (a child whose end
was put down to another entry; a change marked during a task that unmarks it),
`lost` and `misnamed`, `Orphan`, `rebound`, `GivenUp`, `Misspent`, `unread`, `confused`, `shifted`. Each such cause is in
section 6. An exception is a state of the model, set by the very step that has the cause, and never a
condition on what the environment may do. Where a hazard is one of these causes, its entry in
`PROJECT.json` says so: the property then holds everything else, and not the cause itself.

**Deadlock** is checked for `ProjectTasks`, `Store`, `Loader` and `ServerProjects`.
The other systems may stop: a lashd that has failed or hangs in a search (`ClientDependency`)
is followed no further, the
bounds on ends and queues can leave two dead programs with nobody to start them,
and a client that has left its session or a user out of commands has nothing to do.

`TypeOK` is checked by a run for `ProjectTasks` and proved
for `ProjectTasks`, `Loader`, `Store` and `ServerProjects`, and for `LiblashSession` as a part of the inductive
invariant; in the other modules it documents the variables, and their stronger properties are what the runs check.

## 4. Fairness

* `ProjectTasks` (`live`): weak fairness of handling a bus notice (`server_main`
  dispatches what is in the queue) and of a client's answers: the manual
  requires a client to answer `LASH_Save_File` and `LASH_Save_Data_Set`. Nothing
  is assumed of burials, launches or users.
* `LiblashSession`: both sides process what they have received, an
  application dispatches (or polls, with the old API) and is through with an event
  some time, whether it sends it back or not.
* `Loader`: the main loop goes on, and a pending signal is delivered. Nobody
  has to type into lashd's terminal, start a program or end one.
* `ControlView`: lashd's main loop serves the calls it has received (`Serve`), and the panel's
  timer (one second, `panel.c`) calls `idle_cb` (`Idle`). Nothing is assumed of
  the shell, which looks at its signals when its user types a line, or of any user.

The other modules state safety only; without fairness a run of theirs may stop at any point.

## 5. Proofs

All theorems hold for every value of the constants that satisfies the modules'
assumptions, which TLC evaluates in each run:

* `ProjectTasks`: finitely many clients, flags of clients that exist, a pid 0 that
  is nobody's (`ConstantAssumption`), dependencies that controllers add between
  clients (`EdgesOK`, of which the proofs never use the ranking);
* `Loader`: `LoaderAssumption`, of the same kind;
* `Store`: messages are lists of configs, the bounds are numbers, and no value, index
  or key is taken for the absence of one (`BatchOK`, `BoundsOK`, `NothingOK`, `TornNameOK`);
* `LiblashSession`: what a client may be (`SetupOK`), the bounds, and that no project has the
  empty name (`NamesOK`);
* `ServerProjects`: finitely many objects and names, and that a name is neither a
  number, nor a directory elsewhere, nor a sign of absence (`ProjectsAssumption`). Names
  are finite because file names are of bounded length;
* `JackManager`: clients, programs and their ports fit each other (`JackAssumption`), JACK has finitely many
  ports (`PortsAssumption`: its table has a fixed size), and what a document says of clients is patches (`DocumentAssumption`);
* `AlsaManager`: clients, programs and their ports fit each other, and 0 is no ALSA id (`AlsaAssumption`); what a document says
  of clients is patches (`DocumentAssumption`). Nothing is assumed to be finite;
* `JackdbusManager`: LASH clients and others have different names, wires have two ends (`JackAssumption`), JACK has finitely many
  clients, and no graph of them is taken for the absence of one (`GraphAssumption`), and a client's patches in a document are of its
  own connections (`DocumentAssumption`).

A loop or a list in these modules is a recursive *function*. What it computes is
proved by the least number (`LeastNumber`): a set of numbers at which
a statement fails has a least element, and there is none. So it is with `Keeping` of `Lists`
(`Kept`), which stands for the deletions from a list: the provers know no definition of `SelectSeq`.
Each module of theorems begins with the few facts about lists and numbers that it needs.

**ProjectTasksProofs.** The inductive invariant `Inv` is `TypeOK`,
`TaskFieldsAgree`, `NewbornsAreIdle`, `RunningClientsHaveProcesses` and
`AskedTaskHasEvent`. They need each other: the unsigned reading stays a natural
number because a report is accepted only with a reading above the client's
last, which is below 100 (`AskedTaskHasEvent`); that a report is about the
pending task needs distinct processes (`RunningClientsHaveProcesses`); and a
project that gets its first client has no task (`NewbornsAreIdle`), without which a
new project would not be a new life cycle. There is one lemma for each handler and
conjunct it can disturb. Theorems:

| theorem | states |
|---|---|
| `TypeCorrect` | the types; in particular no reading wraps |
| `TaskFieldsCorrect` | a save in progress has a pending client task, an idle project none |
| `ProcessesCorrect` | running clients have processes of their own, alive or with a notice to come |
| `AskedTasksCorrect` | an accepted report has an event to complete |
| `ProgressGrows` | the project's reading never falls while a task lasts |
| `DeathAlone` | only the end of its own process makes a running client a lost one |
| `TasksImplementLifecycle` | the refinement of `TaskLifecycle`, step by step |

The second part of the module carries `ProjectTasks` on, from `Inv`.

| theorem | states |
|---|---|
| `LaunchOrder` | a client that waits for others is not launched before each of them was resumed |
| `PendingTasksCounted` | while no client is lost during a task, `client_tasks_pending` is the number of clients whose task is pending |
| `SignalsAreTrue` | a task that no death disturbed is announced as completed only when every client asked has reported |

*LaunchOrder.* `unsatisfied_deps` is what is left of the dependencies of a
client that waits: each dependency is on it or restored, and a pid comes with the
empty list (`WaitingInv`); a project that is not loaded has no pids (`UnloadedHaveNoPid`),
so that opening it starts from there. *PendingTasksCounted.* The count is kept by
difference, so the proof needs at every decrement that the client was counted:
no task has no event (`NoTaskNoEvent`), and a lost client that resumes has no task of
a save, and none left over of a load (`LostHaveNoTask`). The exception is `steady`:
the loss of a client is not discounted. *SignalsAreTrue* is the action property; it
follows from the count: the step that announces counts one pending client, which
is the one that reports.

**LoaderProofs.** What the theorems say of entries, clients and processes found by
pid is not inductive, because the handler comes between any two steps. `IInv`
adds to `TypeOK` that births are counted, that an entry with a pid names the process
it was made for, that while `loader_execute` works its entry is the last one and
has no pid, that a client's pid is that of its process, and that notices are of
ended processes. Births only grow, so an ended process stays ended (`EndedStays`),
which carries every conjunct over the steps of the kernel. Theorems:
`LoaderTypeCorrect`, `MarkedAreEnded` (an entry is marked dead only when its process
has ended), `LostHaveEnded` (only ended processes, or reused pids of dead children,
lose clients) and `PlacesAreKept` (a launched client's place is its own while it lives).

**StoreProofs.** `StoreInv` is `TypeOK`, `WritingInv` (where the steps of
a write are, and what they have left), `ContentInv` (what is in a file was given; a key has a file or an
unwritten config), `IndexedKeysHaveFiles`, and `FaultlessInv` (without faults memory and disk
agree between messages, and `LASH_Saved` means that something is on disk). `IndexedKeysHaveFiles`
is not inductive: the info file is written from the list of keys in memory, each of
which must have its file by then (`ContentInv` with an empty list of configs, `WritingInv`).

| theorem | states |
|---|---|
| `StoreIsWellFormed` | the types, at every step of every write |
| `IndexIsComplete` | the index on disk names no key without a file, whatever fails or is killed |
| `SavedClientsLoad` | while nothing has failed, what is marked saved is on disk |
| `StoreImplementsDataSet` | the refinement: as long as nothing has failed, only a commit changes what the data set holds, and what a load answers is what was committed |

The refinement's proof has one lemma for each step of a write: setting a config
changes the map that the unwritten configs and the files have together, writing one moves it from the list to
its file, and the map stays; the info file adds nothing.

**LiblashSessionProofs.** `LibraryInv` is `TypeOK` with `TaskInv` (a task is requested
once, pending or answered), `EventInv` (the one event of the pending task is in the queue or
with the application) and `ConnectInv` (what can be on its way before the client is matched).
`SessionInv` adds the daemon: `NameInv` (what the client will call its project), `SameTaskInv` (the
daemon's task is the library's) and `AskedTaskIsUnderway` itself. They are proved
together, because a task is under way only if the signal that carries it is
matched by name, and a name stays true only through the signals behind it in the queue.

| theorem | states |
|---|---|
| `TasksAnsweredOnce` | a task has one final answer, and is not reported done before the application was told of it |
| `TaskIsUnderway` | a task the daemon waits for is on its way, in a queue, with the application or answered, but for the causes in `lost` |
| `NameIsFollowed` | when it has handled what is on its way, the client calls its project by its name, unless `misnamed` |

**ServerProjectsProofs.** The invariant `WorldOK` is of the record that handlers
work on, so that it can be carried through the steps of one handler and the rounds of its loop:
the types; every project that lashd knows, but for an `Orphan`, has a directory of its own that *exists*
(`PlacesAreDistinct`); a document is in the project's directory, and a listed project without one is in its
first save (`DocumentsAreOnDisk`). That directories exist is the strengthening: `project_move` and
`server_create_new_project_name` look at the disk, not at the other projects, and
what they find free is free of projects only because each has something there.
Unloading an orphan may clear a directory, but none that a placed project has. One lemma (`Framed`) says what
every handler has to show of the project it changes and of the ones beside it; the loops of
`server_save_all_projects`, `server_close_all_projects` and `server_stop` go by `RoundsKeep`.

| theorem | states |
|---|---|
| `ProjectsTypeOK` | the types |
| `DirectoriesDistinct` | no project is listed twice, no two share a directory |
| `SavedOnDisk` | what was saved is in the project's directory, as it was last saved |
| `NamesClash` | only a user who renames a loaded project gives it another one's name |

`NamesClash` is an action property: a step either loads no project, or one whose name, chosen by
`server_project_restore`, no loaded project has (`NewNameIsFree`, `FoundByName`).

**JackManagerProofs.** That a connection is made when all notices are read says nothing of
the notices on their way; the invariant `JackInv` does. `ProgramsInv` is of programs: names and ports are of
live programs, no two share a name; each entry is of a running client that told its name, and has that name
while its process lives; no client has two entries. On it rests `DueOK`, for each connection that is `due`:

* `Waits`: as long as the client at an end has not told its name, its patches in the project have the connection;
* `KnownPorts`: as long as it has not, each port it has is a foreign port of lashd's, or a registration is on its way
  that no later notice undoes: the number in a notice may have been free in between, and be this port's again;
* `Spent`: an entry no longer waits for a connection only if its port is there, and the connection is made or the other end waits for it;
* `Made`: two ends whose ports are there are connected, or one of them waits, with a notice of its port to come.

A step that connects takes from `due` what it gives up, and what it spends on the connection that is meant is made (`SpentIsMade`).
`CopiesOK` is for the save: unless a reorder notice is on its way, the copy of each client's connections is what JACK has.

| theorem | states |
|---|---|
| `JackTypeCorrect` | the types |
| `ConnectionsAreRestored` | when the notices are read, a connection that is due and whose ends are there is made |
| `RightProgramsAreConnected` | what lashd connects is named by a waiting patch, whose uuids mean the programs that are those clients |
| `ConnectionsAreSaved` | a save with the notices read writes each client's connections, by uuid where the other end is a client |

**AlsaManagerProofs.** The argument is that of `JackManagerProofs`, with what is different in the sequencer and in `alsa_mgr.c`:

* a connection's ends are ids and port numbers, so a port is known when its address is (`KnownPort`): it is among the foreign ports and no
  exit of it is on the way, or its start is announced behind every exit. An id that is used again brings old announcements of the same addresses with it;
* an end also lets go of a patch whose other client is unknown. If it was there itself by then, nothing is lost, because the other end
  still waits for the connection when it comes: so `Spent` asks for the port of the end that let go, and that the connection is made
  or the other end waits for it while it lives (`LeftIsMade`). If it was not, the code does lose the
  connection, which is no longer `due` (`OwnEndMissing`);
* a program's end cuts its connections and announces the ports only. `CopiesOK` holds then because `unread` has the clients at the
  other ends, whose copies nothing tells lashd to read again.

| theorem | states |
|---|---|
| `AlsaTypeCorrect` | the types |
| `ConnectionsAreRestored` | when the announcements are heard, a connection that is due and whose ends are there is made |
| `RightProgramsAreConnected` | what lashd connects is named by a waiting patch, whose uuids mean the programs that are those clients, whoever has their former ids |
| `ConnectionsAreSaved` | a save with the announcements heard writes each client's connections, but for clients in `unread` |

**JackdbusManagerProofs.** The same is asked here of a manager that learns of JACK twice, by signals that wait and
by answers that are newer. The invariants, each on top of those before it:

* `TypeInv`, and `EntryInv`: but for clients that an entry outlived (`rebound`), a client has one entry at most, which `lash_client`
  knows of, and every patch it was loaded or saved with is in one of the two lists;
* `NumberInv`: JACK's numbers and process numbers, wherever they are kept (entries, signals, the graph), are those that were given,
  so that a number that is found is its owner's; a wire's signal is behind those of its ends, and behind each
  stop (`WiresAreNew`, `StopsAreFirst`);
* `BoundInv`: the JACK client of a LASH client's process is bound to it, or has its appearance still to be heard of; if lashd
  has not met the LASH client yet, it is among the unknown ones or will be;
* `MarkInv`: a wire of a bound client is in the document or the mark is set, or its signal is on the way; during a save, it is in
  the graph that the save asked for, or its signal is on the way;
* `ArmedInv`: a patch that waits at both its ends has been asked for, or the signal of a port of it is on the way, or that of the wire; and if
  the wire is there, it is the latter. The second part is what a refused call rests on: JACK refuses because the wire is there, and then says so.

Of a signal that is handled it has to be shown that it hides no other one: the binding that it brings about asks for the
graph, so a wire that is older is found there (`BindingArms`), and one that is younger is announced behind it.

| theorem | states |
|---|---|
| `PatchesStayKept` | what a client was loaded or last saved with is with it or its entry |
| `RunningClientsStayBound` | when all is heard, the JACK client of a running client's process is bound to it |
| `PatchesResume` | when all is heard and answered, no patch waits at both its ends |
| `UnmodifiedIsSaved` | a project without the mark has the wires of its clients in its document |
| `ConnectionsAreSaved` | an undisturbed save writes for each bound client the wires it has |

`TaskFieldsCorrect`, `AskedTasksCorrect`, `ProgressGrows`, `LoaderTypeCorrect`, `MarkedAreEnded`, `StoreIsWellFormed`,
`ProjectsTypeOK`, `JackTypeCorrect` and `AlsaTypeCorrect` state what the other proofs rest on: no run states these formulas for itself, since a
property of the same run would notice their violation, or they say less than it.

**Model-checked only:** liveness (`DeadClientsAreLost`, `SavesEnd`, `TasksEnd`,
`EndedChildrenAreBuried`, `PanelCatchesUp`), which is out of the prover's reach under fairness;
the dependency search and `ControlView`, whose proofs are planned.

## 6. Where the code departs from what it promises

Two formulas state what a comment or a document says and the code does not do.
No run checks them; added to the configuration of their module, each has a
short counterexample:

* `Store!SuccessIsDurable`: `store_write_configs` drops each config once its own file is
  written; if the info file then fails, the next `store_write` has nothing left to write
  and reports success without an index (store.c:324, 405; the comment at 423).
* `AlsaManager!LostClientsKeepBackups`: `alsa_mgr_remove_client` hands over the backup by `list_splice`
  and frees the entry with the list still linked to it; lashd fails when a client is
  lost that has a backup (alsa_mgr.c:262; project.h:209, NEWS:79). `jack_mgr.c:281` does
  the same (`JackManager!LosesBackup`).

The models contain these as well; properties except them:

* A client that dies while it is asked to save is not discounted: the save never
  ends and every later one is refused (project.c:1120). `pending_task` left on it
  makes a later save ask nobody and announce itself saved (project.c:478).
* A relaunched stateless client completes a task of the save in progress, which ends
  early, announced as a load (client.c:440).
* A client whose data set is empty or unreadable never completes its load (project.c:275).
* The circularity check neither follows lost clients nor compares a client with itself;
  a circle it cannot see makes a later search endless (client_dependency.c:46).
* A client that asks for a save of its project or to close it (`LASH_Save` and `LASH_Quit` sent by an application, event.c:254, 269)
  gets an error, which liblash only logs: the server's methods (dbus_iface_server.c:566) have neither `SaveProject`
  nor `CloseProject`, and the handlers are compiled out (278).
* A child that ends before its pid is stored is never buried; a failed fork leaves
  lashd reading its standard input (loader.c:516, 478).
* Who gets the pid of a launched process that died before connecting resumes as its client (server.c:483).
* A project closed during its first save is offered for loading, and loading it
  dereferences NULL (project.c:851); `move_on_close` is never reset; a loaded
  project that was renamed because its name was taken loses its modified mark.
* The entry of a LASH client outlives its JACK client and is found first afterwards: the save
  writes none of its connections (jackdbus_mgr.c:566, 1305). `lashd_jackdbus_mgr_clear` leaves freed entries
  in its list (jackdbus_mgr.c:423); a waiting patch with a uuid is compared by a name it has not (jack_patch.c:232).
* A connection that changes during a save is unmarked by its end (jack_mgr_client.c:146). A client that is bound
  during a save when its JACK client is gone already makes lashd give up its copy of the graph (jackdbus_mgr.c:1180, 1256):
  the save then writes nobody's connections (1302) and the project counts as saved.
* ALSA: the connections of a client that adds itself late are read only after the next announcement;
  a patch is dropped at one end before the other end is known; a port is taken for
  a dead client's whose number the program has got; a relaunched client is refused its id
  (`Can only set ALSA client ID once`, dbus_iface_server.c:205), because its loss does not reset it.
* JACK without D-Bus: `jack_patch_unset` tests the list's head for an entry it did not find; a
  patch to a client that is not known yet is tried with the last entry of the
  list and spent if that one has a port of the name (jack_patch.c:322). A port may also be taken for that of a dead client whose name its program has got.
* A restored project whose name is taken is renamed before it is announced, and the rename is announced by
  the old name: controllers rename the other project (server.c:536).
* The panel numbers its pages when it adds them; after one before the last was
  removed, the next removal takes another's page or none (panel.c:158). The dialog for a directory may
  outlive its project (panel `project.c`:75).
* The shell prompts before it looks at the signals that have come: the line is carried out on
  the project that is selected then (lash_control.c:566).

## 7. What is not modelled

`PROJECT.json` lists every part with its state. In short: the D-Bus object layer, configs of the old API,
argument parsing, the application database, logging, `/proc`, the crash handler, the Python binding, the
example programs and the build are pure functions, input and output or presentation.
Within the modelled parts: how a child's output is split into lines; notes and
descriptions of projects; D-Bus errors that lashd only logs; `server_stop`, which
holds a manager's lock while it joins the thread that may wait for it
(server.c:141-148): nothing in the code excludes that, so there is no property to state; the ALSA manager when ALSA is missing; the deletion of single ports and
an overrun of the sequencer's queue; the version number of JACK's graph; JACK's
shutdown and the matching of port names by regular expressions in `jack_mgr.c`; what controllers only
print (progress, descriptions, names of clients);
a process that calls `Connect` twice.

## 8. Plan

1. `ChildOutput` (loader.c:293-385): lines cut across reads, as a function
   checked against a reference definition; the application database and the
   configs of liblash in the same way.
2. The D-Bus layer's dispatch and replies (`dbus/method.c`).
3. The end of lashd: `server_stop` with the threads of both managers.
4. Proofs, in this order: `CommandsReachTheirProject` for `ControlView`; the search of `ClientDependency`, by the least number.
