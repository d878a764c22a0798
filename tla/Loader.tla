------------------------------- MODULE Loader -------------------------------
(***************************************************************************)
(* The loader of lashd (lashd/loader.c): it forks the programs of lost     *)
(* clients, keeps an entry for each child in g_childs_list, marks entries  *)
(* dead in its SIGCHLD handler and buries them in the main loop, where the *)
(* client with the dead child's pid is disconnected.                       *)
(*                                                                         *)
(* The handler interrupts the main thread between any two of its steps:    *)
(* while an entry has no pid yet, in the middle of a burial.  The kernel,  *)
(* which reuses pids and merges pending signals, and the bus, which keeps  *)
(* the messages of a process that has ended, are external.  What a child   *)
(* writes to its output, and lists of arguments, are left out.             *)
(*                                                                         *)
(* Nobody uses ReapOne, AnyLost and AnyConnected: each is a faulty variant *)
(* of the operator below it, for a property to detect.                     *)
(***************************************************************************)
EXTENDS Naturals, Sequences, FiniteSets

CONSTANTS
  Client,      \* LASH clients of the project, and those that may be new
  Terminal,    \* the clients that run in a terminal (LASH_Terminal)
  Pid,         \* process ids
  NoPid,       \* the pid 0
  NoClient,
  MaxProcesses, \* bound on the processes ever started
  MaxEntries   \* bound on the entries of g_childs_list

ASSUME LoaderAssumption ==
  /\ Terminal \subseteq Client /\ NoClient \notin Client
  /\ NoPid \notin Pid
  /\ {MaxProcesses, MaxEntries} \subseteq Nat

VARIABLES
  g_childs_list,
  pc,        \* where the main thread is
  todo,      \* clients this dispatch has yet to launch
  executing, \* the client that loader_execute is about, and the fork's pid
  cursor,    \* how far the burial is
  round,     \* server_main calls loader_run twice
  client,    \* client->pid and which list the client is in
  process,   \* who has a pid now
  births,    \* processes so far
  sigchld,   \* is SIGCHLD pending?
  connects,  \* Connect messages in lashd's queue, by process
  notices,   \* NameOwnerChanged signals in lashd's queue, by process
  missed     \* history: children whose end was put down to another entry

mainVars == <<pc, todo, executing, cursor, round>>
kernelVars == <<process, births, sigchld>>
busVars == <<connects, notices>>
vars == <<g_childs_list, mainVars, client, kernelVars, busVars, missed>>

---------------------------------------------------------------------------
\* A process is its pid and its number of birth.
Process == Pid \X (1..MaxProcesses)
NoProcess == <<NoPid, 0>>

Holder(p) == <<p, process[p].birth>>
Running(x) == x \in Process /\ process[x[1]].birth = x[2] /\ process[x[1]].state = "running"
Ended(x) == x # NoProcess /\ ~Running(x)

Lost == {c \in Client : client[c].state = "lost"}
Connected == {c \in Client : client[c].state = "running"}
New == {c \in Client : client[c].state = "none"}

\* `process` of an entry or a client, and `launched`, are history: whom the
\* entry was made for, who connected, whom lashd forked last for the client.
Entry == [pid : Pid \union {NoPid}, dead : BOOLEAN, terminal : BOOLEAN,
          process : Process \union {NoProcess}]

TypeOK ==
  /\ g_childs_list \in Seq(Entry)
  /\ \A i \in DOMAIN g_childs_list : g_childs_list[i].dead => g_childs_list[i].pid # NoPid
  /\ pc \in {"dispatch", "execute", "fork", "forked", "run", "stdin", "bury"}
  /\ todo \subseteq Lost
  /\ executing \in [client : Client \union {NoClient}, pid : Pid \union {NoPid}]
  /\ cursor \in 1..(Len(g_childs_list) + 1)
  /\ round \in 1..2
  /\ client \in [Client -> [state : {"none", "lost", "running"}, pid : Pid \union {NoPid},
                            process : Process \union {NoProcess},
                            launched : Process \union {NoProcess}]]
  /\ process \in [Pid -> [state : {"none", "running", "zombie"}, birth : 0..MaxProcesses,
                          forkedFor : Client \union {NoClient}, connected : BOOLEAN]]
  /\ births \in 0..MaxProcesses
  /\ sigchld \in BOOLEAN
  /\ connects \subseteq Process /\ notices \subseteq Process /\ missed \subseteq Process

---------------------------------------------------------------------------
(* Processes: external *)

Free(p) == process[p].state = "none"

Born(p, c) ==
  /\ births < MaxProcesses /\ births' = births + 1
  /\ process' = [process EXCEPT ![p] = [state |-> "running", birth |-> @.birth + 1,
                                         forkedFor |-> c, connected |-> FALSE]]

\* A user starts a program.
Start(p) ==
  /\ Free(p) /\ Born(p, NoClient)
  /\ UNCHANGED <<g_childs_list, mainVars, client, sigchld, busVars, missed>>

\* A program, but not the terminal around one, opens its LASH client.
SendConnect(p) ==
  /\ process[p].state = "running" /\ ~process[p].connected
  /\ process[p].forkedFor \notin Terminal
  /\ process' = [process EXCEPT ![p].connected = TRUE]
  /\ connects' = connects \union {Holder(p)}
  /\ UNCHANGED <<g_childs_list, mainVars, client, births, sigchld, notices, missed>>

Gone(x) == [x EXCEPT !.state = "none", !.forkedFor = NoClient, !.connected = FALSE]

\* Only a child of lashd waits to be reaped.
Exit(p) ==
  /\ process[p].state = "running"
  /\ LET child == process[p].forkedFor # NoClient
     IN  /\ process' = [process EXCEPT ![p] = IF child THEN [Gone(@) EXCEPT !.state = "zombie"]
                                                       ELSE Gone(@)]
         /\ sigchld' = (sigchld \/ child)
  /\ notices' = IF process[p].connected THEN notices \union {Holder(p)} ELSE notices
  /\ UNCHANGED <<g_childs_list, mainVars, client, births, connects, missed>>

---------------------------------------------------------------------------
(* loader_sigchld_handler *)

Zombies == {p \in Pid : process[p].state = "zombie"}

\* waitpid in a loop: one signal may stand for several children.
ReapOne(zombies) ==
  IF zombies = {} THEN {} ELSE {CHOOSE p \in zombies : TRUE}
Reaped(zombies) == zombies

\* loader_child_find_and_mark_dead: the first entry with the pid.
Marks(i, p) ==
  /\ g_childs_list[i].pid = p
  /\ \A j \in 1..(i - 1) : g_childs_list[j].pid # p

SigchldHandler ==
  /\ sigchld /\ sigchld' = FALSE
  /\ LET reaped == Reaped(Zombies)
     IN  /\ process' = [p \in Pid |-> IF p \in reaped THEN Gone(process[p]) ELSE process[p]]
         /\ g_childs_list' = [i \in DOMAIN g_childs_list |->
              [g_childs_list[i] EXCEPT !.dead = @ \/ \E p \in reaped : Marks(i, p)]]
         /\ missed' = missed \union {g_childs_list[i].process : i \in {j \in DOMAIN g_childs_list :
              \E p \in reaped : g_childs_list[j].process = Holder(p) /\ ~Marks(j, p)}}
  /\ UNCHANGED <<mainVars, client, births, busVars>>

---------------------------------------------------------------------------
(* loader_execute, for the clients one request launches *)

\* Restoring a project, a satisfied dependency, a controller's request.
Launch(S) ==
  /\ pc = "dispatch" /\ S # {} /\ S \subseteq Lost
  /\ Len(g_childs_list) + Cardinality(S) <= MaxEntries
  /\ todo' = S /\ pc' = "execute"
  /\ UNCHANGED <<g_childs_list, executing, cursor, round, client, kernelVars, busVars, missed>>

\* The entry is listed before there is a process.
Execute(c) ==
  /\ pc = "execute" /\ c \in todo
  /\ todo' = todo \ {c} /\ pc' = "fork"
  /\ executing' = [client |-> c, pid |-> NoPid]
  /\ g_childs_list' = Append(g_childs_list,
       [pid |-> NoPid, dead |-> FALSE, terminal |-> c \in Terminal, process |-> NoProcess])
  /\ UNCHANGED <<cursor, round, client, kernelVars, busVars, missed>>

NoExecution == [client |-> NoClient, pid |-> NoPid]
Launched == IF todo = {} THEN "run" ELSE "execute"
Last == Len(g_childs_list)

Fork(p) ==
  /\ pc = "fork" /\ Free(p) /\ Born(p, executing.client)
  /\ pc' = "forked" /\ executing' = [executing EXCEPT !.pid = p]
  /\ g_childs_list' = [g_childs_list EXCEPT ![Last].process = <<p, process'[p].birth>>]
  /\ UNCHANGED <<todo, cursor, round, client, sigchld, busVars, missed>>

\* The entry stays.
ForkFails ==
  /\ pc = "fork"
  /\ pc' = Launched
  /\ client' = [client EXCEPT ![executing.client].pid = NoPid]
  /\ executing' = NoExecution
  /\ UNCHANGED <<g_childs_list, todo, cursor, round, kernelVars, busVars, missed>>

\* The pids are assigned when the child may have ended already.
AssignPid ==
  /\ pc = "forked"
  /\ pc' = Launched
  /\ client' = [client EXCEPT ![executing.client].pid = executing.pid,
                              ![executing.client].launched = g_childs_list[Last].process]
  /\ g_childs_list' = [g_childs_list EXCEPT ![Last].pid = executing.pid]
  /\ executing' = NoExecution
  /\ UNCHANGED <<todo, cursor, round, kernelVars, busVars, missed>>

---------------------------------------------------------------------------
(* Messages of the bus *)

LoseClient(c) ==
  client' = [client EXCEPT ![c] = [state |-> "lost", pid |-> NoPid, process |-> NoProcess,
                                   launched |-> NoProcess]]

\* server_add_client: a lost client with the pid resumes, else it is a new one.
AnyLost(pid) == Lost
LostWithPid(pid) == {c \in Lost : client[c].pid = pid}

HandleConnect(x) ==
  /\ pc = "dispatch" /\ pc' = "run"
  /\ x \in connects /\ connects' = connects \ {x}
  /\ \E c \in IF LostWithPid(x[1]) # {} THEN LostWithPid(x[1]) ELSE New :
       client' = [client EXCEPT ![c] = [state |-> "running", pid |-> x[1], process |-> x,
                                        launched |-> NoProcess]]
  /\ UNCHANGED <<g_childs_list, todo, executing, cursor, round, kernelVars, notices, missed>>

\* lashd_client_disconnect_handler; a process' messages come in order.
HandleNotice(x) ==
  /\ pc = "dispatch" /\ pc' = "run"
  /\ x \in notices \ connects /\ notices' = notices \ {x}
  /\ IF \E c \in Connected : client[c].process = x
     THEN \E c \in Connected : client[c].process = x /\ LoseClient(c)
     ELSE UNCHANGED client
  /\ UNCHANGED <<g_childs_list, todo, executing, cursor, round, kernelVars, connects, missed>>

NothingToDispatch ==
  /\ pc = "dispatch" /\ pc' = "run"
  /\ UNCHANGED <<g_childs_list, todo, executing, cursor, round, client, kernelVars, busVars,
                 missed>>

---------------------------------------------------------------------------
(* loader_run *)

\* An entry of a failed fork has the file descriptor 0: its output is what
\* somebody types into lashd's terminal.
ReadsStdin(e) == ~e.dead /\ ~e.terminal /\ e.pid = NoPid

ReadChildsOutput ==
  /\ pc = "run" /\ cursor' = 1
  /\ \/ pc' = "bury"
     \/ pc' = "stdin" /\ \E i \in DOMAIN g_childs_list : ReadsStdin(g_childs_list[i])
  /\ UNCHANGED <<g_childs_list, todo, executing, round, client, kernelVars, busVars, missed>>

StdinRead ==
  /\ pc = "stdin" /\ pc' = "bury"
  /\ UNCHANGED <<g_childs_list, todo, executing, cursor, round, client, kernelVars, busVars,
                 missed>>

Without(list, i) == SubSeq(list, 1, i - 1) \o SubSeq(list, i + 1, Len(list))

\* loader_childs_bury, entry by entry: client_disconnected for the running
\* client that has the pid.
AnyConnected(e) == Connected
OwnersOf(e) == {c \in Connected : client[c].pid = e.pid}

Bury ==
  /\ pc = "bury" /\ cursor <= Last
  /\ LET e == g_childs_list[cursor]
     IN  IF e.dead
         THEN /\ g_childs_list' = Without(g_childs_list, cursor)
              /\ IF OwnersOf(e) = {} THEN UNCHANGED client ELSE \E c \in OwnersOf(e) : LoseClient(c)
              /\ UNCHANGED cursor
         ELSE cursor' = cursor + 1 /\ UNCHANGED <<g_childs_list, client>>
  /\ UNCHANGED <<pc, todo, executing, round, kernelVars, busVars, missed>>

RunAgain ==
  /\ pc = "bury" /\ cursor > Last
  /\ IF round = 1 THEN round' = 2 /\ pc' = "run" ELSE round' = 1 /\ pc' = "dispatch"
  /\ cursor' = 1
  /\ UNCHANGED <<g_childs_list, todo, executing, client, kernelVars, busVars, missed>>

---------------------------------------------------------------------------
\* A project is loaded, or lashd has none; nobody is running yet.
Init ==
  /\ g_childs_list = <<>> /\ pc = "dispatch" /\ todo = {}
  /\ executing = NoExecution
  /\ cursor = 1 /\ round = 1
  /\ client \in [Client -> [state : {"none", "lost"}, pid : {NoPid},
                            process : {NoProcess}, launched : {NoProcess}]]
  /\ process = [p \in Pid |-> [state |-> "none", birth |-> 0, forkedFor |-> NoClient,
                                connected |-> FALSE]]
  /\ births = 0 /\ sigchld = FALSE
  /\ connects = {} /\ notices = {} /\ missed = {}

Kernel == \E p \in Pid : Start(p) \/ SendConnect(p) \/ Exit(p)

Dispatch ==
  \/ \E S \in SUBSET Client : Launch(S)
  \/ \E x \in connects : HandleConnect(x)
  \/ \E x \in notices : HandleNotice(x)
  \/ NothingToDispatch

Main ==
  \/ Dispatch
  \/ \E c \in Client : Execute(c)
  \/ \E p \in Pid : Fork(p)
  \/ ForkFails \/ AssignPid
  \/ ReadChildsOutput \/ Bury \/ RunAgain

Next == Kernel \/ SigchldHandler \/ Main \/ StdinRead

\* The main loop goes on, and the kernel delivers a pending signal.  Nobody
\* has to type into lashd's terminal.
Fairness == WF_vars(Main) /\ WF_vars(SigchldHandler)

Spec == Init /\ [][Next]_vars /\ Fairness

---------------------------------------------------------------------------
(* Properties *)

\* Though entries are found by pid, pids are reused and an end may be put down
\* to another entry (loader_child_find_and_mark_dead), an entry that is marked
\* dead is one whose process has ended.
DeadMeansEnded ==
  \A i \in DOMAIN g_childs_list :
    LET e == g_childs_list[i] IN e.dead => Ended(e.process)

\* A client is lost (client_disconnected, by burial or by notice) only if its
\* process has ended, or if a dead child had the pid before it.
OnlyTheEndedAreLost ==
  [][\A c \in Client : client[c].state = "running" /\ client'[c].state = "lost" =>
       \/ Ended(client[c].process)
       \/ \E i \in DOMAIN g_childs_list :
            /\ g_childs_list[i].dead
            /\ g_childs_list[i].process[1] = client[c].process[1]
            /\ g_childs_list[i].process[2] < client[c].process[2]]_vars

\* While the process that lashd launched for a lost client lives, no other
\* living process resumes as that client (server_find_lost_client_by_pid).
PlacesAreNotTaken ==
  [][\A c \in Client : client[c].state = "lost" /\ client'[c].state = "running" =>
       LET x == client'[c].process IN
         client[c].launched = x \/ Ended(client[c].launched) \/ Ended(x)]_vars

\* However many children end at once, lashd gets to a point where no child that
\* has ended has an entry (loader_childs_bury): but for those whose end was put
\* down to another entry or to none (missed), and unless lashd waits for its
\* own standard input.
Unburied(e) == Ended(e.process) /\ e.process \notin missed

EndedChildrenAreBuried ==
  []<>(\/ \A i \in DOMAIN g_childs_list : ~Unburied(g_childs_list[i])
       \/ pc = "stdin")
=============================================================================
