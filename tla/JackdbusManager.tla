-------------------------- MODULE JackdbusManager --------------------------
(***************************************************************************)
(* The JACK D-Bus manager of lashd (lashd/jackdbus_mgr.c): it binds JACK   *)
(* clients to LASH clients by process id, restores the patches a LASH      *)
(* client had when its project was saved, and tells a save what is         *)
(* connected.  It learns of JACK by signals, which wait in the queue of    *)
(* the bus connection while JACK goes on, and by calls (GetGraph,          *)
(* GetClientPID) whose answers are newer than the queued signals.          *)
(*                                                                         *)
(* JACK itself is external: clients with one port each, wires between      *)
(* ports, a server that starts, stops and fails.  Of the rest of lashd     *)
(* there is one project, with what its handlers do to the manager; when    *)
(* its tasks end is the subject of ProjectTasks, here they end at will.    *)
(* The JACK client of the LASH client c has the name c.  The version of    *)
(* the graph, which only spares copying an equal one, is left out.         *)
(*                                                                         *)
(* Nobody uses ...Only, NoneByPid and BoundWithoutBackup: each is a faulty *)
(* variant of the operator below it, for a property to detect.             *)
(***************************************************************************)
EXTENDS Lists, FiniteSets, SequencesExt

CONSTANTS
  Client,      \* LASH clients, by uuid; also the names of their JACK clients
  Foreign,     \* the names of JACK clients that no LASH client owns
  Port,        \* the name of the port each JACK client has
  Wire,        \* the wires a user may make: pairs of JACK client names
  NoClient,    \* a JACK client's null uuid
  NoGraph,     \* mgr->graph == NULL
  NotSaved,    \* a client that is not in the project's document
  Document,    \* the documents of which lashd may have loaded the project
  MaxFaults,   \* bound on ends of processes, JACK clients and JACK servers
  MaxQueue     \* bound on the signals that wait

Name == Client \union Foreign

ASSUME JackAssumption ==
  /\ Client \intersect Foreign = {}
  /\ NoClient \notin Client
  /\ Wire \subseteq {w \in Name \X Name : w[1] # w[2]}
  /\ DOMAIN Port = Name
  /\ {MaxFaults, MaxQueue} \subseteq Nat

VARIABLES
  jack_up, jack, wires, opened,  \* the JACK server, and the clients it has had
  process, started,              \* the processes of LASH clients, and all so far
  faults,                        \* ends so far, for the bound
  signals,                       \* signals on their way to lashd
  calls,                         \* ConnectPortsByName calls on their way to JACK
  lashd,                         \* is lashd running?
  clients, unknown_clients,      \* the manager's two lists
  dangling,                      \* does unknown_clients link to freed entries?
  graph,                         \* the manager's copy of JACK's graph
  lash,                          \* the LASH clients of the project
  loaded, task, doc, modified,   \* the project
  kept,    \* history: the patches a client was loaded or last saved with
  owned,   \* history: the LASH clients that a JACK client was ever bound to
  rebound, \* history: those that an entry of theirs outlived
  missed   \* history: a task's end unmarks a change, or a save lost its graph

jackVars == <<jack_up, jack, wires, opened>>
processVars == <<process, started, faults>>
mgrVars == <<clients, unknown_clients, dangling, graph>>
projectVars == <<loaded, task, doc, modified>>
historyVars == <<kept, owned, rebound, missed>>
vars == <<jackVars, processVars, signals, calls, lashd, mgrVars, lash,
          projectVars, historyVars>>

---------------------------------------------------------------------------
\* A patch names each end by uuid, if the JACK client there is known, or by
\* the JACK client's name (jack_patch_t).
ById(c) == [kind |-> "id", of |-> c]
ByName(n) == [kind |-> "name", of |-> n]
End == {ById(c) : c \in Client} \union {ByName(n) : n \in Name}
Patch == [src : End, dest : End]

\* JACK clients and processes are numbered by owner; None is the code's 0.
None == <<>>
Number == {None} \union (Name \X (0..MaxFaults + 1))
NotThere == [id |-> None, pid |-> None, port |-> FALSE]

JackEntry(n, id, pid) ==
  [id |-> NoClient, name |-> n, jackdbus_id |-> id, pid |-> pid,
   old_patches |-> {}, backup_patches |-> {}]

Entry == [id : Client \union {NoClient}, name : Name,
          jackdbus_id : Number, pid : Number,
          old_patches : SUBSET Patch, backup_patches : SUBSET Patch]

\* JACK has a fixed number of clients, and a graph of them is a graph; a
\* client's document is of its own connections.
ASSUME GraphAssumption ==
  /\ IsFiniteSet(Name)
  /\ NoGraph \notin [ids : [Name -> {None} \union (Name \X Nat)],
                     ports : SUBSET Name, wires : SUBSET (Name \X Name)]
ASSUME DocumentAssumption ==
  \A d \in Document : \A c \in Client :
    d[c] = NotSaved \/ \A p \in d[c] : p \in Patch /\ ById(c) \in {p.src, p.dest}

\* Two lists, by value: an entry of `clients` may be stale, and several may
\* have the same uuid.
TypeOK ==
  /\ jack_up \in BOOLEAN
  /\ jack \in [Name -> [id : Number, pid : Number, port : BOOLEAN]]
  /\ wires \subseteq Name \X Name
  /\ process \in [Client -> Number]
  /\ {opened[n] : n \in Name} \union {started[c] : c \in Client} \union {faults} \subseteq Nat
  /\ Len(signals) <= MaxQueue
  /\ calls \subseteq Name \X Name
  /\ {lashd, dangling, loaded, modified} \subseteq BOOLEAN
  /\ \A e \in ToSet(clients) : e \in Entry /\ e.id # NoClient
  /\ \A e \in ToSet(unknown_clients) :
       e \in Entry /\ e.id = NoClient /\ None \notin {e.jackdbus_id, e.pid}
  /\ graph = NoGraph \/ DOMAIN graph = {"ids", "ports", "wires"}
  /\ lash \in [Client -> [state : {"none", "running", "lost", "gone"},
                          pid : Number, jack_patches : SUBSET Patch,
                          jack_client_name : BOOLEAN]]
  /\ task \in {"none", "save", "load"}
  /\ \A c \in Client : doc[c] = NotSaved \/ doc[c] \subseteq Patch

---------------------------------------------------------------------------
(* Lists and lookups *)

\* jack_mgr_client_find_by_id, _by_jackdbus_id, _by_pid: the first match, 0
\* if there is none.
First(list, Test(_)) == SelectInSeq(list, Test)
FindById(list, c) == LET Test(e) == e.id = c IN First(list, Test)
FindByJackdbusId(list, id) ==
  LET Test(e) == e.jackdbus_id = id IN First(list, Test)
NoneByPid(list, pid) == 0
FindByPid(list, pid) == LET Test(e) == e.pid = pid IN First(list, Test)

Running == {c \in Client : lash[c].state = "running"}
Lost == {c \in Client : lash[c].state = "lost"}

\* The LASH client with the pid: a running one, else a lost one.
OwnersOf(pid) ==
  LET running == {c \in Running : lash[c].pid = pid}
  IN  IF running # {} THEN running ELSE {c \in Lost : lash[c].pid = pid}

\* What GetGraph and GetClientPID answer.
Snapshot == [ids |-> [n \in Name |-> jack[n].id],
             ports |-> {n \in Name : jack[n].port}, wires |-> wires]
Fetched == IF jack_up THEN Snapshot ELSE graph
ClientPid(id) ==
  IF \E n \in Name : jack[n].id = id
  THEN LET n == CHOOSE n \in Name : jack[n].id = id IN jack[n].pid
  ELSE None

---------------------------------------------------------------------------
(* Patches *)

\* A wire as JACK tells of it: [from, to : the names, from_id, to_id].
Link(w, ids) == [from |-> w[1], from_id |-> ids[w[1]],
                 to |-> w[2], to_id |-> ids[w[2]]]
LeavesOnly(e, l) == e.jackdbus_id = l.from_id
Belongs(e, l) == e.jackdbus_id \in {l.from_id, l.to_id}
LinksOf(e, g) == {l \in {Link(w, g.ids) : w \in g.wires} : Belongs(e, l)}

\* lashd_jackdbus_mgr_get_patch_uuids: the JACK client n as an end of a patch
\* of the entry e.
EndAt(list, e, n, id) ==
  LET i == FindByJackdbusId(list, id)
  IN  CASE id = e.jackdbus_id -> ById(e.id)
        [] id # e.jackdbus_id /\ i # 0 -> ById(list[i].id)
        [] OTHER -> ByName(n)

Described(list, e, l) == [src |-> EndAt(list, e, l.from, l.from_id),
                          dest |-> EndAt(list, e, l.to, l.to_id)]

\* jack_patch_find_by_description compares the names of an end that is not
\* known now; a patch that has a uuid there has no name to compare.
NoNameToCompare(p, d, l) ==
  /\ Port[p.src.of] = Port[l.from] /\ Port[p.dest.of] = Port[l.to]
  /\ \/ d.src.kind = "name" /\ p.src.kind = "id"
     \/ p.src = d.src /\ d.dest.kind = "name" /\ p.dest.kind = "id"

\* lashd_jackdbus_mgr_del_old_patch for the links `seen`: what is left, and
\* whether lashd may run on or fail, which it does on a patch without a name
\* unless it finds the patch it looks for first.
OldPatchesLeft(list, e, seen) ==
  e.old_patches \ {Described(list, e, l) : l \in seen}

ComparesNothing(list, e, seen) ==
  {l \in seen : \E p \in e.old_patches : NoNameToCompare(p, Described(list, e, l), l)}
Compared(list, e, seen) ==
  (IF ComparesNothing(list, e, seen) = {} THEN {} ELSE {FALSE}) \union
  (IF \A l \in ComparesNothing(list, e, seen) : Described(list, e, l) \in e.old_patches
   THEN {TRUE} ELSE {})

\* lashd_jackdbus_mgr_new_client_port: the wires that a bound client's port
\* asks for.  A peer with a uuid is looked up by it; without an entry it has
\* no name to connect to.
HasName(list, end) == end.kind = "name" \/ FindById(list, end.of) # 0
OutgoingWiresOnly(list, e) ==
  {<<e.name, p.dest.of>> : p \in {q \in e.old_patches :
      q.src = ById(e.id) /\ HasName(list, q.dest)}}

ClientPortWires(list, e) ==
  {<<e.name, p.dest.of>> : p \in {q \in e.old_patches :
      q.src = ById(e.id) /\ HasName(list, q.dest)}}
  \union {<<p.src.of, e.name>> : p \in {q \in e.old_patches :
      q.src # ById(e.id) /\ q.dest = ById(e.id) /\ HasName(list, q.src)}}

\* lashd_jackdbus_mgr_new_foreign_port: only patches by name look for it.
ForeignPortWires(list, n) ==
  UNION {{<<e.name, n>> : p \in {q \in e.old_patches :
             q.src = ById(e.id) /\ q.dest = ByName(n)}}
         \union {<<n, e.name>> : p \in {q \in e.old_patches :
             q.src # ById(e.id) /\ q.src = ByName(n)}} : e \in ToSet(list)}

---------------------------------------------------------------------------
(* The JACK server: external *)

ClientSignal(kind, n) == [kind |-> kind, name |-> n, id |-> jack[n].id]
LinkSignal(kind, w) == [kind |-> kind, link |-> Link(w, [n \in Name |-> jack[n].id])]
ServerSignal(kind) == [kind |-> kind]

\* The end of something, up to the bound.
Fault == faults < MaxFaults /\ faults' = faults + 1

Emit(new) ==
  /\ Len(signals) + Len(new) <= MaxQueue
  /\ signals' = signals \o new

ExternalStep == UNCHANGED <<lashd, mgrVars, lash, projectVars, historyVars>>

JackStart ==
  /\ ~jack_up /\ jack_up' = TRUE
  /\ Emit(<<ServerSignal("started")>>)
  /\ UNCHANGED <<jack, wires, opened, processVars, calls>> /\ ExternalStep

\* When the server stops it says so.  When jackdbus itself fails only the bus
\* tells of it, and lashd forgets no more than the version of the graph.
JackStop ==
  /\ jack_up /\ jack_up' = FALSE /\ Fault
  /\ jack' = [n \in Name |-> NotThere] /\ wires' = {} /\ calls' = {}
  /\ Emit(<<ServerSignal("stopped")>>) \/ UNCHANGED signals
  /\ UNCHANGED <<opened, process, started>> /\ ExternalStep

JackOpen(n) ==
  /\ jack_up /\ jack[n].id = None
  /\ n \in Client => process[n] # None
  /\ LET id == <<n, opened[n]>>
     IN  /\ jack' = [jack EXCEPT ![n] = [id |-> id, port |-> FALSE, pid |->
                       IF n \in Client THEN process[n] ELSE <<n, 0>>]]
         /\ Emit(<<[kind |-> "appeared", name |-> n, id |-> id]>>)
  /\ opened' = [opened EXCEPT ![n] = @ + 1]
  /\ UNCHANGED <<jack_up, wires, processVars, calls>> /\ ExternalStep

JackPort(n) ==
  /\ jack[n].id # None /\ ~jack[n].port
  /\ jack' = [jack EXCEPT ![n].port = TRUE]
  /\ Emit(<<ClientSignal("port", n)>>)
  /\ UNCHANGED <<jack_up, wires, opened, processVars, calls>> /\ ExternalStep

\* A client goes when its wires are gone (JackDisconnects), by itself or with
\* its process.
JackClose(n) ==
  /\ jack[n].id # None /\ \A w \in wires : n \notin {w[1], w[2]}
  /\ IF n \in Client /\ jack[n].pid # process[n] THEN UNCHANGED faults ELSE Fault
  /\ Emit(<<ClientSignal("disappeared", n)>>)
  /\ jack' = [jack EXCEPT ![n] = NotThere]
  /\ UNCHANGED <<jack_up, wires, opened, process, started, calls>> /\ ExternalStep

MayConnect(w) == jack[w[1]].port /\ jack[w[2]].port /\ w \notin wires

UserConnects(w) ==
  /\ MayConnect(w)
  /\ wires' = wires \union {w}
  /\ Emit(<<LinkSignal("connected", w)>>)
  /\ UNCHANGED <<jack_up, jack, opened, processVars, calls>> /\ ExternalStep

\* A user, or a client that goes, takes a wire away.
JackDisconnects(w) ==
  /\ w \in wires /\ wires' = wires \ {w}
  /\ Emit(<<LinkSignal("disconnected", w)>>)
  /\ UNCHANGED <<jack_up, jack, opened, processVars, calls>> /\ ExternalStep

\* JACK takes a ConnectPortsByName call; its answer is only logged.
JackTakesCall(w) ==
  /\ w \in calls /\ calls' = calls \ {w}
  /\ IF MayConnect(w)
     THEN wires' = wires \union {w} /\ Emit(<<LinkSignal("connected", w)>>)
     ELSE UNCHANGED <<wires, signals>>
  /\ UNCHANGED <<jack_up, jack, opened, processVars>> /\ ExternalStep

---------------------------------------------------------------------------
(* Processes of LASH clients *)

NewProcess(c) ==
  /\ process' = [process EXCEPT ![c] = <<c, started[c]>>]
  /\ started' = [started EXCEPT ![c] = @ + 1]
  /\ UNCHANGED faults

\* A user starts a program that will open a new LASH client.
Start(c) ==
  /\ lashd /\ loaded /\ lash[c].state = "none" /\ process[c] = None
  /\ NewProcess(c)
  /\ UNCHANGED <<jackVars, signals, calls>> /\ ExternalStep

Exit(c) ==
  /\ process[c] # None /\ process' = [process EXCEPT ![c] = None] /\ Fault
  /\ UNCHANGED <<jackVars, started, signals, calls>> /\ ExternalStep

---------------------------------------------------------------------------
(* lashd *)

\* Whether lashd runs on when it has followed the links of unknown_clients.
Walked == IF dangling THEN BOOLEAN ELSE {TRUE}

\* The JACK client's entry takes the LASH client's uuid and patches.
BoundWithoutBackup(e, c, patches) == [e EXCEPT !.id = c, !.old_patches = patches]
BoundTo(e, c, patches) ==
  [e EXCEPT !.id = c, !.old_patches = patches, !.backup_patches = @ \union patches]

Outlived == {e.id : e \in ToSet(clients)}

\* lashd_jackdbus_mgr_bind_client, for an entry no longer in `unknown` and
\* the LASH clients `l`; `walked` says if lashd is still running.
Bind(e, c, unknown, l, walked) ==
  LET bound == BoundTo(e, c, l[c].jack_patches)
      g == Fetched
      found == [bound EXCEPT !.jackdbus_id = IF g = NoGraph THEN @ ELSE g.ids[e.name]]
      list == Append(clients, found)
      seen == IF g = NoGraph THEN {} ELSE LinksOf(found, g)
      known == g # NoGraph /\ found.jackdbus_id # None
  IN  /\ lashd' \in {walked /\ compared : compared \in
                        IF known THEN Compared(list, found, seen) ELSE {TRUE}}
      /\ unknown_clients' = unknown
      /\ clients' = Append(clients,
           IF known THEN [found EXCEPT !.old_patches = OldPatchesLeft(list, found, seen)]
           ELSE found)
      /\ graph' = IF known THEN g ELSE NoGraph
      /\ calls' = calls \union
           IF known /\ e.name \in g.ports THEN ClientPortWires(list, found) ELSE {}
      /\ lash' = [l EXCEPT ![c].jack_patches = {}, ![c].jack_client_name = TRUE]
      /\ owned' = owned \union {c}
      /\ rebound' = rebound \union ({c} \intersect Outlived)
      /\ missed' = (missed \/ (task = "save" /\ ~known))
      /\ UNCHANGED <<dangling, kept>>

\* lashd_jackdbus_on_client_appeared
Vanished(pid) == pid = None

ClientAppeared(s) ==
  LET pid == ClientPid(s.id)
      e == JackEntry(s.name, s.id, pid)
      owners == OwnersOf(pid)
  IN  /\ CASE Vanished(pid) -> UNCHANGED <<calls, lashd, mgrVars, lash, historyVars>>
           [] ~Vanished(pid) /\ owners = {} ->
                /\ unknown_clients' = Append(unknown_clients, e)
                /\ lashd' \in Walked
                /\ UNCHANGED <<calls, clients, dangling, graph, lash, historyVars>>
           [] OTHER -> \E c \in owners : Bind(e, c, unknown_clients, lash, TRUE)
      /\ UNCHANGED projectVars

\* lashd_jackdbus_on_client_disappeared: the known clients stay.
ClientDisappeared(s) ==
  LET i == FindByJackdbusId(unknown_clients, s.id)
  IN  /\ lashd' \in Walked
      /\ unknown_clients' = IF i = 0 THEN unknown_clients ELSE RemoveAt(unknown_clients, i)
      /\ UNCHANGED <<calls, clients, dangling, graph, lash, projectVars, historyVars>>

PortAppeared(s) ==
  LET i == FindByJackdbusId(clients, s.id)
  IN  /\ calls' = calls \union (IF i # 0 THEN ClientPortWires(clients, clients[i])
                                ELSE ForeignPortWires(clients, s.name))
      /\ UNCHANGED <<lashd, mgrVars, lash, projectVars, historyVars>>

\* The entries a link signal finds: the first of either end.
SourceOnly(l) == {FindByJackdbusId(clients, l.from_id)} \ {0}
Concerned(l) == {FindByJackdbusId(clients, l.from_id),
                 FindByJackdbusId(clients, l.to_id)} \ {0}

\* jack_mgr_client_modified: it marks the project of a running client only;
\* the end of a task takes the mark away.
MarkModified(concerned) ==
  LET marked == \E i \in concerned : clients[i].id \in Running
  IN  /\ modified' = (modified \/ marked)
      /\ missed' = (missed \/ (concerned # {} /\ ~(marked /\ task = "none")))

PortsConnected(l) ==
  LET concerned == Concerned(l)
      compared == {Compared(clients, clients[i], {l}) : i \in concerned}
  IN  /\ lashd' \in {alive \in BOOLEAN :
           IF alive THEN \A outcomes \in compared : TRUE \in outcomes
                    ELSE \E outcomes \in compared : FALSE \in outcomes}
      /\ clients' = [i \in DOMAIN clients |->
           IF i \in concerned
           THEN [clients[i] EXCEPT !.old_patches = OldPatchesLeft(clients, clients[i], {l})]
           ELSE clients[i]]
      /\ MarkModified(concerned)
      /\ UNCHANGED <<calls, unknown_clients, dangling, graph, lash,
                     loaded, task, doc, kept, owned, rebound>>

PortsDisconnected(l) ==
  /\ MarkModified(Concerned(l))
  /\ UNCHANGED <<calls, lashd, mgrVars, lash, loaded, task, doc, kept, owned, rebound>>

\* lashd_jackdbus_mgr_get_unknown_clients; a client that has no pid is gone.
GraphEntries(g) ==
  LET there == {n \in Name : ClientPid(g.ids[n]) # None}
  IN  SetToSeq({JackEntry(n, g.ids[n], ClientPid(g.ids[n])) : n \in there})

ServerStarted ==
  /\ lashd' \in Walked
  /\ graph' = Fetched
  /\ unknown_clients' = unknown_clients \o
       (IF graph' = NoGraph THEN <<>> ELSE GraphEntries(graph'))
  /\ UNCHANGED <<calls, clients, dangling, lash, projectVars, historyVars>>

\* lashd_jackdbus_mgr_clear frees the unknown clients and leaves them linked.
ServerStopped ==
  /\ lashd' \in Walked
  /\ unknown_clients' = <<>>
  /\ dangling' = (dangling \/ unknown_clients # <<>>)
  /\ graph' = NoGraph
  /\ UNCHANGED <<calls, clients, lash, projectVars, historyVars>>

HandleSignal ==
  /\ lashd /\ signals # <<>> /\ signals' = Tail(signals)
  /\ UNCHANGED <<jackVars, processVars>>
  /\ LET s == Head(signals)
     IN  \/ s.kind = "appeared" /\ ClientAppeared(s)
         \/ s.kind = "disappeared" /\ ClientDisappeared(s)
         \/ s.kind = "port" /\ PortAppeared(s)
         \/ s.kind = "connected" /\ PortsConnected(s.link)
         \/ s.kind = "disconnected" /\ PortsDisconnected(s.link)
         \/ s.kind = "started" /\ ServerStarted
         \/ s.kind = "stopped" /\ ServerStopped

\* server_add_client: a lost client with the pid resumes, else it is a new one
\* of the project; then the first unknown JACK client of the pid is bound.
Connect(c) ==
  LET pid == process[c]
      l == [lash EXCEPT ![c].state = "running", ![c].pid = pid]
      i == FindByPid(unknown_clients, pid)
  IN  /\ lashd /\ loaded /\ pid # None
      /\ \/ lash[c].state = "none" /\ modified' = TRUE
         \/ lash[c].state = "lost" /\ lash[c].pid = pid /\ UNCHANGED modified
      /\ IF i # 0
         THEN \E walked \in Walked :
                Bind(unknown_clients[i], c, RemoveAt(unknown_clients, i), l, walked)
         ELSE /\ lash' = l /\ lashd' \in Walked
              /\ UNCHANGED <<calls, mgrVars, historyVars>>
      /\ UNCHANGED <<jackVars, processVars, signals, loaded, task, doc>>

\* project_lose_client
Disconnect(c) ==
  LET i == IF lash[c].jack_client_name THEN FindById(clients, c) ELSE 0
      backup == IF i = 0 THEN {} ELSE clients[i].backup_patches
  IN  /\ lashd /\ c \in Running /\ process[c] = None
      /\ clients' = IF i = 0 THEN clients ELSE RemoveAt(clients, i)
      /\ lash' = [lash EXCEPT ![c].state = "lost", ![c].pid = None,
                              ![c].jack_patches = @ \union backup]
      /\ modified' = TRUE
      /\ UNCHANGED <<jackVars, processVars, signals, calls, lashd, unknown_clients,
                     dangling, graph, loaded, task, doc, historyVars>>

\* project_launch_client
Launch(c) ==
  /\ lashd /\ c \in Lost /\ process[c] = None /\ NewProcess(c)
  /\ lash' = [lash EXCEPT ![c].pid = process'[c]]
  /\ UNCHANGED <<jackVars, signals, calls, lashd, mgrVars, projectVars, historyVars>>

\* lashd_jackdbus_mgr_get_client_patches: it fails without a graph or an entry.
HasPatches(c, g) ==
  lash[c].jack_client_name /\ g # NoGraph /\ FindById(clients, c) # 0
ClientPatches(c, g) ==
  LET e == clients[FindById(clients, c)]
  IN  {Described(clients, e, l) : l \in LinksOf(e, g)}

\* project_clients_save_complete: project_create_xml asks the manager for the
\* patches of every running client and so renews their backups.
SaveCompletes(g) ==
  LET saved == [c \in Client |-> IF c \in Running /\ HasPatches(c, g)
                                 THEN ClientPatches(c, g) ELSE {}]
      Renewed(i) == LET c == clients[i].id
                    IN  c \in Running /\ HasPatches(c, g) /\ i = FindById(clients, c)
  IN  /\ doc' = [c \in Client |-> IF c \in Running THEN saved[c] ELSE NotSaved]
      /\ kept' = [c \in Client |-> IF c \in Running /\ HasPatches(c, g)
                                     THEN saved[c] ELSE kept[c]]
      /\ clients' = [i \in DOMAIN clients |->
           IF Renewed(i) THEN [clients[i] EXCEPT !.backup_patches = saved[clients[i].id]]
           ELSE clients[i]]
      /\ modified' = FALSE

\* project_save: it fetches the graph, drops the lost clients and asks the
\* others to save; with none, it completes.
Save ==
  /\ lashd /\ loaded /\ task = "none"
  /\ graph' = Fetched
  /\ lash' = [c \in Client |-> IF c \in Lost THEN [lash[c] EXCEPT !.state = "gone"]
                                ELSE lash[c]]
  /\ missed' = FALSE
  /\ IF Running = {} THEN SaveCompletes(graph') /\ UNCHANGED task
     ELSE task' = "save" /\ UNCHANGED <<doc, kept, clients, modified>>
  /\ UNCHANGED <<jackVars, processVars, signals, calls, lashd, unknown_clients,
                 dangling, loaded, owned, rebound>>

SaveEnds ==
  /\ lashd /\ loaded /\ task = "save" /\ task' = "none"
  /\ SaveCompletes(graph)
  /\ UNCHANGED <<jackVars, processVars, signals, calls, lashd, unknown_clients,
                 dangling, graph, lash, loaded, owned, rebound, missed>>

\* project_loaded
LoadEnds ==
  /\ lashd /\ loaded /\ task = "load" /\ task' = "none" /\ modified' = FALSE
  /\ UNCHANGED <<jackVars, processVars, signals, calls, lashd, mgrVars, lash,
                 loaded, doc, historyVars>>

\* project_unload, told to remove the entries of the clients that run only.
Close ==
  LET removed == {FindById(clients, c) : c \in {x \in Running : lash[x].jack_client_name}}
  IN  /\ lashd /\ loaded /\ loaded' = FALSE
      /\ clients' = Keeping(clients, DOMAIN clients \ removed)
      /\ lash' = [c \in Client |-> [state |-> "gone", pid |-> None, jack_patches |-> {},
                                     jack_client_name |-> FALSE]]
      /\ UNCHANGED <<jackVars, processVars, signals, calls, lashd, unknown_clients,
                     dangling, graph, task, doc, modified, historyVars>>

\* project_load: the clients of the document are lost until they connect.
Load ==
  /\ lashd /\ ~loaded /\ loaded' = TRUE
  /\ {c \in Client : doc[c] # NotSaved} # {}
  /\ task' = "load" /\ modified' = FALSE
  /\ lash' = [c \in Client |-> IF doc[c] = NotSaved THEN lash[c]
                 ELSE [lash[c] EXCEPT !.state = "lost", !.jack_patches = doc[c]]]
  /\ kept' = [c \in Client |-> IF doc[c] = NotSaved THEN {} ELSE doc[c]]
  /\ rebound' = rebound \union Outlived
  /\ UNCHANGED <<jackVars, processVars, signals, calls, lashd, mgrVars, doc,
                 owned, missed>>

---------------------------------------------------------------------------
\* lashd has loaded the project, or has a new one, with JACK down, or up with
\* its foreign clients.
NoClients == [c \in Client |-> NotSaved]

Init ==
  /\ jack_up \in BOOLEAN
  /\ jack = [n \in Name |-> IF jack_up /\ n \in Foreign
                            THEN [id |-> <<n, 0>>, pid |-> <<n, 0>>, port |-> TRUE]
                            ELSE NotThere]
  /\ opened = [n \in Name |-> IF jack[n].id = None THEN 0 ELSE 1]
  /\ wires = {}
  /\ process = [c \in Client |-> None] /\ started = [c \in Client |-> 0] /\ faults = 0
  /\ signals = <<>> /\ calls = {} /\ lashd = TRUE
  /\ graph = IF jack_up THEN Snapshot ELSE NoGraph
  /\ clients = <<>> /\ dangling = FALSE
  /\ unknown_clients = IF jack_up THEN GraphEntries(graph) ELSE <<>>
  /\ loaded = TRUE /\ modified = FALSE
  /\ doc \in Document \union {NoClients}
  /\ task = IF doc = NoClients THEN "none" ELSE "load"
  /\ lash = [c \in Client |->
       [state |-> IF doc[c] = NotSaved THEN "none" ELSE "lost", pid |-> None,
        jack_patches |-> IF doc[c] = NotSaved THEN {} ELSE doc[c],
        jack_client_name |-> FALSE]]
  /\ kept = [c \in Client |-> lash[c].jack_patches] /\ owned = {} /\ rebound = {} /\ missed = FALSE

Environment ==
  \/ JackStart \/ JackStop
  \/ \E n \in Name : JackOpen(n) \/ JackPort(n) \/ JackClose(n)
  \/ \E w \in Wire : UserConnects(w) \/ JackDisconnects(w)
  \/ \E w \in calls : JackTakesCall(w)
  \/ \E c \in Client : Start(c) \/ Exit(c)

Lashd ==
  \/ HandleSignal
  \/ \E c \in Client : Connect(c) \/ Disconnect(c) \/ Launch(c)
  \/ Save \/ SaveEnds \/ LoadEnds \/ Close \/ Load

\* Without lashd there is nothing left to follow.
Next == lashd /\ (Environment \/ Lashd)

Spec == Init /\ [][Next]_vars

---------------------------------------------------------------------------
(* Properties *)

\* lashd has heard all that JACK has to say, and JACK all that lashd wants.
Quiet == lashd /\ jack_up /\ signals = <<>> /\ calls = {}

Bound(c) == {i \in DOMAIN clients : clients[i].id = c /\ clients[i].jackdbus_id # None
                                     /\ clients[i].jackdbus_id = jack[c].id}

\* However LASH connection, JACK client and signals interleave, the JACK
\* client of a running LASH client's process is bound to it
\* (lashd_jackdbus_on_client_appeared, server_add_client).
RunningClientsAreBound ==
  Quiet => \A c \in Running :
    jack[c].id # None /\ jack[c].pid = lash[c].pid => Bound(c) # {}

\* A patch that waits at both its ends, if both are LASH clients', does not go
\* on waiting once both ports exist: some end has asked JACK for the wire,
\* whichever of clients, ports, signals and connections came last.  (A named
\* end that is a LASH client's is missed, and so is one whose list a save or
\* an earlier entry emptied.)
Waits(p, end) ==
  /\ jack[end.of].port /\ end.of \notin rebound
  /\ IF end.kind = "id" THEN \E i \in Bound(end.of) : p \in clients[i].old_patches
     ELSE end.of \notin owned

NothingLeftToResume ==
  Quiet => \A c \in Running \union Lost : \A i \in Bound(c) :
    \A p \in clients[i].old_patches : ~(Waits(p, p.src) /\ Waits(p, p.dest))

\* lashd has, in the LASH client or in its entry's backup, the patches with
\* which a client was loaded or last saved, through binding, saving and loss
\* (project_lose_client): but for clients that an entry outlived.
PatchesAreKept ==
  lashd => \A c \in (Running \union Lost) \ rebound :
    LET i == FindById(clients, c)
    IN  kept[c] \subseteq lash[c].jack_patches \union
          (IF i = 0 THEN {} ELSE clients[i].backup_patches)

WiresIn(patches) == {<<p.src.of, p.dest.of>> : p \in patches}
WiresOf(c) == {w \in wires : c \in {w[1], w[2]}}

\* A project that is not marked modified has every wire of its clients in its
\* document: but for clients that an entry outlived or that came back after the
\* save, and for changes that a task's end unmarked; and but for a save whose
\* graph lashd gave up, as another client was bound whose JACK client was gone
\* (lashd_jackdbus_mgr_get_client_data), which writes no connections at all.
UnmodifiedMeansSaved ==
  Quiet /\ loaded /\ task = "none" /\ ~modified /\ ~missed =>
    \A c \in Running \ rebound : Bound(c) # {} /\ doc[c] # NotSaved
      => WiresOf(c) \subseteq WiresIn(doc[c])

\* A save during which nothing else happens writes, for each client that is
\* bound and that no entry outlived, the wires it has in JACK.
SavesConnections ==
  [][task = "save" /\ task' = "none" /\ Quiet /\ graph = Snapshot =>
       \A c \in Running \ rebound : Bound(c) # {} => WiresIn(doc'[c]) = WiresOf(c)]_vars
=============================================================================
