---------------------------- MODULE JackManager ----------------------------
(***************************************************************************)
(* The JACK manager of a lashd built without D-Bus access to JACK          *)
(* (lashd/jack_mgr.c): JACK's callbacks write notices into a socket, and a *)
(* thread reads them, keeps a copy of the connections of the clients that  *)
(* told their JACK name, and connects the ports that a restored client was *)
(* connected to.  The main thread adds and removes clients and writes      *)
(* their connections into the project's document.  Both work under the     *)
(* manager's lock, one step of the model for each time they hold it.       *)
(*                                                                         *)
(* A notice carries a port's number only: what lashd learns of the port is *)
(* what JACK says of that number when the notice is read.  JACK is         *)
(* external: it gives a program a name that no other one has, a port the   *)
(* lowest free number, and uses the names and numbers of the dead again.   *)
(* Of the rest of lashd there is one project.                              *)
(*                                                                         *)
(* Nobody uses OwnEnd, RemoveNothing and OutputsOnly: each is a faulty     *)
(* variant of the operator below it, for a property to detect.             *)
(***************************************************************************)
EXTENDS Lists, FiniteSets, SequencesExt

CONSTANTS
  Client,      \* LASH clients, by uuid; each is a program
  Foreign,     \* programs that do not use LASH
  PortsOf,     \* the names of the ports that each program opens
  Wire,        \* the connections a user may make: pairs of <<program, port>>
  Name,        \* names of JACK clients
  NoName,      \* no JACK client
  PortId,      \* numbers of JACK ports
  NoPort,      \* no JACK port
  NotSaved,    \* a client that is not in the project's document
  Document,    \* the documents that lashd may have loaded
  MaxEnds,     \* bound on ends of processes
  MaxQueue     \* bound on the notices that wait, but for lashd's own

Program == Client \union Foreign

ASSUME JackAssumption ==
  /\ Client \intersect Foreign = {}
  /\ DOMAIN PortsOf = Program
  /\ NoName \notin Name
  /\ PortId \subseteq Nat
  /\ \A w \in Wire : \A e \in {w[1], w[2]} : e[1] \in Program /\ e[2] \in PortsOf[e[1]]
  /\ {MaxEnds, MaxQueue} \subseteq Nat

VARIABLES
  name, ports, wires,   \* JACK: names of programs, ports by number, connections
  process,              \* what the process of a LASH client has done so far
  told,                 \* JackName calls on their way: NoName if there is none
  notices,              \* what JACK's callbacks wrote and the thread will read
  ends,                 \* ends of processes so far, for the bound
  lashd,                \* is lashd running?
  clients, foreign_ports,  \* the manager's lists
  lash,                 \* the LASH clients of the project
  loaded, saving, doc,  \* the project
  due,     \* history: connections of the document that lashd has to restore
  unread   \* history: clients whose connections JACK was not asked for yet

jackVars == <<name, ports, wires>>
processVars == <<process, told, ends>>
mgrVars == <<clients, foreign_ports>>
projectVars == <<loaded, saving, doc>>
vars == <<jackVars, processVars, notices, lashd, mgrVars, lash, projectVars, due, unread>>

---------------------------------------------------------------------------
(* Full port names, patches, entries *)

Addr == [client : Name, port : UNION {PortsOf[x] : x \in Program}]
At(n, p) == [client |-> n, port |-> p]
Registered == {ports[i] : i \in PortId} \ {NoPort}

\* A patch in a document or a backup names each end by uuid, if the client
\* there is known, or by its name (jack_patch_t).
ById(c, p) == [kind |-> "id", of |-> c, port |-> p]
ByName(n, p) == [kind |-> "name", of |-> n, port |-> p]

Patch == LET End == {ById(c, a.port) : c \in Client, a \in Addr}
                   \union {ByName(a.client, a.port) : a \in Addr}
         IN  [src : End, dest : End]

NewEntry(c, n, patches) ==
  [id |-> c, name |-> n, patches |-> {}, old_patches |-> patches, backup_patches |-> {}]

\* JACK has a table of ports of a fixed size; what a document says of clients
\* is patches.
ASSUME PortsAssumption == IsFiniteSet(PortId) /\ NoPort \notin Addr
ASSUME DocumentAssumption ==
  \A d \in Document : \A c \in Client : d[c] = NotSaved \/ d[c] \subseteq Patch

\* The first entry of the list that matches, 0 if there is none.
FindById(list, c) == LET Test(e) == e.id = c IN SelectInSeq(list, Test)
FindByName(list, n) == LET Test(e) == e.name = n IN SelectInSeq(list, Test)

\* jack_patch_set, for a connection that lashd read.
EndOf(list, a) == LET i == FindByName(list, a.client)
                  IN  IF i = 0 THEN ByName(a.client, a.port) ELSE ById(list[i].id, a.port)
SetPatches(list, patches) == {[src |-> EndOf(list, w[1]), dest |-> EndOf(list, w[2])] : w \in patches}

\* jack_patch_unset: the port names of a patch.  The loop leaves the last entry
\* when no entry has the uuid, and the test after it is of the list's head,
\* which is never NULL: an unknown client passes for the last one of the list.
Holder(list, c) == IF FindById(list, c) # 0 THEN list[FindById(list, c)] ELSE Last(list)
AddrOf(list, end) ==
  At(IF end.kind = "name" THEN end.of ELSE Holder(list, end.of).name, end.port)
Unset(list, p) == <<AddrOf(list, p.src), AddrOf(list, p.dest)>>

---------------------------------------------------------------------------
(* Resuming patches *)

OwnEnd(w, n, opened) == w[1].client = n /\ w[1].port \in opened
Touches(w, n, opened) == \E a \in {w[1], w[2]} : a.client = n /\ a.port \in opened

\* jack_connect
CanConnect(w) == {w[1], w[2]} \subseteq Registered /\ w \notin wires

\* jack_mgr_new_client_port, for one or more ports `opened` of an entry.  Of two
\* patches that come to the same connection the second one fails, and waits.
Resumed(list, e, opened) ==
  LET able == {p \in e.old_patches : /\ Touches(Unset(list, p), e.name, opened)
                                     /\ CanConnect(Unset(list, p))}
  IN  {p \in able : p = CHOOSE q \in able : Unset(list, q) = Unset(list, p)}

Reorders(k) == [i \in 1..k |-> [kind |-> "reorder"]]

\* The connection that a patch of the document means.
Meant(p) == <<At(name[p.src.of], p.src.port), At(name[p.dest.of], p.dest.port)>>

\* Two ways to give up a connection of the document: the client at one of its
\* ends spends it on a wrong connection, before the other client is known; or
\* the port at one of its ends is taken for a port of the dead client that had
\* the name before.
Misspent(list, e, opened) == {p \in Resumed(list, e, opened) \intersect due : Unset(list, p) # Meant(p)}
TakenFor(e, p) ==
  \E end \in {p.src, p.dest} : end.of # e.id /\ name[end.of] = e.name
GivenUp(list, e, opened) ==
  Misspent(list, e, opened) \union {p \in due : opened # {} /\ TakenFor(e, p)}

ResumePorts(list, i, opened, waiting) ==
  LET made == {Unset(list, p) : p \in Resumed(list, list[i], opened)}
  IN  /\ wires' = wires \union made
      /\ notices' = waiting \o Reorders(Cardinality(made))
      /\ due' = due \ GivenUp(list, list[i], opened)

AfterResuming(list, i, opened) ==
  [list EXCEPT ![i].old_patches = @ \ Resumed(list, list[i], opened)]

---------------------------------------------------------------------------
(* JACK and the programs: external *)

ExternalStep == UNCHANGED <<lashd, mgrVars, lash, projectVars, unread>>

OpenClient(x) ==
  /\ name[x] = NoName /\ (x \in Client => process[x] # "none")
  /\ \E n \in Name \ {name[y] : y \in Program} : name' = [name EXCEPT ![x] = n]
  /\ UNCHANGED <<ports, wires, processVars, notices, due>> /\ ExternalStep

FreeId == CHOOSE i \in PortId : ports[i] = NoPort /\ \A j \in PortId : ports[j] = NoPort => i <= j

\* jack_mgr_port_registration_cb
RegisterPort(x, p) ==
  /\ name[x] # NoName /\ At(name[x], p) \notin Registered /\ Len(notices) < MaxQueue
  /\ \E i \in PortId : ports[i] = NoPort
  /\ ports' = [ports EXCEPT ![FreeId] = At(name[x], p)]
  /\ notices' = Append(notices, [kind |-> "registered", id |-> FreeId])
  /\ UNCHANGED <<name, wires, processVars, due>> /\ ExternalStep

\* jack_mgr_graph_reorder_cb
WireOf(w) == <<At(name[w[1][1]], w[1][2]), At(name[w[2][1]], w[2][2])>>

UserConnects(w) ==
  /\ CanConnect(WireOf(w)) /\ Len(notices) < MaxQueue
  /\ wires' = wires \union {WireOf(w)} /\ notices' = notices \o Reorders(1)
  /\ UNCHANGED <<name, ports, processVars, due>> /\ ExternalStep

UserDisconnects(w) ==
  /\ w \in wires /\ Len(notices) < MaxQueue
  /\ wires' = wires \ {w} /\ notices' = notices \o Reorders(1)
  /\ due' = {p \in due : Meant(p) # w}
  /\ UNCHANGED <<name, ports, processVars>> /\ ExternalStep

\* A program ends, with its ports and their connections.
Exit(x) ==
  LET gone == {i \in PortId : ports[i] # NoPort /\ ports[i].client = name[x]}
  IN  /\ IF x \in Client THEN process[x] # "none" ELSE name[x] # NoName
      /\ ends < MaxEnds /\ ends' = ends + 1
      /\ Len(notices) < MaxQueue
      /\ name' = [name EXCEPT ![x] = NoName]
      /\ ports' = [i \in PortId |-> IF i \in gone THEN NoPort ELSE ports[i]]
      /\ wires' = {w \in wires : name[x] \notin {w[1].client, w[2].client}}
      /\ notices' = notices \o SetToSeq({[kind |-> "unregistered", id |-> i] : i \in gone})
                            \o (IF name[x] = NoName THEN <<>> ELSE Reorders(1))
      /\ process' = IF x \in Client THEN [process EXCEPT ![x] = "none"] ELSE process
      /\ UNCHANGED <<told, due>> /\ ExternalStep

\* A user starts a program that is a new LASH client.
Start(c) ==
  /\ loaded /\ lash[c].state = "none" /\ process[c] = "none"
  /\ process' = [process EXCEPT ![c] = "up"]
  /\ UNCHANGED <<jackVars, told, ends, notices, due>> /\ ExternalStep

\* lash_jack_client_name
TellName(c) ==
  /\ process[c] = "connected" /\ name[c] # NoName
  /\ process' = [process EXCEPT ![c] = "told"]
  /\ told' = [told EXCEPT ![c] = name[c]]
  /\ UNCHANGED <<jackVars, ends, notices, due>> /\ ExternalStep

---------------------------------------------------------------------------
(* The callback thread *)

\* jack_mgr_backup_patches, after each notice and timeout if the last one was
\* long enough ago.
Backup(list) ==
  [i \in DOMAIN list |-> [list[i] EXCEPT !.backup_patches = SetPatches(list, list[i].patches)]]
MaybeBackup(list) == clients' \in {list, Backup(list)}

\* jack_mgr_port_notification: a port of a known client, or a foreign port; the
\* number may be free again, or another port's.
PortNotification(id) ==
  LET addr == ports[id]
      i == IF addr = NoPort THEN 0 ELSE FindByName(clients, addr.client)
  IN  IF i # 0
      THEN /\ ResumePorts(clients, i, {addr.port}, Tail(notices))
           /\ MaybeBackup(AfterResuming(clients, i, {addr.port}))
           /\ UNCHANGED <<foreign_ports, unread>>
      ELSE /\ foreign_ports' = foreign_ports \union
                (IF addr = NoPort THEN {} ELSE {[id |-> id, addr |-> addr]})
           /\ notices' = Tail(notices) /\ MaybeBackup(clients)
           /\ UNCHANGED <<wires, due, unread>>

\* jack_mgr_remove_foreign_port deletes the first entry of the number. There is
\* one at most: a number is given back before it is given again, the notices come
\* in that order, and each notice of a new port adds one entry at most.
RemoveForeignPort(id) ==
  /\ foreign_ports' = {f \in foreign_ports : f.id # id}
  /\ notices' = Tail(notices) /\ MaybeBackup(clients)
  /\ UNCHANGED <<wires, due, unread>>

\* jack_mgr_graph_reorder_notification: what JACK says of every client by now,
\* and the foreign ports whose number is free are forgotten.
WiresOf(n) == {w \in wires : n \in {w[1].client, w[2].client}}
OutputsOnly(e) == [e EXCEPT !.patches = {w \in wires : e.name = w[1].client}]
GetPatches(e) == [e EXCEPT !.patches = WiresOf(e.name)]
GraphReorder ==
  /\ MaybeBackup([i \in DOMAIN clients |-> GetPatches(clients[i])])
  /\ foreign_ports' = {f \in foreign_ports : ports[f.id] # NoPort}
  /\ unread' = {} /\ notices' = Tail(notices)
  /\ UNCHANGED <<wires, due>>

ReadCallback ==
  /\ lashd /\ notices # <<>>
  /\ \/ Head(notices).kind = "registered" /\ PortNotification(Head(notices).id)
     \/ Head(notices).kind = "unregistered" /\ RemoveForeignPort(Head(notices).id)
     \/ Head(notices).kind = "reorder" /\ GraphReorder
  /\ UNCHANGED <<name, ports, processVars, lashd, lash, projectVars>>

BackupTimeout ==
  /\ lashd /\ notices = <<>> /\ clients' = Backup(clients)
  /\ UNCHANGED <<jackVars, processVars, notices, lashd, foreign_ports, lash, projectVars,
                 due, unread>>

---------------------------------------------------------------------------
(* The main thread *)

\* server_add_client: a new client, or a lost one that lashd launched.
Connect(c) ==
  /\ lashd /\ loaded /\ process[c] = "up" /\ lash[c].state \in {"none", "lost"}
  /\ process' = [process EXCEPT ![c] = "connected"]
  /\ lash' = [lash EXCEPT ![c].state = "running"]
  /\ UNCHANGED <<jackVars, told, ends, notices, lashd, mgrVars, projectVars, due, unread>>

\* jack_mgr_add_client: those of the client's ports that are known already are
\* new to it.
AddClient(c, n) ==
  LET list == Append(clients, NewEntry(c, n, lash[c].jack_patches))
      mine == {f \in foreign_ports : f.addr.client = n}
      opened == {f.addr.port : f \in mine}
  IN  /\ lash' = [lash EXCEPT ![c].jack_client_name = n, ![c].jack_patches = {}]
      /\ ResumePorts(list, Len(list), opened, notices)
      /\ clients' = AfterResuming(list, Len(list), opened)
      /\ foreign_ports' = foreign_ports \ mine
      /\ unread' = unread \union {c}

\* lashd_dbus_jack_name: only the first name of a client is taken.
JackName(c) ==
  /\ lashd /\ told[c] # NoName /\ told' = [told EXCEPT ![c] = NoName]
  /\ IF lash[c].jack_client_name = NoName
     THEN AddClient(c, told[c])
     ELSE UNCHANGED <<lash, wires, notices, mgrVars, due, unread>>
  /\ UNCHANGED <<name, ports, process, ends, lashd, projectVars>>

\* jack_mgr_remove_client, for each of `leavers`.
RemoveNothing(list, leavers) == list
Without(list, leavers) == Keeping(list, {i \in DOMAIN list : list[i].id \notin leavers})

\* project_lose_client.  jack_mgr_remove_client hands over the backup by
\* list_splice, which leaves the entry's list linked to it; the entry's end
\* frees them all, and the caller's list head, which is no patch: lashd fails.
LosesBackup(c) ==
  LET i == FindById(clients, c)
  IN  lash[c].jack_client_name # NoName /\ i # 0 /\ clients[i].backup_patches # {}

Disconnect(c) ==
  /\ lashd /\ lash[c].state = "running" /\ process[c] = "none" /\ told[c] = NoName
  /\ lashd' = ~LosesBackup(c)
  /\ clients' = Without(clients, {c})
  /\ lash' = [lash EXCEPT ![c].state = "lost"]
  /\ UNCHANGED <<jackVars, processVars, notices, foreign_ports, projectVars, due, unread>>

\* project_launch_client
Launch(c) ==
  /\ lashd /\ lash[c].state = "lost" /\ process[c] = "none"
  /\ process' = [process EXCEPT ![c] = "up"]
  /\ UNCHANGED <<jackVars, told, ends, notices, lashd, mgrVars, lash, projectVars, due, unread>>

\* project_save: the lost clients are dropped.  The others are asked to save.
Running == {c \in Client : lash[c].state = "running"}
Save ==
  /\ lashd /\ loaded /\ ~saving /\ saving' = TRUE
  /\ lash' = [c \in Client |-> IF lash[c].state = "lost"
                                THEN [lash[c] EXCEPT !.state = "gone"] ELSE lash[c]]
  /\ UNCHANGED <<jackVars, processVars, notices, lashd, mgrVars, loaded, doc, due, unread>>

\* project_clients_save_complete writes each client's copy of its connections
\* (jack_mgr_client_dup_uniq_patches).
ClientPatches(c) ==
  LET i == FindById(clients, c) IN IF i = 0 THEN {} ELSE SetPatches(clients, clients[i].patches)

SaveEnds ==
  /\ lashd /\ loaded /\ saving /\ saving' = FALSE
  /\ doc' = [c \in Client |-> IF c \in Running THEN ClientPatches(c) ELSE NotSaved]
  /\ UNCHANGED <<jackVars, processVars, notices, lashd, mgrVars, lash, loaded, due, unread>>

\* project_unload.  The processes are told to quit; what they still tell comes
\* from no client of the project (process "stray").
NoLash == [state |-> "gone", jack_client_name |-> NoName, jack_patches |-> {}]
Close ==
  /\ lashd /\ loaded /\ loaded' = FALSE /\ saving' = FALSE
  /\ clients' = Without(clients, Running)
  /\ lash' = [c \in Client |-> NoLash]
  /\ process' = [c \in Client |-> IF process[c] = "none" THEN "none" ELSE "stray"]
  /\ told' = [c \in Client |-> NoName] /\ due' = {}
  /\ UNCHANGED <<jackVars, ends, notices, lashd, foreign_ports, doc, unread>>

\* project_load: the document's clients are lost until they connect.  What it
\* says at both ends is due.
SavedIn(d) == {c \in Client : d[c] # NotSaved}
AtBothEnds(d) ==
  {p \in UNION {d[c] : c \in SavedIn(d)} : \A end \in {p.src, p.dest} :
     end.kind = "id" /\ end.of \in SavedIn(d) /\ p \in d[end.of]}
LashOf(d, other) == [c \in Client |->
  IF c \in SavedIn(d) THEN [NoLash EXCEPT !.state = "lost", !.jack_patches = d[c]]
  ELSE other[c]]

Load ==
  /\ lashd /\ ~loaded /\ SavedIn(doc) # {} /\ loaded' = TRUE
  /\ lash' = LashOf(doc, lash)
  /\ due' = AtBothEnds(doc)
  /\ UNCHANGED <<jackVars, processVars, notices, lashd, mgrVars, saving, doc, unread>>

---------------------------------------------------------------------------
\* lashd has a new project, or has loaded one of the documents.
NoClients == [c \in Client |-> NotSaved]
Fresh == [c \in Client |-> [NoLash EXCEPT !.state = "none"]]

Init ==
  /\ name = [x \in Program |-> NoName] /\ ports = [i \in PortId |-> NoPort] /\ wires = {}
  /\ process = [c \in Client |-> "none"] /\ told = [c \in Client |-> NoName] /\ ends = 0
  /\ notices = <<>> /\ lashd = TRUE /\ clients = <<>> /\ foreign_ports = {}
  /\ loaded = TRUE /\ saving = FALSE /\ unread = {}
  /\ doc \in Document \union {NoClients}
  /\ lash = LashOf(doc, Fresh) /\ due = AtBothEnds(doc)

Environment ==
  \/ \E x \in Program : OpenClient(x) \/ Exit(x) \/ \E p \in PortsOf[x] : RegisterPort(x, p)
  \/ \E w \in Wire : UserConnects(w)
  \/ \E w \in wires : UserDisconnects(w)
  \/ \E c \in Client : Start(c) \/ TellName(c)

Thread == ReadCallback \/ BackupTimeout

MainThread ==
  \/ \E c \in Client : Connect(c) \/ JackName(c) \/ Disconnect(c) \/ Launch(c)
  \/ Save \/ SaveEnds \/ Close \/ Load

\* Without lashd there is nothing left to follow.
Next == lashd /\ (Environment \/ Thread \/ MainThread)

Spec == Init /\ [][Next]_vars

---------------------------------------------------------------------------
(* Properties *)

Entry == [id : Client, name : Name, patches : SUBSET (Addr \X Addr),
          old_patches : SUBSET Patch, backup_patches : SUBSET Patch]

\* JACK's tables, the manager's lists and the project keep their types.
TypeOK ==
  /\ name \in [Program -> Name \union {NoName}]
  /\ ports \in [PortId -> Addr \union {NoPort}] /\ wires \subseteq Registered \X Registered
  /\ process \in [Client -> {"none", "up", "connected", "told", "stray"}]
  /\ told \in [Client -> Name \union {NoName}]
  /\ \A nt \in ToSet(notices) : nt.kind \in {"registered", "unregistered", "reorder"}
  /\ {lashd, loaded, saving} \subseteq BOOLEAN
  /\ ToSet(clients) \subseteq Entry /\ foreign_ports \subseteq [id : PortId, addr : Addr]
  /\ lash \in [Client -> [state : {"none", "running", "lost", "gone"},
                          jack_client_name : Name \union {NoName}, jack_patches : SUBSET Patch]]
  /\ \A c \in Client : doc[c] = NotSaved \/ doc[c] \subseteq Patch
  /\ due \subseteq Patch /\ unread \subseteq Client

\* lashd has read all that JACK's callbacks wrote.
Quiet == lashd /\ notices = <<>>

Has(c) == LET i == FindById(clients, c) IN i # 0 /\ clients[i].name = name[c]
Present(end) == Has(end.of) /\ At(name[end.of], end.port) \in Registered

\* A connection that the loaded document has at both its ends is restored, in
\* whatever order the two programs tell their names and register their ports,
\* and whichever port has the number of a notice when it is read
\* (jack_mgr_new_client_port, jack_mgr_check_client_ports); but for those that
\* one end gave up before.
RestoresConnections ==
  Quiet => \A p \in due : Present(p.src) /\ Present(p.dest) => Meant(p) \in wires

\* lashd connects only what a patch of a known client names: the uuids in it
\* mean the programs that are those clients, while they live, whoever has got
\* the name they once had; but for a uuid that no entry has, which the code
\* takes for the last entry of its list (jack_patch_unset_client_id).
Means(end, a) ==
  IF end.kind = "name" THEN a = At(end.of, end.port)
  ELSE /\ a.port = end.port
       /\ \/ process[end.of] = "none" \/ a.client = name[end.of]
          \/ FindById(clients', end.of) = 0
WaitingPatches ==
  (UNION {e.old_patches : e \in ToSet(clients)}) \union (UNION {lash[c].jack_patches : c \in Client})
ConnectsTheRightPrograms ==
  [][ReadCallback \/ (\E c \in Client : JackName(c)) =>
       \A w \in wires' \ wires : \E p \in WaitingPatches : Means(p.src, w[1]) /\ Means(p.dest, w[2])]_vars

\* A save writes for each client the connections it has, and names by uuid the
\* clients at their ends; but for clients with connections that JACK was not
\* asked for since they were added (jack_mgr_get_patches).
SavesConnections ==
  [][SaveEnds /\ Quiet =>
       \A c \in Running \ unread : Has(c) => doc'[c] = SetPatches(clients, WiresOf(name[c]))]_vars
=============================================================================
