---------------------------- MODULE AlsaManager ----------------------------
(***************************************************************************)
(* The ALSA manager of lashd (lashd/alsa_mgr.c): a thread of its own reads *)
(* the sequencer's announcements, keeps a copy of the connections of the   *)
(* clients that told their ALSA id, and connects the ports that a restored *)
(* client was connected to.  The main thread adds and removes clients and  *)
(* writes their connections into the project's document.  Both work under  *)
(* the manager's lock, one step of the model for each time they hold it;   *)
(* the copy is read while the sequencer goes on, which announces it later. *)
(*                                                                         *)
(* The sequencer is external: it numbers programs, and uses the number of  *)
(* one that is gone for another.  Of the rest of lashd there is one        *)
(* project.  A LASH client's call that tells its id may reach lashd when   *)
(* the process is dead, but before the notice of its death.                *)
(*                                                                         *)
(* Nobody uses SourceOnly, SendingOnly and RemoveNothing: each is a faulty  *)
(* variant of the operator below it, for a property to detect.             *)
(***************************************************************************)
EXTENDS Lists, FiniteSets, SequencesExt

CONSTANTS
  Client,      \* LASH clients, by uuid; each is a program
  Foreign,     \* programs that do not use LASH
  PortsOf,     \* the port numbers that each program opens
  Wire,        \* the connections a user may make: pairs of <<program, port>>
  Number,      \* ALSA client ids; 0 is not one
  NotSaved,    \* a client that is not in the project's document
  Document,    \* the documents that lashd may have loaded
  MaxEnds,     \* bound on ends of processes
  MaxQueue     \* bound on the announcements that wait, but for lashd's own

Program == Client \union Foreign

ASSUME AlsaAssumption ==
  /\ Client \intersect Foreign = {}
  /\ DOMAIN PortsOf = Program
  /\ 0 \notin Number
  /\ \A w \in Wire : \A e \in {w[1], w[2]} : e[1] \in Program /\ e[2] \in PortsOf[e[1]]
  /\ {MaxEnds, MaxQueue} \subseteq Nat

VARIABLES
  number, ports, subs,  \* the sequencer: ids of programs, ports, subscriptions
  process,              \* what the process of a LASH client has done so far
  told,                 \* AlsaClientId calls on their way: 0 if there is none
  events,               \* announcements on their way to the event thread
  ends,                 \* ends of processes so far, for the bound
  lashd,                \* is lashd running?
  clients, foreign_ports,  \* the manager's lists
  lash,                 \* the LASH clients of the project
  loaded, saving, doc,  \* the project
  due,     \* history: connections of the document that lashd has to restore
  unread   \* history: clients whose connections the sequencer did not announce

sequencerVars == <<number, ports, subs>>
processVars == <<process, told, ends>>
mgrVars == <<clients, foreign_ports>>
projectVars == <<loaded, saving, doc>>
vars == <<sequencerVars, processVars, events, lashd, mgrVars, lash, projectVars,
          due, unread>>

---------------------------------------------------------------------------
(* Addresses, patches, entries *)

Addr == [client : Number, port : UNION {PortsOf[x] : x \in Program}]
At(n, p) == [client |-> n, port |-> p]

\* A patch in a document or a backup names each end by uuid, if the client
\* there is known, or by its number (alsa_patch_t).
ById(c, p) == [kind |-> "id", of |-> c, port |-> p]
ByNumber(n, p) == [kind |-> "number", of |-> n, port |-> p]

Patch == LET End == {ById(c, a.port) : c \in Client, a \in Addr}
                   \union {ByNumber(a.client, a.port) : a \in Addr}
         IN  [src : End, dest : End]

NewEntry(c, n, patches) ==
  [id |-> c, client_id |-> n, patches |-> {}, old_patches |-> patches,
   backup_patches |-> {}]

\* What a document says of clients is patches.
ASSUME DocumentAssumption ==
  \A d \in Document : \A c \in Client : d[c] = NotSaved \/ d[c] \subseteq Patch

\* alsa_mgr_get_client, and the loops that look for a number: the first match,
\* 0 if there is none.
FindById(list, c) == LET Test(e) == e.id = c IN SelectInSeq(list, Test)
FindByNumber(list, n) == LET Test(e) == e.client_id = n IN SelectInSeq(list, Test)

\* alsa_patch_set, for a subscription that lashd read.
EndOf(list, a) == LET i == FindByNumber(list, a.client)
                  IN  IF i = 0 THEN ByNumber(a.client, a.port) ELSE ById(list[i].id, a.port)
PatchOf(list, s) == [src |-> EndOf(list, s[1]), dest |-> EndOf(list, s[2])]
SetPatches(list, patches) == {PatchOf(list, s) : s \in patches}

\* alsa_patch_unset: the addresses of a patch; it fails if a client is unknown.
Known(list, end) == end.kind = "number" \/ FindById(list, end.of) # 0
CanUnset(list, p) == Known(list, p.src) /\ Known(list, p.dest)
AddrOf(list, end) ==
  At(IF end.kind = "number" THEN end.of ELSE list[FindById(list, end.of)].client_id, end.port)
Unset(list, p) == <<AddrOf(list, p.src), AddrOf(list, p.dest)>>

---------------------------------------------------------------------------
(* Resuming patches *)

SourceOnly(s, n, opened) == s[1].client = n /\ s[1].port \in opened
Touches(s, n, opened) == \E a \in {s[1], s[2]} : a.client = n /\ a.port \in opened

\* alsa_mgr_new_client_port, for one or more ports `opened` of an entry: a patch
\* whose other client is unknown is dropped, one that can be connected is.
Tried(list, e, opened) ==
  IF opened = {} THEN {}
  ELSE {p \in e.old_patches : CanUnset(list, p) /\ Touches(Unset(list, p), e.client_id, opened)}

\* snd_seq_subscribe_port
CanSubscribe(s) == s[1] \in ports /\ s[2] \in ports /\ s \notin subs

\* Of two patches that come to the same subscription the second one fails.
Resumed(list, e, opened) ==
  LET able == {p \in Tried(list, e, opened) : CanSubscribe(Unset(list, p))}
  IN  {p \in able : p = CHOOSE q \in able : Unset(list, q) = Unset(list, p)}

Dropped(list, e, opened) ==
  IF opened = {} THEN {} ELSE {p \in e.old_patches : ~CanUnset(list, p)}

Changed(k) == [i \in 1..k |-> [kind |-> "changed"]]

\* Two ways to give up a connection of the document: the client at one of its
\* ends drops it before that end is there, so that the other end cannot be
\* connected yet, and does not try again; or the port at one of its ends is
\* taken for a port of the dead client that had the number before.
OwnEndMissing(e, p) ==
  \E end \in {p.src, p.dest} : end.of = e.id /\ At(e.client_id, end.port) \notin ports
TakenFor(e, p) ==
  \E end \in {p.src, p.dest} : end.of # e.id /\ number[end.of] = e.client_id

GivenUp(list, e, opened) ==
  {p \in Dropped(list, e, opened) : OwnEndMissing(e, p)}
  \union {p \in due : opened # {} /\ TakenFor(e, p)}

ResumePorts(list, i, opened, waiting) ==
  LET e == list[i]
      made == {Unset(list, p) : p \in Resumed(list, e, opened)}
  IN  /\ subs' = subs \union made
      /\ events' = waiting \o Changed(Cardinality(made))
      /\ due' = due \ GivenUp(list, e, opened)

AfterResuming(list, i, opened) ==
  [list EXCEPT ![i].old_patches =
     @ \ (Resumed(list, list[i], opened) \union Dropped(list, list[i], opened))]

---------------------------------------------------------------------------
(* The sequencer and the programs: external *)

ExternalStep == UNCHANGED <<lashd, mgrVars, lash, projectVars>>

OpenSequencer(x) ==
  /\ number[x] = 0 /\ (x \in Client => process[x] # "none")
  /\ \E n \in Number \ {number[y] : y \in Program} : number' = [number EXCEPT ![x] = n]
  /\ UNCHANGED <<ports, subs, processVars, events, due, unread>> /\ ExternalStep

OpenPort(x, p) ==
  /\ number[x] # 0 /\ At(number[x], p) \notin ports /\ Len(events) < MaxQueue
  /\ ports' = ports \union {At(number[x], p)}
  /\ events' = Append(events, [kind |-> "start", addr |-> At(number[x], p)])
  /\ UNCHANGED <<number, subs, processVars, due, unread>> /\ ExternalStep

SubOf(w) == <<At(number[w[1][1]], w[1][2]), At(number[w[2][1]], w[2][2])>>

UserConnects(w) ==
  /\ CanSubscribe(SubOf(w)) /\ Len(events) < MaxQueue
  /\ subs' = subs \union {SubOf(w)} /\ events' = events \o Changed(1)
  /\ UNCHANGED <<number, ports, processVars, due, unread>> /\ ExternalStep

\* The subscription that a connection of the document means.
Meant(p) == <<At(number[p.src.of], p.src.port), At(number[p.dest.of], p.dest.port)>>

UserDisconnects(s) ==
  /\ s \in subs /\ Len(events) < MaxQueue
  /\ subs' = subs \ {s} /\ events' = events \o Changed(1)
  /\ due' = {p \in due : Meant(p) # s}
  /\ UNCHANGED <<number, ports, processVars, unread>> /\ ExternalStep

\* A program ends: its ports are announced to have gone, not its connections.
Exit(x) ==
  LET gone == {a \in ports : a.client = number[x]}
      cut == {s \in subs : number[x] \in {s[1].client, s[2].client}}
  IN  /\ IF x \in Client THEN process[x] # "none" ELSE number[x] # 0
      /\ ends < MaxEnds /\ ends' = ends + 1
      /\ Len(events) < MaxQueue
      /\ number' = [number EXCEPT ![x] = 0]
      /\ ports' = ports \ gone /\ subs' = subs \ cut
      /\ events' = events \o SetToSeq({[kind |-> "exit", addr |-> a] : a \in gone})
      /\ process' = IF x \in Client THEN [process EXCEPT ![x] = "none"] ELSE process
      /\ unread' = unread \union {c \in Client : \E s \in cut : number[c] \in {s[1].client, s[2].client}}
      /\ UNCHANGED <<told, due>> /\ ExternalStep

\* A user starts a program that is a new LASH client.
Start(c) ==
  /\ loaded /\ lash[c].state = "none" /\ process[c] = "none"
  /\ process' = [process EXCEPT ![c] = "up"]
  /\ UNCHANGED <<sequencerVars, told, ends, events, due, unread>> /\ ExternalStep

\* lash_alsa_client_id
TellId(c) ==
  /\ process[c] = "connected" /\ number[c] # 0
  /\ process' = [process EXCEPT ![c] = "told"]
  /\ told' = [told EXCEPT ![c] = number[c]]
  /\ UNCHANGED <<sequencerVars, ends, events, due, unread>> /\ ExternalStep

---------------------------------------------------------------------------
(* The event thread *)

\* alsa_mgr_backup_patches, after each event if the last one was long enough
\* ago.
Backup(list) ==
  [i \in DOMAIN list |-> [list[i] EXCEPT !.backup_patches = SetPatches(list, list[i].patches)]]
MaybeBackup(list) == clients' \in {list, Backup(list)}

\* alsa_mgr_new_port: a port of a known client, or a foreign port.
NewPort(a) ==
  LET i == FindByNumber(clients, a.client)
  IN  /\ IF i # 0
         THEN /\ ResumePorts(clients, i, {a.port}, Tail(events))
              /\ MaybeBackup(AfterResuming(clients, i, {a.port}))
              /\ UNCHANGED foreign_ports
         ELSE /\ foreign_ports' = foreign_ports \union {a}
              /\ events' = Tail(events) /\ MaybeBackup(clients)
              /\ UNCHANGED <<subs, due>>
      /\ UNCHANGED unread

\* alsa_mgr_port_removed
PortRemoved(a) ==
  /\ foreign_ports' = foreign_ports \ {a}
  /\ events' = Tail(events) /\ MaybeBackup(clients)
  /\ UNCHANGED <<subs, due, unread>>

\* alsa_mgr_redo_patches: what the sequencer says of every client, by now.
SubsOf(n) == {s \in subs : n \in {s[1].client, s[2].client}}
SendingOnly(e) == [e EXCEPT !.patches = {s \in subs : e.client_id = s[1].client}]
Refreshed(e) == [e EXCEPT !.patches = SubsOf(e.client_id)]
RedoPatches ==
  /\ MaybeBackup([i \in DOMAIN clients |-> Refreshed(clients[i])])
  /\ unread' = {} /\ events' = Tail(events)
  /\ UNCHANGED <<foreign_ports, subs, due>>

HandleEvent ==
  /\ lashd /\ events # <<>>
  /\ \/ Head(events).kind = "start" /\ NewPort(Head(events).addr)
     \/ Head(events).kind = "exit" /\ PortRemoved(Head(events).addr)
     \/ Head(events).kind = "changed" /\ RedoPatches
  /\ UNCHANGED <<number, ports, processVars, lashd, lash, projectVars>>

---------------------------------------------------------------------------
(* The main thread *)

\* server_add_client: a new client, or a lost one that lashd launched.
Connect(c) ==
  /\ lashd /\ loaded /\ process[c] = "up" /\ lash[c].state \in {"none", "lost"}
  /\ process' = [process EXCEPT ![c] = "connected"]
  /\ lash' = [lash EXCEPT ![c].state = "running"]
  /\ UNCHANGED <<sequencerVars, told, ends, events, lashd, mgrVars, projectVars, due, unread>>

\* lashd_dbus_alsa_id, alsa_mgr_add_client: only the first id of a client is
\* taken, and those of its ports that are known already are new to it.
PortsWaiting(n) == {a.port : a \in {f \in foreign_ports : f.client = n}}

AddClient(c, n) ==
  LET list == Append(clients, NewEntry(c, n, lash[c].alsa_patches))
      opened == PortsWaiting(n)
  IN  /\ lash' = [lash EXCEPT ![c].alsa_client_id = n, ![c].alsa_patches = {}]
      /\ ResumePorts(list, Len(list), opened, events)
      /\ clients' = AfterResuming(list, Len(list), opened)
      /\ foreign_ports' = foreign_ports \ {At(n, p) : p \in opened}
      /\ unread' = unread \union {c}

AlsaClientId(c) ==
  /\ lashd /\ told[c] # 0 /\ told' = [told EXCEPT ![c] = 0]
  /\ IF lash[c].alsa_client_id = 0
     THEN AddClient(c, told[c])
     ELSE UNCHANGED <<lash, subs, events, mgrVars, due, unread>>
  /\ UNCHANGED <<number, ports, process, ends, lashd, projectVars>>

\* alsa_mgr_remove_client, for each of `leavers`.
RemoveNothing(list, leavers) == list
Without(list, leavers) == Keeping(list, {i \in DOMAIN list : list[i].id \notin leavers})

\* project_lose_client.  alsa_mgr_remove_client hands over the backup by
\* list_splice, which leaves the entry's list linked to it; the entry's end
\* frees them all, and the caller's list head, which is no patch: lashd fails.
LosesBackup(c) ==
  LET i == FindById(clients, c)
  IN  lash[c].alsa_client_id # 0 /\ i # 0 /\ clients[i].backup_patches # {}

Disconnect(c) ==
  /\ lashd /\ lash[c].state = "running" /\ process[c] = "none" /\ told[c] = 0
  /\ lashd' = ~LosesBackup(c)
  /\ clients' = Without(clients, {c})
  /\ lash' = [lash EXCEPT ![c].state = "lost"]
  /\ UNCHANGED <<sequencerVars, processVars, events, foreign_ports, projectVars, due, unread>>

\* project_launch_client
Launch(c) ==
  /\ lashd /\ lash[c].state = "lost" /\ process[c] = "none"
  /\ process' = [process EXCEPT ![c] = "up"]
  /\ UNCHANGED <<sequencerVars, told, ends, events, lashd, mgrVars, lash, projectVars,
                 due, unread>>

\* project_save: the lost clients are dropped.  The others are asked to save.
Running == {c \in Client : lash[c].state = "running"}
Save ==
  /\ lashd /\ loaded /\ ~saving /\ saving' = TRUE
  /\ lash' = [c \in Client |-> IF lash[c].state = "lost"
                                THEN [lash[c] EXCEPT !.state = "gone"] ELSE lash[c]]
  /\ UNCHANGED <<sequencerVars, processVars, events, lashd, mgrVars, loaded, doc, due, unread>>

\* project_clients_save_complete writes each client's copy of its connections
\* (alsa_mgr_get_client_patches).
ClientPatches(c) ==
  LET i == IF lash[c].alsa_client_id = 0 THEN 0 ELSE FindById(clients, c)
  IN  IF i = 0 THEN {} ELSE SetPatches(clients, clients[i].patches)

SaveEnds ==
  /\ lashd /\ loaded /\ saving /\ saving' = FALSE
  /\ doc' = [c \in Client |-> IF c \in Running THEN ClientPatches(c) ELSE NotSaved]
  /\ UNCHANGED <<sequencerVars, processVars, events, lashd, mgrVars, lash, loaded, due, unread>>

\* project_unload.  The processes are told to quit; what they still tell comes
\* from no client of the project (process "stray").
Close ==
  /\ lashd /\ loaded /\ loaded' = FALSE /\ saving' = FALSE
  /\ clients' = Without(clients, Running)
  /\ lash' = [c \in Client |-> [state |-> "gone", alsa_client_id |-> 0, alsa_patches |-> {}]]
  /\ process' = [c \in Client |-> IF process[c] = "none" THEN "none" ELSE "stray"]
  /\ told' = [c \in Client |-> 0] /\ due' = {}
  /\ UNCHANGED <<sequencerVars, ends, events, lashd, foreign_ports, doc, unread>>

\* project_load: the document's clients are lost until they connect.  What it
\* says at both ends is due.  (The load's task, which would only delay a save,
\* ends at will.)
SavedIn(d) == {c \in Client : d[c] # NotSaved}
AtBothEnds(d) ==
  {p \in UNION {d[c] : c \in SavedIn(d)} : \A end \in {p.src, p.dest} :
     end.kind = "id" /\ end.of \in SavedIn(d) /\ p \in d[end.of]}
LashOf(d, other) == [c \in Client |->
  IF c \in SavedIn(d) THEN [state |-> "lost", alsa_client_id |-> 0, alsa_patches |-> d[c]]
  ELSE other[c]]

Load ==
  /\ lashd /\ ~loaded /\ SavedIn(doc) # {} /\ loaded' = TRUE
  /\ lash' = LashOf(doc, lash)
  /\ due' = AtBothEnds(doc)
  /\ UNCHANGED <<sequencerVars, processVars, events, lashd, mgrVars, saving, doc, unread>>

---------------------------------------------------------------------------
\* lashd has a new project, or has loaded one of the documents.
NoClients == [c \in Client |-> NotSaved]
Fresh == [c \in Client |-> [state |-> "none", alsa_client_id |-> 0, alsa_patches |-> {}]]

Init ==
  /\ number = [x \in Program |-> 0] /\ ports = {} /\ subs = {}
  /\ process = [c \in Client |-> "none"] /\ told = [c \in Client |-> 0] /\ ends = 0
  /\ events = <<>> /\ lashd = TRUE /\ clients = <<>> /\ foreign_ports = {}
  /\ loaded = TRUE /\ saving = FALSE /\ unread = {}
  /\ doc \in Document \union {NoClients}
  /\ lash = LashOf(doc, Fresh) /\ due = AtBothEnds(doc)

Environment ==
  \/ \E x \in Program : OpenSequencer(x) \/ Exit(x) \/ \E p \in PortsOf[x] : OpenPort(x, p)
  \/ \E w \in Wire : UserConnects(w)
  \/ \E s \in subs : UserDisconnects(s)
  \/ \E c \in Client : Start(c) \/ TellId(c)

Lashd ==
  \/ HandleEvent
  \/ \E c \in Client : Connect(c) \/ AlsaClientId(c) \/ Disconnect(c) \/ Launch(c)
  \/ Save \/ SaveEnds \/ Close \/ Load

\* Without lashd there is nothing left to follow.
Next == lashd /\ (Environment \/ Lashd)

Spec == Init /\ [][Next]_vars

---------------------------------------------------------------------------
(* Properties *)

Entry == [id : Client, client_id : Number, patches : SUBSET (Addr \X Addr),
          old_patches : SUBSET Patch, backup_patches : SUBSET Patch]

\* The sequencer's tables, the manager's lists and the project keep their types.
TypeOK ==
  /\ number \in [Program -> Number \union {0}]
  /\ ports \subseteq Addr /\ subs \subseteq ports \X ports
  /\ process \in [Client -> {"none", "up", "connected", "told", "stray"}]
  /\ told \in [Client -> Number \union {0}]
  /\ \A ev \in ToSet(events) : ev.kind \in {"start", "exit", "changed"}
  /\ {lashd, loaded, saving} \subseteq BOOLEAN
  /\ ToSet(clients) \subseteq Entry /\ foreign_ports \subseteq Addr
  /\ lash \in [Client -> [state : {"none", "running", "lost", "gone"},
                          alsa_client_id : Number \union {0}, alsa_patches : SUBSET Patch]]
  /\ \A c \in Client : doc[c] = NotSaved \/ doc[c] \subseteq Patch
  /\ due \subseteq Patch /\ unread \subseteq Client

\* lashd has heard all that the sequencer announced.
Quiet == lashd /\ events = <<>>

Present(end) ==
  LET i == FindById(clients, end.of)
  IN  i # 0 /\ clients[i].client_id = number[end.of] /\ At(number[end.of], end.port) \in ports

\* A connection that the loaded document has at both its ends is restored, in
\* whatever order the two programs tell their ids and open their ports
\* (alsa_mgr_new_client_port, alsa_mgr_check_client_fports); but for those
\* that one end gave up before it was there.
RestoresConnections ==
  Quiet => \A p \in due : Present(p.src) /\ Present(p.dest) => Meant(p) \in subs

\* lashd connects only what a patch of a known client names: the uuids in it
\* mean the programs that are those clients, while they live, whoever has got
\* the number they once had (alsa_patch_unset, alsa_mgr_remove_client).
Means(end, a) ==
  IF end.kind = "number" THEN a = At(end.of, end.port)
  ELSE a.port = end.port /\ (process[end.of] = "none" \/ a.client = number[end.of])
WaitingPatches ==
  (UNION {e.old_patches : e \in ToSet(clients)}) \union (UNION {lash[c].alsa_patches : c \in Client})
ConnectsTheRightPrograms ==
  [][HandleEvent \/ (\E c \in Client : AlsaClientId(c)) =>
       \A s \in subs' \ subs : \E p \in WaitingPatches : Means(p.src, s[1]) /\ Means(p.dest, s[2])]_vars

\* A save writes for each client the connections it has, and names by uuid the
\* clients at their ends; but for clients with connections that the sequencer
\* has not announced since it was last asked.
Has(c) == LET i == FindById(clients, c) IN i # 0 /\ clients[i].client_id = number[c]
SavesConnections ==
  [][SaveEnds /\ Quiet =>
       \A c \in Running \ unread : Has(c) => doc'[c] = SetPatches(clients, SubsOf(number[c]))]_vars

\* project.h:209: when a client is lost its "backup" patches are retrieved and
\* stored in the client's structure, so that its connections can be resumed
\* automatically (NEWS:79-81).  lashd fails instead, so no run checks this:
\* as a PROPERTY of AlsaManager.cfg it has a counterexample.
LostClientsKeepBackups ==
  [][\A c \in Client : Disconnect(c) => lashd']_vars
=============================================================================
