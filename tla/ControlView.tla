----------------------------- MODULE ControlView -----------------------------
(***************************************************************************)
(* What a controller shows of lashd's projects, and what its user does     *)
(* with it: the shell (clients/shell) or the panel (clients/panel), over   *)
(* the controller's side of liblash.  lashd tells the controllers of its   *)
(* projects by signals that carry names; the controllers keep a list by    *)
(* name and send calls that carry names.                                   *)
(*                                                                         *)
(* lashd is reduced to its loaded projects (ServerProjects has the whole   *)
(* of it) and carries out a call in one step.  Both buses are queues:      *)
(* `wire` from lashd to the controller, `calls` back.  What no controller  *)
(* shows or both only print (progress, descriptions, names of clients) is  *)
(* left out.                                                               *)
(*                                                                         *)
(* Nobody uses OldNameLast, FirstEntry, SelectNewest, NextPage and         *)
(* DropRemovals: each is a faulty variant of the operator below it.        *)
(***************************************************************************)
EXTENDS Naturals, FiniteSets, SequencesExt

CONSTANTS
  Project,      \* project_t objects; a project's first directory is itself
  Name,
  Client,       \* programs, by the id that lashd gave them
  Elsewhere,    \* a directory where no project is at first
  None,
  Documents,    \* what the projects may be saved as when lashd starts
  MaxEvents,    \* bound on what others than the controller do
  MaxCommands,  \* bound on what the controller's user does
  MaxAdded      \* bound on the projects that a controller hears of

Directory == Project \union {Elsewhere}

ASSUME ControlAssumption ==
  /\ None \notin Project \union Name \union Client \union {Elsewhere}
  /\ Documents \subseteq [Project -> Name \union {None}]
  /\ MaxEvents \in Nat /\ MaxCommands \in Nat /\ MaxAdded \in Nat

VARIABLES
  server,   \* lashd: its projects, which are loaded, its clients
  wire,     \* signals on their way to the controller
  calls,    \* calls on their way to lashd
  kind,     \* "shell" or "panel"
  known,    \* is_controller: registered for signals
  view,     \* the controller's list, selection, pages
  dialog,   \* the panel's open "Set Project Directory" dialog
  events, commands,
  \* history
  missed,   \* the projects that were loaded before the controller registered
  owners,   \* the projects that have had a name
  confused  \* a loaded project's name was announced for another one

serverVars == <<server, owners, missed, confused>>
controlVars == <<kind, known, view, dialog>>
vars == <<serverVars, wire, calls, controlVars, events, commands>>

Key == 1..MaxAdded
Entry == [key : Key, of : Project, name : Name, dir : Directory \union {None},
          clients : Seq(Client), page : 0..MaxAdded]

TypeOK ==
  /\ server.project \in [Project -> [name : Name, dir : Directory, doc : Name \union {None},
                                     move_on_close : BOOLEAN]]
  /\ server.loaded \in Seq(Project) /\ IsInjective(server.loaded)
  /\ server.at \in [Client -> Project \union {None}] /\ server.up \subseteq Client
  /\ \A i \in DOMAIN calls : calls[i].op \in {"save", "close", "name", "dir", "restore"}
  /\ kind \in {"shell", "panel"} /\ known \in BOOLEAN /\ confused \in BOOLEAN
  /\ view.list \in Seq(Entry) /\ view.pages \in Seq(Key) /\ view.cur \in {0} \union Key
  /\ dialog \in {0} \union Key
  /\ missed \subseteq Project /\ owners \in [Name -> SUBSET Project]

Loaded == ToSet(server.loaded)
NameOf(p) == server.project[p].name

---------------------------------------------------------------------------
(* lashd.  A handler's effect is a new `server` and the signals it sends,  *)
(* in a record s of the two.                                               *)

Now == [server |-> server, told |-> <<>>]

\* lashd_dbus_signal_emit_*: `of` is the project it is about, for the history.
Tell(s, type, of, a, b) ==
  [s EXCEPT !.told = Append(@, [type |-> type, of |-> of, name |-> a, arg |-> b])]

\* server_find_project_by_name
FindProject(n) ==
  LET i == SelectInSeq(server.loaded, LAMBDA p : NameOf(p) = n)
  IN  IF i = 0 THEN None ELSE server.loaded[i]

\* A name that server_create_new_project_name may find: which one it is
\* depends on the disk.
Unused(n) == FindProject(n) = None

\* project_rename: it announces the name even if it is not another one.
OldNameLast(s, p, new) ==
  LET old == s.server.project[p].name
  IN  Tell([s EXCEPT !.server.project[p].name = new,
                     !.server.project[p].move_on_close = @ \/ new # old],
           "ProjectNameChanged", p, new, old)
Renamed(s, p, new) ==
  LET old == s.server.project[p].name
  IN  Tell([s EXCEPT !.server.project[p].name = new,
                     !.server.project[p].move_on_close = @ \/ new # old],
           "ProjectNameChanged", p, old, new)

\* project_move, to a directory that does not exist; it may fail.
Free(d) == \A p \in Project : server.project[p].dir # d
Moved(s, p, d) ==
  Tell([s EXCEPT !.server.project[p].dir = d], "ProjectPathChanged", p, s.server.project[p].name, d)
MaybeMoved(s, p, d) == {s} \union (IF Free(d) THEN {Moved(s, p, d)} ELSE {})

\* server_create_new_project and server_project_restore: the project is added
\* to the list's tail and told of, the document's name has come back; a name
\* that clashes is changed before the project is told of.
Appeared(s, p) ==
  Tell([s EXCEPT !.server.loaded = Append(@, p)], "ProjectAppeared", p, s.server.project[p].name, None)

Restored(p) ==
  LET doc == server.project[p].doc
      read == [Now EXCEPT !.server.project[p].name = doc]
  IN  IF p \in Loaded \/ doc = None THEN {}
      ELSE IF Unused(doc) THEN {Appeared(read, p)}
      ELSE {Appeared(Renamed(read, p, new), p) : new \in {n \in Name : Unused(n)}}

\* project_save: what the document has of the project is its name here.
Saved(p) == [Now EXCEPT !.server.project[p].doc = NameOf(p)]

\* server_close_project and project_unload: the clients are not told of.  A
\* project that was never saved is gone; of one that was, `kept` is the clients
\* in its document, which come back when it is restored.
Closed(p) ==
  LET its == {c \in Client : server.at[c] = p}
      saved == server.project[p].doc # None
      unloaded(kept) == [Now EXCEPT !.server.loaded = SelectSeq(@, LAMBDA q : q # p),
                                    !.server.at = [c \in Client |-> IF c \in its \ kept THEN None ELSE @[c]],
                                    !.server.up = @ \ its]
      moved(s) == IF server.project[p].move_on_close
                  THEN MaybeMoved(s, p, Elsewhere) ELSE {s}
  IN  {Tell(s, "ProjectDisappeared", p, NameOf(p), None) :
         s \in UNION {moved(unloaded(kept)) : kept \in IF saved THEN SUBSET its ELSE {{}}}}

\* What a call does (lashd_dbus_project_* and lashd_dbus_load_project_path):
\* nothing, or an error that nobody reads, for a project it does not find.
CarriedOut(op, p, arg) ==
  IF p = None THEN {Now}
  ELSE CASE op = "save" -> {Saved(p)}
         [] op = "close" -> Closed(p)
         [] op = "name" -> {Renamed(Now, p, arg)}
         [] op = "dir" -> MaybeMoved(Now, p, arg)

RestoredByDir(d) ==
  LET there == {p \in Project : server.project[p].dir = d /\ server.project[p].doc # None}
      s == UNION {Restored(p) : p \in there}
  IN  IF s = {} THEN {Now} ELSE s

\* A signal reaches a controller that is registered.
Becomes(s) ==
  /\ server' = s.server
  /\ wire' = IF known THEN wire \o s.told ELSE wire
  /\ owners' = [n \in Name |-> owners[n] \union
                  {p \in ToSet(s.server.loaded) : s.server.project[p].name = n}]
  /\ missed' = missed \intersect ToSet(s.server.loaded)
  /\ confused' = (confused \/ \E i \in DOMAIN s.told :
        /\ s.told[i].type \in {"ProjectNameChanged", "ProjectAppeared"}
        /\ \E p \in Loaded \ {s.told[i].of} : NameOf(p) \in {s.told[i].name, s.told[i].arg})

Serve ==
  /\ calls # <<>> /\ calls' = Tail(calls)
  /\ LET c == Head(calls)
     IN  \E s \in IF c.op = "restore" THEN RestoredByDir(c.arg)
                  ELSE CarriedOut(c.op, FindProject(c.name), c.arg) : Becomes(s)
  /\ UNCHANGED <<controlVars, events, commands>>

Event == events < MaxEvents /\ events' = events + 1 /\ UNCHANGED <<calls, controlVars, commands>>

\* Other controllers
OthersAsk ==
  /\ Event
  /\ \/ \E p \in Loaded, op \in {"save", "close"} : \E s \in CarriedOut(op, p, None) : Becomes(s)
     \/ \E p \in Loaded, n \in Name : \E s \in CarriedOut("name", p, n) : Becomes(s)
     \/ \E p \in Loaded : \E s \in CarriedOut("dir", p, Elsewhere) : Becomes(s)
     \/ \E p \in Project : \E s \in Restored(p) : Becomes(s)

\* server_add_client: a client that is expected resumes (client_resume_project),
\* a new one is put into a loaded project (server_get_newborn_project: which one
\* depends on the documents), or into a new project if none is loaded.
Joined(s, c, p) ==
  Tell([s EXCEPT !.server.at[c] = p, !.server.up = @ \union {c}],
       "ClientAppeared", p, s.server.project[p].name, c)

ClientComes(c) ==
  /\ Event /\ c \notin server.up
  /\ \/ \E p \in Loaded : server.at[c] \in {p, None} /\ Becomes(Joined(Now, c, p))
     \/ /\ server.loaded = <<>> /\ server.at[c] = None
        /\ \E p \in {q \in Project : server.project[q].doc = None}, n \in Name :
             Becomes(Joined(Appeared([Now EXCEPT !.server.project[p].name = n,
                                                 !.server.project[p].move_on_close = FALSE], p), c, p))

\* project_lose_client
ClientGoes(c) ==
  /\ Event /\ c \in server.up
  /\ LET p == server.at[c]
     IN  Becomes(Tell([Now EXCEPT !.server.up = @ \ {c}], "ClientDisappeared", p, NameOf(p), c))

---------------------------------------------------------------------------
(* The controller's callback: lash_control_cb, deal_with_event *)

\* find_project_by_name, get_project
FirstEntry(v, n) == IF v.list = <<>> THEN 0 ELSE 1
Find(v, n) == SelectInSeq(v.list, LAMBDA e : e.name = n)

Listed(v) == {v.list[i].key : i \in DOMAIN v.list}
EntryOf(v, k) == v.list[CHOOSE i \in DOMAIN v.list : v.list[i].key = k]

Shell == kind = "shell"
Panel == kind = "panel"

\* The shell selects a project if it is the only one.
SelectNewest(v) == Shell
SelectsIt(v) == Shell /\ v.list = <<>>

\* gtk_notebook_append_page returns the place of the page, from 0.
NextPage(v) == Len(v.pages) + 1
PageNumber(v) == Len(v.pages)

\* project_new, project_create: the directory is not told.
NewEntry(v, s) ==
  [key |-> v.added + 1, of |-> s.of, name |-> s.name, dir |-> None, clients |-> <<>>,
   page |-> IF Panel THEN PageNumber(v) ELSE 0]

\* LASH_Project_Add, event_project_add
ProjectAdded(v, s) ==
  LET e == NewEntry(v, s)
      k == e.key
      listed == [v EXCEPT !.added = k, !.list = Append(@, e), !.cur = IF SelectsIt(v) THEN k ELSE @]
  IN  IF Shell THEN listed
      ELSE [listed EXCEPT !.pages = Append(@, k), !.num_projects = @ + 1,
                          !.label = @ /\ v.num_projects # 0]

\* LASH_Project_Remove, project_destroy; event_project_remove.
\* gtk_notebook_remove_page takes the page that is at the project's number
\* now, if there is one; num_projects counts down in any case.
ProjectRemoved(v, s) ==
  LET i == Find(v, s.name)
      counted == IF Shell THEN v
                 ELSE [v EXCEPT !.num_projects = @ - 1, !.label = @ \/ v.num_projects = 1]
      e == v.list[i]
  IN  IF i = 0 THEN counted
      ELSE [counted EXCEPT
              !.list = RemoveAt(@, i),
              !.cur = IF @ = e.key THEN 0 ELSE @,
              !.pages = IF Panel /\ e.page < Len(@) THEN RemoveAt(@, e.page + 1) ELSE @,
              !.shifted = @ \/ (Panel /\ i # Len(v.list))]

\* LASH_Project_Name, event_project_name, project_set_name;
\* LASH_Project_Dir, event_project_path, project_set_dir.
NameChanged(v, s) ==
  LET i == Find(v, s.name) IN IF i = 0 THEN v ELSE [v EXCEPT !.list[i].name = s.arg]
DirChanged(v, s) ==
  LET i == Find(v, s.name) IN IF i = 0 THEN v ELSE [v EXCEPT !.list[i].dir = s.arg]

\* LASH_Client_Add, client_new; event_client_add, which looks if it has it.
ClientAdded(v, s) ==
  LET i == Find(v, s.name)
  IN  IF i = 0 \/ (Panel /\ s.arg \in ToSet(v.list[i].clients)) THEN v
      ELSE [v EXCEPT !.list[i].clients = Append(@, s.arg)]

\* LASH_Client_Remove, client_destroy: the panel does not.
ClientRemoved(v, s) ==
  LET i == Find(v, s.name)
      j == SelectInSeq(v.list[i].clients, LAMBDA c : c = s.arg)
  IN  IF Panel \/ i = 0 \/ j = 0 THEN v ELSE [v EXCEPT !.list[i].clients = RemoveAt(@, j)]

\* lash_control_signal_handler
DropRemovals(v, s) ==
  CASE s.type = "ProjectAppeared" -> ProjectAdded(v, s)
    [] s.type = "ProjectDisappeared" -> v
    [] s.type = "ProjectNameChanged" -> NameChanged(v, s)
    [] s.type = "ProjectPathChanged" -> DirChanged(v, s)
    [] s.type = "ClientAppeared" -> ClientAdded(v, s)
    [] s.type = "ClientDisappeared" -> ClientRemoved(v, s)
Handled(v, s) ==
  CASE s.type = "ProjectAppeared" -> ProjectAdded(v, s)
    [] s.type = "ProjectDisappeared" -> ProjectRemoved(v, s)
    [] s.type = "ProjectNameChanged" -> NameChanged(v, s)
    [] s.type = "ProjectPathChanged" -> DirChanged(v, s)
    [] s.type = "ClientAppeared" -> ClientAdded(v, s)
    [] s.type = "ClientDisappeared" -> ClientRemoved(v, s)

\* lash_dispatch, of the n signals that have come; the view has room for what
\* they add (MaxAdded).
AfterDispatch(n) == FoldLeft(Handled, view, SubSeq(wire, 1, n))
Dispatched(n) ==
  /\ view.added + Cardinality({i \in 1..n : wire[i].type = "ProjectAppeared"}) <= MaxAdded
  /\ wire' = SubSeq(wire, n + 1, Len(wire))

---------------------------------------------------------------------------
(* The user.  A call has, for the history, the project that its entry is   *)
(* for.                                                                    *)

Call(op, e, arg) == [op |-> op, of |-> e.of, name |-> e.name, arg |-> arg]
RestoreCall(d) == [op |-> "restore", of |-> None, name |-> None, arg |-> d]

\* lash_control_*_project
CallsFor(e) ==
  {Call(op, e, None) : op \in {"save", "close"}} \union {Call("name", e, n) : n \in Name}
    \union {Call("dir", e, Elsewhere)}

Send(c) == calls' = Append(calls, c)
Command == commands < MaxCommands /\ commands' = commands + 1 /\ UNCHANGED <<serverVars, events>>

\* lash_client_open_controller, main: a controller hears of what happens from
\* now on.
Register ==
  /\ ~known /\ known' = TRUE /\ missed' = Loaded /\ view' = [view EXCEPT !.late = Loaded # {}]
  /\ UNCHANGED <<server, owners, confused, wire, calls, kind, dialog, events, commands>>

\* One turn of lash_control_main: a line typed at the prompt of the selected
\* project, the signals that came meanwhile, then the line's command
\* (deal_with_command, command_*) for the project that is selected now;
\* command_project selects another.  A line whose command does neither is empty.
EmptyLine ==
  /\ Shell /\ known
  /\ \E n \in 1..Len(wire) : Dispatched(n) /\ view' = AfterDispatch(n)
  /\ UNCHANGED <<serverVars, calls, kind, known, dialog, events, commands>>

ShellLine ==
  /\ Shell /\ known /\ Command
  /\ \E n \in 0..Len(wire) :
       LET v == AfterDispatch(n)
       IN  /\ Dispatched(n)
           /\ \/ \E i \in DOMAIN v.list :
                   /\ Find(v, v.list[i].name) = i
                   /\ view' = [v EXCEPT !.cur = v.list[i].key] /\ UNCHANGED calls
              \/ /\ v.cur # 0 /\ view' = v
                 /\ \E c \in CallsFor(EntryOf(v, v.cur)) : Send(c)
              \/ view' = v /\ \E d \in Directory : Send(RestoreCall(d))
  /\ UNCHANGED <<kind, known, dialog>>

\* idle_cb, every second, in the dialog's main loop too.
Idle ==
  /\ Panel /\ known
  /\ \E n \in 1..Len(wire) : Dispatched(n) /\ view' = AfterDispatch(n)
  /\ UNCHANGED <<serverVars, calls, kind, known, dialog, events, commands>>

\* The pages that the user sees and whose project still exists: what a button
\* of another page does is undefined.
Usable == ToSet(view.pages) \intersect Listed(view)

\* save_cb, close_cb, set_name_cb, open_cb: no button answers behind a dialog.
Press ==
  /\ Panel /\ known /\ dialog = 0 /\ Command
  /\ \/ \E k \in Usable : \E c \in CallsFor(EntryOf(view, k)) : c.op # "dir" /\ Send(c)
     \/ \E d \in Directory : Send(RestoreCall(d))
  /\ UNCHANGED <<wire, controlVars>>

\* set_dir_cb: the dialog; its answer sets the directory and asks lashd for it.
\* Of a project that has gone meanwhile it is undefined: nothing, here.
OpenDialog ==
  /\ Panel /\ known /\ dialog = 0 /\ Command
  /\ \E k \in Usable : dialog' = k
  /\ UNCHANGED <<wire, calls, kind, known, view>>

CloseDialog ==
  /\ dialog # 0 /\ dialog' = 0
  /\ \/ UNCHANGED <<calls, view>>
     \/ /\ dialog \in Listed(view)
        /\ LET i == CHOOSE i \in DOMAIN view.list : view.list[i].key = dialog
           IN  /\ view' = [view EXCEPT !.list[i].dir = Elsewhere]
               /\ Send(Call("dir", view.list[i], Elsewhere))
  /\ UNCHANGED <<serverVars, wire, kind, known, events, commands>>

---------------------------------------------------------------------------
Init ==
  /\ \E doc \in Documents :
       server = [project |-> [p \in Project |->
                    [name |-> IF doc[p] = None THEN CHOOSE n \in Name : TRUE ELSE doc[p],
                     dir |-> p, doc |-> doc[p], move_on_close |-> FALSE]],
                 loaded |-> <<>>, at |-> [c \in Client |-> None], up |-> {}]
  /\ wire = <<>> /\ calls = <<>>
  /\ kind \in {"shell", "panel"} /\ known = FALSE
  /\ view = [list |-> <<>>, cur |-> 0, pages |-> <<>>, num_projects |-> 0, label |-> TRUE,
             shifted |-> FALSE, late |-> FALSE, added |-> 0]
  /\ dialog = 0 /\ events = 0 /\ commands = 0
  /\ missed = {} /\ owners = [n \in Name |-> {}] /\ confused = FALSE

Next ==
  \/ Serve \/ OthersAsk
  \/ \E c \in Client : ClientComes(c) \/ ClientGoes(c)
  \/ Register \/ EmptyLine \/ ShellLine \/ Idle \/ Press \/ OpenDialog \/ CloseDialog

\* lashd's main loop answers, and the panel's dispatches every second; the
\* shell waits for its user.
Spec == Init /\ [][Next]_vars /\ WF_vars(Serve) /\ WF_vars(Idle)

---------------------------------------------------------------------------
(* Properties *)

Known == {p \in Loaded : \E i \in DOMAIN view.list : view.list[i].of = p}

Agrees(e) ==
  LET its == {c \in server.up : server.at[c] = e.of}
  IN  /\ e.name = NameOf(e.of)
      /\ its \subseteq ToSet(e.clients)
      /\ Shell => /\ ToSet(e.clients) = its /\ IsInjective(e.clients)
                  /\ e.dir \in {None, server.project[e.of].dir}

ViewAgrees ==
  /\ [i \in DOMAIN view.list |-> view.list[i].of] = SelectSeq(server.loaded, LAMBDA p : p \notin missed)
  /\ \A i \in DOMAIN view.list : Agrees(view.list[i])

\* A controller that has handled all signals lists lashd's projects, in
\* lashd's order, with their names, their clients, and the directory that it
\* was told: through loads, renames, moves, closings, and clients that come
\* and go.  Only the projects that were loaded before it came are missing.  Not
\* once a name was announced that is another loaded project's (confused):
\* server_project_restore renames a project before it tells of it.  The panel
\* keeps the clients that have gone (deal_with_event has no case for them) and
\* shows a directory before lashd moves there (set_dir_cb).
ViewFollowsLashd == known /\ wire = <<>> /\ ~confused => ViewAgrees

\* A call that is carried out reaches the project whose entry it was sent
\* for, or none: whatever came in between, and however late the signals are.
\* Unless two projects have had its name, one after the other, or the
\* controller was told of a clash.
CommandsReachTheirProject ==
  \A i \in DOMAIN calls :
    LET c == calls[i]
    IN  c.op # "restore" /\ ~confused /\ Cardinality(owners[c.name]) < 2
          => FindProject(c.name) \in {None, c.of}

\* A command is typed at a prompt, before the shell hears what happened since
\* (lash_control_main): it is for the project of that prompt as long as that is
\* listed.  If it is gone, a new project may be the selected one: the command
\* is then carried out for a project that its user has not seen.
PromptIsObeyed ==
  [][Shell /\ Len(calls') > Len(calls) /\ view.cur \in Listed(view') =>
       calls'[Len(calls')].of \in {None, EntryOf(view, view.cur).of}]_vars

\* The panel's pages are its projects, in the list's order, and "No projects
\* open" is shown "instead of a notebook tab when no projects are present"
\* (panel.c:466).  Not once a project before the last was removed: the numbers of
\* the pages behind it are no longer theirs (shifted).  A panel that was not
\* there from the start counts down for projects that it never had (late).
PagesFollowTheList ==
  Panel /\ ~view.shifted =>
    /\ view.pages = [i \in DOMAIN view.list |-> view.list[i].key]
    /\ ~view.late /\ ~confused => (view.label <=> view.list = <<>>)

\* Once others leave lashd alone, the panel and lashd agree for good: what is
\* asked is answered, and what happened is shown (idle_cb goes on forever).
PanelCatchesUp == Panel /\ known ~> [](confused \/ (calls = <<>> /\ ViewAgrees))
=============================================================================
