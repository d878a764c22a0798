--------------------------- MODULE ServerProjects ---------------------------
(***************************************************************************)
(* The projects of lashd (lashd/server.c, lashd/project.c): their names,   *)
(* their directories, and the two lists they are in: all_projects, from    *)
(* which a project may be loaded, and loaded_projects.  Controllers and    *)
(* clients create, save, close, load, rename and move them; lashd may exit *)
(* or fail and read the projects directory again.                          *)
(*                                                                         *)
(* A project's document is the name it was saved with; its clients and its *)
(* tasks are the subject of ProjectTasks: here a task ends at will.  Names *)
(* are sequences, a typed name and the numbers lashd has appended; the     *)
(* directory that a name has below the projects directory is that name.    *)
(* No name has a slash, for which project_unload would put a blank.        *)
(*                                                                         *)
(* Nobody uses NoClash, InfoFileOnly and ModifiedOnly: each is a faulty    *)
(* variant of the operator below it, for a property to detect.             *)
(***************************************************************************)
EXTENDS Naturals, FiniteSets, SequencesExt

CONSTANTS
  Project,    \* project_t objects; their number is a bound
  NoProject,
  NewProject, \* the name a new project gets
  Typed,      \* names that users type
  MaxNumber,  \* bound on the numbers lashd appends
  MaxLength,  \* bound on the length of names
  Elsewhere,  \* directories outside of the projects directory
  Absent,     \* no directory
  NoInfo,     \* a directory without an info file
  NoDoc       \* project->doc == NULL

Number == 2..MaxNumber
Name == {n \in BoundedSeq(Typed \union Number, MaxLength) :
           n # <<>> /\ n[1] \in Typed /\ \A i \in 2..Len(n) : n[i] \in Number}
Directory == Name \union Elsewhere

ASSUME ProjectsAssumption ==
  /\ IsFiniteSet(Project) /\ IsFiniteSet(Name) /\ NoProject \notin Project
  /\ MaxNumber \in Nat /\ MaxLength \in Nat \ {0}
  /\ NewProject \in Typed
  /\ Typed \intersect Number = {}
  /\ Name \intersect (Elsewhere \union {Absent, NoInfo, NoDoc}) = {} /\ Absent # NoInfo

VARIABLES
  lashd,           \* "running", "failed" or "stopped"
  project,         \* the fields of each project_t
  all_projects,
  loaded_projects,
  disk             \* what each directory holds: an info file has a name

vars == <<lashd, project, all_projects, loaded_projects, disk>>

Unused == [name |-> <<NewProject>>, directory |-> <<NewProject>>, doc |-> NoDoc,
           move_on_close |-> FALSE, task |-> "none"]

Fields == [name : Name, directory : Directory, doc : Name \union {NoDoc},
           move_on_close : BOOLEAN, task : {"none", "save", "load"}]

TypeOK ==
  /\ lashd \in {"running", "failed", "stopped"}
  /\ project \in [Project -> Fields]
  /\ all_projects \in Seq(Project) /\ loaded_projects \in Seq(Project)
  /\ disk \in [Directory -> Name \union {Absent, NoInfo}]

Available == ToSet(all_projects)
Loaded == ToSet(loaded_projects)
Known == Available \union Loaded

---------------------------------------------------------------------------
\* What a handler changes, so that a handler may do so for several projects.
World == [project |-> project, all |-> all_projects, loaded |-> loaded_projects, disk |-> disk]
Becomes(w) ==
  /\ project' = w.project /\ disk' = w.disk
  /\ all_projects' = w.all /\ loaded_projects' = w.loaded

\* server_find_project_by_name
FindByName(n) ==
  LET HasName(p) == project[p].name = n
      i == SelectInSeq(loaded_projects, HasName)
  IN  IF i = 0 THEN NoProject ELSE loaded_projects[i]

\* server_create_new_project_name: a name that no loaded project has, and
\* whose directory has no info file; OutOfNames ends at the bound what goes on
\* for 999999999 numbers in the code.
OutOfNames == <<>>
Taken(n) == FindByName(n) # NoProject \/ disk[n] \in Name

NewName(suggestion) ==
  IF ~Taken(suggestion) THEN suggestion
  ELSE LET free == {i \in Number : LET n == Append(suggestion, i) IN n \in Name /\ ~Taken(n)}
       IN  IF free = {} THEN OutOfNames
           ELSE Append(suggestion, CHOOSE i \in free : \A j \in free : i <= j)

\* lash_create_dir
Created(d, contents) == [contents EXCEPT ![d] = IF @ = Absent THEN NoInfo ELSE @]

\* project_move: it refuses a directory that exists.
InfoFileOnly(w, d) == w.disk[d] \in Name
Exists(w, d) == w.disk[d] # Absent

Moved(w, p, d) ==
  LET old == w.project[p].directory
  IN  IF d = old \/ Exists(w, d) \/ w.disk[old] = Absent THEN w
      ELSE [w EXCEPT !.disk[d] = w.disk[old], !.disk[old] = Absent, !.project[p].directory = d]

\* project_write_info, by project_clients_save_complete.
Written(w, p) ==
  LET name == w.project[p].name
  IN  [w EXCEPT !.disk[w.project[p].directory] = IF @ = Absent THEN @ ELSE name,
                !.project[p].doc = name, !.project[p].task = "none"]

\* project_save; `asked` are the projects with clients that are asked to save.
Saved(w, p, asked) ==
  LET listed == [w EXCEPT !.all = IF p \in ToSet(@) THEN @ ELSE Append(@, p),
                          !.disk = Created(w.project[p].directory, @)]
  IN  IF w.project[p].task # "none" THEN w
      ELSE IF p \in asked THEN [listed EXCEPT !.project[p].task = "save"]
      ELSE Written(listed, p)

\* project_unload: a project without a document was never saved.
ModifiedOnly(p) == p.move_on_close
NeverSaved(p) == p.doc = NoDoc

Unloaded(w, p) ==
  LET gone == [w EXCEPT !.loaded = RemoveFirst(@, p)]
      moved == IF w.project[p].move_on_close THEN Moved(gone, p, w.project[p].name) ELSE gone
      cleared == IF NeverSaved(moved.project[p])
                 THEN [moved EXCEPT !.disk[moved.project[p].directory] = Absent] ELSE moved
  IN  IF p \in ToSet(w.all) THEN cleared ELSE [cleared EXCEPT !.project[p] = Unused]

\* What a loop over the list s makes of w.
InTurn(Handle(_, _), w, s) ==
  LET after[i \in 0..Len(s)] == IF i = 0 THEN w ELSE Handle(after[i - 1], s[i])
  IN  after[Len(s)]

---------------------------------------------------------------------------
(* Requests *)

Run == lashd = "running"

\* server_get_newborn_project, for a client that connects: an unsaved project,
\* else the last loaded one, else a new one.
Newborns == {i \in DOMAIN loaded_projects : project[loaded_projects[i]].doc = NoDoc}

ClientConnects ==
  /\ Run /\ UNCHANGED <<lashd, all_projects>>
  /\ IF loaded_projects # <<>>
     THEN LET i == IF Newborns = {} THEN Len(loaded_projects)
                   ELSE CHOOSE i \in Newborns : \A j \in Newborns : i <= j
          IN  /\ disk' = Created(project[loaded_projects[i]].directory, disk)
              /\ UNCHANGED <<project, loaded_projects>>
     ELSE LET p == CHOOSE p \in Project \ Known : TRUE
              name == NewName(<<NewProject>>)
          IN  /\ Known # Project /\ name # OutOfNames
              /\ project' = [project EXCEPT ![p] =
                               [Unused EXCEPT !.name = name, !.directory = name]]
              /\ loaded_projects' = <<p>>
              /\ disk' = Created(name, disk)

\* By name, or by a client of the project.
Save(p) ==
  /\ Run /\ p \in Loaded
  /\ \E asked \in SUBSET {p} : Becomes(Saved(World, p, asked))
  /\ UNCHANGED lashd

AllSaved(w, asked) == InTurn(LAMBDA u, p : Saved(u, p, asked), w, w.loaded)

SaveAll ==
  /\ Run /\ Loaded # {}
  /\ \E asked \in SUBSET Loaded : Becomes(AllSaved(World, asked))
  /\ UNCHANGED lashd

SaveCompletes(p) ==
  /\ Run /\ p \in Loaded /\ project[p].task = "save"
  /\ Becomes(Written(World, p))
  /\ UNCHANGED lashd

Close(p) ==
  /\ Run /\ p \in Loaded
  /\ Becomes(Unloaded(World, p))
  /\ UNCHANGED lashd

CloseAll ==
  /\ Run /\ Loaded # {}
  /\ Becomes(InTurn(Unloaded, World, loaded_projects))
  /\ UNCHANGED lashd

\* server_project_restore: the name is the document's, or a new one if a
\* loaded project has that name.  Without a document lashd fails.
NoClash(name) == FALSE
Clashes(name) == FindByName(name) # NoProject

Restore(p) ==
  IF project[p].doc = NoDoc THEN lashd' = "failed" /\ Becomes(World)
  ELSE LET doc == project[p].doc
           name == IF Clashes(doc) THEN NewName(doc) ELSE doc
       IN  /\ name # OutOfNames
           /\ project' = [project EXCEPT ![p].name = name, ![p].task = "load",
                                         ![p].move_on_close = @ \/ Clashes(doc)]
           /\ loaded_projects' = Append(loaded_projects, p)
           /\ UNCHANGED <<lashd, all_projects, disk>>

\* server_project_restore_by_name and _by_dir: the first available project,
\* which may be loaded already.
NotLoaded(p) == p \notin Loaded

RestoreFirst(Test(_)) ==
  LET i == SelectInSeq(all_projects, Test)
  IN  Run /\ i # 0 /\ NotLoaded(all_projects[i]) /\ Restore(all_projects[i])

RestoreByName(n) == LET HasName(p) == project[p].name = n IN RestoreFirst(HasName)
RestoreByDir(d) == LET IsIn(p) == project[p].directory = d IN RestoreFirst(IsIn)

LoadCompletes(p) ==
  /\ Run /\ p \in Loaded /\ project[p].task = "load"
  /\ project' = [project EXCEPT ![p].task = "none"]
  /\ UNCHANGED <<lashd, all_projects, loaded_projects, disk>>

\* project_rename: it does not look if another project has the name.
Rename(n, new) ==
  LET p == FindByName(n)
  IN  /\ Run /\ p # NoProject /\ n # new
      /\ project' = [project EXCEPT ![p].name = new, ![p].move_on_close = TRUE]
      /\ UNCHANGED <<lashd, all_projects, loaded_projects, disk>>

Move(n, d) ==
  LET p == FindByName(n)
  IN  /\ Run /\ p # NoProject
      /\ Becomes(Moved(World, p, d))
      /\ UNCHANGED lashd

---------------------------------------------------------------------------
(* The end of lashd and its start *)

Emptied(w) == [w EXCEPT !.all = <<>>, !.loaded = <<>>, !.project = [p \in Project |-> Unused]]

Destroyed(w, p) ==
  LET unlisted == [w EXCEPT !.all = RemoveFirst(@, p)]
  IN  IF p \in ToSet(w.loaded) THEN Unloaded(unlisted, p) ELSE unlisted

\* server_stop destroys, and so unloads, the projects of all_projects: one
\* that was never saved keeps its directory.
Exit ==
  /\ Run /\ lashd' = "stopped"
  /\ Becomes(Emptied(InTurn(Destroyed, World, all_projects)))

Crash ==
  /\ lashd \in {"running", "failed"} /\ lashd' = "stopped"
  /\ Becomes(Emptied(World))

\* server_fill_projects, in the order in which readdir finds directories.
FilledWith(directories) ==
  LET Object(i) == SetToSeq(Project)[i]
      Read(d) == [Unused EXCEPT !.name = disk[d], !.directory = d, !.doc = disk[d]]
  IN  [World EXCEPT !.all = [i \in DOMAIN directories |-> Object(i)],
                    !.project = [p \in Project |->
                       IF \E i \in DOMAIN directories : p = Object(i)
                       THEN Read(directories[CHOOSE i \in DOMAIN directories : p = Object(i)])
                       ELSE Unused]]

Start ==
  /\ lashd = "stopped" /\ lashd' = "running"
  /\ \E directories \in SetToSeqs({d \in Name : disk[d] \in Name}) :
       Len(directories) <= Cardinality(Project) /\ Becomes(FilledWith(directories))

---------------------------------------------------------------------------
Init ==
  /\ lashd = "running"
  /\ project = [p \in Project |-> Unused]
  /\ all_projects = <<>> /\ loaded_projects = <<>>
  /\ disk = [d \in Directory |-> Absent]

Next ==
  \/ ClientConnects
  \/ \E p \in Project : Save(p) \/ SaveCompletes(p) \/ LoadCompletes(p) \/ Close(p)
  \/ SaveAll \/ CloseAll
  \/ \E n \in Name : RestoreByName(n)
  \/ \E d \in Directory : RestoreByDir(d)
  \/ \E n, new \in Name : Rename(n, new)
  \/ \E n \in Name, d \in Directory : Move(n, d)
  \/ Exit \/ Crash \/ Start

Spec == Init /\ [][Next]_vars

---------------------------------------------------------------------------
(* Properties *)

\* Closed during its first save, a project stays available without a document
\* and without a directory.
Orphan(p) == p \notin Loaded /\ project[p].doc = NoDoc /\ project[p].task = "save"

\* Through new names, renames, moves when a project is closed and restarts, no
\* project is listed twice, and no two projects share a directory
\* (server_create_new_project_name and project_move each look at one sign of
\* use only).
DirectoriesAreDistinct ==
  /\ IsInjective(all_projects) /\ IsInjective(loaded_projects)
  /\ \A p, q \in {r \in Known : ~Orphan(r)} :
       p # q => project[p].directory # project[q].directory

\* A project that was saved has its info file where lashd believes it is, with
\* what it was last saved with; and whatever is offered for loading
\* (project.c:851) was saved, but for a project that was closed during its
\* first save.
SavedProjectsAreOnDisk ==
  /\ \A p \in Known : project[p].doc # NoDoc => disk[project[p].directory] = project[p].doc
  /\ \A p \in Available \ Loaded : project[p].doc = NoDoc => Orphan(p)

NamesDiffer == \A p, q \in Loaded : p # q => project[p].name # project[q].name

\* Only a user who renames a loaded project makes its name that of another
\* loaded project (server_project_restore, server_create_new_project_name).
OnlyUsersMakeNamesClash ==
  [][NamesDiffer /\ ~NamesDiffer' =>
       \E p \in Loaded \intersect Loaded' : project'[p].name # project[p].name]_vars
=============================================================================
