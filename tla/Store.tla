------------------------------- MODULE Store -------------------------------
(***************************************************************************)
(* The data set of one client: its store in memory and in the files of its *)
(* directory (lashd/store.c), and how the daemon opens, fills, writes and  *)
(* drops it (lashd/client.c, lashd/project.c, lashd/dbus_iface_server.c).  *)
(*                                                                         *)
(* The daemon is one thread: between the steps of CommitDataSet and of     *)
(* store_write nothing else runs, but the daemon can be killed there, and  *)
(* every write can fail.                                                   *)
(***************************************************************************)
EXTENDS Naturals, FiniteSets, SequencesExt

CONSTANTS
  Key, Value,
  Batch,       \* the data sets a client sends: sequences of configs
  Nothing,     \* no file, no reading
  TornName,    \* a key name that was cut off when the info file was written
  MaxCommits,  \* bound on the data sets
  MaxFaults    \* bound on crashes, failing writes and unreadable data sets

Config == [key : Key, value : Value]

ASSUME BatchOK == Batch \subseteq Seq(Config) \ {<<>>}
ASSUME BoundsOK == MaxCommits \in Nat /\ MaxFaults \in Nat

(* What a config file holds, what an info file holds, and what is read.    *)
Content == [value : Value, part : {"whole", "untyped", "torn"}]
Index   == [count : Nat, names : Seq(Key \cup {TornName})]
Answer  == [value : Value, type : {"own", "raw"}]

ASSUME NothingOK == Nothing \notin Content \cup Index \cup Answer
ASSUME TornNameOK == TornName \notin Key

VARIABLES
  (* the client *)
  life,        \* "none", "running", "lost", or "closed" with its project
  saved,       \* its flags have LASH_Saved
  recorded,    \* the project's document has the client,
  doc_saved,   \*   and this LASH_Saved flag
  (* store_t: client->store, and NULL if not attached *)
  attached, keys, unstored_configs,
  (* the progress of CommitDataSet and store_write *)
  phase,       \* "idle", "set", "configs" or "info"
  message,     \* the configs of the data set that are still to be set
  node,        \* the position in unstored_configs
  failed,      \* a config could not be written
  goal,        \* who called store_write
  (* the directory of the store *)
  file,        \* the config files
  info,        \* the info file
  (* observations *)
  returned,    \* what the last step answered, if anything
  given,       \* the values that the client has ever given
  commits, faults

client == <<life, saved, recorded, doc_saved>>
store == <<attached, keys, unstored_configs>>
writing == <<phase, message, node, failed, goal>>
disk == <<file, info>>
history == <<given, commits, faults>>
vars == <<client, store, writing, disk, returned, history>>

------------------------------------------------------------------------------
(* The files *)

(* A config file holds its value as a whole, without its type byte, or     *)
(* less than that.                                                         *)
Whole(v)   == [value |-> v, part |-> "whole"]
Untyped(v) == [value |-> v, part |-> "untyped"]
Torn(v)    == [value |-> v, part |-> "torn"]
File == Content \cup {Nothing}

(* store_get_config: a value without its type byte is taken for raw data.  *)
ReadConfig(f) ==
  IF f = Nothing \/ f.part = "torn" THEN Nothing
  ELSE [value |-> f.value, type |-> IF f.part = "whole" THEN "own" ELSE "raw"]

Info(count, names) == [count |-> count, names |-> names]

(* An info file that was not written to its end. One whose first line is   *)
(* incomplete is as good as none.                                          *)
PartialInfo ==
  LET upTo(n) == SubSeq(keys, 1, n)
      prefixes == {upTo(n) : n \in 0..Len(keys)}
      torn == {Append(upTo(n), TornName) : n \in 0..Len(keys) - 1}
  IN {Nothing} \cup {Info(Len(keys), names) : names \in prefixes \cup torn}

(* store_open: the keys of the info file, none if one is missing. *)
Listed(i) ==
  IF i = Nothing \/ Len(i.names) < i.count THEN <<>> ELSE i.names

------------------------------------------------------------------------------
(* The store in memory *)

Unstored(k) == {i \in DOMAIN unstored_configs : unstored_configs[i].key = k}

Position(k) == CHOOSE i \in Unstored(k) : TRUE

(* What store_create_config_array puts into a LoadDataSet message for key  *)
(* k; after the next store_open if there is no store.                      *)
OnDisk(k) == IF k \in ToSet(Listed(info)) THEN ReadConfig(file[k]) ELSE Nothing

Reading(k) ==
  IF ~attached THEN OnDisk(k)
  ELSE IF k \notin ToSet(keys) THEN Nothing
  ELSE IF Unstored(k) # {}
    THEN [value |-> unstored_configs[Position(k)].value, type |-> "own"]
  ELSE ReadConfig(file[k])

------------------------------------------------------------------------------

Init ==
  /\ life = "none" /\ saved = FALSE /\ recorded = FALSE /\ doc_saved = FALSE
  /\ attached = FALSE /\ keys = <<>> /\ unstored_configs = <<>>
  /\ phase = "idle" /\ message = <<>>
  /\ node = 1 /\ failed = FALSE /\ goal = "none"
  /\ file = [k \in Key |-> Nothing] /\ info = Nothing
  /\ returned = "nothing"
  /\ given = [k \in Key |-> {}] /\ commits = 0 /\ faults = 0

Fault == faults < MaxFaults /\ faults' = faults + 1

NoStore ==
  /\ attached' = FALSE
  /\ keys' = <<>>
  /\ unstored_configs' = <<>>

(* store_new and store_open, after what was in memory is gone. *)
OpenStore ==
  /\ attached' = TRUE
  /\ keys' = Listed(info')
  /\ unstored_configs' = <<>>

(* The project's document is written when the save ends. *)
SaveEnds(flag) ==
  /\ saved' = flag
  /\ recorded' = TRUE
  /\ doc_saved' = flag

Idle ==
  /\ phase' = "idle" /\ message' = <<>>
  /\ node' = 1 /\ failed' = FALSE /\ goal' = "none"

(* store_write returns ok to its caller g. The store had the keys ks, and  *)
(* the configs rest could not be written.                                  *)
(*   save:   client_task_completed, for a CommitDataSet                    *)
(*   lose:   project_lose_client                                           *)
(*   reopen: client_store_open                                             *)
(*   move:   project_move; if the directory cannot be renamed the stores   *)
(*           stay closed                                                   *)
Return(g, ok, ks, rest) ==
  /\ returned' = (IF ok THEN "written" ELSE "unwritten")
  /\ Idle
  /\ \/ /\ g \in {"save", "lose"}
        /\ keys' = ks
        /\ unstored_configs' = rest
        /\ UNCHANGED attached
     \/ /\ g \in {"reopen", "move"}
        /\ OpenStore
     \/ /\ g = "move"
        /\ NoStore
  /\ IF g = "save" THEN SaveEnds(saved \/ ok)
                   ELSE UNCHANGED <<saved, recorded, doc_saved>>

(* A directory that cannot be renamed is a fault of its own. *)
Renamed(g) == IF g = "move" /\ ~attached' THEN Fault ELSE UNCHANGED faults

(* store_write, up to its first write: nothing unstored is nothing to do.  *)
StoreWrite(g, ks, unstored) ==
  IF unstored = <<>>
    THEN Return(g, TRUE, ks, <<>>) /\ Renamed(g)
    ELSE /\ phase' = "configs" /\ message' = <<>>
         /\ node' = 1 /\ failed' = FALSE /\ goal' = g
         /\ returned' = "nothing"
         /\ keys' = ks
         /\ unstored_configs' = unstored
         /\ UNCHANGED <<attached, saved, recorded, doc_saved, faults>>

------------------------------------------------------------------------------
(* The client's life *)

(* project_new_client *)
NewClient ==
  /\ life = "none"
  /\ life' = "running"
  /\ UNCHANGED disk
  /\ OpenStore
  /\ returned' = "nothing"
  /\ UNCHANGED <<saved, recorded, doc_saved, writing, history>>

(* client_resume_project: the store is opened only to load a data set that *)
(* was saved before. A store that is still attached is written first.      *)
Resume ==
  /\ phase = "idle"
  /\ life = "lost"
  /\ life' = "running"
  /\ UNCHANGED <<disk, given, commits>>
  /\ \/ /\ saved /\ attached
        /\ StoreWrite("reopen", keys, unstored_configs)
     \/ /\ saved /\ ~attached
        /\ OpenStore
        /\ returned' = "nothing"
        /\ UNCHANGED <<saved, recorded, doc_saved, writing, faults>>
     \/ /\ ~saved
        /\ returned' = "nothing"
        /\ UNCHANGED <<saved, recorded, doc_saved, store, writing, faults>>

(* project_lose_client: an empty store leaves no directory behind. *)
Lose ==
  /\ phase = "idle"
  /\ life = "running"
  /\ life' = "lost"
  /\ UNCHANGED <<given, commits>>
  /\ IF attached /\ keys # <<>>
       THEN StoreWrite("lose", keys, unstored_configs) /\ UNCHANGED disk
       ELSE /\ file' = (IF attached THEN [k \in Key |-> Nothing] ELSE file)
            /\ info' = (IF attached THEN Nothing ELSE info)
            /\ returned' = "nothing"
            /\ UNCHANGED <<saved, recorded, doc_saved, store, writing, faults>>

(* Another client, or this one with a new id and a new directory. *)
StartOver ==
  /\ life' = "none" /\ saved' = FALSE /\ recorded' = FALSE /\ doc_saved' = FALSE
  /\ file' = [k \in Key |-> Nothing] /\ info' = Nothing
  /\ given' = [k \in Key |-> {}]

(* project_clear_lost_clients: the project is saved without the client. *)
ClearLost ==
  /\ phase = "idle"
  /\ life = "lost"
  /\ StartOver
  /\ NoStore
  /\ returned' = "nothing"
  /\ UNCHANGED <<writing, commits, faults>>

(* project_unload destroys the store unwritten; a project that was never   *)
(* saved leaves nothing behind.                                            *)
Unload ==
  /\ phase = "idle"
  /\ life \in {"running", "lost"}
  /\ NoStore
  /\ IF recorded
       THEN life' = "closed" /\ UNCHANGED <<saved, recorded, doc_saved, disk, given>>
       ELSE StartOver
  /\ returned' = "nothing"
  /\ UNCHANGED <<writing, commits, faults>>

(* project_load: the client is lost, and as saved as its document says. *)
Load ==
  /\ life = "closed"
  /\ life' = "lost"
  /\ saved' = doc_saved
  /\ returned' = "nothing"
  /\ UNCHANGED <<recorded, doc_saved, store, writing, disk, history>>

(* project_move *)
Move ==
  /\ phase = "idle"
  /\ life = "running"
  /\ attached
  /\ UNCHANGED <<life, disk, given, commits>>
  /\ StoreWrite("move", keys, unstored_configs)

------------------------------------------------------------------------------
(* Saving *)

(* lashd_dbus_commit_data_set of a client that has a store: the configs of *)
(* the data set are set one after the other.                               *)
CommitDataSet(batch) ==
  /\ phase = "idle"
  /\ life = "running"
  /\ attached
  /\ commits < MaxCommits
  /\ commits' = commits + 1
  /\ phase' = "set" /\ message' = batch
  /\ node' = 1 /\ failed' = FALSE /\ goal' = "save"
  /\ returned' = "nothing"
  /\ UNCHANGED <<client, store, disk, given, faults>>

(* store_set_config: the key is listed, and the config replaces the one    *)
(* that is still unstored.                                                 *)
SetConfig ==
  /\ phase = "set"
  /\ message # <<>>
  /\ LET c == Head(message) IN
       /\ keys' = IF c.key \in ToSet(keys) THEN keys ELSE Append(keys, c.key)
       /\ unstored_configs' =
            IF Unstored(c.key) = {}
              THEN Append(unstored_configs, c)
              ELSE [unstored_configs EXCEPT ![Position(c.key)] = c]
       /\ given' = [given EXCEPT ![c.key] = @ \cup {c.value}]
  /\ message' = Tail(message)
  /\ returned' = "nothing"
  /\ UNCHANGED <<client, attached, phase, node, failed, goal, disk, commits,
                 faults>>

(* A config that cannot be read: the client's task has failed, and what    *)
(* was set is not written.                                                 *)
SetConfigFails ==
  /\ phase = "set"
  /\ message # <<>>
  /\ Fault
  /\ Idle
  /\ SaveEnds(saved)
  /\ returned' = "nothing"
  /\ UNCHANGED <<life, store, disk, given, commits>>

(* The client's save task is completed. *)
ConfigsSet ==
  /\ phase = "set"
  /\ message = <<>>
  /\ StoreWrite("save", keys, unstored_configs)
  /\ UNCHANGED <<life, disk, given, commits>>

(* CommitDataSet of a client without a store: an error is returned and the     *)
(* task stays pending.                                                     *)
CommitRefused ==
  /\ phase = "idle"
  /\ life = "running"
  /\ ~attached
  /\ returned' = "refused"
  /\ UNCHANGED <<client, store, writing, disk, history>>

(* The client reports that it could not save. *)
SaveFails ==
  /\ phase = "idle"
  /\ life = "running"
  /\ SaveEnds(saved)
  /\ returned' = "nothing"
  /\ UNCHANGED <<life, store, writing, disk, history>>

(* A config that could not be written stays in the list. *)
AfterFailure == unstored_configs

(* store_write_config *)
WriteConfig ==
  /\ phase = "configs"
  /\ node <= Len(unstored_configs)
  /\ LET c == unstored_configs[node] IN
       file' = [file EXCEPT ![c.key] = Whole(c.value)]
  /\ unstored_configs' = RemoveAt(unstored_configs, node)
  /\ returned' = "nothing"
  /\ UNCHANGED <<client, attached, keys, writing, info, history>>

(* What a write of config c that does not succeed leaves in its file. *)
Remains(c) == {file[c.key], Untyped(c.value), Torn(c.value)}

WriteConfigFails ==
  /\ phase = "configs"
  /\ node <= Len(unstored_configs)
  /\ Fault
  /\ LET c == unstored_configs[node] IN
       \E f \in Remains(c) : file' = [file EXCEPT ![c.key] = f]
  /\ node' = node + 1
  /\ failed' = TRUE
  /\ unstored_configs' = AfterFailure
  /\ returned' = "nothing"
  /\ UNCHANGED <<client, attached, keys, phase, message, goal, info, given,
                 commits>>

(* Faulty: the info file is written whether or not the configs were. *)
NothingFailed == FALSE

ConfigsFailed == failed

(* store_write_configs is through. *)
ConfigsDone ==
  /\ phase = "configs"
  /\ node > Len(unstored_configs)
  /\ UNCHANGED <<life, disk, given, commits>>
  /\ IF ConfigsFailed
       THEN Return(goal, FALSE, keys, unstored_configs) /\ Renamed(goal)
       ELSE /\ phase' = "info"
            /\ returned' = "nothing"
            /\ UNCHANGED <<saved, recorded, doc_saved, store, message, node,
                           failed, goal, faults>>

(* Faulty: a key more is counted than there is. *)
OneKeyMore == Len(keys) + 1

(* store->num_keys *)
NumKeys == Len(keys)

(* store_write_info_file *)
WriteInfo ==
  /\ phase = "info"
  /\ info' = Info(NumKeys, keys)
  /\ Return(goal, TRUE, keys, <<>>)
  /\ Renamed(goal)
  /\ UNCHANGED <<life, file, given, commits>>

WriteInfoFails ==
  /\ phase = "info"
  /\ Fault
  /\ info' \in PartialInfo \cup {info}
  /\ Return(goal, FALSE, keys, unstored_configs)
  /\ UNCHANGED <<life, file, given, commits>>

(* lashd is killed: between two messages, or at some write. *)
Crash ==
  /\ life # "none"
  /\ Fault
  /\ IF recorded
       THEN /\ life' = "closed"
            /\ UNCHANGED <<saved, recorded, doc_saved, given>>
            /\ \/ phase = "configs" /\ node <= Len(unstored_configs)
                  /\ LET c == unstored_configs[node] IN
                       \E f \in Remains(c) \cup {Whole(c.value)} :
                         file' = [file EXCEPT ![c.key] = f]
                  /\ UNCHANGED info
               \/ phase = "info" /\ info' \in PartialInfo /\ UNCHANGED file
               \/ UNCHANGED disk
       ELSE StartOver
  /\ NoStore
  /\ Idle
  /\ returned' = "nothing"
  /\ UNCHANGED commits

------------------------------------------------------------------------------

ClientLife ==
  NewClient \/ Resume \/ Lose \/ ClearLost \/ Unload \/ Load \/ Move

Saving ==
  \/ \E batch \in Batch : CommitDataSet(batch)
  \/ SetConfig \/ SetConfigFails \/ ConfigsSet
  \/ CommitRefused \/ SaveFails

Writing ==
  WriteConfig \/ WriteConfigFails \/ ConfigsDone \/ WriteInfo \/ WriteInfoFails

Next == ClientLife \/ Saving \/ Writing \/ Crash

Spec == Init /\ [][Next]_vars

------------------------------------------------------------------------------
(* Properties *)

ClientTypeOK ==
  /\ life \in {"none", "running", "lost", "closed"}
  /\ saved \in BOOLEAN /\ recorded \in BOOLEAN /\ doc_saved \in BOOLEAN

(* A cut-off name is no key, and may be there twice. *)
NoKeyTwice(names) ==
  \A i, j \in DOMAIN names : names[i] = names[j] /\ names[i] \in Key => i = j

(* The lists of the store have no key twice, and every unstored config is  *)
(* listed, for only the listed ones are ever sent (store_set_config).      *)
StoreTypeOK ==
  /\ attached \in BOOLEAN
  /\ keys \in Seq(Key \cup {TornName})
  /\ NoKeyTwice(keys)
  /\ unstored_configs \in Seq(Config)
  /\ \A i, j \in DOMAIN unstored_configs :
       unstored_configs[i].key = unstored_configs[j].key => i = j
  /\ \A i \in DOMAIN unstored_configs : unstored_configs[i].key \in ToSet(keys)

WritingTypeOK ==
  /\ phase \in {"idle", "set", "configs", "info"}
  /\ message \in Seq(Config)
  /\ node \in 1..Len(unstored_configs) + 1
  /\ failed \in BOOLEAN
  /\ goal \in {"none", "save", "lose", "reopen", "move"}
  /\ goal = "none" <=> phase = "idle"

DiskTypeOK ==
  /\ file \in [Key -> File]
  /\ info \in Index \cup {Nothing}

HistoryTypeOK ==
  /\ returned \in {"nothing", "written", "unwritten", "refused"}
  /\ given \in [Key -> SUBSET Value]
  /\ commits \in 0..MaxCommits
  /\ faults \in 0..MaxFaults

TypeOK ==
  /\ ClientTypeOK /\ StoreTypeOK /\ WritingTypeOK /\ DiskTypeOK /\ HistoryTypeOK

(* client_resume_project relies on LASH_Saved: a client with that flag is  *)
(* sent a data set, or it never completes its restore. Without faults      *)
(* there is one.                                                           *)
SavedClientCanLoad ==
  /\ faults = 0 /\ phase = "idle"
  /\ IF life = "closed" THEN doc_saved ELSE saved
  => \E k \in Key : OnDisk(k) # Nothing

(* store_write, "Only delete the unstored data now that we're sure it's    *)
(* all been written": what is in the store after a successful write is     *)
(* what would be read back.  It is not when the first try wrote the files  *)
(* and failed at the index, so no run checks this: as an INVARIANT of      *)
(* Store.cfg it has a counterexample.                                      *)
SuccessIsDurable ==
  returned = "written" => \A k \in Key : Reading(k) = OnDisk(k)

(* store_write_configs comes before store_write_info_file, so no key is    *)
(* ever listed on disk without a file, not even after crashes and failing  *)
(* writes; nor is any key listed that the client has not given.            *)
IndexedKeysHaveFiles ==
  \A k \in ToSet(Listed(info)) \ {TornName} :
    file[k] # Nothing /\ file[k].value \in given[k]

(* The store is a map that only commits change, unless something fails.    *)
Map == INSTANCE DataSet WITH
  data <- [k \in Key |-> Reading(k)],
  faulty <- faults > 0

ImplementsDataSet == Map!Spec
=============================================================================
