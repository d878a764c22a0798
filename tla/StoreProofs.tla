---------------------------- MODULE StoreProofs ----------------------------
(***************************************************************************)
(* Theorems about Store, for any keys, values, data sets and numbers of    *)
(* commits and faults.                                                     *)
(***************************************************************************)
EXTENDS Store, SequenceTheorems, TLAPS

------------------------------------------------------------------------------
(* Facts about lists *)

LEMMA AppendedSet ==
  ASSUME NEW S, NEW s \in Seq(S), NEW x
  PROVE  ToSet(Append(s, x)) = ToSet(s) \cup {x}
<1>1. /\ DOMAIN Append(s, x) = 1..Len(s) + 1 /\ DOMAIN s = 1..Len(s)
      /\ Len(s) \in Nat
      /\ \A i \in 1..Len(s) : Append(s, x)[i] = s[i]
      /\ Append(s, x)[Len(s) + 1] = x
  OBVIOUS
<1> QED BY <1>1 DEF ToSet

LEMMA ListedElement ==
  ASSUME NEW s, NEW x \in ToSet(s)
  PROVE  \E i \in DOMAIN s : s[i] = x
BY DEF ToSet

(* A list without its element at position i (store_config_destroy).        *)
LEMMA Removed ==
  ASSUME NEW S, NEW s \in Seq(S), NEW i \in DOMAIN s
  PROVE  /\ RemoveAt(s, i) \in Seq(S)
         /\ Len(RemoveAt(s, i)) = Len(s) - 1
         /\ \A j \in 1..Len(s) - 1 :
              RemoveAt(s, i)[j] = IF j < i THEN s[j] ELSE s[j + 1]
<1> DEFINE front == SubSeq(s, 1, i - 1)
           back  == SubSeq(s, i + 1, Len(s))
<1>1. Len(s) \in Nat /\ DOMAIN s = 1..Len(s) /\ i \in Int
      /\ \A j \in 1..Len(s) : s[j] \in S
  OBVIOUS
<1>2. /\ front \in Seq(S) /\ Len(front) = i - 1
      /\ \A j \in 1..i - 1 : front[j] = s[j]
  <2>1. \A j \in 1..i - 1 : s[j] \in S
    BY <1>1
  <2> QED BY <1>1, <2>1, SubSeqProperties
<1>3. /\ back \in Seq(S) /\ Len(back) = Len(s) - i
      /\ \A j \in 1..Len(s) - i : back[j] = s[i + j]
  <2>1. /\ \A j \in i + 1..Len(s) : s[j] \in S
        /\ i + 1 \in Int /\ Len(s) \in Int
    BY <1>1
  <2>2. /\ back \in Seq(S)
        /\ Len(back) = IF i + 1 <= Len(s) THEN Len(s) - (i + 1) + 1 ELSE 0
        /\ \A j \in 1..Len(s) - (i + 1) + 1 : back[j] = s[i + 1 + j - 1]
    BY <2>1, SubSeqProperties
  <2> HIDE DEF back
  <2>3. back \in Seq(S) /\ Len(back) = Len(s) - i
    BY <1>1, <2>2
  <2>4. ASSUME NEW j \in 1..Len(s) - i PROVE back[j] = s[i + j]
    <3>1. j \in 1..Len(s) - (i + 1) + 1 /\ i + 1 + j - 1 = i + j
      BY <1>1
    <3>2. back[j] = s[i + 1 + j - 1]
      BY <2>2, <3>1
    <3> QED BY <3>1, <3>2
  <2> QED BY <2>3, <2>4
<1> HIDE DEF front, back
<1>4. /\ front \o back \in Seq(S)
      /\ Len(front \o back) = Len(front) + Len(back)
      /\ \A j \in 1..Len(front) + Len(back) :
           (front \o back)[j] = IF j <= Len(front) THEN front[j]
                                ELSE back[j - Len(front)]
  BY <1>2, <1>3, ConcatProperties
<1>5. Len(front \o back) = Len(s) - 1
  BY <1>1, <1>2, <1>3, <1>4
<1>6. ASSUME NEW j \in 1..Len(s) - 1
      PROVE  (front \o back)[j] = IF j < i THEN s[j] ELSE s[j + 1]
  <2>1. j \in 1..Len(front) + Len(back)
    BY <1>1, <1>2, <1>3
  <2>2. CASE j < i
    BY <1>1, <1>2, <1>4, <2>1, <2>2
  <2>3. CASE ~(j < i)
    <3>1. (front \o back)[j] = back[j - (i - 1)]
      BY <1>1, <1>2, <1>4, <2>1, <2>3
    <3>2. j - (i - 1) \in 1..Len(s) - i /\ i + (j - (i - 1)) = j + 1
      BY <1>1, <2>3
    <3> QED BY <1>3, <2>3, <3>1, <3>2
  <2> QED BY <2>2, <2>3
<1>7. RemoveAt(s, i) = front \o back
  BY DEF RemoveAt, front, back
<1> QED BY <1>4, <1>5, <1>6, <1>7

LEMMA PrefixType ==
  ASSUME NEW S, NEW s \in Seq(S), NEW n \in 0..Len(s)
  PROVE  /\ SubSeq(s, 1, n) \in Seq(S)
         /\ Len(SubSeq(s, 1, n)) = n
         /\ \A j \in 1..n : SubSeq(s, 1, n)[j] = s[j]
<1>1. /\ Len(s) \in Nat /\ n \in Int /\ 1 \in Int
      /\ \A j \in 1..n : s[j] \in S
  OBVIOUS
<1> QED BY <1>1, SubSeqProperties

------------------------------------------------------------------------------
(* The inductive invariant *)

(* A store is only written while it is attached, and only to record keys.  *)
WritingInv ==
  /\ phase # "idle" => attached
  /\ ~attached => keys = <<>> /\ unstored_configs = <<>>
  /\ life \in {"none", "closed"} => ~attached
  /\ phase = "set" => message # <<>> \/ unstored_configs # <<>>
  /\ phase \in {"configs", "info"} => keys # <<>>
  /\ phase = "info" => unstored_configs = <<>>
  /\ ~failed => node = 1
  /\ failed => phase = "configs" /\ faults > 0

(* What is on disk or in the list was given, and a key of the store has a  *)
(* file unless its config is still unstored.                               *)
ContentInv ==
  /\ \A k \in Key : file[k] # Nothing => file[k].value \in given[k]
  /\ \A i \in DOMAIN unstored_configs :
       unstored_configs[i].value \in given[unstored_configs[i].key]
  /\ \A k \in ToSet(keys) \ {TornName} : file[k] # Nothing \/ Unstored(k) # {}
  /\ info # Nothing => NoKeyTwice(info.names)

(* Without faults the store and the disk agree between two messages, and   *)
(* LASH_Saved means that there is something on disk.                       *)
FaultlessInv ==
  faults = 0 =>
    /\ TornName \notin ToSet(keys) \cup ToSet(Listed(info))
    /\ \A k \in Key : file[k] # Nothing => file[k].part = "whole"
    /\ phase = "idle" => unstored_configs = <<>>
    /\ phase = "idle" /\ attached => keys = Listed(info)
    /\ saved \/ doc_saved => Listed(info) # <<>>

StoreInv ==
  TypeOK /\ WritingInv /\ ContentInv /\ IndexedKeysHaveFiles /\ FaultlessInv

LEMMA InitInv == Init => StoreInv
<1> SUFFICES ASSUME Init PROVE StoreInv
  OBVIOUS
<1> USE DEF Init
<1>1. ClientTypeOK
  BY DEF ClientTypeOK
<1>2. StoreTypeOK
  <2>1. keys = <<>> /\ unstored_configs = <<>> /\ attached \in BOOLEAN
    OBVIOUS
  <2> HIDE DEF Init
  <2> QED BY <2>1 DEF StoreTypeOK, NoKeyTwice
<1>3. WritingTypeOK
  <2>1. node \in 1..Len(unstored_configs) + 1 /\ message \in Seq(Config)
    OBVIOUS
  <2> QED BY <2>1 DEF WritingTypeOK
<1>4. DiskTypeOK
  BY DEF DiskTypeOK, File
<1>5. HistoryTypeOK
  BY BoundsOK DEF HistoryTypeOK
<1>6. WritingInv
  BY DEF WritingInv
<1>7. ContentInv
  BY DEF ContentInv, ToSet
<1>8. FaultlessInv /\ IndexedKeysHaveFiles
  BY DEF FaultlessInv, IndexedKeysHaveFiles, Listed, ToSet
<1> QED BY <1>1, <1>2, <1>3, <1>4, <1>5, <1>6, <1>7, <1>8 DEF StoreInv, TypeOK

------------------------------------------------------------------------------
(* The store and its files *)

(* A key has at most one unstored config.                                  *)
LEMMA OnlyOneUnstored ==
  ASSUME StoreTypeOK, NEW i \in DOMAIN unstored_configs
  PROVE  /\ Unstored(unstored_configs[i].key) = {i}
         /\ Position(unstored_configs[i].key) = i
<1>1. Unstored(unstored_configs[i].key) = {i}
  BY DEF StoreTypeOK, Unstored
<1> QED BY <1>1 DEF Position

LEMMA NothingUnstored ==
  ASSUME unstored_configs = <<>>, NEW k
  PROVE  Unstored(k) = {}
BY DEF Unstored

LEMMA PositionIsUnstored ==
  ASSUME NEW k, Unstored(k) # {}
  PROVE  /\ Position(k) \in DOMAIN unstored_configs
         /\ unstored_configs[Position(k)].key = k
<1>1. Position(k) \in Unstored(k)
  BY DEF Position
<1> QED BY <1>1 DEF Unstored

LEMMA ListedType ==
  ASSUME NEW i \in Index \cup {Nothing}
  PROVE  /\ Listed(i) \in Seq(Key \cup {TornName})
         /\ Listed(i) = <<>> \/ (i # Nothing /\ Listed(i) = i.names)
<1>1. CASE i = Nothing
  BY <1>1 DEF Listed
<1>2. CASE i # Nothing
  BY <1>2 DEF Listed, Index
<1> QED BY <1>1, <1>2

LEMMA NothingListed == Listed(Nothing) = <<>>
BY DEF Listed

(* The index of a store lists its keys.                                    *)
LEMMA IndexWritten ==
  ASSUME NEW ks \in Seq(Key \cup {TornName})
  PROVE  /\ Info(Len(ks), ks) \in Index
         /\ Info(Len(ks), ks) # Nothing
         /\ Info(Len(ks), ks).names = ks
         /\ Listed(Info(Len(ks), ks)) = ks
<1>1. Len(ks) \in Nat
  OBVIOUS
<1>2. Info(Len(ks), ks) \in Index /\ Info(Len(ks), ks).names = ks
      /\ Info(Len(ks), ks).count = Len(ks)
  BY <1>1 DEF Info, Index
<1>3. Info(Len(ks), ks) # Nothing
  BY <1>2, NothingOK
<1> QED BY <1>1, <1>2, <1>3 DEF Listed

(* An index that was not written to its end is none, or lists keys of the  *)
(* store and perhaps a name that was cut off.                              *)
LEMMA PartlyWritten ==
  ASSUME StoreTypeOK, NEW i \in PartialInfo
  PROVE  /\ i \in Index \cup {Nothing}
         /\ i # Nothing => NoKeyTwice(i.names)
         /\ ToSet(Listed(i)) \subseteq ToSet(keys) \cup {TornName}
<1>1. keys \in Seq(Key \cup {TornName}) /\ NoKeyTwice(keys) /\ Len(keys) \in Nat
  BY DEF StoreTypeOK
<1>2. CASE i = Nothing
  BY <1>2, NothingListed DEF ToSet
<1>3. ASSUME NEW names \in Seq(Key \cup {TornName}), i = Info(Len(keys), names)
      PROVE  i \in Index /\ i.names = names /\ ToSet(Listed(i)) \subseteq ToSet(names)
  <2>1. i \in Index /\ i.names = names
    BY <1>1, <1>3 DEF Info, Index
  <2>2. Listed(i) = <<>> \/ Listed(i) = names
    BY <2>1, ListedType
  <2> QED BY <2>1, <2>2 DEF ToSet
<1>4. ASSUME NEW n \in 0..Len(keys), i = Info(Len(keys), SubSeq(keys, 1, n))
      PROVE  /\ i \in Index /\ NoKeyTwice(i.names)
             /\ ToSet(Listed(i)) \subseteq ToSet(keys) \cup {TornName}
  <2> DEFINE names == SubSeq(keys, 1, n)
  <2>1. /\ names \in Seq(Key \cup {TornName}) /\ Len(names) = n
        /\ \A j \in 1..n : names[j] = keys[j]
    BY <1>1, PrefixType
  <2> HIDE DEF names
  <2>2. DOMAIN names = 1..n /\ n \in 0..Len(keys) /\ 1..n \subseteq DOMAIN keys
    BY <1>1, <2>1
  <2>3. NoKeyTwice(names)
    BY <1>1, <2>1, <2>2 DEF NoKeyTwice
  <2>4. ToSet(names) \subseteq ToSet(keys)
    BY <2>1, <2>2 DEF ToSet
  <2> QED BY <1>3, <1>4, <2>1, <2>3, <2>4 DEF names
<1>5. ASSUME NEW n \in 0..Len(keys) - 1,
             i = Info(Len(keys), Append(SubSeq(keys, 1, n), TornName))
      PROVE  /\ i \in Index /\ NoKeyTwice(i.names)
             /\ ToSet(Listed(i)) \subseteq ToSet(keys) \cup {TornName}
  <2> DEFINE front == SubSeq(keys, 1, n)
             names == Append(front, TornName)
  <2>0. n \in 0..Len(keys)
    BY <1>1
  <2>1. /\ front \in Seq(Key \cup {TornName}) /\ Len(front) = n
        /\ \A j \in 1..n : front[j] = keys[j]
    BY <1>1, <2>0, PrefixType
  <2> HIDE DEF front
  <2>2. /\ names \in Seq(Key \cup {TornName}) /\ Len(names) = n + 1
        /\ DOMAIN names = 1..n + 1
        /\ \A j \in 1..n : names[j] = keys[j]
        /\ names[n + 1] = TornName
    BY <2>0, <2>1
  <2> HIDE DEF names
  <2>3. 1..n \subseteq DOMAIN keys /\ \A j \in 1..n + 1 : j = n + 1 \/ j \in 1..n
    BY <1>1, <2>0
  <2>4. NoKeyTwice(names)
    BY <1>1, <2>2, <2>3, TornNameOK DEF NoKeyTwice
  <2>5. ToSet(names) \subseteq ToSet(keys) \cup {TornName}
    BY <2>2, <2>3 DEF ToSet
  <2>6. i = Info(Len(keys), names)
    BY <1>5 DEF names, front
  <2> QED BY <1>3, <2>2, <2>4, <2>5, <2>6
<1> QED BY <1>2, <1>4, <1>5 DEF PartialInfo

------------------------------------------------------------------------------
(* What the steps do to the store *)

(* Most steps leave the store alone, open it anew, or drop it.             *)
StoreStep == UNCHANGED store \/ OpenStore \/ NoStore

(* store_write returns ok to its caller g; only a fault closes the store.  *)
Returns(g, ok) ==
  /\ Idle
  /\ StoreStep
  /\ faults' = faults \/ Fault
  /\ attached' \/ Fault
  /\ returned' \in {"written", "unwritten"}
  /\ IF g = "save" THEN SaveEnds(saved \/ ok)
                   ELSE UNCHANGED <<saved, recorded, doc_saved>>

LEMMA ReturnStep ==
  ASSUME attached, NEW g \in {"save", "lose", "reopen", "move"},
         NEW ok \in BOOLEAN, Return(g, ok, keys, unstored_configs),
         Renamed(g) \/ Fault
  PROVE  Returns(g, ok)
<1>1. StoreStep
  BY DEF Return, StoreStep, store
<1>2. (attached' \/ Fault) /\ (faults' = faults \/ Fault)
  BY DEF Return, Renamed, OpenStore
<1>3. returned' \in {"written", "unwritten"}
  BY DEF Return
<1> QED BY <1>1, <1>2, <1>3 DEF Return, Returns

(* store_write, called by g while configs are unstored: they are next.     *)
StartsToWrite(g) ==
  /\ unstored_configs # <<>>
  /\ phase' = "configs" /\ message' = <<>>
  /\ node' = 1 /\ failed' = FALSE /\ goal' = g
  /\ returned' = "nothing"
  /\ UNCHANGED <<store, saved, recorded, doc_saved, faults>>

LEMMA StoreWriteStep ==
  ASSUME attached, NEW g \in {"save", "lose", "reopen", "move"},
         StoreWrite(g, keys, unstored_configs)
  PROVE  (unstored_configs = <<>> /\ Returns(g, TRUE)) \/ StartsToWrite(g)
<1>1. CASE unstored_configs = <<>>
  <2>1. Return(g, TRUE, keys, unstored_configs) /\ Renamed(g)
    BY <1>1 DEF StoreWrite
  <2> QED BY <1>1, <2>1, ReturnStep
<1>2. CASE unstored_configs # <<>>
  BY <1>2 DEF StoreWrite, StartsToWrite, store
<1> QED BY <1>1, <1>2

------------------------------------------------------------------------------
(* What the steps do to the disk *)

(* The config that store_write_configs has come to.                        *)
Current == unstored_configs[node]

FileStep ==
  \/ file' = file
  \/ file' = [k \in Key |-> Nothing] /\ info' = Nothing /\ keys' = <<>>
  \/ /\ phase = "configs" /\ node <= Len(unstored_configs)
     /\ \E f \in Remains(Current) \cup {Whole(Current.value)} :
          /\ f = Whole(Current.value) \/ Fault
          /\ file' = [file EXCEPT ![Current.key] = f]

InfoStep ==
  \/ info' = info
  \/ info' = Nothing /\ keys' = <<>>
  \/ phase = "info" /\ info' \in PartialInfo /\ Fault
  \/ phase = "info" /\ info' = Info(Len(keys), keys)

LEMMA DiskStep ==
  ASSUME [Next]_vars
  PROVE  FileStep /\ InfoStep
<1>1. CASE NewClient \/ Resume \/ Load \/ Move
  BY <1>1 DEF NewClient, Resume, Load, Move, disk, FileStep, InfoStep
<1>2. CASE Lose
  BY <1>2 DEF Lose, disk, store, FileStep, InfoStep
<1>3. CASE ClearLost
  BY <1>3 DEF ClearLost, StartOver, NoStore, FileStep, InfoStep
<1>4. CASE Unload
  BY <1>4 DEF Unload, StartOver, NoStore, disk, FileStep, InfoStep
<1>5. CASE Saving
  BY <1>5 DEF Saving, CommitDataSet, SetConfig, SetConfigFails, ConfigsSet,
              CommitRefused, SaveFails, disk, FileStep, InfoStep
<1>6. CASE WriteConfig
  BY <1>6 DEF WriteConfig, Current, FileStep, InfoStep
<1>7. CASE WriteConfigFails
  BY <1>7 DEF WriteConfigFails, Current, FileStep, InfoStep
<1>8. CASE ConfigsDone
  BY <1>8 DEF ConfigsDone, disk, FileStep, InfoStep
<1>9. CASE WriteInfo
  BY <1>9 DEF WriteInfo, NumKeys, FileStep, InfoStep
<1>10. CASE WriteInfoFails
  BY <1>10 DEF WriteInfoFails, FileStep, InfoStep
<1>11. CASE Crash
  BY <1>11 DEF Crash, StartOver, NoStore, disk, Current, FileStep, InfoStep
<1>12. CASE UNCHANGED vars
  BY <1>12 DEF vars, disk, FileStep, InfoStep
<1> QED
  BY <1>1, <1>2, <1>3, <1>4, <1>5, <1>6, <1>7, <1>8, <1>9, <1>10, <1>11, <1>12
     DEF Next, ClientLife, Writing

(* What a write of the current config can leave in its file.               *)
LEMMA CurrentConfig ==
  ASSUME StoreTypeOK, WritingTypeOK, DiskTypeOK, node <= Len(unstored_configs)
  PROVE  /\ node \in DOMAIN unstored_configs
         /\ Current \in Config
         /\ Current.key \in Key /\ Current.value \in Value
         /\ Current.key \in ToSet(keys)
         /\ \A f \in Remains(Current) \cup {Whole(Current.value)} :
              \/ f = file[Current.key]
              \/ f \in Content /\ f # Nothing /\ f.value = Current.value
         /\ Whole(Current.value) \in Content /\ Whole(Current.value) # Nothing
<1>1. node \in 1..Len(unstored_configs) /\ unstored_configs \in Seq(Config)
  BY DEF StoreTypeOK, WritingTypeOK
<1>2. node \in DOMAIN unstored_configs /\ Current \in Config
  BY <1>1 DEF Current
<1>3. Current.key \in Key /\ Current.value \in Value
  BY <1>2 DEF Config
<1>4. Current.key \in ToSet(keys)
  BY <1>2 DEF StoreTypeOK, Current
<1>5. \A f \in {Untyped(Current.value), Torn(Current.value), Whole(Current.value)} :
        f \in Content /\ f.value = Current.value
  BY <1>3 DEF Untyped, Torn, Whole, Content
<1> QED
  BY <1>2, <1>3, <1>4, <1>5, NothingOK DEF Remains

LEMMA DiskTypes ==
  ASSUME TypeOK, ContentInv, [Next]_vars
  PROVE  /\ DiskTypeOK'
         /\ info' # Nothing => NoKeyTwice(info'.names)
<1> USE DEF TypeOK
<1>1. FileStep /\ InfoStep
  BY DiskStep
<1>2. (file \in [Key -> File])'
  <2>1. CASE file' = file \/ file' = [k \in Key |-> Nothing]
    BY <2>1 DEF DiskTypeOK, File
  <2>2. CASE /\ phase = "configs" /\ node <= Len(unstored_configs)
             /\ \E f \in Remains(Current) \cup {Whole(Current.value)} :
                  file' = [file EXCEPT ![Current.key] = f]
    <3>1. PICK f \in Remains(Current) \cup {Whole(Current.value)} :
            file' = [file EXCEPT ![Current.key] = f]
      BY <2>2
    <3>2. Current.key \in Key /\ f \in File /\ file \in [Key -> File]
      BY <2>2, CurrentConfig DEF DiskTypeOK, File
    <3> QED BY <3>1, <3>2
  <2> QED BY <1>1, <2>1, <2>2 DEF FileStep
<1>3. /\ (info \in Index \cup {Nothing})'
      /\ info' # Nothing => NoKeyTwice(info'.names)
  <2>1. CASE info' = info \/ info' = Nothing
    BY <2>1 DEF DiskTypeOK, ContentInv
  <2>2. CASE info' \in PartialInfo
    BY <2>2, PartlyWritten
  <2>3. CASE info' = Info(Len(keys), keys)
    BY <2>3, IndexWritten DEF StoreTypeOK
  <2> QED BY <1>1, <2>1, <2>2, <2>3 DEF InfoStep
<1> QED BY <1>2, <1>3 DEF DiskTypeOK

------------------------------------------------------------------------------
(* The two steps that change the lists *)

(* store_set_config lists the key and has one unstored config for it.      *)
LEMMA ConfigSet ==
  ASSUME StoreTypeOK, WritingTypeOK, SetConfig
  PROVE  /\ Head(message) \in Config /\ message' \in Seq(Config)
         /\ keys' \in Seq(Key \cup {TornName}) /\ NoKeyTwice(keys')
         /\ ToSet(keys') = ToSet(keys) \cup {Head(message).key}
         /\ unstored_configs' \in Seq(Config)
         /\ Len(unstored_configs') >= Len(unstored_configs)
         /\ unstored_configs' # <<>>
         /\ \E p \in DOMAIN unstored_configs' :
              /\ unstored_configs'[p] = Head(message)
              /\ Unstored(Head(message).key) \subseteq {p}
              /\ \A i \in DOMAIN unstored_configs' \ {p} :
                   /\ i \in DOMAIN unstored_configs
                   /\ unstored_configs'[i] = unstored_configs[i]
                   /\ unstored_configs[i].key # Head(message).key
              /\ \A i \in DOMAIN unstored_configs : i \in DOMAIN unstored_configs'
              /\ p \in DOMAIN unstored_configs => p \in Unstored(Head(message).key)
<1> DEFINE c == Head(message)
<1>1. /\ keys \in Seq(Key \cup {TornName}) /\ NoKeyTwice(keys)
      /\ unstored_configs \in Seq(Config) /\ message \in Seq(Config)
  BY DEF StoreTypeOK, WritingTypeOK
<1>2. c \in Config /\ message' \in Seq(Config) /\ message # <<>>
  BY <1>1 DEF SetConfig
<1>3. c.key \in Key
  BY <1>2 DEF Config
<1>4. /\ keys' = IF c.key \in ToSet(keys) THEN keys ELSE Append(keys, c.key)
      /\ unstored_configs' =
           IF Unstored(c.key) = {}
             THEN Append(unstored_configs, c)
             ELSE [unstored_configs EXCEPT ![Position(c.key)] = c]
  BY DEF SetConfig
<1> HIDE DEF c
<1>5. /\ keys' \in Seq(Key \cup {TornName}) /\ NoKeyTwice(keys')
      /\ ToSet(keys') = ToSet(keys) \cup {c.key}
  <2>1. CASE c.key \in ToSet(keys)
    BY <1>1, <1>4, <2>1
  <2>2. CASE c.key \notin ToSet(keys)
    <3>1. keys' = Append(keys, c.key)
      BY <1>4, <2>2
    <3>2. keys' \in Seq(Key \cup {TornName})
      BY <1>1, <1>3, <3>1
    <3>3. ToSet(keys') = ToSet(keys) \cup {c.key}
      BY <1>1, <3>1, AppendedSet
    <3>4. /\ Len(keys) \in Nat /\ DOMAIN keys = 1..Len(keys)
          /\ DOMAIN keys' = 1..Len(keys) + 1
          /\ \A i \in 1..Len(keys) : keys'[i] = keys[i]
          /\ keys'[Len(keys) + 1] = c.key
      BY <1>1, <3>1
    <3>5. \A i \in DOMAIN keys : keys[i] # c.key
      BY <2>2 DEF ToSet
    <3>6. NoKeyTwice(keys')
      <4>1. \A i \in 1..Len(keys) + 1 : i \in DOMAIN keys \/ i = Len(keys) + 1
        BY <3>4
      <4> QED BY <1>1, <3>4, <3>5, <4>1 DEF NoKeyTwice
    <3> QED BY <3>2, <3>3, <3>6
  <2> QED BY <2>1, <2>2
<1>6. /\ unstored_configs' \in Seq(Config)
      /\ Len(unstored_configs') >= Len(unstored_configs)
      /\ unstored_configs' # <<>>
      /\ \E p \in DOMAIN unstored_configs' :
           /\ unstored_configs'[p] = c
           /\ Unstored(c.key) \subseteq {p}
           /\ \A i \in DOMAIN unstored_configs' \ {p} :
                /\ i \in DOMAIN unstored_configs
                /\ unstored_configs'[i] = unstored_configs[i]
                /\ unstored_configs[i].key # c.key
           /\ \A i \in DOMAIN unstored_configs : i \in DOMAIN unstored_configs'
           /\ p \in DOMAIN unstored_configs => p \in Unstored(c.key)
  <2>1. CASE Unstored(c.key) = {}
    <3>1. unstored_configs' = Append(unstored_configs, c)
      BY <1>4, <2>1
    <3> DEFINE n == Len(unstored_configs)
    <3>2. /\ n \in Nat /\ DOMAIN unstored_configs = 1..n
          /\ unstored_configs' \in Seq(Config) /\ Len(unstored_configs') = n + 1
          /\ DOMAIN unstored_configs' = 1..n + 1
          /\ \A i \in 1..n : unstored_configs'[i] = unstored_configs[i]
          /\ unstored_configs'[n + 1] = c
      BY <1>1, <1>2, <3>1
    <3> HIDE DEF n
    <3>3. \A i \in DOMAIN unstored_configs : unstored_configs[i].key # c.key
      BY <2>1 DEF Unstored
    <3>4. /\ n + 1 \in 1..n + 1 /\ 1..n \subseteq 1..n + 1 /\ n + 1 \notin 1..n
          /\ \A i \in 1..n + 1 : i \in 1..n \/ i = n + 1
      BY <3>2
    <3>5. unstored_configs' # <<>> /\ Len(unstored_configs') >= n
      BY <3>2
    <3> QED BY <2>1, <3>2, <3>3, <3>4, <3>5 DEF n
  <2>2. CASE Unstored(c.key) # {}
    <3> DEFINE p == Position(c.key)
    <3>1. unstored_configs' = [unstored_configs EXCEPT ![p] = c]
      BY <1>4, <2>2
    <3>2. p \in DOMAIN unstored_configs /\ unstored_configs[p].key = c.key
      BY <2>2, PositionIsUnstored
    <3>3. Unstored(c.key) = {p}
      BY <3>2, OnlyOneUnstored
    <3> HIDE DEF p
    <3>4. /\ unstored_configs' \in Seq(Config)
          /\ Len(unstored_configs') = Len(unstored_configs)
          /\ DOMAIN unstored_configs' = DOMAIN unstored_configs
          /\ unstored_configs'[p] = c
          /\ \A i \in DOMAIN unstored_configs \ {p} :
               unstored_configs'[i] = unstored_configs[i]
      BY <1>1, <1>2, <3>1, <3>2, ExceptSeq
    <3>5. \A i \in DOMAIN unstored_configs \ {p} : unstored_configs[i].key # c.key
      BY <3>3 DEF Unstored
    <3>6. unstored_configs' # <<>> /\ Len(unstored_configs') >= Len(unstored_configs)
      BY <1>1, <3>2, <3>4
    <3> QED BY <3>2, <3>3, <3>4, <3>5, <3>6
  <2> QED BY <2>1, <2>2
<1> QED BY <1>2, <1>5, <1>6 DEF c

(* store_write_config drops the config that it wrote, and no other.        *)
LEMMA ConfigWritten ==
  ASSUME StoreTypeOK, WritingTypeOK, WriteConfig
  PROVE  /\ unstored_configs' \in Seq(Config)
         /\ Len(unstored_configs') = Len(unstored_configs) - 1
         /\ \A i \in DOMAIN unstored_configs' :
              \E j \in DOMAIN unstored_configs \ {node} :
                /\ unstored_configs'[i] = unstored_configs[j]
                /\ j = IF i < node THEN i ELSE i + 1
         /\ \A j \in DOMAIN unstored_configs \ {node} :
              \E i \in DOMAIN unstored_configs' :
                unstored_configs'[i] = unstored_configs[j]
<1>1. /\ unstored_configs \in Seq(Config)
      /\ node \in 1..Len(unstored_configs)
      /\ Len(unstored_configs) \in Nat
      /\ unstored_configs' = RemoveAt(unstored_configs, node)
      /\ DOMAIN unstored_configs = 1..Len(unstored_configs)
  BY DEF StoreTypeOK, WritingTypeOK, WriteConfig
<1>2. /\ unstored_configs' \in Seq(Config)
      /\ Len(unstored_configs') = Len(unstored_configs) - 1
      /\ \A j \in 1..Len(unstored_configs) - 1 :
           unstored_configs'[j] = IF j < node THEN unstored_configs[j]
                                              ELSE unstored_configs[j + 1]
  BY <1>1, Removed
<1>3. DOMAIN unstored_configs' = 1..Len(unstored_configs) - 1
  BY <1>2
<1>4. ASSUME NEW i \in DOMAIN unstored_configs'
      PROVE  \E j \in DOMAIN unstored_configs \ {node} :
                /\ unstored_configs'[i] = unstored_configs[j]
                /\ j = IF i < node THEN i ELSE i + 1
  <2> DEFINE j == IF i < node THEN i ELSE i + 1
  <2>1. j \in DOMAIN unstored_configs \ {node} /\ i \in 1..Len(unstored_configs) - 1
    BY <1>1, <1>3
  <2>2. unstored_configs'[i] = unstored_configs[j]
    BY <1>2, <2>1
  <2> QED BY <2>1, <2>2
<1>5. ASSUME NEW j \in DOMAIN unstored_configs \ {node}
      PROVE  \E i \in DOMAIN unstored_configs' :
                unstored_configs'[i] = unstored_configs[j]
  <2> DEFINE i == IF j < node THEN j ELSE j - 1
  <2>1. /\ i \in 1..Len(unstored_configs) - 1
        /\ i < node => i = j
        /\ ~(i < node) => i + 1 = j
    BY <1>1
  <2>2. unstored_configs'[i] = unstored_configs[j]
    BY <1>2, <2>1
  <2> QED BY <1>3, <2>1, <2>2
<1> QED BY <1>2, <1>4, <1>5

------------------------------------------------------------------------------
(* Every other step *)

LEMMA OtherSteps ==
  ASSUME TypeOK, WritingInv, [Next]_vars
  PROVE  SetConfig \/ WriteConfig \/ StoreStep
<1>1. CASE NewClient
  BY <1>1 DEF NewClient, StoreStep
<1>2. CASE Resume
  BY <1>2, StoreWriteStep DEF Resume, Returns, StartsToWrite, StoreStep
<1>3. CASE Lose
  BY <1>3, StoreWriteStep DEF Lose, Returns, StartsToWrite, StoreStep
<1>4. CASE Move
  BY <1>4, StoreWriteStep DEF Move, Returns, StartsToWrite, StoreStep
<1>5. CASE ClearLost \/ Unload \/ Load
  BY <1>5 DEF ClearLost, Unload, Load, StoreStep
<1>6. CASE ConfigsSet
  <2>1. attached
    BY <1>6 DEF ConfigsSet, WritingInv
  <2> QED BY <1>6, <2>1, StoreWriteStep
             DEF ConfigsSet, Returns, StartsToWrite, StoreStep
<1>7. CASE (\E batch \in Batch : CommitDataSet(batch)) \/ SetConfigFails
           \/ CommitRefused \/ SaveFails
  BY <1>7 DEF CommitDataSet, SetConfigFails, CommitRefused, SaveFails, StoreStep
<1>8. CASE WriteConfigFails
  BY <1>8 DEF WriteConfigFails, AfterFailure, StoreStep, store
<1>9. CASE ConfigsDone
  BY <1>9 DEF ConfigsDone, Return, StoreStep, store
<1>10. CASE WriteInfo
  BY <1>10 DEF WriteInfo, Return, StoreStep, store, WritingInv
<1>11. CASE WriteInfoFails
  BY <1>11 DEF WriteInfoFails, Return, StoreStep, store
<1>12. CASE Crash
  BY <1>12 DEF Crash, StoreStep
<1>13. CASE UNCHANGED vars
  BY <1>13 DEF vars, StoreStep
<1> QED
  BY <1>1, <1>2, <1>3, <1>4, <1>5, <1>6, <1>7, <1>8, <1>9, <1>10, <1>11, <1>12,
     <1>13 DEF Next, ClientLife, Saving, Writing

LEMMA StoreTypes ==
  ASSUME TypeOK, WritingInv, ContentInv, [Next]_vars
  PROVE  StoreTypeOK'
<1> USE DEF TypeOK
<1>1. CASE SetConfig
  <2> DEFINE c == Head(message)
  <2>1. /\ keys' \in Seq(Key \cup {TornName}) /\ NoKeyTwice(keys')
        /\ ToSet(keys') = ToSet(keys) \cup {c.key}
        /\ unstored_configs' \in Seq(Config)
    BY <1>1, ConfigSet
  <2>2. PICK p \in DOMAIN unstored_configs' :
          /\ unstored_configs'[p] = c
          /\ \A i \in DOMAIN unstored_configs' \ {p} :
               /\ i \in DOMAIN unstored_configs
               /\ unstored_configs'[i] = unstored_configs[i]
               /\ unstored_configs[i].key # c.key
    BY <1>1, ConfigSet
  <2> HIDE DEF c
  <2>3. \A i, j \in DOMAIN unstored_configs' :
          unstored_configs'[i].key = unstored_configs'[j].key => i = j
    BY <2>2 DEF StoreTypeOK
  <2>4. \A i \in DOMAIN unstored_configs' : unstored_configs'[i].key \in ToSet(keys')
    BY <2>1, <2>2 DEF StoreTypeOK
  <2>5. attached' \in BOOLEAN
    BY <1>1 DEF SetConfig, StoreTypeOK
  <2> QED BY <2>1, <2>3, <2>4, <2>5 DEF StoreTypeOK
<1>2. CASE WriteConfig
  <2>1. attached' = attached /\ keys' = keys
    BY <1>2 DEF WriteConfig
  <2>2. /\ unstored_configs' \in Seq(Config)
        /\ \A i \in DOMAIN unstored_configs' :
             \E j \in DOMAIN unstored_configs \ {node} :
               /\ unstored_configs'[i] = unstored_configs[j]
               /\ j = IF i < node THEN i ELSE i + 1
    BY <1>2, ConfigWritten
  <2>3. \A i \in DOMAIN unstored_configs' : unstored_configs'[i].key \in ToSet(keys')
    BY <2>1, <2>2 DEF StoreTypeOK
  <2>4. ASSUME NEW i \in DOMAIN unstored_configs', NEW j \in DOMAIN unstored_configs',
               unstored_configs'[i].key = unstored_configs'[j].key
        PROVE  i = j
    <3>1. PICK ii \in DOMAIN unstored_configs \ {node} :
            /\ unstored_configs'[i] = unstored_configs[ii]
            /\ ii = IF i < node THEN i ELSE i + 1
      BY <2>2
    <3>2. PICK jj \in DOMAIN unstored_configs \ {node} :
            /\ unstored_configs'[j] = unstored_configs[jj]
            /\ jj = IF j < node THEN j ELSE j + 1
      BY <2>2
    <3>3. ii = jj
      BY <2>4, <3>1, <3>2 DEF StoreTypeOK
    <3>4. i \in Nat /\ j \in Nat
      BY <2>2
    <3>5. node \in Nat
      BY DEF WritingTypeOK, StoreTypeOK
    <3>6. (i < node => ii = i) /\ (~(i < node) => ii = i + 1)
      BY <3>1
    <3>7. (j < node => jj = j) /\ (~(j < node) => jj = j + 1)
      BY <3>2
    <3>8. ii # node /\ jj # node
      OBVIOUS
    <3> QED BY <3>3, <3>4, <3>5, <3>6, <3>7, <3>8
  <2> QED BY <2>1, <2>2, <2>3, <2>4 DEF StoreTypeOK
<1>3. CASE UNCHANGED store
  BY <1>3 DEF store, StoreTypeOK, NoKeyTwice
<1>4. CASE OpenStore
  <2>1. attached' = TRUE /\ keys' = Listed(info') /\ unstored_configs' = <<>>
    BY <1>4 DEF OpenStore
  <2>2. info' \in Index \cup {Nothing} /\ (info' # Nothing => NoKeyTwice(info'.names))
    BY DiskTypes DEF DiskTypeOK
  <2>3. keys' \in Seq(Key \cup {TornName}) /\ NoKeyTwice(keys')
    <3>1. NoKeyTwice(<<>>)
      BY DEF NoKeyTwice
    <3> QED BY <2>1, <2>2, <3>1, ListedType
  <2> QED BY <2>1, <2>3 DEF StoreTypeOK
<1>5. CASE NoStore
  <2>1. attached' = FALSE /\ keys' = <<>> /\ unstored_configs' = <<>>
    BY <1>5 DEF NoStore
  <2>2. keys' \in Seq(Key \cup {TornName}) /\ unstored_configs' \in Seq(Config)
    BY <2>1
  <2>3. NoKeyTwice(keys') /\ DOMAIN unstored_configs' = {}
    BY <2>1 DEF NoKeyTwice
  <2>4. attached' \in BOOLEAN
    BY <2>1
  <2> QED BY <2>2, <2>3, <2>4 DEF StoreTypeOK
<1> QED BY <1>1, <1>2, <1>3, <1>4, <1>5, OtherSteps DEF StoreStep

(* The progress of a save or a write: kept, over, or just begun.           *)
LEMMA ProgressSteps ==
  ASSUME TypeOK, WritingInv, [Next]_vars
  PROVE  \/ SetConfig \/ WriteConfig \/ WriteConfigFails
         \/ phase = "configs" /\ ConfigsDone /\ ~failed
         \/ \E batch \in Batch : CommitDataSet(batch)
         \/ UNCHANGED vars
         \/ phase = "idle" /\ UNCHANGED writing
         \/ Idle
         \/ \E g \in {"save", "lose", "reopen", "move"} : attached /\ StartsToWrite(g)
<1> USE DEF TypeOK
<1>1. CASE NewClient
  BY <1>1 DEF NewClient, WritingInv
<1>2. CASE Resume
  BY <1>2, StoreWriteStep DEF Resume, Returns
<1>3. CASE Lose
  BY <1>3, StoreWriteStep DEF Lose, Returns
<1>4. CASE Move
  BY <1>4, StoreWriteStep DEF Move, Returns
<1>5. CASE ClearLost \/ Unload
  BY <1>5 DEF ClearLost, Unload
<1>6. CASE Load
  BY <1>6 DEF Load, WritingInv
<1>7. CASE ConfigsSet
  <2>1. attached
    BY <1>7 DEF ConfigsSet, WritingInv
  <2> QED BY <1>7, <2>1, StoreWriteStep DEF ConfigsSet, Returns
<1>8. CASE SetConfigFails \/ CommitRefused \/ SaveFails
  BY <1>8 DEF SetConfigFails, CommitRefused, SaveFails
<1>9. CASE ConfigsDone
  BY <1>9 DEF ConfigsDone, ConfigsFailed, Return, WritingTypeOK
<1>10. CASE WriteInfo \/ WriteInfoFails \/ Crash
  BY <1>10 DEF WriteInfo, WriteInfoFails, Return, Crash
<1> QED
  BY <1>1, <1>2, <1>3, <1>4, <1>5, <1>6, <1>7, <1>8, <1>9, <1>10
     DEF Next, ClientLife, Saving, Writing

LEMMA WritingTypes ==
  ASSUME TypeOK, WritingInv, StoreTypeOK', [Next]_vars
  PROVE  WritingTypeOK'
<1> USE DEF TypeOK
<1>0. /\ Len(unstored_configs) \in Nat /\ Len(unstored_configs') \in Nat
      /\ node \in 1..Len(unstored_configs) + 1 /\ message \in Seq(Config)
      /\ 1 \in 1..Len(unstored_configs') + 1 /\ <<>> \in Seq(Config)
  BY DEF StoreTypeOK, WritingTypeOK
<1>1. CASE SetConfig
  <2>1. Len(unstored_configs') >= Len(unstored_configs) /\ message' \in Seq(Config)
    BY <1>1, ConfigSet
  <2> QED BY <1>0, <1>1, <2>1 DEF SetConfig, WritingTypeOK
<1>2. CASE WriteConfig
  <2>1. Len(unstored_configs') = Len(unstored_configs) - 1
        /\ node <= Len(unstored_configs)
    BY <1>2, ConfigWritten DEF WriteConfig
  <2>2. UNCHANGED <<phase, message, node, failed, goal>>
    BY <1>2 DEF WriteConfig, writing
  <2> QED BY <1>0, <2>1, <2>2 DEF WritingTypeOK
<1>3. CASE WriteConfigFails
  BY <1>0, <1>3 DEF WriteConfigFails, AfterFailure, WritingTypeOK
<1>4. CASE phase = "configs" /\ ConfigsDone /\ ~failed
  BY <1>0, <1>4 DEF ConfigsDone, ConfigsFailed, store, WritingTypeOK
<1>5. CASE \E batch \in Batch : CommitDataSet(batch)
  BY <1>0, <1>5, BatchOK DEF CommitDataSet, WritingTypeOK
<1>6. CASE UNCHANGED vars
  BY <1>6 DEF vars, store, writing, WritingTypeOK
<1>7. CASE phase = "idle" /\ UNCHANGED writing
  BY <1>0, <1>7 DEF writing, WritingTypeOK, WritingInv
<1>8. CASE Idle
  BY <1>0, <1>8 DEF Idle, WritingTypeOK
<1>9. CASE \E g \in {"save", "lose", "reopen", "move"} : attached /\ StartsToWrite(g)
  BY <1>0, <1>9 DEF StartsToWrite, WritingTypeOK
<1> QED BY <1>1, <1>2, <1>3, <1>4, <1>5, <1>6, <1>7, <1>8, <1>9, ProgressSteps

(* Faults are counted, and the values given are kept unless the client is  *)
(* forgotten.                                                              *)
LEMMA HistorySteps ==
  ASSUME TypeOK, WritingInv, [Next]_vars
  PROVE  /\ faults' = faults \/ Fault
         /\ commits' = commits \/ (commits < MaxCommits /\ commits' = commits + 1)
         /\ given' = given \/ StartOver \/ SetConfig
         /\ returned' \in {"nothing", "written", "unwritten", "refused"}
<1> USE DEF TypeOK
<1>1. CASE Resume \/ Lose \/ Move \/ ConfigsSet
  <2>1. CASE \E g \in {"save", "lose", "reopen", "move"} :
               attached /\ StoreWrite(g, keys, unstored_configs)
    <3>1. (faults' = faults \/ Fault) /\ returned' \in {"nothing", "written", "unwritten"}
      BY <2>1, StoreWriteStep DEF Returns, StartsToWrite
    <3> QED BY <1>1, <3>1 DEF Resume, Lose, Move, ConfigsSet
  <2>2. CASE ~\E g \in {"save", "lose", "reopen", "move"} :
               attached /\ StoreWrite(g, keys, unstored_configs)
    BY <1>1, <2>2 DEF Resume, Lose, Move, ConfigsSet, WritingInv
  <2> QED BY <2>1, <2>2
<1>2. CASE NewClient \/ ClearLost \/ Unload \/ Load
  BY <1>2 DEF NewClient, ClearLost, Unload, Load, history
<1>3. CASE SetConfig \/ (\E batch \in Batch : CommitDataSet(batch)) \/ SetConfigFails
           \/ CommitRefused \/ SaveFails
  BY <1>3 DEF SetConfig, CommitDataSet, SetConfigFails, CommitRefused, SaveFails,
              history
<1>4. CASE WriteConfig \/ WriteConfigFails
  BY <1>4 DEF WriteConfig, WriteConfigFails, history
<1>5. CASE ConfigsDone
  BY <1>5 DEF ConfigsDone, Return, Renamed
<1>6. CASE WriteInfo \/ WriteInfoFails
  BY <1>6 DEF WriteInfo, WriteInfoFails, Return, Renamed
<1>7. CASE Crash
  BY <1>7 DEF Crash
<1>8. CASE UNCHANGED vars
  BY <1>8 DEF vars, history, HistoryTypeOK
<1> QED
  BY <1>1, <1>2, <1>3, <1>4, <1>5, <1>6, <1>7, <1>8 DEF Next, ClientLife, Saving, Writing

LEMMA HistoryTypes ==
  ASSUME TypeOK, WritingInv, [Next]_vars
  PROVE  HistoryTypeOK'
<1> USE DEF TypeOK
<1>1. (faults \in 0..MaxFaults)' /\ (commits \in 0..MaxCommits)'
  BY HistorySteps, BoundsOK DEF Fault, HistoryTypeOK
<1>2. (given \in [Key -> SUBSET Value])'
  <2>1. CASE given' = given \/ StartOver
    BY <2>1 DEF StartOver, HistoryTypeOK
  <2>2. CASE SetConfig
    <3>1. Head(message) \in Config
      BY <2>2, ConfigSet
    <3>2. Head(message).key \in Key /\ Head(message).value \in Value
      BY <3>1 DEF Config
    <3> QED BY <2>2, <3>2 DEF SetConfig, HistoryTypeOK
  <2> QED BY <2>1, <2>2, HistorySteps
<1> QED BY <1>1, <1>2, HistorySteps DEF HistoryTypeOK

LEMMA ClientTypes ==
  ASSUME TypeOK, WritingInv, [Next]_vars
  PROVE  ClientTypeOK'
<1> USE DEF TypeOK, ClientTypeOK
<1>1. CASE Resume \/ Lose \/ Move \/ ConfigsSet
  <2>1. CASE \E g \in {"save", "lose", "reopen", "move"} :
               attached /\ StoreWrite(g, keys, unstored_configs)
    <3>1. (saved \in BOOLEAN /\ recorded \in BOOLEAN /\ doc_saved \in BOOLEAN)'
      BY <2>1, StoreWriteStep DEF Returns, StartsToWrite, SaveEnds
    <3> QED BY <1>1, <3>1 DEF Resume, Lose, Move, ConfigsSet
  <2>2. CASE ~\E g \in {"save", "lose", "reopen", "move"} :
               attached /\ StoreWrite(g, keys, unstored_configs)
    BY <1>1, <2>2 DEF Resume, Lose, Move, ConfigsSet, WritingInv
  <2> QED BY <2>1, <2>2
<1>2. CASE NewClient \/ ClearLost \/ Unload \/ Load
  BY <1>2 DEF NewClient, ClearLost, Unload, StartOver, Load
<1>3. CASE SetConfig \/ (\E batch \in Batch : CommitDataSet(batch)) \/ SetConfigFails
           \/ CommitRefused \/ SaveFails
  BY <1>3 DEF SetConfig, CommitDataSet, SetConfigFails, CommitRefused, SaveFails,
              SaveEnds, client
<1>4. CASE WriteConfig \/ WriteConfigFails
  BY <1>4 DEF WriteConfig, WriteConfigFails, client
<1>5. CASE ConfigsDone
  BY <1>5 DEF ConfigsDone, Return, SaveEnds
<1>6. CASE WriteInfo \/ WriteInfoFails
  BY <1>6 DEF WriteInfo, WriteInfoFails, Return, SaveEnds
<1>7. CASE Crash
  BY <1>7 DEF Crash, StartOver
<1>8. CASE UNCHANGED vars
  BY <1>8 DEF vars, client
<1> QED
  BY <1>1, <1>2, <1>3, <1>4, <1>5, <1>6, <1>7, <1>8 DEF Next, ClientLife, Saving, Writing

LEMMA TypesStep ==
  ASSUME TypeOK, WritingInv, ContentInv, [Next]_vars
  PROVE  TypeOK'
<1>1. DiskTypeOK' /\ StoreTypeOK' /\ HistoryTypeOK' /\ ClientTypeOK'
  BY DiskTypes, StoreTypes, HistoryTypes, ClientTypes
<1>2. WritingTypeOK'
  BY <1>1, WritingTypes
<1> QED BY <1>1, <1>2 DEF TypeOK

------------------------------------------------------------------------------
(* Writing *)

LEMMA ClosedIsUnattached ==
  ASSUME TypeOK, WritingInv, [Next]_vars
  PROVE  (life \in {"none", "closed"} => ~attached)'
<1>1. CASE NewClient \/ Resume \/ Lose \/ Move
  BY <1>1 DEF NewClient, Resume, Lose, Move
<1>2. CASE ClearLost \/ Unload \/ Crash
  BY <1>2 DEF ClearLost, Unload, Crash, NoStore
<1>3. CASE Load
  BY <1>3 DEF Load
<1>4. CASE Saving
  <2>1. life' = life
    BY <1>4 DEF Saving, CommitDataSet, SetConfig, SetConfigFails, ConfigsSet,
                CommitRefused, SaveFails, client
  <2>2. CASE ConfigsSet
    BY <2>1, <2>2 DEF ConfigsSet, WritingInv, TypeOK, ClientTypeOK,
                      StoreWrite, Return
  <2>3. CASE ~ConfigsSet
    <3>1. attached' = attached
      BY <1>4, <2>3 DEF Saving, CommitDataSet, SetConfig, SetConfigFails,
                        CommitRefused, SaveFails, store
    <3> QED BY <2>1, <3>1 DEF WritingInv
  <2> QED BY <2>2, <2>3
<1>5. CASE Writing
  <2>1. life' = life /\ phase # "idle"
    BY <1>5 DEF Writing, WriteConfig, WriteConfigFails, ConfigsDone, WriteInfo,
                WriteInfoFails, client
  <2> QED BY <2>1 DEF WritingInv
<1>6. CASE UNCHANGED vars
  BY <1>6 DEF vars, client, store, WritingInv
<1> QED BY <1>1, <1>2, <1>3, <1>4, <1>5, <1>6 DEF Next, ClientLife

LEMMA UnattachedIsEmpty ==
  ASSUME TypeOK, WritingInv, [Next]_vars
  PROVE  (~attached => keys = <<>> /\ unstored_configs = <<>>)'
<1>1. CASE SetConfig \/ WriteConfig
  BY <1>1 DEF SetConfig, WriteConfig, WritingInv
<1>2. CASE StoreStep
  BY <1>2 DEF StoreStep, OpenStore, NoStore, store, WritingInv
<1> QED BY <1>1, <1>2, OtherSteps

LEMMA WritingStep ==
  ASSUME TypeOK, WritingInv, ContentInv, [Next]_vars
  PROVE  WritingInv'
<1> USE DEF TypeOK
<1> DEFINE Progress == /\ phase # "idle" => attached
                       /\ phase = "set" => message # <<>> \/ unstored_configs # <<>>
                       /\ phase \in {"configs", "info"} => keys # <<>>
                       /\ phase = "info" => unstored_configs = <<>>
                       /\ ~failed => node = 1
                       /\ failed => phase = "configs" /\ faults > 0
<1>1. Progress'
  <2>1. CASE SetConfig
    <3>1. unstored_configs' # <<>>
      BY <2>1, ConfigSet
    <3> QED BY <2>1, <3>1 DEF SetConfig, WritingInv
  <2>2. CASE WriteConfig
    BY <2>2 DEF WriteConfig, writing, history, WritingInv
  <2>3. CASE WriteConfigFails
    BY <2>3 DEF WriteConfigFails, Fault, WritingInv, HistoryTypeOK
  <2>4. CASE phase = "configs" /\ ConfigsDone /\ ~failed
    <3>1. node = 1 /\ node > Len(unstored_configs)
      BY <2>4 DEF WritingInv, ConfigsDone
    <3>2. unstored_configs = <<>>
      BY <3>1 DEF StoreTypeOK
    <3> QED BY <2>4, <3>2 DEF ConfigsDone, ConfigsFailed, store, WritingInv
  <2>5. CASE \E batch \in Batch : CommitDataSet(batch)
    BY <2>5, BatchOK DEF CommitDataSet, store, WritingInv
  <2>6. CASE UNCHANGED vars
    BY <2>6 DEF vars, store, writing, history, WritingInv
  <2>7. CASE phase = "idle" /\ UNCHANGED writing
    BY <2>7 DEF writing, WritingInv
  <2>8. CASE Idle
    BY <2>8 DEF Idle
  <2>9. CASE \E g \in {"save", "lose", "reopen", "move"} : attached /\ StartsToWrite(g)
    <3>1. unstored_configs # <<>>
      BY <2>9 DEF StartsToWrite
    <3>2. keys # <<>>
      <4>1. 1 \in DOMAIN unstored_configs
        BY <3>1 DEF StoreTypeOK
      <4>2. unstored_configs[1].key \in ToSet(keys)
        BY <4>1 DEF StoreTypeOK
      <4> QED BY <4>2 DEF ToSet
    <3> QED BY <2>9, <3>1, <3>2 DEF StartsToWrite, store
  <2> QED BY <2>1, <2>2, <2>3, <2>4, <2>5, <2>6, <2>7, <2>8, <2>9, ProgressSteps
<1> QED BY <1>1, ClosedIsUnattached, UnattachedIsEmpty DEF WritingInv

------------------------------------------------------------------------------
(* Content *)

LEMMA GivenGrows ==
  ASSUME TypeOK, WritingInv, [Next]_vars
  PROVE  StartOver \/ \A k \in Key : given[k] \subseteq given'[k]
<1> USE DEF TypeOK
<1>1. CASE given' = given \/ StartOver
  BY <1>1
<1>2. CASE SetConfig
  BY <1>2 DEF SetConfig, HistoryTypeOK
<1> QED BY <1>1, <1>2, HistorySteps

(* A client that is forgotten has no store.                                *)
LEMMA Forgotten ==
  ASSUME StartOver, WritingInv'
  PROVE  /\ ~attached' /\ keys' = <<>> /\ unstored_configs' = <<>>
         /\ info' = Nothing /\ file' = [k \in Key |-> Nothing]
BY DEF StartOver, WritingInv

LEMMA FilesAreGiven ==
  ASSUME TypeOK, WritingInv, ContentInv, [Next]_vars
  PROVE  \A k \in Key : file'[k] # Nothing => file'[k].value \in given'[k]
<1> USE DEF TypeOK
<1>1. CASE StartOver
  BY <1>1 DEF StartOver
<1>2. CASE ~StartOver
  <2>1. \A k \in Key : given[k] \subseteq given'[k]
    BY <1>2, GivenGrows
  <2>2. CASE file' = file
    BY <2>1, <2>2 DEF ContentInv
  <2>3. CASE file' = [k \in Key |-> Nothing]
    BY <2>3
  <2>4. ASSUME node <= Len(unstored_configs),
               NEW f \in Remains(Current) \cup {Whole(Current.value)},
               file' = [file EXCEPT ![Current.key] = f]
        PROVE  \A k \in Key : file'[k] # Nothing => file'[k].value \in given'[k]
    <3>1. Current.value \in given[Current.key] /\ Current.key \in Key
      BY <2>4, CurrentConfig DEF ContentInv, Current
    <3>2. f = file[Current.key] \/ f.value = Current.value
      BY <2>4, CurrentConfig
    <3> QED BY <2>1, <2>4, <3>1, <3>2 DEF ContentInv, DiskTypeOK
  <2> QED BY <2>2, <2>3, <2>4, DiskStep DEF FileStep
<1> QED BY <1>1, <1>2

LEMMA UnstoredAreGiven ==
  ASSUME TypeOK, WritingInv, WritingInv', ContentInv, [Next]_vars
  PROVE  \A i \in DOMAIN unstored_configs' :
           unstored_configs'[i].value \in given'[unstored_configs'[i].key]
<1> USE DEF TypeOK
<1>0. \A i \in DOMAIN unstored_configs : unstored_configs[i].key \in Key
  <2>1. \A i \in DOMAIN unstored_configs : unstored_configs[i] \in Config
    BY DEF StoreTypeOK
  <2> QED BY <2>1 DEF Config
<1>1. CASE StartOver
  <2>1. unstored_configs' = <<>>
    BY <1>1, Forgotten
  <2> QED BY <2>1
<1>2. CASE ~StartOver
  <2>1. \A k \in Key : given[k] \subseteq given'[k]
    BY <1>2, GivenGrows
  <2>2. CASE SetConfig
    <3>1. Head(message) \in Config
      BY <2>2, ConfigSet
    <3>2. Head(message).key \in Key
          /\ Head(message).value \in given'[Head(message).key]
      BY <2>2, <3>1 DEF SetConfig, Config, HistoryTypeOK
    <3>3. PICK p \in DOMAIN unstored_configs' :
            /\ unstored_configs'[p] = Head(message)
            /\ \A i \in DOMAIN unstored_configs' \ {p} :
                 /\ i \in DOMAIN unstored_configs
                 /\ unstored_configs'[i] = unstored_configs[i]
      BY <2>2, ConfigSet
    <3> QED BY <1>0, <2>1, <3>2, <3>3 DEF ContentInv
  <2>3. CASE WriteConfig
    <3>1. \A i \in DOMAIN unstored_configs' :
            \E j \in DOMAIN unstored_configs :
              unstored_configs'[i] = unstored_configs[j]
      BY <2>3, ConfigWritten
    <3> QED BY <1>0, <2>1, <3>1 DEF ContentInv
  <2>4. CASE UNCHANGED store
    BY <1>0, <2>1, <2>4 DEF store, ContentInv
  <2>5. CASE OpenStore \/ NoStore
    <3>1. unstored_configs' = <<>>
      BY <2>5 DEF OpenStore, NoStore
    <3> QED BY <3>1
  <2> QED BY <2>2, <2>3, <2>4, <2>5, OtherSteps DEF StoreStep
<1> QED BY <1>1, <1>2

(* A file may become worse, but it is only removed with all the others.    *)
LEMMA FilesStay ==
  ASSUME TypeOK, [Next]_vars
  PROVE  \/ info' = Nothing /\ keys' = <<>>
         \/ \A k \in Key : file[k] # Nothing => file'[k] # Nothing
<1> USE DEF TypeOK
<1>1. ASSUME node <= Len(unstored_configs),
             NEW f \in Remains(Current) \cup {Whole(Current.value)},
             file' = [file EXCEPT ![Current.key] = f]
      PROVE  \A k \in Key : file[k] # Nothing => file'[k] # Nothing
  <2>1. Current.key \in Key /\ (f = file[Current.key] \/ f # Nothing)
    BY <1>1, CurrentConfig
  <2> QED BY <1>1, <2>1 DEF DiskTypeOK
<1> QED BY <1>1, DiskStep DEF FileStep

LEMMA KeysAreNames ==
  ASSUME NEW ks \in Seq(Key \cup {TornName}), NEW k \in ToSet(ks) \ {TornName}
  PROVE  k \in Key
<1>1. PICK i \in DOMAIN ks : ks[i] = k
  BY ListedElement
<1>2. ks[i] \in Key \cup {TornName}
  OBVIOUS
<1> QED BY <1>1, <1>2

LEMMA NoNames ==
  ToSet(<<>>) = {}
BY DEF ToSet

LEMMA IndexedStep ==
  ASSUME TypeOK, WritingInv, ContentInv, IndexedKeysHaveFiles, [Next]_vars
  PROVE  IndexedKeysHaveFiles'
<1> USE DEF TypeOK
<1>1. SUFFICES ASSUME NEW k \in ToSet(Listed(info')) \ {TornName}
               PROVE  file'[k] # Nothing /\ file'[k].value \in given'[k]
  BY DEF IndexedKeysHaveFiles
<1>2. CASE info' = Nothing
  BY <1>2, NothingListed, NoNames
<1>3. CASE info' # Nothing
  <2>1. \A j \in Key : file[j] # Nothing => file'[j] # Nothing
    BY <1>3, FilesStay
  <2>2. info' \in Index \cup {Nothing}
    BY DiskTypes DEF DiskTypeOK
  <2>3. k \in Key
    BY <2>2, ListedType, KeysAreNames
  <2>4. file[k] # Nothing
    <3>1. CASE info' = info
      BY <3>1 DEF IndexedKeysHaveFiles
    <3>2. CASE phase = "info" /\ info' \in PartialInfo \cup {Info(Len(keys), keys)}
      <4>1. k \in ToSet(keys)
        <5>1. CASE info' \in PartialInfo
          BY <5>1, PartlyWritten
        <5>2. CASE info' = Info(Len(keys), keys)
          <6>1. Listed(info') = keys
            BY <5>2, IndexWritten DEF StoreTypeOK
          <6> QED BY <6>1
        <5> QED BY <3>2, <5>1, <5>2
      <4>2. Unstored(k) = {}
        BY <3>2, NothingUnstored DEF WritingInv
      <4> QED BY <4>1, <4>2 DEF ContentInv
    <3> QED BY <1>3, <3>1, <3>2, DiskStep DEF InfoStep
  <2> QED BY <2>1, <2>3, <2>4, FilesAreGiven
<1> QED BY <1>2, <1>3

LEMMA KeysHaveFiles ==
  ASSUME TypeOK, WritingInv, ContentInv, IndexedKeysHaveFiles, StoreTypeOK',
         [Next]_vars
  PROVE  \A k \in ToSet(keys') \ {TornName} : file'[k] # Nothing \/ Unstored(k)' # {}
<1> USE DEF TypeOK
<1>1. SUFFICES ASSUME NEW k \in ToSet(keys') \ {TornName},
                      file'[k] = Nothing
               PROVE  Unstored(k)' # {}
  OBVIOUS
<1>2. k \in Key
  BY KeysAreNames DEF StoreTypeOK
<1>3. keys' # <<>>
  BY NoNames
<1>4. \A j \in Key : file[j] # Nothing => file'[j] # Nothing
  BY <1>3, FilesStay
<1>5. k \in ToSet(keys) => Unstored(k) # {}
  BY <1>1, <1>2, <1>4 DEF ContentInv
<1>6. ASSUME NEW i \in DOMAIN unstored_configs', unstored_configs'[i].key = k
      PROVE  Unstored(k)' # {}
  BY <1>6 DEF Unstored
<1>7. CASE SetConfig
  <2> DEFINE c == Head(message)
  <2>1. ToSet(keys') = ToSet(keys) \cup {c.key}
    BY <1>7, ConfigSet
  <2>2. PICK p \in DOMAIN unstored_configs' :
          /\ unstored_configs'[p] = c
          /\ \A i \in DOMAIN unstored_configs' \ {p} :
               unstored_configs'[i] = unstored_configs[i]
          /\ \A i \in DOMAIN unstored_configs : i \in DOMAIN unstored_configs'
          /\ p \in DOMAIN unstored_configs => p \in Unstored(c.key)
    BY <1>7, ConfigSet
  <2> HIDE DEF c
  <2>3. CASE k = c.key
    BY <1>6, <2>2, <2>3
  <2>4. CASE k # c.key
    <3>1. PICK i \in DOMAIN unstored_configs : unstored_configs[i].key = k
      BY <1>5, <2>1, <2>4 DEF Unstored
    <3>2. i # p
      BY <2>2, <2>4, <3>1 DEF Unstored
    <3>3. i \in DOMAIN unstored_configs' /\ unstored_configs'[i].key = k
      BY <2>2, <3>1, <3>2
    <3> QED BY <1>6, <3>3
  <2> QED BY <2>3, <2>4
<1>8. CASE WriteConfig
  <2>1. node <= Len(unstored_configs)
        /\ file' = [file EXCEPT ![Current.key] = Whole(Current.value)]
        /\ keys' = keys
    BY <1>8 DEF WriteConfig, Current
  <2>2. k # Current.key
    BY <1>1, <1>2, <2>1, CurrentConfig DEF DiskTypeOK
  <2>3. PICK j \in DOMAIN unstored_configs : unstored_configs[j].key = k
    BY <1>5, <2>1 DEF Unstored
  <2>4. j # node
    BY <2>2, <2>3 DEF Current
  <2>5. PICK i \in DOMAIN unstored_configs' :
          unstored_configs'[i] = unstored_configs[j]
    BY <1>8, <2>4, ConfigWritten
  <2> QED BY <1>6, <2>3, <2>5
<1>9. CASE UNCHANGED store
  BY <1>5, <1>9 DEF store, Unstored
<1>10. CASE OpenStore
  BY <1>1, <1>10, IndexedStep DEF OpenStore, IndexedKeysHaveFiles
<1>11. CASE NoStore
  BY <1>3, <1>11 DEF NoStore
<1> QED BY <1>7, <1>8, <1>9, <1>10, <1>11, OtherSteps DEF StoreStep

LEMMA ContentStep ==
  ASSUME TypeOK, WritingInv, ContentInv, IndexedKeysHaveFiles, [Next]_vars
  PROVE  ContentInv' /\ IndexedKeysHaveFiles'
<1>1. TypeOK' /\ WritingInv'
  BY TypesStep, WritingStep
<1>2. IndexedKeysHaveFiles'
  BY IndexedStep
<1>3. (\A k \in Key : file[k] # Nothing => file[k].value \in given[k])'
  BY FilesAreGiven
<1>4. (\A i \in DOMAIN unstored_configs :
         unstored_configs[i].value \in given[unstored_configs[i].key])'
  BY <1>1, UnstoredAreGiven
<1>5. (\A k \in ToSet(keys) \ {TornName} : file[k] # Nothing \/ Unstored(k) # {})'
  BY <1>1, KeysHaveFiles DEF TypeOK
<1>6. (info # Nothing => NoKeyTwice(info.names))'
  BY DiskTypes
<1> QED BY <1>2, <1>3, <1>4, <1>5, <1>6 DEF ContentInv

------------------------------------------------------------------------------
(* Without faults *)

LEMMA NoFault ==
  ASSUME TypeOK, WritingInv, [Next]_vars, faults' = 0
  PROVE  faults = 0 /\ ~Fault
BY HistorySteps DEF Fault, TypeOK, HistoryTypeOK

LEMMA NothingIsTorn ==
  ASSUME TypeOK, WritingInv, FaultlessInv, [Next]_vars, faults' = 0
  PROVE  /\ TornName \notin ToSet(keys') \cup ToSet(Listed(info'))
         /\ \A k \in Key : file'[k] # Nothing => file'[k].part = "whole"
<1> USE DEF TypeOK
<1>1. /\ faults = 0 /\ ~Fault
      /\ TornName \notin ToSet(keys) /\ TornName \notin ToSet(Listed(info))
      /\ \A k \in Key : file[k] # Nothing => file[k].part = "whole"
  BY NoFault DEF FaultlessInv
<1>2. TornName \notin ToSet(Listed(info'))
  <2>1. CASE info' = info \/ info' = Nothing
    BY <1>1, <2>1, NothingListed, NoNames
  <2>2. CASE info' = Info(Len(keys), keys)
    <3>1. Listed(info') = keys
      BY <2>2, IndexWritten DEF StoreTypeOK
    <3> QED BY <1>1, <3>1
  <2> QED BY <1>1, <2>1, <2>2, DiskStep DEF InfoStep
<1>3. TornName \notin ToSet(keys')
  <2>1. CASE SetConfig
    <3>1. Head(message) \in Config /\ ToSet(keys') = ToSet(keys) \cup {Head(message).key}
      BY <2>1, ConfigSet
    <3> QED BY <1>1, <3>1, TornNameOK DEF Config
  <2>2. CASE WriteConfig \/ UNCHANGED store
    BY <1>1, <2>2 DEF WriteConfig, store
  <2>3. CASE OpenStore
    BY <1>2, <2>3 DEF OpenStore
  <2>4. CASE NoStore
    BY <2>4, NoNames DEF NoStore
  <2> QED BY <2>1, <2>2, <2>3, <2>4, OtherSteps DEF StoreStep
<1>4. \A k \in Key : file'[k] # Nothing => file'[k].part = "whole"
  <2>1. CASE file' = file
    BY <1>1, <2>1
  <2>2. CASE file' = [k \in Key |-> Nothing]
    BY <2>2
  <2>3. CASE file' = [file EXCEPT ![Current.key] = Whole(Current.value)]
    BY <1>1, <2>3 DEF DiskTypeOK, Whole
  <2> QED BY <1>1, <2>1, <2>2, <2>3, DiskStep DEF FileStep
<1> QED BY <1>2, <1>3, <1>4

(* Between two messages the store is what store_open would make of the     *)
(* files, and nothing is unstored.                                         *)
Settled == phase = "idle" => /\ unstored_configs = <<>>
                             /\ attached => keys = Listed(info)

LEMMA SettledStep ==
  ASSUME TypeOK, WritingInv, FaultlessInv, [Next]_vars, faults' = 0
  PROVE  Settled'
<1> USE DEF TypeOK
<1>1. faults = 0 /\ ~Fault /\ Settled /\ ~failed
  BY NoFault DEF FaultlessInv, Settled, WritingInv
<1>2. ASSUME UNCHANGED disk, phase = "idle", StoreStep
      PROVE  Settled'
  BY <1>1, <1>2 DEF disk, StoreStep, store, OpenStore, NoStore, Settled
<1>3. CASE NewClient
  BY <1>3 DEF NewClient, OpenStore, Settled
<1>4. CASE Resume \/ Move \/ CommitRefused \/ SaveFails
  <2>1. UNCHANGED disk /\ phase = "idle" /\ ~SetConfig /\ ~WriteConfig
    BY <1>4 DEF Resume, Move, CommitRefused, SaveFails, SetConfig, WriteConfig
  <2> QED BY <1>2, <2>1, OtherSteps
<1>5. CASE Lose
  <2>1. phase = "idle" /\ ~SetConfig /\ ~WriteConfig
    BY <1>5 DEF Lose, SetConfig, WriteConfig
  <2>2. CASE attached /\ keys # <<>>
    BY <1>2, <1>5, <2>1, <2>2, OtherSteps DEF Lose
  <2>3. CASE ~attached
    BY <1>1, <1>5, <2>1, <2>3 DEF Lose, store, Settled
  <2>4. CASE attached /\ keys = <<>>
    BY <1>1, <1>5, <2>1, <2>4, NothingListed DEF Lose, store, Settled
  <2> QED BY <2>2, <2>3, <2>4
<1>6. CASE ClearLost \/ Unload
  BY <1>6 DEF ClearLost, Unload, NoStore, Settled
<1>7. CASE Load
  BY <1>1, <1>7 DEF Load, store, writing, disk, Settled
<1>8. CASE (\E batch \in Batch : CommitDataSet(batch)) \/ SetConfig
  BY <1>8 DEF CommitDataSet, SetConfig, Settled
<1>9. CASE ConfigsSet
  <2>1. attached /\ unstored_configs # <<>>
    BY <1>9 DEF ConfigsSet, WritingInv
  <2> QED BY <1>9, <2>1, StoreWriteStep DEF ConfigsSet, StartsToWrite, Settled
<1>10. CASE WriteConfig
  BY <1>10 DEF WriteConfig, writing, Settled
<1>11. CASE ConfigsDone
  BY <1>1, <1>11 DEF ConfigsDone, ConfigsFailed, Settled
<1>12. CASE WriteInfo
  <2>1. Listed(info') = keys
    BY <1>12, IndexWritten DEF WriteInfo, NumKeys, StoreTypeOK
  <2> QED BY <1>12, <2>1 DEF WriteInfo, Return, OpenStore, NoStore, Settled
<1>13. CASE UNCHANGED vars
  BY <1>1, <1>13 DEF vars, store, writing, disk, Settled
<1>14. CASE SetConfigFails \/ WriteConfigFails \/ WriteInfoFails \/ Crash
  BY <1>1, <1>14 DEF SetConfigFails, WriteConfigFails, WriteInfoFails, Crash
<1> QED
  BY <1>3, <1>4, <1>5, <1>6, <1>7, <1>8, <1>9, <1>10, <1>11, <1>12, <1>13, <1>14
     DEF Next, ClientLife, Saving, Writing

LEMMA SavedHasIndex ==
  ASSUME TypeOK, WritingInv, FaultlessInv, [Next]_vars, faults' = 0
  PROVE  (saved \/ doc_saved => Listed(info) # <<>>)'
<1> USE DEF TypeOK
<1>1. faults = 0 /\ ~Fault /\ Settled /\ ~failed
      /\ (saved \/ doc_saved => Listed(info) # <<>>)
  BY NoFault DEF FaultlessInv, Settled, WritingInv
<1>2. ASSUME info' = info, saved' => saved \/ doc_saved,
             doc_saved' => saved \/ doc_saved
      PROVE  saved' \/ doc_saved' => Listed(info') # <<>>
  BY <1>1, <1>2
<1>3. CASE NewClient \/ Load
  BY <1>2, <1>3 DEF NewClient, Load, disk
<1>4. CASE Resume \/ Move
  BY <1>2, <1>4, StoreWriteStep DEF Resume, Move, Returns, StartsToWrite, disk
<1>5. CASE Lose
  <2>1. CASE attached /\ keys # <<>>
    BY <1>2, <1>5, <2>1, StoreWriteStep DEF Lose, Returns, StartsToWrite, disk
  <2>2. CASE ~attached
    BY <1>2, <1>5, <2>2 DEF Lose
  <2>3. CASE attached /\ keys = <<>>
    BY <1>1, <1>5, <2>3 DEF Lose, Settled
  <2> QED BY <2>1, <2>2, <2>3
<1>6. CASE ClearLost
  BY <1>6 DEF ClearLost, StartOver
<1>7. CASE Unload
  BY <1>2, <1>7 DEF Unload, StartOver, disk
<1>8. CASE ConfigsSet
  <2>1. attached /\ unstored_configs # <<>>
    BY <1>8 DEF ConfigsSet, WritingInv
  <2> QED BY <1>2, <1>8, <2>1, StoreWriteStep DEF ConfigsSet, StartsToWrite, disk
<1>9. CASE (\E batch \in Batch : CommitDataSet(batch)) \/ SetConfig
           \/ CommitRefused \/ SaveFails
  BY <1>2, <1>9 DEF CommitDataSet, SetConfig, CommitRefused, SaveFails, SaveEnds,
                    client, disk
<1>10. CASE WriteConfig
  BY <1>2, <1>10 DEF WriteConfig, client
<1>11. CASE ConfigsDone
  BY <1>1, <1>2, <1>11 DEF ConfigsDone, ConfigsFailed, disk
<1>12. CASE WriteInfo
  <2>1. Listed(info') = keys
    BY <1>12, IndexWritten DEF WriteInfo, NumKeys, StoreTypeOK
  <2> QED BY <1>12, <2>1 DEF WriteInfo, WritingInv
<1>13. CASE UNCHANGED vars
  BY <1>2, <1>13 DEF vars, client, disk
<1>14. CASE SetConfigFails \/ WriteConfigFails \/ WriteInfoFails \/ Crash
  BY <1>1, <1>14 DEF SetConfigFails, WriteConfigFails, WriteInfoFails, Crash
<1> QED
  BY <1>3, <1>4, <1>5, <1>6, <1>7, <1>8, <1>9, <1>10, <1>11, <1>12, <1>13, <1>14
     DEF Next, ClientLife, Saving, Writing

LEMMA FaultlessStep ==
  ASSUME TypeOK, WritingInv, FaultlessInv, [Next]_vars
  PROVE  FaultlessInv'
BY NothingIsTorn, SettledStep, SavedHasIndex DEF FaultlessInv, Settled

LEMMA StoreInvStep ==
  ASSUME StoreInv, [Next]_vars
  PROVE  StoreInv'
BY TypesStep, WritingStep, ContentStep, FaultlessStep DEF StoreInv

LEMMA StoreInvariant == Spec => []StoreInv
<1>1. StoreInv /\ [Next]_vars => StoreInv'
  BY StoreInvStep
<1> QED BY <1>1, InitInv, PTL DEF Spec

------------------------------------------------------------------------------
(* Theorems *)

(* The lists of the store and its files always have their types: no key is *)
(* listed twice, and every unstored config is listed (store_set_config,    *)
(* store_open).                                                            *)
THEOREM StoreIsWellFormed == Spec => []TypeOK
<1>1. StoreInv => TypeOK
  BY DEF StoreInv
<1> QED BY <1>1, StoreInvariant, PTL

(* store_write writes every config file before the info file, so whatever  *)
(* crashes and writes that fail come between, each key that store_open     *)
(* lists has a file, with a value the client has given.                    *)
THEOREM IndexIsComplete == Spec => []IndexedKeysHaveFiles
<1>1. StoreInv => IndexedKeysHaveFiles
  BY DEF StoreInv
<1> QED BY <1>1, StoreInvariant, PTL

LEMMA ReadableConfig ==
  ASSUME TypeOK, NEW k \in Key, file[k] # Nothing, file[k].part # "torn"
  PROVE  ReadConfig(file[k]) =
           [value |-> file[k].value,
            type |-> IF file[k].part = "whole" THEN "own" ELSE "raw"]
         /\ ReadConfig(file[k]) \in Answer /\ ReadConfig(file[k]) # Nothing
<1>1. file[k] \in Content
  BY DEF TypeOK, DiskTypeOK, File
<1>2. ReadConfig(file[k]) =
        [value |-> file[k].value,
         type |-> IF file[k].part = "whole" THEN "own" ELSE "raw"]
  BY DEF ReadConfig
<1>3. file[k].value \in Value
  BY <1>1 DEF Content
<1>4. ReadConfig(file[k]) \in Answer
  BY <1>2, <1>3 DEF Answer
<1> QED BY <1>2, <1>4, NothingOK

(* client_resume_project trusts LASH_Saved: as long as nothing has failed, *)
(* a client with that flag is sent a data set.                             *)
THEOREM SavedClientsLoad == Spec => []SavedClientCanLoad
<1>1. StoreInv => SavedClientCanLoad
  <2>1. SUFFICES ASSUME StoreInv, faults = 0,
                        IF life = "closed" THEN doc_saved ELSE saved
                 PROVE  \E k \in Key : OnDisk(k) # Nothing
    BY DEF SavedClientCanLoad
  <2>2. Listed(info) # <<>> /\ TornName \notin ToSet(Listed(info))
    BY <2>1 DEF StoreInv, FaultlessInv
  <2>3. Listed(info) \in Seq(Key \cup {TornName})
    BY <2>1, ListedType DEF StoreInv, TypeOK, DiskTypeOK
  <2>4. 1 \in DOMAIN Listed(info)
    BY <2>2, <2>3
  <2> DEFINE k == Listed(info)[1]
  <2>5. k \in ToSet(Listed(info)) \ {TornName}
    BY <2>2, <2>4 DEF ToSet
  <2>6. k \in Key
    BY <2>3, <2>5, KeysAreNames
  <2>7. file[k] # Nothing
    BY <2>1, <2>5 DEF StoreInv, IndexedKeysHaveFiles
  <2>8. file[k].part = "whole"
    BY <2>1, <2>6, <2>7 DEF StoreInv, FaultlessInv
  <2>9. ReadConfig(file[k]) # Nothing
    BY <2>1, <2>6, <2>7, <2>8, ReadableConfig DEF StoreInv
  <2> QED BY <2>5, <2>6, <2>9 DEF OnDisk
<1> QED BY <1>1, StoreInvariant, PTL

------------------------------------------------------------------------------
(* The store implements a map *)

(* What the client would be sent is one of the values it has given.        *)
LEMMA ReadingType ==
  ASSUME StoreInv, NEW k \in Key
  PROVE  Reading(k) \in Map!Reading(given[k])
<1>1. \A v \in given[k], t \in {"own", "raw"} :
        [value |-> v, type |-> t] \in Map!Reading(given[k])
  BY DEF Map!Reading
<1>2. Nothing \in Map!Reading(given[k])
  BY DEF Map!Reading
<1>3. ReadConfig(file[k]) \in Map!Reading(given[k])
  <2>1. CASE file[k] = Nothing \/ file[k].part = "torn"
    BY <1>2, <2>1 DEF ReadConfig
  <2>2. CASE file[k] # Nothing /\ file[k].part # "torn"
    <3>1. file[k].value \in given[k]
      BY <2>2 DEF StoreInv, ContentInv
    <3> QED BY <1>1, <2>2, <3>1, ReadableConfig DEF StoreInv
  <2> QED BY <2>1, <2>2
<1>4. ASSUME Unstored(k) # {}
      PROVE  [value |-> unstored_configs[Position(k)].value, type |-> "own"]
               \in Map!Reading(given[k])
  <2>1. unstored_configs[Position(k)].value \in given[k]
    BY <1>4, PositionIsUnstored DEF StoreInv, ContentInv
  <2> QED BY <1>1, <2>1
<1> QED BY <1>2, <1>3, <1>4 DEF Reading, OnDisk

(* Two states of the store that agree on key k are read alike.             *)
LEMMA UnstoredReading ==
  ASSUME TypeOK, attached, NEW i \in DOMAIN unstored_configs,
         NEW k, unstored_configs[i].key = k
  PROVE  Reading(k) = [value |-> unstored_configs[i].value, type |-> "own"]
<1>1. Unstored(k) = {i} /\ Position(k) = i /\ k \in ToSet(keys)
  BY OnlyOneUnstored DEF TypeOK, StoreTypeOK
<1> QED BY <1>1 DEF Reading

LEMMA StoredReading ==
  ASSUME attached, NEW k, Unstored(k) = {}
  PROVE  Reading(k) = IF k \in ToSet(keys) THEN ReadConfig(file[k]) ELSE Nothing
BY DEF Reading

(* A settled store reads what is on disk.                                  *)
LEMMA SettledReading ==
  ASSUME Settled, phase = "idle", NEW k
  PROVE  Reading(k) = OnDisk(k)
<1>1. CASE attached
  <2>1. unstored_configs = <<>> /\ keys = Listed(info)
    BY <1>1 DEF Settled
  <2>2. Unstored(k) = {}
    BY <2>1, NothingUnstored
  <2> QED BY <1>1, <2>1, <2>2 DEF Reading, OnDisk
<1>2. CASE ~attached
  BY <1>2 DEF Reading
<1> QED BY <1>1, <1>2

LEMMA ReadingTypes ==
  StoreInv => \A k \in Key : Reading(k) \in Map!Reading(given[k])
BY ReadingType

LEMMA ReadingTypesNext ==
  StoreInv' => (\A k \in Key : Reading(k) \in Map!Reading(given[k]))'
BY ReadingTypes, PTL

LEMMA SettledReadings ==
  Settled /\ phase = "idle" => \A k \in Key : Reading(k) = OnDisk(k)
BY SettledReading

LEMMA SettledReadingsNext ==
  (Settled /\ phase = "idle")' => (\A k \in Key : Reading(k) = OnDisk(k))'
BY SettledReadings, PTL

LEMMA UnstoredReadings ==
  TypeOK /\ attached =>
    \A i \in DOMAIN unstored_configs : \A k \in Key :
      unstored_configs[i].key = k =>
        Reading(k) = [value |-> unstored_configs[i].value, type |-> "own"]
BY UnstoredReading

LEMMA UnstoredReadingsNext ==
  (TypeOK /\ attached)' =>
    (\A i \in DOMAIN unstored_configs : \A k \in Key :
       unstored_configs[i].key = k =>
         Reading(k) = [value |-> unstored_configs[i].value, type |-> "own"])'
BY UnstoredReadings, PTL

LEMMA StoredReadings ==
  attached => \A k \in Key : Unstored(k) = {} =>
    Reading(k) = IF k \in ToSet(keys) THEN ReadConfig(file[k]) ELSE Nothing
BY StoredReading

LEMMA StoredReadingsNext ==
  attached' => (\A k \in Key : Unstored(k) = {} =>
    Reading(k) = IF k \in ToSet(keys) THEN ReadConfig(file[k]) ELSE Nothing)'
BY StoredReadings, PTL

(* What is written is read as it was read from the list.                   *)
LEMMA WriteConfigReading ==
  ASSUME StoreInv, StoreInv', WriteConfig, NEW k \in Key
  PROVE  Reading(k)' = Reading(k)
<1> USE DEF StoreInv, TypeOK
<1>1. attached /\ attached' /\ keys' = keys
      /\ node <= Len(unstored_configs)
      /\ file' = [file EXCEPT ![Current.key] = Whole(Current.value)]
  BY DEF WriteConfig, WritingInv, Current
<1>2. CASE k = Current.key
  <2>1. node \in DOMAIN unstored_configs /\ Current.key \in ToSet(keys)
        /\ Whole(Current.value) # Nothing
    BY <1>1, CurrentConfig
  <2>2. Reading(k) = [value |-> Current.value, type |-> "own"]
    BY <1>1, <1>2, <2>1, UnstoredReading DEF Current
  <2>3. Unstored(k) = {node}
    BY <1>2, <2>1, OnlyOneUnstored DEF Current
  <2>4. Unstored(k)' = {}
    <3>1. SUFFICES ASSUME NEW i \in DOMAIN unstored_configs',
                          unstored_configs'[i].key = k
                   PROVE  FALSE
      BY DEF Unstored
    <3>2. PICK j \in DOMAIN unstored_configs \ {node} :
            unstored_configs'[i] = unstored_configs[j]
      BY ConfigWritten
    <3> QED BY <2>3, <3>1, <3>2 DEF Unstored
  <2>5. Reading(k)' = ReadConfig(file'[k])
    BY <1>1, <1>2, <2>1, <2>4, StoredReadingsNext
  <2>6. file'[k] = Whole(Current.value)
    BY <1>1, <1>2 DEF DiskTypeOK
  <2>7. ReadConfig(Whole(Current.value)) = [value |-> Current.value, type |-> "own"]
    BY <2>1 DEF ReadConfig, Whole
  <2> QED BY <2>2, <2>5, <2>6, <2>7
<1>3. CASE k # Current.key
  <2>1. file'[k] = file[k]
    BY <1>1, <1>3 DEF DiskTypeOK
  <2>2. CASE Unstored(k) = {}
    <3>1. Unstored(k)' = {}
      <4>1. SUFFICES ASSUME NEW i \in DOMAIN unstored_configs',
                            unstored_configs'[i].key = k
                     PROVE  FALSE
        BY DEF Unstored
      <4>2. PICK j \in DOMAIN unstored_configs \ {node} :
              unstored_configs'[i] = unstored_configs[j]
        BY ConfigWritten
      <4> QED BY <2>2, <4>1, <4>2 DEF Unstored
    <3>2. Reading(k)' = IF k \in ToSet(keys') THEN ReadConfig(file'[k]) ELSE Nothing
      BY <1>1, <3>1, StoredReadingsNext
    <3>3. Reading(k) = IF k \in ToSet(keys) THEN ReadConfig(file[k]) ELSE Nothing
      BY <1>1, <2>2, StoredReading
    <3> QED BY <1>1, <2>1, <3>2, <3>3
  <2>3. CASE Unstored(k) # {}
    <3>1. PICK j \in DOMAIN unstored_configs : unstored_configs[j].key = k
      BY <2>3 DEF Unstored
    <3>2. j # node
      BY <1>3, <3>1 DEF Current
    <3>3. PICK i \in DOMAIN unstored_configs' :
            unstored_configs'[i] = unstored_configs[j]
      BY <3>2, ConfigWritten
    <3>4. Reading(k) = [value |-> unstored_configs[j].value, type |-> "own"]
      BY <1>1, <3>1, UnstoredReading
    <3>5. Reading(k)' = [value |-> unstored_configs'[i].value, type |-> "own"]
      BY <1>1, <3>1, <3>3, UnstoredReadingsNext
    <3> QED BY <3>3, <3>4, <3>5
  <2> QED BY <2>2, <2>3
<1> QED BY <1>2, <1>3

(* A config that is set is read back at once, and no other key changes.    *)
LEMMA SetConfigReading ==
  ASSUME StoreInv, StoreInv', SetConfig, NEW k \in Key
  PROVE  Reading(k)' = IF k = Head(message).key
                         THEN [value |-> Head(message).value, type |-> "own"]
                         ELSE Reading(k)
<1> USE DEF StoreInv, TypeOK
<1> DEFINE c == Head(message)
<1>1. attached /\ attached' /\ file' = file /\ c \in Config
      /\ ToSet(keys') = ToSet(keys) \cup {c.key}
  BY ConfigSet DEF SetConfig, WritingInv, disk
<1>2. PICK p \in DOMAIN unstored_configs' :
        /\ unstored_configs'[p] = c
        /\ Unstored(c.key) \subseteq {p}
        /\ \A i \in DOMAIN unstored_configs' \ {p} :
             /\ i \in DOMAIN unstored_configs
             /\ unstored_configs'[i] = unstored_configs[i]
             /\ unstored_configs[i].key # c.key
        /\ \A i \in DOMAIN unstored_configs : i \in DOMAIN unstored_configs'
        /\ p \in DOMAIN unstored_configs => p \in Unstored(c.key)
  BY ConfigSet
<1> HIDE DEF c
<1>3. CASE k = c.key
  BY <1>1, <1>2, <1>3, UnstoredReadingsNext DEF c
<1>4. CASE k # c.key
  <2>1. Unstored(k)' = Unstored(k)
    <3>1. p \notin Unstored(k) /\ p \notin Unstored(k)'
      BY <1>2, <1>4 DEF Unstored
    <3> QED BY <1>2, <3>1 DEF Unstored
  <2>2. CASE Unstored(k) = {}
    <3>1. Reading(k)' = IF k \in ToSet(keys') THEN ReadConfig(file'[k]) ELSE Nothing
      BY <1>1, <2>1, <2>2, StoredReadingsNext
    <3>2. Reading(k) = IF k \in ToSet(keys) THEN ReadConfig(file[k]) ELSE Nothing
      BY <1>1, <2>2, StoredReading
    <3>3. k \in ToSet(keys) <=> k \in ToSet(keys')
      BY <1>1, <1>4
    <3> QED BY <1>1, <1>4, <3>1, <3>2, <3>3 DEF c
  <2>3. CASE Unstored(k) # {}
    <3>1. PICK j \in Unstored(k) : TRUE
      BY <2>3
    <3>2. j \in DOMAIN unstored_configs /\ unstored_configs[j].key = k /\ j # p
      BY <1>2, <1>4, <3>1 DEF Unstored
    <3>3. j \in DOMAIN unstored_configs' /\ unstored_configs'[j] = unstored_configs[j]
      BY <1>2, <3>2
    <3>4. Reading(k) = [value |-> unstored_configs[j].value, type |-> "own"]
      BY <1>1, <3>2, UnstoredReading
    <3>5. Reading(k)' = [value |-> unstored_configs'[j].value, type |-> "own"]
      BY <1>1, <3>2, <3>3, UnstoredReadingsNext
    <3> QED BY <1>4, <3>3, <3>4, <3>5 DEF c
  <2> QED BY <2>2, <2>3
<1> QED BY <1>3, <1>4 DEF c

(* Without faults no other step changes what is read, until the client is  *)
(* forgotten.                                                              *)
LEMMA OtherReadings ==
  ASSUME StoreInv, StoreInv', [Next]_vars, faults' = 0,
         ~SetConfig, ~StartOver, NEW k \in Key
  PROVE  Reading(k)' = Reading(k)
<1> USE DEF StoreInv, TypeOK
<1>1. faults = 0 /\ ~Fault /\ Settled /\ ~failed /\ Settled'
  BY NoFault, SettledStep DEF FaultlessInv, Settled, WritingInv
<1>2. ASSUME UNCHANGED <<store, disk>>
      PROVE  Reading(k)' = Reading(k)
  BY <1>2 DEF store, disk, Reading, OnDisk, Unstored, Position
<1>3. ASSUME phase = "idle", phase' = "idle", OnDisk(k)' = OnDisk(k)
      PROVE  Reading(k)' = Reading(k)
  BY <1>1, <1>3, SettledReading, SettledReadingsNext
<1>4. ASSUME UNCHANGED disk
      PROVE  OnDisk(k)' = OnDisk(k)
  BY <1>4 DEF disk, OnDisk
<1>5. CASE NewClient
  <2>1. phase = "idle" /\ phase' = "idle" /\ UNCHANGED disk
    BY <1>5 DEF NewClient, writing, WritingInv
  <2> QED BY <1>3, <1>4, <2>1
<1>6. CASE Resume \/ Move
  <2>1. UNCHANGED disk /\ phase = "idle"
    BY <1>6 DEF Resume, Move
  <2>2. phase' = "idle" \/ UNCHANGED store
    BY <1>6, StoreWriteStep DEF Resume, Move, Returns, Idle, StartsToWrite, writing
  <2> QED BY <1>2, <1>3, <1>4, <2>1, <2>2
<1>7. CASE Lose
  <2>1. CASE attached /\ keys # <<>>
    <3>1. UNCHANGED disk /\ phase = "idle"
      BY <1>7, <2>1 DEF Lose
    <3>2. phase' = "idle" \/ UNCHANGED store
      BY <1>7, <2>1, StoreWriteStep DEF Lose, Returns, Idle, StartsToWrite
    <3> QED BY <1>2, <1>3, <1>4, <3>1, <3>2
  <2>2. CASE ~attached
    BY <1>2, <1>7, <2>2 DEF Lose, disk
  <2>3. CASE attached /\ keys = <<>>
    <3>1. phase = "idle" /\ phase' = "idle" /\ info' = Nothing
      BY <1>7, <2>3 DEF Lose, writing
    <3>2. Listed(info) = <<>> /\ Listed(info') = <<>>
      BY <1>1, <2>3, <3>1, NothingListed DEF Settled
    <3>3. OnDisk(k) = Nothing /\ OnDisk(k)' = Nothing
      BY <3>2, NoNames DEF OnDisk
    <3> QED BY <1>3, <3>1, <3>3
  <2> QED BY <2>1, <2>2, <2>3
<1>8. CASE ClearLost
  BY <1>8 DEF ClearLost
<1>9. CASE Unload
  <2>1. phase = "idle" /\ phase' = "idle" /\ UNCHANGED disk
    BY <1>9 DEF Unload, writing
  <2> QED BY <1>3, <1>4, <2>1
<1>10. CASE Load \/ (\E batch \in Batch : CommitDataSet(batch)) \/ CommitRefused
            \/ SaveFails
  BY <1>2, <1>10 DEF Load, CommitDataSet, CommitRefused, SaveFails
<1>11. CASE ConfigsSet
  <2>1. attached /\ unstored_configs # <<>>
    BY <1>11 DEF ConfigsSet, WritingInv
  <2> QED BY <1>2, <1>11, <2>1, StoreWriteStep DEF ConfigsSet, StartsToWrite
<1>12. CASE WriteConfig
  BY <1>12, WriteConfigReading
<1>13. CASE ConfigsDone
  BY <1>1, <1>2, <1>13 DEF ConfigsDone, ConfigsFailed
<1>14. CASE WriteInfo
  <2>1. Listed(info') = keys /\ file' = file
    BY <1>14, IndexWritten DEF WriteInfo, NumKeys, StoreTypeOK
  <2>2. attached /\ Unstored(k) = {}
    BY <1>14, NothingUnstored DEF WriteInfo, WritingInv
  <2>3. phase' = "idle"
    BY <1>14 DEF WriteInfo, Return, Idle
  <2>4. Reading(k)' = OnDisk(k)'
    BY <1>1, <2>3, SettledReadingsNext
  <2>5. OnDisk(k)' = IF k \in ToSet(keys) THEN ReadConfig(file[k]) ELSE Nothing
    BY <2>1 DEF OnDisk
  <2> QED BY <2>2, <2>4, <2>5, StoredReading
<1>15. CASE UNCHANGED vars
  BY <1>2, <1>15 DEF vars
<1>16. CASE SetConfigFails \/ WriteConfigFails \/ WriteInfoFails \/ Crash
  BY <1>1, <1>16 DEF SetConfigFails, WriteConfigFails, WriteInfoFails, Crash
<1> QED
  BY <1>5, <1>6, <1>7, <1>8, <1>9, <1>10, <1>11, <1>12, <1>13, <1>14, <1>15, <1>16
     DEF Next, ClientLife, Saving, Writing

LEMMA MapInit == Init => Map!Init
<1> SUFFICES ASSUME Init PROVE Map!Init
  OBVIOUS
<1>1. ASSUME NEW k \in Key PROVE Reading(k) = Nothing
  BY NothingListed, NoNames DEF Init, Reading, OnDisk
<1>2. given = [k \in Key |-> {}] /\ (faults > 0) = FALSE
  BY DEF Init
<1> QED BY <1>1, <1>2 DEF Map!Init

LEMMA MapStep ==
  ASSUME StoreInv, StoreInv', [Next]_vars
  PROVE  [Map!Next]_(Map!vars)
<1> DEFINE data == [k \in Key |-> Reading(k)]
<1> USE DEF StoreInv, TypeOK
<1>0. faults \in Nat /\ faults' \in Nat
  BY DEF HistoryTypeOK
<1>1. (faults > 0) => (faults' > 0)
  BY <1>0, HistorySteps DEF Fault
<1>2. CASE StartOver
  <2>1. /\ ~attached' /\ info' = Nothing
        /\ given' = [k \in Key |-> {}]
    BY <1>2, Forgotten DEF StartOver
  <2>2. ASSUME NEW k \in Key PROVE Reading(k)' = Nothing
    BY <2>1, NothingListed, NoNames DEF Reading, OnDisk
  <2>3. data' = [k \in Key |-> Nothing]
    BY <2>2
  <2>4. Map!Forget
    BY <1>1, <2>1, <2>3 DEF Map!Forget
  <2> QED BY <2>4 DEF Map!Next
<1>3. CASE ~StartOver /\ faults' > 0
  <2>1. \A k \in Key : given[k] \subseteq given'[k]
    BY <1>3, GivenGrows
  <2>2. ASSUME NEW k \in Key PROVE data'[k] \in Map!Reading(given'[k])
    BY ReadingTypesNext
  <2>3. Map!Lapse
    BY <1>3, <2>1, <2>2 DEF Map!Lapse
  <2> QED BY <2>3 DEF Map!Next
<1>4. CASE ~StartOver /\ ~(faults' > 0) /\ SetConfig
  <2> DEFINE c == Head(message)
  <2>0. faults' = 0 /\ faults = 0
    BY <1>0, <1>1, <1>4
  <2>1. c.key \in Key /\ c.value \in Value
    BY <1>4, ConfigSet DEF Config
  <2>2. given' = [given EXCEPT ![c.key] = @ \cup {c.value}]
    BY <1>4 DEF SetConfig
  <2>3. data' = [data EXCEPT ![c.key] = [value |-> c.value, type |-> "own"]]
    BY <1>4, <2>1, SetConfigReading
  <2> HIDE DEF c
  <2>4. Map!Commit
    BY <2>0, <2>1, <2>2, <2>3 DEF Map!Commit
  <2> QED BY <2>4 DEF Map!Next
<1>5. CASE ~StartOver /\ ~(faults' > 0) /\ ~SetConfig
  <2>1. faults' = 0 /\ faults = 0
    BY <1>0, <1>1, <1>5
  <2>2. given' = given
    BY <1>5, HistorySteps
  <2>3. data' = data
    BY <1>5, <2>1, OtherReadings
  <2> QED BY <2>1, <2>2, <2>3 DEF Map!vars
<1> QED BY <1>2, <1>3, <1>4, <1>5

(* What store_set_config, store_write and store_open promise together: the *)
(* data set of a client is a map that only its own configs change.  While  *)
(* nothing has failed every other step leaves it alone, and after a fault  *)
(* it still holds nothing that the client has not given.                   *)
THEOREM StoreImplementsDataSet == Spec => ImplementsDataSet
<1>1. StoreInv /\ StoreInv' /\ [Next]_vars => [Map!Next]_(Map!vars)
  BY MapStep
<1> QED BY <1>1, MapInit, StoreInvariant, PTL DEF Spec, ImplementsDataSet, Map!Spec

=============================================================================
