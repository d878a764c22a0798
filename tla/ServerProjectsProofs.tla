------------------------ MODULE ServerProjectsProofs ------------------------
(***************************************************************************)
(* Theorems about ServerProjects, for any projects, names and directories. *)
(***************************************************************************)
EXTENDS ServerProjects, FiniteSetTheorems, SequenceTheorems, WellFoundedInduction, TLAPS

------------------------------------------------------------------------------
(* Facts about lists and numbers *)

(* What cannot fail first does not fail: the induction that the proofs of  *)
(* recursive functions use.                                                *)
LEMMA LeastNumber ==
  ASSUME NEW T, T \subseteq Nat, T # {}
  PROVE  \E n \in T : \A m \in T : n <= m
<1>1. PICK n \in T : \A m \in T : ~(<<m, n>> \in OpToRel(<, Nat))
  BY NatLessThanWellFounded, WFMin
<1>2. \A m \in T : ~(m < n)
  BY <1>1 DEF OpToRel
<1> QED BY <1>2

LEMMA AppendedSet ==
  ASSUME NEW S, NEW s \in Seq(S), NEW x
  PROVE  ToSet(Append(s, x)) = ToSet(s) \cup {x}
<1>1. /\ DOMAIN Append(s, x) = 1..Len(s) + 1 /\ DOMAIN s = 1..Len(s)
      /\ Len(s) \in Nat
      /\ \A i \in 1..Len(s) : Append(s, x)[i] = s[i]
      /\ Append(s, x)[Len(s) + 1] = x
  OBVIOUS
<1> QED BY <1>1 DEF ToSet

(* A list without its element at position i.                               *)
LEMMA Removed ==
  ASSUME NEW S, NEW s \in Seq(S), NEW i \in DOMAIN s
  PROVE  /\ RemoveAt(s, i) \in Seq(S)
         /\ Len(RemoveAt(s, i)) = Len(s) - 1
         /\ \A j \in 1..Len(s) - 1 :
              RemoveAt(s, i)[j] = IF j < i THEN s[j] ELSE s[j + 1]
<1> DEFINE front == SubSeq(s, 1, i - 1)
           back  == SubSeq(s, i + 1, Len(s))
<1>1. Len(s) \in Nat /\ DOMAIN s = 1..Len(s) /\ i \in Int
      /\ \A j \in 1..Len(s) : s[j] \in S
  OBVIOUS
<1>2. /\ front \in Seq(S) /\ Len(front) = i - 1
      /\ \A j \in 1..i - 1 : front[j] = s[j]
  <2>1. \A j \in 1..i - 1 : s[j] \in S
    BY <1>1
  <2> QED BY <1>1, <2>1, SubSeqProperties
<1>3. /\ back \in Seq(S) /\ Len(back) = Len(s) - i
      /\ \A j \in 1..Len(s) - i : back[j] = s[i + j]
  <2>1. /\ \A j \in i + 1..Len(s) : s[j] \in S
        /\ i + 1 \in Int /\ Len(s) \in Int
    BY <1>1
  <2>2. /\ back \in Seq(S)
        /\ Len(back) = IF i + 1 <= Len(s) THEN Len(s) - (i + 1) + 1 ELSE 0
        /\ \A j \in 1..Len(s) - (i + 1) + 1 : back[j] = s[i + 1 + j - 1]
    BY <2>1, SubSeqProperties
  <2> HIDE DEF back
  <2>3. back \in Seq(S) /\ Len(back) = Len(s) - i
    BY <1>1, <2>2
  <2>4. ASSUME NEW j \in 1..Len(s) - i PROVE back[j] = s[i + j]
    <3>1. j \in 1..Len(s) - (i + 1) + 1 /\ i + 1 + j - 1 = i + j
      BY <1>1
    <3>2. back[j] = s[i + 1 + j - 1]
      BY <2>2, <3>1
    <3> QED BY <3>1, <3>2
  <2> QED BY <2>3, <2>4
<1> HIDE DEF front, back
<1>4. /\ front \o back \in Seq(S)
      /\ Len(front \o back) = Len(front) + Len(back)
      /\ \A j \in 1..Len(front) + Len(back) :
           (front \o back)[j] = IF j <= Len(front) THEN front[j]
                                ELSE back[j - Len(front)]
  BY <1>2, <1>3, ConcatProperties
<1>5. Len(front \o back) = Len(s) - 1
  BY <1>1, <1>2, <1>3, <1>4
<1>6. ASSUME NEW j \in 1..Len(s) - 1
      PROVE  (front \o back)[j] = IF j < i THEN s[j] ELSE s[j + 1]
  <2>1. j \in 1..Len(front) + Len(back)
    BY <1>1, <1>2, <1>3
  <2>2. CASE j < i
    BY <1>1, <1>2, <1>4, <2>1, <2>2
  <2>3. CASE ~(j < i)
    <3>1. (front \o back)[j] = back[j - (i - 1)]
      BY <1>1, <1>2, <1>4, <2>1, <2>3
    <3>2. j - (i - 1) \in 1..Len(s) - i /\ i + (j - (i - 1)) = j + 1
      BY <1>1, <2>3
    <3> QED BY <1>3, <2>3, <3>1, <3>2
  <2> QED BY <2>2, <2>3
<1>7. RemoveAt(s, i) = front \o back
  BY DEF RemoveAt, front, back
<1> QED BY <1>4, <1>5, <1>6, <1>7

LEMMA AppendedOnce ==
  ASSUME NEW S, NEW s \in Seq(S), NEW x, IsInjective(s), x \notin ToSet(s)
  PROVE  IsInjective(Append(s, x))
<1>1. /\ DOMAIN Append(s, x) = 1..Len(s) + 1 /\ DOMAIN s = 1..Len(s)
      /\ Len(s) \in Nat
      /\ \A i \in 1..Len(s) : Append(s, x)[i] = s[i]
      /\ Append(s, x)[Len(s) + 1] = x
  OBVIOUS
<1>2. \A i \in 1..Len(s) : s[i] # x
  BY <1>1 DEF ToSet
<1> QED BY <1>1, <1>2 DEF IsInjective

(* A list without its first x (list_del).                                  *)
LEMMA RemovedFirst ==
  ASSUME NEW S, NEW s \in Seq(S), NEW x, IsInjective(s)
  PROVE  /\ RemoveFirst(s, x) \in Seq(S)
         /\ IsInjective(RemoveFirst(s, x))
         /\ ToSet(RemoveFirst(s, x)) = ToSet(s) \ {x}
<1>1. Len(s) \in Nat /\ DOMAIN s = 1..Len(s)
  OBVIOUS
<1>2. CASE \E i \in 1..Len(s) : s[i] = x
  <2> DEFINE I == {i \in 1..Len(s) : s[i] = x}
             n == Min(I)
  <2>1. PICK m \in I : \A i \in I : m <= i
    <3>1. I # {} /\ I \subseteq Nat
      BY <1>2
    <3> HIDE DEF I
    <3> QED BY <3>1, LeastNumber
  <2>2. n \in I
    BY <2>1 DEF Min
  <2>3. RemoveFirst(s, x) = RemoveAt(s, n)
    BY <1>2 DEF RemoveFirst, SelectInSeq
  <2>4. n \in 1..Len(s) /\ s[n] = x
    BY <2>2
  <2> DEFINE r == RemoveAt(s, n)
  <2> HIDE DEF I, n
  <2>5. /\ r \in Seq(S) /\ Len(r) = Len(s) - 1
        /\ \A j \in 1..Len(s) - 1 : r[j] = IF j < n THEN s[j] ELSE s[j + 1]
    BY <1>1, <2>4, Removed
  <2> HIDE DEF r
  <2>6. DOMAIN r = 1..Len(s) - 1
    BY <2>5
  <2>7. ASSUME NEW i \in DOMAIN r, NEW j \in DOMAIN r, r[i] = r[j] PROVE i = j
    <3>1. r[i] = IF i < n THEN s[i] ELSE s[i + 1]
      BY <2>5, <2>6
    <3>2. r[j] = IF j < n THEN s[j] ELSE s[j + 1]
      BY <2>5, <2>6
    <3>3. \A k, l \in 1..Len(s) : s[k] = s[l] => k = l
      BY <1>1 DEF IsInjective
    <3>4. i \in 1..Len(s) /\ i + 1 \in 1..Len(s) /\ j \in 1..Len(s) /\ j + 1 \in 1..Len(s)
      BY <1>1, <2>6
    <3>5. (IF i < n THEN i ELSE i + 1) = (IF j < n THEN j ELSE j + 1)
      BY <2>7, <3>1, <3>2, <3>3, <3>4
    <3> QED BY <1>1, <2>4, <3>4, <3>5
  <2>8. ASSUME NEW i \in DOMAIN r PROVE r[i] \in ToSet(s) \ {x}
    <3>1. r[i] = IF i < n THEN s[i] ELSE s[i + 1]
      BY <2>5, <2>6
    <3>2. i \in 1..Len(s) /\ i + 1 \in 1..Len(s)
      BY <1>1, <2>6
    <3>3. \A k \in 1..Len(s) : s[k] = x => k = n
      BY <1>1, <2>4 DEF IsInjective
    <3> QED BY <1>1, <2>4, <3>1, <3>2, <3>3 DEF ToSet
  <2>9. ASSUME NEW y \in ToSet(s) \ {x} PROVE \E i \in DOMAIN r : r[i] = y
    <3>1. PICK k \in 1..Len(s) : s[k] = y
      BY <1>1 DEF ToSet
    <3>2. k # n
      BY <2>4, <2>9, <3>1
    <3>3. CASE k < n
      <4>1. k \in 1..Len(s) - 1
        BY <1>1, <2>4, <3>3
      <4> QED BY <2>5, <2>6, <3>1, <3>3, <4>1
    <3>4. CASE ~(k < n)
      <4>1. k - 1 \in 1..Len(s) - 1 /\ ~(k - 1 < n) /\ k - 1 + 1 = k
        BY <1>1, <2>4, <3>2, <3>4
      <4> QED BY <2>5, <2>6, <3>1, <4>1
    <3> QED BY <3>3, <3>4
  <2>10. IsInjective(r)
    BY <2>7 DEF IsInjective
  <2>11. ToSet(r) = ToSet(s) \ {x}
    BY <2>8, <2>9 DEF ToSet
  <2> QED BY <2>3, <2>5, <2>10, <2>11 DEF r
<1>3. CASE ~\E i \in 1..Len(s) : s[i] = x
  <2>1. RemoveFirst(s, x) = s
    BY <1>3 DEF RemoveFirst
  <2> QED BY <1>1, <1>3, <2>1 DEF ToSet
<1> QED BY <1>2, <1>3

------------------------------------------------------------------------------
(* The inductive invariant, of the records that the handlers work on *)

WorldTypes == [project : [Project -> Fields], all : Seq(Project), loaded : Seq(Project),
               disk : [Directory -> Name \union {Absent, NoInfo}]]

KnownTo(w) == ToSet(w.all) \union ToSet(w.loaded)

OrphanIn(w, p) ==
  p \notin ToSet(w.loaded) /\ w.project[p].doc = NoDoc /\ w.project[p].task = "save"

Placed(w) == {p \in KnownTo(w) : ~OrphanIn(w, p)}

(* Every known project but an orphan has a directory of its own, which     *)
(* exists.                                                                 *)
PlacesAreDistinct(w) ==
  /\ IsInjective(w.all) /\ IsInjective(w.loaded)
  /\ \A p \in Placed(w) : w.disk[w.project[p].directory] # Absent
  /\ \A p, q \in Placed(w) : p # q => w.project[p].directory # w.project[q].directory

(* A document is in the project's directory, and a project is not listed   *)
(* before its first save has begun.                                        *)
DocumentsAreOnDisk(w) ==
  /\ \A p \in KnownTo(w) :
       w.project[p].doc # NoDoc => w.disk[w.project[p].directory] = w.project[p].doc
  /\ \A p \in ToSet(w.all) : w.project[p].doc = NoDoc => w.project[p].task = "save"

WorldOK(w) == w \in WorldTypes /\ PlacesAreDistinct(w) /\ DocumentsAreOnDisk(w)

(* A lashd that starts has no project.                                     *)
Inv ==
  /\ lashd \in {"running", "failed", "stopped"}
  /\ lashd = "stopped" => loaded_projects = <<>>
  /\ WorldOK(World)

------------------------------------------------------------------------------
(* Names *)

LEMMA NewProjectIsName == <<NewProject>> \in Name
<1> DEFINE n == <<NewProject>>
<1>1. n \in [1..1 -> Typed \union Number] /\ n # <<>> /\ n[1] \in Typed /\ Len(n) = 1
  BY ProjectsAssumption
<1> HIDE DEF n
<1>2. n \in BoundedSeq(Typed \union Number, MaxLength)
  <2>1. 1 \in 0..MaxLength
    BY ProjectsAssumption
  <2> QED BY <1>1, <2>1 DEF BoundedSeq, SeqOf
<1>3. \A i \in 2..Len(n) : n[i] \in Number
  BY <1>1
<1> QED BY <1>1, <1>2, <1>3 DEF Name, n

LEMMA NamesAreNames ==
  /\ Name \subseteq Directory
  /\ Absent \notin Name /\ NoInfo \notin Name /\ NoDoc \notin Name /\ OutOfNames \notin Name
  /\ Unused \in Fields /\ Unused.doc = NoDoc /\ Unused.task = "none"
<1>1. OutOfNames \notin Name
  BY DEF Name, OutOfNames
<1>2. Unused \in Fields
  BY NewProjectIsName DEF Unused, Fields, Directory
<1> QED BY <1>1, <1>2, ProjectsAssumption DEF Directory, Unused

(* server_find_project_by_name                                             *)
LEMMA FoundByName ==
  ASSUME loaded_projects \in Seq(Project), NEW n
  PROVE  /\ FindByName(n) = NoProject => \A p \in Loaded : project[p].name # n
         /\ FindByName(n) # NoProject =>
              FindByName(n) \in Loaded /\ project[FindByName(n)].name = n
<1> DEFINE I == {i \in 1..Len(loaded_projects) : project[loaded_projects[i]].name = n}
           k == Min(I)
<1>1. Len(loaded_projects) \in Nat /\ DOMAIN loaded_projects = 1..Len(loaded_projects)
      /\ \A i \in 1..Len(loaded_projects) : loaded_projects[i] \in Project
  OBVIOUS
<1>2. CASE I = {}
  <2>1. FindByName(n) = NoProject
    BY <1>2 DEF FindByName, SelectInSeq
  <2> QED BY <1>1, <1>2, <2>1 DEF Loaded, ToSet
<1>3. CASE I # {}
  <2>1. k \in I
    <3>1. I \subseteq Nat
      BY <1>1
    <3> HIDE DEF I
    <3>2. PICK m \in I : \A i \in I : m <= i
      BY <1>3, <3>1, LeastNumber
    <3> QED BY <3>2 DEF Min
  <2>2. k # 0
    BY <2>1
  <2>3. FindByName(n) = loaded_projects[k]
    BY <1>3, <2>2 DEF FindByName, SelectInSeq
  <2>4. k \in DOMAIN loaded_projects /\ project[loaded_projects[k]].name = n
    BY <1>1, <2>1
  <2> HIDE DEF I, k
  <2>5. FindByName(n) \in Loaded /\ FindByName(n) \in Project
    BY <1>1, <2>3, <2>4 DEF Loaded, ToSet
  <2> QED BY <2>3, <2>4, <2>5, ProjectsAssumption
<1> QED BY <1>2, <1>3

(* server_create_new_project_name                                          *)
LEMMA NewNameIsFree ==
  ASSUME NEW n \in Name, NewName(n) # OutOfNames
  PROVE  NewName(n) \in Name /\ ~Taken(NewName(n))
<1> DEFINE free == {i \in Number : Append(n, i) \in Name /\ ~Taken(Append(n, i))}
           k == CHOOSE i \in free : \A j \in free : i <= j
<1>1. CASE ~Taken(n)
  BY <1>1 DEF NewName
<1>2. CASE Taken(n)
  <2>1. NewName(n) = IF free = {} THEN OutOfNames ELSE Append(n, k)
    BY <1>2 DEF NewName
  <2>2. free # {}
    BY <2>1
  <2>3. k \in free
    <3>1. free \subseteq Nat
      BY ProjectsAssumption DEF Number
    <3> HIDE DEF free
    <3>2. PICK m \in free : \A i \in free : m <= i
      BY <2>2, <3>1, LeastNumber
    <3> QED BY <3>2
  <2> QED BY <2>1, <2>2, <2>3
<1> QED BY <1>1, <1>2

------------------------------------------------------------------------------
(* What a handler does for one project *)

LEMMA WorldFields ==
  ASSUME NEW w \in WorldTypes
  PROVE  /\ w.project \in [Project -> Fields]
         /\ w.all \in Seq(Project) /\ w.loaded \in Seq(Project)
         /\ w.disk \in [Directory -> Name \union {Absent, NoInfo}]
         /\ KnownTo(w) \subseteq Project
         /\ \A p \in Project :
              /\ w.project[p] \in Fields
              /\ w.project[p].name \in Name /\ w.project[p].directory \in Directory
              /\ w.project[p].doc \in Name \union {NoDoc}
<1>1. /\ w.project \in [Project -> Fields]
      /\ w.all \in Seq(Project) /\ w.loaded \in Seq(Project)
      /\ w.disk \in [Directory -> Name \union {Absent, NoInfo}]
  BY DEF WorldTypes
<1>2. KnownTo(w) \subseteq Project
  <2>1. ToSet(w.all) \subseteq Project
    BY <1>1 DEF ToSet
  <2>2. ToSet(w.loaded) \subseteq Project
    BY <1>1 DEF ToSet
  <2> QED BY <2>1, <2>2 DEF KnownTo
<1> QED BY <1>1, <1>2 DEF Fields

(* The other projects q are where they were, and so is what they have on   *)
(* disk, unless they have nothing there.                                   *)
Beside(w, v, p) ==
  \A q \in KnownTo(v) \ {p} :
    /\ q \in KnownTo(w) /\ v.project[q] = w.project[q]
    /\ q \in ToSet(v.all) => q \in ToSet(w.all)
    /\ q \in ToSet(v.loaded) <=> q \in ToSet(w.loaded)
    /\ ~OrphanIn(w, q) =>
         v.disk[w.project[q].directory] = w.disk[w.project[q].directory]

(* The project p has a directory of its own, with its document.            *)
Fits(w, v, p) ==
  /\ ~OrphanIn(v, p) =>
       /\ v.disk[v.project[p].directory] # Absent
       /\ \A q \in Placed(w) \ {p} : v.project[p].directory # w.project[q].directory
  /\ v.project[p].doc # NoDoc => v.disk[v.project[p].directory] = v.project[p].doc
  /\ p \in ToSet(v.all) /\ v.project[p].doc = NoDoc => v.project[p].task = "save"

LEMMA Framed ==
  ASSUME NEW w, WorldOK(w), NEW v \in WorldTypes, NEW p,
         IsInjective(v.all), IsInjective(v.loaded),
         Beside(w, v, p), p \in KnownTo(v) => Fits(w, v, p)
  PROVE  WorldOK(v)
<1>1. ASSUME NEW q \in Placed(v), q # p
      PROVE  /\ q \in Placed(w) /\ v.project[q] = w.project[q]
             /\ v.disk[v.project[q].directory] = w.disk[w.project[q].directory]
  <2>1. q \in KnownTo(v) \ {p} /\ ~OrphanIn(v, q)
    BY <1>1 DEF Placed
  <2>2. ~OrphanIn(w, q) /\ q \in KnownTo(w)
    BY <2>1 DEF Beside, OrphanIn
  <2> QED BY <2>1, <2>2 DEF Beside, Placed
<1>2. ASSUME NEW q \in Placed(v) PROVE v.disk[v.project[q].directory] # Absent
  <2>1. CASE q = p
    BY <2>1 DEF Placed, Fits
  <2>2. CASE q # p
    BY <1>1, <2>2 DEF WorldOK, PlacesAreDistinct
  <2> QED BY <2>1, <2>2
<1>3. ASSUME NEW q \in Placed(v), NEW r \in Placed(v), q # r
      PROVE  v.project[q].directory # v.project[r].directory
  <2>1. CASE q = p
    BY <1>1, <1>3, <2>1 DEF Placed, Fits
  <2>2. CASE r = p
    BY <1>1, <1>3, <2>2 DEF Placed, Fits
  <2>3. CASE q # p /\ r # p
    BY <1>1, <1>3, <2>3 DEF WorldOK, PlacesAreDistinct
  <2> QED BY <2>1, <2>2, <2>3
<1>4. ASSUME NEW q \in KnownTo(v), v.project[q].doc # NoDoc
      PROVE  v.disk[v.project[q].directory] = v.project[q].doc
  <2>1. CASE q = p
    BY <1>4, <2>1 DEF Fits
  <2>2. CASE q # p
    <3>1. q \in KnownTo(w) /\ v.project[q] = w.project[q]
      BY <2>2 DEF Beside
    <3>2. ~OrphanIn(w, q)
      BY <1>4, <3>1 DEF OrphanIn
    <3>3. v.disk[w.project[q].directory] = w.disk[w.project[q].directory]
      BY <2>2, <3>2 DEF Beside
    <3> QED BY <1>4, <3>1, <3>3 DEF WorldOK, DocumentsAreOnDisk
  <2> QED BY <2>1, <2>2
<1>5. ASSUME NEW q \in ToSet(v.all), v.project[q].doc = NoDoc
      PROVE  v.project[q].task = "save"
  <2>1. q \in KnownTo(v)
    BY DEF KnownTo
  <2>2. CASE q = p
    BY <1>5, <2>1, <2>2 DEF Fits
  <2>3. CASE q # p
    <3>1. q \in ToSet(w.all) /\ v.project[q] = w.project[q]
      BY <2>1, <2>3 DEF Beside
    <3> QED BY <1>5, <3>1 DEF WorldOK, DocumentsAreOnDisk
  <2> QED BY <2>2, <2>3
<1>6. PlacesAreDistinct(v)
  BY <1>2, <1>3 DEF PlacesAreDistinct
<1>7. DocumentsAreOnDisk(v)
  BY <1>4, <1>5 DEF DocumentsAreOnDisk
<1> QED BY <1>6, <1>7 DEF WorldOK

(* project_move                                                            *)
LEMMA MovedEffect ==
  ASSUME NEW w \in WorldTypes, NEW p \in Project, NEW d \in Directory
  PROVE  LET m   == Moved(w, p, d)
             old == w.project[p].directory
         IN  /\ m \in WorldTypes /\ m.all = w.all /\ m.loaded = w.loaded
             /\ \A q \in Project \ {p} : m.project[q] = w.project[q]
             /\ m.project[p] = [w.project[p] EXCEPT !.directory = m.project[p].directory]
             /\ \/ m.disk = w.disk /\ m.project[p].directory = old
                \/ /\ d # old /\ w.disk[d] = Absent /\ w.disk[old] # Absent
                   /\ m.project[p].directory = d
                   /\ m.disk[d] = w.disk[old] /\ m.disk[old] = Absent
                   /\ \A e \in Directory \ {d, old} : m.disk[e] = w.disk[e]
<1> DEFINE m   == Moved(w, p, d)
           old == w.project[p].directory
<1>1. /\ w.project \in [Project -> Fields]
      /\ w.disk \in [Directory -> Name \union {Absent, NoInfo}]
      /\ old \in Directory /\ w.project[p] \in Fields
  BY WorldFields
<1>2. CASE d = old \/ Exists(w, d) \/ w.disk[old] = Absent
  <2>1. m = w
    BY <1>2 DEF Moved
  <2>2. w.project[p] = [w.project[p] EXCEPT !.directory = w.project[p].directory]
    BY <1>1 DEF Fields
  <2> QED BY <2>1, <2>2
<1>3. CASE ~(d = old \/ Exists(w, d) \/ w.disk[old] = Absent)
  <2> DEFINE disk2 == [w.disk EXCEPT ![d] = w.disk[old], ![old] = Absent]
             project2 == [w.project EXCEPT ![p].directory = d]
  <2>1. m = [w EXCEPT !.disk = disk2, !.project = project2]
    BY <1>3 DEF Moved, WorldTypes
  <2>2. disk2 \in [Directory -> Name \union {Absent, NoInfo}]
        /\ disk2[d] = w.disk[old] /\ disk2[old] = Absent
        /\ \A e \in Directory \ {d, old} : disk2[e] = w.disk[e]
    BY <1>1, <1>3
  <2>3. /\ project2 \in [Project -> Fields]
        /\ project2[p] = [w.project[p] EXCEPT !.directory = d]
        /\ \A q \in Project \ {p} : project2[q] = w.project[q]
    BY <1>1 DEF Fields
  <2>4. project2[p].directory = d
    BY <1>1, <2>3 DEF Fields
  <2> HIDE DEF disk2, project2
  <2>5. m = [project |-> project2, all |-> w.all, loaded |-> w.loaded, disk |-> disk2]
    BY <2>1 DEF WorldTypes
  <2>6. m \in WorldTypes
    BY <2>2, <2>3, <2>5, WorldFields DEF WorldTypes
  <2>7. d # old /\ w.disk[d] = Absent /\ w.disk[old] # Absent
    BY <1>3 DEF Exists
  <2> HIDE DEF m
  <2>8. m.project = project2 /\ m.disk = disk2 /\ m.all = w.all /\ m.loaded = w.loaded
    BY <2>5
  <2> QED BY <2>2, <2>3, <2>4, <2>6, <2>7, <2>8 DEF m
<1> QED BY <1>2, <1>3

LEMMA LoadedArePlaced ==
  ASSUME NEW w, WorldOK(w), NEW p \in ToSet(w.loaded)
  PROVE  p \in Placed(w) /\ p \in Project /\ w.disk[w.project[p].directory] # Absent
<1>1. p \in KnownTo(w) /\ ~OrphanIn(w, p)
  BY DEF KnownTo, OrphanIn
<1> QED BY <1>1, WorldFields DEF Placed, WorldOK, PlacesAreDistinct

(* One field of one project is set.                                        *)
LEMMA SetDoc ==
  ASSUME NEW P \in [Project -> Fields], NEW p \in Project, NEW n \in Name
  PROVE  LET D == [P EXCEPT ![p].doc = n]
         IN  /\ D \in [Project -> Fields] /\ D[p] = [P[p] EXCEPT !.doc = n]
             /\ \A q \in Project \ {p} : D[q] = P[q]
BY DEF Fields

LEMMA SetTask ==
  ASSUME NEW P \in [Project -> Fields], NEW p \in Project, NEW t \in {"none", "save", "load"}
  PROVE  LET T == [P EXCEPT ![p].task = t]
         IN  /\ T \in [Project -> Fields] /\ T[p] = [P[p] EXCEPT !.task = t]
             /\ \A q \in Project \ {p} : T[q] = P[q]
BY DEF Fields

LEMMA SetName ==
  ASSUME NEW P \in [Project -> Fields], NEW p \in Project, NEW n \in Name
  PROVE  LET N == [P EXCEPT ![p].name = n]
         IN  /\ N \in [Project -> Fields] /\ N[p] = [P[p] EXCEPT !.name = n]
             /\ \A q \in Project \ {p} : N[q] = P[q]
BY DEF Fields

LEMMA SetMoving ==
  ASSUME NEW P \in [Project -> Fields], NEW p \in Project, NEW b \in BOOLEAN
  PROVE  LET M == [P EXCEPT ![p].move_on_close = b]
         IN  /\ M \in [Project -> Fields] /\ M[p] = [P[p] EXCEPT !.move_on_close = b]
             /\ \A q \in Project \ {p} : M[q] = P[q]
BY DEF Fields

LEMMA OtherFields ==
  ASSUME NEW r \in Fields, NEW x
  PROVE  LET N == [r EXCEPT !.name = x]
             D == [r EXCEPT !.doc = x]
             M == [r EXCEPT !.move_on_close = x]
             T == [r EXCEPT !.task = x]
         IN  /\ N.name = x /\ N.directory = r.directory /\ N.doc = r.doc /\ N.task = r.task
             /\ D.doc = x /\ D.name = r.name /\ D.directory = r.directory
             /\ M.name = r.name /\ M.directory = r.directory /\ M.doc = r.doc
             /\ M.task = r.task
             /\ T.task = x /\ T.name = r.name /\ T.directory = r.directory /\ T.doc = r.doc
BY DEF Fields

(* project_write_info, into a directory that exists.                       *)
LEMMA WrittenFields ==
  ASSUME NEW w \in WorldTypes, NEW p \in Project,
         w.disk[w.project[p].directory] # Absent
  PROVE  LET v    == Written(w, p)
             name == w.project[p].name
             dir  == w.project[p].directory
         IN  /\ v \in WorldTypes /\ v.all = w.all /\ v.loaded = w.loaded
             /\ v.disk = [w.disk EXCEPT ![dir] = name]
             /\ v.project[p].doc = name /\ v.project[p].name = name
             /\ v.project[p].directory = dir
             /\ \A q \in Project \ {p} : v.project[q] = w.project[q]
<1> DEFINE v    == Written(w, p)
           name == w.project[p].name
           dir  == w.project[p].directory
           u    == [w EXCEPT !.disk[dir] = name, !.project[p].doc = name]
           P    == [w.project EXCEPT ![p].doc = name]
           D    == [w.disk EXCEPT ![dir] = name]
           Q    == [P EXCEPT ![p].task = "none"]
<1>1. /\ w.project \in [Project -> Fields] /\ w.project[p] \in Fields
      /\ w.disk \in [Directory -> Name \union {Absent, NoInfo}]
      /\ dir \in Directory /\ name \in Name
  BY WorldFields
<1>2. u = [w EXCEPT !.project = P, !.disk = D]
  BY DEF WorldTypes
<1>3. D \in [Directory -> Name \union {Absent, NoInfo}]
  BY <1>1
<1>4. /\ P \in [Project -> Fields] /\ P[p] = [w.project[p] EXCEPT !.doc = name]
      /\ \A q \in Project \ {p} : P[q] = w.project[q]
  BY <1>1, SetDoc
<1>5. /\ Q \in [Project -> Fields] /\ Q[p] = [P[p] EXCEPT !.task = "none"]
      /\ \A q \in Project \ {p} : Q[q] = P[q]
  <2> HIDE DEF P
  <2> QED BY <1>1, <1>4, SetTask
<1>6. v = [u EXCEPT !.project[p].task = "none"]
  BY DEF Written
<1> HIDE DEF P, D, Q, u
<1>7. u \in WorldTypes /\ u.project = P /\ u.disk = D /\ u.all = w.all /\ u.loaded = w.loaded
  BY <1>2, <1>3, <1>4 DEF WorldTypes
<1>8. v = [u EXCEPT !.project = Q]
  BY <1>6, <1>7 DEF WorldTypes, Q
<1>9. v \in WorldTypes /\ v.project = Q /\ v.disk = D /\ v.all = w.all /\ v.loaded = w.loaded
  <2> HIDE DEF v
  <2> QED BY <1>5, <1>7, <1>8 DEF WorldTypes
<1>10. /\ P[p] \in Fields /\ P[p].doc = name /\ P[p].name = name /\ P[p].directory = dir
  BY <1>1, <1>4, OtherFields
<1>11. Q[p].doc = name /\ Q[p].name = name /\ Q[p].directory = dir
  <2> HIDE DEF name, dir
  <2> QED BY <1>1, <1>5, <1>10, OtherFields
<1> HIDE DEF v
<1> QED BY <1>4, <1>5, <1>9, <1>11 DEF v, D

LEMMA WriteKeeps ==
  ASSUME NEW w, WorldOK(w), NEW p \in ToSet(w.loaded), NEW v \in WorldTypes,
         IsInjective(v.all), ToSet(v.all) \subseteq ToSet(w.all) \union {p},
         v.loaded = w.loaded,
         v.disk = [w.disk EXCEPT ![w.project[p].directory] = w.project[p].name],
         v.project[p].doc = w.project[p].name,
         v.project[p].directory = w.project[p].directory,
         \A q \in Project \ {p} : v.project[q] = w.project[q]
  PROVE  WorldOK(v)
<1> DEFINE name == w.project[p].name
           dir  == w.project[p].directory
<1>0. w \in WorldTypes /\ p \in Project /\ p \in Placed(w) /\ w.disk[dir] # Absent
  BY LoadedArePlaced DEF WorldOK
<1>1. /\ w.disk \in [Directory -> Name \union {Absent, NoInfo}]
      /\ dir \in Directory /\ name \in Name
      /\ KnownTo(w) \subseteq Project
  BY <1>0, WorldFields
<1>2. v.disk[dir] = name /\ \A e \in Directory \ {dir} : v.disk[e] = w.disk[e]
  BY <1>1
<1>3. IsInjective(v.loaded)
  BY DEF WorldOK, PlacesAreDistinct
<1>4. KnownTo(v) \subseteq KnownTo(w)
  BY DEF KnownTo
<1>5. Beside(w, v, p)
  <2>1. ASSUME NEW q \in KnownTo(v) \ {p}, ~OrphanIn(w, q)
        PROVE  v.disk[w.project[q].directory] = w.disk[w.project[q].directory]
    <3>1. q \in Placed(w) /\ q \in Project
      BY <1>1, <1>4, <2>1 DEF Placed
    <3>2. w.project[q].directory \in Directory /\ w.project[q].directory # dir
      BY <1>0, <2>1, <3>1, WorldFields DEF WorldOK, PlacesAreDistinct
    <3> QED BY <1>2, <3>2
  <2> QED BY <1>1, <1>4, <2>1 DEF Beside
<1>6. Fits(w, v, p)
  <2>1. name # Absent /\ name # NoDoc
    BY <1>1, NamesAreNames
  <2>2. \A q \in Placed(w) \ {p} : dir # w.project[q].directory
    BY <1>0 DEF WorldOK, PlacesAreDistinct
  <2> QED BY <1>2, <2>1, <2>2 DEF Fits
<1> QED BY <1>3, <1>5, <1>6, Framed

(* project_write_info, project_clients_save_complete                       *)
LEMMA WrittenOK ==
  ASSUME NEW w, WorldOK(w), NEW p \in ToSet(w.loaded)
  PROVE  LET v == Written(w, p)
         IN  /\ WorldOK(v) /\ v.loaded = w.loaded
             /\ \A q \in Project : v.project[q].name = w.project[q].name
<1> DEFINE v == Written(w, p)
<1>1. w \in WorldTypes /\ p \in Project /\ w.disk[w.project[p].directory] # Absent
      /\ IsInjective(w.all)
  BY LoadedArePlaced DEF WorldOK, PlacesAreDistinct
<1>2. /\ v \in WorldTypes /\ v.all = w.all /\ v.loaded = w.loaded
      /\ v.disk = [w.disk EXCEPT ![w.project[p].directory] = w.project[p].name]
      /\ v.project[p].doc = w.project[p].name /\ v.project[p].name = w.project[p].name
      /\ v.project[p].directory = w.project[p].directory
      /\ \A q \in Project \ {p} : v.project[q] = w.project[q]
  BY <1>1, WrittenFields
<1> HIDE DEF v
<1>3. WorldOK(v)
  BY <1>1, <1>2, WriteKeeps
<1> QED BY <1>2, <1>3 DEF v

(* project_save puts the project on the list and makes its directory.      *)
LEMMA SavedOK ==
  ASSUME NEW w, WorldOK(w), NEW p \in ToSet(w.loaded), NEW asked
  PROVE  LET v == Saved(w, p, asked)
         IN  /\ WorldOK(v) /\ v.loaded = w.loaded
             /\ \A q \in Project : v.project[q].name = w.project[q].name
<1> DEFINE dir == w.project[p].directory
           listed == [w EXCEPT !.all = IF p \in ToSet(@) THEN @ ELSE Append(@, p),
                               !.disk = Created(dir, @)]
           all2 == IF p \in ToSet(w.all) THEN w.all ELSE Append(w.all, p)
<1>0. w \in WorldTypes /\ p \in Project /\ p \in Placed(w) /\ w.disk[dir] # Absent
  BY LoadedArePlaced DEF WorldOK
<1>1. /\ w.project \in [Project -> Fields] /\ w.project[p] \in Fields
      /\ w.disk \in [Directory -> Name \union {Absent, NoInfo}]
      /\ dir \in Directory
      /\ KnownTo(w) \subseteq Project /\ w.all \in Seq(Project)
  BY <1>0, WorldFields
<1>2. Created(dir, w.disk) = w.disk
  BY <1>0, <1>1 DEF Created
<1>3. listed = [project |-> w.project, all |-> all2, loaded |-> w.loaded, disk |-> w.disk]
  <2>1. listed = [w EXCEPT !.all = all2, !.disk = w.disk]
    BY <1>2
  <2> HIDE DEF all2, listed
  <2> QED BY <1>0, <2>1 DEF WorldTypes
<1>4. all2 \in Seq(Project) /\ IsInjective(all2) /\ ToSet(all2) = ToSet(w.all) \union {p}
  <2>1. IsInjective(w.all)
    BY DEF WorldOK, PlacesAreDistinct
  <2>2. CASE p \in ToSet(w.all)
    BY <1>1, <2>1, <2>2
  <2>3. CASE p \notin ToSet(w.all)
    <3>1. Append(w.all, p) \in Seq(Project)
      BY <1>0, <1>1
    <3> QED BY <1>1, <2>1, <2>3, <3>1, AppendedOnce, AppendedSet
  <2> QED BY <2>2, <2>3
<1> HIDE DEF all2, listed
<1>5. CASE w.project[p].task # "none"
  <2>1. Saved(w, p, asked) = w
    BY <1>5 DEF Saved
  <2> QED BY <2>1
<1>6. CASE w.project[p].task = "none" /\ p \in asked
  <2> DEFINE v == Saved(w, p, asked)
             project2 == [w.project EXCEPT ![p].task = "save"]
  <2>1. v = [listed EXCEPT !.project[p].task = "save"]
    BY <1>6 DEF Saved, listed
  <2>2. v = [project |-> project2, all |-> all2, loaded |-> w.loaded, disk |-> w.disk]
    BY <1>3, <2>1
  <2>3. /\ project2 \in [Project -> Fields]
        /\ project2[p].doc = w.project[p].doc /\ project2[p].directory = dir
        /\ project2[p].name = w.project[p].name /\ project2[p].task = "save"
        /\ \A q \in Project \ {p} : project2[q] = w.project[q]
    <3>1. /\ project2 \in [Project -> Fields]
          /\ project2[p] = [w.project[p] EXCEPT !.task = "save"]
          /\ \A q \in Project \ {p} : project2[q] = w.project[q]
      BY <1>0, <1>1, SetTask
    <3> HIDE DEF project2
    <3> QED BY <1>1, <3>1, OtherFields
  <2> HIDE DEF project2
  <2>4. v.project = project2 /\ v.disk = w.disk /\ v.all = all2 /\ v.loaded = w.loaded
    BY <2>2
  <2>5. v \in WorldTypes
    BY <1>0, <1>4, <2>2, <2>3, WorldFields DEF WorldTypes
  <2> HIDE DEF v
  <2>6. KnownTo(v) = KnownTo(w)
    BY <1>4, <2>4 DEF KnownTo
  <2>7. Beside(w, v, p)
    BY <1>1, <1>4, <2>3, <2>4, <2>6 DEF Beside
  <2>8. Fits(w, v, p)
    <3>1. \A q \in Placed(w) \ {p} : dir # w.project[q].directory
      BY <1>0 DEF WorldOK, PlacesAreDistinct
    <3>2. w.project[p].doc # NoDoc => w.disk[dir] = w.project[p].doc
      BY DEF WorldOK, DocumentsAreOnDisk, KnownTo
    <3> QED BY <1>0, <2>3, <2>4, <3>1, <3>2 DEF Fits
  <2>9. IsInjective(v.all) /\ IsInjective(v.loaded)
    BY <1>4, <2>4 DEF WorldOK, PlacesAreDistinct
  <2>10. WorldOK(v)
    BY <2>5, <2>7, <2>8, <2>9, Framed
  <2>11. \A q \in Project : v.project[q].name = w.project[q].name
    BY <2>3, <2>4
  <2> QED BY <2>4, <2>10, <2>11 DEF v
<1>7. CASE w.project[p].task = "none" /\ p \notin asked
  <2> DEFINE v == Written(listed, p)
  <2>1. Saved(w, p, asked) = v
    BY <1>7 DEF Saved, listed
  <2>2. /\ listed \in WorldTypes /\ listed.project = w.project /\ listed.disk = w.disk
        /\ listed.all = all2 /\ listed.loaded = w.loaded
    <3>1. listed.project = w.project /\ listed.disk = w.disk
          /\ listed.all = all2 /\ listed.loaded = w.loaded
      BY <1>3
    <3> QED BY <1>0, <1>1, <1>3, <1>4, WorldFields DEF WorldTypes
  <2>3. /\ v \in WorldTypes /\ v.all = all2 /\ v.loaded = w.loaded
        /\ v.disk = [w.disk EXCEPT ![dir] = w.project[p].name]
        /\ v.project[p].doc = w.project[p].name /\ v.project[p].name = w.project[p].name
        /\ v.project[p].directory = dir
        /\ \A q \in Project \ {p} : v.project[q] = w.project[q]
    BY <1>0, <2>2, WrittenFields
  <2> HIDE DEF v
  <2>4. WorldOK(v)
    BY <1>4, <2>3, WriteKeeps
  <2> QED BY <2>1, <2>3, <2>4
<1> QED BY <1>5, <1>6, <1>7

(* project_unload leaves the project p in directory d.                     *)
UnloadsTo(w, v, p, d) ==
  /\ p \in ToSet(w.all) =>
       /\ v.project[p].directory = d
       /\ v.project[p].doc = w.project[p].doc /\ v.project[p].task = w.project[p].task
  /\ d # w.project[p].directory =>
       w.disk[d] = Absent /\ w.disk[w.project[p].directory] # Absent
  /\ w.project[p].doc # NoDoc => v.disk[d] = w.disk[w.project[p].directory]
  /\ \A e \in Directory \ {d, w.project[p].directory} : v.disk[e] = w.disk[e]

LEMMA UnloadedEffect ==
  ASSUME NEW w \in WorldTypes, IsInjective(w.loaded), NEW p \in Project
  PROVE  LET v == Unloaded(w, p)
         IN  /\ v \in WorldTypes /\ v.all = w.all /\ v.loaded = RemoveFirst(w.loaded, p)
             /\ \A q \in Project \ {p} : v.project[q] = w.project[q]
             /\ \E d \in Directory : UnloadsTo(w, v, p, d)
<1> DEFINE v     == Unloaded(w, p)
           old   == w.project[p].directory
           gone  == [w EXCEPT !.loaded = RemoveFirst(@, p)]
           moved == IF w.project[p].move_on_close THEN Moved(gone, p, w.project[p].name) ELSE gone
           d     == moved.project[p].directory
           cleared == IF moved.project[p].doc = NoDoc THEN [moved EXCEPT !.disk[d] = Absent]
                      ELSE moved
<1>1. /\ w.project \in [Project -> Fields] /\ w.project[p] \in Fields
      /\ w.disk \in [Directory -> Name \union {Absent, NoInfo}]
      /\ old \in Directory /\ w.project[p].name \in Name /\ w.loaded \in Seq(Project)
  BY WorldFields
<1>2. /\ gone \in WorldTypes /\ gone.project = w.project /\ gone.disk = w.disk
      /\ gone.all = w.all /\ gone.loaded = RemoveFirst(w.loaded, p)
  <2>1. RemoveFirst(w.loaded, p) \in Seq(Project)
    BY <1>1, RemovedFirst
  <2> QED BY <2>1 DEF WorldTypes
<1> HIDE DEF gone
<1>3. /\ moved \in WorldTypes /\ moved.all = w.all /\ moved.loaded = gone.loaded
      /\ \A q \in Project \ {p} : moved.project[q] = w.project[q]
      /\ moved.project[p] = [w.project[p] EXCEPT !.directory = d]
      /\ \/ moved.disk = w.disk /\ d = old
         \/ /\ d # old /\ w.disk[d] = Absent /\ w.disk[old] # Absent
            /\ moved.disk[d] = w.disk[old]
            /\ \A e \in Directory \ {d, old} : moved.disk[e] = w.disk[e]
  <2>1. CASE w.project[p].move_on_close
    <3> DEFINE n == w.project[p].name
               m == Moved(gone, p, n)
    <3>1. n \in Directory
      BY <1>1, NamesAreNames
    <3>2. moved = m
      BY <2>1
    <3>3. /\ m \in WorldTypes /\ m.all = gone.all /\ m.loaded = gone.loaded
          /\ \A q \in Project \ {p} : m.project[q] = gone.project[q]
          /\ m.project[p] = [gone.project[p] EXCEPT !.directory = m.project[p].directory]
          /\ \/ m.disk = gone.disk /\ m.project[p].directory = gone.project[p].directory
             \/ /\ n # gone.project[p].directory
                /\ gone.disk[n] = Absent /\ gone.disk[gone.project[p].directory] # Absent
                /\ m.project[p].directory = n
                /\ m.disk[n] = gone.disk[gone.project[p].directory]
                /\ \A e \in Directory \ {n, gone.project[p].directory} :
                     m.disk[e] = gone.disk[e]
      <4> HIDE DEF n
      <4> QED BY <1>2, <3>1, MovedEffect
    <3> HIDE DEF moved, m, n
    <3> QED BY <1>2, <3>2, <3>3
  <2>2. CASE ~w.project[p].move_on_close
    <3>1. moved = gone
      BY <2>2
    <3>2. w.project[p] = [w.project[p] EXCEPT !.directory = old]
      BY <1>1 DEF Fields
    <3> HIDE DEF moved
    <3> QED BY <1>2, <3>1, <3>2
  <2> QED BY <2>1, <2>2
<1>4. v = IF p \in ToSet(w.all) THEN cleared ELSE [cleared EXCEPT !.project[p] = Unused]
  BY DEF Unloaded, NeverSaved, gone
<1> HIDE DEF moved, v
<1>5. /\ d \in Directory /\ moved.project \in [Project -> Fields]
      /\ moved.disk \in [Directory -> Name \union {Absent, NoInfo}]
      /\ moved.project[p].doc = w.project[p].doc /\ moved.project[p].task = w.project[p].task
  <2>1. /\ d \in Directory /\ moved.project \in [Project -> Fields]
        /\ moved.disk \in [Directory -> Name \union {Absent, NoInfo}]
    BY <1>3, WorldFields
  <2> QED BY <1>1, <1>3, <2>1 DEF Fields
<1>6. /\ cleared \in WorldTypes /\ cleared.all = w.all /\ cleared.loaded = gone.loaded
      /\ cleared.project = moved.project
      /\ w.project[p].doc # NoDoc => cleared.disk = moved.disk
      /\ \A e \in Directory \ {d} : cleared.disk[e] = moved.disk[e]
  <2>1. CASE moved.project[p].doc = NoDoc
    <3> DEFINE D == [moved.disk EXCEPT ![d] = Absent]
    <3>1. cleared = [moved EXCEPT !.disk = D]
      BY <1>3, <2>1 DEF WorldTypes
    <3>2. D \in [Directory -> Name \union {Absent, NoInfo}]
          /\ \A e \in Directory \ {d} : D[e] = moved.disk[e]
      BY <1>5
    <3> HIDE DEF D, cleared, d
    <3>3. cleared \in WorldTypes /\ cleared.all = moved.all /\ cleared.loaded = moved.loaded
          /\ cleared.project = moved.project /\ cleared.disk = D
      BY <1>3, <3>1, <3>2 DEF WorldTypes
    <3> QED BY <1>3, <1>5, <2>1, <3>2, <3>3
  <2>2. CASE moved.project[p].doc # NoDoc
    <3>1. cleared = moved
      BY <2>2
    <3> HIDE DEF cleared
    <3> QED BY <1>3, <3>1
  <2> QED BY <2>1, <2>2
<1> HIDE DEF cleared
<1>7. /\ v \in WorldTypes /\ v.all = w.all /\ v.loaded = gone.loaded /\ v.disk = cleared.disk
      /\ \A q \in Project \ {p} : v.project[q] = moved.project[q]
      /\ p \in ToSet(w.all) => v.project = moved.project
  <2>1. CASE p \in ToSet(w.all)
    BY <1>4, <1>6, <2>1
  <2>2. CASE p \notin ToSet(w.all)
    <3> DEFINE P == [cleared.project EXCEPT ![p] = Unused]
    <3>1. v = [cleared EXCEPT !.project = P]
      BY <1>4, <1>6, <2>2 DEF WorldTypes
    <3>2. P \in [Project -> Fields] /\ \A q \in Project \ {p} : P[q] = cleared.project[q]
      BY <1>5, <1>6, NamesAreNames
    <3> HIDE DEF P
    <3>3. v \in WorldTypes /\ v.all = cleared.all /\ v.loaded = cleared.loaded
          /\ v.project = P /\ v.disk = cleared.disk
      BY <1>6, <3>1, <3>2 DEF WorldTypes
    <3> QED BY <1>6, <2>2, <3>2, <3>3
  <2> QED BY <2>1, <2>2
<1>8. v.disk \in [Directory -> Name \union {Absent, NoInfo}]
  BY <1>7, WorldFields
<1>9. UnloadsTo(w, v, p, d)
  <2>1. p \in ToSet(w.all) =>
          /\ v.project[p].directory = d
          /\ v.project[p].doc = w.project[p].doc /\ v.project[p].task = w.project[p].task
    BY <1>5, <1>7 DEF d
  <2> HIDE DEF d
  <2>2. d # old => w.disk[d] = Absent /\ w.disk[old] # Absent
    BY <1>3
  <2>3. w.project[p].doc # NoDoc => v.disk[d] = w.disk[old]
    BY <1>3, <1>6, <1>7
  <2>4. \A e \in Directory \ {d, old} : v.disk[e] = w.disk[e]
    BY <1>3, <1>6, <1>7
  <2> QED BY <2>1, <2>2, <2>3, <2>4 DEF UnloadsTo
<1> HIDE DEF d
<1> QED BY <1>2, <1>3, <1>5, <1>7, <1>9 DEF v

LEMMA UnloadedOK ==
  ASSUME NEW w, WorldOK(w), NEW p \in ToSet(w.loaded)
  PROVE  LET v == Unloaded(w, p)
         IN  /\ WorldOK(v) /\ ToSet(v.loaded) = ToSet(w.loaded) \ {p}
             /\ \A q \in Project \ {p} : v.project[q] = w.project[q]
<1> DEFINE v   == Unloaded(w, p)
           old == w.project[p].directory
<1>0. /\ w \in WorldTypes /\ p \in Project /\ p \in Placed(w) /\ w.disk[old] # Absent
      /\ IsInjective(w.loaded) /\ IsInjective(w.all)
  BY LoadedArePlaced DEF WorldOK, PlacesAreDistinct
<1>1. /\ v \in WorldTypes /\ v.all = w.all /\ v.loaded = RemoveFirst(w.loaded, p)
      /\ \A q \in Project \ {p} : v.project[q] = w.project[q]
      /\ \E d \in Directory : UnloadsTo(w, v, p, d)
  BY <1>0, UnloadedEffect
<1> HIDE DEF v
<1>2. PICK d \in Directory : UnloadsTo(w, v, p, d)
  BY <1>1
<1>3. /\ IsInjective(v.all) /\ IsInjective(v.loaded)
      /\ ToSet(v.loaded) = ToSet(w.loaded) \ {p}
  BY <1>0, <1>1, RemovedFirst, WorldFields
<1>4. KnownTo(v) \subseteq KnownTo(w) /\ (p \in KnownTo(v) => p \in ToSet(w.all))
      /\ KnownTo(w) \subseteq Project
  BY <1>0, <1>1, <1>3, WorldFields DEF KnownTo
<1>5. ASSUME NEW q \in Placed(w), q # p
      PROVE  /\ w.project[q].directory \in Directory
             /\ w.project[q].directory # old /\ w.project[q].directory # d
  <2>1. q \in Project
    BY <1>4 DEF Placed
  <2>2. w.disk[w.project[q].directory] # Absent /\ w.project[q].directory # old
    BY <1>0, <1>5 DEF WorldOK, PlacesAreDistinct
  <2> QED BY <1>0, <1>2, <2>1, <2>2, WorldFields DEF UnloadsTo
<1>6. Beside(w, v, p)
  <2>1. ASSUME NEW q \in KnownTo(v) \ {p}, ~OrphanIn(w, q)
        PROVE  v.disk[w.project[q].directory] = w.disk[w.project[q].directory]
    <3>1. q \in Placed(w)
      BY <1>4, <2>1 DEF Placed
    <3> QED BY <1>2, <1>5, <2>1, <3>1 DEF UnloadsTo
  <2> QED BY <1>1, <1>3, <1>4, <2>1 DEF Beside
<1>7. ASSUME p \in KnownTo(v) PROVE Fits(w, v, p)
  <2>1. p \in ToSet(w.all) /\ p \in ToSet(v.all) /\ p \notin ToSet(v.loaded)
    BY <1>1, <1>3, <1>4, <1>7
  <2>2. /\ v.project[p].directory = d
        /\ v.project[p].doc = w.project[p].doc /\ v.project[p].task = w.project[p].task
    BY <1>2, <2>1 DEF UnloadsTo
  <2>3. CASE w.project[p].doc = NoDoc
    <3>1. w.project[p].task = "save"
      BY <2>1, <2>3 DEF WorldOK, DocumentsAreOnDisk
    <3> QED BY <2>1, <2>2, <2>3, <3>1 DEF Fits, OrphanIn
  <2>4. CASE w.project[p].doc # NoDoc
    <3>1. v.disk[d] = w.disk[old] /\ w.disk[old] = w.project[p].doc
      BY <1>2, <2>1, <2>4 DEF UnloadsTo, WorldOK, DocumentsAreOnDisk, KnownTo
    <3> QED BY <1>0, <1>5, <2>1, <2>2, <2>4, <3>1 DEF Fits
  <2> QED BY <2>3, <2>4
<1>8. WorldOK(v)
  BY <1>1, <1>3, <1>6, <1>7, Framed
<1> QED BY <1>1, <1>3, <1>8 DEF v

------------------------------------------------------------------------------
(* Loops over lists of projects *)

Loop == {"save", "close", "destroy"}

(* What the body of each loop makes of w.                                  *)
Body(loop, asked, w, p) ==
  IF loop = "save" THEN Saved(w, p, asked)
  ELSE IF loop = "close" THEN Unloaded(w, p) ELSE Destroyed(w, p)

(* The worlds f that the first k rounds of the loop over s go through.     *)
Rounds(f, k, loop, asked, w, s) ==
  f = [i \in 0..k |-> IF i = 0 THEN w ELSE Body(loop, asked, f[i - 1], s[i])]

LEMMA RoundsExist ==
  ASSUME NEW loop, NEW asked, NEW w, NEW s, NEW k \in Nat
  PROVE  \E f : Rounds(f, k, loop, asked, w, s)
<1> DEFINE T == {j \in Nat : ~\E f : Rounds(f, j, loop, asked, w, s)}
<1>1. SUFFICES ASSUME T # {} PROVE FALSE
  OBVIOUS
<1>2. PICK j \in T : \A m \in T : j <= m
  BY <1>1, LeastNumber
<1>3. CASE j = 0
  <2> DEFINE f == [i \in 0..0 |-> w]
  <2>1. f = [i \in 0..0 |-> IF i = 0 THEN w ELSE Body(loop, asked, f[i - 1], s[i])]
    OBVIOUS
  <2> HIDE DEF f
  <2>2. Rounds(f, j, loop, asked, w, s)
    BY <1>3, <2>1 DEF Rounds
  <2> QED BY <1>2, <2>2
<1>4. CASE j # 0
  <2>1. j - 1 \in Nat /\ j - 1 \notin T
    BY <1>2, <1>4
  <2>2. PICK f : Rounds(f, j - 1, loop, asked, w, s)
    BY <2>1
  <2> DEFINE g == [i \in 0..j |-> IF i < j THEN f[i] ELSE Body(loop, asked, f[j - 1], s[j])]
  <2>3. ASSUME NEW i \in 0..j
        PROVE  g[i] = IF i = 0 THEN w ELSE Body(loop, asked, g[i - 1], s[i])
    <3>1. CASE i = 0
      <4>1. g[i] = f[0] /\ 0 \in 0..j - 1
        BY <1>2, <1>4, <3>1
      <4>2. f[0] = w
        BY <2>2, <4>1 DEF Rounds
      <4> QED BY <3>1, <4>1, <4>2
    <3>2. CASE i # 0 /\ i < j
      <4>1. i \in 0..j - 1 /\ i - 1 \in 0..j /\ i - 1 < j
        BY <1>2, <3>2
      <4>2. f[i] = Body(loop, asked, f[i - 1], s[i])
        BY <2>2, <3>2, <4>1 DEF Rounds
      <4>3. g[i] = f[i] /\ g[i - 1] = f[i - 1]
        BY <3>2, <4>1
      <4> HIDE DEF g
      <4> QED BY <3>2, <4>2, <4>3
    <3>3. CASE i = j
      <4>1. j - 1 \in 0..j /\ j - 1 < j /\ j \in 0..j /\ ~(j < j)
        BY <1>2, <1>4
      <4>2. g[j] = Body(loop, asked, f[j - 1], s[j]) /\ g[j - 1] = f[j - 1]
        BY <4>1
      <4> HIDE DEF g
      <4> QED BY <1>4, <3>3, <4>2
    <3> HIDE DEF g
    <3> QED BY <1>2, <3>1, <3>2, <3>3
  <2>4. g = [i \in 0..j |-> g[i]]
    OBVIOUS
  <2> HIDE DEF g
  <2>5. Rounds(g, j, loop, asked, w, s)
    BY <2>3, <2>4 DEF Rounds
  <2> QED BY <1>2, <2>5
<1> QED BY <1>3, <1>4

(* InTurn is the last of the rounds.                                       *)
LEMMA ClosesInTurn ==
  ASSUME NEW w, NEW s, Len(s) \in Nat
  PROVE  \E f : /\ Rounds(f, Len(s), "close", {}, w, s)
                /\ InTurn(Unloaded, w, s) = f[Len(s)]
<1> DEFINE after == CHOOSE f : f = [i \in 0..Len(s) |->
                                     IF i = 0 THEN w ELSE Unloaded(f[i - 1], s[i])]
<1>1. PICK f : Rounds(f, Len(s), "close", {}, w, s)
  BY RoundsExist
<1>2. f = [i \in 0..Len(s) |-> IF i = 0 THEN w ELSE Unloaded(f[i - 1], s[i])]
  BY <1>1 DEF Rounds, Body
<1>3. after = [i \in 0..Len(s) |-> IF i = 0 THEN w ELSE Unloaded(after[i - 1], s[i])]
  BY <1>2
<1>4. InTurn(Unloaded, w, s) = after[Len(s)]
  BY DEF InTurn
<1> HIDE DEF after
<1>5. Rounds(after, Len(s), "close", {}, w, s)
  BY <1>3 DEF Rounds, Body
<1> QED BY <1>4, <1>5

LEMMA DestroysInTurn ==
  ASSUME NEW w, NEW s, Len(s) \in Nat
  PROVE  \E f : /\ Rounds(f, Len(s), "destroy", {}, w, s)
                /\ InTurn(Destroyed, w, s) = f[Len(s)]
<1> DEFINE after == CHOOSE f : f = [i \in 0..Len(s) |->
                                     IF i = 0 THEN w ELSE Destroyed(f[i - 1], s[i])]
<1>1. PICK f : Rounds(f, Len(s), "destroy", {}, w, s)
  BY RoundsExist
<1>2. f = [i \in 0..Len(s) |-> IF i = 0 THEN w ELSE Destroyed(f[i - 1], s[i])]
  BY <1>1 DEF Rounds, Body
<1>3. after = [i \in 0..Len(s) |-> IF i = 0 THEN w ELSE Destroyed(after[i - 1], s[i])]
  BY <1>2
<1>4. InTurn(Destroyed, w, s) = after[Len(s)]
  BY DEF InTurn
<1> HIDE DEF after
<1>5. Rounds(after, Len(s), "destroy", {}, w, s)
  BY <1>3 DEF Rounds, Body
<1> QED BY <1>4, <1>5

LEMMA RoundsKeep ==
  ASSUME NEW loop, NEW asked, NEW w, NEW s, NEW k \in Nat, NEW f,
         Rounds(f, k, loop, asked, w, s),
         NEW W, w \in W[0],
         \A i \in 1..k : \A u \in W[i - 1] : Body(loop, asked, u, s[i]) \in W[i]
  PROVE  \A i \in 0..k : f[i] \in W[i]
<1> DEFINE T == {i \in 0..k : f[i] \notin W[i]}
<1>1. SUFFICES ASSUME T # {} PROVE FALSE
  OBVIOUS
<1>2. PICK i \in T : \A j \in T : i <= j
  <2>1. T \subseteq Nat
    OBVIOUS
  <2> HIDE DEF T
  <2> QED BY <1>1, <2>1, LeastNumber
<1>3. i # 0
  <2>1. f[0] = w
    BY DEF Rounds
  <2> QED BY <1>2, <2>1
<1>4. i - 1 \in 0..k /\ i - 1 \notin T /\ i \in 1..k
  BY <1>2, <1>3
<1>5. f[i] = Body(loop, asked, f[i - 1], s[i])
  BY <1>3, <1>4 DEF Rounds
<1> QED BY <1>2, <1>4, <1>5

(* server_save_all_projects                                                *)
LEMMA AllSavedOK ==
  ASSUME NEW w, WorldOK(w), NEW asked
  PROVE  LET v == AllSaved(w, asked)
         IN  /\ WorldOK(v) /\ v.loaded = w.loaded
             /\ \A q \in Project : v.project[q].name = w.project[q].name
<1> DEFINE v == AllSaved(w, asked)
           k == Len(w.loaded)
           Good == {u \in WorldTypes :
                      /\ WorldOK(u) /\ u.loaded = w.loaded
                      /\ \A q \in Project : u.project[q].name = w.project[q].name}
           W == [i \in 0..k |-> Good]
<1>1. w.loaded \in Seq(Project) /\ k \in Nat /\ DOMAIN w.loaded = 1..k
  BY WorldFields DEF WorldOK
<1>2. PICK f : Rounds(f, k, "save", asked, w, w.loaded) /\ v = f[k]
  <2> DEFINE s == w.loaded
             after == CHOOSE f : f = [i \in 0..k |->
                                       IF i = 0 THEN w ELSE Saved(f[i - 1], s[i], asked)]
  <2>1. PICK f : Rounds(f, k, "save", asked, w, s)
    BY <1>1, RoundsExist
  <2>2. f = [i \in 0..k |-> IF i = 0 THEN w ELSE Saved(f[i - 1], s[i], asked)]
    BY <2>1 DEF Rounds, Body
  <2>3. after = [i \in 0..k |-> IF i = 0 THEN w ELSE Saved(after[i - 1], s[i], asked)]
    BY <2>2
  <2>4. v = after[k]
    BY DEF AllSaved, InTurn
  <2> HIDE DEF after, v
  <2>5. Rounds(after, k, "save", asked, w, s)
    BY <2>3 DEF Rounds, Body
  <2> QED BY <2>4, <2>5
<1> HIDE DEF v, k
<1>3. w \in Good
  BY DEF WorldOK
<1>4. ASSUME NEW i \in 1..k, NEW u \in Good
      PROVE  Body("save", asked, u, w.loaded[i]) \in Good
  <2>1. w.loaded[i] \in ToSet(u.loaded)
    BY <1>1 DEF ToSet
  <2> DEFINE x == Saved(u, w.loaded[i], asked)
  <2>2. WorldOK(x) /\ x.loaded = w.loaded
        /\ \A q \in Project : x.project[q].name = w.project[q].name
    BY <2>1, SavedOK
  <2> HIDE DEF x
  <2>3. x \in Good
    BY <2>2 DEF WorldOK
  <2> QED BY <2>3 DEF Body, x
<1> HIDE DEF Good
<1>5. w \in W[0] /\ \A i \in 1..k : \A u \in W[i - 1] :
                      Body("save", asked, u, w.loaded[i]) \in W[i]
  BY <1>1, <1>3, <1>4
<1>6. f[k] \in W[k]
  <2> HIDE DEF W
  <2> QED BY <1>1, <1>2, <1>5, RoundsKeep
<1>7. v \in Good
  BY <1>1, <1>2, <1>6
<1> QED BY <1>7 DEF v, Good

(* server_close_all_projects                                               *)
LEMMA AllClosedOK ==
  ASSUME NEW w, WorldOK(w)
  PROVE  LET v == InTurn(Unloaded, w, w.loaded)
         IN  WorldOK(v) /\ ToSet(v.loaded) = {}
<1> DEFINE v == InTurn(Unloaded, w, w.loaded)
           k == Len(w.loaded)
           Left(i) == {w.loaded[j] : j \in i + 1..k}
           W == [i \in 0..k |-> {u \in WorldTypes : WorldOK(u) /\ ToSet(u.loaded) = Left(i)}]
<1>1. w.loaded \in Seq(Project) /\ k \in Nat /\ DOMAIN w.loaded = 1..k
      /\ IsInjective(w.loaded)
  BY WorldFields DEF WorldOK, PlacesAreDistinct
<1>2. PICK f : Rounds(f, k, "close", {}, w, w.loaded) /\ v = f[k]
  BY <1>1, ClosesInTurn
<1> HIDE DEF v, k
<1>3. w \in W[0]
  <2>1. ToSet(w.loaded) = Left(0)
    BY <1>1 DEF ToSet
  <2> HIDE DEF Left
  <2> QED BY <1>1, <2>1 DEF WorldOK
<1>4. ASSUME NEW i \in 1..k, NEW u \in W[i - 1]
      PROVE  Body("close", {}, u, w.loaded[i]) \in W[i]
  <2> DEFINE p == w.loaded[i]
             x == Unloaded(u, p)
  <2>0. i - 1 \in 0..k /\ i \in 0..k /\ i - 1 + 1 = i
    BY <1>1
  <2>1. WorldOK(u) /\ ToSet(u.loaded) = Left(i - 1)
    BY <2>0
  <2>2. p \in ToSet(u.loaded)
    BY <1>1, <2>0, <2>1
  <2>3. WorldOK(x) /\ ToSet(x.loaded) = Left(i - 1) \ {p}
    <3> HIDE DEF Left, p
    <3> QED BY <2>1, <2>2, UnloadedOK
  <2>4. Left(i - 1) \ {p} = Left(i)
    <3>1. \A j \in i + 1..k : j \in 1..k /\ j # i /\ j \in i..k
      BY <1>1
    <3>2. \A j \in i..k : j = i \/ j \in i + 1..k
      BY <1>1
    <3>3. \A j \in i + 1..k : w.loaded[j] # p
      BY <1>1, <3>1 DEF IsInjective
    <3> QED BY <2>0, <3>1, <3>2, <3>3
  <2> HIDE DEF x, Left
  <2>5. x \in W[i]
    BY <2>0, <2>3, <2>4 DEF WorldOK
  <2> QED BY <2>5 DEF Body, x
<1>5. f[k] \in W[k]
  <2> HIDE DEF W
  <2> QED BY <1>1, <1>2, <1>3, <1>4, RoundsKeep
<1>6. WorldOK(f[k]) /\ ToSet(f[k].loaded) = Left(k)
  <2> HIDE DEF Left
  <2> QED BY <1>1, <1>5
<1>7. Left(k) = {}
  BY <1>1
<1> HIDE DEF Left
<1> QED BY <1>2, <1>6, <1>7 DEF v

(* server_stop                                                             *)
LEMMA AllDestroyedType ==
  ASSUME NEW w, WorldOK(w)
  PROVE  InTurn(Destroyed, w, w.all) \in WorldTypes
<1> DEFINE v == InTurn(Destroyed, w, w.all)
           k == Len(w.all)
           Good == {u \in WorldTypes : IsInjective(u.all) /\ IsInjective(u.loaded)}
           W == [i \in 0..k |-> Good]
<1>1. w.all \in Seq(Project) /\ k \in Nat /\ \A i \in 1..k : w.all[i] \in Project
  BY WorldFields DEF WorldOK
<1>2. PICK f : Rounds(f, k, "destroy", {}, w, w.all) /\ v = f[k]
  BY <1>1, DestroysInTurn
<1> HIDE DEF v, k
<1>3. w \in Good
  BY DEF WorldOK, PlacesAreDistinct
<1>4. ASSUME NEW i \in 1..k, NEW u \in Good
      PROVE  Body("destroy", {}, u, w.all[i]) \in Good
  <2> DEFINE p == w.all[i]
             n == [u EXCEPT !.all = RemoveFirst(@, p)]
             x == Unloaded(n, p)
  <2>1. p \in Project /\ u.all \in Seq(Project) /\ u.loaded \in Seq(Project)
    BY <1>1, WorldFields
  <2>2. RemoveFirst(u.all, p) \in Seq(Project) /\ IsInjective(RemoveFirst(u.all, p))
    <3> HIDE DEF p
    <3> QED BY <2>1, RemovedFirst
  <2>3. n \in WorldTypes /\ n.all = RemoveFirst(u.all, p) /\ n.loaded = u.loaded
    <3> HIDE DEF p
    <3> QED BY <2>2 DEF WorldTypes
  <2> HIDE DEF n, p
  <2>4. n \in Good
    BY <2>2, <2>3
  <2>5. x \in WorldTypes /\ x.all = n.all /\ x.loaded = RemoveFirst(n.loaded, p)
    BY <2>1, <2>4, UnloadedEffect
  <2> HIDE DEF x
  <2>6. IsInjective(x.loaded)
    BY <2>1, <2>3, <2>4, <2>5, RemovedFirst
  <2>7. x \in Good
    BY <2>4, <2>5, <2>6
  <2>8. Body("destroy", {}, u, p) \in {n, x}
    BY DEF Body, Destroyed, n, x
  <2> QED BY <2>4, <2>7, <2>8 DEF p
<1> HIDE DEF Good
<1>5. w \in W[0] /\ \A i \in 1..k : \A u \in W[i - 1] :
                      Body("destroy", {}, u, w.all[i]) \in W[i]
  BY <1>1, <1>3, <1>4
<1>6. f[k] \in W[k]
  <2> HIDE DEF W
  <2>1. Rounds(f, k, "destroy", {}, w, w.all) /\ k \in Nat
    BY <1>1, <1>2
  <2>2. \A i \in 0..k : f[i] \in W[i]
    BY <1>5, <2>1, RoundsKeep
  <2> QED BY <2>1, <2>2
<1> QED BY <1>1, <1>2, <1>6 DEF v, Good

------------------------------------------------------------------------------
(* The steps *)

(* What a step has to show, where v is the world it leads to.              *)
LEMMA Becoming ==
  ASSUME NEW v, WorldOK(v), project' = v.project, all_projects' = v.all,
         loaded_projects' = v.loaded, disk' = v.disk,
         lashd' \in {"running", "failed"} \/ (lashd' = "stopped" /\ v.loaded = <<>>)
  PROVE  Inv'
<1>1. World' = v
  BY DEF World, WorldOK, WorldTypes
<1>2. WorldOK(World')
  BY <1>1
<1>3. WorldOK(World)'
  BY <1>2 DEF WorldOK, PlacesAreDistinct, DocumentsAreOnDisk
<1> QED BY <1>3 DEF Inv

(* The names of loaded projects stay different, unless a loaded one is     *)
(* renamed.                                                                *)
NamesStayApart ==
  NamesDiffer /\ ~NamesDiffer' =>
    \E p \in Loaded \intersect Loaded' : project'[p].name # project[p].name

LEMMA Leaving ==
  ASSUME NEW s, ToSet(s) \subseteq Loaded, loaded_projects' = s
  PROVE  NamesStayApart
<1>1. Loaded' = ToSet(s)
  BY DEF Loaded
<1> QED BY <1>1 DEF NamesStayApart, NamesDiffer

(* The world that a step begins in.                                        *)
LEMMA Beginning ==
  ASSUME Inv
  PROVE  \E w : /\ w = World /\ WorldOK(w) /\ ToSet(w.loaded) = Loaded
                /\ w.project = project /\ w.all = all_projects
                /\ w.loaded = loaded_projects /\ w.disk = disk
BY DEF Inv, World, Loaded

LEMMA SaveStep ==
  ASSUME Inv, NEW p \in Project, Save(p)
  PROVE  Inv' /\ NamesStayApart
<1>1. PICK w : /\ w = World /\ WorldOK(w) /\ ToSet(w.loaded) = Loaded
               /\ w.project = project /\ w.all = all_projects
               /\ w.loaded = loaded_projects /\ w.disk = disk
  BY Beginning
<1>2. PICK asked \in SUBSET {p} : Becomes(Saved(World, p, asked))
  BY DEF Save
<1>3. PICK v : v = Saved(w, p, asked)
  OBVIOUS
<1>4. /\ project' = v.project /\ all_projects' = v.all
      /\ loaded_projects' = v.loaded /\ disk' = v.disk
  BY <1>1, <1>2, <1>3 DEF Becomes
<1>5. p \in ToSet(w.loaded) /\ lashd' = "running"
  BY <1>1 DEF Save, Run
<1>6. WorldOK(v) /\ v.loaded = w.loaded
  BY <1>1, <1>3, <1>5, SavedOK
<1>7. Inv'
  BY <1>4, <1>5, <1>6, Becoming
<1>8. NamesStayApart
  BY <1>1, <1>4, <1>5, <1>6, Leaving
<1> QED BY <1>7, <1>8

LEMMA SaveAllStep ==
  ASSUME Inv, SaveAll
  PROVE  Inv' /\ NamesStayApart
<1>1. PICK w : /\ w = World /\ WorldOK(w) /\ ToSet(w.loaded) = Loaded
               /\ w.project = project /\ w.all = all_projects
               /\ w.loaded = loaded_projects /\ w.disk = disk
  BY Beginning
<1>2. PICK asked \in SUBSET Loaded : Becomes(AllSaved(World, asked))
  BY DEF SaveAll
<1>3. PICK v : v = AllSaved(w, asked)
  OBVIOUS
<1>4. /\ project' = v.project /\ all_projects' = v.all
      /\ loaded_projects' = v.loaded /\ disk' = v.disk
  BY <1>1, <1>2, <1>3 DEF Becomes
<1>5. lashd' = "running"
  BY DEF SaveAll, Run
<1>6. WorldOK(v) /\ v.loaded = w.loaded
  BY <1>1, <1>3, AllSavedOK
<1>7. Inv'
  BY <1>4, <1>5, <1>6, Becoming
<1>8. NamesStayApart
  BY <1>1, <1>4, <1>5, <1>6, Leaving
<1> QED BY <1>7, <1>8

LEMMA SaveCompletesStep ==
  ASSUME Inv, NEW p \in Project, SaveCompletes(p)
  PROVE  Inv' /\ NamesStayApart
<1>1. PICK w : /\ w = World /\ WorldOK(w) /\ ToSet(w.loaded) = Loaded
               /\ w.project = project /\ w.all = all_projects
               /\ w.loaded = loaded_projects /\ w.disk = disk
  BY Beginning
<1>2. PICK v : v = Written(w, p)
  OBVIOUS
<1>3. /\ project' = v.project /\ all_projects' = v.all
      /\ loaded_projects' = v.loaded /\ disk' = v.disk
  BY <1>1, <1>2 DEF SaveCompletes, Becomes
<1>4. p \in ToSet(w.loaded) /\ lashd' = "running"
  BY <1>1 DEF SaveCompletes, Run
<1>5. WorldOK(v) /\ v.loaded = w.loaded
  BY <1>1, <1>2, <1>4, WrittenOK
<1>6. Inv'
  BY <1>3, <1>4, <1>5, Becoming
<1>7. NamesStayApart
  BY <1>1, <1>3, <1>4, <1>5, Leaving
<1> QED BY <1>6, <1>7

LEMMA CloseStep ==
  ASSUME Inv, NEW p \in Project, Close(p)
  PROVE  Inv' /\ NamesStayApart
<1>1. PICK w : /\ w = World /\ WorldOK(w) /\ ToSet(w.loaded) = Loaded
               /\ w.project = project /\ w.all = all_projects
               /\ w.loaded = loaded_projects /\ w.disk = disk
  BY Beginning
<1>2. PICK v : v = Unloaded(w, p)
  OBVIOUS
<1>3. /\ project' = v.project /\ all_projects' = v.all
      /\ loaded_projects' = v.loaded /\ disk' = v.disk
  BY <1>1, <1>2 DEF Close, Becomes
<1>4. p \in ToSet(w.loaded) /\ lashd' = "running"
  BY <1>1 DEF Close, Run
<1>5. WorldOK(v) /\ ToSet(v.loaded) \subseteq ToSet(w.loaded)
  BY <1>1, <1>2, <1>4, UnloadedOK
<1>6. Inv'
  BY <1>3, <1>4, <1>5, Becoming
<1>7. NamesStayApart
  BY <1>1, <1>3, <1>4, <1>5, Leaving
<1> QED BY <1>6, <1>7

LEMMA CloseAllStep ==
  ASSUME Inv, CloseAll
  PROVE  Inv' /\ NamesStayApart
<1>1. PICK w : /\ w = World /\ WorldOK(w) /\ ToSet(w.loaded) = Loaded
               /\ w.project = project /\ w.all = all_projects
               /\ w.loaded = loaded_projects /\ w.disk = disk
  BY Beginning
<1>2. PICK v : v = InTurn(Unloaded, w, w.loaded)
  OBVIOUS
<1>3. /\ project' = v.project /\ all_projects' = v.all
      /\ loaded_projects' = v.loaded /\ disk' = v.disk
  BY <1>1, <1>2 DEF CloseAll, Becomes
<1>4. lashd' = "running"
  BY DEF CloseAll, Run
<1>5. WorldOK(v) /\ ToSet(v.loaded) \subseteq ToSet(w.loaded)
  BY <1>1, <1>2, AllClosedOK
<1>6. Inv'
  BY <1>3, <1>4, <1>5, Becoming
<1>7. NamesStayApart
  BY <1>1, <1>3, <1>4, <1>5, Leaving
<1> QED BY <1>6, <1>7

(* The end of lashd                                                        *)
LEMMA EmptiedOK ==
  ASSUME NEW w \in WorldTypes
  PROVE  /\ WorldOK(Emptied(w)) /\ Emptied(w).loaded = <<>>
         /\ ToSet(Emptied(w).loaded) = {}
<1> DEFINE none == [p \in Project |-> Unused]
           v == Emptied(w)
<1>1. v = [project |-> none, all |-> <<>>, loaded |-> <<>>, disk |-> w.disk]
  <2>1. v = [w EXCEPT !.all = <<>>, !.loaded = <<>>, !.project = none]
    BY DEF Emptied
  <2> HIDE DEF none, v
  <2> QED BY <2>1 DEF WorldTypes
<1>2. none \in [Project -> Fields]
  BY NamesAreNames
<1> HIDE DEF none, v
<1>3. v.all = <<>> /\ v.loaded = <<>> /\ v \in WorldTypes
  BY <1>1, <1>2 DEF WorldTypes
<1>4. ToSet(v.all) = {} /\ ToSet(v.loaded) = {} /\ IsInjective(v.all) /\ IsInjective(v.loaded)
  BY <1>3 DEF ToSet, IsInjective
<1>5. KnownTo(v) = {} /\ Placed(v) = {}
  BY <1>4 DEF KnownTo, Placed
<1>6. WorldOK(v)
  BY <1>3, <1>4, <1>5 DEF WorldOK, PlacesAreDistinct, DocumentsAreOnDisk
<1> QED BY <1>3, <1>4, <1>6 DEF v

LEMMA ExitStep ==
  ASSUME Inv, Exit
  PROVE  Inv' /\ NamesStayApart
<1>1. PICK w : /\ w = World /\ WorldOK(w) /\ ToSet(w.loaded) = Loaded
               /\ w.project = project /\ w.all = all_projects
               /\ w.loaded = loaded_projects /\ w.disk = disk
  BY Beginning
<1>2. PICK u : u = InTurn(Destroyed, w, w.all)
  OBVIOUS
<1>3. PICK v : v = Emptied(u)
  OBVIOUS
<1>4. /\ project' = v.project /\ all_projects' = v.all
      /\ loaded_projects' = v.loaded /\ disk' = v.disk
  BY <1>1, <1>2, <1>3 DEF Exit, Becomes
<1>5. lashd' = "stopped"
  BY DEF Exit
<1>6. u \in WorldTypes
  BY <1>1, <1>2, AllDestroyedType
<1>7. WorldOK(v) /\ v.loaded = <<>> /\ ToSet(v.loaded) = {}
  BY <1>3, <1>6, EmptiedOK
<1>8. Inv'
  BY <1>4, <1>5, <1>7, Becoming
<1>9. NamesStayApart
  BY <1>1, <1>4, <1>5, <1>7, Leaving
<1> QED BY <1>8, <1>9

LEMMA CrashStep ==
  ASSUME Inv, Crash
  PROVE  Inv' /\ NamesStayApart
<1>1. PICK w : /\ w = World /\ WorldOK(w) /\ ToSet(w.loaded) = Loaded
               /\ w.project = project /\ w.all = all_projects
               /\ w.loaded = loaded_projects /\ w.disk = disk
  BY Beginning
<1>2. PICK v : v = Emptied(w)
  OBVIOUS
<1>3. /\ project' = v.project /\ all_projects' = v.all
      /\ loaded_projects' = v.loaded /\ disk' = v.disk
  BY <1>1, <1>2 DEF Crash, Becomes
<1>4. lashd' = "stopped"
  BY DEF Crash
<1>5. WorldOK(v) /\ v.loaded = <<>> /\ ToSet(v.loaded) = {}
  BY <1>1, <1>2, EmptiedOK DEF WorldOK
<1>6. Inv'
  BY <1>3, <1>4, <1>5, Becoming
<1>7. NamesStayApart
  BY <1>1, <1>3, <1>4, <1>5, Leaving
<1> QED BY <1>6, <1>7

(* A project keeps its place and its document, and may join the loaded     *)
(* ones.                                                                   *)
LEMMA Relabelled ==
  ASSUME NEW w, WorldOK(w), NEW p \in Placed(w), NEW v \in WorldTypes,
         v.all = w.all, v.disk = w.disk,
         IsInjective(v.loaded), ToSet(v.loaded) = ToSet(w.loaded) \union {p},
         v.project[p].directory = w.project[p].directory,
         v.project[p].doc = w.project[p].doc,
         p \in ToSet(w.all) /\ w.project[p].doc = NoDoc => v.project[p].task = "save",
         \A q \in Project \ {p} : v.project[q] = w.project[q]
  PROVE  WorldOK(v)
<1>1. KnownTo(v) = KnownTo(w) /\ KnownTo(w) \subseteq Project /\ p \in KnownTo(w)
  <2>1. p \in KnownTo(w)
    BY DEF Placed
  <2> QED BY <2>1, WorldFields DEF KnownTo, WorldOK
<1>2. Beside(w, v, p)
  BY <1>1 DEF Beside
<1>3. Fits(w, v, p)
  <2>1. /\ w.disk[w.project[p].directory] # Absent
        /\ \A q \in Placed(w) \ {p} : w.project[p].directory # w.project[q].directory
    BY DEF WorldOK, PlacesAreDistinct
  <2>2. w.project[p].doc # NoDoc => w.disk[w.project[p].directory] = w.project[p].doc
    BY <1>1 DEF WorldOK, DocumentsAreOnDisk
  <2> QED BY <2>1, <2>2 DEF Fits
<1>4. IsInjective(v.all)
  BY DEF WorldOK, PlacesAreDistinct
<1> QED BY <1>2, <1>3, <1>4, Framed

LEMMA LoadCompletesStep ==
  ASSUME Inv, NEW p \in Project, LoadCompletes(p)
  PROVE  Inv' /\ NamesStayApart
<1>1. PICK w : /\ w = World /\ WorldOK(w) /\ ToSet(w.loaded) = Loaded
               /\ w.project = project /\ w.all = all_projects
               /\ w.loaded = loaded_projects /\ w.disk = disk
  BY Beginning
<1> DEFINE P == [w.project EXCEPT ![p].task = "none"]
           v == [project |-> P, all |-> w.all, loaded |-> w.loaded, disk |-> w.disk]
<1>2. p \in ToSet(w.loaded) /\ w.project[p].task = "load" /\ project' = P /\ lashd' = "running"
  BY <1>1 DEF LoadCompletes, Run
<1>3. w \in WorldTypes /\ p \in Placed(w) /\ w.project[p] \in Fields
      /\ w.project \in [Project -> Fields]
  BY <1>1, <1>2, LoadedArePlaced, WorldFields DEF WorldOK
<1>4. /\ P \in [Project -> Fields] /\ \A q \in Project \ {p} : P[q] = w.project[q]
      /\ P[p] = [w.project[p] EXCEPT !.task = "none"]
  BY <1>3, SetTask
<1> HIDE DEF P
<1>5. P[p].directory = w.project[p].directory /\ P[p].doc = w.project[p].doc
      /\ \A q \in Project \ {p} : P[q] = w.project[q]
  BY <1>3, <1>4, OtherFields
<1>6. v \in WorldTypes
  BY <1>3, <1>4, WorldFields DEF WorldTypes
<1>7. p \in ToSet(w.all) /\ w.project[p].doc = NoDoc => P[p].task = "save"
  BY <1>1, <1>2 DEF WorldOK, DocumentsAreOnDisk
<1>8. /\ v.project = P /\ v.all = w.all /\ v.loaded = w.loaded /\ v.disk = w.disk
      /\ ToSet(w.loaded) = ToSet(w.loaded) \union {p}
  BY <1>2
<1>9. IsInjective(w.loaded)
  BY <1>1 DEF WorldOK, PlacesAreDistinct
<1> HIDE DEF v
<1>10. WorldOK(v)
  BY <1>1, <1>3, <1>5, <1>6, <1>7, <1>8, <1>9, Relabelled
<1>11. UNCHANGED <<all_projects, loaded_projects, disk>>
  BY DEF LoadCompletes
<1>12. Inv'
  BY <1>1, <1>2, <1>8, <1>10, <1>11, Becoming
<1>13. NamesStayApart
  BY <1>1, <1>2, <1>8, <1>10, <1>11, Leaving
<1> QED BY <1>12, <1>13

LEMMA RenameStep ==
  ASSUME Inv, NEW n \in Name, NEW new \in Name, Rename(n, new)
  PROVE  Inv' /\ NamesStayApart
<1>1. PICK w : /\ w = World /\ WorldOK(w) /\ ToSet(w.loaded) = Loaded
               /\ w.project = project /\ w.all = all_projects
               /\ w.loaded = loaded_projects /\ w.disk = disk
  BY Beginning
<1>2. PICK p : /\ p = FindByName(n) /\ p # NoProject /\ lashd' = "running"
               /\ project' = [project EXCEPT ![p].name = new, ![p].move_on_close = TRUE]
  BY DEF Rename, Run
<1> DEFINE N == [w.project EXCEPT ![p].name = new]
           P == [N EXCEPT ![p].move_on_close = TRUE]
           v == [project |-> P, all |-> w.all, loaded |-> w.loaded, disk |-> w.disk]
<1>3. w \in WorldTypes
  BY <1>1 DEF WorldOK
<1>4. p \in ToSet(w.loaded)
  BY <1>1, <1>2, <1>3, FoundByName, WorldFields
<1>5. p \in Placed(w) /\ p \in Project /\ w.project[p] \in Fields
      /\ w.project \in [Project -> Fields]
  BY <1>1, <1>3, <1>4, LoadedArePlaced, WorldFields
<1>6. /\ N \in [Project -> Fields] /\ \A q \in Project \ {p} : N[q] = w.project[q]
      /\ N[p].directory = w.project[p].directory /\ N[p].doc = w.project[p].doc
      /\ N[p].task = w.project[p].task
  BY <1>5 DEF Fields
<1>7. project' = P
  BY <1>1, <1>2
<1> HIDE DEF N
<1>8. /\ P \in [Project -> Fields] /\ \A q \in Project \ {p} : P[q] = N[q]
      /\ P[p].directory = N[p].directory /\ P[p].doc = N[p].doc
      /\ P[p].task = N[p].task
  BY <1>5, <1>6 DEF Fields
<1> HIDE DEF P
<1>9. v \in WorldTypes
  BY <1>3, <1>8, WorldFields DEF WorldTypes
<1>10. p \in ToSet(w.all) /\ w.project[p].doc = NoDoc => w.project[p].task = "save"
  BY <1>1 DEF WorldOK, DocumentsAreOnDisk
<1>11. /\ v.project = P /\ v.all = w.all /\ v.loaded = w.loaded /\ v.disk = w.disk
       /\ ToSet(w.loaded) = ToSet(w.loaded) \union {p}
  BY <1>4
<1>12. IsInjective(w.loaded)
  BY <1>1 DEF WorldOK, PlacesAreDistinct
<1> HIDE DEF v
<1>13. WorldOK(v)
  BY <1>1, <1>5, <1>6, <1>8, <1>9, <1>10, <1>11, <1>12, Relabelled
<1>14. UNCHANGED <<all_projects, loaded_projects, disk>>
  BY DEF Rename
<1>15. Inv'
  BY <1>1, <1>2, <1>7, <1>11, <1>13, <1>14, Becoming
<1>16. NamesStayApart
  BY <1>1, <1>2, <1>7, <1>11, <1>13, <1>14, Leaving
<1> QED BY <1>15, <1>16

LEMMA RestoreStep ==
  ASSUME Inv, NEW p \in Available \ Loaded, Run, Restore(p)
  PROVE  Inv' /\ NamesStayApart
<1>1. PICK w : /\ w = World /\ WorldOK(w) /\ ToSet(w.loaded) = Loaded
               /\ w.project = project /\ w.all = all_projects
               /\ w.loaded = loaded_projects /\ w.disk = disk
  BY Beginning
<1>2. CASE project[p].doc = NoDoc
  <2>1. /\ lashd' = "failed" /\ project' = w.project /\ all_projects' = w.all
        /\ loaded_projects' = w.loaded /\ disk' = w.disk
    BY <1>1, <1>2 DEF Restore, Becomes
  <2>2. Inv'
    BY <1>1, <2>1, Becoming
  <2>3. NamesStayApart
    BY <1>1, <2>1, Leaving
  <2> QED BY <2>2, <2>3
<1>3. CASE project[p].doc # NoDoc
  <2> DEFINE doc == w.project[p].doc
  <2>1. /\ w \in WorldTypes /\ p \in ToSet(w.all) /\ p \notin ToSet(w.loaded)
        /\ p \in Placed(w) /\ p \in Project /\ w.project[p] \in Fields /\ doc \in Name
        /\ w.project \in [Project -> Fields]
    <3>1. w \in WorldTypes /\ p \in ToSet(w.all) /\ p \notin ToSet(w.loaded)
      BY <1>1 DEF WorldOK, Available
    <3>2. p \in KnownTo(w) /\ ~OrphanIn(w, p)
      BY <1>1, <1>3, <3>1 DEF KnownTo, OrphanIn
    <3> QED BY <1>1, <1>3, <3>1, <3>2, WorldFields DEF Placed
  <2>2. PICK name, b :
          /\ b \in BOOLEAN
          /\ name = IF Clashes(doc) THEN NewName(doc) ELSE doc
          /\ name # OutOfNames
          /\ project' = [project EXCEPT ![p].name = name, ![p].task = "load",
                                        ![p].move_on_close = b]
    <3> DEFINE b == project[p].move_on_close \/ Clashes(doc)
    <3>1. b \in BOOLEAN
      OBVIOUS
    <3>2. project' = [project EXCEPT
                        ![p].name = IF Clashes(doc) THEN NewName(doc) ELSE doc,
                        ![p].task = "load", ![p].move_on_close = b]
          /\ (IF Clashes(doc) THEN NewName(doc) ELSE doc) # OutOfNames
      BY <1>1, <1>3 DEF Restore
    <3> QED BY <3>1, <3>2
  <2>3. name \in Name
    BY <2>1, <2>2, NewNameIsFree
  <2> DEFINE N == [w.project EXCEPT ![p].name = name]
             T == [N EXCEPT ![p].task = "load"]
             P == [T EXCEPT ![p].move_on_close = b]
             loaded == Append(w.loaded, p)
             v == [project |-> P, all |-> w.all, loaded |-> loaded, disk |-> w.disk]
  <2>4. /\ N \in [Project -> Fields] /\ \A q \in Project \ {p} : N[q] = w.project[q]
        /\ N[p].directory = w.project[p].directory /\ N[p].doc = w.project[p].doc
        /\ N[p].name = name
    <3>1. /\ N \in [Project -> Fields] /\ \A q \in Project \ {p} : N[q] = w.project[q]
          /\ N[p] = [w.project[p] EXCEPT !.name = name]
      BY <2>1, <2>3, SetName
    <3> HIDE DEF N
    <3> QED BY <2>1, <3>1, OtherFields
  <2>5. project' = P
    BY <1>1, <2>2
  <2> HIDE DEF N
  <2>6. /\ T \in [Project -> Fields] /\ \A q \in Project \ {p} : T[q] = N[q]
        /\ T[p] = [N[p] EXCEPT !.task = "load"]
    BY <2>1, <2>4, SetTask
  <2> HIDE DEF T
  <2>7. T[p].directory = N[p].directory /\ T[p].doc = N[p].doc /\ T[p].name = N[p].name
    BY <2>1, <2>4, <2>6, OtherFields
  <2>8. /\ P \in [Project -> Fields] /\ \A q \in Project \ {p} : P[q] = T[q]
        /\ P[p].directory = T[p].directory /\ P[p].doc = T[p].doc /\ P[p].name = T[p].name
    <3>1. /\ P \in [Project -> Fields] /\ \A q \in Project \ {p} : P[q] = T[q]
          /\ P[p] = [T[p] EXCEPT !.move_on_close = b]
      BY <2>1, <2>2, <2>6, SetMoving
    <3> HIDE DEF P
    <3> QED BY <2>1, <2>6, <3>1, OtherFields
  <2> HIDE DEF P
  <2>9. loaded \in Seq(Project) /\ IsInjective(loaded)
        /\ ToSet(loaded) = ToSet(w.loaded) \union {p}
    <3>1. w.loaded \in Seq(Project) /\ IsInjective(w.loaded)
      BY <1>1, <2>1, WorldFields DEF WorldOK, PlacesAreDistinct
    <3> QED BY <2>1, <3>1, AppendedOnce, AppendedSet
  <2>10. loaded_projects' = loaded /\ lashd' = "running"
         /\ UNCHANGED <<all_projects, disk>>
    BY <1>1, <1>3 DEF Restore, Run
  <2> HIDE DEF loaded
  <2>11. v \in WorldTypes
    BY <2>1, <2>8, <2>9, WorldFields DEF WorldTypes
  <2>12. v.project = P /\ v.all = w.all /\ v.loaded = loaded /\ v.disk = w.disk
    OBVIOUS
  <2> HIDE DEF v
  <2>13. WorldOK(v)
    BY <1>1, <1>3, <2>1, <2>4, <2>6, <2>7, <2>8, <2>9, <2>11, <2>12, Relabelled
  <2>14. Inv'
    BY <1>1, <2>5, <2>10, <2>12, <2>13, Becoming
  <2>15. FindByName(name) = NoProject
    BY <2>1, <2>2, NewNameIsFree DEF Clashes, Taken
  <2>16. \A q \in Loaded : project[q].name # name
    BY <1>1, <2>1, <2>15, FoundByName, WorldFields
  <2>17. Loaded' = Loaded \union {p} /\ Loaded \subseteq Project
    <3>1. Loaded' = ToSet(loaded)
      BY <2>10 DEF Loaded
    <3>2. Loaded \subseteq KnownTo(w)
      BY <1>1 DEF KnownTo
    <3> QED BY <1>1, <2>1, <2>9, <3>1, <3>2, WorldFields
  <2>18. project'[p].name = name /\ \A q \in Loaded : project'[q].name = project[q].name
    BY <1>1, <2>4, <2>5, <2>6, <2>7, <2>8, <2>17
  <2>19. NamesStayApart
    BY <2>16, <2>17, <2>18 DEF NamesStayApart, NamesDiffer
  <2> QED BY <2>14, <2>19
<1> QED BY <1>2, <1>3

LEMMA FirstIsAvailable ==
  ASSUME all_projects \in Seq(Project), NEW S \in SUBSET (1..Len(all_projects)), S # {}
  PROVE  all_projects[Min(S)] \in Available
<1>1. S \subseteq Nat
  OBVIOUS
<1>2. PICK m \in S : \A j \in S : m <= j
  BY <1>1, LeastNumber
<1>3. Min(S) \in S
  BY <1>2 DEF Min
<1>4. Min(S) \in 1..Len(all_projects)
  BY <1>3
<1>5. DOMAIN all_projects = 1..Len(all_projects)
  OBVIOUS
<1> QED BY <1>4, <1>5 DEF Available, ToSet

LEMMA RestoreByNameStep ==
  ASSUME Inv, NEW n \in Name, RestoreByName(n)
  PROVE  Inv' /\ NamesStayApart
<1> DEFINE S == {i \in 1..Len(all_projects) : project[all_projects[i]].name = n}
<1>0. PICK p : p = all_projects[Min(S)]
  OBVIOUS
<1>1. Run /\ S # {} /\ p \notin Loaded /\ Restore(p)
  BY <1>0 DEF RestoreByName, RestoreFirst, SelectInSeq, NotLoaded
<1>2. all_projects \in Seq(Project)
  BY Beginning, WorldFields DEF WorldOK
<1>3. p \in Available
  BY <1>0, <1>1, <1>2, FirstIsAvailable
<1> QED BY <1>1, <1>3, RestoreStep

LEMMA RestoreByDirStep ==
  ASSUME Inv, NEW d \in Directory, RestoreByDir(d)
  PROVE  Inv' /\ NamesStayApart
<1> DEFINE S == {i \in 1..Len(all_projects) : project[all_projects[i]].directory = d}
<1>0. PICK p : p = all_projects[Min(S)]
  OBVIOUS
<1>1. Run /\ S # {} /\ p \notin Loaded /\ Restore(p)
  BY <1>0 DEF RestoreByDir, RestoreFirst, SelectInSeq, NotLoaded
<1>2. all_projects \in Seq(Project)
  BY Beginning, WorldFields DEF WorldOK
<1>3. p \in Available
  BY <1>0, <1>1, <1>2, FirstIsAvailable
<1> QED BY <1>1, <1>3, RestoreStep

LEMMA MoveStep ==
  ASSUME Inv, NEW n \in Name, NEW d \in Directory, Move(n, d)
  PROVE  Inv' /\ NamesStayApart
<1>1. PICK w : /\ w = World /\ WorldOK(w) /\ ToSet(w.loaded) = Loaded
               /\ w.project = project /\ w.all = all_projects
               /\ w.loaded = loaded_projects /\ w.disk = disk
  BY Beginning
<1>2. PICK p : p = FindByName(n) /\ p # NoProject /\ Becomes(Moved(World, p, d))
  BY DEF Move
<1>3. PICK v : v = Moved(w, p, d)
  OBVIOUS
<1>4. /\ project' = v.project /\ all_projects' = v.all
      /\ loaded_projects' = v.loaded /\ disk' = v.disk /\ lashd' = "running"
  BY <1>1, <1>2, <1>3 DEF Move, Run, Becomes
<1> DEFINE old == w.project[p].directory
           new == v.project[p].directory
<1>5. w \in WorldTypes
  BY <1>1 DEF WorldOK
<1>6. p \in ToSet(w.loaded)
  BY <1>1, <1>2, <1>5, FoundByName, WorldFields
<1>7. p \in Placed(w) /\ p \in Project /\ w.disk[old] # Absent /\ KnownTo(w) \subseteq Project
      /\ w.project[p] \in Fields
  BY <1>1, <1>5, <1>6, LoadedArePlaced, WorldFields
<1>8. /\ v \in WorldTypes /\ v.all = w.all /\ v.loaded = w.loaded
      /\ \A q \in Project \ {p} : v.project[q] = w.project[q]
      /\ v.project[p] = [w.project[p] EXCEPT !.directory = new]
      /\ \/ v.disk = w.disk /\ new = old
         \/ /\ d # old /\ w.disk[d] = Absent /\ w.disk[old] # Absent
            /\ new = d
            /\ v.disk[d] = w.disk[old] /\ v.disk[old] = Absent
            /\ \A e \in Directory \ {d, old} : v.disk[e] = w.disk[e]
  BY <1>3, <1>5, <1>7, MovedEffect
<1>9. v.project[p].doc = w.project[p].doc /\ v.disk[new] = w.disk[old]
      /\ v.project[p].task = w.project[p].task
  BY <1>7, <1>8 DEF Fields
<1>10. KnownTo(v) = KnownTo(w)
  BY <1>8 DEF KnownTo
<1>11. ASSUME NEW q \in Placed(w), q # p
       PROVE  /\ w.project[q].directory # new
              /\ v.disk[w.project[q].directory] = w.disk[w.project[q].directory]
  <2>1. q \in Project
    BY <1>7 DEF Placed
  <2>2. w.project[q].directory # old /\ w.disk[w.project[q].directory] # Absent
        /\ w.project[q].directory \in Directory
    BY <1>1, <1>5, <1>7, <1>11, <2>1, WorldFields DEF WorldOK, PlacesAreDistinct
  <2> QED BY <1>8, <2>2
<1>12. Beside(w, v, p)
  BY <1>7, <1>8, <1>10, <1>11 DEF Beside, Placed
<1>13. Fits(w, v, p)
  <2>1. w.project[p].doc # NoDoc => w.disk[old] = w.project[p].doc
    BY <1>1, <1>6 DEF WorldOK, DocumentsAreOnDisk, KnownTo
  <2>2. p \in ToSet(w.all) /\ w.project[p].doc = NoDoc => w.project[p].task = "save"
    BY <1>1 DEF WorldOK, DocumentsAreOnDisk
  <2> QED BY <1>7, <1>8, <1>9, <1>11, <2>1, <2>2 DEF Fits
<1>14. IsInjective(v.all) /\ IsInjective(v.loaded)
  BY <1>1, <1>8 DEF WorldOK, PlacesAreDistinct
<1>15. WorldOK(v)
  BY <1>1, <1>8, <1>12, <1>13, <1>14, Framed
<1>16. Inv'
  BY <1>4, <1>15, Becoming
<1>17. NamesStayApart
  BY <1>1, <1>4, <1>8, Leaving
<1> QED BY <1>16, <1>17

(* server_get_newborn_project: a loaded project has a directory already.   *)
LEMMA JoinStep ==
  ASSUME Inv, ClientConnects, loaded_projects # <<>>
  PROVE  Inv' /\ NamesStayApart
<1>1. PICK w : /\ w = World /\ WorldOK(w) /\ ToSet(w.loaded) = Loaded
               /\ w.project = project /\ w.all = all_projects
               /\ w.loaded = loaded_projects /\ w.disk = disk
  BY Beginning
<1> DEFINE k == IF Newborns = {} THEN Len(loaded_projects)
                ELSE CHOOSE j \in Newborns : \A m \in Newborns : j <= m
<1>2. PICK i : /\ i = k /\ disk' = Created(project[loaded_projects[i]].directory, disk)
               /\ lashd' = "running" /\ UNCHANGED <<project, all_projects, loaded_projects>>
  <2>1. /\ disk' = Created(project[loaded_projects[k]].directory, disk)
        /\ lashd' = "running" /\ UNCHANGED <<project, all_projects, loaded_projects>>
    BY DEF ClientConnects, Run
  <2> HIDE DEF k
  <2> QED BY <2>1
<1>3. w \in WorldTypes /\ w.loaded \in Seq(Project)
      /\ w.disk \in [Directory -> Name \union {Absent, NoInfo}]
  BY <1>1, WorldFields DEF WorldOK
<1>4. Len(w.loaded) \in Nat \ {0} /\ DOMAIN w.loaded = 1..Len(w.loaded)
  BY <1>1, <1>3
<1>5. i \in DOMAIN w.loaded
  <2>1. Newborns \subseteq DOMAIN w.loaded /\ Newborns \subseteq Nat
    BY <1>1, <1>4 DEF Newborns
  <2>2. CASE Newborns = {}
    BY <1>1, <1>2, <1>4, <2>2
  <2>3. CASE Newborns # {}
    <3>1. PICK m \in Newborns : \A j \in Newborns : m <= j
      BY <2>1, <2>3, LeastNumber
    <3> QED BY <1>2, <2>1, <2>3, <3>1
  <2> QED BY <2>2, <2>3
<1>6. w.loaded[i] \in ToSet(w.loaded)
  BY <1>5 DEF ToSet
<1>7. w.disk[w.project[w.loaded[i]].directory] # Absent
  BY <1>1, <1>6, LoadedArePlaced
<1>8. disk' = w.disk
  BY <1>1, <1>2, <1>3, <1>7 DEF Created
<1>9. Inv'
  BY <1>1, <1>2, <1>8, Becoming
<1>10. NamesStayApart
  BY <1>1, <1>2, <1>8, Leaving
<1> QED BY <1>9, <1>10

(* The new project's name is free, and so is the directory of that name.   *)
LEMMA NewProjectStep ==
  ASSUME Inv, ClientConnects, loaded_projects = <<>>
  PROVE  Inv' /\ NamesStayApart
<1>1. PICK w : /\ w = World /\ WorldOK(w) /\ ToSet(w.loaded) = Loaded
               /\ w.project = project /\ w.all = all_projects
               /\ w.loaded = loaded_projects /\ w.disk = disk
  BY Beginning
<1>2. PICK p, name :
        /\ p = CHOOSE q \in Project \ Known : TRUE
        /\ name = NewName(<<NewProject>>) /\ Known # Project /\ name # OutOfNames
        /\ project' = [project EXCEPT ![p] = [Unused EXCEPT !.name = name, !.directory = name]]
        /\ loaded_projects' = <<p>> /\ disk' = Created(name, disk)
        /\ lashd' = "running" /\ UNCHANGED all_projects
  BY DEF ClientConnects, Run
<1>3. /\ w \in WorldTypes /\ KnownTo(w) = Known /\ Known \subseteq Project
      /\ w.project \in [Project -> Fields] /\ w.all \in Seq(Project)
      /\ w.disk \in [Directory -> Name \union {Absent, NoInfo}]
  BY <1>1, WorldFields DEF WorldOK, KnownTo, Known, Available
<1>4. p \in Project /\ p \notin KnownTo(w)
  BY <1>2, <1>3
<1>5. name \in Name /\ name \in Directory /\ w.disk[name] \notin Name
  BY <1>1, <1>2, NewProjectIsName, NewNameIsFree, NamesAreNames DEF Taken
<1> DEFINE r == [Unused EXCEPT !.name = name, !.directory = name]
           P == [w.project EXCEPT ![p] = r]
           D == Created(name, w.disk)
           v == [project |-> P, all |-> w.all, loaded |-> <<p>>, disk |-> D]
<1>6. r \in Fields /\ r.directory = name /\ r.doc = NoDoc
  BY <1>5, NewProjectIsName, NamesAreNames DEF Unused, Fields
<1>7. project' = P /\ disk' = D
  BY <1>1, <1>2
<1> HIDE DEF r
<1>8. P \in [Project -> Fields] /\ P[p] = r /\ \A q \in Project \ {p} : P[q] = w.project[q]
  BY <1>3, <1>4, <1>6
<1>9. /\ D \in [Directory -> Name \union {Absent, NoInfo}] /\ D[name] # Absent
      /\ \A d \in Directory : w.disk[d] # Absent => D[d] = w.disk[d]
  BY <1>3, <1>5, ProjectsAssumption, NamesAreNames DEF Created
<1> HIDE DEF P, D
<1>10. v \in WorldTypes
  BY <1>3, <1>4, <1>8, <1>9 DEF WorldTypes
<1>11. v.project = P /\ v.all = w.all /\ v.loaded = <<p>> /\ v.disk = D
  OBVIOUS
<1> HIDE DEF v
<1>12. ToSet(v.loaded) = {p} /\ IsInjective(v.loaded) /\ ToSet(w.loaded) = {}
  BY <1>1, <1>11 DEF ToSet, IsInjective
<1>13. Beside(w, v, p)
  <2>1. ASSUME NEW q \in KnownTo(v) \ {p}, ~OrphanIn(w, q)
        PROVE  v.disk[w.project[q].directory] = w.disk[w.project[q].directory]
    <3>1. q \in Placed(w) /\ q \in Project
      BY <1>3, <1>11, <1>12, <2>1 DEF Placed, KnownTo
    <3>2. w.disk[w.project[q].directory] # Absent /\ w.project[q].directory \in Directory
      BY <1>1, <1>3, <3>1, WorldFields DEF WorldOK, PlacesAreDistinct
    <3> QED BY <1>9, <1>11, <3>2
  <2> QED BY <1>3, <1>8, <1>11, <1>12, <2>1 DEF Beside, KnownTo
<1>14. Fits(w, v, p)
  <2>1. ASSUME NEW q \in Placed(w) PROVE w.project[q].directory # name
    <3>1. q \in ToSet(w.all) /\ w.project[q].doc # NoDoc /\ q \in KnownTo(w) /\ q \in Project
      BY <1>1, <1>3, <1>12 DEF Placed, KnownTo, OrphanIn, WorldOK, DocumentsAreOnDisk
    <3>2. w.disk[w.project[q].directory] = w.project[q].doc /\ w.project[q].doc \in Name
      BY <1>1, <1>3, <3>1, WorldFields DEF WorldOK, DocumentsAreOnDisk
    <3> QED BY <1>5, <3>2
  <2>2. v.project[p].directory = name /\ v.project[p].doc = NoDoc /\ p \notin ToSet(v.all)
    BY <1>4, <1>6, <1>8, <1>11 DEF KnownTo
  <2> QED BY <1>9, <1>11, <2>1, <2>2 DEF Fits
<1>15. IsInjective(v.all)
  BY <1>1, <1>11 DEF WorldOK, PlacesAreDistinct
<1>16. WorldOK(v)
  BY <1>1, <1>10, <1>12, <1>13, <1>14, <1>15, Framed
<1>17. Inv'
  BY <1>1, <1>2, <1>7, <1>11, <1>16, Becoming
<1>18. NamesStayApart
  <2>1. Loaded' = {p}
    BY <1>2, <1>11, <1>12 DEF Loaded
  <2> QED BY <2>1 DEF NamesStayApart, NamesDiffer
<1> QED BY <1>17, <1>18

(* Project's objects in some order                                         *)
LEMMA ObjectsInOrder ==
  /\ Cardinality(Project) \in Nat
  /\ SetToSeq(Project) \in [1..Cardinality(Project) -> Project]
  /\ IsInjective(SetToSeq(Project))
<1>1. Cardinality(Project) \in Nat /\ ExistsBijection(1..Cardinality(Project), Project)
  BY ProjectsAssumption, FS_CardinalityType
<1>2. \E f \in [1..Cardinality(Project) -> Project] : IsInjective(f)
  BY <1>1 DEF ExistsBijection, Bijection, Injection, IsInjective
<1> QED BY <1>1, <1>2 DEF SetToSeq

LEMMA StartStep ==
  ASSUME Inv, Start
  PROVE  Inv' /\ NamesStayApart
<1>1. PICK w : /\ w = World /\ WorldOK(w) /\ ToSet(w.loaded) = Loaded
               /\ w.project = project /\ w.all = all_projects
               /\ w.loaded = loaded_projects /\ w.disk = disk
  BY Beginning
<1> DEFINE places == {d \in Name : w.disk[d] \in Name}
           object == SetToSeq(Project)
<1>2. PICK directories \in SetToSeqs(places) :
        Len(directories) <= Cardinality(Project) /\ Becomes(FilledWith(directories))
  BY <1>1 DEF Start
<1> DEFINE n == Len(directories)
           I == 1..n
           Holds(p) == \E i \in I : p = object[i]
           At(p) == CHOOSE i \in I : p = object[i]
           Read(d) == [Unused EXCEPT !.name = w.disk[d], !.directory = d, !.doc = w.disk[d]]
           P == [p \in Project |-> IF Holds(p) THEN Read(directories[At(p)]) ELSE Unused]
           all == [i \in I |-> object[i]]
           v == [project |-> P, all |-> all, loaded |-> <<>>, disk |-> w.disk]
<1>3. /\ n \in Nat /\ DOMAIN directories = I /\ \A i \in I : directories[i] \in places
      /\ \A i, j \in I : i # j => directories[i] # directories[j]
  <2>1. Cardinality(places) \in Nat
    <3>1. IsFiniteSet(places)
      BY ProjectsAssumption, FS_Subset
    <3> QED BY <3>1, FS_CardinalityType
  <2> HIDE DEF places
  <2> QED BY <1>2, <2>1 DEF SetToSeqs
<1>4. /\ \A i \in I : object[i] \in Project
      /\ \A i, j \in I : object[i] = object[j] => i = j
  <2>1. n <= Cardinality(Project)
    BY <1>2
  <2> HIDE DEF object, n
  <2> QED BY <1>3, <2>1, ObjectsInOrder DEF object, IsInjective
<1>5. project' = P /\ all_projects' = all /\ disk' = w.disk
  BY <1>1, <1>2, <1>3 DEF Becomes, FilledWith, World
<1>6. lashd' = "running" /\ loaded_projects' = <<>>
  BY <1>2 DEF Inv, Start, Becomes, FilledWith, World
<1> HIDE DEF object, n
<1>7. ASSUME NEW p \in Project, Holds(p)
      PROVE  /\ At(p) \in I /\ object[At(p)] = p
             /\ directories[At(p)] \in places /\ P[p] = Read(directories[At(p)])
  BY <1>3, <1>7
<1> HIDE DEF At
<1>8. ASSUME NEW d \in places
      PROVE  /\ Read(d) \in Fields /\ Read(d).doc = w.disk[d] /\ Read(d).directory = d
  BY NamesAreNames, NewProjectIsName DEF Unused, Fields
<1> HIDE DEF Read
<1>9. P \in [Project -> Fields]
  BY <1>7, <1>8, NamesAreNames
<1> HIDE DEF P
<1>10. all \in Seq(Project) /\ ToSet(all) = {p \in Project : Holds(p)} /\ IsInjective(all)
  <2>1. all \in [I -> Project] /\ DOMAIN all = I
    BY <1>4
  <2>2. all \in Seq(Project)
    BY <1>3, <2>1
  <2>3. IsInjective(all)
    BY <1>4, <2>1 DEF IsInjective
  <2> QED BY <1>4, <2>1, <2>2, <2>3 DEF ToSet
<1> HIDE DEF all
<1>11. v \in WorldTypes
  BY <1>1, <1>9, <1>10 DEF WorldTypes, WorldOK
<1>12. /\ v.project = P /\ v.all = all /\ v.loaded = <<>> /\ v.disk = w.disk
       /\ ToSet(v.loaded) = {} /\ IsInjective(v.loaded)
  BY DEF ToSet, IsInjective
<1> HIDE DEF v
<1>13. KnownTo(v) = {p \in Project : Holds(p)} /\ Placed(v) \subseteq KnownTo(v)
  BY <1>10, <1>12 DEF KnownTo, Placed
<1>14. ASSUME NEW p \in KnownTo(v)
       PROVE  /\ P[p].directory = directories[At(p)] /\ directories[At(p)] \in places
              /\ P[p].doc = w.disk[directories[At(p)]]
              /\ At(p) \in I /\ object[At(p)] = p
  BY <1>7, <1>8, <1>13
<1> HIDE DEF Holds
<1>15. PlacesAreDistinct(v)
  <2>1. ASSUME NEW p \in KnownTo(v) PROVE v.disk[v.project[p].directory] # Absent
    BY <1>12, <1>14, NamesAreNames
  <2>2. ASSUME NEW p \in KnownTo(v), NEW q \in KnownTo(v), p # q
        PROVE  v.project[p].directory # v.project[q].directory
    BY <1>3, <1>12, <1>14, <2>2
  <2> QED BY <1>10, <1>12, <1>13, <2>1, <2>2 DEF PlacesAreDistinct
<1>16. DocumentsAreOnDisk(v)
  <2>1. ASSUME NEW p \in KnownTo(v)
        PROVE  v.disk[v.project[p].directory] = v.project[p].doc /\ v.project[p].doc # NoDoc
    BY <1>12, <1>14, NamesAreNames
  <2> QED BY <2>1 DEF DocumentsAreOnDisk, KnownTo
<1>17. WorldOK(v)
  BY <1>11, <1>15, <1>16 DEF WorldOK
<1>18. Inv'
  BY <1>5, <1>6, <1>12, <1>17, Becoming
<1>19. NamesStayApart
  BY <1>1, <1>5, <1>6, <1>12, <1>17, Leaving
<1> QED BY <1>18, <1>19

LEMMA InitInv == Init => Inv
<1> SUFFICES ASSUME Init PROVE Inv
  OBVIOUS
<1>1. PICK w : w = World
  OBVIOUS
<1>2. w = [project |-> [p \in Project |-> Unused], all |-> <<>>, loaded |-> <<>>,
           disk |-> [d \in Directory |-> Absent]]
  BY <1>1 DEF Init, World
<1>3. [p \in Project |-> Unused] \in [Project -> Fields]
      /\ [d \in Directory |-> Absent] \in [Directory -> Name \union {Absent, NoInfo}]
  BY NamesAreNames
<1>4. w \in WorldTypes /\ w.all = <<>> /\ w.loaded = <<>>
  BY <1>2, <1>3 DEF WorldTypes
<1>5. ToSet(w.all) = {} /\ ToSet(w.loaded) = {} /\ IsInjective(w.all) /\ IsInjective(w.loaded)
  BY <1>4 DEF ToSet, IsInjective
<1>6. WorldOK(w)
  BY <1>4, <1>5 DEF WorldOK, PlacesAreDistinct, DocumentsAreOnDisk, KnownTo, Placed
<1> QED BY <1>1, <1>6 DEF Inv, Init

LEMMA Step == Inv /\ [Next]_vars => Inv' /\ [NamesStayApart]_vars
<1> SUFFICES ASSUME Inv, [Next]_vars PROVE Inv' /\ [NamesStayApart]_vars
  OBVIOUS
<1>1. CASE ClientConnects
  BY <1>1, JoinStep, NewProjectStep
<1>2. ASSUME NEW p \in Project, Save(p) PROVE Inv' /\ [NamesStayApart]_vars
  BY <1>2, SaveStep
<1>3. ASSUME NEW p \in Project, SaveCompletes(p) PROVE Inv' /\ [NamesStayApart]_vars
  BY <1>3, SaveCompletesStep
<1>4. ASSUME NEW p \in Project, LoadCompletes(p) PROVE Inv' /\ [NamesStayApart]_vars
  BY <1>4, LoadCompletesStep
<1>5. ASSUME NEW p \in Project, Close(p) PROVE Inv' /\ [NamesStayApart]_vars
  BY <1>5, CloseStep
<1>6. CASE SaveAll
  BY <1>6, SaveAllStep
<1>7. CASE CloseAll
  BY <1>7, CloseAllStep
<1>8. ASSUME NEW n \in Name, RestoreByName(n) PROVE Inv' /\ [NamesStayApart]_vars
  BY <1>8, RestoreByNameStep
<1>9. ASSUME NEW d \in Directory, RestoreByDir(d) PROVE Inv' /\ [NamesStayApart]_vars
  BY <1>9, RestoreByDirStep
<1>10. ASSUME NEW n \in Name, NEW new \in Name, Rename(n, new) PROVE Inv' /\ [NamesStayApart]_vars
  BY <1>10, RenameStep
<1>11. ASSUME NEW n \in Name, NEW d \in Directory, Move(n, d) PROVE Inv' /\ [NamesStayApart]_vars
  BY <1>11, MoveStep
<1>12. CASE Exit
  BY <1>12, ExitStep
<1>13. CASE Crash
  BY <1>13, CrashStep
<1>14. CASE Start
  BY <1>14, StartStep
<1>15. CASE UNCHANGED vars
  BY <1>15 DEF vars, Inv, World, WorldOK, WorldTypes, PlacesAreDistinct, DocumentsAreOnDisk,
               KnownTo, Placed, OrphanIn
<1> QED BY <1>1, <1>2, <1>3, <1>4, <1>5, <1>6, <1>7, <1>8, <1>9, <1>10, <1>11, <1>12,
           <1>13, <1>14, <1>15 DEF Next

LEMMA Invariance == Spec => []Inv
BY InitInv, Step, PTL DEF Spec

------------------------------------------------------------------------------
(* Theorems *)

(* Every variable keeps its type (project_t, and what a directory holds).  *)
THEOREM ProjectsTypeOK == Spec => []TypeOK
<1>1. Inv => TypeOK
  <2> SUFFICES ASSUME Inv PROVE TypeOK
    OBVIOUS
  <2>1. World \in WorldTypes /\ lashd \in {"running", "failed", "stopped"}
    BY DEF Inv, WorldOK
  <2> QED BY <2>1 DEF WorldTypes, World, TypeOK
<1> QED BY <1>1, Invariance, PTL

LEMMA InvPlaces == Inv => DirectoriesAreDistinct
<1> SUFFICES ASSUME Inv PROVE DirectoriesAreDistinct
  OBVIOUS
<1>1. PICK w : /\ w = World /\ WorldOK(w) /\ ToSet(w.loaded) = Loaded
               /\ w.project = project /\ w.all = all_projects
               /\ w.loaded = loaded_projects /\ w.disk = disk
  BY Beginning
<1>2. KnownTo(w) = Known
  BY <1>1 DEF KnownTo, Known, Available
<1>3. \A p : OrphanIn(w, p) <=> Orphan(p)
  BY <1>1 DEF OrphanIn, Orphan
<1>4. Placed(w) = {r \in Known : ~Orphan(r)}
  BY <1>2, <1>3 DEF Placed
<1> QED BY <1>1, <1>4 DEF WorldOK, PlacesAreDistinct, DirectoriesAreDistinct

LEMMA InvDocuments == Inv => SavedProjectsAreOnDisk
<1> SUFFICES ASSUME Inv PROVE SavedProjectsAreOnDisk
  OBVIOUS
<1>1. PICK w : /\ w = World /\ WorldOK(w) /\ ToSet(w.loaded) = Loaded
               /\ w.project = project /\ w.all = all_projects
               /\ w.loaded = loaded_projects /\ w.disk = disk
  BY Beginning
<1>2. KnownTo(w) = Known /\ ToSet(w.all) = Available
  BY <1>1 DEF KnownTo, Known, Available
<1>3. \A p \in Known : project[p].doc # NoDoc => disk[project[p].directory] = project[p].doc
  BY <1>1, <1>2 DEF WorldOK, DocumentsAreOnDisk
<1>4. \A p \in Available : project[p].doc = NoDoc => project[p].task = "save"
  BY <1>1, <1>2 DEF WorldOK, DocumentsAreOnDisk
<1> QED BY <1>3, <1>4 DEF SavedProjectsAreOnDisk, Orphan

(* No project is listed twice, and no two that lashd knows share a         *)
(* directory, whatever is created, renamed, moved, closed or read again:   *)
(* server_create_new_project_name and project_move each look at one sign   *)
(* of use only.                                                            *)
THEOREM DirectoriesDistinct == Spec => []DirectoriesAreDistinct
BY InvPlaces, Invariance, PTL

(* What was saved is in the directory where lashd believes it is, as it    *)
(* was last saved; and what lashd offers for loading was saved, but for a  *)
(* project that was closed during its first save.                          *)
THEOREM SavedOnDisk == Spec => []SavedProjectsAreOnDisk
BY InvDocuments, Invariance, PTL

(* Only a user who renames a loaded project gives it the name of another   *)
(* loaded one: what server_project_restore and                             *)
(* server_create_new_project_name choose, no loaded project has.           *)
THEOREM NamesClash == Spec => OnlyUsersMakeNamesClash
<1>1. Inv /\ [Next]_vars => [NamesStayApart]_vars
  BY Step
<1>2. Spec => [][NamesStayApart]_vars
  BY <1>1, Invariance, PTL DEF Spec
<1> QED BY <1>2 DEF OnlyUsersMakeNamesClash, NamesStayApart

=============================================================================
