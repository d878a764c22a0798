-------------------------- MODULE JackManagerProofs --------------------------
(***************************************************************************)
(* Theorems about JackManager, for any programs, ports, names, documents   *)
(* and numbers of ends and notices.                                        *)
(***************************************************************************)
EXTENDS JackManager, FiniteSetTheorems, SequenceTheorems, WellFoundedInduction, TLAPS

------------------------------------------------------------------------------
(* Facts about lists and numbers *)

(* What cannot fail first does not fail: the induction that the proofs of  *)
(* recursive functions use.                                                *)
LEMMA LeastNumber ==
  ASSUME NEW T, T \subseteq Nat, T # {}
  PROVE  \E n \in T : \A m \in T : n <= m
<1>1. PICK n \in T : \A m \in T : ~(<<m, n>> \in OpToRel(<, Nat))
  BY NatLessThanWellFounded, WFMin
<1>2. \A m \in T : ~(m < n)
  BY <1>1 DEF OpToRel
<1> QED BY <1>2

(* A list without some of its elements: those of the positions K stay, in  *)
(* order.                                                                  *)
KeepsFirst(f, k, s, K) ==
  f = [n \in 0..k |-> IF n = 0 THEN <<>>
                      ELSE IF n \in K THEN Append(f[n - 1], s[n]) ELSE f[n - 1]]

LEMMA KeepingExists ==
  ASSUME NEW s, NEW K, NEW k \in Nat
  PROVE  \E f : KeepsFirst(f, k, s, K)
<1> DEFINE T == {j \in Nat : ~\E f : KeepsFirst(f, j, s, K)}
<1>1. SUFFICES ASSUME T # {} PROVE FALSE
  OBVIOUS
<1>2. PICK j \in T : \A m \in T : j <= m
  BY <1>1, LeastNumber
<1>3. CASE j = 0
  <2> DEFINE f == [n \in 0..0 |-> <<>>]
  <2>1. f = [n \in 0..0 |-> IF n = 0 THEN <<>>
                            ELSE IF n \in K THEN Append(f[n - 1], s[n]) ELSE f[n - 1]]
    OBVIOUS
  <2> HIDE DEF f
  <2>2. KeepsFirst(f, j, s, K)
    BY <1>3, <2>1 DEF KeepsFirst
  <2> QED BY <1>2, <2>2
<1>4. CASE j # 0
  <2>1. j - 1 \in Nat /\ j - 1 \notin T
    BY <1>2, <1>4
  <2>2. PICK f : KeepsFirst(f, j - 1, s, K)
    BY <2>1
  <2> DEFINE last == IF j \in K THEN Append(f[j - 1], s[j]) ELSE f[j - 1]
             g == [n \in 0..j |-> IF n < j THEN f[n] ELSE last]
  <2>3. ASSUME NEW n \in 0..j
        PROVE  g[n] = IF n = 0 THEN <<>>
                      ELSE IF n \in K THEN Append(g[n - 1], s[n]) ELSE g[n - 1]
    <3>1. CASE n = 0
      <4>1. g[n] = f[0] /\ 0 \in 0..j - 1
        BY <1>2, <1>4, <3>1
      <4>2. f[0] = <<>>
        BY <2>2, <4>1 DEF KeepsFirst
      <4> QED BY <3>1, <4>1, <4>2
    <3>2. CASE n # 0 /\ n < j
      <4>1. n \in 0..j - 1 /\ n - 1 \in 0..j /\ n - 1 < j
        BY <1>2, <3>2
      <4>2. f[n] = IF n \in K THEN Append(f[n - 1], s[n]) ELSE f[n - 1]
        BY <2>2, <3>2, <4>1 DEF KeepsFirst
      <4>3. g[n] = f[n] /\ g[n - 1] = f[n - 1]
        BY <3>2, <4>1
      <4> HIDE DEF g
      <4> QED BY <3>2, <4>2, <4>3
    <3>3. CASE n = j
      <4>1. j - 1 \in 0..j /\ j - 1 < j /\ j \in 0..j /\ ~(j < j)
        BY <1>2, <1>4
      <4>2. g[j] = last /\ g[j - 1] = f[j - 1]
        BY <4>1
      <4> HIDE DEF g
      <4> QED BY <1>4, <3>3, <4>2
    <3> HIDE DEF g
    <3> QED BY <1>2, <3>1, <3>2, <3>3
  <2>4. g = [n \in 0..j |-> g[n]]
    OBVIOUS
  <2> HIDE DEF g
  <2>5. KeepsFirst(g, j, s, K)
    BY <2>3, <2>4 DEF KeepsFirst
  <2> QED BY <1>2, <2>5
<1> QED BY <1>3, <1>4

(* r is what stays of the first k elements of s, each from the position    *)
(* that `from` says.                                                       *)
StaysOf(r, from, k, s, K) ==
  /\ from \in [DOMAIN r -> (1..k) \intersect K]
  /\ \A i \in DOMAIN r : r[i] = s[from[i]]
  /\ \A i, j \in DOMAIN r : i < j => from[i] < from[j]
  /\ \A n \in (1..k) \intersect K : \E i \in DOMAIN r : from[i] = n

LEMMA OneMoreStays ==
  ASSUME NEW S, NEW s \in Seq(S), NEW K, NEW k \in 1..Len(s), NEW r \in Seq(S),
         \E from : StaysOf(r, from, k - 1, s, K)
  PROVE  IF k \in K
         THEN Append(r, s[k]) \in Seq(S) /\ \E from : StaysOf(Append(r, s[k]), from, k, s, K)
         ELSE \E from : StaysOf(r, from, k, s, K)
<1>1. PICK from : StaysOf(r, from, k - 1, s, K)
  OBVIOUS
<1>2. /\ from \in [DOMAIN r -> (1..k - 1) \intersect K]
      /\ \A i \in DOMAIN r : r[i] = s[from[i]]
      /\ \A i, j \in DOMAIN r : i < j => from[i] < from[j]
      /\ \A n \in (1..k - 1) \intersect K : \E i \in DOMAIN r : from[i] = n
  BY <1>1 DEF StaysOf
<1>3. /\ Len(r) \in Nat /\ DOMAIN r = 1..Len(r) /\ k \in Nat /\ s[k] \in S
      /\ \A n : n \in 1..k <=> n \in 1..k - 1 \/ n = k
  OBVIOUS
<1>4. CASE k \notin K
  <2>1. (1..k) \intersect K = (1..k - 1) \intersect K
    BY <1>3, <1>4
  <2>2. StaysOf(r, from, k, s, K)
    BY <1>2, <2>1 DEF StaysOf
  <2> QED BY <1>4, <2>2
<1>5. CASE k \in K
  <2> DEFINE a == Append(r, s[k])
             g == [i \in 1..Len(r) + 1 |-> IF i = Len(r) + 1 THEN k ELSE from[i]]
  <2>1. /\ a \in Seq(S) /\ DOMAIN a = 1..Len(r) + 1
        /\ \A i \in 1..Len(r) : a[i] = r[i]
        /\ a[Len(r) + 1] = s[k]
    BY <1>3
  <2>2. /\ g \in [1..Len(r) + 1 -> (1..k) \intersect K]
        /\ g[Len(r) + 1] = k
        /\ \A i \in 1..Len(r) : g[i] = from[i] /\ from[i] \in 1..k - 1 /\ i # Len(r) + 1
    BY <1>2, <1>3, <1>5
  <2> HIDE DEF a, g
  <2>3. \A i \in 1..Len(r) + 1 : i \in 1..Len(r) \/ i = Len(r) + 1
    BY <1>3
  <2>4. \A i \in DOMAIN a : a[i] = s[g[i]]
    BY <1>2, <1>3, <2>1, <2>2, <2>3
  <2>5. ASSUME NEW i \in DOMAIN a, NEW j \in DOMAIN a, i < j PROVE g[i] < g[j]
    <3>1. i \in 1..Len(r)
      BY <1>3, <2>1, <2>5
    <3>2. CASE j \in 1..Len(r)
      BY <1>2, <1>3, <2>2, <2>5, <3>1, <3>2
    <3>3. CASE j = Len(r) + 1
      <4>1. from[i] < k
        BY <1>3, <2>2, <3>1
      <4> QED BY <2>2, <3>1, <3>3, <4>1
    <3> QED BY <2>1, <2>3, <3>2, <3>3
  <2>6. ASSUME NEW n \in (1..k) \intersect K PROVE \E i \in DOMAIN a : g[i] = n
    <3>1. CASE n = k
      <4>1. Len(r) + 1 \in DOMAIN a
        BY <1>3, <2>1
      <4> QED BY <2>2, <3>1, <4>1
    <3>2. CASE n \in 1..k - 1
      <4>1. PICK i \in DOMAIN r : from[i] = n
        BY <1>2, <3>2
      <4>2. i \in DOMAIN a
        BY <1>3, <2>1
      <4> QED BY <1>3, <2>2, <4>1, <4>2
    <3> QED BY <1>3, <3>1, <3>2
  <2>7. StaysOf(a, g, k, s, K)
    BY <2>1, <2>2, <2>4, <2>5, <2>6 DEF StaysOf
  <2> QED BY <1>5, <2>1, <2>7 DEF a
<1> QED BY <1>4, <1>5

LEMMA Kept ==
  ASSUME NEW S, NEW s \in Seq(S), NEW K
  PROVE  /\ Keeping(s, K) \in Seq(S)
         /\ \E from : StaysOf(Keeping(s, K), from, Len(s), s, K)
<1>0. Len(s) \in Nat
  OBVIOUS
<1>1. PICK f : KeepsFirst(f, Len(s), s, K)
  BY <1>0, KeepingExists
<1> DEFINE stays == CHOOSE g : g = [n \in 0..Len(s) |->
                       IF n = 0 THEN <<>>
                       ELSE IF n \in K THEN Append(g[n - 1], s[n]) ELSE g[n - 1]]
<1>2. f = [n \in 0..Len(s) |-> IF n = 0 THEN <<>>
                      ELSE IF n \in K THEN Append(f[n - 1], s[n]) ELSE f[n - 1]]
  BY <1>1 DEF KeepsFirst
<1>3. stays = [n \in 0..Len(s) |-> IF n = 0 THEN <<>>
                      ELSE IF n \in K THEN Append(stays[n - 1], s[n]) ELSE stays[n - 1]]
  BY <1>2
<1>4. Keeping(s, K) = stays[Len(s)]
  BY DEF Keeping
<1> HIDE DEF stays
<1> DEFINE Right(n) == /\ stays[n] \in Seq(S)
                       /\ \E from : StaysOf(stays[n], from, n, s, K)
           T == {n \in 0..Len(s) : ~Right(n)}
<1>5. ASSUME T # {} PROVE FALSE
  <2>1. T \subseteq Nat
    OBVIOUS
  <2>2. PICK n \in T : \A m \in T : n <= m
    <3> HIDE DEF T
    <3> QED BY <1>5, <2>1, LeastNumber
  <2>3. CASE n = 0
    <3>1. stays[0] = <<>>
      BY <1>3
    <3> DEFINE none == [i \in {} |-> 0]
    <3>2. none \in [{} -> (1..0) \intersect K] /\ DOMAIN << >> = {}
      OBVIOUS
    <3>3. StaysOf(<<>>, none, 0, s, K)
      <4>1. (1..0) \intersect K = {}
        OBVIOUS
      <4> HIDE DEF none
      <4> QED BY <3>2, <4>1 DEF StaysOf
    <3>4. <<>> \in Seq(S)
      OBVIOUS
    <3>5. Right(n)
      BY <2>3, <3>1, <3>3, <3>4
    <3> QED BY <2>2, <3>5
  <2>4. CASE n # 0
    <3>1. n \in 1..Len(s) /\ n - 1 \in 0..Len(s) /\ n - 1 \notin T
      <4>1. n \in 0..Len(s) /\ ~(n <= n - 1)
        BY <1>0, <2>2
      <4> HIDE DEF T
      <4> QED BY <1>0, <2>2, <2>4, <4>1
    <3>2. Right(n - 1)
      BY <3>1
    <3>3. stays[n] = IF n \in K THEN Append(stays[n - 1], s[n]) ELSE stays[n - 1]
      BY <1>3, <2>4, <3>1
    <3>4. IF n \in K
          THEN /\ Append(stays[n - 1], s[n]) \in Seq(S)
               /\ \E from : StaysOf(Append(stays[n - 1], s[n]), from, n, s, K)
          ELSE \E from : StaysOf(stays[n - 1], from, n, s, K)
      BY <3>1, <3>2, OneMoreStays
    <3>5. Right(n)
      BY <3>2, <3>3, <3>4
    <3> QED BY <2>2, <3>5
  <2> QED BY <2>3, <2>4
<1>6. Right(Len(s))
  <2>1. Len(s) \in 0..Len(s)
    OBVIOUS
  <2> QED BY <1>5, <2>1
<1> QED BY <1>4, <1>6

------------------------------------------------------------------------------
(* Types *)

Reorder == [kind |-> "reorder"]
Reg(i) == [kind |-> "registered", id |-> i]
Unreg(i) == [kind |-> "unregistered", id |-> i]
Notice == {Reorder} \union {Reg(i) : i \in PortId} \union {Unreg(i) : i \in PortId}

LashClient == [state : {"none", "running", "lost", "gone"},
               jack_client_name : Name \union {NoName}, jack_patches : SUBSET Patch]

JackTypes ==
  /\ name \in [Program -> Name \union {NoName}]
  /\ ports \in [PortId -> Addr \union {NoPort}] /\ wires \subseteq Registered \X Registered
  /\ notices \in Seq(Notice)

LashdTypes ==
  /\ process \in [Client -> {"none", "up", "connected", "told", "stray"}]
  /\ told \in [Client -> Name \union {NoName}]
  /\ {lashd, loaded, saving} \subseteq BOOLEAN
  /\ clients \in Seq(Entry) /\ foreign_ports \subseteq [id : PortId, addr : Addr]
  /\ lash \in [Client -> LashClient]
  /\ \A c \in Client : doc[c] = NotSaved \/ doc[c] \subseteq Patch
  /\ due \subseteq Patch /\ unread \subseteq Client

TypeInv == JackTypes /\ LashdTypes

(* What the manager's entry tells of itself, but for its backup.           *)
Alike(new, old) ==
  /\ new \in Seq(Entry) /\ Len(new) = Len(old)
  /\ \A i \in DOMAIN old : /\ new[i].id = old[i].id /\ new[i].name = old[i].name
                           /\ new[i].patches = old[i].patches
                           /\ new[i].old_patches = old[i].old_patches

LEMMA ListFacts ==
  ASSUME NEW S, NEW s \in Seq(S)
  PROVE  Len(s) \in Nat /\ DOMAIN s = 1..Len(s) /\ \A i \in DOMAIN s : s[i] \in S
OBVIOUS

LEMMA FoundById ==
  ASSUME NEW list \in Seq(Entry), NEW c
  PROVE  /\ FindById(list, c) \in {0} \union DOMAIN list
         /\ FindById(list, c) # 0 => list[FindById(list, c)].id = c
         /\ FindById(list, c) = 0 => \A i \in DOMAIN list : list[i].id # c
<1> DEFINE I == {i \in 1..Len(list) : list[i].id = c}
<1>1. FindById(list, c) = IF I # {} THEN Min(I) ELSE 0
  BY DEF FindById, SelectInSeq
<1>2. I # {} => Min(I) \in I
  <2>1. I \subseteq Nat
    OBVIOUS
  <2> HIDE DEF I
  <2> QED BY <2>1, LeastNumber DEF Min
<1>3. Len(list) \in Nat /\ DOMAIN list = 1..Len(list)
  OBVIOUS
<1>4. \A i \in I : i # 0 /\ i \in DOMAIN list /\ list[i].id = c
  BY <1>3
<1>5. I = {} => \A i \in DOMAIN list : list[i].id # c
  BY <1>3
<1> HIDE DEF I
<1> QED BY <1>1, <1>2, <1>4, <1>5

LEMMA FoundByName ==
  ASSUME NEW list \in Seq(Entry), NEW n
  PROVE  /\ FindByName(list, n) \in {0} \union DOMAIN list
         /\ FindByName(list, n) # 0 => list[FindByName(list, n)].name = n
         /\ FindByName(list, n) = 0 => \A i \in DOMAIN list : list[i].name # n
<1> DEFINE I == {i \in 1..Len(list) : list[i].name = n}
<1>1. FindByName(list, n) = IF I # {} THEN Min(I) ELSE 0
  BY DEF FindByName, SelectInSeq
<1>2. I # {} => Min(I) \in I
  <2>1. I \subseteq Nat
    OBVIOUS
  <2> HIDE DEF I
  <2> QED BY <2>1, LeastNumber DEF Min
<1>3. Len(list) \in Nat /\ DOMAIN list = 1..Len(list)
  OBVIOUS
<1>4. \A i \in I : i # 0 /\ i \in DOMAIN list /\ list[i].name = n
  BY <1>3
<1>5. I = {} => \A i \in DOMAIN list : list[i].name # n
  BY <1>3
<1> HIDE DEF I
<1> QED BY <1>1, <1>2, <1>4, <1>5

LEMMA PatchesAreSet ==
  ASSUME NEW list \in Seq(Entry), NEW patches, patches \subseteq Addr \X Addr
  PROVE  SetPatches(list, patches) \subseteq Patch
<1>1. SUFFICES ASSUME NEW w \in Addr \X Addr
               PROVE  [src |-> EndOf(list, w[1]), dest |-> EndOf(list, w[2])] \in Patch
  BY DEF SetPatches
<1> DEFINE End == {ById(c, a.port) : c \in Client, a \in Addr}
                  \union {ByName(a.client, a.port) : a \in Addr}
<1>2. ASSUME NEW a \in Addr PROVE EndOf(list, a) \in End
  <2> DEFINE i == FindByName(list, a.client)
  <2>1. i \in {0} \union DOMAIN list
    BY FoundByName
  <2> HIDE DEF i
  <2>2. CASE i = 0
    BY <2>2 DEF EndOf, i
  <2>3. CASE i # 0
    <3>1. list[i] \in Entry
      BY <2>1, <2>3
    <3>2. list[i].id \in Client
      BY <3>1 DEF Entry
    <3>3. EndOf(list, a) = ById(list[i].id, a.port)
      BY <2>3 DEF EndOf, i
    <3> QED BY <3>2, <3>3
  <2> QED BY <2>2, <2>3
<1>3. w[1] \in Addr /\ w[2] \in Addr
  OBVIOUS
<1>4. EndOf(list, w[1]) \in End /\ EndOf(list, w[2]) \in End
  BY <1>2, <1>3
<1>5. Patch = [src : End, dest : End]
  BY DEF Patch
<1> HIDE DEF End
<1> QED BY <1>4, <1>5

(* jack_mgr_backup_patches renews backups only.                            *)
LEMMA BackupRenewed ==
  ASSUME NEW list \in Seq(Entry), MaybeBackup(list)
  PROVE  Alike(clients', list)
<1>1. Len(list) \in Nat /\ DOMAIN list = 1..Len(list) /\ \A i \in DOMAIN list : list[i] \in Entry
  OBVIOUS
<1>2. CASE clients' = list
  BY <1>1, <1>2 DEF Alike
<1>3. CASE clients' = Backup(list)
  <2>1. ASSUME NEW i \in DOMAIN list
        PROVE  [list[i] EXCEPT !.backup_patches = SetPatches(list, list[i].patches)] \in Entry
    <3>1. list[i] \in Entry /\ list[i].patches \subseteq Addr \X Addr
      BY <1>1 DEF Entry
    <3>2. SetPatches(list, list[i].patches) \subseteq Patch
      BY <3>1, PatchesAreSet
    <3> QED BY <3>1, <3>2 DEF Entry
  <2>2. /\ clients' = [i \in 1..Len(list) |->
               [list[i] EXCEPT !.backup_patches = SetPatches(list, list[i].patches)]]
        /\ clients' \in Seq(Entry)
    BY <1>1, <1>3, <2>1 DEF Backup
  <2>3. ASSUME NEW i \in DOMAIN list
        PROVE  /\ clients'[i].id = list[i].id /\ clients'[i].name = list[i].name
               /\ clients'[i].patches = list[i].patches
               /\ clients'[i].old_patches = list[i].old_patches
    <3>1. clients'[i] = [list[i] EXCEPT !.backup_patches = SetPatches(list, list[i].patches)]
          /\ list[i] \in Entry
      BY <1>1, <2>2
    <3> QED BY <3>1 DEF Entry
  <2>4. Len(clients') = Len(list)
    BY <1>1, <2>2
  <2> QED BY <2>2, <2>3, <2>4 DEF Alike
<1> QED BY <1>2, <1>3 DEF MaybeBackup

(* What one or more ports of the entry at i bring about, in a list in      *)
(* which that entry stands.                                                *)
Resumes(new, list, i, opened) ==
  /\ new \in Seq(Entry) /\ Len(new) = Len(list)
  /\ \A j \in DOMAIN list :
       /\ new[j].id = list[j].id /\ new[j].name = list[j].name /\ new[j].patches = list[j].patches
       /\ new[j].old_patches = IF j = i THEN list[i].old_patches \ Resumed(list, list[i], opened)
                               ELSE list[j].old_patches

LEMMA ResumedEntries ==
  ASSUME NEW list \in Seq(Entry), NEW i \in DOMAIN list, NEW opened
  PROVE  Resumes(AfterResuming(list, i, opened), list, i, opened)
<1> DEFINE left == list[i].old_patches \ Resumed(list, list[i], opened)
           e == [list[i] EXCEPT !.old_patches = left]
<1>1. Len(list) \in Nat /\ DOMAIN list = 1..Len(list) /\ \A j \in DOMAIN list : list[j] \in Entry
  OBVIOUS
<1>2. AfterResuming(list, i, opened) = [list EXCEPT ![i] = e]
  BY DEF AfterResuming
<1>3. left \subseteq Patch
  BY <1>1 DEF Entry
<1> HIDE DEF left
<1>4. /\ e \in Entry /\ e.id = list[i].id /\ e.name = list[i].name
      /\ e.patches = list[i].patches /\ e.old_patches = left
  BY <1>1, <1>3 DEF Entry
<1> HIDE DEF e
<1>5. /\ [list EXCEPT ![i] = e] \in Seq(Entry) /\ Len([list EXCEPT ![i] = e]) = Len(list)
      /\ \A j \in DOMAIN list : [list EXCEPT ![i] = e][j] = IF j = i THEN e ELSE list[j]
  BY <1>1, <1>4
<1> QED BY <1>2, <1>4, <1>5 DEF left, Resumes

LEMMA ReordersType ==
  ASSUME NEW k \in Nat
  PROVE  /\ Reorders(k) \in Seq(Notice) /\ Len(Reorders(k)) = k
         /\ Reorders(k) \in Seq({Reorder}) /\ \A i \in 1..k : Reorders(k)[i] = Reorder
<1>1. Reorders(k) = [i \in 1..k |-> Reorder]
  BY DEF Reorders, Reorder
<1>2. Reorder \in Notice
  BY DEF Notice
<1> HIDE DEF Reorder
<1> QED BY <1>1, <1>2

LEMMA RegisteredFinite ==
  ASSUME JackTypes
  PROVE  IsFiniteSet(Registered) /\ IsFiniteSet(Registered \X Registered)
         /\ Registered \subseteq Addr
<1> DEFINE T == {ports[i] : i \in PortId}
<1>1. ports \in Surjection(PortId, T)
  BY DEF JackTypes, Surjection
<1>2. IsFiniteSet(T)
  <2> HIDE DEF T
  <2> QED BY <1>1, PortsAssumption, FS_Surjection
<1>3. Registered \in SUBSET T
  BY DEF Registered
<1>4. IsFiniteSet(Registered)
  <2> HIDE DEF T
  <2> QED BY <1>2, <1>3, FS_Subset
<1>5. IsFiniteSet(Registered \X Registered)
  BY <1>4, FS_Product
<1>6. Registered \subseteq Addr
  BY DEF JackTypes, Registered
<1> QED BY <1>4, <1>5, <1>6

(* The notices of a finite set of ports.                                   *)
LEMMA SetToSeqType ==
  ASSUME NEW S, IsFiniteSet(S)
  PROVE  SetToSeq(S) \in Seq(S)
<1>1. Cardinality(S) \in Nat /\ ExistsBijection(1..Cardinality(S), S)
  BY FS_CardinalityType
<1>2. \E f \in [1..Cardinality(S) -> S] : IsInjective(f)
  BY <1>1 DEF ExistsBijection, Bijection, Injection
<1>3. SetToSeq(S) \in [1..Cardinality(S) -> S]
  BY <1>2 DEF SetToSeq
<1> QED BY <1>1, <1>3, IsASeq

(* The queue `new` is `old` with some of `added` behind.                   *)
Grown(new, old, added) ==
  /\ new \in Seq(Notice) /\ Len(new) >= Len(old)
  /\ \A k \in 1..Len(old) : new[k] = old[k]
  /\ \A k \in Len(old) + 1..Len(new) : new[k] \in added

LEMMA ConcatGrows ==
  ASSUME NEW old \in Seq(Notice), NEW added \in SUBSET Notice, NEW extra \in Seq(added)
  PROVE  Grown(old \o extra, old, added)
<1>1. /\ extra \in Seq(Notice) /\ Len(extra) \in Nat /\ Len(old) \in Nat
      /\ \A k \in 1..Len(extra) : extra[k] \in added
  OBVIOUS
<1>2. /\ old \o extra \in Seq(Notice)
      /\ Len(old \o extra) = Len(old) + Len(extra)
      /\ \A k \in 1..Len(old) + Len(extra) :
           (old \o extra)[k] = IF k <= Len(old) THEN old[k] ELSE extra[k - Len(old)]
  BY <1>1, ConcatProperties
<1>3. ASSUME NEW k \in Len(old) + 1..Len(old) + Len(extra) PROVE (old \o extra)[k] \in added
  <2>1. k \in 1..Len(old) + Len(extra) /\ ~(k <= Len(old)) /\ k - Len(old) \in 1..Len(extra)
    BY <1>1
  <2> QED BY <1>1, <1>2, <2>1
<1>4. ASSUME NEW k \in 1..Len(old) PROVE (old \o extra)[k] = old[k]
  <2>1. k \in 1..Len(old) + Len(extra) /\ k <= Len(old)
    BY <1>1
  <2> QED BY <1>2, <2>1
<1> QED BY <1>1, <1>2, <1>3, <1>4 DEF Grown

LEMMA AppendGrows ==
  ASSUME NEW old \in Seq(Notice), NEW n \in Notice
  PROVE  /\ Grown(Append(old, n), old, {n})
         /\ Len(Append(old, n)) = Len(old) + 1 /\ Append(old, n)[Len(old) + 1] = n
<1>1. /\ Len(old) \in Nat /\ Append(old, n) \in Seq(Notice)
      /\ Len(Append(old, n)) = Len(old) + 1
      /\ \A k \in 1..Len(old) : Append(old, n)[k] = old[k]
      /\ Append(old, n)[Len(old) + 1] = n
  OBVIOUS
<1> QED BY <1>1 DEF Grown

(* What is on its way about the port with a number: its registration, with *)
(* no later notice that the number is free; or no such notice at all.      *)
AnnouncedIn(s, i) ==
  \E k \in DOMAIN s : s[k] = Reg(i) /\ \A l \in DOMAIN s : l > k => s[l] # Unreg(i)
RegIn(s, i) == \E k \in DOMAIN s : s[k] = Reg(i)
NoUnreg(s, i) == \A k \in DOMAIN s : s[k] # Unreg(i)
ReorderIn(s) == \E k \in DOMAIN s : s[k] = Reorder

LEMMA NoticesDiffer ==
  ASSUME NEW i, NEW j
  PROVE  Reg(i) # Unreg(j) /\ Reg(i) # Reorder /\ Unreg(i) # Reorder
         /\ (Reg(i) = Reg(j) => i = j) /\ (Unreg(i) = Unreg(j) => i = j)
<1>1. Reg(i).kind = "registered" /\ Unreg(j).kind = "unregistered" /\ Reorder.kind = "reorder"
      /\ Unreg(i).kind = "unregistered"
      /\ Reg(i).id = i /\ Reg(j).id = j /\ Unreg(i).id = i /\ Unreg(j).id = j
  BY DEF Reg, Unreg, Reorder
<1> QED BY <1>1

LEMMA GrownKeeps ==
  ASSUME NEW old \in Seq(Notice), NEW new, NEW added, Grown(new, old, added), NEW i
  PROVE  /\ RegIn(old, i) => RegIn(new, i)
         /\ ReorderIn(old) => ReorderIn(new)
         /\ Unreg(i) \notin added =>
              (AnnouncedIn(old, i) => AnnouncedIn(new, i)) /\ (NoUnreg(old, i) => NoUnreg(new, i))
<1>1. /\ Len(old) \in Nat /\ DOMAIN old = 1..Len(old)
      /\ Len(new) \in Nat /\ DOMAIN new = 1..Len(new) /\ Len(new) >= Len(old)
      /\ \A k \in 1..Len(old) : new[k] = old[k]
      /\ \A k \in Len(old) + 1..Len(new) : new[k] \in added
  BY DEF Grown
<1>2. \A k \in DOMAIN old : k \in DOMAIN new /\ new[k] = old[k]
  BY <1>1
<1>3. \A k \in DOMAIN new : k \in DOMAIN old \/ new[k] \in added
  BY <1>1
<1>4. /\ RegIn(old, i) => RegIn(new, i)
      /\ ReorderIn(old) => ReorderIn(new)
  BY <1>2 DEF RegIn, ReorderIn
<1>5. ASSUME Unreg(i) \notin added
      PROVE  (AnnouncedIn(old, i) => AnnouncedIn(new, i)) /\ (NoUnreg(old, i) => NoUnreg(new, i))
  BY <1>2, <1>3, <1>5 DEF AnnouncedIn, NoUnreg
<1> QED BY <1>4, <1>5

LEMMA TailKeeps ==
  ASSUME NEW s \in Seq(Notice), s # <<>>, NEW i
  PROVE  /\ Tail(s) \in Seq(Notice)
         /\ RegIn(s, i) => RegIn(Tail(s), i) \/ Head(s) = Reg(i)
         /\ ReorderIn(s) => ReorderIn(Tail(s)) \/ Head(s) = Reorder
         /\ AnnouncedIn(s, i) => \/ AnnouncedIn(Tail(s), i)
                                 \/ Head(s) = Reg(i) /\ NoUnreg(Tail(s), i)
         /\ NoUnreg(s, i) => NoUnreg(Tail(s), i) /\ Head(s) # Unreg(i)
<1>1. /\ Len(s) \in Nat /\ Len(s) # 0 /\ DOMAIN s = 1..Len(s) /\ Head(s) = s[1]
      /\ Tail(s) \in Seq(Notice) /\ Len(Tail(s)) = Len(s) - 1 /\ DOMAIN Tail(s) = 1..Len(s) - 1
      /\ \A k \in 1..Len(s) - 1 : Tail(s)[k] = s[k + 1]
  OBVIOUS
<1> DEFINE t == Tail(s)
<1> HIDE DEF t
<1>2. \A k \in DOMAIN t : k + 1 \in DOMAIN s /\ t[k] = s[k + 1]
  BY <1>1 DEF t
<1>3. \A k \in DOMAIN s : k = 1 \/ (k - 1 \in DOMAIN t /\ t[k - 1] = s[k])
  <2>1. ASSUME NEW k \in DOMAIN s, k # 1 PROVE k - 1 \in DOMAIN t /\ t[k - 1] = s[k]
    <3>1. k - 1 \in 1..Len(s) - 1 /\ k - 1 + 1 = k
      BY <1>1, <2>1
    <3> QED BY <1>1, <3>1 DEF t
  <2> QED BY <2>1
<1>4. RegIn(s, i) => RegIn(t, i) \/ Head(s) = Reg(i)
  BY <1>1, <1>3 DEF RegIn
<1>5. ReorderIn(s) => ReorderIn(t) \/ Head(s) = Reorder
  BY <1>1, <1>3 DEF ReorderIn
<1>6. NoUnreg(s, i) => NoUnreg(t, i) /\ Head(s) # Unreg(i)
  BY <1>1, <1>2 DEF NoUnreg
<1>7. ASSUME AnnouncedIn(s, i)
      PROVE  AnnouncedIn(t, i) \/ (Head(s) = Reg(i) /\ NoUnreg(t, i))
  <2>1. PICK k \in DOMAIN s : s[k] = Reg(i) /\ \A l \in DOMAIN s : l > k => s[l] # Unreg(i)
    BY <1>7 DEF AnnouncedIn
  <2>2. \A l \in DOMAIN t : l + 1 > k => t[l] # Unreg(i)
    BY <1>2, <2>1
  <2>3. CASE k = 1
    <3>1. \A l \in DOMAIN t : l + 1 > 1
      BY <1>1 DEF t
    <3> QED BY <1>1, <2>1, <2>2, <2>3, <3>1 DEF NoUnreg
  <2>4. CASE k # 1
    <3>1. k - 1 \in DOMAIN t /\ t[k - 1] = Reg(i)
      BY <1>3, <2>1, <2>4
    <3>2. \A l \in DOMAIN t : l > k - 1 => l + 1 > k
      BY <1>1 DEF t
    <3> QED BY <2>2, <3>1, <3>2 DEF AnnouncedIn
  <2> QED BY <2>3, <2>4
<1> QED BY <1>1, <1>4, <1>5, <1>6, <1>7 DEF t

------------------------------------------------------------------------------
(* Resuming patches *)

LEMMA ResumedTypes ==
  ASSUME JackTypes, NEW list \in Seq(Entry), NEW i \in DOMAIN list, NEW opened,
         NEW waiting \in Seq(Notice), ResumePorts(list, i, opened, waiting)
  PROVE  /\ wires \subseteq wires' /\ wires' \subseteq Registered \X Registered
         /\ Grown(notices', waiting, {Reorder})
         /\ wires' # wires => ReorderIn(notices')
         /\ due' \subseteq due
<1> DEFINE made == {Unset(list, p) : p \in Resumed(list, list[i], opened)}
           k == Cardinality(made)
<1>1. /\ wires' = wires \union made /\ notices' = waiting \o Reorders(k)
      /\ due' = due \ GivenUp(list, list[i], opened)
  BY DEF ResumePorts
<1>2. made \subseteq Registered \X Registered
  <2>1. ASSUME NEW p \in Resumed(list, list[i], opened)
        PROVE  Unset(list, p) \in Registered \X Registered
    <3>1. CanConnect(Unset(list, p))
      BY DEF Resumed
    <3> QED BY <3>1 DEF CanConnect, Unset
  <2> QED BY <2>1
<1>3. IsFiniteSet(made)
  <2>1. made \in SUBSET (Registered \X Registered)
    BY <1>2
  <2> HIDE DEF made
  <2> QED BY <2>1, RegisteredFinite, FS_Subset
<1> HIDE DEF made
<1>4. k \in Nat /\ (k = 0 <=> made = {})
  BY <1>3, FS_CardinalityType, FS_EmptySet
<1> HIDE DEF k
<1>5. /\ Len(Reorders(k)) = k /\ \A j \in 1..k : Reorders(k)[j] = Reorder
      /\ Reorders(k) \in Seq(Notice)
  BY <1>4, ReordersType
<1>6. Reorders(k) \in Seq({Reorder}) /\ {Reorder} \in SUBSET Notice
  BY <1>5 DEF Notice
<1>7. Grown(notices', waiting, {Reorder})
  BY <1>1, <1>6, ConcatGrows
<1>8. ASSUME wires' # wires PROVE ReorderIn(notices')
  <2>1. k # 0
    BY <1>1, <1>4, <1>8
  <2>2. /\ waiting \o Reorders(k) \in Seq(Notice)
        /\ Len(waiting \o Reorders(k)) = Len(waiting) + k
    BY <1>5, ConcatProperties
  <2>3. Len(waiting) \in Nat
    OBVIOUS
  <2>4. Len(waiting) + 1 \in Len(waiting) + 1..Len(notices') /\ Len(waiting) + 1 \in DOMAIN notices'
    BY <1>1, <1>4, <2>1, <2>2, <2>3
  <2> QED BY <1>7, <2>4 DEF Grown, ReorderIn
<1>9. wires \subseteq Registered \X Registered
  BY DEF JackTypes
<1> QED BY <1>1, <1>2, <1>7, <1>8, <1>9

(* A patch that is still due was spent on the connection it means.         *)
LEMMA SpentIsMade ==
  ASSUME NEW list, NEW i, NEW opened, NEW waiting, ResumePorts(list, i, opened, waiting),
         NEW p \in due', p \in Resumed(list, list[i], opened)
  PROVE  /\ Meant(p) \in wires'
         /\ Meant(p)[1] \in Registered /\ Meant(p)[2] \in Registered
<1>1. /\ p \in due /\ p \notin GivenUp(list, list[i], opened)
      /\ wires' = wires \union {Unset(list, q) : q \in Resumed(list, list[i], opened)}
  BY DEF ResumePorts
<1>2. Unset(list, p) = Meant(p)
  BY <1>1 DEF GivenUp, Misspent
<1>3. CanConnect(Unset(list, p))
  BY DEF Resumed
<1> QED BY <1>1, <1>2, <1>3 DEF CanConnect

UniqueIn(list) == \A i, j \in DOMAIN list : list[i].id = list[j].id => i = j
Ends(p) == {p.src, p.dest}
NamesIn(list, i, c) == list[i].id = c /\ list[i].name = name[c]
BothById(p) == \A end \in Ends(p) : end.kind = "id" /\ end.of \in Client

LEMMA UnsetMeans ==
  ASSUME NEW list \in Seq(Entry), UniqueIn(list), NEW p, BothById(p),
         NEW i \in DOMAIN list, NEW j \in DOMAIN list,
         NamesIn(list, i, p.src.of), NamesIn(list, j, p.dest.of)
  PROVE  Unset(list, p) = Meant(p)
<1>1. ASSUME NEW end \in Ends(p), NEW k \in DOMAIN list, NamesIn(list, k, end.of)
      PROVE  AddrOf(list, end) = At(name[end.of], end.port)
  <2> DEFINE f == FindById(list, end.of)
  <2>1. f \in {0} \union DOMAIN list /\ (f # 0 => list[f].id = end.of)
        /\ (f = 0 => \A l \in DOMAIN list : list[l].id # end.of)
    BY FoundById
  <2>2. f # 0 /\ f = k
    BY <1>1, <2>1 DEF NamesIn, UniqueIn
  <2>3. Holder(list, end.of) = list[k]
    BY <2>2 DEF Holder
  <2>4. end.kind # "name"
    BY DEF BothById
  <2> QED BY <1>1, <2>3, <2>4 DEF AddrOf, NamesIn
<1>2. p.src \in Ends(p) /\ p.dest \in Ends(p)
  BY DEF Ends
<1>3. AddrOf(list, p.src) = At(name[p.src.of], p.src.port)
  BY <1>1, <1>2
<1>4. AddrOf(list, p.dest) = At(name[p.dest.of], p.dest.port)
  BY <1>1, <1>2
<1> QED BY <1>3, <1>4 DEF Unset, Meant

(* The port that a patch waits for makes its connection, if the other end  *)
(* is there.                                                               *)
LEMMA OpenedIsMade ==
  ASSUME NEW list \in Seq(Entry), UniqueIn(list), NEW k \in DOMAIN list, NEW opened,
         NEW waiting, ResumePorts(list, k, opened, waiting),
         NEW p, BothById(p), p \in list[k].old_patches,
         NEW i \in DOMAIN list, NEW j \in DOMAIN list,
         NamesIn(list, i, p.src.of), NamesIn(list, j, p.dest.of),
         Meant(p)[1] \in Registered, Meant(p)[2] \in Registered,
         \/ k = i /\ p.src.port \in opened
         \/ k = j /\ p.dest.port \in opened
  PROVE  Meant(p) \in wires'
<1> DEFINE e == list[k]
           able == {q \in e.old_patches : /\ Touches(Unset(list, q), e.name, opened)
                                          /\ CanConnect(Unset(list, q))}
<1>1. wires' = wires \union {Unset(list, q) : q \in Resumed(list, e, opened)}
  BY DEF ResumePorts
<1>2. Unset(list, p) = Meant(p)
  BY UnsetMeans
<1>3. SUFFICES ASSUME Meant(p) \notin wires
               PROVE  \E q \in Resumed(list, e, opened) : Unset(list, q) = Meant(p)
  BY <1>1
<1>4. p \in able
  <2>1. Meant(p)[1].client = name[p.src.of] /\ Meant(p)[1].port = p.src.port
        /\ Meant(p)[2].client = name[p.dest.of] /\ Meant(p)[2].port = p.dest.port
    BY DEF Meant, At
  <2>2. Touches(Meant(p), e.name, opened)
    BY <2>1 DEF Touches, NamesIn
  <2>3. CanConnect(Meant(p))
    BY <1>3 DEF CanConnect
  <2> QED BY <1>2, <2>2, <2>3
<1> DEFINE r == CHOOSE q \in able : Unset(list, q) = Unset(list, p)
<1>5. r \in able /\ Unset(list, r) = Unset(list, p)
  <2> HIDE DEF able
  <2> QED BY <1>4
<1>6. Resumed(list, e, opened) = {q \in able : q = CHOOSE s \in able : Unset(list, s) = Unset(list, q)}
  BY DEF Resumed
<1>7. r = CHOOSE s \in able : Unset(list, s) = Unset(list, r)
  <2> HIDE DEF able
  <2> QED BY <1>5
<1> HIDE DEF able, r
<1> QED BY <1>2, <1>5, <1>6, <1>7

------------------------------------------------------------------------------
(* Every step keeps the types *)

LEMMA RegisteredAddr ==
  ASSUME JackTypes, NEW x \in Program, NEW p \in PortsOf[x], name[x] # NoName
  PROVE  At(name[x], p) \in Addr
<1>1. name[x] \in Name
  BY DEF JackTypes
<1>2. p \in UNION {PortsOf[y] : y \in Program}
  OBVIOUS
<1> QED BY <1>1, <1>2 DEF At, Addr

LEMMA FreeIdIsFree ==
  ASSUME NEW i \in PortId, ports[i] = NoPort
  PROVE  FreeId \in PortId /\ ports[FreeId] = NoPort
<1> DEFINE T == {j \in PortId : ports[j] = NoPort}
<1>1. T # {} /\ T \subseteq Nat
  BY JackAssumption
<1>2. \E j \in T : \A m \in T : j <= m
  <2> HIDE DEF T
  <2> QED BY <1>1, LeastNumber
<1> QED BY <1>2 DEF FreeId

LEMMA OpenClientTypes ==
  ASSUME TypeInv, NEW x \in Program, OpenClient(x)
  PROVE  JackTypes'
<1>1. PICK n \in Name : name' = [name EXCEPT ![x] = n]
  BY DEF OpenClient
<1>2. name' \in [Program -> Name \union {NoName}]
  BY <1>1 DEF TypeInv, JackTypes
<1> QED BY <1>2 DEF OpenClient, TypeInv, JackTypes, Registered

LEMMA RegisterPortTypes ==
  ASSUME TypeInv, NEW x \in Program, NEW p \in PortsOf[x], RegisterPort(x, p)
  PROVE  /\ JackTypes'
         /\ FreeId \in PortId /\ ports[FreeId] = NoPort
         /\ ports' = [ports EXCEPT ![FreeId] = At(name[x], p)]
         /\ notices' = Append(notices, Reg(FreeId)) /\ Reg(FreeId) \in Notice
<1> DEFINE a == At(name[x], p)
<1>1. /\ FreeId \in PortId /\ ports[FreeId] = NoPort
  BY FreeIdIsFree DEF RegisterPort
<1>2. /\ ports' = [ports EXCEPT ![FreeId] = a] /\ notices' = Append(notices, Reg(FreeId))
      /\ wires' = wires /\ name' = name
  BY DEF RegisterPort, Reg
<1>3. a \in Addr
  BY RegisteredAddr DEF RegisterPort, TypeInv
<1>4. Reg(FreeId) \in Notice
  BY <1>1 DEF Notice
<1> HIDE DEF a
<1>5. ports' \in [PortId -> Addr \union {NoPort}]
  BY <1>2, <1>3 DEF TypeInv, JackTypes
<1>6. Registered \subseteq Registered'
  BY <1>1, <1>2 DEF Registered, TypeInv, JackTypes
<1>7. notices' \in Seq(Notice)
  BY <1>2, <1>4 DEF TypeInv, JackTypes
<1>8. JackTypes'
  BY <1>2, <1>5, <1>6, <1>7 DEF TypeInv, JackTypes
<1> QED BY <1>1, <1>2, <1>4, <1>8 DEF a

LEMMA OneReorder ==
  ASSUME NEW s \in Seq(Notice)
  PROVE  Grown(s \o Reorders(1), s, {Reorder}) /\ ReorderIn(s \o Reorders(1))
<1> DEFINE r == Reorders(1)
           added == {Reorder}
<1>1. r \in Seq(Notice) /\ Len(r) = 1 /\ r \in Seq(added) /\ added \in SUBSET Notice
  BY ReordersType DEF Notice
<1> HIDE DEF r, added
<1>2. Grown(s \o r, s, added)
  BY <1>1, ConcatGrows
<1>3. Len(s \o r) = Len(s) + 1 /\ s \o r \in Seq(Notice) /\ Len(s) \in Nat
  BY <1>1, ConcatProperties
<1>4. Len(s) + 1 \in DOMAIN (s \o r) /\ (s \o r)[Len(s) + 1] \in added
  BY <1>2, <1>3 DEF Grown
<1>5. ReorderIn(s \o r)
  BY <1>4 DEF ReorderIn, added
<1> QED BY <1>2, <1>5 DEF r, added

LEMMA UserConnectsTypes ==
  ASSUME TypeInv, NEW w \in Wire, UserConnects(w)
  PROVE  JackTypes' /\ Grown(notices', notices, {Reorder}) /\ ReorderIn(notices')
<1>1. /\ wires' = wires \union {WireOf(w)} /\ CanConnect(WireOf(w))
      /\ notices' = notices \o Reorders(1) /\ ports' = ports /\ name' = name
  BY DEF UserConnects
<1>2. WireOf(w) \in Registered \X Registered
  BY <1>1 DEF CanConnect, WireOf
<1>3. wires' \subseteq Registered \X Registered
  BY <1>1, <1>2 DEF TypeInv, JackTypes
<1>4. Grown(notices', notices, {Reorder}) /\ ReorderIn(notices')
  BY <1>1, OneReorder DEF TypeInv, JackTypes
<1> QED BY <1>1, <1>3, <1>4 DEF TypeInv, JackTypes, Registered, Grown

LEMMA UserDisconnectsTypes ==
  ASSUME TypeInv, NEW w \in wires, UserDisconnects(w)
  PROVE  JackTypes' /\ Grown(notices', notices, {Reorder}) /\ ReorderIn(notices')
<1>1. /\ wires' = wires \ {w} /\ notices' = notices \o Reorders(1) /\ ports' = ports /\ name' = name
  BY DEF UserDisconnects
<1>2. Grown(notices', notices, {Reorder}) /\ ReorderIn(notices')
  BY <1>1, OneReorder DEF TypeInv, JackTypes
<1> QED BY <1>1, <1>2 DEF TypeInv, JackTypes, Registered, Grown

(* The ports that go with a program.                                       *)
Gone(x) == {i \in PortId : ports[i] # NoPort /\ ports[i].client = name[x]}

LEMMA ExitTypes ==
  ASSUME TypeInv, NEW x \in Program, Exit(x)
  PROVE  /\ JackTypes'
         /\ Grown(notices', notices, {Reorder} \union {Unreg(i) : i \in Gone(x)})
         /\ name[x] # NoName => ReorderIn(notices')
         /\ name' = [name EXCEPT ![x] = NoName]
         /\ ports' = [i \in PortId |-> IF i \in Gone(x) THEN NoPort ELSE ports[i]]
         /\ wires' = {w \in wires : name[x] \notin {w[1].client, w[2].client}}
<1> DEFINE U == {Unreg(i) : i \in Gone(x)}
           middle == notices \o SetToSeq(U)
           added == {Reorder} \union U
<1>1. /\ name' = [name EXCEPT ![x] = NoName]
      /\ ports' = [i \in PortId |-> IF i \in Gone(x) THEN NoPort ELSE ports[i]]
      /\ wires' = {w \in wires : name[x] \notin {w[1].client, w[2].client}}
      /\ notices' = middle \o (IF name[x] = NoName THEN <<>> ELSE Reorders(1))
  BY DEF Exit, Gone, Unreg
<1>2. U \subseteq Notice /\ Reorder \in Notice /\ added \subseteq Notice
  BY DEF Notice, Gone
<1>3. IsFiniteSet(U)
  <2>1. Gone(x) \in SUBSET PortId
    BY DEF Gone
  <2>2. IsFiniteSet(Gone(x))
    BY <2>1, PortsAssumption, FS_Subset
  <2> DEFINE f == [i \in Gone(x) |-> Unreg(i)]
  <2>3. f \in Surjection(Gone(x), U)
    BY DEF Surjection
  <2> HIDE DEF f, U
  <2> QED BY <2>2, <2>3, FS_Surjection
<1> HIDE DEF U
<1>4. Grown(middle, notices, U)
  <2>1. SetToSeq(U) \in Seq(U) /\ U \in SUBSET Notice /\ notices \in Seq(Notice)
    BY <1>2, <1>3, SetToSeqType DEF TypeInv, JackTypes
  <2> QED BY <2>1, ConcatGrows
<1>5. middle \in Seq(Notice)
  BY <1>4 DEF Grown
<1> HIDE DEF middle
<1>6. Grown(notices', middle, {Reorder}) /\ (name[x] # NoName => ReorderIn(notices'))
  <2>1. CASE name[x] = NoName
    <3>1. notices' = middle
      BY <1>1, <1>5, <2>1
    <3> QED BY <1>5, <2>1, <3>1 DEF Grown
  <2>2. CASE name[x] # NoName
    <3>1. notices' = middle \o Reorders(1)
      BY <1>1, <2>2
    <3> QED BY <1>5, <3>1, OneReorder
  <2> QED BY <2>1, <2>2
<1>7. Grown(notices', notices, added)
  <2>1. /\ notices' \in Seq(Notice) /\ Len(notices') \in Nat /\ Len(middle) \in Nat /\ Len(notices) \in Nat
        /\ Len(notices') >= Len(middle) /\ Len(middle) >= Len(notices)
    BY <1>4, <1>5, <1>6 DEF Grown, TypeInv, JackTypes
  <2>2. \A k \in 1..Len(notices) : notices'[k] = notices[k]
    BY <1>4, <1>6, <2>1 DEF Grown
  <2>3. ASSUME NEW k \in Len(notices) + 1..Len(notices') PROVE notices'[k] \in added
    <3>1. k \in 1..Len(middle) \/ k \in Len(middle) + 1..Len(notices')
      BY <2>1
    <3>2. CASE k \in 1..Len(middle)
      <4>1. k \in Len(notices) + 1..Len(middle) /\ notices'[k] = middle[k]
        BY <1>6, <2>1, <3>2 DEF Grown
      <4> QED BY <1>4, <4>1 DEF Grown
    <3>3. CASE k \in Len(middle) + 1..Len(notices')
      BY <1>6, <3>3 DEF Grown
    <3> QED BY <3>1, <3>2, <3>3
  <2> QED BY <2>1, <2>2, <2>3 DEF Grown
<1>8. JackTypes'
  <2>1. name' \in [Program -> Name \union {NoName}]
    BY <1>1 DEF TypeInv, JackTypes
  <2>2. ports' \in [PortId -> Addr \union {NoPort}]
    BY <1>1 DEF TypeInv, JackTypes
  <2>3. ASSUME NEW a \in Registered, a.client # name[x] PROVE a \in Registered'
    <3>1. PICK i \in PortId : ports[i] = a /\ a # NoPort
      BY DEF Registered
    <3>2. i \notin Gone(x)
      BY <2>3, <3>1 DEF Gone
    <3>3. ports'[i] = a
      BY <1>1, <3>1, <3>2
    <3> QED BY <3>1, <3>3 DEF Registered
  <2>4. wires' \subseteq Registered' \X Registered'
    <3>1. SUFFICES ASSUME NEW w \in wires' PROVE w \in Registered' \X Registered'
      OBVIOUS
    <3>2. /\ w \in Registered \X Registered
          /\ w[1].client # name[x] /\ w[2].client # name[x]
      BY <1>1, <3>1 DEF TypeInv, JackTypes
    <3>3. w[1] \in Registered' /\ w[2] \in Registered'
      BY <2>3, <3>2
    <3> QED BY <3>2, <3>3
  <2>5. notices' \in Seq(Notice)
    BY <1>7 DEF Grown
  <2> QED BY <2>1, <2>2, <2>4, <2>5 DEF JackTypes
<1> QED BY <1>1, <1>6, <1>7, <1>8 DEF U

(* The environment leaves the manager's data alone.                        *)
LEMMA EnvironmentTypes ==
  ASSUME TypeInv, Environment
  PROVE  TypeInv'
<1> USE DEF TypeInv, LashdTypes
<1>1. ASSUME NEW x \in Program, OpenClient(x) PROVE TypeInv'
  <2>1. JackTypes'
    BY <1>1, OpenClientTypes
  <2> QED BY <1>1, <2>1 DEF OpenClient, ExternalStep, processVars, mgrVars, projectVars
<1>2. ASSUME NEW x \in Program, Exit(x) PROVE TypeInv'
  <2>1. JackTypes'
    BY <1>2, ExitTypes
  <2>2. process' \in [Client -> {"none", "up", "connected", "told", "stray"}]
    BY <1>2 DEF Exit
  <2> QED BY <1>2, <2>1, <2>2 DEF Exit, ExternalStep, mgrVars, projectVars
<1>3. ASSUME NEW x \in Program, NEW p \in PortsOf[x], RegisterPort(x, p) PROVE TypeInv'
  <2>1. JackTypes'
    BY <1>3, RegisterPortTypes
  <2> QED BY <1>3, <2>1 DEF RegisterPort, ExternalStep, processVars, mgrVars, projectVars
<1>4. ASSUME NEW w \in Wire, UserConnects(w) PROVE TypeInv'
  <2>1. JackTypes'
    BY <1>4, UserConnectsTypes
  <2> QED BY <1>4, <2>1 DEF UserConnects, ExternalStep, processVars, mgrVars, projectVars
<1>5. ASSUME NEW w \in wires, UserDisconnects(w) PROVE TypeInv'
  <2>1. JackTypes'
    BY <1>5, UserDisconnectsTypes
  <2>2. due' \subseteq due
    BY <1>5 DEF UserDisconnects
  <2> QED BY <1>5, <2>1, <2>2 DEF UserDisconnects, ExternalStep, processVars, mgrVars, projectVars
<1>6. ASSUME NEW c \in Client, Start(c) PROVE TypeInv'
  <2>1. process' \in [Client -> {"none", "up", "connected", "told", "stray"}]
    BY <1>6 DEF Start
  <2> QED BY <1>6, <2>1 DEF Start, ExternalStep, jackVars, mgrVars, projectVars, JackTypes, Registered
<1>7. ASSUME NEW c \in Client, TellName(c) PROVE TypeInv'
  <2>1. process' \in [Client -> {"none", "up", "connected", "told", "stray"}]
    BY <1>7 DEF TellName
  <2>2. c \in Program /\ name[c] \in Name \union {NoName}
    BY DEF JackTypes, Program
  <2>3. told' \in [Client -> Name \union {NoName}]
    BY <1>7, <2>2 DEF TellName
  <2> QED BY <1>7, <2>1, <2>3 DEF TellName, ExternalStep, jackVars, mgrVars, projectVars, JackTypes, Registered
<1> QED BY <1>1, <1>2, <1>3, <1>4, <1>5, <1>6, <1>7 DEF Environment

(* The thread's work with the list that a notice leaves.                   *)
LEMMA ResumedStep ==
  ASSUME TypeInv, NEW list \in Seq(Entry), NEW i \in DOMAIN list, NEW opened,
         NEW waiting \in Seq(Notice), ResumePorts(list, i, opened, waiting),
         name' = name, ports' = ports
  PROVE  JackTypes' /\ due' \subseteq Patch
<1>1. /\ wires' \subseteq Registered \X Registered /\ Grown(notices', waiting, {Reorder})
      /\ due' \subseteq due
  BY ResumedTypes DEF TypeInv
<1> QED BY <1>1 DEF TypeInv, JackTypes, LashdTypes, Registered, Grown

LEMMA HeadKinds ==
  ASSUME TypeInv, notices # <<>>
  PROVE  /\ Head(notices) \in Notice
         /\ Head(notices).kind = "registered" => Head(notices).id \in PortId /\ Head(notices) = Reg(Head(notices).id)
         /\ Head(notices).kind = "unregistered" => Head(notices).id \in PortId /\ Head(notices) = Unreg(Head(notices).id)
         /\ Head(notices).kind = "reorder" => Head(notices) = Reorder
         /\ Tail(notices) \in Seq(Notice)
<1>1. Head(notices) \in Notice /\ Tail(notices) \in Seq(Notice)
  BY HeadTailProperties DEF TypeInv, JackTypes
<1> DEFINE h == Head(notices)
<1> HIDE DEF h
<1>2. h = Reorder \/ (\E i \in PortId : h = Reg(i)) \/ (\E i \in PortId : h = Unreg(i))
  BY <1>1 DEF Notice, h
<1>3. ASSUME NEW i \in PortId, h = Reg(i) PROVE h.kind = "registered" /\ h.id = i
  BY <1>3 DEF Reg
<1>4. ASSUME NEW i \in PortId, h = Unreg(i) PROVE h.kind = "unregistered" /\ h.id = i
  BY <1>4 DEF Unreg
<1>5. h = Reorder => h.kind = "reorder"
  BY DEF Reorder
<1> QED BY <1>1, <1>2, <1>3, <1>4, <1>5 DEF h

(* The list of clients as jack_mgr_get_patches leaves it.                  *)
Read == [i \in DOMAIN clients |-> GetPatches(clients[i])]

LEMMA ReadEntries ==
  ASSUME TypeInv
  PROVE  /\ Read \in Seq(Entry) /\ Len(Read) = Len(clients)
         /\ \A i \in DOMAIN clients :
              /\ Read[i].id = clients[i].id /\ Read[i].name = clients[i].name
              /\ Read[i].patches = WiresOf(clients[i].name)
              /\ Read[i].old_patches = clients[i].old_patches
<1>1. Len(clients) \in Nat /\ DOMAIN clients = 1..Len(clients) /\ \A i \in DOMAIN clients : clients[i] \in Entry
  BY DEF TypeInv, LashdTypes
<1>2. \A n : WiresOf(n) \subseteq Addr \X Addr
  BY RegisteredFinite DEF TypeInv, JackTypes, WiresOf
<1>3. ASSUME NEW i \in DOMAIN clients
      PROVE  /\ Read[i] \in Entry /\ Read[i].id = clients[i].id /\ Read[i].name = clients[i].name
             /\ Read[i].patches = WiresOf(clients[i].name)
             /\ Read[i].old_patches = clients[i].old_patches
  <2>1. Read[i] = [clients[i] EXCEPT !.patches = WiresOf(clients[i].name)] /\ clients[i] \in Entry
    BY <1>1 DEF Read, GetPatches
  <2> QED BY <1>2, <2>1 DEF Entry
<1>4. DOMAIN Read = 1..Len(clients) /\ Read = [i \in 1..Len(clients) |-> Read[i]]
  BY <1>1 DEF Read
<1> HIDE DEF Read
<1>5. Read \in Seq(Entry) /\ Len(Read) = Len(clients)
  BY <1>1, <1>3, <1>4
<1> QED BY <1>3, <1>5

LEMMA ThreadTypes ==
  ASSUME TypeInv, Thread
  PROVE  TypeInv'
<1>1. clients \in Seq(Entry)
  BY DEF TypeInv, LashdTypes
<1>2. CASE ReadCallback
  <2>0. /\ notices # <<>>
        /\ UNCHANGED <<name, ports, process, told, ends, lashd, lash, loaded, saving, doc>>
    BY <1>2 DEF ReadCallback, processVars, projectVars
  <2>1. ASSUME NEW id \in PortId, PortNotification(id) PROVE TypeInv'
    <3> DEFINE addr == ports[id]
               i == IF addr = NoPort THEN 0 ELSE FindByName(clients, addr.client)
    <3>1. i \in {0} \union DOMAIN clients
      BY <1>1, FoundByName
    <3>2. CASE i # 0
      <4>1. /\ ResumePorts(clients, i, {addr.port}, Tail(notices))
            /\ MaybeBackup(AfterResuming(clients, i, {addr.port}))
            /\ UNCHANGED <<foreign_ports, unread>>
        BY <2>1, <3>2 DEF PortNotification
      <4> HIDE DEF i
      <4>2. i \in DOMAIN clients /\ Tail(notices) \in Seq(Notice)
        BY <2>0, <3>1, <3>2, HeadKinds
      <4>3. JackTypes' /\ due' \subseteq Patch
        BY <1>1, <2>0, <4>1, <4>2, ResumedStep
      <4>4. clients' \in Seq(Entry)
        BY <1>1, <4>1, <4>2, ResumedEntries, BackupRenewed DEF Alike, Resumes
      <4> QED BY <2>0, <4>1, <4>3, <4>4 DEF TypeInv, LashdTypes
    <3>3. CASE i = 0
      <4>1. /\ foreign_ports' = foreign_ports \union
                   (IF addr = NoPort THEN {} ELSE {[id |-> id, addr |-> addr]})
            /\ notices' = Tail(notices) /\ MaybeBackup(clients)
            /\ UNCHANGED <<wires, due, unread>>
        BY <2>1, <3>3 DEF PortNotification
      <4>2. clients' \in Seq(Entry) /\ Tail(notices) \in Seq(Notice)
        BY <1>1, <2>0, <4>1, BackupRenewed, HeadKinds DEF Alike
      <4>3. addr # NoPort => [id |-> id, addr |-> addr] \in [id : PortId, addr : Addr]
        BY DEF TypeInv, JackTypes
      <4> QED BY <2>0, <4>1, <4>2, <4>3 DEF TypeInv, LashdTypes, JackTypes, Registered
    <3> QED BY <3>2, <3>3
  <2>2. ASSUME NEW id, RemoveForeignPort(id) PROVE TypeInv'
    <3>1. clients' \in Seq(Entry) /\ Tail(notices) \in Seq(Notice)
      BY <1>1, <2>0, <2>2, BackupRenewed, HeadKinds DEF Alike, RemoveForeignPort
    <3>2. foreign_ports' \subseteq foreign_ports
      BY <2>2 DEF RemoveForeignPort
    <3> QED BY <2>0, <2>2, <3>1, <3>2 DEF TypeInv, LashdTypes, JackTypes, Registered, RemoveForeignPort
  <2>3. ASSUME GraphReorder PROVE TypeInv'
    <3>1. Read \in Seq(Entry) /\ MaybeBackup(Read)
      BY <2>3, ReadEntries DEF GraphReorder, Read
    <3>2. clients' \in Seq(Entry) /\ Tail(notices) \in Seq(Notice)
      BY <2>0, <3>1, BackupRenewed, HeadKinds DEF Alike
    <3>3. foreign_ports' \subseteq foreign_ports /\ unread' = {}
      BY <2>3 DEF GraphReorder
    <3> QED BY <2>0, <2>3, <3>2, <3>3 DEF TypeInv, LashdTypes, JackTypes, Registered, GraphReorder
  <2> QED BY <1>2, <2>0, <2>1, <2>2, <2>3, HeadKinds DEF ReadCallback
<1>3. CASE BackupTimeout
  <2>1. MaybeBackup(clients)
    BY <1>3 DEF BackupTimeout, MaybeBackup
  <2>2. clients' \in Seq(Entry)
    BY <1>1, <2>1, BackupRenewed DEF Alike
  <2> QED BY <1>3, <2>2 DEF BackupTimeout, jackVars, processVars, projectVars, TypeInv, LashdTypes, JackTypes, Registered
<1> QED BY <1>2, <1>3 DEF Thread

(* The list with a client's new entry.                                     *)
Added(c) == Append(clients, NewEntry(c, told[c], lash[c].jack_patches))

LEMMA AddedEntries ==
  ASSUME TypeInv, NEW c \in Client, told[c] # NoName
  PROVE  /\ Added(c) \in Seq(Entry) /\ Len(Added(c)) = Len(clients) + 1
         /\ Len(Added(c)) \in DOMAIN Added(c) /\ Len(clients) \in Nat
         /\ DOMAIN Added(c) = 1..Len(clients) + 1 /\ DOMAIN clients = 1..Len(clients)
         /\ \A i \in DOMAIN clients : Added(c)[i] = clients[i]
         /\ Added(c)[Len(Added(c))].id = c /\ Added(c)[Len(Added(c))].name = told[c]
         /\ Added(c)[Len(Added(c))].old_patches = lash[c].jack_patches
<1> DEFINE e == NewEntry(c, told[c], lash[c].jack_patches)
<1>1. e \in Entry /\ e.id = c /\ e.name = told[c] /\ e.old_patches = lash[c].jack_patches
  BY DEF TypeInv, LashdTypes, NewEntry, Entry, LashClient
<1> HIDE DEF e
<1>2. clients \in Seq(Entry) /\ Len(clients) \in Nat /\ DOMAIN clients = 1..Len(clients)
  BY DEF TypeInv, LashdTypes
<1>3. /\ Append(clients, e) \in Seq(Entry) /\ Len(Append(clients, e)) = Len(clients) + 1
      /\ \A i \in 1..Len(clients) : Append(clients, e)[i] = clients[i]
      /\ Append(clients, e)[Len(clients) + 1] = e
  BY <1>1, <1>2
<1>4. Added(c) = Append(clients, e)
  BY DEF Added, e
<1> QED BY <1>1, <1>2, <1>3, <1>4

LEMMA JackNameTypes ==
  ASSUME TypeInv, NEW c \in Client, JackName(c)
  PROVE  TypeInv'
<1>0. /\ UNCHANGED <<name, ports, process, ends, lashd, loaded, saving, doc>>
      /\ told' = [told EXCEPT ![c] = NoName] /\ told[c] # NoName
  BY DEF JackName, projectVars
<1>1. told' \in [Client -> Name \union {NoName}]
  BY <1>0 DEF TypeInv, LashdTypes
<1>2. CASE lash[c].jack_client_name # NoName
  <2>1. UNCHANGED <<lash, wires, notices, clients, foreign_ports, due, unread>>
    BY <1>2 DEF JackName, mgrVars
  <2> QED BY <1>0, <1>1, <2>1 DEF TypeInv, LashdTypes, JackTypes, Registered
<1>3. CASE lash[c].jack_client_name = NoName
  <2>1. AddClient(c, told[c])
    BY <1>3 DEF JackName
  <2> DEFINE mine == {f \in foreign_ports : f.addr.client = told[c]}
             opened == {f.addr.port : f \in mine}
             list == Added(c)
  <2>2. /\ lash' = [lash EXCEPT ![c].jack_client_name = told[c], ![c].jack_patches = {}]
        /\ ResumePorts(list, Len(list), opened, notices)
        /\ clients' = AfterResuming(list, Len(list), opened)
        /\ foreign_ports' = foreign_ports \ mine
        /\ unread' = unread \union {c}
    BY <2>1 DEF AddClient, Added
  <2>3. list \in Seq(Entry) /\ Len(list) \in DOMAIN list /\ notices \in Seq(Notice)
    BY <1>0, AddedEntries DEF TypeInv, JackTypes
  <2> HIDE DEF list
  <2>4. JackTypes' /\ due' \subseteq Patch
    BY <1>0, <2>2, <2>3, ResumedStep
  <2>5. clients' \in Seq(Entry)
    BY <2>2, <2>3, ResumedEntries DEF Resumes
  <2>6. lash' \in [Client -> LashClient]
    <3>1. told[c] \in Name \union {NoName} /\ lash[c] \in LashClient
      BY DEF TypeInv, LashdTypes
    <3>2. [lash[c] EXCEPT !.jack_client_name = told[c], !.jack_patches = {}] \in LashClient
      BY <3>1 DEF LashClient
    <3>3. lash' = [lash EXCEPT ![c] = [lash[c] EXCEPT !.jack_client_name = told[c], !.jack_patches = {}]]
      BY <2>2 DEF TypeInv, LashdTypes
    <3> QED BY <3>2, <3>3 DEF TypeInv, LashdTypes
  <2> QED BY <1>0, <1>1, <2>2, <2>4, <2>5, <2>6 DEF TypeInv, LashdTypes
<1> QED BY <1>2, <1>3

(* Without some clients' entries.                                          *)
LEMMA WithoutEntries ==
  ASSUME NEW list \in Seq(Entry), NEW L
  PROVE  /\ Without(list, L) \in Seq(Entry)
         /\ \E from \in [DOMAIN Without(list, L) -> DOMAIN list] :
              /\ \A i \in DOMAIN Without(list, L) : Without(list, L)[i] = list[from[i]]
              /\ \A i, j \in DOMAIN Without(list, L) : from[i] = from[j] => i = j
         /\ \A i \in DOMAIN Without(list, L) : Without(list, L)[i].id \notin L
         /\ \A j \in DOMAIN list : list[j].id \notin L =>
              \E i \in DOMAIN Without(list, L) : Without(list, L)[i] = list[j]
<1> DEFINE K == {i \in DOMAIN list : list[i].id \notin L}
           r == Without(list, L)
<1>1. r = Keeping(list, K)
  BY DEF Without
<1>0. Len(list) \in Nat /\ DOMAIN list = 1..Len(list)
  OBVIOUS
<1>5. \A i \in DOMAIN list : i \in K <=> list[i].id \notin L
  OBVIOUS
<1> HIDE DEF K
<1>2. r \in Seq(Entry) /\ \E from : StaysOf(r, from, Len(list), list, K)
  BY <1>1, Kept
<1>3. PICK from : StaysOf(r, from, Len(list), list, K)
  BY <1>2
<1>4. /\ from \in [DOMAIN r -> (1..Len(list)) \intersect K]
      /\ \A i \in DOMAIN r : r[i] = list[from[i]]
      /\ \A i, j \in DOMAIN r : i < j => from[i] < from[j]
      /\ \A n \in (1..Len(list)) \intersect K : \E i \in DOMAIN r : from[i] = n
  BY <1>3 DEF StaysOf
<1>6. DOMAIN r \subseteq Nat
  BY <1>2
<1> HIDE DEF r
<1>7. ASSUME NEW i \in DOMAIN r, NEW j \in DOMAIN r, from[i] = from[j] PROVE i = j
  <2>1. i \in Nat /\ j \in Nat /\ from[i] \in Nat /\ from[j] \in Nat
    BY <1>4, <1>6
  <2>2. ~(i < j) /\ ~(j < i)
    BY <1>4, <1>7, <2>1
  <2> QED BY <2>1, <2>2
<1>8. from \in [DOMAIN r -> DOMAIN list]
  BY <1>0, <1>4
<1>9. \A i \in DOMAIN r : r[i].id \notin L
  BY <1>0, <1>4, <1>5
<1>10. \A j \in DOMAIN list : list[j].id \notin L => \E i \in DOMAIN r : r[i] = list[j]
  BY <1>0, <1>4, <1>5
<1> QED BY <1>2, <1>4, <1>7, <1>8, <1>9, <1>10 DEF r

LEMMA MainTypes ==
  ASSUME TypeInv, MainThread
  PROVE  TypeInv'
<1>1. ASSUME NEW c \in Client, Connect(c) PROVE TypeInv'
  <2>1. process' \in [Client -> {"none", "up", "connected", "told", "stray"}]
    BY <1>1 DEF Connect, TypeInv, LashdTypes
  <2>2. lash' \in [Client -> LashClient]
    BY <1>1 DEF Connect, TypeInv, LashdTypes, LashClient
  <2> QED BY <1>1, <2>1, <2>2 DEF Connect, TypeInv, JackTypes, LashdTypes, jackVars, mgrVars,
                                  projectVars, Registered
<1>2. ASSUME NEW c \in Client, JackName(c) PROVE TypeInv'
  BY <1>2, JackNameTypes
<1>3. ASSUME NEW c \in Client, Disconnect(c) PROVE TypeInv'
  <2>1. lash' \in [Client -> LashClient]
    BY <1>3 DEF Disconnect, TypeInv, LashdTypes, LashClient
  <2>2. clients' \in Seq(Entry)
    BY <1>3, WithoutEntries DEF Disconnect, TypeInv, LashdTypes
  <2>3. lashd' \in BOOLEAN
    BY <1>3 DEF Disconnect, LosesBackup
  <2> QED BY <1>3, <2>1, <2>2, <2>3 DEF Disconnect, TypeInv, JackTypes, LashdTypes, jackVars,
                                        processVars, projectVars, Registered
<1>4. ASSUME NEW c \in Client, Launch(c) PROVE TypeInv'
  <2>1. process' \in [Client -> {"none", "up", "connected", "told", "stray"}]
    BY <1>4 DEF Launch, TypeInv, LashdTypes
  <2> QED BY <1>4, <2>1 DEF Launch, TypeInv, JackTypes, LashdTypes, jackVars, mgrVars,
                            projectVars, Registered
<1>5. CASE Save
  <2>1. lash' \in [Client -> LashClient]
    BY <1>5 DEF Save, TypeInv, LashdTypes, LashClient
  <2> QED BY <1>5, <2>1 DEF Save, TypeInv, JackTypes, LashdTypes, jackVars, processVars, mgrVars, Registered
<1>6. CASE SaveEnds
  <2>1. ASSUME NEW c \in Client PROVE ClientPatches(c) \subseteq Patch
    <3>1. FindById(clients, c) \in {0} \union DOMAIN clients /\ clients \in Seq(Entry)
      BY FoundById DEF TypeInv, LashdTypes
    <3>2. CASE FindById(clients, c) = 0
      BY <3>2 DEF ClientPatches
    <3>3. CASE FindById(clients, c) # 0
      <4>1. clients[FindById(clients, c)] \in Entry
        BY <3>1, <3>3
      <4>2. clients[FindById(clients, c)].patches \subseteq Addr \X Addr
        BY <4>1 DEF Entry
      <4> QED BY <3>1, <3>3, <4>2, PatchesAreSet DEF ClientPatches
    <3> QED BY <3>2, <3>3
  <2>2. \A c \in Client : doc'[c] = NotSaved \/ doc'[c] \subseteq Patch
    BY <1>6, <2>1 DEF SaveEnds
  <2>3. JackTypes'
    BY <1>6 DEF SaveEnds, TypeInv, JackTypes, jackVars, Registered
  <2>4. saving' = FALSE /\ UNCHANGED <<process, told, lashd, loaded, clients, foreign_ports, lash, due, unread>>
    BY <1>6 DEF SaveEnds, processVars, mgrVars
  <2>5. {lashd, loaded, saving}' \subseteq BOOLEAN
    BY <2>4 DEF TypeInv, LashdTypes
  <2> QED BY <2>2, <2>3, <2>4, <2>5 DEF TypeInv, LashdTypes
<1>7. CASE Close
  <2>1. lash' \in [Client -> LashClient]
    BY <1>7 DEF Close, NoLash, LashClient
  <2>2. clients' \in Seq(Entry)
    BY <1>7, WithoutEntries DEF Close, TypeInv, LashdTypes
  <2>3. process' \in [Client -> {"none", "up", "connected", "told", "stray"}]
        /\ told' \in [Client -> Name \union {NoName}]
    BY <1>7 DEF Close
  <2>4. JackTypes'
    BY <1>7 DEF Close, TypeInv, JackTypes, jackVars, Registered
  <2>5. loaded' = FALSE /\ saving' = FALSE /\ due' = {} /\ UNCHANGED <<lashd, foreign_ports, doc, unread>>
    BY <1>7 DEF Close
  <2>6. {lashd, loaded, saving}' \subseteq BOOLEAN
    BY <2>5 DEF TypeInv, LashdTypes
  <2> QED BY <2>1, <2>2, <2>3, <2>4, <2>5, <2>6 DEF TypeInv, LashdTypes
<1>8. CASE Load
  <2>1. ASSUME NEW c \in Client PROVE LashOf(doc, lash)[c] \in LashClient
    <3>1. lash[c] \in LashClient /\ (doc[c] = NotSaved \/ doc[c] \subseteq Patch)
      BY DEF TypeInv, LashdTypes
    <3> QED BY <3>1 DEF LashOf, SavedIn, NoLash, LashClient
  <2>2. lash' \in [Client -> LashClient]
    BY <1>8, <2>1 DEF Load, LashOf
  <2>3. due' \subseteq Patch
    BY <1>8 DEF Load, AtBothEnds, SavedIn, TypeInv, LashdTypes
  <2> QED BY <1>8, <2>2, <2>3 DEF Load, TypeInv, JackTypes, LashdTypes, jackVars, processVars,
                                  mgrVars, Registered
<1> QED BY <1>1, <1>2, <1>3, <1>4, <1>5, <1>6, <1>7, <1>8 DEF MainThread

LEMMA InitTypes == Init => TypeInv
<1> SUFFICES ASSUME Init PROVE TypeInv
  OBVIOUS
<1>1. \A c \in Client : doc[c] = NotSaved \/ doc[c] \subseteq Patch
  BY DocumentAssumption DEF Init, NoClients
<1>2. ASSUME NEW c \in Client PROVE LashOf(doc, Fresh)[c] \in LashClient
  BY <1>1 DEF LashOf, SavedIn, Fresh, NoLash, LashClient
<1>3. lash \in [Client -> LashClient]
  BY <1>2 DEF Init, LashOf
<1>4. due \subseteq Patch
  BY <1>1 DEF Init, AtBothEnds, SavedIn
<1>5. {lashd, loaded, saving} \subseteq BOOLEAN
  BY DEF Init
<1>6. notices \in Seq(Notice) /\ clients \in Seq(Entry)
  BY DEF Init
<1> QED BY <1>1, <1>3, <1>4, <1>5, <1>6 DEF Init, TypeInv, JackTypes, LashdTypes

LEMMA StepTypes == TypeInv /\ [Next]_vars => TypeInv'
<1>1. CASE UNCHANGED vars
  BY <1>1 DEF vars, jackVars, processVars, mgrVars, projectVars, TypeInv, JackTypes, LashdTypes, Registered
<1>2. CASE Next
  BY <1>2, EnvironmentTypes, ThreadTypes, MainTypes DEF Next
<1> QED BY <1>1, <1>2

------------------------------------------------------------------------------
(* Programs, names and entries *)

(* A JACK name is one program's, and so is a registered port.              *)
NamesOK ==
  /\ \A x, y \in Program : name[x] = name[y] /\ name[x] # NoName => x = y
  /\ \A i \in PortId : ports[i] # NoPort => \E x \in Program : name[x] = ports[i].client

(* What the project knows of a process that has connected.                 *)
ProcessesOK ==
  \A c \in Client :
    /\ process[c] = "none" => name[c] = NoName
    /\ process[c] \in {"connected", "told"} => lash[c].state = "running"
    /\ lash[c].state = "running" => process[c] \in {"none", "connected", "told"}
    /\ told[c] # NoName => /\ lash[c].state = "running" /\ process[c] # "connected"
                           /\ process[c] = "told" => name[c] = told[c]

(* A LASH client has one entry at most, while it runs, and its name is in  *)
(* it, unless its process has ended.                                       *)
EntryOK(e) ==
  /\ lash[e.id].state = "running" /\ lash[e.id].jack_client_name # NoName
  /\ process[e.id] # "none" => name[e.id] = e.name
EntriesOK == UniqueIn(clients) /\ \A i \in DOMAIN clients : EntryOK(clients[i])

Closed ==
  ~loaded => /\ \A c \in Client : lash[c] = NoLash /\ process[c] \in {"none", "stray"}
             /\ due = {}

SameNames(new, old) ==
  DOMAIN new = DOMAIN old /\ \A i \in DOMAIN old : new[i].id = old[i].id /\ new[i].name = old[i].name

LEMMA NamesStep ==
  ASSUME TypeInv, NamesOK, [Next]_vars
  PROVE  NamesOK'
<1>1. CASE UNCHANGED <<name, ports>>
  BY <1>1 DEF NamesOK
<1>2. ASSUME NEW x \in Program, OpenClient(x) PROVE NamesOK'
  <2>1. PICK n \in Name \ {name[y] : y \in Program} : name' = [name EXCEPT ![x] = n]
    BY <1>2 DEF OpenClient
  <2>2. ports' = ports /\ name[x] = NoName /\ n # NoName
    BY <1>2, JackAssumption DEF OpenClient
  <2>3. \A y \in Program : name'[y] = IF y = x THEN n ELSE name[y]
    BY <2>1 DEF TypeInv, JackTypes
  <2>4. \A y \in Program : name[y] # n
    BY <2>1
  <2>5. ASSUME NEW i \in PortId, ports'[i] # NoPort
        PROVE  \E y \in Program : name'[y] = ports'[i].client
    <3>1. PICK y \in Program : name[y] = ports[i].client
      BY <2>2, <2>5 DEF NamesOK
    <3>2. ports[i] \in Addr
      BY <2>2, <2>5 DEF TypeInv, JackTypes
    <3>3. ports[i].client \in Name
      BY <3>2 DEF Addr
    <3>4. y # x
      BY <2>2, <3>1, <3>3, JackAssumption
    <3> QED BY <2>2, <2>3, <3>1, <3>4
  <2> QED BY <2>2, <2>3, <2>4, <2>5 DEF NamesOK
<1>3. ASSUME NEW x \in Program, Exit(x) PROVE NamesOK'
  <2>1. /\ name' = [name EXCEPT ![x] = NoName]
        /\ ports' = [i \in PortId |-> IF i \in Gone(x) THEN NoPort ELSE ports[i]]
    BY <1>3, ExitTypes
  <2>2. \A y \in Program : name'[y] = IF y = x THEN NoName ELSE name[y]
    BY <2>1 DEF TypeInv, JackTypes
  <2>3. ASSUME NEW i \in PortId, ports'[i] # NoPort
        PROVE  \E y \in Program : name'[y] = ports'[i].client
    <3>1. ports'[i] = ports[i] /\ i \notin Gone(x)
      BY <2>1, <2>3
    <3>2. PICK y \in Program : name[y] = ports[i].client
      BY <2>3, <3>1 DEF NamesOK
    <3>3. y # x
      BY <2>3, <3>1, <3>2 DEF Gone
    <3> QED BY <2>2, <3>1, <3>2, <3>3
  <2> QED BY <2>2, <2>3 DEF NamesOK
<1>4. ASSUME NEW x \in Program, NEW p \in PortsOf[x], RegisterPort(x, p) PROVE NamesOK'
  <2>1. ports' = [ports EXCEPT ![FreeId] = At(name[x], p)] /\ name' = name
    BY <1>4, RegisterPortTypes DEF RegisterPort
  <2>2. \A i \in PortId : ports'[i] = IF i = FreeId THEN At(name[x], p) ELSE ports[i]
    BY <2>1 DEF TypeInv, JackTypes
  <2> QED BY <2>1, <2>2 DEF NamesOK, At
<1>5. CASE Thread
  <2>1. UNCHANGED <<name, ports>>
    BY <1>5 DEF Thread, ReadCallback, BackupTimeout, jackVars
  <2> QED BY <1>1, <2>1
<1>6. CASE MainThread
  <2>1. UNCHANGED <<name, ports>>
    BY <1>6 DEF MainThread, Connect, JackName, Disconnect, Launch, Save, SaveEnds, Close, Load, jackVars
  <2> QED BY <1>1, <2>1
<1>7. CASE Environment
  <2>1. ASSUME NEW w, UserConnects(w) \/ UserDisconnects(w) PROVE UNCHANGED <<name, ports>>
    BY <2>1 DEF UserConnects, UserDisconnects
  <2>2. ASSUME NEW c, Start(c) \/ TellName(c) PROVE UNCHANGED <<name, ports>>
    BY <2>2 DEF Start, TellName, jackVars
  <2> QED BY <1>1, <1>2, <1>3, <1>4, <1>7, <2>1, <2>2 DEF Environment
<1>8. CASE UNCHANGED vars
  BY <1>1, <1>8 DEF vars, jackVars
<1> QED BY <1>5, <1>6, <1>7, <1>8 DEF Next

(* lashd knows the registered port with a number, or will read of it.      *)
KnownPort(id) == \/ AnnouncedIn(notices, id)
                 \/ [id |-> id, addr |-> ports[id]] \in foreign_ports /\ NoUnreg(notices, id)

ThreadFrame == UNCHANGED <<name, ports, process, told, ends, lashd, lash, loaded, saving, doc>>

(* A notice tells of a port of a known client, or the thread's step leaves *)
(* JACK's connections and all waiting patches as they are.                 *)
TakesPort(id, i, opened) ==
  /\ notices # <<>> /\ Head(notices) = Reg(id)
  /\ ports[id] # NoPort /\ clients[i].name = ports[id].client /\ opened = {ports[id].port}
  /\ ResumePorts(clients, i, opened, Tail(notices))
  /\ Alike(clients', AfterResuming(clients, i, opened))
  /\ UNCHANGED <<foreign_ports, unread>>

SameOld(new, old) ==
  /\ SameNames(new, old) /\ \A i \in DOMAIN old : new[i].old_patches = old[i].old_patches

TakesNoPort ==
  /\ UNCHANGED <<wires, due>> /\ SameOld(clients', clients)
  /\ \A id \in PortId : ports[id] # NoPort /\ KnownPort(id) => KnownPort(id)'
  /\ \A id \in PortId : RegIn(notices, id) /\ ports[id] # NoPort =>
       RegIn(notices', id) \/ \A i \in DOMAIN clients : clients[i].name # ports[id].client
  /\ \/ \A i \in DOMAIN clients : clients'[i].patches = WiresOf(clients[i].name)
     \/ /\ \A i \in DOMAIN clients : clients'[i].patches = clients[i].patches
        /\ UNCHANGED unread /\ (ReorderIn(notices) => ReorderIn(notices'))

LEMMA AlikeSame ==
  ASSUME NEW new, NEW old \in Seq(Entry), Alike(new, old)
  PROVE  new \in Seq(Entry) /\ SameOld(new, old)
         /\ \A i \in DOMAIN old : new[i].patches = old[i].patches
<1>1. DOMAIN new = 1..Len(new) /\ DOMAIN old = 1..Len(old)
  BY DEF Alike
<1> QED BY <1>1 DEF Alike, SameOld, SameNames

LEMMA NoticeCases ==
  ASSUME TypeInv, ReadCallback
  PROVE  /\ ThreadFrame /\ clients' \in Seq(Entry)
         /\ \/ \E id \in PortId, i \in DOMAIN clients : \E opened : TakesPort(id, i, opened)
            \/ TakesNoPort
<1> DEFINE T == Tail(notices)
<1>1. clients \in Seq(Entry) /\ Len(clients) \in Nat /\ DOMAIN clients = 1..Len(clients)
  BY DEF TypeInv, LashdTypes
<1>2. notices # <<>> /\ ThreadFrame /\ notices \in Seq(Notice)
  BY DEF ReadCallback, processVars, projectVars, ThreadFrame, TypeInv, JackTypes
<1>3. \A id : /\ RegIn(notices, id) => RegIn(T, id) \/ Head(notices) = Reg(id)
              /\ ReorderIn(notices) => ReorderIn(T) \/ Head(notices) = Reorder
              /\ AnnouncedIn(notices, id) => \/ AnnouncedIn(T, id)
                                             \/ Head(notices) = Reg(id) /\ NoUnreg(T, id)
              /\ NoUnreg(notices, id) => NoUnreg(T, id) /\ Head(notices) # Unreg(id)
  BY <1>2, TailKeeps
<1> HIDE DEF T
<1>4. ASSUME NEW id \in PortId, Head(notices) = Reg(id), PortNotification(id)
      PROVE  /\ clients' \in Seq(Entry)
             /\ (\E i \in DOMAIN clients : \E opened : TakesPort(id, i, opened)) \/ TakesNoPort
  <2> DEFINE addr == ports[id]
             i == IF addr = NoPort THEN 0 ELSE FindByName(clients, addr.client)
             opened == {addr.port}
  <2>1. /\ i \in {0} \union DOMAIN clients
        /\ i # 0 => addr # NoPort /\ clients[i].name = addr.client
        /\ i = 0 /\ addr # NoPort => \A j \in DOMAIN clients : clients[j].name # addr.client
    BY <1>1, FoundByName
  <2>2. CASE i # 0
    <3>1. /\ ResumePorts(clients, i, opened, T) /\ MaybeBackup(AfterResuming(clients, i, opened))
          /\ UNCHANGED <<foreign_ports, unread>>
      BY <1>4, <2>2 DEF PortNotification, T
    <3>2. i \in DOMAIN clients /\ addr # NoPort /\ clients[i].name = addr.client
      BY <2>1, <2>2
    <3> DEFINE o == opened
    <3>3. o = {ports[id].port}
      OBVIOUS
    <3> HIDE DEF i, o, opened
    <3>4. AfterResuming(clients, i, o) \in Seq(Entry)
      BY <1>1, <3>2, ResumedEntries DEF Resumes
    <3>5. Alike(clients', AfterResuming(clients, i, o))
      BY <3>1, <3>4, BackupRenewed DEF o
    <3>6. TakesPort(id, i, o)
      BY <1>2, <1>4, <3>1, <3>2, <3>3, <3>5 DEF TakesPort, T, o
    <3> QED BY <3>2, <3>5, <3>6 DEF Alike
  <2>3. CASE i = 0
    <3>1. /\ foreign_ports' = foreign_ports \union
                 (IF addr = NoPort THEN {} ELSE {[id |-> id, addr |-> addr]})
          /\ notices' = T /\ MaybeBackup(clients) /\ UNCHANGED <<wires, due, unread>>
      BY <1>4, <2>3 DEF PortNotification, T
    <3>2. /\ clients' \in Seq(Entry) /\ SameOld(clients', clients)
          /\ \A j \in DOMAIN clients : clients'[j].patches = clients[j].patches
      BY <1>1, <3>1, BackupRenewed, AlikeSame
    <3>3. ASSUME NEW k \in PortId, ports[k] # NoPort, KnownPort(k) PROVE KnownPort(k)'
      <4>1. CASE AnnouncedIn(notices, k)
        <5>1. Head(notices) = Reg(k) => k = id
          BY <1>4, NoticesDiffer
        <5>2. \/ AnnouncedIn(T, k)
              \/ [id |-> k, addr |-> ports[k]] \in foreign_ports' /\ NoUnreg(T, k)
          BY <1>3, <3>1, <3>3, <4>1, <5>1
        <5> QED BY <1>2, <3>1, <5>2 DEF KnownPort, ThreadFrame
      <4>2. CASE [id |-> k, addr |-> ports[k]] \in foreign_ports /\ NoUnreg(notices, k)
        <5>1. [id |-> k, addr |-> ports[k]] \in foreign_ports' /\ NoUnreg(T, k)
          BY <1>3, <3>1, <4>2
        <5> QED BY <1>2, <3>1, <5>1 DEF KnownPort, ThreadFrame
      <4> QED BY <3>3, <4>1, <4>2 DEF KnownPort
    <3>4. ASSUME NEW k \in PortId, RegIn(notices, k), ports[k] # NoPort
          PROVE  RegIn(notices', k) \/ \A j \in DOMAIN clients : clients[j].name # ports[k].client
      <4>1. Head(notices) = Reg(k) => k = id
        BY <1>4, NoticesDiffer
      <4> QED BY <1>3, <2>1, <2>3, <3>1, <3>4, <4>1
    <3>5. ReorderIn(notices) => ReorderIn(notices')
      BY <1>3, <1>4, <3>1, NoticesDiffer
    <3> QED BY <3>1, <3>2, <3>3, <3>4, <3>5 DEF TakesNoPort
  <2> QED BY <2>2, <2>3
<1>5. ASSUME NEW id \in PortId, Head(notices) = Unreg(id), RemoveForeignPort(id)
      PROVE  clients' \in Seq(Entry) /\ TakesNoPort
  <2>1. /\ foreign_ports' = {f \in foreign_ports : f.id # id}
        /\ notices' = T /\ MaybeBackup(clients) /\ UNCHANGED <<wires, due, unread>>
    BY <1>5 DEF RemoveForeignPort, T
  <2>2. /\ clients' \in Seq(Entry) /\ SameOld(clients', clients)
        /\ \A j \in DOMAIN clients : clients'[j].patches = clients[j].patches
    BY <1>1, <2>1, BackupRenewed, AlikeSame
  <2>3. \A k : Head(notices) # Reg(k) /\ Head(notices) # Reorder
    BY <1>5, NoticesDiffer
  <2>4. ASSUME NEW k \in PortId, KnownPort(k) PROVE KnownPort(k)'
    <3>1. AnnouncedIn(notices, k) => AnnouncedIn(T, k)
      BY <1>3, <2>3
    <3>2. NoUnreg(notices, k) => NoUnreg(T, k) /\ k # id
      BY <1>3, <1>5
    <3>3. [id |-> k, addr |-> ports[k]] \in foreign_ports /\ k # id =>
            [id |-> k, addr |-> ports[k]] \in foreign_ports'
      BY <2>1
    <3> QED BY <1>2, <2>1, <2>4, <3>1, <3>2, <3>3 DEF KnownPort, ThreadFrame
  <2>5. /\ \A k : RegIn(notices, k) => RegIn(notices', k)
        /\ ReorderIn(notices) => ReorderIn(notices')
    BY <1>3, <2>1, <2>3
  <2> QED BY <2>1, <2>2, <2>4, <2>5 DEF TakesNoPort
<1>6. ASSUME Head(notices) = Reorder, GraphReorder
      PROVE  clients' \in Seq(Entry) /\ TakesNoPort
  <2>1. /\ foreign_ports' = {f \in foreign_ports : ports[f.id] # NoPort}
        /\ notices' = T /\ MaybeBackup(Read) /\ UNCHANGED <<wires, due>>
    BY <1>6 DEF GraphReorder, T, Read
  <2>2. /\ Read \in Seq(Entry) /\ Len(Read) = Len(clients) /\ DOMAIN Read = DOMAIN clients
        /\ SameOld(Read, clients)
        /\ \A j \in DOMAIN clients : Read[j].patches = WiresOf(clients[j].name)
    BY <1>1, ReadEntries DEF SameOld, SameNames
  <2>3. /\ clients' \in Seq(Entry) /\ SameOld(clients', Read)
        /\ \A j \in DOMAIN Read : clients'[j].patches = Read[j].patches
    BY <2>1, <2>2, BackupRenewed, AlikeSame
  <2>4. SameOld(clients', clients) /\ \A j \in DOMAIN clients : clients'[j].patches = WiresOf(clients[j].name)
    BY <2>2, <2>3 DEF SameOld, SameNames
  <2>5. \A k : Head(notices) # Reg(k)
    BY <1>6, NoticesDiffer
  <2>6. ASSUME NEW k \in PortId, ports[k] # NoPort, KnownPort(k) PROVE KnownPort(k)'
    <3>1. AnnouncedIn(notices, k) => AnnouncedIn(T, k)
      BY <1>3, <2>5
    <3>2. NoUnreg(notices, k) => NoUnreg(T, k)
      BY <1>3
    <3>3. [id |-> k, addr |-> ports[k]] \in foreign_ports =>
            [id |-> k, addr |-> ports[k]] \in foreign_ports'
      BY <2>1, <2>6
    <3> QED BY <1>2, <2>1, <2>6, <3>1, <3>2, <3>3 DEF KnownPort, ThreadFrame
  <2>7. \A k : RegIn(notices, k) => RegIn(notices', k)
    BY <1>3, <2>1, <2>5
  <2> QED BY <2>1, <2>3, <2>4, <2>6, <2>7 DEF TakesNoPort
<1> QED BY <1>2, <1>4, <1>5, <1>6, HeadKinds DEF ReadCallback

LEMMA ThreadCases ==
  ASSUME TypeInv, Thread
  PROVE  /\ ThreadFrame /\ clients' \in Seq(Entry)
         /\ \/ \E id \in PortId, i \in DOMAIN clients : \E opened : TakesPort(id, i, opened)
            \/ TakesNoPort
<1>1. CASE ReadCallback
  BY <1>1, NoticeCases
<1>2. CASE BackupTimeout
  <2>1. MaybeBackup(clients) /\ ThreadFrame /\ UNCHANGED <<wires, due, notices, unread, foreign_ports>>
    BY <1>2 DEF BackupTimeout, MaybeBackup, jackVars, processVars, projectVars, ThreadFrame
  <2>2. /\ clients' \in Seq(Entry) /\ SameOld(clients', clients)
        /\ \A j \in DOMAIN clients : clients'[j].patches = clients[j].patches
    BY <2>1, BackupRenewed, AlikeSame DEF TypeInv, LashdTypes
  <2>3. \A id \in PortId : KnownPort(id) => KnownPort(id)'
    BY <2>1 DEF KnownPort, ThreadFrame
  <2> QED BY <2>1, <2>2, <2>3 DEF TakesNoPort
<1> QED BY <1>1, <1>2 DEF Thread

(* What reading a notice changes of an entry.                              *)
LEMMA ThreadEntries ==
  ASSUME TypeInv, Thread
  PROVE  /\ ThreadFrame /\ SameNames(clients', clients) /\ clients' \in Seq(Entry)
         /\ due' \subseteq due
<1>1. clients \in Seq(Entry) /\ Len(clients) \in Nat /\ DOMAIN clients = 1..Len(clients)
  BY DEF TypeInv, LashdTypes
<1>2. ASSUME NEW id \in PortId, NEW i \in DOMAIN clients, NEW opened, TakesPort(id, i, opened)
      PROVE  SameNames(clients', clients) /\ due' \subseteq due
  <2> DEFINE list == AfterResuming(clients, i, opened)
  <2>0. Resumes(list, clients, i, opened)
    BY <1>1, ResumedEntries
  <2>1. /\ list \in Seq(Entry) /\ Len(list) = Len(clients)
        /\ \A j \in DOMAIN clients : list[j].id = clients[j].id /\ list[j].name = clients[j].name
    BY <2>0 DEF Resumes
  <2>2. Alike(clients', list) /\ due' \subseteq due
    BY <1>2 DEF TakesPort, ResumePorts
  <2> HIDE DEF list
  <2>3. DOMAIN list = DOMAIN clients /\ SameNames(clients', list)
    BY <1>1, <2>1, <2>2, AlikeSame DEF SameOld
  <2> QED BY <2>1, <2>2, <2>3 DEF SameNames
<1>3. TakesNoPort => SameNames(clients', clients) /\ due' \subseteq due
  BY DEF TakesNoPort, SameOld
<1> QED BY <1>2, <1>3, ThreadCases

(* What the manager's data say of a client that a step leaves alone.       *)
LEMMA NamedInProgram ==
  ASSUME TypeInv, NEW c \in Client
  PROVE  /\ c \in Program /\ name[c] \in Name \union {NoName}
         /\ lash[c] \in LashClient /\ told[c] \in Name \union {NoName}
BY DEF TypeInv, JackTypes, LashdTypes, Program

LEMMA EntryTypes ==
  ASSUME TypeInv, NEW i \in DOMAIN clients
  PROVE  /\ clients[i].id \in Client /\ clients[i].name \in Name /\ clients[i].name # NoName
         /\ clients[i].old_patches \subseteq Patch /\ i \in Nat
<1>1. clients[i] \in Entry /\ i \in Nat
  BY DEF TypeInv, LashdTypes
<1> QED BY <1>1, JackAssumption DEF Entry

LEMMA ProgramsEnvironment ==
  ASSUME TypeInv, NamesOK, ProcessesOK, EntriesOK, Closed, Environment
  PROVE  ProcessesOK' /\ EntriesOK' /\ Closed'
<1>0. lash' = lash /\ clients' = clients /\ loaded' = loaded /\ due' \subseteq due /\ saving' = saving
  BY DEF Environment, OpenClient, Exit, RegisterPort, UserConnects, UserDisconnects, Start, TellName,
     ExternalStep, mgrVars, projectVars
<1>1. \A c \in Client : c \in Program /\ process[c] \in {"none", "up", "connected", "told", "stray"}
  BY DEF Program, TypeInv, LashdTypes
<1>2. CASE UNCHANGED <<name, process, told>>
  BY <1>0, <1>2 DEF ProcessesOK, EntriesOK, EntryOK, Closed
<1>3. ASSUME NEW x \in Program, OpenClient(x) PROVE ProcessesOK' /\ EntriesOK' /\ Closed'
  <2>1. PICK n \in Name : name' = [name EXCEPT ![x] = n]
    BY <1>3 DEF OpenClient
  <2>2. name[x] = NoName /\ (x \in Client => process[x] # "none") /\ process' = process /\ told' = told
    BY <1>3 DEF OpenClient, processVars
  <2>3. \A y \in Program : name'[y] = IF y = x THEN n ELSE name[y]
    BY <2>1 DEF TypeInv, JackTypes
  <2>4. ProcessesOK'
    BY <1>0, <1>1, <2>2, <2>3 DEF ProcessesOK
  <2>5. ASSUME NEW i \in DOMAIN clients PROVE EntryOK(clients[i])'
    <3>1. clients[i].id \in Client /\ clients[i].name # NoName
      BY EntryTypes
    <3>2. clients[i].id # x
      BY <2>2, <3>1 DEF EntriesOK, EntryOK
    <3> QED BY <1>0, <1>1, <2>2, <2>3, <3>1, <3>2 DEF EntriesOK, EntryOK
  <2> QED BY <1>0, <2>2, <2>4, <2>5 DEF EntriesOK, Closed
<1>4. ASSUME NEW x \in Program, Exit(x) PROVE ProcessesOK' /\ EntriesOK' /\ Closed'
  <2>1. /\ name' = [name EXCEPT ![x] = NoName] /\ told' = told
        /\ process' = IF x \in Client THEN [process EXCEPT ![x] = "none"] ELSE process
    BY <1>4 DEF Exit
  <2>2. /\ \A y \in Program : name'[y] = IF y = x THEN NoName ELSE name[y]
        /\ \A c \in Client : process'[c] = IF c = x THEN "none" ELSE process[c]
    BY <2>1 DEF TypeInv, JackTypes, LashdTypes
  <2>3. ProcessesOK'
    BY <1>0, <1>1, <2>1, <2>2 DEF ProcessesOK
  <2>4. ASSUME NEW i \in DOMAIN clients PROVE EntryOK(clients[i])'
    <3>1. clients[i].id \in Client
      BY EntryTypes
    <3> QED BY <1>0, <1>1, <2>2, <3>1 DEF EntriesOK, EntryOK
  <2> QED BY <1>0, <2>2, <2>3, <2>4 DEF EntriesOK, Closed
<1>5. ASSUME NEW c \in Client, Start(c) PROVE ProcessesOK' /\ EntriesOK' /\ Closed'
  <2>1. /\ name' = name /\ told' = told /\ loaded /\ lash[c].state = "none" /\ process[c] = "none"
        /\ process' = [process EXCEPT ![c] = "up"]
    BY <1>5 DEF Start, jackVars
  <2>2. \A d \in Client : process'[d] = IF d = c THEN "up" ELSE process[d]
    BY <2>1 DEF TypeInv, LashdTypes
  <2>3. ProcessesOK'
    BY <1>0, <2>1, <2>2 DEF ProcessesOK
  <2>4. ASSUME NEW i \in DOMAIN clients PROVE EntryOK(clients[i])'
    <3>1. clients[i].id \in Client
      BY EntryTypes
    <3> QED BY <1>0, <2>1, <2>2, <3>1 DEF EntriesOK, EntryOK
  <2> QED BY <1>0, <2>1, <2>3, <2>4 DEF EntriesOK, Closed
<1>6. ASSUME NEW c \in Client, TellName(c) PROVE ProcessesOK' /\ EntriesOK' /\ Closed'
  <2>1. /\ name' = name /\ process[c] = "connected" /\ told' = [told EXCEPT ![c] = name[c]]
        /\ process' = [process EXCEPT ![c] = "told"]
    BY <1>6 DEF TellName, jackVars
  <2>2. \A d \in Client : /\ process'[d] = IF d = c THEN "told" ELSE process[d]
                          /\ told'[d] = IF d = c THEN name[c] ELSE told[d]
    BY <2>1 DEF TypeInv, LashdTypes
  <2>3. ProcessesOK'
    BY <1>0, <2>1, <2>2 DEF ProcessesOK
  <2>4. ASSUME NEW i \in DOMAIN clients PROVE EntryOK(clients[i])'
    <3>1. clients[i].id \in Client
      BY EntryTypes
    <3> QED BY <1>0, <2>1, <2>2, <3>1 DEF EntriesOK, EntryOK
  <2>5. loaded
    BY <2>1 DEF Closed
  <2> QED BY <1>0, <2>3, <2>4, <2>5 DEF EntriesOK, Closed
<1>7. ASSUME NEW w, UserConnects(w) \/ UserDisconnects(w) PROVE UNCHANGED <<name, process, told>>
  BY <1>7 DEF UserConnects, UserDisconnects, processVars
<1>8. ASSUME NEW x, NEW p, RegisterPort(x, p) PROVE UNCHANGED <<name, process, told>>
  BY <1>8 DEF RegisterPort, processVars
<1> QED BY <1>2, <1>3, <1>4, <1>5, <1>6, <1>7, <1>8 DEF Environment

LEMMA ProgramsThread ==
  ASSUME TypeInv, ProcessesOK, EntriesOK, Closed, Thread
  PROVE  ProcessesOK' /\ EntriesOK' /\ Closed'
<1>1. /\ UNCHANGED <<name, process, told, lash, loaded>> /\ due' \subseteq due
      /\ DOMAIN clients' = DOMAIN clients
      /\ \A i \in DOMAIN clients : clients'[i].id = clients[i].id /\ clients'[i].name = clients[i].name
  BY ThreadEntries DEF ThreadFrame, SameNames
<1>2. ProcessesOK' /\ Closed'
  BY <1>1 DEF ProcessesOK, Closed
<1>3. EntriesOK'
  BY <1>1 DEF EntriesOK, EntryOK, UniqueIn
<1> QED BY <1>2, <1>3

(* A client whose first JACK name comes gets an entry.                     *)
TakesName(c, opened) ==
  /\ opened = {f.addr.port : f \in {g \in foreign_ports : g.addr.client = told[c]}}
  /\ lash' = [lash EXCEPT ![c].jack_client_name = told[c], ![c].jack_patches = {}]
  /\ ResumePorts(Added(c), Len(Added(c)), opened, notices)
  /\ clients' = AfterResuming(Added(c), Len(Added(c)), opened)
  /\ foreign_ports' = {f \in foreign_ports : f.addr.client # told[c]}
  /\ unread' = unread \union {c}

LEMMA NameCases ==
  ASSUME TypeInv, EntriesOK, ProcessesOK, NEW c \in Client, JackName(c)
  PROVE  /\ UNCHANGED <<name, ports, process, ends, lashd, loaded, saving, doc>>
         /\ told' = [told EXCEPT ![c] = NoName] /\ told[c] # NoName /\ lash[c].state = "running"
         /\ \/ /\ lash[c].jack_client_name = NoName /\ \E opened : TakesName(c, opened)
               /\ UniqueIn(Added(c)) /\ \A i \in DOMAIN clients : clients[i].id # c
            \/ UNCHANGED <<lash, wires, notices, clients, foreign_ports, due, unread>>
<1>1. /\ UNCHANGED <<name, ports, process, ends, lashd, loaded, saving, doc>>
      /\ told' = [told EXCEPT ![c] = NoName] /\ told[c] # NoName
  BY DEF JackName, projectVars
<1>2. lash[c].state = "running"
  BY <1>1 DEF ProcessesOK
<1>3. ASSUME lash[c].jack_client_name = NoName
      PROVE  /\ \E opened : TakesName(c, opened)
             /\ UniqueIn(Added(c)) /\ \A i \in DOMAIN clients : clients[i].id # c
  <2>1. AddClient(c, told[c])
    BY <1>3 DEF JackName
  <2>2. TakesName(c, {f.addr.port : f \in {g \in foreign_ports : g.addr.client = told[c]}})
    BY <2>1 DEF AddClient, TakesName, Added
  <2>3. \A i \in DOMAIN clients : clients[i].id # c
    BY <1>3 DEF EntriesOK, EntryOK
  <2>4. UniqueIn(Added(c))
    <3>1. /\ DOMAIN Added(c) = 1..Len(clients) + 1 /\ DOMAIN clients = 1..Len(clients)
          /\ Len(clients) \in Nat /\ Len(Added(c)) = Len(clients) + 1
          /\ \A i \in DOMAIN clients : Added(c)[i] = clients[i]
          /\ Added(c)[Len(Added(c))].id = c
      BY <1>1, AddedEntries
    <3>2. \A i \in DOMAIN Added(c) : i \in DOMAIN clients \/ i = Len(clients) + 1
      BY <3>1
    <3> QED BY <2>3, <3>1, <3>2 DEF UniqueIn, EntriesOK
  <2> QED BY <2>2, <2>3, <2>4
<1>4. ASSUME lash[c].jack_client_name # NoName
      PROVE  UNCHANGED <<lash, wires, notices, clients, foreign_ports, due, unread>>
  BY <1>4 DEF JackName, mgrVars
<1> QED BY <1>1, <1>2, <1>3, <1>4

(* The entries after a client's first name.                                *)
NamedEntries(c, opened) ==
  /\ clients' \in Seq(Entry)
  /\ Len(clients') = Len(clients) + 1 /\ DOMAIN clients' = DOMAIN clients \union {Len(clients')}
  /\ Len(clients') \notin DOMAIN clients
  /\ \A i \in DOMAIN clients :
       /\ clients'[i].id = clients[i].id /\ clients'[i].name = clients[i].name
       /\ clients'[i].old_patches = clients[i].old_patches
       /\ clients'[i].patches = clients[i].patches
  /\ clients'[Len(clients')].id = c /\ clients'[Len(clients')].name = told[c]
  /\ clients'[Len(clients')].old_patches =
       lash[c].jack_patches \ Resumed(Added(c), Added(c)[Len(Added(c))], opened)
  /\ \A d \in Client : /\ d = c => lash'[d].jack_client_name = told[c]
                       /\ d # c => lash'[d] = lash[d]
                       /\ lash'[d].state = lash[d].state

LEMMA NamedTypes ==
  ASSUME TypeInv, NEW c \in Client, told[c] # NoName, NEW opened, TakesName(c, opened)
  PROVE  NamedEntries(c, opened)
<1> DEFINE list == Added(c)
           L == Len(list)
           spent == Resumed(list, list[L], opened)
<1>1. /\ list \in Seq(Entry) /\ L = Len(clients) + 1
      /\ L \in DOMAIN list /\ Len(clients) \in Nat
      /\ DOMAIN list = 1..Len(clients) + 1 /\ DOMAIN clients = 1..Len(clients)
      /\ \A i \in DOMAIN clients : list[i] = clients[i]
      /\ list[L].id = c /\ list[L].name = told[c] /\ list[L].old_patches = lash[c].jack_patches
  BY AddedEntries
<1>2. Resumes(clients', list, L, opened)
  BY <1>1, ResumedEntries DEF TakesName
<1> HIDE DEF list
<1>3. /\ clients' \in Seq(Entry) /\ Len(clients') = L
      /\ \A j \in DOMAIN list :
           /\ clients'[j].id = list[j].id /\ clients'[j].name = list[j].name
           /\ clients'[j].patches = list[j].patches
           /\ clients'[j].old_patches = IF j = L THEN list[j].old_patches \ spent ELSE list[j].old_patches
  BY <1>2 DEF Resumes
<1> HIDE DEF L, spent
<1>4. DOMAIN clients' = 1..L /\ \A i \in DOMAIN clients : i \in DOMAIN list /\ i # L
  BY <1>1, <1>3
<1>5. DOMAIN clients' = DOMAIN clients \union {L} /\ L \notin DOMAIN clients
  BY <1>1, <1>4
<1>6. \A d \in Client : /\ d = c => lash'[d].jack_client_name = told[c]
                        /\ d # c => lash'[d] = lash[d]
                        /\ lash'[d].state = lash[d].state
  <2>1. lash' = [lash EXCEPT ![c].jack_client_name = told[c], ![c].jack_patches = {}]
    BY DEF TakesName
  <2> QED BY <2>1 DEF TypeInv, LashdTypes, LashClient
<1>7. \A i \in DOMAIN clients :
        /\ clients'[i].id = clients[i].id /\ clients'[i].name = clients[i].name
        /\ clients'[i].old_patches = clients[i].old_patches
        /\ clients'[i].patches = clients[i].patches
  BY <1>1, <1>3, <1>4
<1>8. /\ clients'[L].id = c /\ clients'[L].name = told[c]
      /\ clients'[L].old_patches = lash[c].jack_patches \ spent
  BY <1>1, <1>3
<1>9. spent = Resumed(Added(c), Added(c)[Len(Added(c))], opened)
  BY DEF spent, L, list
<1> HIDE DEF L, spent
<1> QED BY <1>1, <1>3, <1>5, <1>6, <1>7, <1>8, <1>9 DEF NamedEntries

LEMMA ProgramsNamed ==
  ASSUME TypeInv, ProcessesOK, EntriesOK, Closed, NEW c \in Client, JackName(c)
  PROVE  ProcessesOK' /\ EntriesOK' /\ Closed'
<1>1. /\ UNCHANGED <<name, process, loaded>> /\ told' = [told EXCEPT ![c] = NoName]
      /\ told[c] # NoName /\ lash[c].state = "running"
  BY NameCases
<1>2. \A d \in Client : told'[d] = IF d = c THEN NoName ELSE told[d]
  BY <1>1 DEF TypeInv, LashdTypes
<1>3. CASE UNCHANGED <<lash, wires, notices, clients, foreign_ports, due, unread>>
  BY <1>1, <1>2, <1>3 DEF ProcessesOK, EntriesOK, EntryOK, Closed
<1>4. ASSUME NEW opened, TakesName(c, opened), lash[c].jack_client_name = NoName,
             \A i \in DOMAIN clients : clients[i].id # c
      PROVE  ProcessesOK' /\ EntriesOK' /\ Closed'
  <2>0. NamedEntries(c, opened)
    BY <1>1, <1>4, NamedTypes
  <2>1. PICK n : /\ n = Len(clients')
                 /\ DOMAIN clients' = DOMAIN clients \union {n} /\ n \notin DOMAIN clients
                 /\ clients'[n].id = c /\ clients'[n].name = told[c]
    BY <2>0 DEF NamedEntries
  <2>2. /\ \A i \in DOMAIN clients : clients'[i].id = clients[i].id /\ clients'[i].name = clients[i].name
        /\ \A d \in Client : /\ d = c => lash'[d].jack_client_name = told[c]
                             /\ d # c => lash'[d] = lash[d]
                             /\ lash'[d].state = lash[d].state
    BY <2>0 DEF NamedEntries
  <2>3. ProcessesOK'
    BY <1>1, <1>2, <2>2 DEF ProcessesOK
  <2>4. ASSUME NEW i \in DOMAIN clients' PROVE EntryOK(clients[i])'
    <3>1. CASE i = n
      <4>1. process[c] # "none" => name[c] = told[c]
        BY <1>1 DEF ProcessesOK
      <4> QED BY <1>1, <2>1, <2>2, <3>1, <4>1 DEF EntryOK
    <3>2. CASE i \in DOMAIN clients
      <4>1. clients[i].id \in Client /\ clients[i].id # c /\ EntryOK(clients[i])
        BY <1>4, <3>2, EntryTypes DEF EntriesOK
      <4>2. clients'[i].id = clients[i].id /\ clients'[i].name = clients[i].name
        BY <2>2, <3>2
      <4> QED BY <1>1, <2>2, <4>1, <4>2 DEF EntryOK
    <3> QED BY <2>1, <3>1, <3>2
  <2>5. UniqueIn(clients)'
    BY <1>4, <2>1, <2>2 DEF UniqueIn, EntriesOK
  <2>6. loaded
    <3>1. lash[c] # NoLash
      BY <1>1 DEF NoLash
    <3> QED BY <3>1 DEF Closed
  <2> QED BY <1>1, <2>3, <2>4, <2>5, <2>6 DEF EntriesOK, Closed
<1> QED BY <1>3, <1>4, NameCases

(* Where the entries that stay were before.                                *)
LEMMA StayingEntries ==
  ASSUME TypeInv, EntriesOK, NEW L, clients' = Without(clients, L)
  PROVE  /\ UniqueIn(clients)'
         /\ \A i \in DOMAIN clients' :
              clients'[i].id \notin L /\ \E j \in DOMAIN clients : clients'[i] = clients[j]
<1>1. clients \in Seq(Entry)
  BY DEF TypeInv, LashdTypes
<1>2. PICK from \in [DOMAIN clients' -> DOMAIN clients] :
        /\ \A i \in DOMAIN clients' : clients'[i] = clients[from[i]]
        /\ \A i, j \in DOMAIN clients' : from[i] = from[j] => i = j
  BY <1>1, WithoutEntries
<1>3. \A i \in DOMAIN clients' : clients'[i].id \notin L
  BY <1>1, WithoutEntries
<1> QED BY <1>2, <1>3 DEF UniqueIn, EntriesOK

LEMMA ProgramsMain ==
  ASSUME TypeInv, ProcessesOK, EntriesOK, Closed, MainThread
  PROVE  ProcessesOK' /\ EntriesOK' /\ Closed'
<1>0. \A i \in DOMAIN clients : clients[i].id \in Client
  BY EntryTypes
<1>1. ASSUME NEW c \in Client, Connect(c) PROVE ProcessesOK' /\ EntriesOK' /\ Closed'
  <2>1. /\ name' = name /\ told' = told /\ loaded' = loaded /\ loaded /\ clients' = clients
        /\ process[c] = "up" /\ lash[c].state \in {"none", "lost"}
        /\ process' = [process EXCEPT ![c] = "connected"]
        /\ lash' = [lash EXCEPT ![c].state = "running"]
    BY <1>1 DEF Connect, jackVars, mgrVars, projectVars
  <2>2. \A d \in Client : /\ process'[d] = IF d = c THEN "connected" ELSE process[d]
                          /\ lash'[d].jack_client_name = lash[d].jack_client_name
                          /\ d # c => lash'[d] = lash[d]
                          /\ d = c => lash'[d].state = "running"
    BY <2>1 DEF TypeInv, LashdTypes, LashClient
  <2>3. ProcessesOK'
    BY <2>1, <2>2 DEF ProcessesOK
  <2>4. EntriesOK'
    BY <1>0, <2>1, <2>2 DEF EntriesOK, EntryOK, UniqueIn
  <2> QED BY <2>1, <2>3, <2>4 DEF Closed
<1>2. ASSUME NEW c \in Client, Disconnect(c) PROVE ProcessesOK' /\ EntriesOK' /\ Closed'
  <2>1. /\ name' = name /\ told' = told /\ process' = process /\ loaded' = loaded /\ due' = due
        /\ lash[c].state = "running" /\ process[c] = "none" /\ told[c] = NoName
        /\ lash' = [lash EXCEPT ![c].state = "lost"] /\ clients' = Without(clients, {c})
    BY <1>2 DEF Disconnect, jackVars, processVars, projectVars
  <2>2. \A d \in Client : /\ lash'[d].jack_client_name = lash[d].jack_client_name
                          /\ d # c => lash'[d] = lash[d]
                          /\ d = c => lash'[d].state = "lost"
    BY <2>1 DEF TypeInv, LashdTypes, LashClient
  <2>3. ProcessesOK'
    BY <2>1, <2>2 DEF ProcessesOK
  <2>4. EntriesOK'
    <3>1. /\ UniqueIn(clients)'
          /\ \A i \in DOMAIN clients' :
               clients'[i].id \notin {c} /\ \E j \in DOMAIN clients : clients'[i] = clients[j]
      BY <2>1, StayingEntries
    <3>2. ASSUME NEW i \in DOMAIN clients' PROVE EntryOK(clients[i])'
      <4>1. PICK j \in DOMAIN clients : clients'[i] = clients[j] /\ clients[j].id # c
        BY <3>1, <3>2
      <4>2. EntryOK(clients[j]) /\ clients[j].id \in Client
        BY <1>0, EntryTypes DEF EntriesOK
      <4>3. lash'[clients[j].id] = lash[clients[j].id]
        BY <2>2, <4>1, <4>2
      <4> QED BY <2>1, <4>1, <4>2, <4>3 DEF EntryOK
    <3> QED BY <3>1, <3>2 DEF EntriesOK
  <2>5. loaded
    BY <2>1 DEF Closed, NoLash
  <2> QED BY <2>1, <2>3, <2>4, <2>5 DEF Closed
<1>3. ASSUME NEW c \in Client, Launch(c) PROVE ProcessesOK' /\ EntriesOK' /\ Closed'
  <2>1. /\ name' = name /\ told' = told /\ loaded' = loaded /\ clients' = clients /\ lash' = lash
        /\ process[c] = "none" /\ lash[c].state = "lost"
        /\ process' = [process EXCEPT ![c] = "up"]
    BY <1>3 DEF Launch, jackVars, mgrVars, projectVars
  <2>2. \A d \in Client : process'[d] = IF d = c THEN "up" ELSE process[d]
    BY <2>1 DEF TypeInv, LashdTypes
  <2>3. ProcessesOK'
    BY <2>1, <2>2 DEF ProcessesOK
  <2>4. EntriesOK'
    BY <1>0, <2>1, <2>2 DEF EntriesOK, EntryOK, UniqueIn
  <2>5. loaded
    BY <2>1 DEF Closed, NoLash
  <2> QED BY <2>1, <2>3, <2>4, <2>5 DEF Closed
<1>4. CASE Save
  <2>1. /\ UNCHANGED <<name, told, process, loaded, clients, due>> /\ loaded
        /\ \A d \in Client : /\ lash'[d].jack_client_name = lash[d].jack_client_name
                             /\ lash'[d].state = IF lash[d].state = "lost" THEN "gone" ELSE lash[d].state
    BY <1>4 DEF Save, jackVars, processVars, mgrVars, TypeInv, LashdTypes, LashClient
  <2>2. ProcessesOK'
    BY <2>1 DEF ProcessesOK
  <2>3. EntriesOK'
    BY <1>0, <2>1 DEF EntriesOK, EntryOK, UniqueIn
  <2> QED BY <2>1, <2>2, <2>3 DEF Closed
<1>5. CASE SaveEnds
  <2>1. UNCHANGED <<name, told, process, loaded, clients, due, lash>>
    BY <1>5 DEF SaveEnds, jackVars, processVars, mgrVars
  <2> QED BY <2>1 DEF ProcessesOK, EntriesOK, EntryOK, UniqueIn, Closed
<1>6. CASE Close
  <2>1. /\ name' = name /\ loaded' = FALSE /\ clients' = Without(clients, Running) /\ due' = {}
        /\ \A d \in Client : /\ lash'[d] = NoLash /\ told'[d] = NoName
                             /\ process'[d] = IF process[d] = "none" THEN "none" ELSE "stray"
    BY <1>6 DEF Close, jackVars
  <2>2. \A i \in DOMAIN clients : clients[i].id \in Running
    BY <1>0 DEF Running, EntriesOK, EntryOK
  <2>3. EntriesOK'
    BY <2>1, <2>2, StayingEntries DEF EntriesOK
  <2>4. ProcessesOK'
    BY <2>1 DEF ProcessesOK, NoLash
  <2> QED BY <2>1, <2>3, <2>4 DEF Closed
<1>7. CASE Load
  <2>1. /\ UNCHANGED <<name, told, process, clients>> /\ ~loaded /\ loaded'
        /\ lash' = LashOf(doc, lash)
    BY <1>7 DEF Load, jackVars, processVars, mgrVars
  <2>2. \A d \in Client : lash[d].state = "gone" /\ process[d] \in {"none", "stray"}
    BY <2>1 DEF Closed, NoLash
  <2>3. \A d \in Client : lash'[d].state \in {"gone", "lost"}
    BY <2>1, <2>2 DEF LashOf, NoLash
  <2>4. ProcessesOK'
    BY <2>1, <2>2, <2>3 DEF ProcessesOK
  <2>5. EntriesOK'
    BY <1>0, <2>1, <2>2 DEF EntriesOK, EntryOK, UniqueIn
  <2> QED BY <2>1, <2>4, <2>5 DEF Closed
<1> QED BY <1>1, <1>2, <1>3, <1>4, <1>5, <1>6, <1>7, ProgramsNamed DEF MainThread

LEMMA ProgramsInit ==
  ASSUME Init
  PROVE  NamesOK /\ ProcessesOK /\ EntriesOK /\ Closed
<1>1. \A c \in Client : c \in Program /\ lash[c].state \in {"none", "lost"}
  BY DEF Init, LashOf, Fresh, NoLash, Program
<1>2. NamesOK
  BY DEF Init, NamesOK
<1>3. ProcessesOK
  BY <1>1 DEF Init, ProcessesOK
<1>4. EntriesOK /\ Closed
  BY DEF Init, EntriesOK, UniqueIn, Closed
<1> QED BY <1>2, <1>3, <1>4

ProgramsInv == TypeInv /\ NamesOK /\ ProcessesOK /\ EntriesOK /\ Closed

LEMMA ProgramsStep == ProgramsInv /\ [Next]_vars => ProgramsInv'
<1> SUFFICES ASSUME ProgramsInv, [Next]_vars PROVE ProgramsInv'
  OBVIOUS
<1> USE DEF ProgramsInv
<1>1. TypeInv' /\ NamesOK'
  BY StepTypes, NamesStep
<1>2. CASE Next
  BY <1>1, <1>2, ProgramsEnvironment, ProgramsThread, ProgramsMain DEF Next
<1>3. CASE UNCHANGED vars
  BY <1>1, <1>3 DEF vars, jackVars, processVars, mgrVars, projectVars, ProcessesOK, EntriesOK,
                    EntryOK, UniqueIn, Closed
<1> QED BY <1>2, <1>3

------------------------------------------------------------------------------
(* Connections of the document *)

AddrFor(end) == At(name[end.of], end.port)
NotTold(c) == lash[c].jack_client_name = NoName

(* A patch waits with the client at its end until that one tells its name; *)
(* and of that client's ports lashd knows, or it will read of them.        *)
Waits(p, a) == NotTold(a.of) => p \in lash[a.of].jack_patches
KnownPorts(a) ==
  NotTold(a.of) /\ process[a.of] \notin {"none", "stray"} =>
    \A k \in PortId : ports[k] # NoPort /\ ports[k] = AddrFor(a) => KnownPort(k)

(* A patch that waits no more at its end a was spent there on its          *)
(* connection, which stands while the clients at both ends live.           *)
Spent(p, a, b) ==
  \A i \in DOMAIN clients : NamesIn(clients, i, a.of) /\ p \notin clients[i].old_patches =>
    /\ AddrFor(a) \in Registered
    /\ \/ Meant(p) \in wires
       \/ \A j \in DOMAIN clients : NamesIn(clients, j, b.of) => p \in clients[j].old_patches

(* While a connection that could be is not made, one end waits for a       *)
(* notice of its port.                                                     *)
Armed(p, i, a) ==
  /\ p \in clients[i].old_patches
  /\ \E k \in PortId : RegIn(notices, k) /\ ports[k] # NoPort /\ ports[k] = AddrFor(a)
Made(p) ==
  \A i, j \in DOMAIN clients :
    /\ NamesIn(clients, i, p.src.of) /\ NamesIn(clients, j, p.dest.of)
    /\ AddrFor(p.src) \in Registered /\ AddrFor(p.dest) \in Registered
    => Meant(p) \in wires \/ Armed(p, i, p.src) \/ Armed(p, j, p.dest)

DueOK(p) ==
  /\ BothById(p)
  /\ \A a \in Ends(p) : Waits(p, a) /\ KnownPorts(a)
  /\ Spent(p, p.src, p.dest) /\ Spent(p, p.dest, p.src)
  /\ Made(p)

LEMMA MeantEnds ==
  ASSUME NEW p
  PROVE  Meant(p) = <<AddrFor(p.src), AddrFor(p.dest)>> /\ p.src \in Ends(p) /\ p.dest \in Ends(p)
         /\ Meant(p)[1] = AddrFor(p.src) /\ Meant(p)[2] = AddrFor(p.dest)
BY DEF Meant, AddrFor, Ends

(* A live entry is of a process with a JACK name.                          *)
LEMMA LiveIsUp ==
  ASSUME ProgramsInv, NEW i \in DOMAIN clients, NEW c, NamesIn(clients, i, c)
  PROVE  c \in Client /\ c \in Program /\ name[c] # NoName /\ process[c] # "none" /\ name[c] \in Name
<1>1. clients[i].id = c /\ clients[i].name = name[c]
  BY DEF NamesIn
<1>2. c \in Client /\ name[c] # NoName /\ name[c] \in Name
  BY <1>1, EntryTypes DEF ProgramsInv
<1>3. process[c] # "none" /\ c \in Program
  BY <1>2 DEF ProgramsInv, ProcessesOK, Program
<1> QED BY <1>2, <1>3

LEMMA RegisteredAt ==
  ASSUME ProgramsInv, NEW k \in PortId, NEW end, ports[k] # NoPort, ports[k] = AddrFor(end)
  PROVE  name[end.of] \in Name /\ name[end.of] # NoName /\ ports[k].client = name[end.of]
         /\ \E x \in Program : name[x] = name[end.of]
<1>1. ports[k].client = name[end.of]
  BY DEF AddrFor, At
<1>2. ports[k] \in Addr
  BY DEF ProgramsInv, TypeInv, JackTypes
<1>3. name[end.of] \in Name
  BY <1>1, <1>2 DEF Addr
<1>4. \E x \in Program : name[x] = ports[k].client
  BY DEF ProgramsInv, NamesOK
<1> QED BY <1>1, <1>3, <1>4, JackAssumption

LEMMA GrownKnown ==
  ASSUME TypeInv, NEW added, Grown(notices', notices, added), NEW k \in PortId,
         Unreg(k) \notin added, foreign_ports' = foreign_ports, ports'[k] = ports[k], KnownPort(k)
  PROVE  KnownPort(k)'
<1>1. notices \in Seq(Notice)
  BY DEF TypeInv, JackTypes
<1>2. /\ AnnouncedIn(notices, k) => AnnouncedIn(notices', k)
      /\ NoUnreg(notices, k) => NoUnreg(notices', k)
  BY <1>1, GrownKeeps
<1> QED BY <1>2 DEF KnownPort

(* Steps that neither make a connection of a known client nor give a       *)
(* program its name or ports.                                              *)
LEMMA DueFrame ==
  ASSUME ProgramsInv, NEW p, DueOK(p), UNCHANGED <<name, ports>>,
         \A c \in Client : NotTold(c)' => NotTold(c) /\ lash'[c].jack_patches = lash[c].jack_patches,
         \A c \in Client : process'[c] \notin {"none", "stray"} =>
                          process[c] \notin {"none", "stray"} \/ name[c] = NoName,
         Meant(p) \in wires => Meant(p) \in wires',
         \A i \in DOMAIN clients' : \E j \in DOMAIN clients :
           /\ clients'[i].id = clients[j].id /\ clients'[i].name = clients[j].name
           /\ clients'[i].old_patches = clients[j].old_patches,
         \A k \in PortId : ports[k] # NoPort /\ KnownPort(k) => KnownPort(k)',
         \A k \in PortId : RegIn(notices, k) /\ ports[k] # NoPort =>
           RegIn(notices', k) \/ \A i \in DOMAIN clients : clients[i].name # ports[k].client
  PROVE  DueOK(p)'
<1>1. Registered' = Registered /\ Meant(p)' = Meant(p) /\ \A a : AddrFor(a)' = AddrFor(a)
  BY DEF Registered, Meant, AddrFor
<1>2. ASSUME NEW a \in Ends(p) PROVE Waits(p, a)' /\ KnownPorts(a)'
  <2>1. a.of \in Client
    BY DEF DueOK, BothById
  <2>2. Waits(p, a)'
    BY <2>1 DEF DueOK, Waits
  <2>3. ASSUME NEW k \in PortId, NotTold(a.of)', process'[a.of] \notin {"none", "stray"},
               ports'[k] # NoPort, ports'[k] = AddrFor(a)'
        PROVE  KnownPort(k)'
    <3>1. ports[k] # NoPort /\ ports[k] = AddrFor(a)
      BY <1>1, <2>3
    <3>2. NotTold(a.of) /\ process[a.of] \notin {"none", "stray"}
      BY <2>1, <2>3, <3>1, RegisteredAt
    <3>3. KnownPort(k)
      BY <3>1, <3>2 DEF DueOK, KnownPorts
    <3> QED BY <3>1, <3>3
  <2>4. KnownPorts(a)'
    BY <2>3 DEF KnownPorts
  <2> QED BY <2>2, <2>4
<1>3. ASSUME NEW i \in DOMAIN clients', NEW c, NamesIn(clients', i, c)
      PROVE  \E j \in DOMAIN clients : /\ NamesIn(clients, j, c) /\ clients'[i].id = clients[j].id
                                       /\ clients'[i].old_patches = clients[j].old_patches
  BY <1>3 DEF NamesIn
<1>4. \A i, c : NamesIn(clients, i, c)' = NamesIn(clients', i, c)
  BY DEF NamesIn
<1>5. ASSUME NEW a, NEW b, Spent(p, a, b) PROVE Spent(p, a, b)'
  <2>1. SUFFICES ASSUME NEW i \in DOMAIN clients', NamesIn(clients', i, a.of),
                        p \notin clients'[i].old_patches
                 PROVE  /\ AddrFor(a) \in Registered
                        /\ \/ Meant(p) \in wires'
                           \/ \A j \in DOMAIN clients' : NamesIn(clients', j, b.of) => p \in clients'[j].old_patches
    BY <1>1, <1>4 DEF Spent
  <2>2. PICK i0 \in DOMAIN clients : NamesIn(clients, i0, a.of) /\ p \notin clients[i0].old_patches
    BY <1>3, <2>1
  <2>3. /\ AddrFor(a) \in Registered
        /\ \/ Meant(p) \in wires
           \/ \A j \in DOMAIN clients : NamesIn(clients, j, b.of) => p \in clients[j].old_patches
    BY <1>5, <2>2 DEF Spent
  <2> QED BY <1>3, <2>3
<1>6. Made(p)'
  <2>1. SUFFICES ASSUME NEW i \in DOMAIN clients', NEW j \in DOMAIN clients',
                        NamesIn(clients', i, p.src.of), NamesIn(clients', j, p.dest.of),
                        AddrFor(p.src) \in Registered, AddrFor(p.dest) \in Registered,
                        Meant(p) \notin wires
                 PROVE  Armed(p, i, p.src)' \/ Armed(p, j, p.dest)'
    BY <1>1, <1>4 DEF Made
  <2>2. PICK i0 \in DOMAIN clients : /\ NamesIn(clients, i0, p.src.of)
                                     /\ clients'[i].old_patches = clients[i0].old_patches
    BY <1>3, <2>1
  <2>3. PICK j0 \in DOMAIN clients : /\ NamesIn(clients, j0, p.dest.of)
                                     /\ clients'[j].old_patches = clients[j0].old_patches
    BY <1>3, <2>1
  <2>4. Armed(p, i0, p.src) \/ Armed(p, j0, p.dest)
    BY <2>1, <2>2, <2>3 DEF DueOK, Made
  <2>5. ASSUME NEW a, NEW m \in DOMAIN clients, NEW n \in DOMAIN clients', NamesIn(clients, m, a.of),
               clients'[n].old_patches = clients[m].old_patches, Armed(p, m, a)
        PROVE  Armed(p, n, a)'
    <3>1. PICK k \in PortId : RegIn(notices, k) /\ ports[k] # NoPort /\ ports[k] = AddrFor(a)
      BY <2>5 DEF Armed
    <3>2. ports[k].client = clients[m].name
      BY <2>5, <3>1 DEF AddrFor, At, NamesIn
    <3>3. RegIn(notices', k)
      BY <3>1, <3>2
    <3> QED BY <1>1, <2>5, <3>1, <3>3 DEF Armed
  <2> QED BY <2>2, <2>3, <2>4, <2>5
<1>7. BothById(p)'
  BY DEF DueOK, BothById, Ends
<1> QED BY <1>2, <1>5, <1>6, <1>7 DEF DueOK

(* Steps in which JACK names, drops or gives a port to a program.          *)
LEMMA DueOpens ==
  ASSUME ProgramsInv, NEW p, DueOK(p), NEW x \in Program, OpenClient(x)
  PROVE  DueOK(p)'
<1>1. PICK n \in Name \ {name[y] : y \in Program} : name' = [name EXCEPT ![x] = n]
  BY DEF OpenClient
<1>2. /\ name[x] = NoName /\ n # NoName
      /\ UNCHANGED <<ports, wires, process, notices, lash, clients, foreign_ports>>
  BY JackAssumption DEF OpenClient, processVars, ExternalStep, mgrVars
<1>3. \A y \in Program : name'[y] = IF y = x THEN n ELSE name[y]
  BY <1>1 DEF ProgramsInv, TypeInv, JackTypes
<1>4. \A y \in Program : name[y] # n
  BY <1>1
<1>5. Client \subseteq Program /\ \A a \in Ends(p) : a.of \in Client
  BY DEF Program, DueOK, BothById
<1>6. ASSUME NEW i \in DOMAIN clients, NEW c, NamesIn(clients, i, c)'
      PROVE  NamesIn(clients, i, c) /\ name'[c] = name[c] /\ c # x
  <2>1. clients[i].id = c /\ clients[i].name = name'[c] /\ c \in Client /\ clients[i].name # NoName
    BY <1>2, <1>6, EntryTypes DEF NamesIn, ProgramsInv
  <2>2. c # x
    <3>1. SUFFICES ASSUME c = x PROVE FALSE
      OBVIOUS
    <3>2. process[x] # "none"
      BY <2>1, <3>1 DEF OpenClient
    <3>3. name[x] = clients[i].name
      BY <2>1, <3>1, <3>2 DEF ProgramsInv, EntriesOK, EntryOK
    <3> QED BY <1>2, <2>1, <3>3
  <2> QED BY <1>3, <1>5, <2>1, <2>2 DEF NamesIn
<1>7. ASSUME NEW a \in Ends(p) PROVE Waits(p, a)' /\ KnownPorts(a)'
  <2>1. Waits(p, a)'
    BY <1>2 DEF DueOK, Waits, NotTold
  <2>2. ASSUME NEW k \in PortId, NotTold(a.of), process[a.of] \notin {"none", "stray"},
               ports[k] # NoPort, ports[k] = At(name'[a.of], a.port)
        PROVE  KnownPort(k)'
    <3>1. ports[k].client = name'[a.of]
      BY <2>2 DEF At
    <3>2. PICK y \in Program : name[y] = ports[k].client
      BY <2>2 DEF ProgramsInv, NamesOK
    <3>3. a.of # x
      BY <1>3, <1>4, <3>1, <3>2
    <3>4. ports[k] = AddrFor(a)
      BY <1>3, <1>5, <2>2, <3>3 DEF AddrFor
    <3>5. KnownPort(k)
      BY <2>2, <3>4 DEF DueOK, KnownPorts
    <3> QED BY <1>2, <3>5 DEF KnownPort
  <2> QED BY <1>2, <2>1, <2>2 DEF KnownPorts, NotTold, AddrFor
<1>8. ASSUME NEW a, name'[a.of] = name[a.of] PROVE AddrFor(a)' = AddrFor(a)
  BY <1>8 DEF AddrFor
<1>9. Registered' = Registered
  BY <1>2 DEF Registered
<1>10. ASSUME NEW a \in Ends(p), NEW b \in Ends(p), Spent(p, a, b),
              \/ a = p.src /\ b = p.dest
              \/ a = p.dest /\ b = p.src
       PROVE  Spent(p, a, b)'
  <2>1. SUFFICES ASSUME NEW i \in DOMAIN clients, NamesIn(clients, i, a.of)',
                        p \notin clients[i].old_patches
                 PROVE  /\ AddrFor(a)' \in Registered'
                        /\ \/ Meant(p)' \in wires'
                           \/ \A j \in DOMAIN clients : NamesIn(clients, j, b.of)' => p \in clients[j].old_patches
    BY <1>2 DEF Spent, NamesIn
  <2>2. /\ AddrFor(a) \in Registered /\ AddrFor(a)' = AddrFor(a)
        /\ \/ Meant(p) \in wires
           \/ \A j \in DOMAIN clients : NamesIn(clients, j, b.of) => p \in clients[j].old_patches
    BY <1>6, <1>8, <1>10, <2>1 DEF Spent
  <2>3. SUFFICES ASSUME NEW j \in DOMAIN clients, NamesIn(clients, j, b.of)',
                        p \notin clients[j].old_patches
                 PROVE  Meant(p)' \in wires'
    BY <1>9, <2>2
  <2>4. NamesIn(clients, j, b.of) /\ AddrFor(b)' = AddrFor(b)
    BY <1>6, <1>8, <2>3
  <2>5. Meant(p)' = Meant(p)
    BY <1>10, <2>2, <2>4 DEF Meant, AddrFor
  <2> QED BY <1>2, <2>2, <2>3, <2>4, <2>5
<1>11. Made(p)'
  <2>1. SUFFICES ASSUME NEW i \in DOMAIN clients, NEW j \in DOMAIN clients,
                        NamesIn(clients, i, p.src.of)', NamesIn(clients, j, p.dest.of)',
                        AddrFor(p.src)' \in Registered', AddrFor(p.dest)' \in Registered'
                 PROVE  Meant(p)' \in wires' \/ Armed(p, i, p.src)' \/ Armed(p, j, p.dest)'
    BY <1>2 DEF Made, NamesIn
  <2>2. /\ NamesIn(clients, i, p.src.of) /\ AddrFor(p.src)' = AddrFor(p.src)
        /\ NamesIn(clients, j, p.dest.of) /\ AddrFor(p.dest)' = AddrFor(p.dest)
    BY <1>6, <1>8, <2>1
  <2>3. Meant(p)' = Meant(p)
    BY <2>2 DEF Meant, AddrFor
  <2>4. Meant(p) \in wires \/ Armed(p, i, p.src) \/ Armed(p, j, p.dest)
    BY <1>9, <2>1, <2>2 DEF DueOK, Made
  <2> QED BY <1>2, <2>2, <2>3, <2>4 DEF Armed
<1>12. BothById(p)' /\ p.src \in Ends(p) /\ p.dest \in Ends(p)
  BY DEF DueOK, BothById, Ends
<1> QED BY <1>7, <1>10, <1>11, <1>12 DEF DueOK

LEMMA DueExit ==
  ASSUME ProgramsInv, NEW p, DueOK(p), NEW x \in Program, Exit(x)
  PROVE  DueOK(p)'
<1> DEFINE added == {Reorder} \union {Unreg(i) : i \in Gone(x)}
<1>1. /\ Grown(notices', notices, added)
      /\ name' = [name EXCEPT ![x] = NoName]
      /\ ports' = [i \in PortId |-> IF i \in Gone(x) THEN NoPort ELSE ports[i]]
      /\ wires' = {w \in wires : name[x] \notin {w[1].client, w[2].client}}
  BY ExitTypes DEF ProgramsInv
<1>2. /\ process' = IF x \in Client THEN [process EXCEPT ![x] = "none"] ELSE process
      /\ UNCHANGED <<lash, clients, foreign_ports>>
  BY DEF Exit, ExternalStep, mgrVars
<1>3. /\ \A y \in Program : name'[y] = IF y = x THEN NoName ELSE name[y]
      /\ \A c \in Client : process'[c] = IF c = x THEN "none" ELSE process[c]
  BY <1>1, <1>2 DEF ProgramsInv, TypeInv, JackTypes, LashdTypes
<1>4. \A k : Unreg(k) \in added => k \in Gone(x)
  BY NoticesDiffer
<1> HIDE DEF added
<1>5. Client \subseteq Program /\ \A a \in Ends(p) : a.of \in Client
  BY DEF Program, DueOK, BothById
<1>6. ASSUME NEW i \in DOMAIN clients, NEW c, NamesIn(clients, i, c)'
      PROVE  NamesIn(clients, i, c) /\ c # x /\ c \in Program /\ name'[c] = name[c]
             /\ name[c] # name[x]
  <2>1. clients[i].id = c /\ clients[i].name = name'[c] /\ c \in Client /\ clients[i].name # NoName
    BY <1>2, <1>6, EntryTypes DEF NamesIn, ProgramsInv
  <2>2. c # x /\ name'[c] = name[c]
    BY <1>3, <1>5, <2>1
  <2> QED BY <1>5, <2>1, <2>2 DEF NamesIn, ProgramsInv, NamesOK
<1>7. ASSUME NEW a \in Ends(p) PROVE Waits(p, a)' /\ KnownPorts(a)'
  <2>1. Waits(p, a)'
    BY <1>2 DEF DueOK, Waits, NotTold
  <2>2. ASSUME NEW k \in PortId, NotTold(a.of), process'[a.of] \notin {"none", "stray"},
               ports'[k] # NoPort, ports'[k] = At(name'[a.of], a.port)
        PROVE  KnownPort(k)'
    <3>1. a.of # x /\ process[a.of] = process'[a.of] /\ name'[a.of] = name[a.of]
      BY <1>3, <1>5, <2>2
    <3>2. k \notin Gone(x) /\ ports'[k] = ports[k]
      BY <1>1, <2>2
    <3>3. ports[k] = AddrFor(a)
      BY <2>2, <3>1, <3>2 DEF AddrFor
    <3>4. KnownPort(k)
      BY <2>2, <3>1, <3>2, <3>3 DEF DueOK, KnownPorts
    <3>5. Unreg(k) \notin added
      BY <1>4, <3>2
    <3> QED BY <1>1, <1>2, <3>2, <3>4, <3>5, GrownKnown DEF ProgramsInv
  <2> QED BY <1>2, <2>1, <2>2 DEF KnownPorts, NotTold, AddrFor
<1>8. ASSUME NEW a, name'[a.of] = name[a.of] PROVE AddrFor(a)' = AddrFor(a)
  BY <1>8 DEF AddrFor
<1>9. ASSUME NEW k \in PortId, ports[k].client # name[x] PROVE ports'[k] = ports[k]
  BY <1>1, <1>9 DEF Gone
<1>10. ASSUME NEW a, name[a.of] # name[x]
       PROVE  AddrFor(a) \in Registered <=> AddrFor(a) \in Registered'
  <2>1. AddrFor(a).client # name[x]
    BY <1>10 DEF AddrFor, At
  <2>2. \A k \in PortId : ports'[k] \in {NoPort, ports[k]}
    BY <1>1
  <2> QED BY <1>9, <2>1, <2>2 DEF Registered
<1>11. ASSUME name[p.src.of] # name[x], name[p.dest.of] # name[x]
       PROVE  Meant(p) \in wires => Meant(p) \in wires'
  <2>1. Meant(p)[1].client = name[p.src.of] /\ Meant(p)[2].client = name[p.dest.of]
    BY DEF Meant, At
  <2> QED BY <1>1, <1>11, <2>1
<1>12. ASSUME NEW a \in Ends(p), NEW b \in Ends(p), Spent(p, a, b),
              \/ a = p.src /\ b = p.dest
              \/ a = p.dest /\ b = p.src
       PROVE  Spent(p, a, b)'
  <2>1. SUFFICES ASSUME NEW i \in DOMAIN clients, NamesIn(clients, i, a.of)',
                        p \notin clients[i].old_patches
                 PROVE  /\ AddrFor(a)' \in Registered'
                        /\ \/ Meant(p)' \in wires'
                           \/ \A j \in DOMAIN clients : NamesIn(clients, j, b.of)' => p \in clients[j].old_patches
    BY <1>2 DEF Spent, NamesIn
  <2>2. /\ AddrFor(a) \in Registered /\ AddrFor(a)' = AddrFor(a) /\ name[a.of] # name[x]
        /\ \/ Meant(p) \in wires
           \/ \A j \in DOMAIN clients : NamesIn(clients, j, b.of) => p \in clients[j].old_patches
    BY <1>6, <1>8, <1>12, <2>1 DEF Spent
  <2>3. SUFFICES ASSUME NEW j \in DOMAIN clients, NamesIn(clients, j, b.of)',
                        p \notin clients[j].old_patches
                 PROVE  Meant(p)' \in wires'
    BY <1>10, <2>2
  <2>4. NamesIn(clients, j, b.of) /\ AddrFor(b)' = AddrFor(b) /\ name[b.of] # name[x]
    BY <1>6, <1>8, <2>3
  <2>5. Meant(p)' = Meant(p)
    BY <1>12, <2>2, <2>4 DEF Meant, AddrFor
  <2> QED BY <1>11, <1>12, <2>2, <2>3, <2>4, <2>5
<1>13. Made(p)'
  <2>1. SUFFICES ASSUME NEW i \in DOMAIN clients, NEW j \in DOMAIN clients,
                        NamesIn(clients, i, p.src.of)', NamesIn(clients, j, p.dest.of)',
                        AddrFor(p.src)' \in Registered', AddrFor(p.dest)' \in Registered'
                 PROVE  Meant(p)' \in wires' \/ Armed(p, i, p.src)' \/ Armed(p, j, p.dest)'
    BY <1>2 DEF Made, NamesIn
  <2>2. /\ NamesIn(clients, i, p.src.of) /\ AddrFor(p.src)' = AddrFor(p.src) /\ name[p.src.of] # name[x]
        /\ NamesIn(clients, j, p.dest.of) /\ AddrFor(p.dest)' = AddrFor(p.dest) /\ name[p.dest.of] # name[x]
    BY <1>6, <1>8, <2>1
  <2>3. Meant(p)' = Meant(p)
    BY <2>2 DEF Meant, AddrFor
  <2>4. Meant(p) \in wires \/ Armed(p, i, p.src) \/ Armed(p, j, p.dest)
    BY <1>10, <2>1, <2>2 DEF DueOK, Made
  <2>5. ASSUME NEW a, NEW m, Armed(p, m, a), AddrFor(a)' = AddrFor(a), name[a.of] # name[x]
        PROVE  Armed(p, m, a)'
    <3>1. PICK k \in PortId : RegIn(notices, k) /\ ports[k] # NoPort /\ ports[k] = AddrFor(a)
      BY <2>5 DEF Armed
    <3>2. ports'[k] = ports[k]
      BY <1>9, <2>5, <3>1 DEF AddrFor, At
    <3>3. RegIn(notices', k)
      BY <1>1, <3>1, GrownKeeps DEF ProgramsInv, TypeInv, JackTypes
    <3> QED BY <1>2, <2>5, <3>1, <3>2, <3>3 DEF Armed
  <2> QED BY <1>11, <2>2, <2>3, <2>4, <2>5
<1>14. BothById(p)' /\ p.src \in Ends(p) /\ p.dest \in Ends(p)
  BY DEF DueOK, BothById, Ends
<1> QED BY <1>7, <1>12, <1>13, <1>14 DEF DueOK

LEMMA DueRegisters ==
  ASSUME ProgramsInv, NEW p, DueOK(p), NEW x \in Program, NEW q \in PortsOf[x], RegisterPort(x, q)
  PROVE  DueOK(p)'
<1>1. /\ ports[FreeId] = NoPort /\ ports' = [ports EXCEPT ![FreeId] = At(name[x], q)]
      /\ notices' = Append(notices, Reg(FreeId)) /\ Reg(FreeId) \in Notice /\ FreeId \in PortId
  BY RegisterPortTypes DEF ProgramsInv
<1>2. PICK f \in PortId : f = FreeId
  BY <1>1
<1>3. /\ UNCHANGED <<name, wires, process, lash, clients, foreign_ports>>
      /\ At(name[x], q) \notin Registered
  BY DEF RegisterPort, processVars, ExternalStep, mgrVars
<1>4. /\ \A k \in PortId : ports'[k] = IF k = f THEN At(name[x], q) ELSE ports[k]
      /\ ports[f] = NoPort
  BY <1>1, <1>2 DEF ProgramsInv, TypeInv, JackTypes
<1> DEFINE added == {Reg(f)}
<1>5. Grown(notices', notices, added) /\ RegIn(notices', f) /\ AnnouncedIn(notices', f)
  <2>1. notices \in Seq(Notice) /\ notices' = Append(notices, Reg(f)) /\ Reg(f) \in Notice
    BY <1>1, <1>2 DEF ProgramsInv, TypeInv, JackTypes
  <2>2. /\ Grown(notices', notices, added) /\ Len(notices') = Len(notices) + 1
        /\ notices'[Len(notices) + 1] = Reg(f)
    BY <2>1, AppendGrows
  <2>3. /\ Len(notices) + 1 \in DOMAIN notices' /\ DOMAIN notices' = 1..Len(notices) + 1
        /\ Len(notices) \in Nat
    BY <2>1, <2>2 DEF Grown
  <2> QED BY <2>2, <2>3 DEF RegIn, AnnouncedIn
<1>6. \A k : Unreg(k) \notin added
  BY NoticesDiffer
<1> HIDE DEF added
<1>7. \A k \in PortId : ports[k] # NoPort => ports'[k] = ports[k] /\ k # f
  BY <1>4
<1>8. Registered \subseteq Registered'
  BY <1>7 DEF Registered
<1>9. \A a : AddrFor(a)' = AddrFor(a)
  BY <1>3 DEF AddrFor
<1>10. ASSUME NEW a \in Ends(p) PROVE Waits(p, a)' /\ KnownPorts(a)'
  <2>1. Waits(p, a)'
    BY <1>3 DEF DueOK, Waits, NotTold
  <2>2. ASSUME NEW k \in PortId, NotTold(a.of), process[a.of] \notin {"none", "stray"},
               ports'[k] # NoPort, ports'[k] = AddrFor(a)
        PROVE  KnownPort(k)'
    <3>1. CASE k = f
      BY <1>5, <3>1 DEF KnownPort
    <3>2. CASE k # f
      <4>1. ports[k] = ports'[k]
        BY <1>4, <3>2
      <4>2. KnownPort(k)
        BY <2>2, <4>1 DEF DueOK, KnownPorts
      <4> QED BY <1>3, <1>5, <1>6, <4>1, <4>2, GrownKnown DEF ProgramsInv
    <3> QED BY <3>1, <3>2
  <2> QED BY <1>3, <1>9, <2>1, <2>2 DEF KnownPorts, NotTold
<1>11. ASSUME NEW a, NEW b, Spent(p, a, b) PROVE Spent(p, a, b)'
  BY <1>3, <1>8, <1>9, <1>11 DEF Spent, NamesIn, Meant
<1>12. Made(p)'
  <2>1. SUFFICES ASSUME NEW i \in DOMAIN clients, NEW j \in DOMAIN clients,
                        NamesIn(clients, i, p.src.of), NamesIn(clients, j, p.dest.of),
                        AddrFor(p.src) \in Registered', AddrFor(p.dest) \in Registered'
                 PROVE  Meant(p) \in wires \/ Armed(p, i, p.src)' \/ Armed(p, j, p.dest)'
    BY <1>3, <1>9 DEF Made, NamesIn, Meant
  <2>2. ASSUME NEW a, NEW b, NEW m \in DOMAIN clients, NamesIn(clients, m, a.of), Spent(p, a, b),
               AddrFor(a) \in Registered', AddrFor(a) \notin Registered
        PROVE  Armed(p, m, a)'
    <3>1. p \in clients[m].old_patches
      BY <2>2 DEF Spent
    <3>2. PICK k \in PortId : ports'[k] = AddrFor(a) /\ ports'[k] # NoPort
      BY <2>2 DEF Registered
    <3>3. k = f
      BY <1>4, <2>2, <3>2 DEF Registered
    <3> QED BY <1>3, <1>5, <1>9, <3>1, <3>2, <3>3 DEF Armed
  <2>3. ASSUME NEW m \in DOMAIN clients, NEW a, Armed(p, m, a) PROVE Armed(p, m, a)'
    <3>1. PICK k \in PortId : RegIn(notices, k) /\ ports[k] # NoPort /\ ports[k] = AddrFor(a)
      BY <2>3 DEF Armed
    <3>2. RegIn(notices', k)
      BY <1>5, <3>1, GrownKeeps DEF ProgramsInv, TypeInv, JackTypes
    <3> QED BY <1>3, <1>7, <1>9, <2>3, <3>1, <3>2 DEF Armed
  <2>4. CASE AddrFor(p.src) \in Registered /\ AddrFor(p.dest) \in Registered
    BY <2>1, <2>3, <2>4 DEF DueOK, Made
  <2>5. CASE AddrFor(p.src) \notin Registered
    BY <2>1, <2>2, <2>5 DEF DueOK
  <2>6. CASE AddrFor(p.dest) \notin Registered
    BY <2>1, <2>2, <2>6 DEF DueOK
  <2> QED BY <2>4, <2>5, <2>6
<1>13. BothById(p)'
  BY DEF DueOK, BothById, Ends
<1> QED BY <1>10, <1>11, <1>12, <1>13 DEF DueOK

(* A notice of a port of the known client with the entry at i.             *)
LEMMA DuePort ==
  ASSUME ProgramsInv, NEW p \in due', DueOK(p), ThreadFrame,
         NEW id \in PortId, NEW i \in DOMAIN clients, NEW opened, TakesPort(id, i, opened)
  PROVE  DueOK(p)'
<1> DEFINE T == Tail(notices)
           spent == Resumed(clients, clients[i], opened)
<1>1. /\ notices # <<>> /\ Head(notices) = Reg(id) /\ notices \in Seq(Notice)
      /\ ports[id] # NoPort /\ clients[i].name = ports[id].client /\ opened = {ports[id].port}
      /\ ResumePorts(clients, i, opened, T)
      /\ Alike(clients', AfterResuming(clients, i, opened))
      /\ UNCHANGED <<foreign_ports, name, ports, process, lash>>
      /\ clients \in Seq(Entry) /\ T \in Seq(Notice)
  BY HeadTailProperties DEF TakesPort, ThreadFrame, ProgramsInv, TypeInv, JackTypes, LashdTypes
<1>2. wires \subseteq wires' /\ Grown(notices', T, {Reorder})
  BY <1>1, ResumedTypes DEF ProgramsInv, TypeInv
<1>3. \A k : /\ RegIn(notices, k) => RegIn(T, k) \/ Head(notices) = Reg(k)
             /\ AnnouncedIn(notices, k) => \/ AnnouncedIn(T, k)
                                           \/ Head(notices) = Reg(k) /\ NoUnreg(T, k)
             /\ NoUnreg(notices, k) => NoUnreg(T, k) /\ Head(notices) # Unreg(k)
  BY <1>1, TailKeeps
<1>4. ASSUME NEW k
      PROVE  /\ RegIn(notices, k) => RegIn(notices', k) \/ k = id
             /\ AnnouncedIn(notices, k) => AnnouncedIn(notices', k) \/ k = id
             /\ NoUnreg(notices, k) => NoUnreg(notices', k)
  <2> DEFINE added == {Reorder}
  <2>1. Unreg(k) \notin added /\ (Head(notices) = Reg(k) => k = id)
    BY <1>1, NoticesDiffer
  <2> HIDE DEF added, T
  <2>2. /\ RegIn(T, k) => RegIn(notices', k)
        /\ AnnouncedIn(T, k) => AnnouncedIn(notices', k)
        /\ NoUnreg(T, k) => NoUnreg(notices', k)
    BY <1>1, <1>2, <2>1, GrownKeeps DEF added
  <2> QED BY <1>3, <2>1, <2>2
<1>5. /\ p \in due /\ \A end \in Ends(p) : end.of = clients[i].id \/ name[end.of] # clients[i].name
  BY <1>1 DEF ResumePorts, GivenUp, TakenFor, Ends
<1>6. p \in spent => /\ Meant(p) \in wires'
                     /\ AddrFor(p.src) \in Registered /\ AddrFor(p.dest) \in Registered
  BY <1>1, SpentIsMade, MeantEnds
<1> HIDE DEF spent
<1>7. /\ DOMAIN clients' = DOMAIN clients
      /\ \A j \in DOMAIN clients :
           /\ clients'[j].id = clients[j].id /\ clients'[j].name = clients[j].name
           /\ clients'[j].old_patches = IF j = i THEN clients[j].old_patches \ spent ELSE clients[j].old_patches
  <2> DEFINE list == AfterResuming(clients, i, opened)
  <2>1. Resumes(list, clients, i, opened) /\ Alike(clients', list)
    BY <1>1, ResumedEntries
  <2> HIDE DEF list
  <2>2. /\ list \in Seq(Entry) /\ Len(list) = Len(clients)
        /\ \A j \in DOMAIN clients :
             /\ list[j].id = clients[j].id /\ list[j].name = clients[j].name
             /\ list[j].old_patches = IF j = i THEN clients[i].old_patches \ spent ELSE clients[j].old_patches
    BY <2>1 DEF Resumes, spent
  <2>4. DOMAIN list = DOMAIN clients
    BY <1>1, <2>2
  <2>3. SameOld(clients', list)
    BY <2>1, <2>2, AlikeSame
  <2> QED BY <2>2, <2>3, <2>4 DEF SameOld, SameNames
<1>8. Registered' = Registered /\ Meant(p)' = Meant(p) /\ \A a : AddrFor(a)' = AddrFor(a)
  BY <1>1 DEF Registered, Meant, AddrFor
<1>9. \A j \in DOMAIN clients : \A c : NamesIn(clients, j, c)' <=> NamesIn(clients, j, c)
  BY <1>1, <1>7 DEF NamesIn
<1>10. p.src \in Ends(p) /\ p.dest \in Ends(p) /\ \A a \in Ends(p) : a.of \in Client
  BY DEF Ends, DueOK, BothById
<1>11. ASSUME NEW a \in Ends(p), ports[id] = AddrFor(a) PROVE a.of = clients[i].id
  <2>1. ports[id].client = name[a.of]
    BY <1>11 DEF AddrFor, At
  <2> QED BY <1>1, <1>5, <2>1
<1>12. ASSUME NEW a \in Ends(p) PROVE Waits(p, a)' /\ KnownPorts(a)'
  <2>1. Waits(p, a)'
    BY <1>1 DEF DueOK, Waits, NotTold
  <2>2. ASSUME NEW k \in PortId, NotTold(a.of), process[a.of] \notin {"none", "stray"},
               ports[k] # NoPort, ports[k] = AddrFor(a)
        PROVE  KnownPort(k)'
    <3>1. KnownPort(k)
      BY <2>2 DEF DueOK, KnownPorts
    <3>2. k # id
      <4>1. ASSUME k = id PROVE FALSE
        <5>1. a.of = clients[i].id
          BY <1>11, <2>2, <4>1
        <5> QED BY <2>2, <5>1 DEF ProgramsInv, EntriesOK, EntryOK, NotTold
      <4> QED BY <4>1
    <3> QED BY <1>1, <1>4, <3>1, <3>2 DEF KnownPort
  <2>3. KnownPorts(a)'
    BY <1>1, <1>8, <2>2 DEF KnownPorts, NotTold
  <2> QED BY <2>1, <2>3
<1>13. ASSUME NEW a \in Ends(p), NEW b, Spent(p, a, b) PROVE Spent(p, a, b)'
  <2>1. SUFFICES ASSUME NEW m \in DOMAIN clients, NamesIn(clients, m, a.of),
                        p \notin clients'[m].old_patches
                 PROVE  /\ AddrFor(a) \in Registered
                        /\ \/ Meant(p) \in wires'
                           \/ \A j \in DOMAIN clients : NamesIn(clients, j, b.of) => p \in clients'[j].old_patches
    BY <1>7, <1>8, <1>9 DEF Spent
  <2>2. CASE p \in spent
    BY <1>6, <2>2 DEF Ends
  <2>3. CASE p \notin spent
    BY <1>2, <1>7, <1>13, <2>1, <2>3 DEF Spent
  <2> QED BY <2>2, <2>3
<1>14. Made(p)'
  <2>1. SUFFICES ASSUME NEW m \in DOMAIN clients, NEW n \in DOMAIN clients,
                        NamesIn(clients, m, p.src.of), NamesIn(clients, n, p.dest.of),
                        AddrFor(p.src) \in Registered, AddrFor(p.dest) \in Registered,
                        Meant(p) \notin wires'
                 PROVE  Armed(p, m, p.src)' \/ Armed(p, n, p.dest)'
    BY <1>7, <1>8, <1>9 DEF Made
  <2>2. p \notin spent
    BY <1>6, <2>1
  <2>3. Armed(p, m, p.src) \/ Armed(p, n, p.dest)
    BY <1>2, <2>1 DEF DueOK, Made
  <2>4. ASSUME NEW l \in DOMAIN clients, NEW a \in Ends(p), NamesIn(clients, l, a.of),
               Armed(p, l, a)
        PROVE  Armed(p, l, a)'
    <3>1. PICK k \in PortId : RegIn(notices, k) /\ ports[k] # NoPort /\ ports[k] = AddrFor(a)
      BY <2>4 DEF Armed
    <3>2. CASE RegIn(notices', k)
      BY <1>1, <1>7, <1>8, <2>2, <2>4, <3>1, <3>2 DEF Armed
    <3>3. CASE k = id
      <4>1. l = i
        BY <1>11, <2>4, <3>1, <3>3 DEF NamesIn, ProgramsInv, EntriesOK, UniqueIn
      <4>2. a.port \in opened /\ p \in clients[i].old_patches
        BY <1>1, <2>4, <3>1, <3>3, <4>1 DEF AddrFor, At, Armed
      <4>3. UniqueIn(clients) /\ BothById(p)
        BY DEF ProgramsInv, EntriesOK, DueOK
      <4>4. Meant(p)[1] \in Registered /\ Meant(p)[2] \in Registered
        BY <2>1, MeantEnds
      <4>5. (i = m /\ p.src.port \in opened) \/ (i = n /\ p.dest.port \in opened)
        <5>1. a = p.src => i = m
          BY <2>1, <2>4, <4>1, <4>3 DEF NamesIn, UniqueIn
        <5>2. a = p.dest => i = n
          BY <2>1, <2>4, <4>1, <4>3 DEF NamesIn, UniqueIn
        <5>3. a = p.src \/ a = p.dest
          BY <2>4 DEF Ends
        <5> QED BY <4>2, <5>1, <5>2, <5>3
      <4> HIDE DEF T
      <4>6. Meant(p) \in wires'
        BY <1>1, <2>1, <4>2, <4>3, <4>4, <4>5, OpenedIsMade
      <4> QED BY <2>1, <4>6
    <3> QED BY <1>4, <3>1, <3>2, <3>3
  <2>5. Armed(p, m, p.src) => Armed(p, m, p.src)'
    BY <1>10, <2>1, <2>4
  <2>6. Armed(p, n, p.dest) => Armed(p, n, p.dest)'
    BY <1>10, <2>1, <2>4
  <2> QED BY <2>3, <2>5, <2>6
<1>15. BothById(p)'
  BY DEF DueOK, BothById, Ends
<1> QED BY <1>10, <1>12, <1>13, <1>14, <1>15 DEF DueOK

(* A client's name.                                                        *)
LEMMA DueNamed ==
  ASSUME ProgramsInv, NEW p \in due', DueOK(p), NEW c \in Client, told[c] # NoName,
         UNCHANGED <<name, ports, process>>, lash[c].state = "running",
         lash[c].jack_client_name = NoName, UniqueIn(Added(c)),
         \A i \in DOMAIN clients : clients[i].id # c,
         NEW opened, TakesName(c, opened)
  PROVE  DueOK(p)'
<1> DEFINE list == Added(c)
<1>0. PICK L : L = Len(list)
  OBVIOUS
<1> DEFINE spent == Resumed(list, list[L], opened)
<1>1. /\ list \in Seq(Entry) /\ L \in DOMAIN list /\ L = Len(clients) + 1
      /\ DOMAIN list = 1..Len(clients) + 1 /\ DOMAIN clients = 1..Len(clients)
      /\ \A i \in DOMAIN clients : list[i] = clients[i]
      /\ list[L].id = c /\ list[L].name = told[c] /\ list[L].old_patches = lash[c].jack_patches
      /\ Len(clients) \in Nat
  BY <1>0, AddedEntries DEF ProgramsInv
<1>2. /\ opened = {f.addr.port : f \in {g \in foreign_ports : g.addr.client = told[c]}}
      /\ ResumePorts(list, L, opened, notices)
      /\ foreign_ports' = {f \in foreign_ports : f.addr.client # told[c]}
      /\ UniqueIn(list)
  BY <1>0 DEF TakesName
<1>3. /\ clients' \in Seq(Entry) /\ Len(clients') = L
      /\ DOMAIN clients' = DOMAIN clients \union {L} /\ L \notin DOMAIN clients
      /\ \A i \in DOMAIN clients :
           /\ clients'[i].id = clients[i].id /\ clients'[i].name = clients[i].name
           /\ clients'[i].old_patches = clients[i].old_patches
      /\ clients'[L].id = c /\ clients'[L].name = told[c]
      /\ clients'[L].old_patches = lash[c].jack_patches \ spent
      /\ \A d \in Client : /\ d = c => lash'[d].jack_client_name = told[c]
                           /\ d # c => lash'[d] = lash[d]
  <2>1. NamedEntries(c, opened)
    BY NamedTypes DEF ProgramsInv
  <2>2. Len(clients') = L
    BY <1>1, <2>1 DEF NamedEntries
  <2> QED BY <1>0, <2>1, <2>2 DEF NamedEntries
<1> HIDE DEF list
<1>4. wires \subseteq wires' /\ Grown(notices', notices, {Reorder})
  BY <1>1, <1>2, ResumedTypes DEF ProgramsInv, TypeInv, JackTypes
<1>5. /\ p \in due
      /\ opened # {} => \A end \in Ends(p) : end.of = c \/ name[end.of] # told[c]
  BY <1>1, <1>2 DEF ResumePorts, GivenUp, TakenFor, Ends
<1>6. p \in spent => /\ Meant(p) \in wires'
                     /\ AddrFor(p.src) \in Registered /\ AddrFor(p.dest) \in Registered
  BY <1>2, SpentIsMade, MeantEnds
<1> HIDE DEF spent
<1>7. Registered' = Registered /\ Meant(p)' = Meant(p) /\ \A a : AddrFor(a)' = AddrFor(a)
  BY DEF Registered, Meant, AddrFor
<1>8. /\ \A j \in DOMAIN clients : \A d : NamesIn(clients, j, d)' <=> NamesIn(clients, j, d)
      /\ \A j \in DOMAIN clients : \A d : NamesIn(list, j, d) <=> NamesIn(clients, j, d)
      /\ \A d : NamesIn(clients, L, d)' <=> (d = c /\ name[c] = told[c])
      /\ \A d : NamesIn(list, L, d) <=> (d = c /\ name[c] = told[c])
  BY <1>1, <1>3 DEF NamesIn
<1>9. p.src \in Ends(p) /\ p.dest \in Ends(p) /\ \A a \in Ends(p) : a.of \in Client
  BY DEF Ends, DueOK, BothById
<1>10. \A a \in Ends(p) : a.of = c => p \in lash[c].jack_patches
  BY DEF DueOK, Waits, NotTold
<1>11. \A k : /\ RegIn(notices, k) => RegIn(notices', k)
              /\ AnnouncedIn(notices, k) => AnnouncedIn(notices', k)
              /\ NoUnreg(notices, k) => NoUnreg(notices', k)
  <2> DEFINE added == {Reorder}
  <2>1. \A k : Unreg(k) \notin added
    BY NoticesDiffer
  <2>2. notices \in Seq(Notice) /\ Grown(notices', notices, added)
    BY <1>4 DEF ProgramsInv, TypeInv, JackTypes
  <2> HIDE DEF added
  <2> QED BY <2>1, <2>2, GrownKeeps
<1>12. ASSUME NEW a \in Ends(p) PROVE Waits(p, a)' /\ KnownPorts(a)'
  <2>1. NotTold(a.of)' => NotTold(a.of) /\ a.of # c /\ lash'[a.of] = lash[a.of]
    BY <1>3, <1>9 DEF NotTold
  <2>2. Waits(p, a)'
    BY <2>1 DEF DueOK, Waits
  <2>3. ASSUME NEW k \in PortId, NotTold(a.of)', process[a.of] \notin {"none", "stray"},
               ports[k] # NoPort, ports[k] = AddrFor(a)
        PROVE  KnownPort(k)'
    <3>1. KnownPort(k)
      BY <2>1, <2>3 DEF DueOK, KnownPorts
    <3>2. CASE AnnouncedIn(notices, k)
      BY <1>11, <3>2 DEF KnownPort
    <3>3. CASE [id |-> k, addr |-> ports[k]] \in foreign_ports /\ NoUnreg(notices, k)
      <4> DEFINE f == [id |-> k, addr |-> ports[k]]
      <4>1. f.addr = ports[k] /\ ports[k].client = name[a.of]
        BY <2>3 DEF AddrFor, At
      <4>2. f.addr.client # told[c]
        <5>1. SUFFICES ASSUME f.addr.client = told[c] PROVE FALSE
          OBVIOUS
        <5>2. f.addr.port \in opened
          BY <1>2, <3>3, <5>1
        <5> QED BY <1>5, <2>1, <2>3, <4>1, <5>1, <5>2
      <4>3. f \in foreign_ports'
        BY <1>2, <3>3, <4>2
      <4> QED BY <1>11, <3>3, <4>3 DEF KnownPort
    <3> QED BY <3>1, <3>2, <3>3 DEF KnownPort
  <2>4. KnownPorts(a)'
    BY <1>7, <2>3 DEF KnownPorts
  <2> QED BY <2>2, <2>4
<1>13. ASSUME NEW a \in Ends(p), NEW b \in Ends(p), Spent(p, a, b) PROVE Spent(p, a, b)'
  <2>1. SUFFICES ASSUME NEW m \in DOMAIN clients', NamesIn(clients, m, a.of)',
                        p \notin clients'[m].old_patches, Meant(p) \notin wires'
                        \/ AddrFor(a) \notin Registered
                 PROVE  /\ AddrFor(a) \in Registered
                        /\ \A j \in DOMAIN clients' : NamesIn(clients, j, b.of)' => p \in clients'[j].old_patches
    BY <1>7 DEF Spent
  <2>2. p \notin spent
    BY <1>6, <2>1 DEF Ends
  <2>3. m # L
    BY <1>3, <1>8, <1>10, <2>1, <2>2
  <2>4. /\ AddrFor(a) \in Registered
        /\ \/ Meant(p) \in wires
           \/ \A j \in DOMAIN clients : NamesIn(clients, j, b.of) => p \in clients[j].old_patches
    BY <1>3, <1>8, <1>13, <2>1, <2>3 DEF Spent
  <2>5. ASSUME NEW j \in DOMAIN clients', NamesIn(clients, j, b.of)' PROVE p \in clients'[j].old_patches
    <3>1. CASE j = L
      BY <1>3, <1>8, <1>10, <2>2, <2>5, <3>1
    <3>2. CASE j \in DOMAIN clients
      BY <1>3, <1>4, <1>8, <2>1, <2>4, <2>5, <3>2
    <3> QED BY <1>3, <3>1, <3>2
  <2> QED BY <2>4, <2>5
<1>14. Made(p)'
  <2>1. SUFFICES ASSUME NEW m \in DOMAIN clients', NEW n \in DOMAIN clients',
                        NamesIn(clients, m, p.src.of)', NamesIn(clients, n, p.dest.of)',
                        AddrFor(p.src) \in Registered, AddrFor(p.dest) \in Registered,
                        Meant(p) \notin wires'
                 PROVE  Armed(p, m, p.src)' \/ Armed(p, n, p.dest)'
    BY <1>7 DEF Made
  <2>2. p \notin spent
    BY <1>6, <2>1
  <2>3. CASE m \in DOMAIN clients /\ n \in DOMAIN clients
    <3>1. Armed(p, m, p.src) \/ Armed(p, n, p.dest)
      BY <1>4, <1>8, <2>1, <2>3 DEF DueOK, Made
    <3> QED BY <1>3, <1>7, <1>11, <2>3, <3>1 DEF Armed
  <2>4. ASSUME NEW a \in Ends(p), NamesIn(clients, L, a.of)', AddrFor(a) \in Registered
        PROVE  Armed(p, L, a)'
    <3>1. a.of = c /\ name[c] = told[c] /\ p \in lash[c].jack_patches
      BY <1>8, <1>10, <2>4
    <3>2. PICK k \in PortId : ports[k] # NoPort /\ ports[k] = AddrFor(a)
      BY <2>4 DEF Registered
    <3>3. NotTold(c) /\ process[c] \notin {"none", "stray"}
      BY <3>1 DEF NotTold, ProgramsInv, ProcessesOK
    <3>4. KnownPort(k)
      BY <3>1, <3>2, <3>3 DEF DueOK, KnownPorts
    <3>5. CASE AnnouncedIn(notices, k)
      <4>1. RegIn(notices', k)
        BY <1>11, <3>5 DEF AnnouncedIn, RegIn
      <4> QED BY <1>3, <1>7, <2>2, <3>1, <3>2, <4>1 DEF Armed
    <3>6. CASE [id |-> k, addr |-> ports[k]] \in foreign_ports
      <4> DEFINE f == [id |-> k, addr |-> ports[k]]
      <4>1. f.addr.client = told[c] /\ f.addr.port = a.port
        BY <3>1, <3>2 DEF AddrFor, At
      <4>2. a.port \in opened
        BY <1>2, <3>6, <4>1
      <4>3. BothById(p) /\ Meant(p)[1] \in Registered /\ Meant(p)[2] \in Registered
        BY <2>1, MeantEnds DEF DueOK
      <4>4. m \in DOMAIN list /\ n \in DOMAIN list
        BY <1>1, <1>3
      <4>5. NamesIn(list, m, p.src.of) /\ NamesIn(list, n, p.dest.of)
        BY <1>3, <1>8, <2>1
      <4>7. NamesIn(list, L, a.of)
        BY <1>8, <2>4
      <4>8. (L = m /\ p.src.port \in opened) \/ (L = n /\ p.dest.port \in opened)
        <5>1. a = p.src => L = m
          BY <1>1, <1>2, <4>4, <4>5, <4>7 DEF NamesIn, UniqueIn
        <5>2. a = p.dest => L = n
          BY <1>1, <1>2, <4>4, <4>5, <4>7 DEF NamesIn, UniqueIn
        <5>3. a = p.src \/ a = p.dest
          BY <2>4 DEF Ends
        <5> QED BY <4>2, <5>1, <5>2, <5>3
      <4>6. Meant(p) \in wires'
        BY <1>1, <1>2, <4>8, <3>1, <4>2, <4>3, <4>4, <4>5, OpenedIsMade
      <4> QED BY <2>1, <4>6
    <3> QED BY <3>4, <3>5, <3>6 DEF KnownPort
  <2>5. m = L => Armed(p, m, p.src)'
    BY <1>9, <2>1, <2>4
  <2>6. n = L => Armed(p, n, p.dest)'
    BY <1>9, <2>1, <2>4
  <2> QED BY <1>3, <2>1, <2>3, <2>5, <2>6
<1>15. BothById(p)'
  BY DEF DueOK, BothById, Ends
<1> QED BY <1>9, <1>12, <1>13, <1>14, <1>15 DEF DueOK

(* A document that is loaded.                                              *)
LEMMA DueLoaded ==
  ASSUME NEW d, NEW p \in AtBothEnds(d), NEW other
  PROVE  BothById(p) /\ \A a \in Ends(p) : LashOf(d, other)[a.of] =
           [state |-> "lost", jack_client_name |-> NoName, jack_patches |-> d[a.of]] /\ p \in d[a.of]
BY DEF AtBothEnds, BothById, Ends, LashOf, SavedIn, NoLash

LEMMA DueEnvironment ==
  ASSUME ProgramsInv, NEW p \in due', DueOK(p), Environment
  PROVE  DueOK(p)'
<1>0. \A k \in PortId : KnownPort(k) /\ UNCHANGED <<ports, foreign_ports, notices>> => KnownPort(k)'
  BY DEF KnownPort
<1>1. ASSUME UNCHANGED <<name, ports, lash, clients, foreign_ports>>,
             Meant(p) \in wires => Meant(p) \in wires',
             \A c \in Client : process'[c] \notin {"none", "stray"} =>
                               process[c] \notin {"none", "stray"} \/ name[c] = NoName,
             notices' = notices \/ Grown(notices', notices, {Reorder})
      PROVE  DueOK(p)'
  <2>1. ASSUME NEW k \in PortId
        PROVE  (KnownPort(k) => KnownPort(k)') /\ (RegIn(notices, k) => RegIn(notices', k))
    <3>1. CASE notices' = notices
      BY <1>0, <1>1, <3>1
    <3>2. CASE Grown(notices', notices, {Reorder})
      <4> DEFINE added == {Reorder}
      <4>1. Unreg(k) \notin added
        BY NoticesDiffer
      <4>2. Grown(notices', notices, added) /\ notices \in Seq(Notice)
        BY <3>2 DEF ProgramsInv, TypeInv, JackTypes
      <4> HIDE DEF added
      <4>3. KnownPort(k) => KnownPort(k)'
        BY <1>1, <4>1, <4>2, GrownKnown DEF ProgramsInv
      <4>4. RegIn(notices, k) => RegIn(notices', k)
        BY <4>2, GrownKeeps
      <4> QED BY <4>3, <4>4
    <3> QED BY <1>1, <3>1, <3>2
  <2>2. \A c \in Client : NotTold(c)' => NotTold(c) /\ lash'[c].jack_patches = lash[c].jack_patches
    BY <1>1 DEF NotTold
  <2> QED BY <1>1, <2>1, <2>2, DueFrame
<1>2. ASSUME NEW w \in Wire, UserConnects(w) PROVE DueOK(p)'
  <2>1. UNCHANGED <<name, ports, lash, clients, foreign_ports, process>> /\ wires \subseteq wires'
    BY <1>2 DEF UserConnects, processVars, ExternalStep, mgrVars
  <2>2. Grown(notices', notices, {Reorder})
    BY <1>2, UserConnectsTypes DEF ProgramsInv
  <2> QED BY <1>1, <2>1, <2>2
<1>3. ASSUME NEW w \in wires, UserDisconnects(w) PROVE DueOK(p)'
  <2>1. /\ UNCHANGED <<name, ports, lash, clients, foreign_ports, process>>
        /\ wires' = wires \ {w} /\ Meant(p) # w
    BY <1>3 DEF UserDisconnects, processVars, ExternalStep, mgrVars
  <2>2. Grown(notices', notices, {Reorder})
    BY <1>3, UserDisconnectsTypes DEF ProgramsInv
  <2> QED BY <1>1, <2>1, <2>2
<1>4. ASSUME NEW c \in Client, Start(c) PROVE DueOK(p)'
  <2>1. /\ UNCHANGED <<name, ports, lash, clients, foreign_ports, wires, notices>>
        /\ process[c] = "none" /\ process' = [process EXCEPT ![c] = "up"]
    BY <1>4 DEF Start, jackVars, ExternalStep, mgrVars
  <2>2. \A d \in Client : process'[d] \notin {"none", "stray"} =>
                          process[d] \notin {"none", "stray"} \/ name[d] = NoName
    BY <2>1 DEF ProgramsInv, ProcessesOK, TypeInv, LashdTypes
  <2> QED BY <1>1, <2>1, <2>2
<1>5. ASSUME NEW c \in Client, TellName(c) PROVE DueOK(p)'
  <2>1. /\ UNCHANGED <<name, ports, lash, clients, foreign_ports, wires, notices>>
        /\ process[c] = "connected" /\ process' = [process EXCEPT ![c] = "told"]
    BY <1>5 DEF TellName, jackVars, ExternalStep, mgrVars
  <2>2. \A d \in Client : process'[d] \notin {"none", "stray"} =>
                          process[d] \notin {"none", "stray"} \/ name[d] = NoName
    BY <2>1 DEF ProgramsInv, TypeInv, LashdTypes
  <2> QED BY <1>1, <2>1, <2>2
<1> QED BY <1>2, <1>3, <1>4, <1>5, DueOpens, DueExit, DueRegisters DEF Environment

LEMMA DueThread ==
  ASSUME ProgramsInv, NEW p \in due', DueOK(p), Thread
  PROVE  DueOK(p)'
<1>1. /\ ThreadFrame
      /\ \/ \E id \in PortId, i \in DOMAIN clients : \E opened : TakesPort(id, i, opened)
         \/ TakesNoPort
  BY ThreadCases DEF ProgramsInv
<1>2. CASE TakesNoPort
  <2>1. /\ UNCHANGED <<name, ports, process, lash, wires>>
        /\ \A i \in DOMAIN clients' : \E j \in DOMAIN clients :
             /\ clients'[i].id = clients[j].id /\ clients'[i].name = clients[j].name
             /\ clients'[i].old_patches = clients[j].old_patches
        /\ \A k \in PortId : ports[k] # NoPort /\ KnownPort(k) => KnownPort(k)'
        /\ \A k \in PortId : RegIn(notices, k) /\ ports[k] # NoPort =>
             RegIn(notices', k) \/ \A i \in DOMAIN clients : clients[i].name # ports[k].client
    BY <1>1, <1>2 DEF ThreadFrame, TakesNoPort, SameOld, SameNames
  <2>2. \A c \in Client : NotTold(c)' => NotTold(c) /\ lash'[c].jack_patches = lash[c].jack_patches
    BY <2>1 DEF NotTold
  <2> QED BY <2>1, <2>2, DueFrame
<1> QED BY <1>1, <1>2, DuePort

LEMMA DueMain ==
  ASSUME ProgramsInv, NEW p \in due', p \in due => DueOK(p), MainThread
  PROVE  DueOK(p)'
<1>1. ASSUME p \in due, UNCHANGED <<name, ports, foreign_ports, notices, wires>>,
             \A c \in Client : /\ lash'[c].jack_client_name = lash[c].jack_client_name
                               /\ lash'[c].jack_patches = lash[c].jack_patches,
             \A c \in Client : process'[c] \notin {"none", "stray"} =>
                               process[c] \notin {"none", "stray"} \/ name[c] = NoName,
             \A i \in DOMAIN clients' : \E j \in DOMAIN clients : clients'[i] = clients[j]
      PROVE  DueOK(p)'
  <2>1. \A c \in Client : NotTold(c)' => NotTold(c) /\ lash'[c].jack_patches = lash[c].jack_patches
    BY <1>1 DEF NotTold
  <2>2. \A k \in PortId : KnownPort(k) => KnownPort(k)'
    BY <1>1 DEF KnownPort
  <2>3. \A i \in DOMAIN clients' : \E j \in DOMAIN clients :
             /\ clients'[i].id = clients[j].id /\ clients'[i].name = clients[j].name
             /\ clients'[i].old_patches = clients[j].old_patches
    BY <1>1
  <2> QED BY <1>1, <2>1, <2>2, <2>3, DueFrame
<1>2. ASSUME NEW c \in Client, Connect(c) PROVE DueOK(p)'
  <2>1. /\ UNCHANGED <<name, ports, foreign_ports, notices, wires, clients, due>>
        /\ process[c] = "up" /\ process' = [process EXCEPT ![c] = "connected"]
        /\ lash' = [lash EXCEPT ![c].state = "running"]
    BY <1>2 DEF Connect, jackVars, mgrVars
  <2>2. /\ \A d \in Client : /\ lash'[d].jack_client_name = lash[d].jack_client_name
                             /\ lash'[d].jack_patches = lash[d].jack_patches
        /\ \A d \in Client : process'[d] \notin {"none", "stray"} =>
                             process[d] \notin {"none", "stray"} \/ name[d] = NoName
    BY <2>1 DEF ProgramsInv, TypeInv, LashdTypes, LashClient
  <2> QED BY <1>1, <2>1, <2>2
<1>3. ASSUME NEW c \in Client, JackName(c) PROVE DueOK(p)'
  <2>1. /\ UNCHANGED <<name, ports, process, ends, lashd, loaded, saving, doc>>
        /\ told[c] # NoName /\ lash[c].state = "running"
        /\ \/ /\ lash[c].jack_client_name = NoName /\ \E opened : TakesName(c, opened)
              /\ UniqueIn(Added(c)) /\ \A i \in DOMAIN clients : clients[i].id # c
           \/ UNCHANGED <<lash, wires, notices, clients, foreign_ports, due, unread>>
    BY <1>3, NameCases DEF ProgramsInv
  <2>2. CASE UNCHANGED <<lash, wires, notices, clients, foreign_ports, due, unread>>
    BY <1>1, <2>1, <2>2
  <2>3. ASSUME NEW opened, TakesName(c, opened), lash[c].jack_client_name = NoName,
               UniqueIn(Added(c)), \A i \in DOMAIN clients : clients[i].id # c
        PROVE  DueOK(p)'
    <3>1. p \in due
      BY <2>3 DEF TakesName, ResumePorts
    <3> QED BY <2>1, <2>3, <3>1, DueNamed
  <2> QED BY <2>1, <2>2, <2>3
<1>4. ASSUME NEW c \in Client, Disconnect(c) PROVE DueOK(p)'
  <2>1. /\ UNCHANGED <<name, ports, foreign_ports, notices, wires, process, due>>
        /\ lash' = [lash EXCEPT ![c].state = "lost"] /\ clients' = Without(clients, {c})
    BY <1>4 DEF Disconnect, jackVars, processVars
  <2>2. \A d \in Client : /\ lash'[d].jack_client_name = lash[d].jack_client_name
                          /\ lash'[d].jack_patches = lash[d].jack_patches
    BY <2>1 DEF ProgramsInv, TypeInv, LashdTypes, LashClient
  <2>3. \A i \in DOMAIN clients' : \E j \in DOMAIN clients : clients'[i] = clients[j]
    BY <2>1, StayingEntries DEF ProgramsInv
  <2> QED BY <1>1, <2>1, <2>2, <2>3
<1>5. ASSUME NEW c \in Client, Launch(c) PROVE DueOK(p)'
  <2>1. /\ UNCHANGED <<name, ports, foreign_ports, notices, wires, clients, due, lash>>
        /\ process[c] = "none" /\ process' = [process EXCEPT ![c] = "up"]
    BY <1>5 DEF Launch, jackVars, mgrVars
  <2>2. \A d \in Client : process'[d] \notin {"none", "stray"} =>
                          process[d] \notin {"none", "stray"} \/ name[d] = NoName
    BY <2>1 DEF ProgramsInv, ProcessesOK, TypeInv, LashdTypes
  <2> QED BY <1>1, <2>1, <2>2
<1>6. CASE Save
  <2>1. /\ UNCHANGED <<name, ports, foreign_ports, notices, wires, clients, due, process>>
        /\ \A d \in Client : /\ lash'[d].jack_client_name = lash[d].jack_client_name
                             /\ lash'[d].jack_patches = lash[d].jack_patches
    BY <1>6 DEF Save, jackVars, processVars, mgrVars, ProgramsInv, TypeInv, LashdTypes, LashClient
  <2> QED BY <1>1, <2>1
<1>7. CASE SaveEnds
  <2>1. UNCHANGED <<name, ports, foreign_ports, notices, wires, clients, due, process, lash>>
    BY <1>7 DEF SaveEnds, jackVars, processVars, mgrVars
  <2> QED BY <1>1, <2>1
<1>8. CASE Close
  BY <1>8 DEF Close
<1>9. CASE Load
  <2>1. /\ UNCHANGED <<name, process, clients>> /\ ~loaded /\ p \in AtBothEnds(doc)
        /\ lash' = LashOf(doc, lash)
    BY <1>9 DEF Load, jackVars, processVars, mgrVars
  <2>2. DOMAIN clients = {}
    <3>1. \A i \in DOMAIN clients : clients[i].id \in Client /\ lash[clients[i].id].state = "running"
      BY EntryTypes DEF ProgramsInv, EntriesOK, EntryOK
    <3>2. \A c \in Client : lash[c].state # "running"
      BY <2>1 DEF ProgramsInv, Closed, NoLash
    <3> QED BY <3>1, <3>2
  <2>3. /\ BothById(p)
        /\ \A a \in Ends(p) : LashOf(doc, lash)[a.of] =
             [state |-> "lost", jack_client_name |-> NoName, jack_patches |-> doc[a.of]] /\ p \in doc[a.of]
    BY <2>1, DueLoaded
  <2>4. BothById(p)' /\ \A a \in Ends(p) : Waits(p, a)'
    BY <2>1, <2>3 DEF Waits, BothById, Ends
  <2>5. \A a \in Ends(p) : KnownPorts(a)'
    BY <2>1, <2>3 DEF KnownPorts, BothById, ProgramsInv, Closed
  <2>6. Spent(p, p.src, p.dest)' /\ Spent(p, p.dest, p.src)' /\ Made(p)'
    BY <2>1, <2>2 DEF Spent, Made
  <2> QED BY <2>4, <2>5, <2>6 DEF DueOK, Ends
<1> QED BY <1>2, <1>3, <1>4, <1>5, <1>6, <1>7, <1>8, <1>9 DEF MainThread

DueInv == ProgramsInv /\ \A p \in due : DueOK(p)

LEMMA DueInit == Init => DueInv
<1> SUFFICES ASSUME Init PROVE DueInv
  OBVIOUS
<1>1. ProgramsInv
  BY InitTypes, ProgramsInit DEF ProgramsInv
<1>2. ASSUME NEW p \in due PROVE DueOK(p)
  <2>1. p \in AtBothEnds(doc) /\ lash = LashOf(doc, Fresh) /\ DOMAIN clients = {}
        /\ \A c \in Client : process[c] = "none"
    BY DEF Init
  <2>2. /\ BothById(p)
        /\ \A a \in Ends(p) : lash[a.of] =
             [state |-> "lost", jack_client_name |-> NoName, jack_patches |-> doc[a.of]] /\ p \in doc[a.of]
    BY <2>1, DueLoaded
  <2>3. ASSUME NEW a \in Ends(p) PROVE Waits(p, a) /\ KnownPorts(a)
    <3>0. /\ lash[a.of] = [state |-> "lost", jack_client_name |-> NoName, jack_patches |-> doc[a.of]]
          /\ p \in doc[a.of]
      BY <2>2
    <3>1. lash[a.of].jack_patches = doc[a.of] /\ p \in doc[a.of]
      BY <3>0
    <3>2. process[a.of] = "none"
      BY <2>1, <2>2 DEF BothById
    <3> QED BY <3>1, <3>2 DEF Waits, KnownPorts
  <2>4. Spent(p, p.src, p.dest) /\ Spent(p, p.dest, p.src) /\ Made(p)
    BY <2>1 DEF Spent, Made
  <2> QED BY <2>2, <2>3, <2>4 DEF DueOK
<1> QED BY <1>1, <1>2 DEF DueInv

LEMMA DueStep == DueInv /\ [Next]_vars => DueInv'
<1> SUFFICES ASSUME DueInv, [Next]_vars PROVE DueInv'
  OBVIOUS
<1> USE DEF DueInv
<1>1. ProgramsInv'
  BY ProgramsStep
<1>2. ASSUME NEW p \in due' PROVE DueOK(p)'
  <2>1. CASE Environment
    <3>1. p \in due
      BY <2>1 DEF Environment, OpenClient, Exit, RegisterPort, UserConnects, UserDisconnects, Start,
                  TellName
    <3> QED BY <2>1, <3>1, DueEnvironment
  <2>2. CASE Thread
    <3>1. p \in due
      BY <2>2, ThreadEntries DEF ProgramsInv
    <3> QED BY <2>2, <3>1, DueThread
  <2>3. CASE MainThread
    BY <2>3, DueMain
  <2>4. CASE UNCHANGED vars
    <3>1. DueOK(p)
      BY <2>4 DEF vars
    <3>2. UNCHANGED <<name, ports, wires, process, notices, clients, foreign_ports, lash>>
      BY <2>4 DEF vars, jackVars, processVars, mgrVars
    <3>3. ASSUME NEW a PROVE (Waits(p, a) => Waits(p, a)') /\ (KnownPorts(a) => KnownPorts(a)')
      BY <3>2 DEF Waits, KnownPorts, KnownPort, Armed, NotTold, AddrFor, NamesIn, Registered
    <3>4. ASSUME NEW a, NEW b, Spent(p, a, b) PROVE Spent(p, a, b)'
      BY <3>2, <3>4 DEF Spent, AddrFor, NamesIn, Meant, Registered, NotTold, Armed
    <3>5. Made(p) => Made(p)'
      BY <3>2 DEF Made, Armed, AddrFor, NamesIn, Meant, Registered
    <3> QED BY <3>1, <3>3, <3>4, <3>5 DEF DueOK, BothById, Ends
  <2> QED BY <2>1, <2>2, <2>3, <2>4 DEF Next
<1> QED BY <1>1, <1>2

------------------------------------------------------------------------------
(* Copies of the connections *)

(* The copy of a client's connections is what JACK has, or there is a      *)
(* notice to read them again, unless it was added since they were read.    *)
CopiesOK ==
  \A i \in DOMAIN clients :
    clients[i].id \notin unread /\ clients[i].name = name[clients[i].id] =>
      clients[i].patches = WiresOf(clients[i].name) \/ ReorderIn(notices)

LEMMA CopiesStep ==
  ASSUME ProgramsInv, CopiesOK, [Next]_vars
  PROVE  CopiesOK'
<1>0. notices \in Seq(Notice) /\ clients \in Seq(Entry)
  BY DEF ProgramsInv, TypeInv, JackTypes, LashdTypes
<1>1. ASSUME UNCHANGED <<clients, name, unread, wires>>, ReorderIn(notices) => ReorderIn(notices')
      PROVE  CopiesOK'
  BY <1>1 DEF CopiesOK, WiresOf
<1>2. ASSUME ReorderIn(notices') PROVE CopiesOK'
  BY <1>2 DEF CopiesOK
<1>3. CASE Environment
  <2>1. ASSUME NEW x \in Program, OpenClient(x) PROVE CopiesOK'
    <3>1. PICK n \in Name : name' = [name EXCEPT ![x] = n]
      BY <2>1 DEF OpenClient
    <3>2. /\ name[x] = NoName /\ (x \in Client => process[x] # "none")
          /\ UNCHANGED <<clients, notices, wires, unread>>
      BY <2>1 DEF OpenClient, ExternalStep, mgrVars
    <3>3. ASSUME NEW i \in DOMAIN clients PROVE clients[i].id # x /\ name'[clients[i].id] = name[clients[i].id]
      <4>1. clients[i].id \in Client /\ clients[i].name # NoName
        BY EntryTypes DEF ProgramsInv
      <4>2. clients[i].id # x
        BY <3>2, <4>1 DEF ProgramsInv, EntriesOK, EntryOK
      <4> QED BY <3>1, <4>1, <4>2 DEF ProgramsInv, TypeInv, JackTypes, Program
    <3> QED BY <3>2, <3>3 DEF CopiesOK, WiresOf
  <2>2. ASSUME NEW x \in Program, Exit(x) PROVE CopiesOK'
    <3>1. CASE name[x] # NoName
      BY <1>2, <2>2, <3>1, ExitTypes DEF ProgramsInv
    <3>2. CASE name[x] = NoName
      <4>1. name' = [name EXCEPT ![x] = NoName] /\ UNCHANGED <<clients, unread>>
            /\ wires' = {w \in wires : name[x] \notin {w[1].client, w[2].client}}
            /\ \E added : Grown(notices', notices, added)
        BY <2>2, ExitTypes DEF Exit, ExternalStep, mgrVars, ProgramsInv
      <4>2. \A w \in wires : w[1].client # NoName /\ w[2].client # NoName
        BY RegisteredFinite, JackAssumption DEF ProgramsInv, TypeInv, JackTypes, Addr
      <4>3. wires' = wires /\ name' = name
        BY <3>2, <4>1, <4>2 DEF ProgramsInv, TypeInv, JackTypes
      <4> QED BY <1>0, <1>1, <4>1, <4>3, GrownKeeps
    <3> QED BY <3>1, <3>2
  <2>3. ASSUME NEW x \in Program, NEW q \in PortsOf[x], RegisterPort(x, q) PROVE CopiesOK'
    <3>1. UNCHANGED <<clients, name, unread, wires>>
      BY <2>3 DEF RegisterPort, ExternalStep, mgrVars
    <3>2. notices' = Append(notices, Reg(FreeId)) /\ Reg(FreeId) \in Notice
      BY <2>3, RegisterPortTypes DEF ProgramsInv
    <3>3. \E added : Grown(notices', notices, added)
      BY <1>0, <3>2, AppendGrows
    <3> QED BY <1>0, <1>1, <3>1, <3>3, GrownKeeps
  <2>4. ASSUME NEW w \in Wire, UserConnects(w) PROVE CopiesOK'
    BY <1>2, <2>4, UserConnectsTypes DEF ProgramsInv
  <2>5. ASSUME NEW w \in wires, UserDisconnects(w) PROVE CopiesOK'
    BY <1>2, <2>5, UserDisconnectsTypes DEF ProgramsInv
  <2>6. ASSUME NEW c \in Client, Start(c) \/ TellName(c) PROVE CopiesOK'
    BY <1>1, <2>6 DEF Start, TellName, jackVars, ExternalStep, mgrVars
  <2> QED BY <1>3, <2>1, <2>2, <2>3, <2>4, <2>5, <2>6 DEF Environment
<1>4. CASE Thread
  <2>1. /\ ThreadFrame
        /\ \/ \E id \in PortId, i \in DOMAIN clients : \E opened : TakesPort(id, i, opened)
           \/ TakesNoPort
    BY <1>4, ThreadCases DEF ProgramsInv
  <2>2. CASE TakesNoPort
    <3>1. /\ name' = name /\ wires' = wires /\ DOMAIN clients' = DOMAIN clients
          /\ \A i \in DOMAIN clients : clients'[i].id = clients[i].id /\ clients'[i].name = clients[i].name
      BY <2>1, <2>2 DEF ThreadFrame, TakesNoPort, SameOld, SameNames
    <3>2. CASE \A i \in DOMAIN clients : clients'[i].patches = WiresOf(clients[i].name)
      BY <3>1, <3>2 DEF CopiesOK, WiresOf
    <3>3. CASE /\ \A i \in DOMAIN clients : clients'[i].patches = clients[i].patches
               /\ UNCHANGED unread /\ (ReorderIn(notices) => ReorderIn(notices'))
      BY <3>1, <3>3 DEF CopiesOK, WiresOf
    <3> QED BY <2>2, <3>2, <3>3 DEF TakesNoPort
  <2>3. ASSUME NEW id \in PortId, NEW i \in DOMAIN clients, NEW opened, TakesPort(id, i, opened)
        PROVE  CopiesOK'
    <3> DEFINE T == Tail(notices)
    <3>1. /\ notices # <<>> /\ Head(notices) = Reg(id) /\ T \in Seq(Notice)
          /\ ResumePorts(clients, i, opened, T)
          /\ Alike(clients', AfterResuming(clients, i, opened)) /\ UNCHANGED <<unread, name>>
      BY <1>0, <2>1, <2>3, HeadTailProperties DEF TakesPort, ThreadFrame
    <3>2. Head(notices) # Reorder
      BY <3>1, NoticesDiffer
    <3>3. ReorderIn(notices) => ReorderIn(T)
      BY <1>0, <3>1, <3>2, TailKeeps
    <3> HIDE DEF T
    <3>4. Grown(notices', T, {Reorder}) /\ (wires' # wires => ReorderIn(notices'))
      BY <1>0, <3>1, ResumedTypes DEF ProgramsInv, TypeInv
    <3>5. ReorderIn(T) => ReorderIn(notices')
      BY <3>1, <3>4, GrownKeeps
    <3>6. /\ DOMAIN clients' = DOMAIN clients
          /\ \A j \in DOMAIN clients :
               /\ clients'[j].id = clients[j].id /\ clients'[j].name = clients[j].name
               /\ clients'[j].patches = clients[j].patches
      <4> DEFINE list == AfterResuming(clients, i, opened)
      <4>1. Resumes(list, clients, i, opened) /\ Alike(clients', list)
        BY <1>0, <3>1, ResumedEntries
      <4> HIDE DEF list
      <4>2. /\ list \in Seq(Entry) /\ Len(list) = Len(clients)
            /\ \A j \in DOMAIN clients :
                 /\ list[j].id = clients[j].id /\ list[j].name = clients[j].name
                 /\ list[j].patches = clients[j].patches
        BY <4>1 DEF Resumes
      <4>3. DOMAIN list = DOMAIN clients
        BY <1>0, <4>2
      <4>4. SameOld(clients', list) /\ \A j \in DOMAIN list : clients'[j].patches = list[j].patches
        BY <4>1, <4>2, AlikeSame
      <4> QED BY <4>2, <4>3, <4>4 DEF SameOld, SameNames
    <3> QED BY <1>2, <3>1, <3>3, <3>4, <3>5, <3>6 DEF CopiesOK, WiresOf
  <2> QED BY <2>1, <2>2, <2>3
<1>5. ASSUME UNCHANGED <<name, unread, wires, notices>>,
             \A i \in DOMAIN clients' : \E j \in DOMAIN clients : clients'[i] = clients[j]
      PROVE  CopiesOK'
  BY <1>5 DEF CopiesOK, WiresOf
<1>6. CASE MainThread
  <2>1. ASSUME NEW c \in Client, JackName(c) PROVE CopiesOK'
    <3>1. /\ name' = name /\ told[c] # NoName
          /\ \/ \E opened : TakesName(c, opened)
             \/ UNCHANGED <<lash, wires, notices, clients, foreign_ports, due, unread>>
      BY <2>1, NameCases DEF ProgramsInv
    <3>2. ASSUME NEW opened, TakesName(c, opened) PROVE CopiesOK'
      <4>1. NamedEntries(c, opened)
        BY <3>1, <3>2, NamedTypes DEF ProgramsInv
      <4>2. PICK n : /\ DOMAIN clients' = DOMAIN clients \union {n} /\ clients'[n].id = c
        BY <4>1 DEF NamedEntries
      <4>3. \A i \in DOMAIN clients :
              /\ clients'[i].id = clients[i].id /\ clients'[i].name = clients[i].name
              /\ clients'[i].patches = clients[i].patches
        BY <4>1 DEF NamedEntries
      <4>4. unread' = unread \union {c} /\ ResumePorts(Added(c), Len(Added(c)), opened, notices)
        BY <3>2 DEF TakesName
      <4>5. Grown(notices', notices, {Reorder}) /\ (wires' # wires => ReorderIn(notices'))
        BY <1>0, <3>1, <4>4, AddedEntries, ResumedTypes DEF ProgramsInv, TypeInv
      <4>6. ReorderIn(notices) => ReorderIn(notices')
        BY <1>0, <4>5, GrownKeeps
      <4>7. CASE wires' = wires
        <5>1. ASSUME NEW i \in DOMAIN clients', clients'[i].id \notin unread' PROVE i \in DOMAIN clients
          BY <4>2, <4>4, <5>1
        <5> QED BY <3>1, <4>3, <4>4, <4>6, <4>7, <5>1 DEF CopiesOK, WiresOf
      <4> QED BY <1>2, <4>5, <4>7
    <3> QED BY <1>1, <3>1, <3>2
  <2>2. ASSUME NEW c \in Client, Connect(c) \/ Launch(c) PROVE CopiesOK'
    BY <1>1, <2>2 DEF Connect, Launch, jackVars, mgrVars
  <2>3. ASSUME Save \/ SaveEnds \/ Load PROVE CopiesOK'
    BY <1>1, <2>3 DEF Save, SaveEnds, Load, jackVars, mgrVars
  <2>4. ASSUME NEW c \in Client, Disconnect(c) PROVE CopiesOK'
    <3>1. clients' = Without(clients, {c}) /\ UNCHANGED <<name, unread, wires, notices>>
      BY <2>4 DEF Disconnect, jackVars
    <3> QED BY <1>5, <3>1, StayingEntries DEF ProgramsInv
  <2>5. ASSUME Close PROVE CopiesOK'
    <3>1. clients' = Without(clients, Running) /\ UNCHANGED <<name, unread, wires, notices>>
      BY <2>5 DEF Close, jackVars
    <3> QED BY <1>5, <3>1, StayingEntries DEF ProgramsInv
  <2> QED BY <1>6, <2>1, <2>2, <2>3, <2>4, <2>5 DEF MainThread
<1>7. CASE UNCHANGED vars
  BY <1>1, <1>7 DEF vars, jackVars, mgrVars
<1> QED BY <1>3, <1>4, <1>6, <1>7 DEF Next

------------------------------------------------------------------------------
(* The invariants hold *)

JackInv == DueInv /\ CopiesOK

LEMMA JackInvariant == Spec => []JackInv
<1>1. Init => JackInv
  <2>1. Init => CopiesOK
    BY DEF Init, CopiesOK
  <2> QED BY <2>1, DueInit DEF JackInv
<1>2. JackInv /\ [Next]_vars => JackInv'
  BY DueStep, CopiesStep DEF JackInv, DueInv
<1> QED BY <1>1, <1>2, PTL DEF Spec

(* JACK's tables, the manager's lists and the project keep their types     *)
(* through every step of jack_mgr.c and of the programs.                   *)
THEOREM JackTypeCorrect == Spec => []TypeOK
<1>1. TypeInv => TypeOK
  <2> SUFFICES ASSUME TypeInv PROVE TypeOK
    OBVIOUS
  <2>1. \A nt \in ToSet(notices) : nt.kind \in {"registered", "unregistered", "reorder"}
    <3>1. SUFFICES ASSUME NEW k \in DOMAIN notices
                   PROVE  notices[k].kind \in {"registered", "unregistered", "reorder"}
      BY DEF ToSet
    <3>2. notices[k] \in Notice
      BY DEF TypeInv, JackTypes
    <3> QED BY <3>2 DEF Notice, Reorder, Reg, Unreg
  <2>2. ToSet(clients) \subseteq Entry
    BY DEF TypeInv, LashdTypes, ToSet
  <2>3. {lashd, loaded, saving} \subseteq BOOLEAN
    BY DEF TypeInv, LashdTypes
  <2> QED BY <2>1, <2>2, <2>3 DEF TypeInv, JackTypes, LashdTypes, LashClient, TypeOK
<1>2. JackInv => TypeOK
  BY <1>1 DEF JackInv, DueInv, ProgramsInv
<1> QED BY <1>2, JackInvariant, PTL

(* When lashd has read all notices, each connection that the document has  *)
(* at both its ends, and that neither end gave up, is made as soon as both *)
(* clients told their names and both ports are registered                  *)
(* (jack_mgr_new_client_port, jack_mgr_check_client_ports).                *)
THEOREM ConnectionsAreRestored == Spec => []RestoresConnections
<1>1. JackInv => RestoresConnections
  <2>1. SUFFICES ASSUME JackInv, notices = <<>>, NEW p \in due, Present(p.src), Present(p.dest)
                 PROVE  Meant(p) \in wires
    BY DEF RestoresConnections, Quiet
  <2>2. ASSUME NEW c, Has(c) PROVE \E i \in DOMAIN clients : NamesIn(clients, i, c)
    <3> DEFINE i == FindById(clients, c)
    <3>1. clients \in Seq(Entry)
      BY <2>1 DEF JackInv, DueInv, ProgramsInv, TypeInv, LashdTypes
    <3>2. i \in {0} \union DOMAIN clients /\ (i # 0 => clients[i].id = c)
      BY <3>1, FoundById
    <3>3. i # 0 /\ clients[i].name = name[c]
      BY <2>2 DEF Has
    <3> HIDE DEF i
    <3> QED BY <3>2, <3>3 DEF NamesIn
  <2>3. PICK i \in DOMAIN clients : NamesIn(clients, i, p.src.of)
    BY <2>1, <2>2 DEF Present
  <2>4. PICK j \in DOMAIN clients : NamesIn(clients, j, p.dest.of)
    BY <2>1, <2>2 DEF Present
  <2>5. Made(p)
    BY <2>1 DEF JackInv, DueInv, DueOK
  <2>6. AddrFor(p.src) \in Registered /\ AddrFor(p.dest) \in Registered
    BY <2>1 DEF Present, AddrFor
  <2>7. \A k : ~RegIn(notices, k)
    BY <2>1 DEF RegIn
  <2> QED BY <2>3, <2>4, <2>5, <2>6, <2>7 DEF Made, Armed
<1> QED BY <1>1, JackInvariant, PTL

(* The full names of a patch's ends, where the list's names are true.      *)
LEMMA UnsetIsRight ==
  ASSUME NEW list \in Seq(Entry), clients' \in Seq(Entry), SameNames(clients', list),
         \A k \in DOMAIN list : process[list[k].id] # "none" => name[list[k].id] = list[k].name,
         NEW end
  PROVE  Means(end, AddrOf(list, end))
<1>1. CASE end.kind = "name"
  BY <1>1 DEF Means, AddrOf
<1>2. CASE end.kind # "name"
  <2> DEFINE f == FindById(list, end.of)
  <2>1. /\ f \in {0} \union DOMAIN list /\ (f # 0 => list[f].id = end.of)
        /\ f = 0 => \A k \in DOMAIN list : list[k].id # end.of
    BY FoundById
  <2>2. /\ AddrOf(list, end) = At(Holder(list, end.of).name, end.port)
        /\ f # 0 => Holder(list, end.of) = list[f]
    BY <1>2 DEF AddrOf, Holder
  <2>3. AddrOf(list, end).port = end.port /\ AddrOf(list, end).client = Holder(list, end.of).name
    BY <2>2 DEF At
  <2> HIDE DEF f
  <2>4. CASE f # 0
    <3>1. process[end.of] = "none" \/ name[end.of] = list[f].name
      BY <2>1, <2>4
    <3> QED BY <1>2, <2>2, <2>3, <2>4, <3>1 DEF Means
  <2>5. CASE f = 0
    <3>2. \A k \in DOMAIN clients' : clients'[k].id # end.of
      BY <2>1, <2>5 DEF SameNames
    <3>3. FindById(clients', end.of) = 0
      BY FoundById, <3>2
    <3> QED BY <1>2, <2>3, <3>3 DEF Means
  <2> QED BY <2>4, <2>5
<1> QED BY <1>1, <1>2

(* Whatever lashd connects when it reads a notice or gets a client's name  *)
(* is what a waiting patch says: its uuids are taken for the programs that *)
(* are those clients (jack_patch_unset).                                   *)
THEOREM RightProgramsAreConnected == Spec => ConnectsTheRightPrograms
<1>1. ASSUME JackInv, ReadCallback \/ (\E c \in Client : JackName(c)), NEW w \in wires' \ wires
      PROVE  \E p \in WaitingPatches : Means(p.src, w[1]) /\ Means(p.dest, w[2])
  <2>0. ProgramsInv /\ clients \in Seq(Entry)
    BY <1>1 DEF JackInv, DueInv, ProgramsInv, TypeInv, LashdTypes
  <2>1. ASSUME NEW list \in Seq(Entry), NEW i \in DOMAIN list, NEW opened, NEW waiting,
               ResumePorts(list, i, opened, waiting), list[i].old_patches \subseteq WaitingPatches,
               clients' \in Seq(Entry), SameNames(clients', list),
               \A k \in DOMAIN list : process[list[k].id] # "none" => name[list[k].id] = list[k].name
        PROVE  \E p \in WaitingPatches : Means(p.src, w[1]) /\ Means(p.dest, w[2])
    <3>1. PICK p \in Resumed(list, list[i], opened) : w = Unset(list, p)
      BY <1>1, <2>1 DEF ResumePorts
    <3>2. p \in WaitingPatches
      BY <2>1 DEF Resumed
    <3>3. w[1] = AddrOf(list, p.src) /\ w[2] = AddrOf(list, p.dest)
      BY <3>1 DEF Unset
    <3>4. Means(p.src, w[1]) /\ Means(p.dest, w[2])
      BY <2>1, <3>3, UnsetIsRight
    <3> QED BY <3>2, <3>4
  <2>2. CASE ReadCallback
    <3>1. PICK id \in PortId, i \in DOMAIN clients : \E opened : TakesPort(id, i, opened)
      BY <1>1, <2>0, <2>2, NoticeCases DEF TakesNoPort, ProgramsInv
    <3>2. PICK opened : ResumePorts(clients, i, opened, Tail(notices))
      BY <3>1 DEF TakesPort
    <3>3. SameNames(clients', clients) /\ clients' \in Seq(Entry)
      BY <2>0, <2>2, ThreadEntries DEF ProgramsInv, Thread
    <3>4. clients[i].old_patches \subseteq WaitingPatches
      BY DEF WaitingPatches, ToSet
    <3>5. \A k \in DOMAIN clients : process[clients[k].id] # "none" => name[clients[k].id] = clients[k].name
      BY <2>0 DEF ProgramsInv, EntriesOK, EntryOK
    <3> QED BY <2>0, <2>1, <3>2, <3>3, <3>4, <3>5
  <2>3. ASSUME NEW c \in Client, JackName(c)
        PROVE  \E p \in WaitingPatches : Means(p.src, w[1]) /\ Means(p.dest, w[2])
    <3> DEFINE list == Added(c)
               L == Len(list)
    <3>1. PICK opened : TakesName(c, opened)
      BY <1>1, <2>0, <2>3, NameCases DEF ProgramsInv
    <3>2. told[c] # NoName /\ lash[c].state = "running"
      BY <2>0, <2>3, NameCases DEF ProgramsInv
    <3>3. /\ list \in Seq(Entry) /\ L \in DOMAIN list /\ L = Len(clients) + 1
          /\ DOMAIN list = 1..Len(clients) + 1 /\ DOMAIN clients = 1..Len(clients)
          /\ \A i \in DOMAIN clients : list[i] = clients[i]
          /\ list[L].id = c /\ list[L].name = told[c] /\ list[L].old_patches = lash[c].jack_patches
          /\ Len(clients) \in Nat
      BY <2>0, <3>2, AddedEntries DEF ProgramsInv
    <3>4. Resumes(clients', list, L, opened) /\ ResumePorts(list, L, opened, notices)
      BY <3>1, <3>3, ResumedEntries DEF TakesName
    <3> HIDE DEF list
    <3>5. list[L].old_patches \subseteq WaitingPatches
      <4> DEFINE own == UNION {lash[d].jack_patches : d \in Client}
      <4>1. lash[c].jack_patches \subseteq own
        BY <2>3
      <4> DEFINE others == UNION {e.old_patches : e \in ToSet(clients)}
      <4>2. WaitingPatches = others \union own
        BY DEF WaitingPatches
      <4> HIDE DEF own, others
      <4> QED BY <3>3, <4>1, <4>2
    <3>6. SameNames(clients', list) /\ clients' \in Seq(Entry)
      BY <3>3, <3>4 DEF Resumes, SameNames
    <3>7. ASSUME NEW k \in DOMAIN list, process[list[k].id] # "none"
          PROVE  name[list[k].id] = list[k].name
      <4>1. k \in DOMAIN clients \/ k = L
        BY <3>3
      <4>2. CASE k = L
        BY <2>0, <3>2, <3>3, <3>7, <4>2 DEF ProgramsInv, ProcessesOK
      <4>3. CASE k \in DOMAIN clients
        BY <2>0, <3>3, <3>7, <4>3 DEF ProgramsInv, EntriesOK, EntryOK
      <4> QED BY <4>1, <4>2, <4>3
    <3> HIDE DEF L
    <3> QED BY <2>1, <3>3, <3>4, <3>5, <3>6, <3>7
  <2> QED BY <1>1, <2>2, <2>3
<1>2. JackInv /\ [Next]_vars =>
        [ReadCallback \/ (\E c \in Client : JackName(c)) =>
           \A w \in wires' \ wires :
             \E p \in WaitingPatches : Means(p.src, w[1]) /\ Means(p.dest, w[2])]_vars
  BY <1>1
<1> QED BY <1>2, JackInvariant, PTL DEF Spec, ConnectsTheRightPrograms

(* A save that ends when all notices were read writes for each running     *)
(* client the connections that JACK has (jack_mgr_client_dup_uniq_patches).*)
THEOREM ConnectionsAreSaved == Spec => SavesConnections
<1>1. ASSUME JackInv, SaveEnds, Quiet, NEW c \in Running \ unread, Has(c)
      PROVE  doc'[c] = SetPatches(clients, WiresOf(name[c]))
  <2> DEFINE i == FindById(clients, c)
  <2>1. clients \in Seq(Entry) /\ c \in Client
    BY <1>1 DEF JackInv, DueInv, ProgramsInv, TypeInv, LashdTypes, Running
  <2>2. i \in {0} \union DOMAIN clients /\ (i # 0 => clients[i].id = c)
    BY <2>1, FoundById
  <2>3. i # 0 /\ clients[i].name = name[c]
    BY <1>1 DEF Has
  <2>4. doc'[c] = SetPatches(clients, clients[i].patches)
    BY <1>1, <2>1, <2>3 DEF SaveEnds, ClientPatches
  <2> HIDE DEF i
  <2>5. ~ReorderIn(notices)
    BY <1>1 DEF Quiet, ReorderIn
  <2>6. clients[i].patches = WiresOf(name[c])
    BY <1>1, <2>2, <2>3, <2>5 DEF JackInv, CopiesOK
  <2> QED BY <2>4, <2>6
<1>2. JackInv /\ [Next]_vars =>
        [SaveEnds /\ Quiet =>
           \A c \in Running \ unread : Has(c) => doc'[c] = SetPatches(clients, WiresOf(name[c]))]_vars
  BY <1>1
<1> QED BY <1>2, JackInvariant, PTL DEF Spec, SavesConnections

=============================================================================
