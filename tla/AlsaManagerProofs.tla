-------------------------- MODULE AlsaManagerProofs --------------------------
(***************************************************************************)
(* Theorems about AlsaManager, for any programs, ports, ids, documents     *)
(* and numbers of ends and announcements.                                  *)
(***************************************************************************)
EXTENDS AlsaManager, FiniteSetTheorems, SequenceTheorems, WellFoundedInduction, TLAPS

------------------------------------------------------------------------------
(* Facts about lists and numbers *)

(* What cannot fail first does not fail: the induction that the proofs of  *)
(* recursive functions use.                                                *)
LEMMA LeastNumber ==
  ASSUME NEW T, T \subseteq Nat, T # {}
  PROVE  \E n \in T : \A m \in T : n <= m
<1>1. PICK n \in T : \A m \in T : ~(<<m, n>> \in OpToRel(<, Nat))
  BY NatLessThanWellFounded, WFMin
<1>2. \A m \in T : ~(m < n)
  BY <1>1 DEF OpToRel
<1> QED BY <1>2

(* A list without some of its elements: those of the positions K stay, in  *)
(* order.                                                                  *)
KeepsFirst(f, k, s, K) ==
  f = [n \in 0..k |-> IF n = 0 THEN <<>>
                      ELSE IF n \in K THEN Append(f[n - 1], s[n]) ELSE f[n - 1]]

LEMMA KeepingExists ==
  ASSUME NEW s, NEW K, NEW k \in Nat
  PROVE  \E f : KeepsFirst(f, k, s, K)
<1> DEFINE T == {j \in Nat : ~\E f : KeepsFirst(f, j, s, K)}
<1>1. SUFFICES ASSUME T # {} PROVE FALSE
  OBVIOUS
<1>2. PICK j \in T : \A m \in T : j <= m
  BY <1>1, LeastNumber
<1>3. CASE j = 0
  <2> DEFINE f == [n \in 0..0 |-> <<>>]
  <2>1. f = [n \in 0..0 |-> IF n = 0 THEN <<>>
                            ELSE IF n \in K THEN Append(f[n - 1], s[n]) ELSE f[n - 1]]
    OBVIOUS
  <2> HIDE DEF f
  <2>2. KeepsFirst(f, j, s, K)
    BY <1>3, <2>1 DEF KeepsFirst
  <2> QED BY <1>2, <2>2
<1>4. CASE j # 0
  <2>1. j - 1 \in Nat /\ j - 1 \notin T
    BY <1>2, <1>4
  <2>2. PICK f : KeepsFirst(f, j - 1, s, K)
    BY <2>1
  <2> DEFINE last == IF j \in K THEN Append(f[j - 1], s[j]) ELSE f[j - 1]
             g == [n \in 0..j |-> IF n < j THEN f[n] ELSE last]
  <2>3. ASSUME NEW n \in 0..j
        PROVE  g[n] = IF n = 0 THEN <<>>
                      ELSE IF n \in K THEN Append(g[n - 1], s[n]) ELSE g[n - 1]
    <3>1. CASE n = 0
      <4>1. g[n] = f[0] /\ 0 \in 0..j - 1
        BY <1>2, <1>4, <3>1
      <4>2. f[0] = <<>>
        BY <2>2, <4>1 DEF KeepsFirst
      <4> QED BY <3>1, <4>1, <4>2
    <3>2. CASE n # 0 /\ n < j
      <4>1. n \in 0..j - 1 /\ n - 1 \in 0..j /\ n - 1 < j
        BY <1>2, <3>2
      <4>2. f[n] = IF n \in K THEN Append(f[n - 1], s[n]) ELSE f[n - 1]
        BY <2>2, <3>2, <4>1 DEF KeepsFirst
      <4>3. g[n] = f[n] /\ g[n - 1] = f[n - 1]
        BY <3>2, <4>1
      <4> HIDE DEF g
      <4> QED BY <3>2, <4>2, <4>3
    <3>3. CASE n = j
      <4>1. j - 1 \in 0..j /\ j - 1 < j /\ j \in 0..j /\ ~(j < j)
        BY <1>2, <1>4
      <4>2. g[j] = last /\ g[j - 1] = f[j - 1]
        BY <4>1
      <4> HIDE DEF g
      <4> QED BY <1>4, <3>3, <4>2
    <3> HIDE DEF g
    <3> QED BY <1>2, <3>1, <3>2, <3>3
  <2>4. g = [n \in 0..j |-> g[n]]
    OBVIOUS
  <2> HIDE DEF g
  <2>5. KeepsFirst(g, j, s, K)
    BY <2>3, <2>4 DEF KeepsFirst
  <2> QED BY <1>2, <2>5
<1> QED BY <1>3, <1>4

(* r is what stays of the first k elements of s, each from the position    *)
(* that `from` says.                                                       *)
StaysOf(r, from, k, s, K) ==
  /\ from \in [DOMAIN r -> (1..k) \intersect K]
  /\ \A i \in DOMAIN r : r[i] = s[from[i]]
  /\ \A i, j \in DOMAIN r : i < j => from[i] < from[j]
  /\ \A n \in (1..k) \intersect K : \E i \in DOMAIN r : from[i] = n

LEMMA OneMoreStays ==
  ASSUME NEW S, NEW s \in Seq(S), NEW K, NEW k \in 1..Len(s), NEW r \in Seq(S),
         \E from : StaysOf(r, from, k - 1, s, K)
  PROVE  IF k \in K
         THEN Append(r, s[k]) \in Seq(S) /\ \E from : StaysOf(Append(r, s[k]), from, k, s, K)
         ELSE \E from : StaysOf(r, from, k, s, K)
<1>1. PICK from : StaysOf(r, from, k - 1, s, K)
  OBVIOUS
<1>2. /\ from \in [DOMAIN r -> (1..k - 1) \intersect K]
      /\ \A i \in DOMAIN r : r[i] = s[from[i]]
      /\ \A i, j \in DOMAIN r : i < j => from[i] < from[j]
      /\ \A n \in (1..k - 1) \intersect K : \E i \in DOMAIN r : from[i] = n
  BY <1>1 DEF StaysOf
<1>3. /\ Len(r) \in Nat /\ DOMAIN r = 1..Len(r) /\ k \in Nat /\ s[k] \in S
      /\ \A n : n \in 1..k <=> n \in 1..k - 1 \/ n = k
  OBVIOUS
<1>4. CASE k \notin K
  <2>1. (1..k) \intersect K = (1..k - 1) \intersect K
    BY <1>3, <1>4
  <2>2. StaysOf(r, from, k, s, K)
    BY <1>2, <2>1 DEF StaysOf
  <2> QED BY <1>4, <2>2
<1>5. CASE k \in K
  <2> DEFINE a == Append(r, s[k])
             g == [i \in 1..Len(r) + 1 |-> IF i = Len(r) + 1 THEN k ELSE from[i]]
  <2>1. /\ a \in Seq(S) /\ DOMAIN a = 1..Len(r) + 1
        /\ \A i \in 1..Len(r) : a[i] = r[i]
        /\ a[Len(r) + 1] = s[k]
    BY <1>3
  <2>2. /\ g \in [1..Len(r) + 1 -> (1..k) \intersect K]
        /\ g[Len(r) + 1] = k
        /\ \A i \in 1..Len(r) : g[i] = from[i] /\ from[i] \in 1..k - 1 /\ i # Len(r) + 1
    BY <1>2, <1>3, <1>5
  <2> HIDE DEF a, g
  <2>3. \A i \in 1..Len(r) + 1 : i \in 1..Len(r) \/ i = Len(r) + 1
    BY <1>3
  <2>4. \A i \in DOMAIN a : a[i] = s[g[i]]
    BY <1>2, <1>3, <2>1, <2>2, <2>3
  <2>5. ASSUME NEW i \in DOMAIN a, NEW j \in DOMAIN a, i < j PROVE g[i] < g[j]
    <3>1. i \in 1..Len(r)
      BY <1>3, <2>1, <2>5
    <3>2. CASE j \in 1..Len(r)
      BY <1>2, <1>3, <2>2, <2>5, <3>1, <3>2
    <3>3. CASE j = Len(r) + 1
      <4>1. from[i] < k
        BY <1>3, <2>2, <3>1
      <4> QED BY <2>2, <3>1, <3>3, <4>1
    <3> QED BY <2>1, <2>3, <3>2, <3>3
  <2>6. ASSUME NEW n \in (1..k) \intersect K PROVE \E i \in DOMAIN a : g[i] = n
    <3>1. CASE n = k
      <4>1. Len(r) + 1 \in DOMAIN a
        BY <1>3, <2>1
      <4> QED BY <2>2, <3>1, <4>1
    <3>2. CASE n \in 1..k - 1
      <4>1. PICK i \in DOMAIN r : from[i] = n
        BY <1>2, <3>2
      <4>2. i \in DOMAIN a
        BY <1>3, <2>1
      <4> QED BY <1>3, <2>2, <4>1, <4>2
    <3> QED BY <1>3, <3>1, <3>2
  <2>7. StaysOf(a, g, k, s, K)
    BY <2>1, <2>2, <2>4, <2>5, <2>6 DEF StaysOf
  <2> QED BY <1>5, <2>1, <2>7 DEF a
<1> QED BY <1>4, <1>5

LEMMA Kept ==
  ASSUME NEW S, NEW s \in Seq(S), NEW K
  PROVE  /\ Keeping(s, K) \in Seq(S)
         /\ \E from : StaysOf(Keeping(s, K), from, Len(s), s, K)
<1>0. Len(s) \in Nat
  OBVIOUS
<1>1. PICK f : KeepsFirst(f, Len(s), s, K)
  BY <1>0, KeepingExists
<1> DEFINE stays == CHOOSE g : g = [n \in 0..Len(s) |->
                       IF n = 0 THEN <<>>
                       ELSE IF n \in K THEN Append(g[n - 1], s[n]) ELSE g[n - 1]]
<1>2. f = [n \in 0..Len(s) |-> IF n = 0 THEN <<>>
                      ELSE IF n \in K THEN Append(f[n - 1], s[n]) ELSE f[n - 1]]
  BY <1>1 DEF KeepsFirst
<1>3. stays = [n \in 0..Len(s) |-> IF n = 0 THEN <<>>
                      ELSE IF n \in K THEN Append(stays[n - 1], s[n]) ELSE stays[n - 1]]
  BY <1>2
<1>4. Keeping(s, K) = stays[Len(s)]
  BY DEF Keeping
<1> HIDE DEF stays
<1> DEFINE Right(n) == /\ stays[n] \in Seq(S)
                       /\ \E from : StaysOf(stays[n], from, n, s, K)
           T == {n \in 0..Len(s) : ~Right(n)}
<1>5. ASSUME T # {} PROVE FALSE
  <2>1. T \subseteq Nat
    OBVIOUS
  <2>2. PICK n \in T : \A m \in T : n <= m
    <3> HIDE DEF T
    <3> QED BY <1>5, <2>1, LeastNumber
  <2>3. CASE n = 0
    <3>1. stays[0] = <<>>
      BY <1>3
    <3> DEFINE none == [i \in {} |-> 0]
    <3>2. none \in [{} -> (1..0) \intersect K] /\ DOMAIN << >> = {}
      OBVIOUS
    <3>3. StaysOf(<<>>, none, 0, s, K)
      <4>1. (1..0) \intersect K = {}
        OBVIOUS
      <4> HIDE DEF none
      <4> QED BY <3>2, <4>1 DEF StaysOf
    <3>4. <<>> \in Seq(S)
      OBVIOUS
    <3>5. Right(n)
      BY <2>3, <3>1, <3>3, <3>4
    <3> QED BY <2>2, <3>5
  <2>4. CASE n # 0
    <3>1. n \in 1..Len(s) /\ n - 1 \in 0..Len(s) /\ n - 1 \notin T
      <4>1. n \in 0..Len(s) /\ ~(n <= n - 1)
        BY <1>0, <2>2
      <4> HIDE DEF T
      <4> QED BY <1>0, <2>2, <2>4, <4>1
    <3>2. Right(n - 1)
      BY <3>1
    <3>3. stays[n] = IF n \in K THEN Append(stays[n - 1], s[n]) ELSE stays[n - 1]
      BY <1>3, <2>4, <3>1
    <3>4. IF n \in K
          THEN /\ Append(stays[n - 1], s[n]) \in Seq(S)
               /\ \E from : StaysOf(Append(stays[n - 1], s[n]), from, n, s, K)
          ELSE \E from : StaysOf(stays[n - 1], from, n, s, K)
      BY <3>1, <3>2, OneMoreStays
    <3>5. Right(n)
      BY <3>2, <3>3, <3>4
    <3> QED BY <2>2, <3>5
  <2> QED BY <2>3, <2>4
<1>6. Right(Len(s))
  <2>1. Len(s) \in 0..Len(s)
    OBVIOUS
  <2> QED BY <1>5, <2>1
<1> QED BY <1>4, <1>6

------------------------------------------------------------------------------
(* Types *)

Change == [kind |-> "changed"]
PortStart(a) == [kind |-> "start", addr |-> a]
PortExit(a) == [kind |-> "exit", addr |-> a]
Event == {Change} \union {PortStart(a) : a \in Addr} \union {PortExit(a) : a \in Addr}

NoLash == [state |-> "gone", alsa_client_id |-> 0, alsa_patches |-> {}]
LashClient == [state : {"none", "running", "lost", "gone"},
               alsa_client_id : Number \union {0}, alsa_patches : SUBSET Patch]

(* A patch is connected only if both ports exist, and there are finitely   *)
(* many: lashd announces its connections one by one.                       *)
AlsaTypes ==
  /\ number \in [Program -> Number \union {0}]
  /\ ports \subseteq Addr /\ IsFiniteSet(ports) /\ subs \subseteq ports \X ports
  /\ events \in Seq(Event)

LashdTypes ==
  /\ process \in [Client -> {"none", "up", "connected", "told", "stray"}]
  /\ told \in [Client -> Number \union {0}]
  /\ {lashd, loaded, saving} \subseteq BOOLEAN
  /\ clients \in Seq(Entry) /\ foreign_ports \subseteq Addr
  /\ lash \in [Client -> LashClient]
  /\ \A c \in Client : doc[c] = NotSaved \/ doc[c] \subseteq Patch
  /\ due \subseteq Patch /\ unread \subseteq Client

TypeInv == AlsaTypes /\ LashdTypes

(* What the manager's entry tells of itself, but for its backup.           *)
Alike(new, old) ==
  /\ new \in Seq(Entry) /\ Len(new) = Len(old)
  /\ \A i \in DOMAIN old : /\ new[i].id = old[i].id /\ new[i].client_id = old[i].client_id
                           /\ new[i].patches = old[i].patches
                           /\ new[i].old_patches = old[i].old_patches

LEMMA ListFacts ==
  ASSUME NEW S, NEW s \in Seq(S)
  PROVE  Len(s) \in Nat /\ DOMAIN s = 1..Len(s) /\ \A i \in DOMAIN s : s[i] \in S
OBVIOUS

LEMMA FoundById ==
  ASSUME NEW list \in Seq(Entry), NEW c
  PROVE  /\ FindById(list, c) \in {0} \union DOMAIN list
         /\ FindById(list, c) # 0 => list[FindById(list, c)].id = c
         /\ FindById(list, c) = 0 => \A i \in DOMAIN list : list[i].id # c
<1> DEFINE I == {i \in 1..Len(list) : list[i].id = c}
<1>1. FindById(list, c) = IF I # {} THEN Min(I) ELSE 0
  BY DEF FindById, SelectInSeq
<1>2. I # {} => Min(I) \in I
  <2>1. I \subseteq Nat
    OBVIOUS
  <2> HIDE DEF I
  <2> QED BY <2>1, LeastNumber DEF Min
<1>3. Len(list) \in Nat /\ DOMAIN list = 1..Len(list)
  OBVIOUS
<1>4. \A i \in I : i # 0 /\ i \in DOMAIN list /\ list[i].id = c
  BY <1>3
<1>5. I = {} => \A i \in DOMAIN list : list[i].id # c
  BY <1>3
<1> HIDE DEF I
<1> QED BY <1>1, <1>2, <1>4, <1>5

LEMMA FoundByNumber ==
  ASSUME NEW list \in Seq(Entry), NEW n
  PROVE  /\ FindByNumber(list, n) \in {0} \union DOMAIN list
         /\ FindByNumber(list, n) # 0 => list[FindByNumber(list, n)].client_id = n
         /\ FindByNumber(list, n) = 0 => \A i \in DOMAIN list : list[i].client_id # n
<1> DEFINE I == {i \in 1..Len(list) : list[i].client_id = n}
<1>1. FindByNumber(list, n) = IF I # {} THEN Min(I) ELSE 0
  BY DEF FindByNumber, SelectInSeq
<1>2. I # {} => Min(I) \in I
  <2>1. I \subseteq Nat
    OBVIOUS
  <2> HIDE DEF I
  <2> QED BY <2>1, LeastNumber DEF Min
<1>3. Len(list) \in Nat /\ DOMAIN list = 1..Len(list)
  OBVIOUS
<1>4. \A i \in I : i # 0 /\ i \in DOMAIN list /\ list[i].client_id = n
  BY <1>3
<1>5. I = {} => \A i \in DOMAIN list : list[i].client_id # n
  BY <1>3
<1> HIDE DEF I
<1> QED BY <1>1, <1>2, <1>4, <1>5

LEMMA PatchesAreSet ==
  ASSUME NEW list \in Seq(Entry), NEW patches, patches \subseteq Addr \X Addr
  PROVE  SetPatches(list, patches) \subseteq Patch
<1>1. SUFFICES ASSUME NEW w \in Addr \X Addr
               PROVE  [src |-> EndOf(list, w[1]), dest |-> EndOf(list, w[2])] \in Patch
  BY DEF SetPatches, PatchOf
<1> DEFINE End == {ById(c, a.port) : c \in Client, a \in Addr}
                  \union {ByNumber(a.client, a.port) : a \in Addr}
<1>2. ASSUME NEW a \in Addr PROVE EndOf(list, a) \in End
  <2> DEFINE i == FindByNumber(list, a.client)
  <2>1. i \in {0} \union DOMAIN list
    BY FoundByNumber
  <2> HIDE DEF i
  <2>2. CASE i = 0
    BY <2>2 DEF EndOf, i
  <2>3. CASE i # 0
    <3>1. list[i] \in Entry
      BY <2>1, <2>3
    <3>2. list[i].id \in Client
      BY <3>1 DEF Entry
    <3>3. EndOf(list, a) = ById(list[i].id, a.port)
      BY <2>3 DEF EndOf, i
    <3> QED BY <3>2, <3>3
  <2> QED BY <2>2, <2>3
<1>3. w[1] \in Addr /\ w[2] \in Addr
  OBVIOUS
<1>4. EndOf(list, w[1]) \in End /\ EndOf(list, w[2]) \in End
  BY <1>2, <1>3
<1>5. Patch = [src : End, dest : End]
  BY DEF Patch
<1> HIDE DEF End
<1> QED BY <1>4, <1>5

(* alsa_mgr_backup_patches renews backups only.                            *)
LEMMA BackupRenewed ==
  ASSUME NEW list \in Seq(Entry), MaybeBackup(list)
  PROVE  Alike(clients', list)
<1>1. Len(list) \in Nat /\ DOMAIN list = 1..Len(list) /\ \A i \in DOMAIN list : list[i] \in Entry
  OBVIOUS
<1>2. CASE clients' = list
  BY <1>1, <1>2 DEF Alike
<1>3. CASE clients' = Backup(list)
  <2>1. ASSUME NEW i \in DOMAIN list
        PROVE  [list[i] EXCEPT !.backup_patches = SetPatches(list, list[i].patches)] \in Entry
    <3>1. list[i] \in Entry /\ list[i].patches \subseteq Addr \X Addr
      BY <1>1 DEF Entry
    <3>2. SetPatches(list, list[i].patches) \subseteq Patch
      BY <3>1, PatchesAreSet
    <3> QED BY <3>1, <3>2 DEF Entry
  <2>2. /\ clients' = [i \in 1..Len(list) |->
               [list[i] EXCEPT !.backup_patches = SetPatches(list, list[i].patches)]]
        /\ clients' \in Seq(Entry)
    BY <1>1, <1>3, <2>1 DEF Backup
  <2>3. ASSUME NEW i \in DOMAIN list
        PROVE  /\ clients'[i].id = list[i].id /\ clients'[i].client_id = list[i].client_id
               /\ clients'[i].patches = list[i].patches
               /\ clients'[i].old_patches = list[i].old_patches
    <3>1. clients'[i] = [list[i] EXCEPT !.backup_patches = SetPatches(list, list[i].patches)]
          /\ list[i] \in Entry
      BY <1>1, <2>2
    <3> QED BY <3>1 DEF Entry
  <2>4. Len(clients') = Len(list)
    BY <1>1, <2>2
  <2> QED BY <2>2, <2>3, <2>4 DEF Alike
<1> QED BY <1>2, <1>3 DEF MaybeBackup

(* The patches that an entry no longer has after ports of its client came. *)
Left(list, e, opened) == Resumed(list, e, opened) \union Dropped(list, e, opened)

(* What one or more ports of the entry at i bring about, in a list in      *)
(* which that entry stands.                                                *)
Resumes(new, list, i, opened) ==
  /\ new \in Seq(Entry) /\ Len(new) = Len(list)
  /\ \A j \in DOMAIN list :
       /\ new[j].id = list[j].id /\ new[j].client_id = list[j].client_id /\ new[j].patches = list[j].patches
       /\ new[j].old_patches = IF j = i THEN list[i].old_patches \ Left(list, list[i], opened)
                               ELSE list[j].old_patches

LEMMA ResumedEntries ==
  ASSUME NEW list \in Seq(Entry), NEW i \in DOMAIN list, NEW opened
  PROVE  Resumes(AfterResuming(list, i, opened), list, i, opened)
<1> DEFINE left == list[i].old_patches \ Left(list, list[i], opened)
           e == [list[i] EXCEPT !.old_patches = left]
<1>1. Len(list) \in Nat /\ DOMAIN list = 1..Len(list) /\ \A j \in DOMAIN list : list[j] \in Entry
  OBVIOUS
<1>2. AfterResuming(list, i, opened) = [list EXCEPT ![i] = e]
  BY DEF AfterResuming, Left
<1>3. left \subseteq Patch
  BY <1>1 DEF Entry
<1> HIDE DEF left
<1>4. /\ e \in Entry /\ e.id = list[i].id /\ e.client_id = list[i].client_id
      /\ e.patches = list[i].patches /\ e.old_patches = left
  BY <1>1, <1>3 DEF Entry
<1> HIDE DEF e
<1>5. /\ [list EXCEPT ![i] = e] \in Seq(Entry) /\ Len([list EXCEPT ![i] = e]) = Len(list)
      /\ \A j \in DOMAIN list : [list EXCEPT ![i] = e][j] = IF j = i THEN e ELSE list[j]
  BY <1>1, <1>4
<1> QED BY <1>2, <1>4, <1>5 DEF left, Resumes

LEMMA ChangedType ==
  ASSUME NEW k \in Nat
  PROVE  /\ Changed(k) \in Seq(Event) /\ Len(Changed(k)) = k
         /\ Changed(k) \in Seq({Change}) /\ \A i \in 1..k : Changed(k)[i] = Change
<1>1. Changed(k) = [i \in 1..k |-> Change]
  BY DEF Changed, Change
<1>2. Change \in Event
  BY DEF Event
<1> HIDE DEF Change
<1> QED BY <1>1, <1>2

LEMMA PairsFinite ==
  ASSUME AlsaTypes
  PROVE  IsFiniteSet(ports \X ports)
BY FS_Product DEF AlsaTypes

(* The events of a finite set of ports.                                   *)
LEMMA SetToSeqType ==
  ASSUME NEW S, IsFiniteSet(S)
  PROVE  SetToSeq(S) \in Seq(S)
<1>1. Cardinality(S) \in Nat /\ ExistsBijection(1..Cardinality(S), S)
  BY FS_CardinalityType
<1>2. \E f \in [1..Cardinality(S) -> S] : IsInjective(f)
  BY <1>1 DEF ExistsBijection, Bijection, Injection
<1>3. SetToSeq(S) \in [1..Cardinality(S) -> S]
  BY <1>2 DEF SetToSeq
<1> QED BY <1>1, <1>3, IsASeq

(* The queue `new` is `old` with some of `added` behind.                   *)
Grown(new, old, added) ==
  /\ new \in Seq(Event) /\ Len(new) >= Len(old)
  /\ \A k \in 1..Len(old) : new[k] = old[k]
  /\ \A k \in Len(old) + 1..Len(new) : new[k] \in added

LEMMA ConcatGrows ==
  ASSUME NEW old \in Seq(Event), NEW added \in SUBSET Event, NEW extra \in Seq(added)
  PROVE  Grown(old \o extra, old, added)
<1>1. /\ extra \in Seq(Event) /\ Len(extra) \in Nat /\ Len(old) \in Nat
      /\ \A k \in 1..Len(extra) : extra[k] \in added
  OBVIOUS
<1>2. /\ old \o extra \in Seq(Event)
      /\ Len(old \o extra) = Len(old) + Len(extra)
      /\ \A k \in 1..Len(old) + Len(extra) :
           (old \o extra)[k] = IF k <= Len(old) THEN old[k] ELSE extra[k - Len(old)]
  BY <1>1, ConcatProperties
<1>3. ASSUME NEW k \in Len(old) + 1..Len(old) + Len(extra) PROVE (old \o extra)[k] \in added
  <2>1. k \in 1..Len(old) + Len(extra) /\ ~(k <= Len(old)) /\ k - Len(old) \in 1..Len(extra)
    BY <1>1
  <2> QED BY <1>1, <1>2, <2>1
<1>4. ASSUME NEW k \in 1..Len(old) PROVE (old \o extra)[k] = old[k]
  <2>1. k \in 1..Len(old) + Len(extra) /\ k <= Len(old)
    BY <1>1
  <2> QED BY <1>2, <2>1
<1> QED BY <1>1, <1>2, <1>3, <1>4 DEF Grown

LEMMA AppendGrows ==
  ASSUME NEW old \in Seq(Event), NEW n \in Event
  PROVE  /\ Grown(Append(old, n), old, {n})
         /\ Len(Append(old, n)) = Len(old) + 1 /\ Append(old, n)[Len(old) + 1] = n
<1>1. /\ Len(old) \in Nat /\ Append(old, n) \in Seq(Event)
      /\ Len(Append(old, n)) = Len(old) + 1
      /\ \A k \in 1..Len(old) : Append(old, n)[k] = old[k]
      /\ Append(old, n)[Len(old) + 1] = n
  OBVIOUS
<1> QED BY <1>1 DEF Grown

(* What is on its way about a port: its start, and no later announcement   *)
(* that it is gone; or no such announcement at all.                        *)
AnnouncedIn(s, i) ==
  \E k \in DOMAIN s : s[k] = PortStart(i) /\ \A l \in DOMAIN s : l > k => s[l] # PortExit(i)
StartIn(s, i) == \E k \in DOMAIN s : s[k] = PortStart(i)
NoExit(s, i) == \A k \in DOMAIN s : s[k] # PortExit(i)
ChangeIn(s) == \E k \in DOMAIN s : s[k] = Change

LEMMA EventsDiffer ==
  ASSUME NEW i, NEW j
  PROVE  PortStart(i) # PortExit(j) /\ PortStart(i) # Change /\ PortExit(i) # Change
         /\ (PortStart(i) = PortStart(j) => i = j) /\ (PortExit(i) = PortExit(j) => i = j)
<1>1. PortStart(i).kind = "start" /\ PortExit(j).kind = "exit" /\ Change.kind = "changed"
      /\ PortExit(i).kind = "exit"
      /\ PortStart(i).addr = i /\ PortStart(j).addr = j /\ PortExit(i).addr = i /\ PortExit(j).addr = j
  BY DEF PortStart, PortExit, Change
<1> QED BY <1>1

LEMMA GrownKeeps ==
  ASSUME NEW old \in Seq(Event), NEW new, NEW added, Grown(new, old, added), NEW i
  PROVE  /\ StartIn(old, i) => StartIn(new, i)
         /\ ChangeIn(old) => ChangeIn(new)
         /\ PortExit(i) \notin added =>
              (AnnouncedIn(old, i) => AnnouncedIn(new, i)) /\ (NoExit(old, i) => NoExit(new, i))
<1>1. /\ Len(old) \in Nat /\ DOMAIN old = 1..Len(old)
      /\ Len(new) \in Nat /\ DOMAIN new = 1..Len(new) /\ Len(new) >= Len(old)
      /\ \A k \in 1..Len(old) : new[k] = old[k]
      /\ \A k \in Len(old) + 1..Len(new) : new[k] \in added
  BY DEF Grown
<1>2. \A k \in DOMAIN old : k \in DOMAIN new /\ new[k] = old[k]
  BY <1>1
<1>3. \A k \in DOMAIN new : k \in DOMAIN old \/ new[k] \in added
  BY <1>1
<1>4. /\ StartIn(old, i) => StartIn(new, i)
      /\ ChangeIn(old) => ChangeIn(new)
  BY <1>2 DEF StartIn, ChangeIn
<1>5. ASSUME PortExit(i) \notin added
      PROVE  (AnnouncedIn(old, i) => AnnouncedIn(new, i)) /\ (NoExit(old, i) => NoExit(new, i))
  BY <1>2, <1>3, <1>5 DEF AnnouncedIn, NoExit
<1> QED BY <1>4, <1>5

LEMMA TailKeeps ==
  ASSUME NEW s \in Seq(Event), s # <<>>, NEW i
  PROVE  /\ Tail(s) \in Seq(Event)
         /\ StartIn(s, i) => StartIn(Tail(s), i) \/ Head(s) = PortStart(i)
         /\ ChangeIn(s) => ChangeIn(Tail(s)) \/ Head(s) = Change
         /\ AnnouncedIn(s, i) => \/ AnnouncedIn(Tail(s), i)
                                 \/ Head(s) = PortStart(i) /\ NoExit(Tail(s), i)
         /\ NoExit(s, i) => NoExit(Tail(s), i) /\ Head(s) # PortExit(i)
<1>1. /\ Len(s) \in Nat /\ Len(s) # 0 /\ DOMAIN s = 1..Len(s) /\ Head(s) = s[1]
      /\ Tail(s) \in Seq(Event) /\ Len(Tail(s)) = Len(s) - 1 /\ DOMAIN Tail(s) = 1..Len(s) - 1
      /\ \A k \in 1..Len(s) - 1 : Tail(s)[k] = s[k + 1]
  OBVIOUS
<1> DEFINE t == Tail(s)
<1> HIDE DEF t
<1>2. \A k \in DOMAIN t : k + 1 \in DOMAIN s /\ t[k] = s[k + 1]
  BY <1>1 DEF t
<1>3. \A k \in DOMAIN s : k = 1 \/ (k - 1 \in DOMAIN t /\ t[k - 1] = s[k])
  <2>1. ASSUME NEW k \in DOMAIN s, k # 1 PROVE k - 1 \in DOMAIN t /\ t[k - 1] = s[k]
    <3>1. k - 1 \in 1..Len(s) - 1 /\ k - 1 + 1 = k
      BY <1>1, <2>1
    <3> QED BY <1>1, <3>1 DEF t
  <2> QED BY <2>1
<1>4. StartIn(s, i) => StartIn(t, i) \/ Head(s) = PortStart(i)
  BY <1>1, <1>3 DEF StartIn
<1>5. ChangeIn(s) => ChangeIn(t) \/ Head(s) = Change
  BY <1>1, <1>3 DEF ChangeIn
<1>6. NoExit(s, i) => NoExit(t, i) /\ Head(s) # PortExit(i)
  BY <1>1, <1>2 DEF NoExit
<1>7. ASSUME AnnouncedIn(s, i)
      PROVE  AnnouncedIn(t, i) \/ (Head(s) = PortStart(i) /\ NoExit(t, i))
  <2>1. PICK k \in DOMAIN s : s[k] = PortStart(i) /\ \A l \in DOMAIN s : l > k => s[l] # PortExit(i)
    BY <1>7 DEF AnnouncedIn
  <2>2. \A l \in DOMAIN t : l + 1 > k => t[l] # PortExit(i)
    BY <1>2, <2>1
  <2>3. CASE k = 1
    <3>1. \A l \in DOMAIN t : l + 1 > 1
      BY <1>1 DEF t
    <3> QED BY <1>1, <2>1, <2>2, <2>3, <3>1 DEF NoExit
  <2>4. CASE k # 1
    <3>1. k - 1 \in DOMAIN t /\ t[k - 1] = PortStart(i)
      BY <1>3, <2>1, <2>4
    <3>2. \A l \in DOMAIN t : l > k - 1 => l + 1 > k
      BY <1>1 DEF t
    <3> QED BY <2>2, <3>1, <3>2 DEF AnnouncedIn
  <2> QED BY <2>3, <2>4
<1> QED BY <1>1, <1>4, <1>5, <1>6, <1>7 DEF t

------------------------------------------------------------------------------
(* Resuming patches *)

LEMMA ResumedTypes ==
  ASSUME AlsaTypes, NEW list \in Seq(Entry), NEW i \in DOMAIN list, NEW opened,
         NEW waiting \in Seq(Event), ResumePorts(list, i, opened, waiting)
  PROVE  /\ subs \subseteq subs' /\ subs' \subseteq ports \X ports
         /\ Grown(events', waiting, {Change})
         /\ subs' # subs => ChangeIn(events')
         /\ due' \subseteq due
<1> DEFINE made == {Unset(list, p) : p \in Resumed(list, list[i], opened)}
           k == Cardinality(made)
<1>1. /\ subs' = subs \union made /\ events' = waiting \o Changed(k)
      /\ due' = due \ GivenUp(list, list[i], opened)
  BY DEF ResumePorts
<1>2. made \subseteq ports \X ports
  <2>1. ASSUME NEW p \in Resumed(list, list[i], opened)
        PROVE  Unset(list, p) \in ports \X ports
    <3>1. CanSubscribe(Unset(list, p))
      BY DEF Resumed
    <3> QED BY <3>1 DEF CanSubscribe, Unset
  <2> QED BY <2>1
<1>3. IsFiniteSet(made)
  <2>1. made \in SUBSET (ports \X ports)
    BY <1>2
  <2> HIDE DEF made
  <2> QED BY <2>1, PairsFinite, FS_Subset
<1> HIDE DEF made
<1>4. k \in Nat /\ (k = 0 <=> made = {})
  BY <1>3, FS_CardinalityType, FS_EmptySet
<1> HIDE DEF k
<1>5. /\ Len(Changed(k)) = k /\ \A j \in 1..k : Changed(k)[j] = Change
      /\ Changed(k) \in Seq(Event)
  BY <1>4, ChangedType
<1>6. Changed(k) \in Seq({Change}) /\ {Change} \in SUBSET Event
  BY <1>5 DEF Event
<1>7. Grown(events', waiting, {Change})
  BY <1>1, <1>6, ConcatGrows
<1>8. ASSUME subs' # subs PROVE ChangeIn(events')
  <2>1. k # 0
    BY <1>1, <1>4, <1>8
  <2>2. /\ waiting \o Changed(k) \in Seq(Event)
        /\ Len(waiting \o Changed(k)) = Len(waiting) + k
    BY <1>5, ConcatProperties
  <2>3. Len(waiting) \in Nat
    OBVIOUS
  <2>4. Len(waiting) + 1 \in Len(waiting) + 1..Len(events') /\ Len(waiting) + 1 \in DOMAIN events'
    BY <1>1, <1>4, <2>1, <2>2, <2>3
  <2> QED BY <1>7, <2>4 DEF Grown, ChangeIn
<1>9. subs \subseteq ports \X ports
  BY DEF AlsaTypes
<1> QED BY <1>1, <1>2, <1>7, <1>8, <1>9

UniqueIn(list) == \A i, j \in DOMAIN list : list[i].id = list[j].id => i = j
Ends(p) == {p.src, p.dest}
LiveIn(list, i, c) == list[i].id = c /\ list[i].client_id = number[c]
AddrFor(end) == At(number[end.of], end.port)
BothById(p) == \A end \in Ends(p) : end.kind = "id" /\ end.of \in Client

LEMMA MeantEnds ==
  ASSUME NEW p
  PROVE  Meant(p) = <<AddrFor(p.src), AddrFor(p.dest)>> /\ p.src \in Ends(p) /\ p.dest \in Ends(p)
         /\ Meant(p)[1] = AddrFor(p.src) /\ Meant(p)[2] = AddrFor(p.dest)
BY DEF Meant, AddrFor, Ends

(* The end of a live client.                                               *)
LEMMA LiveEnd ==
  ASSUME NEW list \in Seq(Entry), UniqueIn(list), NEW end, end.kind = "id",
         NEW k \in DOMAIN list, LiveIn(list, k, end.of)
  PROVE  Known(list, end) /\ AddrOf(list, end) = AddrFor(end) /\ FindById(list, end.of) = k
<1> DEFINE f == FindById(list, end.of)
<1>1. f \in {0} \union DOMAIN list /\ (f # 0 => list[f].id = end.of)
      /\ (f = 0 => \A l \in DOMAIN list : list[l].id # end.of)
  BY FoundById
<1>2. f # 0 /\ f = k
  BY <1>1 DEF LiveIn, UniqueIn
<1>3. end.kind # "number"
  OBVIOUS
<1> QED BY <1>2, <1>3 DEF Known, AddrOf, AddrFor, LiveIn

LEMMA UnsetMeans ==
  ASSUME NEW list \in Seq(Entry), UniqueIn(list), NEW p, BothById(p),
         NEW i \in DOMAIN list, NEW j \in DOMAIN list,
         LiveIn(list, i, p.src.of), LiveIn(list, j, p.dest.of)
  PROVE  Unset(list, p) = Meant(p) /\ CanUnset(list, p)
<1>1. p.src.kind = "id" /\ p.dest.kind = "id"
  BY DEF BothById, Ends
<1>2. AddrOf(list, p.src) = AddrFor(p.src) /\ Known(list, p.src)
  BY <1>1, LiveEnd
<1>3. AddrOf(list, p.dest) = AddrFor(p.dest) /\ Known(list, p.dest)
  BY <1>1, LiveEnd
<1> QED BY <1>2, <1>3, MeantEnds DEF Unset, CanUnset

(* A live client lets go of a patch that stays due if its own end is there *)
(* and the connection that the patch means is made, or the other end's     *)
(* client is not live.                                                     *)
LEMMA LeftIsMade ==
  ASSUME NEW list \in Seq(Entry), UniqueIn(list), NEW i \in DOMAIN list, NEW opened, NEW waiting,
         ResumePorts(list, i, opened, waiting), NEW p \in due', BothById(p),
         p \in Left(list, list[i], opened), NEW a, NEW b,
         (a = p.src /\ b = p.dest) \/ (a = p.dest /\ b = p.src),
         LiveIn(list, i, a.of)
  PROVE  /\ AddrFor(a) \in ports
         /\ \/ Meant(p) \in subs'
            \/ \A j \in DOMAIN list : ~LiveIn(list, j, b.of)
<1>1. /\ p \in due /\ p \notin GivenUp(list, list[i], opened)
      /\ subs' = subs \union {Unset(list, q) : q \in Resumed(list, list[i], opened)}
  BY DEF ResumePorts
<1>2. a.kind = "id" /\ b.kind = "id" /\ a.kind # "number" /\ b.kind # "number"
  BY DEF BothById, Ends
<1>3. AddrOf(list, a) = AddrFor(a) /\ Known(list, a)
  BY <1>2, LiveEnd
<1>4. CASE p \in Resumed(list, list[i], opened)
  <2>1. CanSubscribe(Unset(list, p))
    BY <1>4 DEF Resumed
  <2>2. AddrOf(list, a) \in ports
    BY <2>1 DEF CanSubscribe, Unset
  <2>3. ASSUME NEW j \in DOMAIN list, LiveIn(list, j, b.of) PROVE Meant(p) \in subs'
    <3>1. Unset(list, p) = Meant(p)
      BY <2>3, UnsetMeans
    <3> QED BY <1>1, <1>4, <3>1
  <2> QED BY <1>3, <2>2, <2>3
<1>5. CASE p \in Dropped(list, list[i], opened)
  <2>1. ~CanUnset(list, p)
    BY <1>5 DEF Dropped
  <2>2. ~Known(list, b)
    BY <1>3, <2>1 DEF CanUnset
  <2>3. \A j \in DOMAIN list : ~LiveIn(list, j, b.of)
    BY <1>2, <2>2, LiveEnd
  <2>4. ~OwnEndMissing(list[i], p)
    BY <1>1, <1>5 DEF GivenUp
  <2>5. list[i].id = a.of /\ list[i].client_id = number[a.of]
    BY DEF LiveIn
  <2>6. At(list[i].client_id, a.port) \in ports
    BY <2>4, <2>5 DEF OwnEndMissing
  <2> QED BY <2>3, <2>5, <2>6 DEF AddrFor
<1> QED BY <1>4, <1>5 DEF Left

(* The port that a patch waits for makes its connection, if the other end  *)
(* is there.                                                               *)
LEMMA OpenedIsMade ==
  ASSUME NEW list \in Seq(Entry), UniqueIn(list), NEW k \in DOMAIN list, NEW opened,
         NEW waiting, ResumePorts(list, k, opened, waiting),
         NEW p, BothById(p), p \in list[k].old_patches,
         NEW i \in DOMAIN list, NEW j \in DOMAIN list,
         LiveIn(list, i, p.src.of), LiveIn(list, j, p.dest.of),
         Meant(p)[1] \in ports, Meant(p)[2] \in ports,
         \/ k = i /\ p.src.port \in opened
         \/ k = j /\ p.dest.port \in opened
  PROVE  Meant(p) \in subs'
<1> DEFINE e == list[k]
           able == {q \in Tried(list, e, opened) : CanSubscribe(Unset(list, q))}
<1>1. subs' = subs \union {Unset(list, q) : q \in Resumed(list, e, opened)}
  BY DEF ResumePorts
<1>2. Unset(list, p) = Meant(p) /\ CanUnset(list, p)
  BY UnsetMeans
<1>3. SUFFICES ASSUME Meant(p) \notin subs
               PROVE  \E q \in Resumed(list, e, opened) : Unset(list, q) = Meant(p)
  BY <1>1
<1>4. p \in able
  <2>1. Meant(p)[1].client = number[p.src.of] /\ Meant(p)[1].port = p.src.port
        /\ Meant(p)[2].client = number[p.dest.of] /\ Meant(p)[2].port = p.dest.port
    BY DEF Meant, At
  <2>2. Touches(Meant(p), e.client_id, opened) /\ opened # {}
    BY <2>1 DEF Touches, LiveIn
  <2>3. CanSubscribe(Meant(p))
    BY <1>3 DEF CanSubscribe
  <2>4. p \in Tried(list, e, opened)
    BY <1>2, <2>2 DEF Tried
  <2> QED BY <1>2, <2>3, <2>4
<1> DEFINE r == CHOOSE q \in able : Unset(list, q) = Unset(list, p)
<1>5. r \in able /\ Unset(list, r) = Unset(list, p)
  <2> HIDE DEF able
  <2> QED BY <1>4
<1>6. Resumed(list, e, opened) = {q \in able : q = CHOOSE s \in able : Unset(list, s) = Unset(list, q)}
  BY DEF Resumed
<1>7. r = CHOOSE s \in able : Unset(list, s) = Unset(list, r)
  <2> HIDE DEF able
  <2> QED BY <1>5
<1> HIDE DEF able, r
<1> QED BY <1>2, <1>5, <1>6, <1>7

------------------------------------------------------------------------------
(* Every step keeps the types *)

LEMMA AddrOfPort ==
  ASSUME AlsaTypes, NEW x \in Program, NEW p \in PortsOf[x], number[x] # 0
  PROVE  At(number[x], p) \in Addr
<1>1. number[x] \in Number
  BY DEF AlsaTypes
<1>2. p \in UNION {PortsOf[y] : y \in Program}
  OBVIOUS
<1> QED BY <1>1, <1>2 DEF At, Addr

LEMMA OpenSequencerTypes ==
  ASSUME TypeInv, NEW x \in Program, OpenSequencer(x)
  PROVE  AlsaTypes'
<1>1. PICK n \in Number : number' = [number EXCEPT ![x] = n]
  BY DEF OpenSequencer
<1>2. number' \in [Program -> Number \union {0}]
  BY <1>1 DEF TypeInv, AlsaTypes
<1> QED BY <1>2 DEF OpenSequencer, TypeInv, AlsaTypes

LEMMA OpenPortTypes ==
  ASSUME TypeInv, NEW x \in Program, NEW p \in PortsOf[x], OpenPort(x, p)
  PROVE  /\ AlsaTypes' /\ At(number[x], p) \in Addr
         /\ ports' = ports \union {At(number[x], p)}
         /\ events' = Append(events, PortStart(At(number[x], p)))
         /\ PortStart(At(number[x], p)) \in Event
<1> DEFINE a == At(number[x], p)
<1>1. /\ ports' = ports \union {a} /\ events' = Append(events, PortStart(a))
      /\ subs' = subs /\ number' = number
  BY DEF OpenPort, PortStart
<1>2. a \in Addr
  BY AddrOfPort DEF OpenPort, TypeInv
<1> HIDE DEF a
<1>3. PortStart(a) \in Event
  BY <1>2 DEF Event
<1>4. IsFiniteSet(ports')
  BY <1>1, FS_AddElement DEF TypeInv, AlsaTypes
<1>5. events' \in Seq(Event)
  BY <1>1, <1>3 DEF TypeInv, AlsaTypes
<1>6. AlsaTypes'
  BY <1>1, <1>2, <1>4, <1>5 DEF TypeInv, AlsaTypes
<1> QED BY <1>1, <1>2, <1>3, <1>6 DEF a

LEMMA OneChange ==
  ASSUME NEW s \in Seq(Event)
  PROVE  Grown(s \o Changed(1), s, {Change}) /\ ChangeIn(s \o Changed(1))
<1> DEFINE r == Changed(1)
           added == {Change}
<1>1. r \in Seq(Event) /\ Len(r) = 1 /\ r \in Seq(added) /\ added \in SUBSET Event
  BY ChangedType DEF Event
<1> HIDE DEF r, added
<1>2. Grown(s \o r, s, added)
  BY <1>1, ConcatGrows
<1>3. Len(s \o r) = Len(s) + 1 /\ s \o r \in Seq(Event) /\ Len(s) \in Nat
  BY <1>1, ConcatProperties
<1>4. Len(s) + 1 \in DOMAIN (s \o r) /\ (s \o r)[Len(s) + 1] \in added
  BY <1>2, <1>3 DEF Grown
<1>5. ChangeIn(s \o r)
  BY <1>4 DEF ChangeIn, added
<1> QED BY <1>2, <1>5 DEF r, added

LEMMA UserConnectsTypes ==
  ASSUME TypeInv, NEW w \in Wire, UserConnects(w)
  PROVE  AlsaTypes' /\ Grown(events', events, {Change}) /\ ChangeIn(events')
<1>1. /\ subs' = subs \union {SubOf(w)} /\ CanSubscribe(SubOf(w))
      /\ events' = events \o Changed(1) /\ ports' = ports /\ number' = number
  BY DEF UserConnects
<1>2. SubOf(w) \in ports \X ports
  BY <1>1 DEF CanSubscribe, SubOf
<1>3. subs' \subseteq ports \X ports
  BY <1>1, <1>2 DEF TypeInv, AlsaTypes
<1>4. Grown(events', events, {Change}) /\ ChangeIn(events')
  BY <1>1, OneChange DEF TypeInv, AlsaTypes
<1> QED BY <1>1, <1>3, <1>4 DEF TypeInv, AlsaTypes, Grown

LEMMA UserDisconnectsTypes ==
  ASSUME TypeInv, NEW s \in subs, UserDisconnects(s)
  PROVE  AlsaTypes' /\ Grown(events', events, {Change}) /\ ChangeIn(events')
<1>1. /\ subs' = subs \ {s} /\ events' = events \o Changed(1) /\ ports' = ports /\ number' = number
  BY DEF UserDisconnects
<1>2. Grown(events', events, {Change}) /\ ChangeIn(events')
  BY <1>1, OneChange DEF TypeInv, AlsaTypes
<1> QED BY <1>1, <1>2 DEF TypeInv, AlsaTypes, Grown

(* The ports that go with a program, and their connections.                *)
Gone(x) == {a \in ports : a.client = number[x]}
Cut(x) == {s \in subs : number[x] \in {s[1].client, s[2].client}}

LEMMA ExitTypes ==
  ASSUME TypeInv, NEW x \in Program, Exit(x)
  PROVE  /\ AlsaTypes'
         /\ Grown(events', events, {PortExit(a) : a \in Gone(x)})
         /\ number' = [number EXCEPT ![x] = 0]
         /\ ports' = ports \ Gone(x) /\ subs' = subs \ Cut(x)
         /\ unread' = unread \union {c \in Client : \E s \in Cut(x) : number[c] \in {s[1].client, s[2].client}}
<1> DEFINE U == {PortExit(a) : a \in Gone(x)}
<1>1. /\ number' = [number EXCEPT ![x] = 0]
      /\ ports' = ports \ Gone(x) /\ subs' = subs \ Cut(x)
      /\ events' = events \o SetToSeq(U)
      /\ unread' = unread \union {c \in Client : \E s \in Cut(x) : number[c] \in {s[1].client, s[2].client}}
  BY DEF Exit, Gone, Cut, PortExit
<1>2. U \subseteq Event
  BY DEF Event, Gone, TypeInv, AlsaTypes
<1>3. IsFiniteSet(U) /\ IsFiniteSet(ports')
  <2>1. Gone(x) \in SUBSET ports /\ ports' \in SUBSET ports
    BY <1>1 DEF Gone
  <2>2. IsFiniteSet(Gone(x)) /\ IsFiniteSet(ports')
    BY <2>1, FS_Subset DEF TypeInv, AlsaTypes
  <2> DEFINE f == [a \in Gone(x) |-> PortExit(a)]
  <2>3. f \in Surjection(Gone(x), U)
    BY DEF Surjection
  <2> HIDE DEF f, U
  <2> QED BY <2>2, <2>3, FS_Surjection
<1> HIDE DEF U
<1>4. Grown(events', events, U)
  <2>1. SetToSeq(U) \in Seq(U) /\ U \in SUBSET Event /\ events \in Seq(Event)
    BY <1>2, <1>3, SetToSeqType DEF TypeInv, AlsaTypes
  <2> QED BY <1>1, <2>1, ConcatGrows
<1>5. AlsaTypes'
  <2>1. number' \in [Program -> Number \union {0}]
    BY <1>1 DEF TypeInv, AlsaTypes
  <2>2. ports' \subseteq Addr
    BY <1>1 DEF TypeInv, AlsaTypes
  <2>3. subs' \subseteq ports' \X ports'
    <3>1. SUFFICES ASSUME NEW s \in subs' PROVE s \in ports' \X ports'
      OBVIOUS
    <3>2. s \in ports \X ports /\ s[1].client # number[x] /\ s[2].client # number[x]
      BY <1>1 DEF Cut, TypeInv, AlsaTypes
    <3>3. s[1] \in ports' /\ s[2] \in ports'
      BY <1>1, <3>2 DEF Gone
    <3> QED BY <3>2, <3>3
  <2>4. events' \in Seq(Event)
    BY <1>4 DEF Grown
  <2> QED BY <1>3, <2>1, <2>2, <2>3, <2>4 DEF AlsaTypes
<1> QED BY <1>1, <1>4, <1>5 DEF U

(* The environment leaves the manager's data alone.                        *)
LEMMA EnvironmentTypes ==
  ASSUME TypeInv, Environment
  PROVE  TypeInv'
<1> USE DEF TypeInv, LashdTypes
<1>1. ASSUME NEW x \in Program, OpenSequencer(x) PROVE TypeInv'
  <2>1. AlsaTypes'
    BY <1>1, OpenSequencerTypes
  <2> QED BY <1>1, <2>1 DEF OpenSequencer, ExternalStep, processVars, mgrVars, projectVars
<1>2. ASSUME NEW x \in Program, Exit(x) PROVE TypeInv'
  <2>1. AlsaTypes' /\ unread' \subseteq Client
    BY <1>2, ExitTypes
  <2>2. process' \in [Client -> {"none", "up", "connected", "told", "stray"}]
    BY <1>2 DEF Exit
  <2> QED BY <1>2, <2>1, <2>2 DEF Exit, ExternalStep, mgrVars, projectVars
<1>3. ASSUME NEW x \in Program, NEW p \in PortsOf[x], OpenPort(x, p) PROVE TypeInv'
  <2>1. AlsaTypes'
    BY <1>3, OpenPortTypes
  <2> QED BY <1>3, <2>1 DEF OpenPort, ExternalStep, processVars, mgrVars, projectVars
<1>4. ASSUME NEW w \in Wire, UserConnects(w) PROVE TypeInv'
  <2>1. AlsaTypes'
    BY <1>4, UserConnectsTypes
  <2> QED BY <1>4, <2>1 DEF UserConnects, ExternalStep, processVars, mgrVars, projectVars
<1>5. ASSUME NEW s \in subs, UserDisconnects(s) PROVE TypeInv'
  <2>1. AlsaTypes'
    BY <1>5, UserDisconnectsTypes
  <2>2. due' \subseteq due
    BY <1>5 DEF UserDisconnects
  <2> QED BY <1>5, <2>1, <2>2 DEF UserDisconnects, ExternalStep, processVars, mgrVars, projectVars
<1>6. ASSUME NEW c \in Client, Start(c) PROVE TypeInv'
  <2>1. process' \in [Client -> {"none", "up", "connected", "told", "stray"}]
    BY <1>6 DEF Start
  <2> QED BY <1>6, <2>1 DEF Start, ExternalStep, sequencerVars, mgrVars, projectVars, AlsaTypes
<1>7. ASSUME NEW c \in Client, TellId(c) PROVE TypeInv'
  <2>1. process' \in [Client -> {"none", "up", "connected", "told", "stray"}]
    BY <1>7 DEF TellId
  <2>2. c \in Program /\ number[c] \in Number \union {0}
    BY DEF AlsaTypes, Program
  <2>3. told' \in [Client -> Number \union {0}]
    BY <1>7, <2>2 DEF TellId
  <2> QED BY <1>7, <2>1, <2>3 DEF TellId, ExternalStep, sequencerVars, mgrVars, projectVars, AlsaTypes
<1> QED BY <1>1, <1>2, <1>3, <1>4, <1>5, <1>6, <1>7 DEF Environment

(* The event thread's work with the list that an announcement leaves.      *)
LEMMA ResumedStep ==
  ASSUME TypeInv, NEW list \in Seq(Entry), NEW i \in DOMAIN list, NEW opened,
         NEW waiting \in Seq(Event), ResumePorts(list, i, opened, waiting),
         number' = number, ports' = ports
  PROVE  AlsaTypes' /\ due' \subseteq Patch
<1>1. /\ subs' \subseteq ports \X ports /\ Grown(events', waiting, {Change})
      /\ due' \subseteq due
  BY ResumedTypes DEF TypeInv
<1> QED BY <1>1 DEF TypeInv, AlsaTypes, LashdTypes, Grown

LEMMA HeadKinds ==
  ASSUME TypeInv, events # <<>>
  PROVE  /\ Head(events) \in Event
         /\ Head(events).kind = "start" => Head(events).addr \in Addr /\ Head(events) = PortStart(Head(events).addr)
         /\ Head(events).kind = "exit" => Head(events).addr \in Addr /\ Head(events) = PortExit(Head(events).addr)
         /\ Head(events).kind = "changed" => Head(events) = Change
         /\ Tail(events) \in Seq(Event)
<1>1. Head(events) \in Event /\ Tail(events) \in Seq(Event)
  BY HeadTailProperties DEF TypeInv, AlsaTypes
<1> DEFINE h == Head(events)
<1> HIDE DEF h
<1>2. h = Change \/ (\E a \in Addr : h = PortStart(a)) \/ (\E a \in Addr : h = PortExit(a))
  BY <1>1 DEF Event, h
<1>3. ASSUME NEW a \in Addr, h = PortStart(a) PROVE h.kind = "start" /\ h.addr = a
  BY <1>3 DEF PortStart
<1>4. ASSUME NEW a \in Addr, h = PortExit(a) PROVE h.kind = "exit" /\ h.addr = a
  BY <1>4 DEF PortExit
<1>5. h = Change => h.kind = "changed"
  BY DEF Change
<1> QED BY <1>1, <1>2, <1>3, <1>4, <1>5 DEF h

(* The list of clients as alsa_mgr_redo_patches leaves it.                 *)
Read == [i \in DOMAIN clients |-> Refreshed(clients[i])]

LEMMA ReadEntries ==
  ASSUME TypeInv
  PROVE  /\ Read \in Seq(Entry) /\ Len(Read) = Len(clients)
         /\ \A i \in DOMAIN clients :
              /\ Read[i].id = clients[i].id /\ Read[i].client_id = clients[i].client_id
              /\ Read[i].patches = SubsOf(clients[i].client_id)
              /\ Read[i].old_patches = clients[i].old_patches
<1>1. Len(clients) \in Nat /\ DOMAIN clients = 1..Len(clients) /\ \A i \in DOMAIN clients : clients[i] \in Entry
  BY DEF TypeInv, LashdTypes
<1>2. \A n : SubsOf(n) \subseteq Addr \X Addr
  BY PairsFinite DEF TypeInv, AlsaTypes, SubsOf
<1>3. ASSUME NEW i \in DOMAIN clients
      PROVE  /\ Read[i] \in Entry /\ Read[i].id = clients[i].id /\ Read[i].client_id = clients[i].client_id
             /\ Read[i].patches = SubsOf(clients[i].client_id)
             /\ Read[i].old_patches = clients[i].old_patches
  <2>1. Read[i] = [clients[i] EXCEPT !.patches = SubsOf(clients[i].client_id)] /\ clients[i] \in Entry
    BY <1>1 DEF Read, Refreshed
  <2> QED BY <1>2, <2>1 DEF Entry
<1>4. DOMAIN Read = 1..Len(clients) /\ Read = [i \in 1..Len(clients) |-> Read[i]]
  BY <1>1 DEF Read
<1> HIDE DEF Read
<1>5. Read \in Seq(Entry) /\ Len(Read) = Len(clients)
  BY <1>1, <1>3, <1>4
<1> QED BY <1>3, <1>5

LEMMA EventTypes ==
  ASSUME TypeInv, HandleEvent
  PROVE  TypeInv'
<1>1. clients \in Seq(Entry)
  BY DEF TypeInv, LashdTypes
<1>2. /\ events # <<>>
      /\ UNCHANGED <<number, ports, process, told, ends, lashd, lash, loaded, saving, doc>>
  BY DEF HandleEvent, processVars, projectVars
<1>3. ASSUME NEW a \in Addr, NewPort(a) PROVE TypeInv'
  <2> DEFINE i == FindByNumber(clients, a.client)
  <2>1. i \in {0} \union DOMAIN clients
    BY <1>1, FoundByNumber
  <2>2. CASE i # 0
    <3>1. /\ ResumePorts(clients, i, {a.port}, Tail(events))
          /\ MaybeBackup(AfterResuming(clients, i, {a.port}))
          /\ UNCHANGED <<foreign_ports, unread>>
      BY <1>3, <2>2 DEF NewPort
    <3> HIDE DEF i
    <3>2. i \in DOMAIN clients /\ Tail(events) \in Seq(Event)
      BY <1>2, <2>1, <2>2, HeadKinds
    <3>3. AlsaTypes' /\ due' \subseteq Patch
      BY <1>1, <1>2, <3>1, <3>2, ResumedStep
    <3>4. clients' \in Seq(Entry)
      BY <1>1, <3>1, <3>2, ResumedEntries, BackupRenewed DEF Alike, Resumes
    <3> QED BY <1>2, <3>1, <3>3, <3>4 DEF TypeInv, LashdTypes
  <2>3. CASE i = 0
    <3>1. /\ foreign_ports' = foreign_ports \union {a}
          /\ events' = Tail(events) /\ MaybeBackup(clients)
          /\ UNCHANGED <<subs, due, unread>>
      BY <1>3, <2>3 DEF NewPort
    <3>2. clients' \in Seq(Entry) /\ Tail(events) \in Seq(Event)
      BY <1>1, <1>2, <3>1, BackupRenewed, HeadKinds DEF Alike
    <3> QED BY <1>2, <3>1, <3>2 DEF TypeInv, LashdTypes, AlsaTypes
  <2> QED BY <2>2, <2>3
<1>4. ASSUME NEW a, PortRemoved(a) PROVE TypeInv'
  <2>1. clients' \in Seq(Entry) /\ Tail(events) \in Seq(Event)
    BY <1>1, <1>2, <1>4, BackupRenewed, HeadKinds DEF Alike, PortRemoved
  <2>2. foreign_ports' \subseteq foreign_ports
    BY <1>4 DEF PortRemoved
  <2> QED BY <1>2, <1>4, <2>1, <2>2 DEF TypeInv, LashdTypes, AlsaTypes, PortRemoved
<1>5. ASSUME RedoPatches PROVE TypeInv'
  <2>1. Read \in Seq(Entry) /\ MaybeBackup(Read)
    BY <1>5, ReadEntries DEF RedoPatches, Read
  <2>2. clients' \in Seq(Entry) /\ Tail(events) \in Seq(Event)
    BY <1>2, <2>1, BackupRenewed, HeadKinds DEF Alike
  <2>3. foreign_ports' = foreign_ports /\ unread' = {}
    BY <1>5 DEF RedoPatches
  <2> QED BY <1>2, <1>5, <2>2, <2>3 DEF TypeInv, LashdTypes, AlsaTypes, RedoPatches
<1> QED BY <1>2, <1>3, <1>4, <1>5, HeadKinds DEF HandleEvent

(* The list with a client's new entry.                                     *)
Added(c) == Append(clients, NewEntry(c, told[c], lash[c].alsa_patches))

LEMMA AddedEntries ==
  ASSUME TypeInv, NEW c \in Client, told[c] # 0
  PROVE  /\ Added(c) \in Seq(Entry) /\ Len(Added(c)) = Len(clients) + 1
         /\ Len(Added(c)) \in DOMAIN Added(c) /\ Len(clients) \in Nat
         /\ DOMAIN Added(c) = 1..Len(clients) + 1 /\ DOMAIN clients = 1..Len(clients)
         /\ \A i \in DOMAIN clients : Added(c)[i] = clients[i]
         /\ Added(c)[Len(Added(c))].id = c /\ Added(c)[Len(Added(c))].client_id = told[c]
         /\ Added(c)[Len(Added(c))].old_patches = lash[c].alsa_patches
<1> DEFINE e == NewEntry(c, told[c], lash[c].alsa_patches)
<1>1. e \in Entry /\ e.id = c /\ e.client_id = told[c] /\ e.old_patches = lash[c].alsa_patches
  BY DEF TypeInv, LashdTypes, NewEntry, Entry, LashClient
<1> HIDE DEF e
<1>2. clients \in Seq(Entry) /\ Len(clients) \in Nat /\ DOMAIN clients = 1..Len(clients)
  BY DEF TypeInv, LashdTypes
<1>3. /\ Append(clients, e) \in Seq(Entry) /\ Len(Append(clients, e)) = Len(clients) + 1
      /\ \A i \in 1..Len(clients) : Append(clients, e)[i] = clients[i]
      /\ Append(clients, e)[Len(clients) + 1] = e
  BY <1>1, <1>2
<1>4. Added(c) = Append(clients, e)
  BY DEF Added, e
<1> QED BY <1>1, <1>2, <1>3, <1>4

LEMMA AlsaIdTypes ==
  ASSUME TypeInv, NEW c \in Client, AlsaClientId(c)
  PROVE  TypeInv'
<1>0. /\ UNCHANGED <<number, ports, process, ends, lashd, loaded, saving, doc>>
      /\ told' = [told EXCEPT ![c] = 0] /\ told[c] # 0
  BY DEF AlsaClientId, projectVars
<1>1. told' \in [Client -> Number \union {0}]
  BY <1>0 DEF TypeInv, LashdTypes
<1>2. CASE lash[c].alsa_client_id # 0
  <2>1. UNCHANGED <<lash, subs, events, clients, foreign_ports, due, unread>>
    BY <1>2 DEF AlsaClientId, mgrVars
  <2> QED BY <1>0, <1>1, <2>1 DEF TypeInv, LashdTypes, AlsaTypes
<1>3. CASE lash[c].alsa_client_id = 0
  <2>1. AddClient(c, told[c])
    BY <1>3 DEF AlsaClientId
  <2> DEFINE opened == PortsWaiting(told[c])
             list == Added(c)
  <2>2. /\ lash' = [lash EXCEPT ![c].alsa_client_id = told[c], ![c].alsa_patches = {}]
        /\ ResumePorts(list, Len(list), opened, events)
        /\ clients' = AfterResuming(list, Len(list), opened)
        /\ foreign_ports' = foreign_ports \ {At(told[c], p) : p \in opened}
        /\ unread' = unread \union {c}
    BY <2>1 DEF AddClient, Added
  <2>3. list \in Seq(Entry) /\ Len(list) \in DOMAIN list /\ events \in Seq(Event)
    BY <1>0, AddedEntries DEF TypeInv, AlsaTypes
  <2> HIDE DEF list
  <2>4. AlsaTypes' /\ due' \subseteq Patch
    BY <1>0, <2>2, <2>3, ResumedStep
  <2>5. clients' \in Seq(Entry)
    BY <2>2, <2>3, ResumedEntries DEF Resumes
  <2>6. lash' \in [Client -> LashClient]
    <3>1. told[c] \in Number \union {0} /\ lash[c] \in LashClient
      BY DEF TypeInv, LashdTypes
    <3>2. [lash[c] EXCEPT !.alsa_client_id = told[c], !.alsa_patches = {}] \in LashClient
      BY <3>1 DEF LashClient
    <3>3. lash' = [lash EXCEPT ![c] = [lash[c] EXCEPT !.alsa_client_id = told[c], !.alsa_patches = {}]]
      BY <2>2 DEF TypeInv, LashdTypes
    <3> QED BY <3>2, <3>3 DEF TypeInv, LashdTypes
  <2> QED BY <1>0, <1>1, <2>2, <2>4, <2>5, <2>6 DEF TypeInv, LashdTypes
<1> QED BY <1>2, <1>3

(* Without some clients' entries.                                          *)
LEMMA WithoutEntries ==
  ASSUME NEW list \in Seq(Entry), NEW L
  PROVE  /\ Without(list, L) \in Seq(Entry)
         /\ \E from \in [DOMAIN Without(list, L) -> DOMAIN list] :
              /\ \A i \in DOMAIN Without(list, L) : Without(list, L)[i] = list[from[i]]
              /\ \A i, j \in DOMAIN Without(list, L) : from[i] = from[j] => i = j
         /\ \A i \in DOMAIN Without(list, L) : Without(list, L)[i].id \notin L
         /\ \A j \in DOMAIN list : list[j].id \notin L =>
              \E i \in DOMAIN Without(list, L) : Without(list, L)[i] = list[j]
<1> DEFINE K == {i \in DOMAIN list : list[i].id \notin L}
           r == Without(list, L)
<1>1. r = Keeping(list, K)
  BY DEF Without
<1>0. Len(list) \in Nat /\ DOMAIN list = 1..Len(list)
  OBVIOUS
<1>5. \A i \in DOMAIN list : i \in K <=> list[i].id \notin L
  OBVIOUS
<1> HIDE DEF K
<1>2. r \in Seq(Entry) /\ \E from : StaysOf(r, from, Len(list), list, K)
  BY <1>1, Kept
<1>3. PICK from : StaysOf(r, from, Len(list), list, K)
  BY <1>2
<1>4. /\ from \in [DOMAIN r -> (1..Len(list)) \intersect K]
      /\ \A i \in DOMAIN r : r[i] = list[from[i]]
      /\ \A i, j \in DOMAIN r : i < j => from[i] < from[j]
      /\ \A n \in (1..Len(list)) \intersect K : \E i \in DOMAIN r : from[i] = n
  BY <1>3 DEF StaysOf
<1>6. DOMAIN r \subseteq Nat
  BY <1>2
<1> HIDE DEF r
<1>7. ASSUME NEW i \in DOMAIN r, NEW j \in DOMAIN r, from[i] = from[j] PROVE i = j
  <2>1. i \in Nat /\ j \in Nat /\ from[i] \in Nat /\ from[j] \in Nat
    BY <1>4, <1>6
  <2>2. ~(i < j) /\ ~(j < i)
    BY <1>4, <1>7, <2>1
  <2> QED BY <2>1, <2>2
<1>8. from \in [DOMAIN r -> DOMAIN list]
  BY <1>0, <1>4
<1>9. \A i \in DOMAIN r : r[i].id \notin L
  BY <1>0, <1>4, <1>5
<1>10. \A j \in DOMAIN list : list[j].id \notin L => \E i \in DOMAIN r : r[i] = list[j]
  BY <1>0, <1>4, <1>5
<1> QED BY <1>2, <1>4, <1>7, <1>8, <1>9, <1>10 DEF r

(* What the thread that answers the clients' calls does.                   *)
MainThread ==
  \/ \E c \in Client : Connect(c) \/ AlsaClientId(c) \/ Disconnect(c) \/ Launch(c)
  \/ Save \/ SaveEnds \/ Close \/ Load

LEMMA MainTypes ==
  ASSUME TypeInv, MainThread
  PROVE  TypeInv'
<1>1. ASSUME NEW c \in Client, Connect(c) PROVE TypeInv'
  <2>1. process' \in [Client -> {"none", "up", "connected", "told", "stray"}]
    BY <1>1 DEF Connect, TypeInv, LashdTypes
  <2>2. lash' \in [Client -> LashClient]
    BY <1>1 DEF Connect, TypeInv, LashdTypes, LashClient
  <2> QED BY <1>1, <2>1, <2>2 DEF Connect, TypeInv, AlsaTypes, LashdTypes, sequencerVars, mgrVars,
                                  projectVars
<1>2. ASSUME NEW c \in Client, AlsaClientId(c) PROVE TypeInv'
  BY <1>2, AlsaIdTypes
<1>3. ASSUME NEW c \in Client, Disconnect(c) PROVE TypeInv'
  <2>1. lash' \in [Client -> LashClient]
    BY <1>3 DEF Disconnect, TypeInv, LashdTypes, LashClient
  <2>2. clients' \in Seq(Entry)
    BY <1>3, WithoutEntries DEF Disconnect, TypeInv, LashdTypes
  <2>3. lashd' \in BOOLEAN
    BY <1>3 DEF Disconnect, LosesBackup
  <2> QED BY <1>3, <2>1, <2>2, <2>3 DEF Disconnect, TypeInv, AlsaTypes, LashdTypes, sequencerVars,
                                        processVars, projectVars
<1>4. ASSUME NEW c \in Client, Launch(c) PROVE TypeInv'
  <2>1. process' \in [Client -> {"none", "up", "connected", "told", "stray"}]
    BY <1>4 DEF Launch, TypeInv, LashdTypes
  <2> QED BY <1>4, <2>1 DEF Launch, TypeInv, AlsaTypes, LashdTypes, sequencerVars, mgrVars,
                            projectVars
<1>5. CASE Save
  <2>1. lash' \in [Client -> LashClient]
    BY <1>5 DEF Save, TypeInv, LashdTypes, LashClient
  <2> QED BY <1>5, <2>1 DEF Save, TypeInv, AlsaTypes, LashdTypes, sequencerVars, processVars, mgrVars
<1>6. CASE SaveEnds
  <2>1. ASSUME NEW c \in Client PROVE ClientPatches(c) \subseteq Patch
    <3>1. FindById(clients, c) \in {0} \union DOMAIN clients /\ clients \in Seq(Entry)
      BY FoundById DEF TypeInv, LashdTypes
    <3>2. CASE FindById(clients, c) = 0
      BY <3>2 DEF ClientPatches
    <3>3. CASE FindById(clients, c) # 0
      <4>1. clients[FindById(clients, c)] \in Entry
        BY <3>1, <3>3
      <4>2. clients[FindById(clients, c)].patches \subseteq Addr \X Addr
        BY <4>1 DEF Entry
      <4> QED BY <3>1, <3>3, <4>2, PatchesAreSet DEF ClientPatches
    <3> QED BY <3>2, <3>3
  <2>2. \A c \in Client : doc'[c] = NotSaved \/ doc'[c] \subseteq Patch
    BY <1>6, <2>1 DEF SaveEnds
  <2>3. AlsaTypes'
    BY <1>6 DEF SaveEnds, TypeInv, AlsaTypes, sequencerVars
  <2>4. saving' = FALSE /\ UNCHANGED <<process, told, lashd, loaded, clients, foreign_ports, lash, due, unread>>
    BY <1>6 DEF SaveEnds, processVars, mgrVars
  <2>5. {lashd, loaded, saving}' \subseteq BOOLEAN
    BY <2>4 DEF TypeInv, LashdTypes
  <2> QED BY <2>2, <2>3, <2>4, <2>5 DEF TypeInv, LashdTypes
<1>7. CASE Close
  <2>1. lash' \in [Client -> LashClient]
    BY <1>7 DEF Close, NoLash, LashClient
  <2>2. clients' \in Seq(Entry)
    BY <1>7, WithoutEntries DEF Close, TypeInv, LashdTypes
  <2>3. process' \in [Client -> {"none", "up", "connected", "told", "stray"}]
        /\ told' \in [Client -> Number \union {0}]
    BY <1>7 DEF Close
  <2>4. AlsaTypes'
    BY <1>7 DEF Close, TypeInv, AlsaTypes, sequencerVars
  <2>5. loaded' = FALSE /\ saving' = FALSE /\ due' = {} /\ UNCHANGED <<lashd, foreign_ports, doc, unread>>
    BY <1>7 DEF Close
  <2>6. {lashd, loaded, saving}' \subseteq BOOLEAN
    BY <2>5 DEF TypeInv, LashdTypes
  <2> QED BY <2>1, <2>2, <2>3, <2>4, <2>5, <2>6 DEF TypeInv, LashdTypes
<1>8. CASE Load
  <2>1. ASSUME NEW c \in Client PROVE LashOf(doc, lash)[c] \in LashClient
    <3>1. lash[c] \in LashClient /\ (doc[c] = NotSaved \/ doc[c] \subseteq Patch)
      BY DEF TypeInv, LashdTypes
    <3> QED BY <3>1 DEF LashOf, SavedIn, NoLash, LashClient
  <2>2. lash' \in [Client -> LashClient]
    BY <1>8, <2>1 DEF Load, LashOf
  <2>3. due' \subseteq Patch
    BY <1>8 DEF Load, AtBothEnds, SavedIn, TypeInv, LashdTypes
  <2> QED BY <1>8, <2>2, <2>3 DEF Load, TypeInv, AlsaTypes, LashdTypes, sequencerVars, processVars,
                                  mgrVars
<1> QED BY <1>1, <1>2, <1>3, <1>4, <1>5, <1>6, <1>7, <1>8 DEF MainThread

LEMMA InitTypes == Init => TypeInv
<1> SUFFICES ASSUME Init PROVE TypeInv
  OBVIOUS
<1>1. \A c \in Client : doc[c] = NotSaved \/ doc[c] \subseteq Patch
  BY DocumentAssumption DEF Init, NoClients
<1>2. ASSUME NEW c \in Client PROVE LashOf(doc, Fresh)[c] \in LashClient
  BY <1>1 DEF LashOf, SavedIn, Fresh, NoLash, LashClient
<1>3. lash \in [Client -> LashClient]
  BY <1>2 DEF Init, LashOf
<1>4. due \subseteq Patch
  BY <1>1 DEF Init, AtBothEnds, SavedIn
<1>5. {lashd, loaded, saving} \subseteq BOOLEAN
  BY DEF Init
<1>6. events \in Seq(Event) /\ clients \in Seq(Entry)
  BY DEF Init
<1> QED BY <1>1, <1>3, <1>4, <1>5, <1>6, FS_EmptySet DEF Init, TypeInv, AlsaTypes, LashdTypes

LEMMA StepTypes == TypeInv /\ [Next]_vars => TypeInv'
<1>1. CASE UNCHANGED vars
  BY <1>1 DEF vars, sequencerVars, processVars, mgrVars, projectVars, TypeInv, AlsaTypes, LashdTypes
<1>2. CASE Next
  <2>1. Lashd => HandleEvent \/ MainThread
    BY DEF Lashd, MainThread
  <2> QED BY <1>2, <2>1, EnvironmentTypes, EventTypes, MainTypes DEF Next
<1> QED BY <1>1, <1>2

------------------------------------------------------------------------------
(* Programs, ids and entries *)

(* An ALSA id is one program's, and so is a port.                          *)
NumbersOK ==
  /\ \A x, y \in Program : number[x] = number[y] /\ number[x] # 0 => x = y
  /\ \A a \in ports : \E x \in Program : number[x] = a.client

(* What the project knows of a process that has connected.                 *)
ProcessesOK ==
  \A c \in Client :
    /\ process[c] = "none" => number[c] = 0
    /\ process[c] \in {"connected", "told"} => lash[c].state = "running"
    /\ lash[c].state = "running" => process[c] \in {"none", "connected", "told"}
    /\ told[c] # 0 =>
         /\ lash[c].state = "running" /\ process[c] # "connected"
         /\ process[c] = "told" => number[c] = told[c]

(* A LASH client has one entry at most, while it runs, and its id is in    *)
(* it, unless its process has ended.                                       *)
EntryOK(e) ==
  /\ lash[e.id].state = "running" /\ lash[e.id].alsa_client_id # 0
  /\ process[e.id] # "none" => number[e.id] = e.client_id
EntriesOK == UniqueIn(clients) /\ \A i \in DOMAIN clients : EntryOK(clients[i])

Closed ==
  ~loaded => /\ \A c \in Client : lash[c] = NoLash /\ process[c] \in {"none", "stray"}
             /\ due = {}

SameClients(new, old) ==
  DOMAIN new = DOMAIN old /\ \A i \in DOMAIN old : new[i].id = old[i].id /\ new[i].client_id = old[i].client_id

LEMMA NumbersStep ==
  ASSUME TypeInv, NumbersOK, [Next]_vars
  PROVE  NumbersOK'
<1>1. CASE UNCHANGED <<number, ports>>
  BY <1>1 DEF NumbersOK
<1>2. ASSUME NEW x \in Program, OpenSequencer(x) PROVE NumbersOK'
  <2>1. PICK n \in Number \ {number[y] : y \in Program} : number' = [number EXCEPT ![x] = n]
    BY <1>2 DEF OpenSequencer
  <2>2. ports' = ports /\ number[x] = 0 /\ n # 0
    BY <1>2, AlsaAssumption DEF OpenSequencer
  <2>3. \A y \in Program : number'[y] = IF y = x THEN n ELSE number[y]
    BY <2>1 DEF TypeInv, AlsaTypes
  <2>4. \A y \in Program : number[y] # n
    BY <2>1
  <2>5. ASSUME NEW a \in ports PROVE \E y \in Program : number'[y] = a.client
    <3>1. PICK y \in Program : number[y] = a.client
      BY DEF NumbersOK
    <3>2. a.client \in Number
      BY DEF TypeInv, AlsaTypes, Addr
    <3>3. y # x
      BY <2>2, <3>1, <3>2, AlsaAssumption
    <3> QED BY <2>3, <3>1, <3>3
  <2> QED BY <2>2, <2>3, <2>4, <2>5 DEF NumbersOK
<1>3. ASSUME NEW x \in Program, Exit(x) PROVE NumbersOK'
  <2>1. number' = [number EXCEPT ![x] = 0] /\ ports' = ports \ Gone(x)
    BY <1>3, ExitTypes
  <2>2. \A y \in Program : number'[y] = IF y = x THEN 0 ELSE number[y]
    BY <2>1 DEF TypeInv, AlsaTypes
  <2>3. ASSUME NEW a \in ports' PROVE \E y \in Program : number'[y] = a.client
    <3>1. a \in ports /\ a.client # number[x]
      BY <2>1 DEF Gone
    <3>2. PICK y \in Program : number[y] = a.client
      BY <3>1 DEF NumbersOK
    <3> QED BY <2>2, <3>1, <3>2
  <2> QED BY <2>2, <2>3 DEF NumbersOK
<1>4. ASSUME NEW x \in Program, NEW p \in PortsOf[x], OpenPort(x, p) PROVE NumbersOK'
  <2>1. ports' = ports \union {At(number[x], p)} /\ number' = number
    BY <1>4 DEF OpenPort
  <2>2. At(number[x], p).client = number[x]
    BY DEF At
  <2> QED BY <2>1, <2>2 DEF NumbersOK
<1>5. CASE HandleEvent
  <2>1. UNCHANGED <<number, ports>>
    BY <1>5 DEF HandleEvent
  <2> QED BY <1>1, <2>1
<1>6. CASE MainThread
  <2>1. UNCHANGED <<number, ports>>
    BY <1>6 DEF MainThread, Connect, AlsaClientId, Disconnect, Launch, Save, SaveEnds, Close, Load, sequencerVars
  <2> QED BY <1>1, <2>1
<1>7. CASE Environment
  <2>1. ASSUME NEW w, UserConnects(w) \/ UserDisconnects(w) PROVE UNCHANGED <<number, ports>>
    BY <2>1 DEF UserConnects, UserDisconnects
  <2>2. ASSUME NEW c, Start(c) \/ TellId(c) PROVE UNCHANGED <<number, ports>>
    BY <2>2 DEF Start, TellId, sequencerVars
  <2> QED BY <1>1, <1>2, <1>3, <1>4, <1>7, <2>1, <2>2 DEF Environment
<1>8. CASE UNCHANGED vars
  BY <1>1, <1>8 DEF vars, sequencerVars
<1> QED BY <1>5, <1>6, <1>7, <1>8 DEF Next, Lashd, MainThread

(* lashd knows a port that is there, or will hear of it.                   *)
KnownPort(a) == AnnouncedIn(events, a) \/ (a \in foreign_ports /\ NoExit(events, a))

EventFrame == UNCHANGED <<number, ports, process, told, ends, lashd, lash, loaded, saving, doc>>

(* An announcement is of a port of a known client, or the thread's step    *)
(* leaves the subscriptions and all waiting patches as they are.           *)
TakesPort(a, i, opened) ==
  /\ events # <<>> /\ Head(events) = PortStart(a)
  /\ clients[i].client_id = a.client /\ opened = {a.port}
  /\ ResumePorts(clients, i, opened, Tail(events))
  /\ Alike(clients', AfterResuming(clients, i, opened))
  /\ UNCHANGED <<foreign_ports, unread>>

SameOld(new, old) ==
  /\ SameClients(new, old) /\ \A i \in DOMAIN old : new[i].old_patches = old[i].old_patches

TakesNoPort ==
  /\ UNCHANGED <<subs, due>> /\ SameOld(clients', clients)
  /\ \A a \in ports : KnownPort(a) => KnownPort(a)'
  /\ \A a : StartIn(events, a) =>
       StartIn(events', a) \/ \A i \in DOMAIN clients : clients[i].client_id # a.client
  /\ \/ \A i \in DOMAIN clients : clients'[i].patches = SubsOf(clients[i].client_id)
     \/ /\ \A i \in DOMAIN clients : clients'[i].patches = clients[i].patches
        /\ UNCHANGED unread /\ (ChangeIn(events) => ChangeIn(events'))

LEMMA AlikeSame ==
  ASSUME NEW new, NEW old \in Seq(Entry), Alike(new, old)
  PROVE  new \in Seq(Entry) /\ SameOld(new, old)
         /\ \A i \in DOMAIN old : new[i].patches = old[i].patches
<1>1. DOMAIN new = 1..Len(new) /\ DOMAIN old = 1..Len(old)
  BY DEF Alike
<1> QED BY <1>1 DEF Alike, SameOld, SameClients

LEMMA EventCases ==
  ASSUME TypeInv, HandleEvent
  PROVE  /\ EventFrame /\ clients' \in Seq(Entry)
         /\ \/ \E a \in Addr, i \in DOMAIN clients : \E opened : TakesPort(a, i, opened)
            \/ TakesNoPort
<1> DEFINE T == Tail(events)
<1>1. clients \in Seq(Entry) /\ Len(clients) \in Nat /\ DOMAIN clients = 1..Len(clients)
  BY DEF TypeInv, LashdTypes
<1>2. events # <<>> /\ EventFrame /\ events \in Seq(Event)
  BY DEF HandleEvent, processVars, projectVars, EventFrame, TypeInv, AlsaTypes
<1>3. \A a : /\ StartIn(events, a) => StartIn(T, a) \/ Head(events) = PortStart(a)
             /\ ChangeIn(events) => ChangeIn(T) \/ Head(events) = Change
             /\ AnnouncedIn(events, a) => \/ AnnouncedIn(T, a)
                                          \/ Head(events) = PortStart(a) /\ NoExit(T, a)
             /\ NoExit(events, a) => NoExit(T, a) /\ Head(events) # PortExit(a)
  BY <1>2, TailKeeps
<1> HIDE DEF T
<1>4. ASSUME NEW a \in Addr, Head(events) = PortStart(a), NewPort(a)
      PROVE  /\ clients' \in Seq(Entry)
             /\ (\E i \in DOMAIN clients : \E opened : TakesPort(a, i, opened)) \/ TakesNoPort
  <2> DEFINE i == FindByNumber(clients, a.client)
             opened == {a.port}
  <2>1. /\ i \in {0} \union DOMAIN clients
        /\ i # 0 => clients[i].client_id = a.client
        /\ i = 0 => \A j \in DOMAIN clients : clients[j].client_id # a.client
    BY <1>1, FoundByNumber
  <2>2. CASE i # 0
    <3>1. /\ ResumePorts(clients, i, opened, T) /\ MaybeBackup(AfterResuming(clients, i, opened))
          /\ UNCHANGED <<foreign_ports, unread>>
      BY <1>4, <2>2 DEF NewPort, T
    <3>2. i \in DOMAIN clients /\ clients[i].client_id = a.client
      BY <2>1, <2>2
    <3> DEFINE o == opened
    <3>3. o = {a.port}
      OBVIOUS
    <3> HIDE DEF i, o, opened
    <3>4. AfterResuming(clients, i, o) \in Seq(Entry)
      BY <1>1, <3>2, ResumedEntries DEF Resumes
    <3>5. Alike(clients', AfterResuming(clients, i, o))
      BY <3>1, <3>4, BackupRenewed DEF o
    <3>6. TakesPort(a, i, o)
      BY <1>2, <1>4, <3>1, <3>2, <3>3, <3>5 DEF TakesPort, T, o
    <3> QED BY <3>2, <3>5, <3>6 DEF Alike
  <2>3. CASE i = 0
    <3>1. /\ foreign_ports' = foreign_ports \union {a}
          /\ events' = T /\ MaybeBackup(clients) /\ UNCHANGED <<subs, due, unread>>
      BY <1>4, <2>3 DEF NewPort, T
    <3>2. /\ clients' \in Seq(Entry) /\ SameOld(clients', clients)
          /\ \A j \in DOMAIN clients : clients'[j].patches = clients[j].patches
      BY <1>1, <3>1, BackupRenewed, AlikeSame
    <3>3. ASSUME NEW b \in ports, KnownPort(b) PROVE KnownPort(b)'
      <4>1. CASE AnnouncedIn(events, b)
        <5>1. Head(events) = PortStart(b) => b = a
          BY <1>4, EventsDiffer
        <5>2. AnnouncedIn(T, b) \/ (b \in foreign_ports' /\ NoExit(T, b))
          BY <1>3, <3>1, <4>1, <5>1
        <5> QED BY <3>1, <5>2 DEF KnownPort
      <4>2. CASE b \in foreign_ports /\ NoExit(events, b)
        <5>1. b \in foreign_ports' /\ NoExit(T, b)
          BY <1>3, <3>1, <4>2
        <5> QED BY <3>1, <5>1 DEF KnownPort
      <4> QED BY <3>3, <4>1, <4>2 DEF KnownPort
    <3>4. ASSUME NEW b, StartIn(events, b)
          PROVE  StartIn(events', b) \/ \A j \in DOMAIN clients : clients[j].client_id # b.client
      <4>1. Head(events) = PortStart(b) => b = a
        BY <1>4, EventsDiffer
      <4> QED BY <1>3, <2>1, <2>3, <3>1, <3>4, <4>1
    <3>5. ChangeIn(events) => ChangeIn(events')
      BY <1>3, <1>4, <3>1, EventsDiffer
    <3> QED BY <3>1, <3>2, <3>3, <3>4, <3>5 DEF TakesNoPort
  <2> QED BY <2>2, <2>3
<1>5. ASSUME NEW a \in Addr, Head(events) = PortExit(a), PortRemoved(a)
      PROVE  clients' \in Seq(Entry) /\ TakesNoPort
  <2>1. /\ foreign_ports' = foreign_ports \ {a}
        /\ events' = T /\ MaybeBackup(clients) /\ UNCHANGED <<subs, due, unread>>
    BY <1>5 DEF PortRemoved, T
  <2>2. /\ clients' \in Seq(Entry) /\ SameOld(clients', clients)
        /\ \A j \in DOMAIN clients : clients'[j].patches = clients[j].patches
    BY <1>1, <2>1, BackupRenewed, AlikeSame
  <2>3. \A b : Head(events) # PortStart(b) /\ Head(events) # Change
    BY <1>5, EventsDiffer
  <2>4. ASSUME NEW b \in ports, KnownPort(b) PROVE KnownPort(b)'
    <3>1. AnnouncedIn(events, b) => AnnouncedIn(T, b)
      BY <1>3, <2>3
    <3>2. NoExit(events, b) => NoExit(T, b) /\ b # a
      BY <1>3, <1>5
    <3>3. b \in foreign_ports /\ b # a => b \in foreign_ports'
      BY <2>1
    <3> QED BY <2>1, <2>4, <3>1, <3>2, <3>3 DEF KnownPort
  <2>5. /\ \A b : StartIn(events, b) => StartIn(events', b)
        /\ ChangeIn(events) => ChangeIn(events')
    BY <1>3, <2>1, <2>3
  <2> QED BY <2>1, <2>2, <2>4, <2>5 DEF TakesNoPort
<1>6. ASSUME Head(events) = Change, RedoPatches
      PROVE  clients' \in Seq(Entry) /\ TakesNoPort
  <2>1. events' = T /\ MaybeBackup(Read) /\ UNCHANGED <<foreign_ports, subs, due>>
    BY <1>6 DEF RedoPatches, T, Read
  <2>2. /\ Read \in Seq(Entry) /\ Len(Read) = Len(clients) /\ DOMAIN Read = DOMAIN clients
        /\ SameOld(Read, clients)
        /\ \A j \in DOMAIN clients : Read[j].patches = SubsOf(clients[j].client_id)
    BY <1>1, ReadEntries DEF SameOld, SameClients
  <2>3. /\ clients' \in Seq(Entry) /\ SameOld(clients', Read)
        /\ \A j \in DOMAIN Read : clients'[j].patches = Read[j].patches
    BY <2>1, <2>2, BackupRenewed, AlikeSame
  <2>4. SameOld(clients', clients) /\ \A j \in DOMAIN clients : clients'[j].patches = SubsOf(clients[j].client_id)
    BY <2>2, <2>3 DEF SameOld, SameClients
  <2>5. \A b : Head(events) # PortStart(b)
    BY <1>6, EventsDiffer
  <2>6. ASSUME NEW b \in ports, KnownPort(b) PROVE KnownPort(b)'
    <3>1. AnnouncedIn(events, b) => AnnouncedIn(T, b)
      BY <1>3, <2>5
    <3>2. NoExit(events, b) => NoExit(T, b)
      BY <1>3
    <3> QED BY <2>1, <2>6, <3>1, <3>2 DEF KnownPort
  <2>7. \A b : StartIn(events, b) => StartIn(events', b)
    BY <1>3, <2>1, <2>5
  <2> QED BY <2>1, <2>3, <2>4, <2>6, <2>7 DEF TakesNoPort
<1> QED BY <1>2, <1>4, <1>5, <1>6, HeadKinds DEF HandleEvent

(* What handling an announcement changes of an entry.                      *)
LEMMA EventEntries ==
  ASSUME TypeInv, HandleEvent
  PROVE  /\ EventFrame /\ SameClients(clients', clients) /\ clients' \in Seq(Entry)
         /\ due' \subseteq due
<1>1. clients \in Seq(Entry) /\ Len(clients) \in Nat /\ DOMAIN clients = 1..Len(clients)
  BY DEF TypeInv, LashdTypes
<1>2. ASSUME NEW a, NEW i \in DOMAIN clients, NEW opened, TakesPort(a, i, opened)
      PROVE  SameClients(clients', clients) /\ due' \subseteq due
  <2> DEFINE list == AfterResuming(clients, i, opened)
  <2>0. Resumes(list, clients, i, opened)
    BY <1>1, ResumedEntries
  <2>1. /\ list \in Seq(Entry) /\ Len(list) = Len(clients)
        /\ \A j \in DOMAIN clients : list[j].id = clients[j].id /\ list[j].client_id = clients[j].client_id
    BY <2>0 DEF Resumes
  <2>2. Alike(clients', list) /\ due' \subseteq due
    BY <1>2 DEF TakesPort, ResumePorts
  <2> HIDE DEF list
  <2>3. DOMAIN list = DOMAIN clients /\ SameClients(clients', list)
    BY <1>1, <2>1, <2>2, AlikeSame DEF SameOld
  <2> QED BY <2>1, <2>2, <2>3 DEF SameClients
<1>3. TakesNoPort => SameClients(clients', clients) /\ due' \subseteq due
  BY DEF TakesNoPort, SameOld
<1> QED BY <1>2, <1>3, EventCases

(* What the manager's data say of a client that a step leaves alone.       *)
LEMMA ClientNumber ==
  ASSUME TypeInv, NEW c \in Client
  PROVE  /\ c \in Program /\ number[c] \in Number \union {0}
         /\ lash[c] \in LashClient /\ told[c] \in Number \union {0}
BY DEF TypeInv, AlsaTypes, LashdTypes, Program

LEMMA EntryTypes ==
  ASSUME TypeInv, NEW i \in DOMAIN clients
  PROVE  /\ clients[i].id \in Client /\ clients[i].client_id \in Number /\ clients[i].client_id # 0
         /\ clients[i].old_patches \subseteq Patch /\ i \in Nat
<1>1. clients[i] \in Entry /\ i \in Nat
  BY DEF TypeInv, LashdTypes
<1> QED BY <1>1, AlsaAssumption DEF Entry

LEMMA ProgramsEnvironment ==
  ASSUME TypeInv, NumbersOK, ProcessesOK, EntriesOK, Closed, Environment
  PROVE  ProcessesOK' /\ EntriesOK' /\ Closed'
<1>0. lash' = lash /\ clients' = clients /\ loaded' = loaded /\ due' \subseteq due /\ saving' = saving
  BY DEF Environment, OpenSequencer, Exit, OpenPort, UserConnects, UserDisconnects, Start, TellId,
     ExternalStep, mgrVars, projectVars
<1>1. \A c \in Client : c \in Program /\ process[c] \in {"none", "up", "connected", "told", "stray"}
  BY DEF Program, TypeInv, LashdTypes
<1>2. CASE UNCHANGED <<number, process, told>>
  BY <1>0, <1>2 DEF ProcessesOK, EntriesOK, EntryOK, Closed
<1>3. ASSUME NEW x \in Program, OpenSequencer(x) PROVE ProcessesOK' /\ EntriesOK' /\ Closed'
  <2>1. PICK n \in Number : number' = [number EXCEPT ![x] = n]
    BY <1>3 DEF OpenSequencer
  <2>2. number[x] = 0 /\ (x \in Client => process[x] # "none") /\ process' = process /\ told' = told
    BY <1>3 DEF OpenSequencer, processVars
  <2>3. \A y \in Program : number'[y] = IF y = x THEN n ELSE number[y]
    BY <2>1 DEF TypeInv, AlsaTypes
  <2>4. ProcessesOK'
    BY <1>0, <1>1, <2>2, <2>3 DEF ProcessesOK
  <2>5. ASSUME NEW i \in DOMAIN clients PROVE EntryOK(clients[i])'
    <3>1. clients[i].id \in Client /\ clients[i].client_id # 0
      BY EntryTypes
    <3>2. clients[i].id # x
      BY <2>2, <3>1 DEF EntriesOK, EntryOK
    <3> QED BY <1>0, <1>1, <2>2, <2>3, <3>1, <3>2 DEF EntriesOK, EntryOK
  <2> QED BY <1>0, <2>2, <2>4, <2>5 DEF EntriesOK, Closed
<1>4. ASSUME NEW x \in Program, Exit(x) PROVE ProcessesOK' /\ EntriesOK' /\ Closed'
  <2>1. /\ number' = [number EXCEPT ![x] = 0] /\ told' = told
        /\ process' = IF x \in Client THEN [process EXCEPT ![x] = "none"] ELSE process
    BY <1>4 DEF Exit
  <2>2. /\ \A y \in Program : number'[y] = IF y = x THEN 0 ELSE number[y]
        /\ \A c \in Client : process'[c] = IF c = x THEN "none" ELSE process[c]
    BY <2>1 DEF TypeInv, AlsaTypes, LashdTypes
  <2>3. ProcessesOK'
    BY <1>0, <1>1, <2>1, <2>2 DEF ProcessesOK
  <2>4. ASSUME NEW i \in DOMAIN clients PROVE EntryOK(clients[i])'
    <3>1. clients[i].id \in Client
      BY EntryTypes
    <3> QED BY <1>0, <1>1, <2>2, <3>1 DEF EntriesOK, EntryOK
  <2> QED BY <1>0, <2>2, <2>3, <2>4 DEF EntriesOK, Closed
<1>5. ASSUME NEW c \in Client, Start(c) PROVE ProcessesOK' /\ EntriesOK' /\ Closed'
  <2>1. /\ number' = number /\ told' = told /\ loaded /\ lash[c].state = "none" /\ process[c] = "none"
        /\ process' = [process EXCEPT ![c] = "up"]
    BY <1>5 DEF Start, sequencerVars
  <2>2. \A d \in Client : process'[d] = IF d = c THEN "up" ELSE process[d]
    BY <2>1 DEF TypeInv, LashdTypes
  <2>3. ProcessesOK'
    BY <1>0, <2>1, <2>2 DEF ProcessesOK
  <2>4. ASSUME NEW i \in DOMAIN clients PROVE EntryOK(clients[i])'
    <3>1. clients[i].id \in Client
      BY EntryTypes
    <3> QED BY <1>0, <2>1, <2>2, <3>1 DEF EntriesOK, EntryOK
  <2> QED BY <1>0, <2>1, <2>3, <2>4 DEF EntriesOK, Closed
<1>6. ASSUME NEW c \in Client, TellId(c) PROVE ProcessesOK' /\ EntriesOK' /\ Closed'
  <2>1. /\ number' = number /\ process[c] = "connected" /\ told' = [told EXCEPT ![c] = number[c]]
        /\ process' = [process EXCEPT ![c] = "told"]
    BY <1>6 DEF TellId, sequencerVars
  <2>2. \A d \in Client : /\ process'[d] = IF d = c THEN "told" ELSE process[d]
                          /\ told'[d] = IF d = c THEN number[c] ELSE told[d]
    BY <2>1 DEF TypeInv, LashdTypes
  <2>3. ProcessesOK'
    BY <1>0, <2>1, <2>2 DEF ProcessesOK
  <2>4. ASSUME NEW i \in DOMAIN clients PROVE EntryOK(clients[i])'
    <3>1. clients[i].id \in Client
      BY EntryTypes
    <3> QED BY <1>0, <2>1, <2>2, <3>1 DEF EntriesOK, EntryOK
  <2>5. loaded
    BY <2>1 DEF Closed
  <2> QED BY <1>0, <2>3, <2>4, <2>5 DEF EntriesOK, Closed
<1>7. ASSUME NEW w, UserConnects(w) \/ UserDisconnects(w) PROVE UNCHANGED <<number, process, told>>
  BY <1>7 DEF UserConnects, UserDisconnects, processVars
<1>8. ASSUME NEW x, NEW p, OpenPort(x, p) PROVE UNCHANGED <<number, process, told>>
  BY <1>8 DEF OpenPort, processVars
<1> QED BY <1>2, <1>3, <1>4, <1>5, <1>6, <1>7, <1>8 DEF Environment

LEMMA ProgramsEvent ==
  ASSUME TypeInv, ProcessesOK, EntriesOK, Closed, HandleEvent
  PROVE  ProcessesOK' /\ EntriesOK' /\ Closed'
<1>1. /\ UNCHANGED <<number, process, told, lash, loaded>> /\ due' \subseteq due
      /\ DOMAIN clients' = DOMAIN clients
      /\ \A i \in DOMAIN clients : clients'[i].id = clients[i].id /\ clients'[i].client_id = clients[i].client_id
  BY EventEntries DEF EventFrame, SameClients
<1>2. ProcessesOK' /\ Closed'
  BY <1>1 DEF ProcessesOK, Closed
<1>3. EntriesOK'
  BY <1>1 DEF EntriesOK, EntryOK, UniqueIn
<1> QED BY <1>2, <1>3

(* A client whose first ALSA id comes gets an entry.                       *)
TakesId(c, opened) ==
  /\ opened = {f.port : f \in {g \in foreign_ports : g.client = told[c]}}
  /\ lash' = [lash EXCEPT ![c].alsa_client_id = told[c], ![c].alsa_patches = {}]
  /\ ResumePorts(Added(c), Len(Added(c)), opened, events)
  /\ clients' = AfterResuming(Added(c), Len(Added(c)), opened)
  /\ foreign_ports' = {f \in foreign_ports : f.client # told[c]}
  /\ unread' = unread \union {c}

LEMMA IdCases ==
  ASSUME TypeInv, EntriesOK, ProcessesOK, NEW c \in Client, AlsaClientId(c)
  PROVE  /\ UNCHANGED <<number, ports, process, ends, lashd, loaded, saving, doc>>
         /\ told' = [told EXCEPT ![c] = 0] /\ told[c] # 0 /\ lash[c].state = "running"
         /\ \/ /\ lash[c].alsa_client_id = 0 /\ \E opened : TakesId(c, opened)
               /\ UniqueIn(Added(c)) /\ \A i \in DOMAIN clients : clients[i].id # c
            \/ UNCHANGED <<lash, subs, events, clients, foreign_ports, due, unread>>
<1>1. /\ UNCHANGED <<number, ports, process, ends, lashd, loaded, saving, doc>>
      /\ told' = [told EXCEPT ![c] = 0] /\ told[c] # 0
  BY DEF AlsaClientId, projectVars
<1>2. lash[c].state = "running"
  BY <1>1 DEF ProcessesOK
<1>3. ASSUME lash[c].alsa_client_id = 0
      PROVE  /\ \E opened : TakesId(c, opened)
             /\ UniqueIn(Added(c)) /\ \A i \in DOMAIN clients : clients[i].id # c
  <2>1. AddClient(c, told[c])
    BY <1>3 DEF AlsaClientId
  <2>2. TakesId(c, PortsWaiting(told[c]))
    <3> DEFINE opened == PortsWaiting(told[c])
    <3>1. opened = {f.port : f \in {g \in foreign_ports : g.client = told[c]}}
      BY DEF PortsWaiting
    <3>2. \A f \in foreign_ports : f = At(f.client, f.port)
      BY DEF TypeInv, LashdTypes, Addr, At
    <3>3. {At(told[c], p) : p \in opened} = {f \in foreign_ports : f.client = told[c]}
      BY <3>1, <3>2
    <3>4. foreign_ports \ {At(told[c], p) : p \in opened} = {f \in foreign_ports : f.client # told[c]}
      BY <3>3
    <3> HIDE DEF opened
    <3>5. TakesId(c, opened)
      BY <2>1, <3>1, <3>4 DEF AddClient, TakesId, Added, opened
    <3> QED BY <3>5 DEF opened
  <2>3. \A i \in DOMAIN clients : clients[i].id # c
    BY <1>3 DEF EntriesOK, EntryOK
  <2>4. UniqueIn(Added(c))
    <3>1. /\ DOMAIN Added(c) = 1..Len(clients) + 1 /\ DOMAIN clients = 1..Len(clients)
          /\ Len(clients) \in Nat /\ Len(Added(c)) = Len(clients) + 1
          /\ \A i \in DOMAIN clients : Added(c)[i] = clients[i]
          /\ Added(c)[Len(Added(c))].id = c
      BY <1>1, AddedEntries
    <3>2. \A i \in DOMAIN Added(c) : i \in DOMAIN clients \/ i = Len(clients) + 1
      BY <3>1
    <3> QED BY <2>3, <3>1, <3>2 DEF UniqueIn, EntriesOK
  <2> QED BY <2>2, <2>3, <2>4
<1>4. ASSUME lash[c].alsa_client_id # 0
      PROVE  UNCHANGED <<lash, subs, events, clients, foreign_ports, due, unread>>
  BY <1>4 DEF AlsaClientId, mgrVars
<1> QED BY <1>1, <1>2, <1>3, <1>4

(* The entries after a client's first id.                                  *)
EntriesWithId(c, opened) ==
  /\ clients' \in Seq(Entry)
  /\ Len(clients') = Len(clients) + 1 /\ DOMAIN clients' = DOMAIN clients \union {Len(clients')}
  /\ Len(clients') \notin DOMAIN clients
  /\ \A i \in DOMAIN clients :
       /\ clients'[i].id = clients[i].id /\ clients'[i].client_id = clients[i].client_id
       /\ clients'[i].old_patches = clients[i].old_patches
       /\ clients'[i].patches = clients[i].patches
  /\ clients'[Len(clients')].id = c /\ clients'[Len(clients')].client_id = told[c]
  /\ clients'[Len(clients')].old_patches =
       lash[c].alsa_patches \ Left(Added(c), Added(c)[Len(Added(c))], opened)
  /\ \A d \in Client : /\ d = c => lash'[d].alsa_client_id = told[c]
                       /\ d # c => lash'[d] = lash[d]
                       /\ lash'[d].state = lash[d].state

LEMMA IdTypes ==
  ASSUME TypeInv, NEW c \in Client, told[c] # 0, NEW opened, TakesId(c, opened)
  PROVE  EntriesWithId(c, opened)
<1> DEFINE list == Added(c)
           L == Len(list)
           spent == Left(list, list[L], opened)
<1>1. /\ list \in Seq(Entry) /\ L = Len(clients) + 1
      /\ L \in DOMAIN list /\ Len(clients) \in Nat
      /\ DOMAIN list = 1..Len(clients) + 1 /\ DOMAIN clients = 1..Len(clients)
      /\ \A i \in DOMAIN clients : list[i] = clients[i]
      /\ list[L].id = c /\ list[L].client_id = told[c] /\ list[L].old_patches = lash[c].alsa_patches
  BY AddedEntries
<1>2. Resumes(clients', list, L, opened)
  BY <1>1, ResumedEntries DEF TakesId
<1> HIDE DEF list
<1>3. /\ clients' \in Seq(Entry) /\ Len(clients') = L
      /\ \A j \in DOMAIN list :
           /\ clients'[j].id = list[j].id /\ clients'[j].client_id = list[j].client_id
           /\ clients'[j].patches = list[j].patches
           /\ clients'[j].old_patches = IF j = L THEN list[j].old_patches \ spent ELSE list[j].old_patches
  BY <1>2 DEF Resumes
<1> HIDE DEF L, spent
<1>4. DOMAIN clients' = 1..L /\ \A i \in DOMAIN clients : i \in DOMAIN list /\ i # L
  BY <1>1, <1>3
<1>5. DOMAIN clients' = DOMAIN clients \union {L} /\ L \notin DOMAIN clients
  BY <1>1, <1>4
<1>6. \A d \in Client : /\ d = c => lash'[d].alsa_client_id = told[c]
                        /\ d # c => lash'[d] = lash[d]
                        /\ lash'[d].state = lash[d].state
  <2>1. lash' = [lash EXCEPT ![c].alsa_client_id = told[c], ![c].alsa_patches = {}]
    BY DEF TakesId
  <2> QED BY <2>1 DEF TypeInv, LashdTypes, LashClient
<1>7. \A i \in DOMAIN clients :
        /\ clients'[i].id = clients[i].id /\ clients'[i].client_id = clients[i].client_id
        /\ clients'[i].old_patches = clients[i].old_patches
        /\ clients'[i].patches = clients[i].patches
  BY <1>1, <1>3, <1>4
<1>8. /\ clients'[L].id = c /\ clients'[L].client_id = told[c]
      /\ clients'[L].old_patches = lash[c].alsa_patches \ spent
  BY <1>1, <1>3
<1>9. spent = Left(Added(c), Added(c)[Len(Added(c))], opened)
  BY DEF spent, L, list
<1> HIDE DEF L, spent
<1> QED BY <1>1, <1>3, <1>5, <1>6, <1>7, <1>8, <1>9 DEF EntriesWithId

LEMMA ProgramsId ==
  ASSUME TypeInv, ProcessesOK, EntriesOK, Closed, NEW c \in Client, AlsaClientId(c)
  PROVE  ProcessesOK' /\ EntriesOK' /\ Closed'
<1>1. /\ UNCHANGED <<number, process, loaded>> /\ told' = [told EXCEPT ![c] = 0]
      /\ told[c] # 0 /\ lash[c].state = "running"
  BY IdCases
<1>2. \A d \in Client : told'[d] = IF d = c THEN 0 ELSE told[d]
  BY <1>1 DEF TypeInv, LashdTypes
<1>3. CASE UNCHANGED <<lash, subs, events, clients, foreign_ports, due, unread>>
  BY <1>1, <1>2, <1>3 DEF ProcessesOK, EntriesOK, EntryOK, Closed
<1>4. ASSUME NEW opened, TakesId(c, opened), lash[c].alsa_client_id = 0,
             \A i \in DOMAIN clients : clients[i].id # c
      PROVE  ProcessesOK' /\ EntriesOK' /\ Closed'
  <2>0. EntriesWithId(c, opened)
    BY <1>1, <1>4, IdTypes
  <2>1. PICK n : /\ n = Len(clients')
                 /\ DOMAIN clients' = DOMAIN clients \union {n} /\ n \notin DOMAIN clients
                 /\ clients'[n].id = c /\ clients'[n].client_id = told[c]
    BY <2>0 DEF EntriesWithId
  <2>2. /\ \A i \in DOMAIN clients : clients'[i].id = clients[i].id /\ clients'[i].client_id = clients[i].client_id
        /\ \A d \in Client : /\ d = c => lash'[d].alsa_client_id = told[c]
                             /\ d # c => lash'[d] = lash[d]
                             /\ lash'[d].state = lash[d].state
    BY <2>0 DEF EntriesWithId
  <2>3. ProcessesOK'
    BY <1>1, <1>2, <2>2 DEF ProcessesOK
  <2>4. ASSUME NEW i \in DOMAIN clients' PROVE EntryOK(clients[i])'
    <3>1. CASE i = n
      <4>1. process[c] # "none" => number[c] = told[c]
        BY <1>1 DEF ProcessesOK
      <4> QED BY <1>1, <2>1, <2>2, <3>1, <4>1 DEF EntryOK
    <3>2. CASE i \in DOMAIN clients
      <4>1. clients[i].id \in Client /\ clients[i].id # c /\ EntryOK(clients[i])
        BY <1>4, <3>2, EntryTypes DEF EntriesOK
      <4>2. clients'[i].id = clients[i].id /\ clients'[i].client_id = clients[i].client_id
        BY <2>2, <3>2
      <4> QED BY <1>1, <2>2, <4>1, <4>2 DEF EntryOK
    <3> QED BY <2>1, <3>1, <3>2
  <2>5. UniqueIn(clients)'
    BY <1>4, <2>1, <2>2 DEF UniqueIn, EntriesOK
  <2>6. loaded
    <3>1. lash[c] # NoLash
      BY <1>1 DEF NoLash
    <3> QED BY <3>1 DEF Closed
  <2> QED BY <1>1, <2>3, <2>4, <2>5, <2>6 DEF EntriesOK, Closed
<1> QED BY <1>3, <1>4, IdCases

(* Where the entries that stay were before.                                *)
LEMMA StayingEntries ==
  ASSUME TypeInv, EntriesOK, NEW L, clients' = Without(clients, L)
  PROVE  /\ UniqueIn(clients)'
         /\ \A i \in DOMAIN clients' :
              clients'[i].id \notin L /\ \E j \in DOMAIN clients : clients'[i] = clients[j]
<1>1. clients \in Seq(Entry)
  BY DEF TypeInv, LashdTypes
<1>2. PICK from \in [DOMAIN clients' -> DOMAIN clients] :
        /\ \A i \in DOMAIN clients' : clients'[i] = clients[from[i]]
        /\ \A i, j \in DOMAIN clients' : from[i] = from[j] => i = j
  BY <1>1, WithoutEntries
<1>3. \A i \in DOMAIN clients' : clients'[i].id \notin L
  BY <1>1, WithoutEntries
<1> QED BY <1>2, <1>3 DEF UniqueIn, EntriesOK

LEMMA ProgramsMain ==
  ASSUME TypeInv, ProcessesOK, EntriesOK, Closed, MainThread
  PROVE  ProcessesOK' /\ EntriesOK' /\ Closed'
<1>0. \A i \in DOMAIN clients : clients[i].id \in Client
  BY EntryTypes
<1>1. ASSUME NEW c \in Client, Connect(c) PROVE ProcessesOK' /\ EntriesOK' /\ Closed'
  <2>1. /\ number' = number /\ told' = told /\ loaded' = loaded /\ loaded /\ clients' = clients
        /\ process[c] = "up" /\ lash[c].state \in {"none", "lost"}
        /\ process' = [process EXCEPT ![c] = "connected"]
        /\ lash' = [lash EXCEPT ![c].state = "running"]
    BY <1>1 DEF Connect, sequencerVars, mgrVars, projectVars
  <2>2. \A d \in Client : /\ process'[d] = IF d = c THEN "connected" ELSE process[d]
                          /\ lash'[d].alsa_client_id = lash[d].alsa_client_id
                          /\ d # c => lash'[d] = lash[d]
                          /\ d = c => lash'[d].state = "running"
    BY <2>1 DEF TypeInv, LashdTypes, LashClient
  <2>3. ProcessesOK'
    BY <2>1, <2>2 DEF ProcessesOK
  <2>4. EntriesOK'
    BY <1>0, <2>1, <2>2 DEF EntriesOK, EntryOK, UniqueIn
  <2> QED BY <2>1, <2>3, <2>4 DEF Closed
<1>2. ASSUME NEW c \in Client, Disconnect(c) PROVE ProcessesOK' /\ EntriesOK' /\ Closed'
  <2>1. /\ number' = number /\ told' = told /\ process' = process /\ loaded' = loaded /\ due' = due
        /\ lash[c].state = "running" /\ process[c] = "none" /\ told[c] = 0
        /\ lash' = [lash EXCEPT ![c].state = "lost"] /\ clients' = Without(clients, {c})
    BY <1>2 DEF Disconnect, sequencerVars, processVars, projectVars
  <2>2. \A d \in Client : /\ lash'[d].alsa_client_id = lash[d].alsa_client_id
                          /\ d # c => lash'[d] = lash[d]
                          /\ d = c => lash'[d].state = "lost"
    BY <2>1 DEF TypeInv, LashdTypes, LashClient
  <2>3. ProcessesOK'
    BY <2>1, <2>2 DEF ProcessesOK
  <2>4. EntriesOK'
    <3>1. /\ UniqueIn(clients)'
          /\ \A i \in DOMAIN clients' :
               clients'[i].id \notin {c} /\ \E j \in DOMAIN clients : clients'[i] = clients[j]
      BY <2>1, StayingEntries
    <3>2. ASSUME NEW i \in DOMAIN clients' PROVE EntryOK(clients[i])'
      <4>1. PICK j \in DOMAIN clients : clients'[i] = clients[j] /\ clients[j].id # c
        BY <3>1, <3>2
      <4>2. EntryOK(clients[j]) /\ clients[j].id \in Client
        BY <1>0, EntryTypes DEF EntriesOK
      <4>3. lash'[clients[j].id] = lash[clients[j].id]
        BY <2>2, <4>1, <4>2
      <4> QED BY <2>1, <4>1, <4>2, <4>3 DEF EntryOK
    <3> QED BY <3>1, <3>2 DEF EntriesOK
  <2>5. loaded
    BY <2>1 DEF Closed, NoLash
  <2> QED BY <2>1, <2>3, <2>4, <2>5 DEF Closed
<1>3. ASSUME NEW c \in Client, Launch(c) PROVE ProcessesOK' /\ EntriesOK' /\ Closed'
  <2>1. /\ number' = number /\ told' = told /\ loaded' = loaded /\ clients' = clients /\ lash' = lash
        /\ process[c] = "none" /\ lash[c].state = "lost"
        /\ process' = [process EXCEPT ![c] = "up"]
    BY <1>3 DEF Launch, sequencerVars, mgrVars, projectVars
  <2>2. \A d \in Client : process'[d] = IF d = c THEN "up" ELSE process[d]
    BY <2>1 DEF TypeInv, LashdTypes
  <2>3. ProcessesOK'
    BY <2>1, <2>2 DEF ProcessesOK
  <2>4. EntriesOK'
    BY <1>0, <2>1, <2>2 DEF EntriesOK, EntryOK, UniqueIn
  <2>5. loaded
    BY <2>1 DEF Closed, NoLash
  <2> QED BY <2>1, <2>3, <2>4, <2>5 DEF Closed
<1>4. CASE Save
  <2>1. /\ UNCHANGED <<number, told, process, loaded, clients, due>> /\ loaded
        /\ \A d \in Client : /\ lash'[d].alsa_client_id = lash[d].alsa_client_id
                             /\ lash'[d].state = IF lash[d].state = "lost" THEN "gone" ELSE lash[d].state
    BY <1>4 DEF Save, sequencerVars, processVars, mgrVars, TypeInv, LashdTypes, LashClient
  <2>2. ProcessesOK'
    BY <2>1 DEF ProcessesOK
  <2>3. EntriesOK'
    BY <1>0, <2>1 DEF EntriesOK, EntryOK, UniqueIn
  <2> QED BY <2>1, <2>2, <2>3 DEF Closed
<1>5. CASE SaveEnds
  <2>1. UNCHANGED <<number, told, process, loaded, clients, due, lash>>
    BY <1>5 DEF SaveEnds, sequencerVars, processVars, mgrVars
  <2> QED BY <2>1 DEF ProcessesOK, EntriesOK, EntryOK, UniqueIn, Closed
<1>6. CASE Close
  <2>1. /\ number' = number /\ loaded' = FALSE /\ clients' = Without(clients, Running) /\ due' = {}
        /\ \A d \in Client : /\ lash'[d] = NoLash /\ told'[d] = 0
                             /\ process'[d] = IF process[d] = "none" THEN "none" ELSE "stray"
    BY <1>6 DEF Close, NoLash, sequencerVars
  <2>2. \A i \in DOMAIN clients : clients[i].id \in Running
    BY <1>0 DEF Running, EntriesOK, EntryOK
  <2>3. EntriesOK'
    BY <2>1, <2>2, StayingEntries DEF EntriesOK
  <2>4. ProcessesOK'
    BY <2>1 DEF ProcessesOK, NoLash
  <2> QED BY <2>1, <2>3, <2>4 DEF Closed
<1>7. CASE Load
  <2>1. /\ UNCHANGED <<number, told, process, clients>> /\ ~loaded /\ loaded'
        /\ lash' = LashOf(doc, lash)
    BY <1>7 DEF Load, sequencerVars, processVars, mgrVars
  <2>2. \A d \in Client : lash[d].state = "gone" /\ process[d] \in {"none", "stray"}
    BY <2>1 DEF Closed, NoLash
  <2>3. \A d \in Client : lash'[d].state \in {"gone", "lost"}
    BY <2>1, <2>2 DEF LashOf, NoLash
  <2>4. ProcessesOK'
    BY <2>1, <2>2, <2>3 DEF ProcessesOK
  <2>5. EntriesOK'
    BY <1>0, <2>1, <2>2 DEF EntriesOK, EntryOK, UniqueIn
  <2> QED BY <2>1, <2>4, <2>5 DEF Closed
<1> QED BY <1>1, <1>2, <1>3, <1>4, <1>5, <1>6, <1>7, ProgramsId DEF MainThread

LEMMA ProgramsInit ==
  ASSUME Init
  PROVE  NumbersOK /\ ProcessesOK /\ EntriesOK /\ Closed
<1>1. \A c \in Client : c \in Program /\ lash[c].state \in {"none", "lost"}
  BY DEF Init, LashOf, Fresh, NoLash, Program
<1>2. NumbersOK
  BY DEF Init, NumbersOK
<1>3. ProcessesOK
  BY <1>1 DEF Init, ProcessesOK
<1>4. EntriesOK /\ Closed
  BY DEF Init, EntriesOK, UniqueIn, Closed
<1> QED BY <1>2, <1>3, <1>4

ProgramsInv == TypeInv /\ NumbersOK /\ ProcessesOK /\ EntriesOK /\ Closed

LEMMA ProgramsStep == ProgramsInv /\ [Next]_vars => ProgramsInv'
<1> SUFFICES ASSUME ProgramsInv, [Next]_vars PROVE ProgramsInv'
  OBVIOUS
<1> USE DEF ProgramsInv
<1>1. TypeInv' /\ NumbersOK'
  BY StepTypes, NumbersStep
<1>2. CASE Next
  <2>1. Lashd => HandleEvent \/ MainThread
    BY DEF Lashd, MainThread
  <2> QED BY <1>1, <1>2, <2>1, ProgramsEnvironment, ProgramsEvent, ProgramsMain DEF Next
<1>3. CASE UNCHANGED vars
  BY <1>1, <1>3 DEF vars, sequencerVars, processVars, mgrVars, projectVars, ProcessesOK, EntriesOK,
                    EntryOK, UniqueIn, Closed
<1> QED BY <1>2, <1>3

------------------------------------------------------------------------------
(* Connections of the document *)

NotTold(c) == lash[c].alsa_client_id = 0

(* A patch waits with the client at its end until that one tells its id;   *)
(* and of that client's ports lashd knows, or it will hear of them.        *)
Waits(p, a) == NotTold(a.of) => p \in lash[a.of].alsa_patches
KnownPorts(a) ==
  NotTold(a.of) /\ process[a.of] \notin {"none", "stray"} =>
    (AddrFor(a) \in ports => KnownPort(AddrFor(a)))

(* A patch that waits no more at its end a left there when that end was    *)
(* there and was spent on its connection, which stands while the clients   *)
(* at both ends live; or it still waits at the other end.                  *)
Spent(p, a, b) ==
  \A i \in DOMAIN clients : LiveIn(clients, i, a.of) /\ p \notin clients[i].old_patches =>
    /\ AddrFor(a) \in ports
    /\ \/ Meant(p) \in subs
       \/ \A j \in DOMAIN clients : LiveIn(clients, j, b.of) => p \in clients[j].old_patches

(* While a connection that could be is not made, one end waits for the     *)
(* announcement of its port.                                               *)
Armed(p, i, a) ==
  p \in clients[i].old_patches /\ StartIn(events, AddrFor(a)) /\ AddrFor(a) \in ports
Made(p) ==
  \A i, j \in DOMAIN clients :
    /\ LiveIn(clients, i, p.src.of) /\ LiveIn(clients, j, p.dest.of)
    /\ AddrFor(p.src) \in ports /\ AddrFor(p.dest) \in ports
    => Meant(p) \in subs \/ Armed(p, i, p.src) \/ Armed(p, j, p.dest)

DueOK(p) ==
  /\ BothById(p)
  /\ \A a \in Ends(p) : Waits(p, a) /\ KnownPorts(a)
  /\ Spent(p, p.src, p.dest) /\ Spent(p, p.dest, p.src)
  /\ Made(p)

(* A live entry is of a process with an ALSA id.                           *)
LEMMA LiveIsUp ==
  ASSUME ProgramsInv, NEW i \in DOMAIN clients, NEW c, LiveIn(clients, i, c)
  PROVE  c \in Client /\ c \in Program /\ number[c] # 0 /\ process[c] # "none" /\ number[c] \in Number
<1>1. clients[i].id = c /\ clients[i].client_id = number[c]
  BY DEF LiveIn
<1>2. c \in Client /\ number[c] # 0 /\ number[c] \in Number
  BY <1>1, EntryTypes DEF ProgramsInv
<1>3. process[c] # "none" /\ c \in Program
  BY <1>2 DEF ProgramsInv, ProcessesOK, Program
<1> QED BY <1>2, <1>3

LEMMA PortAt ==
  ASSUME ProgramsInv, NEW end, AddrFor(end) \in ports
  PROVE  number[end.of] \in Number /\ number[end.of] # 0
         /\ \E x \in Program : number[x] = number[end.of]
<1>1. AddrFor(end).client = number[end.of]
  BY DEF AddrFor, At
<1>2. AddrFor(end) \in Addr
  BY DEF ProgramsInv, TypeInv, AlsaTypes
<1>3. number[end.of] \in Number
  BY <1>1, <1>2 DEF Addr
<1>4. \E x \in Program : number[x] = AddrFor(end).client
  BY DEF ProgramsInv, NumbersOK
<1> QED BY <1>1, <1>3, <1>4, AlsaAssumption

LEMMA GrownKnown ==
  ASSUME TypeInv, NEW added, Grown(events', events, added), NEW a,
         PortExit(a) \notin added, foreign_ports' = foreign_ports, KnownPort(a)
  PROVE  AnnouncedIn(events', a) \/ (a \in foreign_ports' /\ NoExit(events', a))
<1>1. events \in Seq(Event)
  BY DEF TypeInv, AlsaTypes
<1>2. /\ AnnouncedIn(events, a) => AnnouncedIn(events', a)
      /\ NoExit(events, a) => NoExit(events', a)
  BY <1>1, GrownKeeps
<1> QED BY <1>2 DEF KnownPort

(* Steps that neither make a connection of a known client nor give a       *)
(* program its id or ports.                                                *)
LEMMA DueFrame ==
  ASSUME ProgramsInv, NEW p, DueOK(p), UNCHANGED <<number, ports>>,
         \A c \in Client : NotTold(c)' => NotTold(c) /\ lash'[c].alsa_patches = lash[c].alsa_patches,
         \A c \in Client : process'[c] \notin {"none", "stray"} =>
                          process[c] \notin {"none", "stray"} \/ number[c] = 0,
         Meant(p) \in subs => Meant(p) \in subs',
         \A i \in DOMAIN clients' : \E j \in DOMAIN clients :
           /\ clients'[i].id = clients[j].id /\ clients'[i].client_id = clients[j].client_id
           /\ clients'[i].old_patches = clients[j].old_patches,
         \A a \in ports : KnownPort(a) => KnownPort(a)',
         \A a \in ports : StartIn(events, a) =>
           StartIn(events', a) \/ \A i \in DOMAIN clients : clients[i].client_id # a.client
  PROVE  DueOK(p)'
<1>1. ports' = ports /\ Meant(p)' = Meant(p) /\ \A a : AddrFor(a)' = AddrFor(a)
  BY DEF Meant, AddrFor
<1>2. ASSUME NEW a \in Ends(p) PROVE Waits(p, a)' /\ KnownPorts(a)'
  <2>1. a.of \in Client
    BY DEF DueOK, BothById
  <2>2. Waits(p, a)'
    BY <2>1 DEF DueOK, Waits
  <2>3. ASSUME NotTold(a.of)', process'[a.of] \notin {"none", "stray"}, AddrFor(a) \in ports
        PROVE  KnownPort(AddrFor(a))'
    <3>1. NotTold(a.of) /\ process[a.of] \notin {"none", "stray"}
      BY <2>1, <2>3, PortAt
    <3>2. KnownPort(AddrFor(a))
      BY <2>3, <3>1 DEF DueOK, KnownPorts
    <3>3. AnnouncedIn(events', AddrFor(a)) \/ (AddrFor(a) \in foreign_ports' /\ NoExit(events', AddrFor(a)))
      BY <2>3, <3>2 DEF KnownPort
    <3> QED BY <1>1, <3>3 DEF KnownPort
  <2>4. KnownPorts(a)'
    BY <1>1, <2>3 DEF KnownPorts
  <2> QED BY <2>2, <2>4
<1>3. ASSUME NEW i \in DOMAIN clients', NEW c, LiveIn(clients', i, c)
      PROVE  \E j \in DOMAIN clients : /\ LiveIn(clients, j, c) /\ clients'[i].id = clients[j].id
                                       /\ clients'[i].old_patches = clients[j].old_patches
  BY <1>3 DEF LiveIn
<1>4. \A i, c : LiveIn(clients, i, c)' = LiveIn(clients', i, c)
  BY DEF LiveIn
<1>5. ASSUME NEW a, NEW b, Spent(p, a, b) PROVE Spent(p, a, b)'
  <2>1. SUFFICES ASSUME NEW i \in DOMAIN clients', LiveIn(clients', i, a.of),
                        p \notin clients'[i].old_patches
                 PROVE  /\ AddrFor(a) \in ports
                        /\ \/ Meant(p) \in subs'
                           \/ \A j \in DOMAIN clients' : LiveIn(clients', j, b.of) => p \in clients'[j].old_patches
    BY <1>1, <1>4 DEF Spent
  <2>2. PICK i0 \in DOMAIN clients : LiveIn(clients, i0, a.of) /\ p \notin clients[i0].old_patches
    BY <1>3, <2>1
  <2>3. /\ AddrFor(a) \in ports
        /\ \/ Meant(p) \in subs
           \/ \A j \in DOMAIN clients : LiveIn(clients, j, b.of) => p \in clients[j].old_patches
    BY <1>5, <2>2 DEF Spent
  <2> QED BY <1>3, <2>3
<1>6. Made(p)'
  <2>1. SUFFICES ASSUME NEW i \in DOMAIN clients', NEW j \in DOMAIN clients',
                        LiveIn(clients', i, p.src.of), LiveIn(clients', j, p.dest.of),
                        AddrFor(p.src) \in ports, AddrFor(p.dest) \in ports,
                        Meant(p) \notin subs
                 PROVE  Armed(p, i, p.src)' \/ Armed(p, j, p.dest)'
    BY <1>1, <1>4 DEF Made
  <2>2. PICK i0 \in DOMAIN clients : /\ LiveIn(clients, i0, p.src.of)
                                     /\ clients'[i].old_patches = clients[i0].old_patches
    BY <1>3, <2>1
  <2>3. PICK j0 \in DOMAIN clients : /\ LiveIn(clients, j0, p.dest.of)
                                     /\ clients'[j].old_patches = clients[j0].old_patches
    BY <1>3, <2>1
  <2>4. Armed(p, i0, p.src) \/ Armed(p, j0, p.dest)
    BY <2>1, <2>2, <2>3 DEF DueOK, Made
  <2>5. ASSUME NEW a, NEW m \in DOMAIN clients, NEW n \in DOMAIN clients', LiveIn(clients, m, a.of),
               clients'[n].old_patches = clients[m].old_patches, Armed(p, m, a)
        PROVE  Armed(p, n, a)'
    <3>1. AddrFor(a) \in ports /\ StartIn(events, AddrFor(a))
      BY <2>5 DEF Armed
    <3>2. AddrFor(a).client = clients[m].client_id
      BY <2>5 DEF AddrFor, At, LiveIn
    <3>3. StartIn(events', AddrFor(a))
      BY <3>1, <3>2
    <3> QED BY <1>1, <2>5, <3>1, <3>3 DEF Armed
  <2> QED BY <2>2, <2>3, <2>4, <2>5
<1>7. BothById(p)'
  BY DEF DueOK, BothById, Ends
<1> QED BY <1>2, <1>5, <1>6, <1>7 DEF DueOK

(* Steps in which the sequencer numbers, drops or gives a port to a        *)
(* program.                                                                *)
LEMMA DueOpens ==
  ASSUME ProgramsInv, NEW p, DueOK(p), NEW x \in Program, OpenSequencer(x)
  PROVE  DueOK(p)'
<1>1. PICK n \in Number \ {number[y] : y \in Program} : number' = [number EXCEPT ![x] = n]
  BY DEF OpenSequencer
<1>2. /\ number[x] = 0 /\ n # 0
      /\ UNCHANGED <<ports, subs, process, events, lash, clients, foreign_ports>>
  BY AlsaAssumption DEF OpenSequencer, processVars, ExternalStep, mgrVars
<1>3. \A y \in Program : number'[y] = IF y = x THEN n ELSE number[y]
  BY <1>1 DEF ProgramsInv, TypeInv, AlsaTypes
<1>4. \A y \in Program : number[y] # n
  BY <1>1
<1>5. Client \subseteq Program /\ \A a \in Ends(p) : a.of \in Client
  BY DEF Program, DueOK, BothById
<1>6. ASSUME NEW i \in DOMAIN clients, NEW c, LiveIn(clients, i, c)'
      PROVE  LiveIn(clients, i, c) /\ number'[c] = number[c] /\ c # x
  <2>1. clients[i].id = c /\ clients[i].client_id = number'[c] /\ c \in Client /\ clients[i].client_id # 0
    BY <1>2, <1>6, EntryTypes DEF LiveIn, ProgramsInv
  <2>2. c # x
    <3>1. SUFFICES ASSUME c = x PROVE FALSE
      OBVIOUS
    <3>2. process[x] # "none"
      BY <2>1, <3>1 DEF OpenSequencer
    <3>3. number[x] = clients[i].client_id
      BY <2>1, <3>1, <3>2 DEF ProgramsInv, EntriesOK, EntryOK
    <3> QED BY <1>2, <2>1, <3>3
  <2> QED BY <1>3, <1>5, <2>1, <2>2 DEF LiveIn
<1>7. ASSUME NEW a \in Ends(p) PROVE Waits(p, a)' /\ KnownPorts(a)'
  <2>1. Waits(p, a)'
    BY <1>2 DEF DueOK, Waits, NotTold
  <2>2. ASSUME NotTold(a.of), process[a.of] \notin {"none", "stray"}, AddrFor(a)' \in ports
        PROVE  KnownPort(AddrFor(a))'
    <3>1. AddrFor(a)'.client = number'[a.of]
      BY DEF AddrFor, At
    <3>2. PICK y \in Program : number[y] = AddrFor(a)'.client
      BY <2>2 DEF ProgramsInv, NumbersOK
    <3>3. a.of # x
      BY <1>3, <1>4, <3>1, <3>2
    <3>4. AddrFor(a)' = AddrFor(a)
      BY <1>3, <1>5, <3>3 DEF AddrFor
    <3>5. KnownPort(AddrFor(a))
      BY <2>2, <3>4 DEF DueOK, KnownPorts
    <3> QED BY <1>2, <3>4, <3>5 DEF KnownPort
  <2> QED BY <1>2, <2>1, <2>2 DEF KnownPorts, NotTold
<1>8. ASSUME NEW a, number'[a.of] = number[a.of] PROVE AddrFor(a)' = AddrFor(a)
  BY <1>8 DEF AddrFor
<1>9. ports' = ports
  BY <1>2
<1>10. ASSUME NEW a \in Ends(p), NEW b \in Ends(p), Spent(p, a, b),
              \/ a = p.src /\ b = p.dest
              \/ a = p.dest /\ b = p.src
       PROVE  Spent(p, a, b)'
  <2>1. SUFFICES ASSUME NEW i \in DOMAIN clients, LiveIn(clients, i, a.of)',
                        p \notin clients[i].old_patches
                 PROVE  /\ AddrFor(a)' \in ports'
                        /\ \/ Meant(p)' \in subs'
                           \/ \A j \in DOMAIN clients : LiveIn(clients, j, b.of)' => p \in clients[j].old_patches
    BY <1>2 DEF Spent, LiveIn
  <2>2. /\ AddrFor(a) \in ports /\ AddrFor(a)' = AddrFor(a)
        /\ \/ Meant(p) \in subs
           \/ \A j \in DOMAIN clients : LiveIn(clients, j, b.of) => p \in clients[j].old_patches
    BY <1>6, <1>8, <1>10, <2>1 DEF Spent
  <2>3. SUFFICES ASSUME NEW j \in DOMAIN clients, LiveIn(clients, j, b.of)',
                        p \notin clients[j].old_patches
                 PROVE  Meant(p)' \in subs'
    BY <1>9, <2>2
  <2>4. LiveIn(clients, j, b.of) /\ AddrFor(b)' = AddrFor(b)
    BY <1>6, <1>8, <2>3
  <2>5. Meant(p)' = Meant(p)
    BY <1>10, <2>2, <2>4 DEF Meant, AddrFor
  <2> QED BY <1>2, <2>2, <2>3, <2>4, <2>5
<1>11. Made(p)'
  <2>1. SUFFICES ASSUME NEW i \in DOMAIN clients, NEW j \in DOMAIN clients,
                        LiveIn(clients, i, p.src.of)', LiveIn(clients, j, p.dest.of)',
                        AddrFor(p.src)' \in ports', AddrFor(p.dest)' \in ports'
                 PROVE  Meant(p)' \in subs' \/ Armed(p, i, p.src)' \/ Armed(p, j, p.dest)'
    BY <1>2 DEF Made, LiveIn
  <2>2. /\ LiveIn(clients, i, p.src.of) /\ AddrFor(p.src)' = AddrFor(p.src)
        /\ LiveIn(clients, j, p.dest.of) /\ AddrFor(p.dest)' = AddrFor(p.dest)
    BY <1>6, <1>8, <2>1
  <2>3. Meant(p)' = Meant(p)
    BY <2>2 DEF Meant, AddrFor
  <2>4. Meant(p) \in subs \/ Armed(p, i, p.src) \/ Armed(p, j, p.dest)
    BY <1>9, <2>1, <2>2 DEF DueOK, Made
  <2> QED BY <1>2, <2>2, <2>3, <2>4 DEF Armed
<1>12. BothById(p)' /\ p.src \in Ends(p) /\ p.dest \in Ends(p)
  BY DEF DueOK, BothById, Ends
<1> QED BY <1>7, <1>10, <1>11, <1>12 DEF DueOK

LEMMA DueExit ==
  ASSUME ProgramsInv, NEW p, DueOK(p), NEW x \in Program, Exit(x)
  PROVE  DueOK(p)'
<1> DEFINE added == {PortExit(a) : a \in Gone(x)}
<1>1. /\ Grown(events', events, added)
      /\ number' = [number EXCEPT ![x] = 0]
      /\ ports' = ports \ Gone(x) /\ subs' = subs \ Cut(x)
  BY ExitTypes DEF ProgramsInv
<1>2. /\ process' = IF x \in Client THEN [process EXCEPT ![x] = "none"] ELSE process
      /\ UNCHANGED <<lash, clients, foreign_ports>>
  BY DEF Exit, ExternalStep, mgrVars
<1>3. /\ \A y \in Program : number'[y] = IF y = x THEN 0 ELSE number[y]
      /\ \A c \in Client : process'[c] = IF c = x THEN "none" ELSE process[c]
  BY <1>1, <1>2 DEF ProgramsInv, TypeInv, AlsaTypes, LashdTypes
<1>4. \A k : PortExit(k) \in added => k \in Gone(x)
  BY EventsDiffer
<1> HIDE DEF added
<1>5. Client \subseteq Program /\ \A a \in Ends(p) : a.of \in Client
  BY DEF Program, DueOK, BothById
<1>6. ASSUME NEW i \in DOMAIN clients, NEW c, LiveIn(clients, i, c)'
      PROVE  LiveIn(clients, i, c) /\ c # x /\ c \in Program /\ number'[c] = number[c]
             /\ number[c] # number[x]
  <2>1. clients[i].id = c /\ clients[i].client_id = number'[c] /\ c \in Client /\ clients[i].client_id # 0
    BY <1>2, <1>6, EntryTypes DEF LiveIn, ProgramsInv
  <2>2. c # x /\ number'[c] = number[c]
    BY <1>3, <1>5, <2>1
  <2> QED BY <1>5, <2>1, <2>2 DEF LiveIn, ProgramsInv, NumbersOK
<1>7. ASSUME NEW a \in Ends(p) PROVE Waits(p, a)' /\ KnownPorts(a)'
  <2>1. Waits(p, a)'
    BY <1>2 DEF DueOK, Waits, NotTold
  <2>2. ASSUME NotTold(a.of), process'[a.of] \notin {"none", "stray"}, AddrFor(a)' \in ports'
        PROVE  KnownPort(AddrFor(a))'
    <3>1. a.of # x /\ process[a.of] = process'[a.of] /\ number'[a.of] = number[a.of]
      BY <1>3, <1>5, <2>2
    <3>2. AddrFor(a)' = AddrFor(a)
      BY <3>1 DEF AddrFor
    <3>3. AddrFor(a) \in ports /\ AddrFor(a) \notin Gone(x)
      BY <1>1, <2>2, <3>2
    <3>4. KnownPort(AddrFor(a)) /\ PortExit(AddrFor(a)) \notin added
      BY <1>4, <2>2, <3>1, <3>3 DEF DueOK, KnownPorts
    <3> QED BY <1>1, <1>2, <3>2, <3>4, GrownKnown DEF ProgramsInv, KnownPort
  <2> QED BY <1>2, <2>1, <2>2 DEF KnownPorts, NotTold
<1>8. ASSUME NEW a, number'[a.of] = number[a.of] PROVE AddrFor(a)' = AddrFor(a)
  BY <1>8 DEF AddrFor
<1>10. ASSUME NEW a, number[a.of] # number[x]
       PROVE  AddrFor(a) \in ports <=> AddrFor(a) \in ports'
  <2>1. AddrFor(a).client # number[x]
    BY <1>10 DEF AddrFor, At
  <2> QED BY <1>1, <2>1 DEF Gone
<1>11. ASSUME number[p.src.of] # number[x], number[p.dest.of] # number[x]
       PROVE  Meant(p) \in subs => Meant(p) \in subs'
  <2>1. Meant(p)[1].client = number[p.src.of] /\ Meant(p)[2].client = number[p.dest.of]
    BY DEF Meant, At
  <2> QED BY <1>1, <1>11, <2>1 DEF Cut
<1>12. ASSUME NEW a \in Ends(p), NEW b \in Ends(p), Spent(p, a, b),
              \/ a = p.src /\ b = p.dest
              \/ a = p.dest /\ b = p.src
       PROVE  Spent(p, a, b)'
  <2>1. SUFFICES ASSUME NEW i \in DOMAIN clients, LiveIn(clients, i, a.of)',
                        p \notin clients[i].old_patches
                 PROVE  /\ AddrFor(a)' \in ports'
                        /\ \/ Meant(p)' \in subs'
                           \/ \A j \in DOMAIN clients : LiveIn(clients, j, b.of)' => p \in clients[j].old_patches
    BY <1>2 DEF Spent, LiveIn
  <2>2. /\ AddrFor(a) \in ports /\ AddrFor(a)' = AddrFor(a) /\ number[a.of] # number[x]
        /\ \/ Meant(p) \in subs
           \/ \A j \in DOMAIN clients : LiveIn(clients, j, b.of) => p \in clients[j].old_patches
    BY <1>6, <1>8, <1>12, <2>1 DEF Spent
  <2>3. SUFFICES ASSUME NEW j \in DOMAIN clients, LiveIn(clients, j, b.of)',
                        p \notin clients[j].old_patches
                 PROVE  Meant(p)' \in subs'
    BY <1>10, <2>2
  <2>4. LiveIn(clients, j, b.of) /\ AddrFor(b)' = AddrFor(b) /\ number[b.of] # number[x]
    BY <1>6, <1>8, <2>3
  <2>5. Meant(p)' = Meant(p)
    BY <1>12, <2>2, <2>4 DEF Meant, AddrFor
  <2> QED BY <1>11, <1>12, <2>2, <2>3, <2>4, <2>5
<1>13. Made(p)'
  <2>1. SUFFICES ASSUME NEW i \in DOMAIN clients, NEW j \in DOMAIN clients,
                        LiveIn(clients, i, p.src.of)', LiveIn(clients, j, p.dest.of)',
                        AddrFor(p.src)' \in ports', AddrFor(p.dest)' \in ports'
                 PROVE  Meant(p)' \in subs' \/ Armed(p, i, p.src)' \/ Armed(p, j, p.dest)'
    BY <1>2 DEF Made, LiveIn
  <2>2. /\ LiveIn(clients, i, p.src.of) /\ AddrFor(p.src)' = AddrFor(p.src) /\ number[p.src.of] # number[x]
        /\ LiveIn(clients, j, p.dest.of) /\ AddrFor(p.dest)' = AddrFor(p.dest) /\ number[p.dest.of] # number[x]
    BY <1>6, <1>8, <2>1
  <2>3. Meant(p)' = Meant(p)
    BY <2>2 DEF Meant, AddrFor
  <2>4. Meant(p) \in subs \/ Armed(p, i, p.src) \/ Armed(p, j, p.dest)
    BY <1>10, <2>1, <2>2 DEF DueOK, Made
  <2>5. ASSUME NEW a, NEW m, Armed(p, m, a), AddrFor(a)' = AddrFor(a), number[a.of] # number[x]
        PROVE  Armed(p, m, a)'
    <3>1. StartIn(events, AddrFor(a)) /\ AddrFor(a) \in ports'
      BY <1>10, <2>5 DEF Armed
    <3>2. StartIn(events', AddrFor(a))
      BY <1>1, <3>1, GrownKeeps DEF ProgramsInv, TypeInv, AlsaTypes
    <3> QED BY <1>2, <2>5, <3>1, <3>2 DEF Armed
  <2> QED BY <1>11, <2>2, <2>3, <2>4, <2>5
<1>14. BothById(p)' /\ p.src \in Ends(p) /\ p.dest \in Ends(p)
  BY DEF DueOK, BothById, Ends
<1> QED BY <1>7, <1>12, <1>13, <1>14 DEF DueOK

LEMMA DueOpensPort ==
  ASSUME ProgramsInv, NEW p, DueOK(p), NEW x \in Program, NEW q \in PortsOf[x], OpenPort(x, q)
  PROVE  DueOK(p)'
<1> DEFINE f == At(number[x], q)
           added == {PortStart(f)}
<1>1. /\ ports' = ports \union {f} /\ events' = Append(events, PortStart(f)) /\ PortStart(f) \in Event
      /\ UNCHANGED <<number, subs, process, lash, clients, foreign_ports>>
  BY OpenPortTypes DEF ProgramsInv, OpenPort, processVars, ExternalStep, mgrVars
<1> HIDE DEF f
<1>2. Grown(events', events, added) /\ StartIn(events', f) /\ AnnouncedIn(events', f)
  <2>1. events \in Seq(Event)
    BY DEF ProgramsInv, TypeInv, AlsaTypes
  <2>2. /\ Grown(events', events, added) /\ Len(events') = Len(events) + 1
        /\ events'[Len(events) + 1] = PortStart(f)
    BY <1>1, <2>1, AppendGrows
  <2>3. /\ Len(events) + 1 \in DOMAIN events' /\ DOMAIN events' = 1..Len(events) + 1
        /\ Len(events) \in Nat
    BY <2>1, <2>2 DEF Grown
  <2> QED BY <2>2, <2>3 DEF StartIn, AnnouncedIn
<1>3. \A a : PortExit(a) \notin added
  BY EventsDiffer
<1> HIDE DEF added
<1>4. \A a : AddrFor(a)' = AddrFor(a)
  BY <1>1 DEF AddrFor
<1>5. ASSUME NEW a \in Ends(p) PROVE Waits(p, a)' /\ KnownPorts(a)'
  <2>1. Waits(p, a)'
    BY <1>1 DEF DueOK, Waits, NotTold
  <2>2. ASSUME NotTold(a.of), process[a.of] \notin {"none", "stray"}, AddrFor(a) \in ports'
        PROVE  KnownPort(AddrFor(a))'
    <3>1. CASE AddrFor(a) = f
      BY <1>2, <1>4, <3>1 DEF KnownPort
    <3>2. CASE AddrFor(a) # f
      <4>1. KnownPort(AddrFor(a))
        BY <1>1, <2>2, <3>2 DEF DueOK, KnownPorts
      <4> QED BY <1>1, <1>2, <1>3, <1>4, <4>1, GrownKnown DEF ProgramsInv, KnownPort
    <3> QED BY <3>1, <3>2
  <2> QED BY <1>1, <1>4, <2>1, <2>2 DEF KnownPorts, NotTold
<1>6. ASSUME NEW a, NEW b, Spent(p, a, b) PROVE Spent(p, a, b)'
  BY <1>1, <1>4, <1>6 DEF Spent, LiveIn, Meant
<1>7. Made(p)'
  <2>1. SUFFICES ASSUME NEW i \in DOMAIN clients, NEW j \in DOMAIN clients,
                        LiveIn(clients, i, p.src.of), LiveIn(clients, j, p.dest.of),
                        AddrFor(p.src) \in ports', AddrFor(p.dest) \in ports'
                 PROVE  Meant(p) \in subs \/ Armed(p, i, p.src)' \/ Armed(p, j, p.dest)'
    BY <1>1, <1>4 DEF Made, LiveIn, Meant
  <2>2. ASSUME NEW a, NEW b, NEW m \in DOMAIN clients, LiveIn(clients, m, a.of), Spent(p, a, b),
               AddrFor(a) \in ports', AddrFor(a) \notin ports
        PROVE  Armed(p, m, a)'
    <3>1. p \in clients[m].old_patches /\ AddrFor(a) = f
      BY <1>1, <2>2 DEF Spent
    <3> QED BY <1>1, <1>2, <1>4, <2>2, <3>1 DEF Armed
  <2>3. ASSUME NEW m \in DOMAIN clients, NEW a, Armed(p, m, a) PROVE Armed(p, m, a)'
    <3>1. StartIn(events, AddrFor(a)) /\ AddrFor(a) \in ports'
      BY <1>1, <2>3 DEF Armed
    <3>2. StartIn(events', AddrFor(a))
      BY <1>2, <3>1, GrownKeeps DEF ProgramsInv, TypeInv, AlsaTypes
    <3> QED BY <1>1, <1>4, <2>3, <3>1, <3>2 DEF Armed
  <2>4. CASE AddrFor(p.src) \in ports /\ AddrFor(p.dest) \in ports
    BY <2>1, <2>3, <2>4 DEF DueOK, Made
  <2>5. CASE AddrFor(p.src) \notin ports
    BY <2>1, <2>2, <2>5 DEF DueOK
  <2>6. CASE AddrFor(p.dest) \notin ports
    BY <2>1, <2>2, <2>6 DEF DueOK
  <2> QED BY <2>4, <2>5, <2>6
<1>8. BothById(p)'
  BY DEF DueOK, BothById, Ends
<1> QED BY <1>5, <1>6, <1>7, <1>8 DEF DueOK

(* An announcement of a port of the known client with the entry at i.      *)
LEMMA DuePort ==
  ASSUME ProgramsInv, NEW p \in due', DueOK(p), EventFrame,
         NEW f \in Addr, NEW i \in DOMAIN clients, NEW opened, TakesPort(f, i, opened)
  PROVE  DueOK(p)'
<1> DEFINE T == Tail(events)
           left == Left(clients, clients[i], opened)
<1>1. /\ events # <<>> /\ Head(events) = PortStart(f) /\ events \in Seq(Event)
      /\ clients[i].client_id = f.client /\ opened = {f.port}
      /\ ResumePorts(clients, i, opened, T)
      /\ Alike(clients', AfterResuming(clients, i, opened))
      /\ UNCHANGED <<foreign_ports, number, ports, process, lash>>
      /\ clients \in Seq(Entry) /\ T \in Seq(Event)
  BY HeadTailProperties DEF TakesPort, EventFrame, ProgramsInv, TypeInv, AlsaTypes, LashdTypes
<1>2. subs \subseteq subs' /\ Grown(events', T, {Change})
  BY <1>1, ResumedTypes DEF ProgramsInv, TypeInv
<1>3. \A k : /\ StartIn(events, k) => StartIn(T, k) \/ Head(events) = PortStart(k)
             /\ AnnouncedIn(events, k) => \/ AnnouncedIn(T, k)
                                          \/ Head(events) = PortStart(k) /\ NoExit(T, k)
             /\ NoExit(events, k) => NoExit(T, k) /\ Head(events) # PortExit(k)
  BY <1>1, TailKeeps
<1>4. ASSUME NEW k
      PROVE  /\ StartIn(events, k) => StartIn(events', k) \/ k = f
             /\ AnnouncedIn(events, k) => AnnouncedIn(events', k) \/ k = f
             /\ NoExit(events, k) => NoExit(events', k)
  <2> DEFINE added == {Change}
  <2>1. PortExit(k) \notin added /\ (Head(events) = PortStart(k) => k = f)
    BY <1>1, EventsDiffer
  <2> HIDE DEF added, T
  <2>2. /\ StartIn(T, k) => StartIn(events', k)
        /\ AnnouncedIn(T, k) => AnnouncedIn(events', k)
        /\ NoExit(T, k) => NoExit(events', k)
    BY <1>1, <1>2, <2>1, GrownKeeps DEF added
  <2> QED BY <1>3, <2>1, <2>2
<1>5. /\ p \in due /\ \A end \in Ends(p) : end.of = clients[i].id \/ number[end.of] # clients[i].client_id
  BY <1>1 DEF ResumePorts, GivenUp, TakenFor, Ends
<1>6. ASSUME NEW a, NEW b, (a = p.src /\ b = p.dest) \/ (a = p.dest /\ b = p.src),
             p \in left, LiveIn(clients, i, a.of)
      PROVE  AddrFor(a) \in ports /\ (Meant(p) \in subs' \/ \A j \in DOMAIN clients : ~LiveIn(clients, j, b.of))
  <2> HIDE DEF T
  <2> QED BY <1>1, <1>6, LeftIsMade DEF ProgramsInv, EntriesOK, DueOK
<1> HIDE DEF left
<1>7. /\ DOMAIN clients' = DOMAIN clients
      /\ \A j \in DOMAIN clients :
           /\ clients'[j].id = clients[j].id /\ clients'[j].client_id = clients[j].client_id
           /\ clients'[j].old_patches = IF j = i THEN clients[j].old_patches \ left ELSE clients[j].old_patches
  <2> DEFINE list == AfterResuming(clients, i, opened)
  <2>1. Resumes(list, clients, i, opened) /\ Alike(clients', list)
    BY <1>1, ResumedEntries
  <2> HIDE DEF list
  <2>2. /\ list \in Seq(Entry) /\ Len(list) = Len(clients)
        /\ \A j \in DOMAIN clients :
             /\ list[j].id = clients[j].id /\ list[j].client_id = clients[j].client_id
             /\ list[j].old_patches = IF j = i THEN clients[i].old_patches \ left ELSE clients[j].old_patches
    BY <2>1 DEF Resumes, left
  <2>3. DOMAIN list = DOMAIN clients
    BY <1>1, <2>2
  <2>4. SameOld(clients', list)
    BY <2>1, <2>2, AlikeSame
  <2> QED BY <2>2, <2>3, <2>4 DEF SameOld, SameClients
<1>8. Meant(p)' = Meant(p) /\ \A a : AddrFor(a)' = AddrFor(a)
  BY <1>1 DEF Meant, AddrFor
<1>9. \A j \in DOMAIN clients : \A c : LiveIn(clients, j, c)' <=> LiveIn(clients, j, c)
  BY <1>1, <1>7 DEF LiveIn
<1>10. p.src \in Ends(p) /\ p.dest \in Ends(p) /\ \A a \in Ends(p) : a.of \in Client
  BY DEF Ends, DueOK, BothById
<1>11. ASSUME NEW a \in Ends(p), f = AddrFor(a) PROVE a.of = clients[i].id
  <2>1. f.client = number[a.of]
    BY <1>11 DEF AddrFor, At
  <2> QED BY <1>1, <1>5, <2>1
<1>12. ASSUME NEW a \in Ends(p) PROVE Waits(p, a)' /\ KnownPorts(a)'
  <2>1. Waits(p, a)'
    BY <1>1 DEF DueOK, Waits, NotTold
  <2>2. ASSUME NotTold(a.of), process[a.of] \notin {"none", "stray"}, AddrFor(a) \in ports
        PROVE  KnownPort(AddrFor(a))'
    <3>1. KnownPort(AddrFor(a))
      BY <2>2 DEF DueOK, KnownPorts
    <3>2. AddrFor(a) # f
      <4>1. ASSUME AddrFor(a) = f PROVE FALSE
        <5>1. a.of = clients[i].id
          BY <1>11, <4>1
        <5> QED BY <2>2, <5>1 DEF ProgramsInv, EntriesOK, EntryOK, NotTold
      <4> QED BY <4>1
    <3> QED BY <1>1, <1>4, <1>8, <3>1, <3>2 DEF KnownPort
  <2>3. KnownPorts(a)'
    BY <1>1, <1>8, <2>2 DEF KnownPorts, NotTold
  <2> QED BY <2>1, <2>3
<1>13. ASSUME NEW a, NEW b, (a = p.src /\ b = p.dest) \/ (a = p.dest /\ b = p.src), Spent(p, a, b)
       PROVE  Spent(p, a, b)'
  <2>1. SUFFICES ASSUME NEW m \in DOMAIN clients, LiveIn(clients, m, a.of),
                        p \notin clients'[m].old_patches
                 PROVE  /\ AddrFor(a) \in ports
                        /\ \/ Meant(p) \in subs'
                           \/ \A j \in DOMAIN clients : LiveIn(clients, j, b.of) => p \in clients'[j].old_patches
    BY <1>1, <1>7, <1>8, <1>9 DEF Spent
  <2>2. CASE m = i /\ p \in left
    BY <1>6, <1>13, <2>1, <2>2
  <2>3. CASE ~(m = i /\ p \in left)
    <3>1. /\ AddrFor(a) \in ports
          /\ \/ Meant(p) \in subs
             \/ \A j \in DOMAIN clients : LiveIn(clients, j, b.of) => p \in clients[j].old_patches
      BY <1>7, <1>13, <2>1, <2>3 DEF Spent
    <3>2. CASE p \in left /\ LiveIn(clients, i, b.of)
      BY <1>6, <1>13, <2>1, <3>1, <3>2
    <3>3. CASE ~(p \in left /\ LiveIn(clients, i, b.of))
      BY <1>2, <1>7, <3>1, <3>3
    <3> QED BY <3>2, <3>3
  <2> QED BY <2>2, <2>3
<1>14. Made(p)'
  <2>1. SUFFICES ASSUME NEW m \in DOMAIN clients, NEW n \in DOMAIN clients,
                        LiveIn(clients, m, p.src.of), LiveIn(clients, n, p.dest.of),
                        AddrFor(p.src) \in ports, AddrFor(p.dest) \in ports,
                        Meant(p) \notin subs'
                 PROVE  Armed(p, m, p.src)' \/ Armed(p, n, p.dest)'
    BY <1>1, <1>7, <1>8, <1>9 DEF Made
  <2>2. i \in {m, n} => p \notin left
    BY <1>6, <2>1
  <2>3. Armed(p, m, p.src) \/ Armed(p, n, p.dest)
    BY <1>2, <2>1 DEF DueOK, Made
  <2>4. ASSUME NEW l \in {m, n}, NEW a \in Ends(p), LiveIn(clients, l, a.of), Armed(p, l, a)
        PROVE  Armed(p, l, a)'
    <3>1. StartIn(events, AddrFor(a)) /\ AddrFor(a) \in ports /\ p \in clients[l].old_patches
      BY <2>4 DEF Armed
    <3>2. CASE StartIn(events', AddrFor(a))
      <4>1. p \in clients'[l].old_patches
        BY <1>7, <2>2, <2>4, <3>1
      <4> QED BY <1>1, <1>8, <3>1, <3>2, <4>1 DEF Armed
    <3>3. CASE AddrFor(a) = f
      <4>1. l = i
        BY <1>11, <2>4, <3>3 DEF LiveIn, ProgramsInv, EntriesOK, UniqueIn
      <4>2. a.port \in opened /\ p \in clients[i].old_patches
        BY <1>1, <3>1, <3>3, <4>1 DEF AddrFor, At
      <4>3. UniqueIn(clients) /\ BothById(p)
        BY DEF ProgramsInv, EntriesOK, DueOK
      <4>4. Meant(p)[1] \in ports /\ Meant(p)[2] \in ports
        BY <2>1, MeantEnds
      <4>5. (i = m /\ p.src.port \in opened) \/ (i = n /\ p.dest.port \in opened)
        <5>1. a = p.src => i = m
          BY <2>1, <2>4, <4>1, <4>3 DEF LiveIn, UniqueIn
        <5>2. a = p.dest => i = n
          BY <2>1, <2>4, <4>1, <4>3 DEF LiveIn, UniqueIn
        <5>3. a = p.src \/ a = p.dest
          BY <2>4 DEF Ends
        <5> QED BY <4>2, <5>1, <5>2, <5>3
      <4> HIDE DEF T
      <4>6. Meant(p) \in subs'
        BY <1>1, <2>1, <4>2, <4>3, <4>4, <4>5, OpenedIsMade
      <4> QED BY <2>1, <4>6
    <3> QED BY <1>4, <3>1, <3>2, <3>3
  <2>5. Armed(p, m, p.src) => Armed(p, m, p.src)'
    BY <1>10, <2>1, <2>4
  <2>6. Armed(p, n, p.dest) => Armed(p, n, p.dest)'
    BY <1>10, <2>1, <2>4
  <2> QED BY <2>3, <2>5, <2>6
<1>15. BothById(p)'
  BY DEF DueOK, BothById, Ends
<1> QED BY <1>12, <1>13, <1>14, <1>15 DEF DueOK

(* A client's first ALSA id.                                               *)
LEMMA DueId ==
  ASSUME ProgramsInv, NEW p \in due', DueOK(p), NEW c \in Client, told[c] # 0,
         UNCHANGED <<number, ports, process>>, lash[c].state = "running",
         lash[c].alsa_client_id = 0, UniqueIn(Added(c)),
         \A i \in DOMAIN clients : clients[i].id # c,
         NEW opened, TakesId(c, opened)
  PROVE  DueOK(p)'
<1> DEFINE list == Added(c)
<1>0. PICK L : L = Len(list)
  OBVIOUS
<1> DEFINE left == Left(list, list[L], opened)
<1>1. /\ list \in Seq(Entry) /\ L \in DOMAIN list /\ L = Len(clients) + 1
      /\ DOMAIN list = 1..Len(clients) + 1 /\ DOMAIN clients = 1..Len(clients)
      /\ \A i \in DOMAIN clients : list[i] = clients[i]
      /\ list[L].id = c /\ list[L].client_id = told[c] /\ list[L].old_patches = lash[c].alsa_patches
      /\ Len(clients) \in Nat
  BY <1>0, AddedEntries DEF ProgramsInv
<1>2. /\ opened = {f.port : f \in {g \in foreign_ports : g.client = told[c]}}
      /\ ResumePorts(list, L, opened, events)
      /\ foreign_ports' = {f \in foreign_ports : f.client # told[c]}
      /\ UniqueIn(list)
  BY <1>0 DEF TakesId
<1>3. /\ clients' \in Seq(Entry) /\ Len(clients') = L
      /\ DOMAIN clients' = DOMAIN clients \union {L} /\ L \notin DOMAIN clients
      /\ \A i \in DOMAIN clients :
           /\ clients'[i].id = clients[i].id /\ clients'[i].client_id = clients[i].client_id
           /\ clients'[i].old_patches = clients[i].old_patches
      /\ clients'[L].id = c /\ clients'[L].client_id = told[c]
      /\ clients'[L].old_patches = lash[c].alsa_patches \ left
      /\ \A d \in Client : /\ d = c => lash'[d].alsa_client_id = told[c]
                           /\ d # c => lash'[d] = lash[d]
  <2>1. EntriesWithId(c, opened)
    BY IdTypes DEF ProgramsInv
  <2>2. Len(clients') = L
    BY <1>1, <2>1 DEF EntriesWithId
  <2> QED BY <1>0, <2>1, <2>2 DEF EntriesWithId
<1> HIDE DEF list
<1>4. subs \subseteq subs' /\ Grown(events', events, {Change})
  BY <1>1, <1>2, ResumedTypes DEF ProgramsInv, TypeInv, AlsaTypes
<1>5. /\ p \in due
      /\ opened # {} => \A end \in Ends(p) : end.of = c \/ number[end.of] # told[c]
  BY <1>1, <1>2 DEF ResumePorts, GivenUp, TakenFor, Ends
<1>6. ASSUME NEW a, NEW b, (a = p.src /\ b = p.dest) \/ (a = p.dest /\ b = p.src),
             p \in left, LiveIn(list, L, a.of)
      PROVE  AddrFor(a) \in ports /\ (Meant(p) \in subs' \/ \A j \in DOMAIN list : ~LiveIn(list, j, b.of))
  BY <1>1, <1>2, <1>6, LeftIsMade DEF DueOK
<1> HIDE DEF left
<1>7. ports' = ports /\ Meant(p)' = Meant(p) /\ \A a : AddrFor(a)' = AddrFor(a)
  BY DEF Meant, AddrFor
<1>8. /\ \A j \in DOMAIN clients : \A d : LiveIn(clients, j, d)' <=> LiveIn(clients, j, d)
      /\ \A j \in DOMAIN clients : \A d : LiveIn(list, j, d) <=> LiveIn(clients, j, d)
      /\ \A d : LiveIn(clients, L, d)' <=> (d = c /\ number[c] = told[c])
      /\ \A d : LiveIn(list, L, d) <=> (d = c /\ number[c] = told[c])
  BY <1>1, <1>3 DEF LiveIn
<1>9. p.src \in Ends(p) /\ p.dest \in Ends(p) /\ \A a \in Ends(p) : a.of \in Client
  BY DEF Ends, DueOK, BothById
<1>10. \A a \in Ends(p) : a.of = c => p \in lash[c].alsa_patches
  BY DEF DueOK, Waits, NotTold
<1>11. \A k : /\ StartIn(events, k) => StartIn(events', k)
              /\ AnnouncedIn(events, k) => AnnouncedIn(events', k)
              /\ NoExit(events, k) => NoExit(events', k)
  <2> DEFINE added == {Change}
  <2>1. \A k : PortExit(k) \notin added
    BY EventsDiffer
  <2>2. events \in Seq(Event) /\ Grown(events', events, added)
    BY <1>4 DEF ProgramsInv, TypeInv, AlsaTypes
  <2> HIDE DEF added
  <2> QED BY <2>1, <2>2, GrownKeeps
<1>12. ASSUME NEW a \in Ends(p) PROVE Waits(p, a)' /\ KnownPorts(a)'
  <2>1. NotTold(a.of)' => NotTold(a.of) /\ a.of # c /\ lash'[a.of] = lash[a.of]
    BY <1>3, <1>9 DEF NotTold
  <2>2. Waits(p, a)'
    BY <2>1 DEF DueOK, Waits
  <2>3. ASSUME NotTold(a.of)', process[a.of] \notin {"none", "stray"}, AddrFor(a) \in ports
        PROVE  KnownPort(AddrFor(a))'
    <3>1. KnownPort(AddrFor(a))
      BY <2>1, <2>3 DEF DueOK, KnownPorts
    <3>2. CASE AnnouncedIn(events, AddrFor(a))
      BY <1>7, <1>11, <3>2 DEF KnownPort
    <3>3. CASE AddrFor(a) \in foreign_ports /\ NoExit(events, AddrFor(a))
      <4>1. AddrFor(a).client = number[a.of]
        BY DEF AddrFor, At
      <4>2. AddrFor(a).client # told[c]
        <5>1. SUFFICES ASSUME AddrFor(a).client = told[c] PROVE FALSE
          OBVIOUS
        <5>2. AddrFor(a).port \in opened
          BY <1>2, <3>3, <5>1
        <5> QED BY <1>5, <2>1, <2>3, <4>1, <5>1, <5>2
      <4>3. AddrFor(a) \in foreign_ports'
        BY <1>2, <3>3, <4>2
      <4> QED BY <1>7, <1>11, <3>3, <4>3 DEF KnownPort
    <3> QED BY <3>1, <3>2, <3>3 DEF KnownPort
  <2>4. KnownPorts(a)'
    BY <1>7, <2>3 DEF KnownPorts
  <2> QED BY <2>2, <2>4
<1>13. ASSUME NEW a, NEW b, (a = p.src /\ b = p.dest) \/ (a = p.dest /\ b = p.src), Spent(p, a, b)
       PROVE  Spent(p, a, b)'
  <2>0. a \in Ends(p) /\ b \in Ends(p)
    BY <1>9, <1>13
  <2>1. SUFFICES ASSUME NEW m \in DOMAIN clients', LiveIn(clients, m, a.of)',
                        p \notin clients'[m].old_patches
                 PROVE  /\ AddrFor(a) \in ports
                        /\ \/ Meant(p) \in subs'
                           \/ \A j \in DOMAIN clients' :
                                LiveIn(clients, j, b.of)' => p \in clients'[j].old_patches
    BY <1>7 DEF Spent
  <2>2. CASE m = L
    <3>1. LiveIn(list, L, a.of) /\ p \in left
      BY <1>3, <1>8, <1>10, <2>0, <2>1, <2>2
    <3>2. AddrFor(a) \in ports /\ (Meant(p) \in subs' \/ \A j \in DOMAIN list : ~LiveIn(list, j, b.of))
      BY <1>6, <1>13, <3>1
    <3>3. ASSUME NEW j \in DOMAIN clients', LiveIn(clients, j, b.of)' PROVE j \in DOMAIN list /\ LiveIn(list, j, b.of)
      <4>1. j \in DOMAIN clients \/ j = L
        BY <1>3
      <4>2. j \in DOMAIN list
        BY <1>1, <4>1
      <4> QED BY <1>8, <3>3, <4>1, <4>2
    <3> QED BY <3>2, <3>3
  <2>3. CASE m \in DOMAIN clients
    <3>1. /\ LiveIn(clients, m, a.of) /\ AddrFor(a) \in ports
          /\ \/ Meant(p) \in subs
             \/ \A j \in DOMAIN clients : LiveIn(clients, j, b.of) => p \in clients[j].old_patches
      BY <1>3, <1>8, <1>13, <2>1, <2>3 DEF Spent
    <3>2. ASSUME NEW j \in DOMAIN clients', LiveIn(clients, j, b.of)', Meant(p) \notin subs'
          PROVE  p \in clients'[j].old_patches
      <4>1. CASE j = L
        <5>1. LiveIn(list, L, b.of) /\ p \in lash[c].alsa_patches
          BY <1>8, <1>10, <2>0, <3>2, <4>1
        <5>2. m \in DOMAIN list /\ LiveIn(list, m, a.of)
          BY <1>1, <1>8, <2>3, <3>1
        <5>3. p \notin left
          BY <1>6, <1>13, <3>2, <5>1, <5>2
        <5> QED BY <1>3, <4>1, <5>1, <5>3
      <4>2. CASE j \in DOMAIN clients
        BY <1>3, <1>4, <1>8, <3>1, <3>2, <4>2
      <4> QED BY <1>3, <4>1, <4>2
    <3> QED BY <3>1, <3>2
  <2> QED BY <1>3, <2>2, <2>3
<1>14. Made(p)'
  <2>1. SUFFICES ASSUME NEW m \in DOMAIN clients', NEW n \in DOMAIN clients',
                        LiveIn(clients, m, p.src.of)', LiveIn(clients, n, p.dest.of)',
                        AddrFor(p.src) \in ports, AddrFor(p.dest) \in ports,
                        Meant(p) \notin subs'
                 PROVE  Armed(p, m, p.src)' \/ Armed(p, n, p.dest)'
    BY <1>7 DEF Made
  <2>2. /\ m \in DOMAIN list /\ n \in DOMAIN list
        /\ LiveIn(list, m, p.src.of) /\ LiveIn(list, n, p.dest.of)
    <3>1. m \in DOMAIN list /\ n \in DOMAIN list
      BY <1>1, <1>3
    <3>2. (m \in DOMAIN clients \/ m = L) /\ (n \in DOMAIN clients \/ n = L)
      BY <1>3
    <3> QED BY <1>8, <2>1, <3>1, <3>2
  <2>3. CASE m \in DOMAIN clients /\ n \in DOMAIN clients
    <3>1. Armed(p, m, p.src) \/ Armed(p, n, p.dest)
      BY <1>4, <1>8, <2>1, <2>3 DEF DueOK, Made
    <3> QED BY <1>3, <1>7, <1>11, <2>3, <3>1 DEF Armed
  <2>4. ASSUME NEW a \in Ends(p), LiveIn(clients, L, a.of)', AddrFor(a) \in ports
        PROVE  Armed(p, L, a)'
    <3>1. a.of = c /\ number[c] = told[c] /\ p \in lash[c].alsa_patches /\ LiveIn(list, L, a.of)
      BY <1>8, <1>10, <2>4
    <3>2. p \notin left
      BY <1>6, <2>1, <2>2, <2>4, <3>1 DEF Ends
    <3>3. NotTold(c) /\ process[c] \notin {"none", "stray"}
      BY <3>1 DEF NotTold, ProgramsInv, ProcessesOK
    <3>4. KnownPort(AddrFor(a))
      BY <2>4, <3>1, <3>3 DEF DueOK, KnownPorts
    <3>5. CASE AnnouncedIn(events, AddrFor(a))
      <4>1. StartIn(events', AddrFor(a))
        BY <1>11, <3>5 DEF AnnouncedIn, StartIn
      <4> QED BY <1>3, <1>7, <2>4, <3>1, <3>2, <4>1 DEF Armed
    <3>6. CASE AddrFor(a) \in foreign_ports
      <4>1. AddrFor(a).client = told[c] /\ AddrFor(a).port = a.port
        BY <3>1 DEF AddrFor, At
      <4>2. a.port \in opened
        BY <1>2, <3>6, <4>1
      <4>3. BothById(p) /\ Meant(p)[1] \in ports /\ Meant(p)[2] \in ports
        BY <2>1, MeantEnds DEF DueOK
      <4>4. (L = m /\ p.src.port \in opened) \/ (L = n /\ p.dest.port \in opened)
        <5>1. a = p.src => L = m
          BY <1>1, <1>2, <2>2, <3>1 DEF LiveIn, UniqueIn
        <5>2. a = p.dest => L = n
          BY <1>1, <1>2, <2>2, <3>1 DEF LiveIn, UniqueIn
        <5>3. a = p.src \/ a = p.dest
          BY <2>4 DEF Ends
        <5> QED BY <4>2, <5>1, <5>2, <5>3
      <4>5. Meant(p) \in subs'
        BY <1>1, <1>2, <2>2, <3>1, <4>3, <4>4, OpenedIsMade
      <4> QED BY <2>1, <4>5
    <3> QED BY <3>4, <3>5, <3>6 DEF KnownPort
  <2>5. m = L => Armed(p, m, p.src)'
    BY <1>9, <2>1, <2>4
  <2>6. n = L => Armed(p, n, p.dest)'
    BY <1>9, <2>1, <2>4
  <2> QED BY <1>3, <2>1, <2>3, <2>5, <2>6
<1>15. BothById(p)'
  BY DEF DueOK, BothById, Ends
<1> QED BY <1>9, <1>12, <1>13, <1>14, <1>15 DEF DueOK

(* A document that is loaded.                                              *)
LEMMA DueLoaded ==
  ASSUME NEW d, NEW p \in AtBothEnds(d), NEW other
  PROVE  BothById(p) /\ \A a \in Ends(p) : LashOf(d, other)[a.of] =
           [state |-> "lost", alsa_client_id |-> 0, alsa_patches |-> d[a.of]] /\ p \in d[a.of]
BY DEF AtBothEnds, BothById, Ends, LashOf, SavedIn, NoLash

LEMMA DueEnvironment ==
  ASSUME ProgramsInv, NEW p \in due', DueOK(p), Environment
  PROVE  DueOK(p)'
<1>0. \A a : KnownPort(a) /\ UNCHANGED <<foreign_ports, events>> => KnownPort(a)'
  BY DEF KnownPort
<1>1. ASSUME UNCHANGED <<number, ports, lash, clients, foreign_ports>>,
             Meant(p) \in subs => Meant(p) \in subs',
             \A c \in Client : process'[c] \notin {"none", "stray"} =>
                               process[c] \notin {"none", "stray"} \/ number[c] = 0,
             events' = events \/ Grown(events', events, {Change})
      PROVE  DueOK(p)'
  <2>1. ASSUME NEW a
        PROVE  (KnownPort(a) => KnownPort(a)') /\ (StartIn(events, a) => StartIn(events', a))
    <3>1. CASE events' = events
      BY <1>0, <1>1, <3>1
    <3>2. CASE Grown(events', events, {Change})
      <4> DEFINE added == {Change}
      <4>1. PortExit(a) \notin added
        BY EventsDiffer
      <4>2. Grown(events', events, added) /\ events \in Seq(Event)
        BY <3>2 DEF ProgramsInv, TypeInv, AlsaTypes
      <4> HIDE DEF added
      <4>3. KnownPort(a) => KnownPort(a)'
        BY <1>1, <4>1, <4>2, GrownKnown DEF ProgramsInv, KnownPort
      <4>4. StartIn(events, a) => StartIn(events', a)
        BY <4>2, GrownKeeps
      <4> QED BY <4>3, <4>4
    <3> QED BY <1>1, <3>1, <3>2
  <2>2. \A c \in Client : NotTold(c)' => NotTold(c) /\ lash'[c].alsa_patches = lash[c].alsa_patches
    BY <1>1 DEF NotTold
  <2> QED BY <1>1, <2>1, <2>2, DueFrame
<1>2. ASSUME NEW w \in Wire, UserConnects(w) PROVE DueOK(p)'
  <2>1. UNCHANGED <<number, ports, lash, clients, foreign_ports, process>> /\ subs \subseteq subs'
    BY <1>2 DEF UserConnects, processVars, ExternalStep, mgrVars
  <2>2. Grown(events', events, {Change})
    BY <1>2, UserConnectsTypes DEF ProgramsInv
  <2> QED BY <1>1, <2>1, <2>2
<1>3. ASSUME NEW w \in subs, UserDisconnects(w) PROVE DueOK(p)'
  <2>1. /\ UNCHANGED <<number, ports, lash, clients, foreign_ports, process>>
        /\ subs' = subs \ {w} /\ Meant(p) # w
    BY <1>3 DEF UserDisconnects, processVars, ExternalStep, mgrVars
  <2>2. Grown(events', events, {Change})
    BY <1>3, UserDisconnectsTypes DEF ProgramsInv
  <2> QED BY <1>1, <2>1, <2>2
<1>4. ASSUME NEW c \in Client, Start(c) PROVE DueOK(p)'
  <2>1. /\ UNCHANGED <<number, ports, lash, clients, foreign_ports, subs, events>>
        /\ process[c] = "none" /\ process' = [process EXCEPT ![c] = "up"]
    BY <1>4 DEF Start, sequencerVars, ExternalStep, mgrVars
  <2>2. \A d \in Client : process'[d] \notin {"none", "stray"} =>
                          process[d] \notin {"none", "stray"} \/ number[d] = 0
    BY <2>1 DEF ProgramsInv, ProcessesOK, TypeInv, LashdTypes
  <2> QED BY <1>1, <2>1, <2>2
<1>5. ASSUME NEW c \in Client, TellId(c) PROVE DueOK(p)'
  <2>1. /\ UNCHANGED <<number, ports, lash, clients, foreign_ports, subs, events>>
        /\ process[c] = "connected" /\ process' = [process EXCEPT ![c] = "told"]
    BY <1>5 DEF TellId, sequencerVars, ExternalStep, mgrVars
  <2>2. \A d \in Client : process'[d] \notin {"none", "stray"} =>
                          process[d] \notin {"none", "stray"} \/ number[d] = 0
    BY <2>1 DEF ProgramsInv, TypeInv, LashdTypes
  <2> QED BY <1>1, <2>1, <2>2
<1> QED BY <1>2, <1>3, <1>4, <1>5, DueOpens, DueExit, DueOpensPort DEF Environment

LEMMA DueEvent ==
  ASSUME ProgramsInv, NEW p \in due', DueOK(p), HandleEvent
  PROVE  DueOK(p)'
<1>1. /\ EventFrame
      /\ \/ \E a \in Addr, i \in DOMAIN clients : \E opened : TakesPort(a, i, opened)
         \/ TakesNoPort
  BY EventCases DEF ProgramsInv
<1>2. CASE TakesNoPort
  <2>1. /\ UNCHANGED <<number, ports, process, lash, subs>>
        /\ \A i \in DOMAIN clients' : \E j \in DOMAIN clients :
             /\ clients'[i].id = clients[j].id /\ clients'[i].client_id = clients[j].client_id
             /\ clients'[i].old_patches = clients[j].old_patches
        /\ \A a \in ports : KnownPort(a) => KnownPort(a)'
        /\ \A a \in ports : StartIn(events, a) =>
             StartIn(events', a) \/ \A i \in DOMAIN clients : clients[i].client_id # a.client
    BY <1>1, <1>2 DEF EventFrame, TakesNoPort, SameOld, SameClients
  <2>2. \A c \in Client : NotTold(c)' => NotTold(c) /\ lash'[c].alsa_patches = lash[c].alsa_patches
    BY <2>1 DEF NotTold
  <2> QED BY <2>1, <2>2, DueFrame
<1> QED BY <1>1, <1>2, DuePort

LEMMA DueMain ==
  ASSUME ProgramsInv, NEW p \in due', p \in due => DueOK(p), MainThread
  PROVE  DueOK(p)'
<1>1. ASSUME p \in due, UNCHANGED <<number, ports, foreign_ports, events, subs>>,
             \A c \in Client : /\ lash'[c].alsa_client_id = lash[c].alsa_client_id
                               /\ lash'[c].alsa_patches = lash[c].alsa_patches,
             \A c \in Client : process'[c] \notin {"none", "stray"} =>
                               process[c] \notin {"none", "stray"} \/ number[c] = 0,
             \A i \in DOMAIN clients' : \E j \in DOMAIN clients : clients'[i] = clients[j]
      PROVE  DueOK(p)'
  <2>1. \A c \in Client : NotTold(c)' => NotTold(c) /\ lash'[c].alsa_patches = lash[c].alsa_patches
    BY <1>1 DEF NotTold
  <2>2. \A a \in ports : KnownPort(a) => KnownPort(a)'
    BY <1>1 DEF KnownPort
  <2>3. \A i \in DOMAIN clients' : \E j \in DOMAIN clients :
             /\ clients'[i].id = clients[j].id /\ clients'[i].client_id = clients[j].client_id
             /\ clients'[i].old_patches = clients[j].old_patches
    BY <1>1
  <2> QED BY <1>1, <2>1, <2>2, <2>3, DueFrame
<1>2. ASSUME NEW c \in Client, Connect(c) PROVE DueOK(p)'
  <2>1. /\ UNCHANGED <<number, ports, foreign_ports, events, subs, clients, due>>
        /\ process[c] = "up" /\ process' = [process EXCEPT ![c] = "connected"]
        /\ lash' = [lash EXCEPT ![c].state = "running"]
    BY <1>2 DEF Connect, sequencerVars, mgrVars
  <2>2. /\ \A d \in Client : /\ lash'[d].alsa_client_id = lash[d].alsa_client_id
                             /\ lash'[d].alsa_patches = lash[d].alsa_patches
        /\ \A d \in Client : process'[d] \notin {"none", "stray"} =>
                             process[d] \notin {"none", "stray"} \/ number[d] = 0
    BY <2>1 DEF ProgramsInv, TypeInv, LashdTypes, LashClient
  <2> QED BY <1>1, <2>1, <2>2
<1>3. ASSUME NEW c \in Client, AlsaClientId(c) PROVE DueOK(p)'
  <2>1. /\ UNCHANGED <<number, ports, process, ends, lashd, loaded, saving, doc>>
        /\ told[c] # 0 /\ lash[c].state = "running"
        /\ \/ /\ lash[c].alsa_client_id = 0 /\ \E opened : TakesId(c, opened)
              /\ UniqueIn(Added(c)) /\ \A i \in DOMAIN clients : clients[i].id # c
           \/ UNCHANGED <<lash, subs, events, clients, foreign_ports, due, unread>>
    BY <1>3, IdCases DEF ProgramsInv
  <2>2. CASE UNCHANGED <<lash, subs, events, clients, foreign_ports, due, unread>>
    BY <1>1, <2>1, <2>2
  <2>3. ASSUME NEW opened, TakesId(c, opened), lash[c].alsa_client_id = 0,
               UniqueIn(Added(c)), \A i \in DOMAIN clients : clients[i].id # c
        PROVE  DueOK(p)'
    <3>1. p \in due
      BY <2>3 DEF TakesId, ResumePorts
    <3> QED BY <2>1, <2>3, <3>1, DueId
  <2> QED BY <2>1, <2>2, <2>3
<1>4. ASSUME NEW c \in Client, Disconnect(c) PROVE DueOK(p)'
  <2>1. /\ UNCHANGED <<number, ports, foreign_ports, events, subs, process, due>>
        /\ lash' = [lash EXCEPT ![c].state = "lost"] /\ clients' = Without(clients, {c})
    BY <1>4 DEF Disconnect, sequencerVars, processVars
  <2>2. \A d \in Client : /\ lash'[d].alsa_client_id = lash[d].alsa_client_id
                          /\ lash'[d].alsa_patches = lash[d].alsa_patches
    BY <2>1 DEF ProgramsInv, TypeInv, LashdTypes, LashClient
  <2>3. \A i \in DOMAIN clients' : \E j \in DOMAIN clients : clients'[i] = clients[j]
    BY <2>1, StayingEntries DEF ProgramsInv
  <2> QED BY <1>1, <2>1, <2>2, <2>3
<1>5. ASSUME NEW c \in Client, Launch(c) PROVE DueOK(p)'
  <2>1. /\ UNCHANGED <<number, ports, foreign_ports, events, subs, clients, due, lash>>
        /\ process[c] = "none" /\ process' = [process EXCEPT ![c] = "up"]
    BY <1>5 DEF Launch, sequencerVars, mgrVars
  <2>2. \A d \in Client : process'[d] \notin {"none", "stray"} =>
                          process[d] \notin {"none", "stray"} \/ number[d] = 0
    BY <2>1 DEF ProgramsInv, ProcessesOK, TypeInv, LashdTypes
  <2> QED BY <1>1, <2>1, <2>2
<1>6. CASE Save
  <2>1. /\ UNCHANGED <<number, ports, foreign_ports, events, subs, clients, due, process>>
        /\ \A d \in Client : /\ lash'[d].alsa_client_id = lash[d].alsa_client_id
                             /\ lash'[d].alsa_patches = lash[d].alsa_patches
    BY <1>6 DEF Save, sequencerVars, processVars, mgrVars, ProgramsInv, TypeInv, LashdTypes, LashClient
  <2> QED BY <1>1, <2>1
<1>7. CASE SaveEnds
  <2>1. UNCHANGED <<number, ports, foreign_ports, events, subs, clients, due, process, lash>>
    BY <1>7 DEF SaveEnds, sequencerVars, processVars, mgrVars
  <2> QED BY <1>1, <2>1
<1>8. CASE Close
  BY <1>8 DEF Close
<1>9. CASE Load
  <2>1. /\ UNCHANGED <<number, process, clients>> /\ ~loaded /\ p \in AtBothEnds(doc)
        /\ lash' = LashOf(doc, lash)
    BY <1>9 DEF Load, sequencerVars, processVars, mgrVars
  <2>2. DOMAIN clients = {}
    <3>1. \A i \in DOMAIN clients : clients[i].id \in Client /\ lash[clients[i].id].state = "running"
      BY EntryTypes DEF ProgramsInv, EntriesOK, EntryOK
    <3>2. \A c \in Client : lash[c].state # "running"
      BY <2>1 DEF ProgramsInv, Closed, NoLash
    <3> QED BY <3>1, <3>2
  <2>3. /\ BothById(p)
        /\ \A a \in Ends(p) : LashOf(doc, lash)[a.of] =
             [state |-> "lost", alsa_client_id |-> 0, alsa_patches |-> doc[a.of]] /\ p \in doc[a.of]
    BY <2>1, DueLoaded
  <2>4. BothById(p)' /\ \A a \in Ends(p) : Waits(p, a)'
    BY <2>1, <2>3 DEF Waits, BothById, Ends
  <2>5. \A a \in Ends(p) : KnownPorts(a)'
    BY <2>1, <2>3 DEF KnownPorts, BothById, ProgramsInv, Closed
  <2>6. Spent(p, p.src, p.dest)' /\ Spent(p, p.dest, p.src)' /\ Made(p)'
    BY <2>1, <2>2 DEF Spent, Made
  <2> QED BY <2>4, <2>5, <2>6 DEF DueOK, Ends
<1> QED BY <1>2, <1>3, <1>4, <1>5, <1>6, <1>7, <1>8, <1>9 DEF MainThread

DueInv == ProgramsInv /\ \A p \in due : DueOK(p)

LEMMA DueInit == Init => DueInv
<1> SUFFICES ASSUME Init PROVE DueInv
  OBVIOUS
<1>1. ProgramsInv
  BY InitTypes, ProgramsInit DEF ProgramsInv
<1>2. ASSUME NEW p \in due PROVE DueOK(p)
  <2>1. p \in AtBothEnds(doc) /\ lash = LashOf(doc, Fresh) /\ DOMAIN clients = {}
        /\ \A c \in Client : process[c] = "none"
    BY DEF Init
  <2>2. /\ BothById(p)
        /\ \A a \in Ends(p) : lash[a.of] =
             [state |-> "lost", alsa_client_id |-> 0, alsa_patches |-> doc[a.of]] /\ p \in doc[a.of]
    BY <2>1, DueLoaded
  <2>3. ASSUME NEW a \in Ends(p) PROVE Waits(p, a) /\ KnownPorts(a)
    <3>0. /\ lash[a.of] = [state |-> "lost", alsa_client_id |-> 0, alsa_patches |-> doc[a.of]]
          /\ p \in doc[a.of]
      BY <2>2
    <3>1. lash[a.of].alsa_patches = doc[a.of] /\ p \in doc[a.of]
      BY <3>0
    <3>2. process[a.of] = "none"
      BY <2>1, <2>2 DEF BothById
    <3> QED BY <3>1, <3>2 DEF Waits, KnownPorts
  <2>4. Spent(p, p.src, p.dest) /\ Spent(p, p.dest, p.src) /\ Made(p)
    BY <2>1 DEF Spent, Made
  <2> QED BY <2>2, <2>3, <2>4 DEF DueOK
<1> QED BY <1>1, <1>2 DEF DueInv

LEMMA DueStep == DueInv /\ [Next]_vars => DueInv'
<1> SUFFICES ASSUME DueInv, [Next]_vars PROVE DueInv'
  OBVIOUS
<1> USE DEF DueInv
<1>1. ProgramsInv'
  BY ProgramsStep
<1>2. ASSUME NEW p \in due' PROVE DueOK(p)'
  <2>1. CASE Environment
    <3>1. p \in due
      BY <2>1 DEF Environment, OpenSequencer, Exit, OpenPort, UserConnects, UserDisconnects, Start,
                  TellId
    <3> QED BY <2>1, <3>1, DueEnvironment
  <2>2. CASE HandleEvent
    <3>1. p \in due
      BY <2>2, EventEntries DEF ProgramsInv
    <3> QED BY <2>2, <3>1, DueEvent
  <2>3. CASE MainThread
    BY <2>3, DueMain
  <2>4. CASE UNCHANGED vars
    <3>1. DueOK(p)
      BY <2>4 DEF vars
    <3>2. UNCHANGED <<number, ports, subs, process, events, clients, foreign_ports, lash>>
      BY <2>4 DEF vars, sequencerVars, processVars, mgrVars
    <3>3. ASSUME NEW a PROVE (Waits(p, a) => Waits(p, a)') /\ (KnownPorts(a) => KnownPorts(a)')
      BY <3>2 DEF Waits, KnownPorts, KnownPort, Armed, NotTold, AddrFor, LiveIn
    <3>4. ASSUME NEW a, NEW b, Spent(p, a, b) PROVE Spent(p, a, b)'
      BY <3>2, <3>4 DEF Spent, AddrFor, LiveIn, Meant, NotTold, Armed
    <3>5. Made(p) => Made(p)'
      BY <3>2 DEF Made, Armed, AddrFor, LiveIn, Meant
    <3> QED BY <3>1, <3>3, <3>4, <3>5 DEF DueOK, BothById, Ends
  <2>5. Lashd => HandleEvent \/ MainThread
    BY DEF Lashd, MainThread
  <2> QED BY <2>1, <2>2, <2>3, <2>4, <2>5 DEF Next
<1> QED BY <1>1, <1>2

------------------------------------------------------------------------------
(* Copies of the connections *)

(* The copy of a client's connections is what the sequencer has, or there  *)
(* is an announcement to read them again, unless the client was added, or  *)
(* lost connections with a program that ended, since they were read.       *)
CopiesOK ==
  \A i \in DOMAIN clients :
    clients[i].id \notin unread /\ clients[i].client_id = number[clients[i].id] =>
      clients[i].patches = SubsOf(clients[i].client_id) \/ ChangeIn(events)

LEMMA CopiesStep ==
  ASSUME ProgramsInv, CopiesOK, [Next]_vars
  PROVE  CopiesOK'
<1>0. events \in Seq(Event) /\ clients \in Seq(Entry)
  BY DEF ProgramsInv, TypeInv, AlsaTypes, LashdTypes
<1>1. ASSUME UNCHANGED <<clients, number, unread, subs>>, ChangeIn(events) => ChangeIn(events')
      PROVE  CopiesOK'
  BY <1>1 DEF CopiesOK, SubsOf
<1>2. ASSUME ChangeIn(events') PROVE CopiesOK'
  BY <1>2 DEF CopiesOK
<1>3. CASE Environment
  <2>1. ASSUME NEW x \in Program, OpenSequencer(x) PROVE CopiesOK'
    <3>1. PICK n \in Number : number' = [number EXCEPT ![x] = n]
      BY <2>1 DEF OpenSequencer
    <3>2. /\ number[x] = 0 /\ (x \in Client => process[x] # "none")
          /\ UNCHANGED <<clients, events, subs, unread>>
      BY <2>1 DEF OpenSequencer, ExternalStep, mgrVars
    <3>3. ASSUME NEW i \in DOMAIN clients PROVE clients[i].id # x /\ number'[clients[i].id] = number[clients[i].id]
      <4>1. clients[i].id \in Client /\ clients[i].client_id # 0
        BY EntryTypes DEF ProgramsInv
      <4>2. clients[i].id # x
        BY <3>2, <4>1 DEF ProgramsInv, EntriesOK, EntryOK
      <4> QED BY <3>1, <4>1, <4>2 DEF ProgramsInv, TypeInv, AlsaTypes, Program
    <3> QED BY <3>2, <3>3 DEF CopiesOK, SubsOf
  <2>2. ASSUME NEW x \in Program, Exit(x) PROVE CopiesOK'
    <3>1. /\ number' = [number EXCEPT ![x] = 0] /\ clients' = clients
          /\ subs' = subs \ Cut(x)
          /\ unread' = unread \union {c \in Client : \E s \in Cut(x) : number[c] \in {s[1].client, s[2].client}}
          /\ ChangeIn(events) => ChangeIn(events')
      <4>1. Grown(events', events, {PortExit(a) : a \in Gone(x)})
        BY <2>2, ExitTypes DEF ProgramsInv
      <4>2. ChangeIn(events) => ChangeIn(events')
        BY <1>0, <4>1, GrownKeeps
      <4> QED BY <2>2, <4>2, ExitTypes DEF ProgramsInv, Exit, ExternalStep, mgrVars
    <3>2. ASSUME NEW i \in DOMAIN clients, clients[i].id \notin unread',
                 clients[i].client_id = number'[clients[i].id]
          PROVE  clients[i].client_id = number[clients[i].id] /\ SubsOf(clients[i].client_id)' = SubsOf(clients[i].client_id)
      <4>1. clients[i].id \in Client /\ clients[i].client_id # 0
        BY EntryTypes DEF ProgramsInv
      <4>2. number'[clients[i].id] = number[clients[i].id]
        BY <3>1, <3>2, <4>1 DEF ProgramsInv, TypeInv, AlsaTypes, Program
      <4>3. \A s \in Cut(x) : number[clients[i].id] \notin {s[1].client, s[2].client}
        BY <3>1, <3>2, <4>1
      <4> QED BY <3>1, <3>2, <4>2, <4>3 DEF SubsOf
    <3>3. SUFFICES ASSUME NEW i \in DOMAIN clients, clients[i].id \notin unread',
                          clients[i].client_id = number'[clients[i].id]
                   PROVE  clients[i].patches = SubsOf(clients[i].client_id)' \/ ChangeIn(events')
      BY <3>1 DEF CopiesOK
    <3>4. clients[i].client_id = number[clients[i].id] /\ clients[i].id \notin unread
      BY <3>1, <3>2, <3>3
    <3> QED BY <3>1, <3>2, <3>3, <3>4 DEF CopiesOK
  <2>3. ASSUME NEW x \in Program, NEW q \in PortsOf[x], OpenPort(x, q) PROVE CopiesOK'
    <3>1. UNCHANGED <<clients, number, unread, subs>>
      BY <2>3 DEF OpenPort, ExternalStep, mgrVars
    <3>2. events' = Append(events, PortStart(At(number[x], q))) /\ PortStart(At(number[x], q)) \in Event
      BY <2>3, OpenPortTypes DEF ProgramsInv
    <3>3. \E added : Grown(events', events, added)
      BY <1>0, <3>2, AppendGrows
    <3> QED BY <1>0, <1>1, <3>1, <3>3, GrownKeeps
  <2>4. ASSUME NEW w \in Wire, UserConnects(w) PROVE CopiesOK'
    BY <1>2, <2>4, UserConnectsTypes DEF ProgramsInv
  <2>5. ASSUME NEW w \in subs, UserDisconnects(w) PROVE CopiesOK'
    BY <1>2, <2>5, UserDisconnectsTypes DEF ProgramsInv
  <2>6. ASSUME NEW c \in Client, Start(c) \/ TellId(c) PROVE CopiesOK'
    BY <1>1, <2>6 DEF Start, TellId, sequencerVars, ExternalStep, mgrVars
  <2> QED BY <1>3, <2>1, <2>2, <2>3, <2>4, <2>5, <2>6 DEF Environment
<1>4. CASE HandleEvent
  <2>1. /\ EventFrame
        /\ \/ \E a \in Addr, i \in DOMAIN clients : \E opened : TakesPort(a, i, opened)
           \/ TakesNoPort
    BY <1>4, EventCases DEF ProgramsInv
  <2>2. CASE TakesNoPort
    <3>1. /\ number' = number /\ subs' = subs /\ DOMAIN clients' = DOMAIN clients
          /\ \A i \in DOMAIN clients : clients'[i].id = clients[i].id /\ clients'[i].client_id = clients[i].client_id
      BY <2>1, <2>2 DEF EventFrame, TakesNoPort, SameOld, SameClients
    <3>2. CASE \A i \in DOMAIN clients : clients'[i].patches = SubsOf(clients[i].client_id)
      BY <3>1, <3>2 DEF CopiesOK, SubsOf
    <3>3. CASE /\ \A i \in DOMAIN clients : clients'[i].patches = clients[i].patches
               /\ UNCHANGED unread /\ (ChangeIn(events) => ChangeIn(events'))
      BY <3>1, <3>3 DEF CopiesOK, SubsOf
    <3> QED BY <2>2, <3>2, <3>3 DEF TakesNoPort
  <2>3. ASSUME NEW a \in Addr, NEW i \in DOMAIN clients, NEW opened, TakesPort(a, i, opened)
        PROVE  CopiesOK'
    <3> DEFINE T == Tail(events)
    <3>1. /\ events # <<>> /\ Head(events) = PortStart(a) /\ T \in Seq(Event)
          /\ ResumePorts(clients, i, opened, T)
          /\ Alike(clients', AfterResuming(clients, i, opened)) /\ UNCHANGED <<unread, number>>
      BY <1>0, <2>1, <2>3, HeadTailProperties DEF TakesPort, EventFrame
    <3>2. Head(events) # Change
      BY <3>1, EventsDiffer
    <3>3. ChangeIn(events) => ChangeIn(T)
      BY <1>0, <3>1, <3>2, TailKeeps
    <3> HIDE DEF T
    <3>4. Grown(events', T, {Change}) /\ (subs' # subs => ChangeIn(events'))
      BY <1>0, <3>1, ResumedTypes DEF ProgramsInv, TypeInv
    <3>5. ChangeIn(T) => ChangeIn(events')
      BY <3>1, <3>4, GrownKeeps
    <3>6. /\ DOMAIN clients' = DOMAIN clients
          /\ \A j \in DOMAIN clients :
               /\ clients'[j].id = clients[j].id /\ clients'[j].client_id = clients[j].client_id
               /\ clients'[j].patches = clients[j].patches
      <4> DEFINE list == AfterResuming(clients, i, opened)
      <4>1. Resumes(list, clients, i, opened) /\ Alike(clients', list)
        BY <1>0, <3>1, ResumedEntries
      <4> HIDE DEF list
      <4>2. /\ list \in Seq(Entry) /\ Len(list) = Len(clients)
            /\ \A j \in DOMAIN clients :
                 /\ list[j].id = clients[j].id /\ list[j].client_id = clients[j].client_id
                 /\ list[j].patches = clients[j].patches
        BY <4>1 DEF Resumes
      <4>3. DOMAIN list = DOMAIN clients
        BY <1>0, <4>2
      <4>4. SameOld(clients', list) /\ \A j \in DOMAIN list : clients'[j].patches = list[j].patches
        BY <4>1, <4>2, AlikeSame
      <4> QED BY <4>2, <4>3, <4>4 DEF SameOld, SameClients
    <3> QED BY <1>2, <3>1, <3>3, <3>4, <3>5, <3>6 DEF CopiesOK, SubsOf
  <2> QED BY <2>1, <2>2, <2>3
<1>5. ASSUME UNCHANGED <<number, unread, subs, events>>,
             \A i \in DOMAIN clients' : \E j \in DOMAIN clients : clients'[i] = clients[j]
      PROVE  CopiesOK'
  BY <1>5 DEF CopiesOK, SubsOf
<1>6. CASE MainThread
  <2>1. ASSUME NEW c \in Client, AlsaClientId(c) PROVE CopiesOK'
    <3>1. /\ number' = number /\ told[c] # 0
          /\ \/ \E opened : TakesId(c, opened)
             \/ UNCHANGED <<lash, subs, events, clients, foreign_ports, due, unread>>
      BY <2>1, IdCases DEF ProgramsInv
    <3>2. ASSUME NEW opened, TakesId(c, opened) PROVE CopiesOK'
      <4>1. EntriesWithId(c, opened)
        BY <3>1, <3>2, IdTypes DEF ProgramsInv
      <4>2. PICK n : /\ DOMAIN clients' = DOMAIN clients \union {n} /\ clients'[n].id = c
        BY <4>1 DEF EntriesWithId
      <4>3. \A i \in DOMAIN clients :
              /\ clients'[i].id = clients[i].id /\ clients'[i].client_id = clients[i].client_id
              /\ clients'[i].patches = clients[i].patches
        BY <4>1 DEF EntriesWithId
      <4>4. unread' = unread \union {c} /\ ResumePorts(Added(c), Len(Added(c)), opened, events)
        BY <3>2 DEF TakesId
      <4>5. Grown(events', events, {Change}) /\ (subs' # subs => ChangeIn(events'))
        BY <1>0, <3>1, <4>4, AddedEntries, ResumedTypes DEF ProgramsInv, TypeInv
      <4>6. ChangeIn(events) => ChangeIn(events')
        BY <1>0, <4>5, GrownKeeps
      <4>7. CASE subs' = subs
        <5>1. ASSUME NEW i \in DOMAIN clients', clients'[i].id \notin unread' PROVE i \in DOMAIN clients
          BY <4>2, <4>4, <5>1
        <5> QED BY <3>1, <4>3, <4>4, <4>6, <4>7, <5>1 DEF CopiesOK, SubsOf
      <4> QED BY <1>2, <4>5, <4>7
    <3> QED BY <1>1, <3>1, <3>2
  <2>2. ASSUME NEW c \in Client, Connect(c) \/ Launch(c) PROVE CopiesOK'
    BY <1>1, <2>2 DEF Connect, Launch, sequencerVars, mgrVars
  <2>3. ASSUME Save \/ SaveEnds \/ Load PROVE CopiesOK'
    BY <1>1, <2>3 DEF Save, SaveEnds, Load, sequencerVars, mgrVars
  <2>4. ASSUME NEW c \in Client, Disconnect(c) PROVE CopiesOK'
    <3>1. clients' = Without(clients, {c}) /\ UNCHANGED <<number, unread, subs, events>>
      BY <2>4 DEF Disconnect, sequencerVars
    <3> QED BY <1>5, <3>1, StayingEntries DEF ProgramsInv
  <2>5. ASSUME Close PROVE CopiesOK'
    <3>1. clients' = Without(clients, Running) /\ UNCHANGED <<number, unread, subs, events>>
      BY <2>5 DEF Close, sequencerVars
    <3> QED BY <1>5, <3>1, StayingEntries DEF ProgramsInv
  <2> QED BY <1>6, <2>1, <2>2, <2>3, <2>4, <2>5 DEF MainThread
<1>7. CASE UNCHANGED vars
  BY <1>1, <1>7 DEF vars, sequencerVars, mgrVars
<1>8. Lashd => HandleEvent \/ MainThread
  BY DEF Lashd, MainThread
<1> QED BY <1>3, <1>4, <1>6, <1>7, <1>8 DEF Next

------------------------------------------------------------------------------
(* The invariants hold *)

AlsaInv == DueInv /\ CopiesOK

LEMMA AlsaInvariant == Spec => []AlsaInv
<1>1. Init => AlsaInv
  <2>1. Init => CopiesOK
    BY DEF Init, CopiesOK
  <2> QED BY <2>1, DueInit DEF AlsaInv
<1>2. AlsaInv /\ [Next]_vars => AlsaInv'
  BY DueStep, CopiesStep DEF AlsaInv, DueInv
<1> QED BY <1>1, <1>2, PTL DEF Spec
(* The sequencer's tables, the manager's lists and the project keep their  *)
(* types through every step of alsa_mgr.c and of the programs.             *)
THEOREM AlsaTypeCorrect == Spec => []TypeOK
<1>1. TypeInv => TypeOK
  <2> SUFFICES ASSUME TypeInv PROVE TypeOK
    OBVIOUS
  <2>1. \A ev \in ToSet(events) : ev.kind \in {"start", "exit", "changed"}
    <3>1. SUFFICES ASSUME NEW k \in DOMAIN events
                   PROVE  events[k].kind \in {"start", "exit", "changed"}
      BY DEF ToSet
    <3>2. events[k] \in Event
      BY DEF TypeInv, AlsaTypes
    <3> QED BY <3>2 DEF Event, Change, PortStart, PortExit
  <2>2. ToSet(clients) \subseteq Entry
    BY DEF TypeInv, LashdTypes, ToSet
  <2>3. {lashd, loaded, saving} \subseteq BOOLEAN
    BY DEF TypeInv, LashdTypes
  <2> QED BY <2>1, <2>2, <2>3 DEF TypeInv, AlsaTypes, LashdTypes, LashClient, TypeOK
<1>2. AlsaInv => TypeOK
  BY <1>1 DEF AlsaInv, DueInv, ProgramsInv
<1> QED BY <1>2, AlsaInvariant, PTL

(* When lashd has heard all announcements, each connection that the        *)
(* document has at both its ends, and that neither end gave up, is made as *)
(* soon as both clients told their ids and both ports are there            *)
(* (alsa_mgr_new_client_port, alsa_mgr_check_client_fports).               *)
THEOREM ConnectionsAreRestored == Spec => []RestoresConnections
<1>1. AlsaInv => RestoresConnections
  <2>1. SUFFICES ASSUME AlsaInv, events = <<>>, NEW p \in due, Present(p.src), Present(p.dest)
                 PROVE  Meant(p) \in subs
    BY DEF RestoresConnections, Quiet
  <2>2. ASSUME NEW end, Present(end)
        PROVE  (\E i \in DOMAIN clients : LiveIn(clients, i, end.of)) /\ AddrFor(end) \in ports
    <3> DEFINE i == FindById(clients, end.of)
    <3>1. clients \in Seq(Entry)
      BY <2>1 DEF AlsaInv, DueInv, ProgramsInv, TypeInv, LashdTypes
    <3>2. i \in {0} \union DOMAIN clients /\ (i # 0 => clients[i].id = end.of)
      BY <3>1, FoundById
    <3>3. i # 0 /\ clients[i].client_id = number[end.of] /\ AddrFor(end) \in ports
      BY <2>2 DEF Present, AddrFor
    <3> HIDE DEF i
    <3> QED BY <3>2, <3>3 DEF LiveIn
  <2>3. PICK i \in DOMAIN clients : LiveIn(clients, i, p.src.of)
    BY <2>1, <2>2
  <2>4. PICK j \in DOMAIN clients : LiveIn(clients, j, p.dest.of)
    BY <2>1, <2>2
  <2>5. Made(p)
    BY <2>1 DEF AlsaInv, DueInv, DueOK
  <2>6. AddrFor(p.src) \in ports /\ AddrFor(p.dest) \in ports
    BY <2>1, <2>2
  <2>7. \A a : ~StartIn(events, a)
    BY <2>1 DEF StartIn
  <2> QED BY <2>3, <2>4, <2>5, <2>6, <2>7 DEF Made, Armed
<1> QED BY <1>1, AlsaInvariant, PTL

(* The address of a known end of a patch, where the list's ids are true.   *)
LEMMA UnsetIsRight ==
  ASSUME NEW list \in Seq(Entry),
         \A k \in DOMAIN list : process[list[k].id] # "none" => number[list[k].id] = list[k].client_id,
         NEW end, Known(list, end)
  PROVE  Means(end, AddrOf(list, end))
<1>1. CASE end.kind = "number"
  BY <1>1 DEF Means, AddrOf
<1>2. CASE end.kind # "number"
  <2> DEFINE f == FindById(list, end.of)
  <2>1. f \in DOMAIN list /\ list[f].id = end.of
    BY <1>2, FoundById DEF Known
  <2>2. AddrOf(list, end) = At(list[f].client_id, end.port)
    BY <1>2 DEF AddrOf
  <2> HIDE DEF f
  <2>3. AddrOf(list, end).port = end.port /\ AddrOf(list, end).client = list[f].client_id
    BY <2>2 DEF At
  <2>4. process[end.of] = "none" \/ number[end.of] = list[f].client_id
    BY <2>1
  <2> QED BY <1>2, <2>3, <2>4 DEF Means
<1> QED BY <1>1, <1>2

(* Whatever lashd connects when it hears an announcement or gets a         *)
(* client's id is what a waiting patch says: its uuids are taken for the   *)
(* programs that are those clients (alsa_patch_unset).                     *)
THEOREM RightProgramsAreConnected == Spec => ConnectsTheRightPrograms
<1>1. ASSUME AlsaInv, HandleEvent \/ (\E c \in Client : AlsaClientId(c)), NEW s \in subs' \ subs
      PROVE  \E p \in WaitingPatches : Means(p.src, s[1]) /\ Means(p.dest, s[2])
  <2>0. ProgramsInv /\ clients \in Seq(Entry)
    BY <1>1 DEF AlsaInv, DueInv, ProgramsInv, TypeInv, LashdTypes
  <2>1. ASSUME NEW list \in Seq(Entry), NEW i \in DOMAIN list, NEW opened, NEW waiting,
               ResumePorts(list, i, opened, waiting), list[i].old_patches \subseteq WaitingPatches,
               \A k \in DOMAIN list : process[list[k].id] # "none" => number[list[k].id] = list[k].client_id
        PROVE  \E p \in WaitingPatches : Means(p.src, s[1]) /\ Means(p.dest, s[2])
    <3>1. PICK p \in Resumed(list, list[i], opened) : s = Unset(list, p)
      BY <1>1, <2>1 DEF ResumePorts
    <3>2. p \in WaitingPatches /\ CanUnset(list, p)
      BY <2>1 DEF Resumed, Tried
    <3>3. s[1] = AddrOf(list, p.src) /\ s[2] = AddrOf(list, p.dest)
      BY <3>1 DEF Unset
    <3>4. Means(p.src, s[1]) /\ Means(p.dest, s[2])
      BY <2>1, <3>2, <3>3, UnsetIsRight DEF CanUnset
    <3> QED BY <3>2, <3>4
  <2>2. CASE HandleEvent
    <3>1. PICK a \in Addr, i \in DOMAIN clients : \E opened : TakesPort(a, i, opened)
      BY <1>1, <2>0, <2>2, EventCases DEF TakesNoPort, ProgramsInv
    <3>2. PICK opened : ResumePorts(clients, i, opened, Tail(events))
      BY <3>1 DEF TakesPort
    <3>3. clients[i].old_patches \subseteq WaitingPatches
      BY DEF WaitingPatches, ToSet
    <3>4. \A k \in DOMAIN clients : process[clients[k].id] # "none" => number[clients[k].id] = clients[k].client_id
      BY <2>0 DEF ProgramsInv, EntriesOK, EntryOK
    <3> QED BY <2>0, <2>1, <3>2, <3>3, <3>4
  <2>3. ASSUME NEW c \in Client, AlsaClientId(c)
        PROVE  \E p \in WaitingPatches : Means(p.src, s[1]) /\ Means(p.dest, s[2])
    <3> DEFINE list == Added(c)
               L == Len(list)
    <3>1. PICK opened : TakesId(c, opened)
      BY <1>1, <2>0, <2>3, IdCases DEF ProgramsInv
    <3>2. told[c] # 0 /\ lash[c].state = "running"
      BY <2>0, <2>3, IdCases DEF ProgramsInv
    <3>3. /\ list \in Seq(Entry) /\ L \in DOMAIN list /\ L = Len(clients) + 1
          /\ DOMAIN list = 1..Len(clients) + 1 /\ DOMAIN clients = 1..Len(clients)
          /\ \A i \in DOMAIN clients : list[i] = clients[i]
          /\ list[L].id = c /\ list[L].client_id = told[c] /\ list[L].old_patches = lash[c].alsa_patches
          /\ Len(clients) \in Nat
      BY <2>0, <3>2, AddedEntries DEF ProgramsInv
    <3>4. ResumePorts(list, L, opened, events)
      BY <3>1 DEF TakesId
    <3> HIDE DEF list
    <3>5. list[L].old_patches \subseteq WaitingPatches
      <4> DEFINE own == UNION {lash[d].alsa_patches : d \in Client}
      <4>1. lash[c].alsa_patches \subseteq own
        BY <2>3
      <4> DEFINE others == UNION {e.old_patches : e \in ToSet(clients)}
      <4>2. WaitingPatches = others \union own
        BY DEF WaitingPatches
      <4> HIDE DEF own, others
      <4> QED BY <3>3, <4>1, <4>2
    <3>6. ASSUME NEW k \in DOMAIN list, process[list[k].id] # "none"
          PROVE  number[list[k].id] = list[k].client_id
      <4>1. k \in DOMAIN clients \/ k = L
        BY <3>3
      <4>2. CASE k = L
        BY <2>0, <3>2, <3>3, <3>6, <4>2 DEF ProgramsInv, ProcessesOK
      <4>3. CASE k \in DOMAIN clients
        BY <2>0, <3>3, <3>6, <4>3 DEF ProgramsInv, EntriesOK, EntryOK
      <4> QED BY <4>1, <4>2, <4>3
    <3> HIDE DEF L
    <3> QED BY <2>1, <3>3, <3>4, <3>5, <3>6
  <2> QED BY <1>1, <2>2, <2>3
<1>2. AlsaInv /\ [Next]_vars =>
        [HandleEvent \/ (\E c \in Client : AlsaClientId(c)) =>
           \A s \in subs' \ subs :
             \E p \in WaitingPatches : Means(p.src, s[1]) /\ Means(p.dest, s[2])]_vars
  BY <1>1
<1> QED BY <1>2, AlsaInvariant, PTL DEF Spec, ConnectsTheRightPrograms

(* A save that ends when lashd has heard all announcements writes for each *)
(* running client the connections that the sequencer has, unless some were *)
(* cut and never announced (alsa_mgr_get_client_patches).                  *)
THEOREM ConnectionsAreSaved == Spec => SavesConnections
<1>1. ASSUME AlsaInv, SaveEnds, Quiet, NEW c \in Running \ unread, Has(c)
      PROVE  doc'[c] = SetPatches(clients, SubsOf(number[c]))
  <2> DEFINE i == FindById(clients, c)
  <2>1. clients \in Seq(Entry) /\ c \in Client
    BY <1>1 DEF AlsaInv, DueInv, ProgramsInv, TypeInv, LashdTypes, Running
  <2>2. i \in {0} \union DOMAIN clients /\ (i # 0 => clients[i].id = c)
    BY <2>1, FoundById
  <2>3. i # 0 /\ clients[i].client_id = number[c]
    BY <1>1 DEF Has
  <2>4. lash[c].alsa_client_id # 0
    <3> HIDE DEF i
    <3> QED BY <1>1, <2>2, <2>3 DEF AlsaInv, DueInv, ProgramsInv, EntriesOK, EntryOK
  <2>5. doc'[c] = SetPatches(clients, clients[i].patches)
    BY <1>1, <2>1, <2>3, <2>4 DEF SaveEnds, ClientPatches
  <2> HIDE DEF i
  <2>6. ~ChangeIn(events)
    BY <1>1 DEF Quiet, ChangeIn
  <2>7. clients[i].patches = SubsOf(number[c])
    BY <1>1, <2>2, <2>3, <2>6 DEF AlsaInv, CopiesOK
  <2> QED BY <2>5, <2>7
<1>2. AlsaInv /\ [Next]_vars =>
        [SaveEnds /\ Quiet =>
           \A c \in Running \ unread : Has(c) => doc'[c] = SetPatches(clients, SubsOf(number[c]))]_vars
  BY <1>1
<1> QED BY <1>2, AlsaInvariant, PTL DEF Spec, SavesConnections

=============================================================================
