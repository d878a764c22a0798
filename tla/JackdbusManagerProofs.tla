------------------------ MODULE JackdbusManagerProofs ------------------------
(***************************************************************************)
(* Theorems about JackdbusManager, for any programs, wires, documents, and *)
(* numbers of ends and signals.                                            *)
(***************************************************************************)
EXTENDS JackdbusManager, FiniteSetTheorems, SequenceTheorems, WellFoundedInduction, TLAPS

------------------------------------------------------------------------------
(* Facts about lists and numbers *)

(* What cannot fail first does not fail: the induction that the proofs of  *)
(* recursive functions use.                                                *)
LEMMA LeastNumber ==
  ASSUME NEW T, T \subseteq Nat, T # {}
  PROVE  \E n \in T : \A m \in T : n <= m
<1>1. PICK n \in T : \A m \in T : ~(<<m, n>> \in OpToRel(<, Nat))
  BY NatLessThanWellFounded, WFMin
<1>2. \A m \in T : ~(m < n)
  BY <1>1 DEF OpToRel
<1> QED BY <1>2

(* A list without its element at position i.                               *)
LEMMA Removed ==
  ASSUME NEW S, NEW s \in Seq(S), NEW i \in DOMAIN s
  PROVE  /\ RemoveAt(s, i) \in Seq(S)
         /\ Len(RemoveAt(s, i)) = Len(s) - 1
         /\ \A j \in 1..Len(s) - 1 :
              RemoveAt(s, i)[j] = IF j < i THEN s[j] ELSE s[j + 1]
<1> DEFINE front == SubSeq(s, 1, i - 1)
           back  == SubSeq(s, i + 1, Len(s))
<1>1. Len(s) \in Nat /\ DOMAIN s = 1..Len(s) /\ i \in Int
      /\ \A j \in 1..Len(s) : s[j] \in S
  OBVIOUS
<1>2. /\ front \in Seq(S) /\ Len(front) = i - 1
      /\ \A j \in 1..i - 1 : front[j] = s[j]
  <2>1. \A j \in 1..i - 1 : s[j] \in S
    BY <1>1
  <2> QED BY <1>1, <2>1, SubSeqProperties
<1>3. /\ back \in Seq(S) /\ Len(back) = Len(s) - i
      /\ \A j \in 1..Len(s) - i : back[j] = s[i + j]
  <2>1. /\ \A j \in i + 1..Len(s) : s[j] \in S
        /\ i + 1 \in Int /\ Len(s) \in Int
    BY <1>1
  <2>2. /\ back \in Seq(S)
        /\ Len(back) = IF i + 1 <= Len(s) THEN Len(s) - (i + 1) + 1 ELSE 0
        /\ \A j \in 1..Len(s) - (i + 1) + 1 : back[j] = s[i + 1 + j - 1]
    BY <2>1, SubSeqProperties
  <2> HIDE DEF back
  <2>3. back \in Seq(S) /\ Len(back) = Len(s) - i
    BY <1>1, <2>2
  <2>4. ASSUME NEW j \in 1..Len(s) - i PROVE back[j] = s[i + j]
    <3>1. j \in 1..Len(s) - (i + 1) + 1 /\ i + 1 + j - 1 = i + j
      BY <1>1
    <3>2. back[j] = s[i + 1 + j - 1]
      BY <2>2, <3>1
    <3> QED BY <3>1, <3>2
  <2> QED BY <2>3, <2>4
<1> HIDE DEF front, back
<1>4. /\ front \o back \in Seq(S)
      /\ Len(front \o back) = Len(front) + Len(back)
      /\ \A j \in 1..Len(front) + Len(back) :
           (front \o back)[j] = IF j <= Len(front) THEN front[j]
                                ELSE back[j - Len(front)]
  BY <1>2, <1>3, ConcatProperties
<1>5. Len(front \o back) = Len(s) - 1
  BY <1>1, <1>2, <1>3, <1>4
<1>6. ASSUME NEW j \in 1..Len(s) - 1
      PROVE  (front \o back)[j] = IF j < i THEN s[j] ELSE s[j + 1]
  <2>1. j \in 1..Len(front) + Len(back)
    BY <1>1, <1>2, <1>3
  <2>2. CASE j < i
    BY <1>1, <1>2, <1>4, <2>1, <2>2
  <2>3. CASE ~(j < i)
    <3>1. (front \o back)[j] = back[j - (i - 1)]
      BY <1>1, <1>2, <1>4, <2>1, <2>3
    <3>2. j - (i - 1) \in 1..Len(s) - i /\ i + (j - (i - 1)) = j + 1
      BY <1>1, <2>3
    <3> QED BY <1>3, <2>3, <3>1, <3>2
  <2> QED BY <2>2, <2>3
<1>7. RemoveAt(s, i) = front \o back
  BY DEF RemoveAt, front, back
<1> QED BY <1>4, <1>5, <1>6, <1>7

(* A list without some of its elements: those of the positions K stay, in  *)
(* order.                                                                  *)
KeepsFirst(f, k, s, K) ==
  f = [n \in 0..k |-> IF n = 0 THEN <<>>
                      ELSE IF n \in K THEN Append(f[n - 1], s[n]) ELSE f[n - 1]]

LEMMA KeepingExists ==
  ASSUME NEW s, NEW K, NEW k \in Nat
  PROVE  \E f : KeepsFirst(f, k, s, K)
<1> DEFINE T == {j \in Nat : ~\E f : KeepsFirst(f, j, s, K)}
<1>1. SUFFICES ASSUME T # {} PROVE FALSE
  OBVIOUS
<1>2. PICK j \in T : \A m \in T : j <= m
  BY <1>1, LeastNumber
<1>3. CASE j = 0
  <2> DEFINE f == [n \in 0..0 |-> <<>>]
  <2>1. f = [n \in 0..0 |-> IF n = 0 THEN <<>>
                            ELSE IF n \in K THEN Append(f[n - 1], s[n]) ELSE f[n - 1]]
    OBVIOUS
  <2> HIDE DEF f
  <2>2. KeepsFirst(f, j, s, K)
    BY <1>3, <2>1 DEF KeepsFirst
  <2> QED BY <1>2, <2>2
<1>4. CASE j # 0
  <2>1. j - 1 \in Nat /\ j - 1 \notin T
    BY <1>2, <1>4
  <2>2. PICK f : KeepsFirst(f, j - 1, s, K)
    BY <2>1
  <2> DEFINE last == IF j \in K THEN Append(f[j - 1], s[j]) ELSE f[j - 1]
             g == [n \in 0..j |-> IF n < j THEN f[n] ELSE last]
  <2>3. ASSUME NEW n \in 0..j
        PROVE  g[n] = IF n = 0 THEN <<>>
                      ELSE IF n \in K THEN Append(g[n - 1], s[n]) ELSE g[n - 1]
    <3>1. CASE n = 0
      <4>1. g[n] = f[0] /\ 0 \in 0..j - 1
        BY <1>2, <1>4, <3>1
      <4>2. f[0] = <<>>
        BY <2>2, <4>1 DEF KeepsFirst
      <4> QED BY <3>1, <4>1, <4>2
    <3>2. CASE n # 0 /\ n < j
      <4>1. n \in 0..j - 1 /\ n - 1 \in 0..j /\ n - 1 < j
        BY <1>2, <3>2
      <4>2. f[n] = IF n \in K THEN Append(f[n - 1], s[n]) ELSE f[n - 1]
        BY <2>2, <3>2, <4>1 DEF KeepsFirst
      <4>3. g[n] = f[n] /\ g[n - 1] = f[n - 1]
        BY <3>2, <4>1
      <4> HIDE DEF g
      <4> QED BY <3>2, <4>2, <4>3
    <3>3. CASE n = j
      <4>1. j - 1 \in 0..j /\ j - 1 < j /\ j \in 0..j /\ ~(j < j)
        BY <1>2, <1>4
      <4>2. g[j] = last /\ g[j - 1] = f[j - 1]
        BY <4>1
      <4> HIDE DEF g
      <4> QED BY <1>4, <3>3, <4>2
    <3> HIDE DEF g
    <3> QED BY <1>2, <3>1, <3>2, <3>3
  <2>4. g = [n \in 0..j |-> g[n]]
    OBVIOUS
  <2> HIDE DEF g
  <2>5. KeepsFirst(g, j, s, K)
    BY <2>3, <2>4 DEF KeepsFirst
  <2> QED BY <1>2, <2>5
<1> QED BY <1>3, <1>4

(* r is what stays of the first k elements of s, each from the position    *)
(* that `from` says.                                                       *)
StaysOf(r, from, k, s, K) ==
  /\ from \in [DOMAIN r -> (1..k) \intersect K]
  /\ \A i \in DOMAIN r : r[i] = s[from[i]]
  /\ \A i, j \in DOMAIN r : i < j => from[i] < from[j]
  /\ \A n \in (1..k) \intersect K : \E i \in DOMAIN r : from[i] = n

LEMMA OneMoreStays ==
  ASSUME NEW S, NEW s \in Seq(S), NEW K, NEW k \in 1..Len(s), NEW r \in Seq(S),
         \E from : StaysOf(r, from, k - 1, s, K)
  PROVE  IF k \in K
         THEN Append(r, s[k]) \in Seq(S) /\ \E from : StaysOf(Append(r, s[k]), from, k, s, K)
         ELSE \E from : StaysOf(r, from, k, s, K)
<1>1. PICK from : StaysOf(r, from, k - 1, s, K)
  OBVIOUS
<1>2. /\ from \in [DOMAIN r -> (1..k - 1) \intersect K]
      /\ \A i \in DOMAIN r : r[i] = s[from[i]]
      /\ \A i, j \in DOMAIN r : i < j => from[i] < from[j]
      /\ \A n \in (1..k - 1) \intersect K : \E i \in DOMAIN r : from[i] = n
  BY <1>1 DEF StaysOf
<1>3. /\ Len(r) \in Nat /\ DOMAIN r = 1..Len(r) /\ k \in Nat /\ s[k] \in S
      /\ \A n : n \in 1..k <=> n \in 1..k - 1 \/ n = k
  OBVIOUS
<1>4. CASE k \notin K
  <2>1. (1..k) \intersect K = (1..k - 1) \intersect K
    BY <1>3, <1>4
  <2>2. StaysOf(r, from, k, s, K)
    BY <1>2, <2>1 DEF StaysOf
  <2> QED BY <1>4, <2>2
<1>5. CASE k \in K
  <2> DEFINE a == Append(r, s[k])
             g == [i \in 1..Len(r) + 1 |-> IF i = Len(r) + 1 THEN k ELSE from[i]]
  <2>1. /\ a \in Seq(S) /\ DOMAIN a = 1..Len(r) + 1
        /\ \A i \in 1..Len(r) : a[i] = r[i]
        /\ a[Len(r) + 1] = s[k]
    BY <1>3
  <2>2. /\ g \in [1..Len(r) + 1 -> (1..k) \intersect K]
        /\ g[Len(r) + 1] = k
        /\ \A i \in 1..Len(r) : g[i] = from[i] /\ from[i] \in 1..k - 1 /\ i # Len(r) + 1
    BY <1>2, <1>3, <1>5
  <2> HIDE DEF a, g
  <2>3. \A i \in 1..Len(r) + 1 : i \in 1..Len(r) \/ i = Len(r) + 1
    BY <1>3
  <2>4. \A i \in DOMAIN a : a[i] = s[g[i]]
    BY <1>2, <1>3, <2>1, <2>2, <2>3
  <2>5. ASSUME NEW i \in DOMAIN a, NEW j \in DOMAIN a, i < j PROVE g[i] < g[j]
    <3>1. i \in 1..Len(r)
      BY <1>3, <2>1, <2>5
    <3>2. CASE j \in 1..Len(r)
      BY <1>2, <1>3, <2>2, <2>5, <3>1, <3>2
    <3>3. CASE j = Len(r) + 1
      <4>1. from[i] < k
        BY <1>3, <2>2, <3>1
      <4> QED BY <2>2, <3>1, <3>3, <4>1
    <3> QED BY <2>1, <2>3, <3>2, <3>3
  <2>6. ASSUME NEW n \in (1..k) \intersect K PROVE \E i \in DOMAIN a : g[i] = n
    <3>1. CASE n = k
      <4>1. Len(r) + 1 \in DOMAIN a
        BY <1>3, <2>1
      <4> QED BY <2>2, <3>1, <4>1
    <3>2. CASE n \in 1..k - 1
      <4>1. PICK i \in DOMAIN r : from[i] = n
        BY <1>2, <3>2
      <4>2. i \in DOMAIN a
        BY <1>3, <2>1
      <4> QED BY <1>3, <2>2, <4>1, <4>2
    <3> QED BY <1>3, <3>1, <3>2
  <2>7. StaysOf(a, g, k, s, K)
    BY <2>1, <2>2, <2>4, <2>5, <2>6 DEF StaysOf
  <2> QED BY <1>5, <2>1, <2>7 DEF a
<1> QED BY <1>4, <1>5

LEMMA Kept ==
  ASSUME NEW S, NEW s \in Seq(S), NEW K
  PROVE  /\ Keeping(s, K) \in Seq(S)
         /\ \E from : StaysOf(Keeping(s, K), from, Len(s), s, K)
<1>0. Len(s) \in Nat
  OBVIOUS
<1>1. PICK f : KeepsFirst(f, Len(s), s, K)
  BY <1>0, KeepingExists
<1> DEFINE stays == CHOOSE g : g = [n \in 0..Len(s) |->
                       IF n = 0 THEN <<>>
                       ELSE IF n \in K THEN Append(g[n - 1], s[n]) ELSE g[n - 1]]
<1>2. f = [n \in 0..Len(s) |-> IF n = 0 THEN <<>>
                      ELSE IF n \in K THEN Append(f[n - 1], s[n]) ELSE f[n - 1]]
  BY <1>1 DEF KeepsFirst
<1>3. stays = [n \in 0..Len(s) |-> IF n = 0 THEN <<>>
                      ELSE IF n \in K THEN Append(stays[n - 1], s[n]) ELSE stays[n - 1]]
  BY <1>2
<1>4. Keeping(s, K) = stays[Len(s)]
  BY DEF Keeping
<1> HIDE DEF stays
<1> DEFINE Right(n) == /\ stays[n] \in Seq(S)
                       /\ \E from : StaysOf(stays[n], from, n, s, K)
           T == {n \in 0..Len(s) : ~Right(n)}
<1>5. ASSUME T # {} PROVE FALSE
  <2>1. T \subseteq Nat
    OBVIOUS
  <2>2. PICK n \in T : \A m \in T : n <= m
    <3> HIDE DEF T
    <3> QED BY <1>5, <2>1, LeastNumber
  <2>3. CASE n = 0
    <3>1. stays[0] = <<>>
      BY <1>3
    <3> DEFINE none == [i \in {} |-> 0]
    <3>2. none \in [{} -> (1..0) \intersect K] /\ DOMAIN << >> = {}
      OBVIOUS
    <3>3. StaysOf(<<>>, none, 0, s, K)
      <4>1. (1..0) \intersect K = {}
        OBVIOUS
      <4> HIDE DEF none
      <4> QED BY <3>2, <4>1 DEF StaysOf
    <3>4. <<>> \in Seq(S)
      OBVIOUS
    <3>5. Right(n)
      BY <2>3, <3>1, <3>3, <3>4
    <3> QED BY <2>2, <3>5
  <2>4. CASE n # 0
    <3>1. n \in 1..Len(s) /\ n - 1 \in 0..Len(s) /\ n - 1 \notin T
      <4>1. n \in 0..Len(s) /\ ~(n <= n - 1)
        BY <1>0, <2>2
      <4> HIDE DEF T
      <4> QED BY <1>0, <2>2, <2>4, <4>1
    <3>2. Right(n - 1)
      BY <3>1
    <3>3. stays[n] = IF n \in K THEN Append(stays[n - 1], s[n]) ELSE stays[n - 1]
      BY <1>3, <2>4, <3>1
    <3>4. IF n \in K
          THEN /\ Append(stays[n - 1], s[n]) \in Seq(S)
               /\ \E from : StaysOf(Append(stays[n - 1], s[n]), from, n, s, K)
          ELSE \E from : StaysOf(stays[n - 1], from, n, s, K)
      BY <3>1, <3>2, OneMoreStays
    <3>5. Right(n)
      BY <3>2, <3>3, <3>4
    <3> QED BY <2>2, <3>5
  <2> QED BY <2>3, <2>4
<1>6. Right(Len(s))
  <2>1. Len(s) \in 0..Len(s)
    OBVIOUS
  <2> QED BY <1>5, <2>1
<1> QED BY <1>4, <1>6

------------------------------------------------------------------------------
(* Types *)

Id == {None} \union (Name \X Nat)
JackClient == [id : Id, pid : Id, port : BOOLEAN]

KnownEntry == [id : Client, name : Name, jackdbus_id : Id, pid : Id,
               old_patches : SUBSET Patch, backup_patches : SUBSET Patch]
UnknownEntry == [id : {NoClient}, name : Name, jackdbus_id : Name \X Nat, pid : Name \X Nat,
                 old_patches : {{}}, backup_patches : {{}}]

LashClient == [state : {"none", "running", "lost", "gone"}, pid : Id,
               jack_patches : SUBSET Patch, jack_client_name : BOOLEAN]

Graph == [ids : [Name -> Id], ports : SUBSET Name, wires : SUBSET (Name \X Name)]

Links == [from : Name, from_id : Id, to : Name, to_id : Id]
Signal == [kind : {"started", "stopped"}]
          \union [kind : {"appeared", "disappeared", "port"}, name : Name, id : Name \X Nat]
          \union [kind : {"connected", "disconnected"}, link : Links]

JackTypes ==
  /\ jack_up \in BOOLEAN /\ jack \in [Name -> JackClient] /\ wires \subseteq Name \X Name
  /\ opened \in [Name -> Nat] /\ process \in [Client -> Id] /\ started \in [Client -> Nat]
  /\ signals \in Seq(Signal) /\ calls \subseteq Name \X Name
  /\ \A n \in Name : jack[n].id = None => jack[n] = NotThere

LashdTypes ==
  /\ {lashd, dangling, loaded, modified, missed} \subseteq BOOLEAN
  /\ clients \in Seq(KnownEntry) /\ unknown_clients \in Seq(UnknownEntry)
  /\ graph = NoGraph \/ graph \in Graph
  /\ lash \in [Client -> LashClient]
  /\ task \in {"none", "save", "load"}
  /\ \A c \in Client : doc[c] = NotSaved \/ doc[c] \subseteq Patch
  /\ kept \in [Client -> SUBSET Patch] /\ owned \subseteq Client /\ rebound \subseteq Client

TypeInv == JackTypes /\ LashdTypes

LEMMA NotNone ==
  ASSUME NEW S, NEW x \in S \X Nat
  PROVE  x # None /\ x[1] \in S /\ x[2] \in Nat /\ x = <<x[1], x[2]>>
BY DEF None

LEMMA FoundById ==
  ASSUME NEW list \in Seq(KnownEntry), NEW c
  PROVE  /\ FindById(list, c) \in {0} \union DOMAIN list
         /\ FindById(list, c) # 0 => list[FindById(list, c)].id = c
         /\ FindById(list, c) = 0 => \A i \in DOMAIN list : list[i].id # c
<1> DEFINE I == {i \in 1..Len(list) : list[i].id = c}
<1>1. FindById(list, c) = IF I # {} THEN Min(I) ELSE 0
  BY DEF FindById, First, SelectInSeq
<1>2. I # {} => Min(I) \in I
  <2>1. I \subseteq Nat
    OBVIOUS
  <2> HIDE DEF I
  <2> QED BY <2>1, LeastNumber DEF Min
<1>3. Len(list) \in Nat /\ DOMAIN list = 1..Len(list)
  OBVIOUS
<1>4. \A i \in I : i # 0 /\ i \in DOMAIN list /\ list[i].id = c
  BY <1>3
<1>5. I = {} => \A i \in DOMAIN list : list[i].id # c
  BY <1>3
<1> HIDE DEF I
<1> QED BY <1>1, <1>2, <1>4, <1>5

LEMMA FoundByJackdbusId ==
  ASSUME NEW S, NEW list \in Seq(S), NEW id
  PROVE  /\ FindByJackdbusId(list, id) \in {0} \union DOMAIN list
         /\ FindByJackdbusId(list, id) # 0 => list[FindByJackdbusId(list, id)].jackdbus_id = id
         /\ FindByJackdbusId(list, id) = 0 => \A i \in DOMAIN list : list[i].jackdbus_id # id
<1> DEFINE I == {i \in 1..Len(list) : list[i].jackdbus_id = id}
<1>1. FindByJackdbusId(list, id) = IF I # {} THEN Min(I) ELSE 0
  BY DEF FindByJackdbusId, First, SelectInSeq
<1>2. I # {} => Min(I) \in I
  <2>1. I \subseteq Nat
    OBVIOUS
  <2> HIDE DEF I
  <2> QED BY <2>1, LeastNumber DEF Min
<1>3. Len(list) \in Nat /\ DOMAIN list = 1..Len(list)
  OBVIOUS
<1>4. \A i \in I : i # 0 /\ i \in DOMAIN list /\ list[i].jackdbus_id = id
  BY <1>3
<1>5. I = {} => \A i \in DOMAIN list : list[i].jackdbus_id # id
  BY <1>3
<1> HIDE DEF I
<1> QED BY <1>1, <1>2, <1>4, <1>5

LEMMA FoundByPid ==
  ASSUME NEW list \in Seq(UnknownEntry), NEW pid
  PROVE  /\ FindByPid(list, pid) \in {0} \union DOMAIN list
         /\ FindByPid(list, pid) # 0 => list[FindByPid(list, pid)].pid = pid
         /\ FindByPid(list, pid) = 0 => \A i \in DOMAIN list : list[i].pid # pid
<1> DEFINE I == {i \in 1..Len(list) : list[i].pid = pid}
<1>1. FindByPid(list, pid) = IF I # {} THEN Min(I) ELSE 0
  BY DEF FindByPid, First, SelectInSeq
<1>2. I # {} => Min(I) \in I
  <2>1. I \subseteq Nat
    OBVIOUS
  <2> HIDE DEF I
  <2> QED BY <2>1, LeastNumber DEF Min
<1>3. Len(list) \in Nat /\ DOMAIN list = 1..Len(list)
  OBVIOUS
<1>4. \A i \in I : i # 0 /\ i \in DOMAIN list /\ list[i].pid = pid
  BY <1>3
<1>5. I = {} => \A i \in DOMAIN list : list[i].pid # pid
  BY <1>3
<1> HIDE DEF I
<1> QED BY <1>1, <1>2, <1>4, <1>5

(* What stays of a list of entries when one or more are removed.           *)
Subset(new, old, S) ==
  /\ new \in Seq(S)
  /\ \E from \in [DOMAIN new -> DOMAIN old] :
       /\ \A i \in DOMAIN new : new[i] = old[from[i]]
       /\ \A i, j \in DOMAIN new : from[i] = from[j] => i = j

LEMMA OneRemoved ==
  ASSUME NEW S, NEW list \in Seq(S), NEW i \in DOMAIN list
  PROVE  /\ Subset(RemoveAt(list, i), list, S)
         /\ \A j \in DOMAIN list : j # i => \E k \in DOMAIN RemoveAt(list, i) : RemoveAt(list, i)[k] = list[j]
<1> DEFINE r == RemoveAt(list, i)
<1>1. /\ r \in Seq(S) /\ Len(r) = Len(list) - 1
      /\ \A j \in 1..Len(list) - 1 : r[j] = IF j < i THEN list[j] ELSE list[j + 1]
  BY Removed
<1> HIDE DEF r
<1>2. /\ Len(list) \in Nat /\ DOMAIN list = 1..Len(list) /\ DOMAIN r = 1..Len(list) - 1
      /\ i \in 1..Len(list)
  BY <1>1
<1> DEFINE from == [j \in DOMAIN r |-> IF j < i THEN j ELSE j + 1]
<1>3. from \in [DOMAIN r -> DOMAIN list] /\ \A j \in DOMAIN r : r[j] = list[from[j]]
  BY <1>1, <1>2
<1>4. \A j, k \in DOMAIN r : from[j] = from[k] => j = k
  BY <1>2
<1> HIDE DEF from
<1>5. Subset(r, list, S)
  BY <1>1, <1>3, <1>4 DEF Subset
<1>6. ASSUME NEW j \in DOMAIN list, j # i PROVE \E k \in DOMAIN r : r[k] = list[j]
  <2>1. CASE j < i
    <3>1. j \in DOMAIN r /\ r[j] = list[j]
      BY <1>1, <1>2, <2>1
    <3> QED BY <3>1
  <2>2. CASE j > i
    <3>1. j - 1 \in 1..Len(list) - 1 /\ ~(j - 1 < i) /\ j - 1 + 1 = j
      BY <1>2, <2>2
    <3>2. j - 1 \in DOMAIN r /\ r[j - 1] = list[j]
      BY <1>1, <1>2, <3>1
    <3> QED BY <3>2
  <2> QED BY <1>2, <1>6, <2>1, <2>2
<1> QED BY <1>5, <1>6 DEF r

LEMMA SomeKept ==
  ASSUME NEW S, NEW list \in Seq(S), NEW K
  PROVE  /\ Subset(Keeping(list, K), list, S)
<1> DEFINE r == Keeping(list, K)
<1>1. Len(list) \in Nat /\ DOMAIN list = 1..Len(list)
  OBVIOUS
<1>2. r \in Seq(S) /\ \E from : StaysOf(r, from, Len(list), list, K)
  BY Kept
<1>3. PICK from : StaysOf(r, from, Len(list), list, K)
  BY <1>2
<1>4. /\ from \in [DOMAIN r -> (1..Len(list)) \intersect K]
      /\ \A i \in DOMAIN r : r[i] = list[from[i]]
      /\ \A i, j \in DOMAIN r : i < j => from[i] < from[j]
  BY <1>3 DEF StaysOf
<1>5. DOMAIN r \subseteq Nat
  BY <1>2
<1> HIDE DEF r
<1>6. ASSUME NEW i \in DOMAIN r, NEW j \in DOMAIN r, from[i] = from[j] PROVE i = j
  <2>1. i \in Nat /\ j \in Nat /\ from[i] \in Nat /\ from[j] \in Nat
    BY <1>4, <1>5
  <2>2. ~(i < j) /\ ~(j < i)
    BY <1>4, <1>6, <2>1
  <2> QED BY <2>1, <2>2
<1>7. from \in [DOMAIN r -> DOMAIN list]
  BY <1>1, <1>4
<1> QED BY <1>2, <1>4, <1>6, <1>7 DEF r, Subset

LEMMA PatchEnds ==
  ASSUME NEW p \in Patch
  PROVE  /\ p = [src |-> p.src, dest |-> p.dest] /\ p.src \in End /\ p.dest \in End
         /\ p.src.of \in Name /\ p.dest.of \in Name
         /\ p.src.kind = "id" => p.src.of \in Client /\ p.src = ById(p.src.of)
         /\ p.dest.kind = "id" => p.dest.of \in Client /\ p.dest = ById(p.dest.of)
         /\ p.src.kind # "id" => p.src = ByName(p.src.of) /\ p.src.kind = "name"
         /\ p.dest.kind # "id" => p.dest = ByName(p.dest.of) /\ p.dest.kind = "name"
<1>1. p = [src |-> p.src, dest |-> p.dest] /\ p.src \in End /\ p.dest \in End
  BY DEF Patch
<1>2. ASSUME NEW x \in End
      PROVE  /\ x.of \in Name
             /\ x.kind = "id" => x.of \in Client /\ x = ById(x.of)
             /\ x.kind # "id" => x = ByName(x.of) /\ x.kind = "name"
  BY <1>2 DEF End, ById, ByName, Name
<1> QED BY <1>1, <1>2

LEMMA SnapshotType ==
  ASSUME JackTypes
  PROVE  /\ Snapshot \in Graph /\ Snapshot # NoGraph
         /\ Snapshot.ids = [n \in Name |-> jack[n].id] /\ Snapshot.wires = wires
         /\ \A n \in Name : n \in Snapshot.ports <=> jack[n].port
         /\ graph = NoGraph \/ graph \in Graph => Fetched = NoGraph \/ Fetched \in Graph
<1>1. [n \in Name |-> jack[n].id] \in [Name -> Id] /\ {n \in Name : jack[n].port} \subseteq Name
  BY DEF JackTypes, JackClient
<1>2. Snapshot \in Graph
  BY <1>1 DEF Snapshot, Graph, JackTypes
<1>3. Snapshot # NoGraph
  BY <1>2, GraphAssumption DEF Graph, Id
<1>4. Snapshot.ids = [n \in Name |-> jack[n].id] /\ Snapshot.wires = wires
      /\ Snapshot.ports = {n \in Name : jack[n].port}
  BY DEF Snapshot
<1> QED BY <1>2, <1>3, <1>4 DEF Fetched

LEMMA LinkType ==
  ASSUME NEW w \in Name \X Name, NEW ids \in [Name -> Id]
  PROVE  Link(w, ids) \in Links
<1>1. w[1] \in Name /\ w[2] \in Name
  OBVIOUS
<1> QED BY <1>1 DEF Link, Links

LEMMA DescribedType ==
  ASSUME NEW list \in Seq(KnownEntry), NEW e \in KnownEntry, NEW l \in Links
  PROVE  Described(list, e, l) \in Patch
<1>1. ASSUME NEW n \in Name, NEW id PROVE EndAt(list, e, n, id) \in End
  <2> DEFINE i == FindByJackdbusId(list, id)
  <2>1. i \in {0} \union DOMAIN list
    BY FoundByJackdbusId
  <2>2. i # 0 => list[i].id \in Client
    <3>1. \A j \in DOMAIN list : list[j] \in KnownEntry
      OBVIOUS
    <3>2. \A x \in KnownEntry : x.id \in Client
      BY DEF KnownEntry
    <3> HIDE DEF i
    <3> QED BY <2>1, <3>1, <3>2
  <2>3. e.id \in Client
    BY DEF KnownEntry
  <2>4. \A c \in Client : ById(c) \in End
    BY DEF End
  <2>5. ByName(n) \in End
    BY <1>1 DEF End
  <2>6. EndAt(list, e, n, id) = CASE id = e.jackdbus_id -> ById(e.id)
        [] id # e.jackdbus_id /\ i # 0 -> ById(list[i].id)
        [] OTHER -> ByName(n)
    BY DEF EndAt
  <2> HIDE DEF i
  <2> QED BY <2>2, <2>3, <2>4, <2>5, <2>6
<1>2. l.from \in Name /\ l.to \in Name
  BY DEF Links
<1> QED BY <1>1, <1>2 DEF Described, Patch

LEMMA WiresType ==
  ASSUME NEW list \in Seq(KnownEntry), NEW e \in KnownEntry
  PROVE  ClientPortWires(list, e) \subseteq Name \X Name
<1>1. e.name \in Name /\ e.old_patches \subseteq Patch
  BY DEF KnownEntry
<1> QED BY <1>1, PatchEnds DEF ClientPortWires

LEMMA ForeignWiresType ==
  ASSUME NEW list \in Seq(KnownEntry), NEW n \in Name
  PROVE  ForeignPortWires(list, n) \subseteq Name \X Name
<1>1. \A e \in ToSet(list) : e \in KnownEntry
  BY DEF ToSet
<1>2. \A e \in ToSet(list) : e.name \in Name
  BY <1>1 DEF KnownEntry
<1> QED BY <1>2 DEF ForeignPortWires

LEMMA ListOfSet ==
  ASSUME NEW S, IsFiniteSet(S)
  PROVE  SetToSeq(S) \in Seq(S)
<1>1. Cardinality(S) \in Nat /\ ExistsBijection(1..Cardinality(S), S)
  BY FS_CardinalityType
<1>2. \E f \in [1..Cardinality(S) -> S] : IsInjective(f)
  BY <1>1 DEF ExistsBijection, Bijection, Injection, IsInjective
<1>3. SetToSeq(S) \in [1..Cardinality(S) -> S]
  BY <1>2 DEF SetToSeq
<1> HIDE DEF SetToSeq
<1> QED BY <1>1, <1>3

------------------------------------------------------------------------------
(* Binding *)

(* What the entry e of a JACK client becomes when the LASH client c, whose *)
(* patches these are, takes it.                                            *)
BoundEntry(e, c, id, left, patches) ==
  [id |-> c, name |-> e.name, jackdbus_id |-> id, pid |-> e.pid,
   old_patches |-> left, backup_patches |-> patches]

(* What Bind does, with the number that lashd takes for the JACK client's. *)
Binding(e, c, u, l, id, left) ==
  LET patches == l[c].jack_patches
      found == BoundEntry(e, c, id, patches, patches)
      list == Append(clients, found)
  IN  /\ id \in Id /\ left \subseteq patches /\ found \in KnownEntry
      /\ clients' = Append(clients, BoundEntry(e, c, id, left, patches))
      /\ clients' \in Seq(KnownEntry)
      /\ id = IF Fetched = NoGraph THEN e.jackdbus_id ELSE Fetched.ids[e.name]
      /\ IF Fetched # NoGraph /\ id # None
         THEN /\ graph' = Fetched /\ missed' = missed
              /\ left = OldPatchesLeft(list, found, LinksOf(found, Fetched))
              /\ calls' = calls \union IF e.name \in Fetched.ports
                                       THEN ClientPortWires(list, found) ELSE {}
         ELSE /\ graph' = NoGraph /\ missed' = (missed \/ task = "save")
              /\ left = patches /\ calls' = calls
      /\ unknown_clients' = u /\ lashd' \in BOOLEAN
      /\ lash' = [l EXCEPT ![c].jack_patches = {}, ![c].jack_client_name = TRUE]
      /\ owned' = owned \union {c} /\ rebound' = rebound \union ({c} \intersect Outlived)
      /\ UNCHANGED <<dangling, kept>>

LEMMA BindDoes ==
  ASSUME TypeInv, NEW e \in UnknownEntry, NEW c \in Client, NEW u,
         NEW l \in [Client -> LashClient], NEW walked \in BOOLEAN, Bind(e, c, u, l, walked)
  PROVE  \E id, left : Binding(e, c, u, l, id, left)
<1> DEFINE g == Fetched
           patches == l[c].jack_patches
           id == IF g = NoGraph THEN e.jackdbus_id ELSE g.ids[e.name]
           bound == BoundTo(e, c, patches)
           found == [bound EXCEPT !.jackdbus_id = IF g = NoGraph THEN @ ELSE g.ids[e.name]]
           list == Append(clients, found)
           seen == IF g = NoGraph THEN {} ELSE LinksOf(found, g)
           known == g # NoGraph /\ found.jackdbus_id # None
           left == IF known THEN OldPatchesLeft(list, found, seen) ELSE patches
<1>1. /\ e = [id |-> NoClient, name |-> e.name, jackdbus_id |-> e.jackdbus_id, pid |-> e.pid,
              old_patches |-> {}, backup_patches |-> {}]
      /\ e.name \in Name /\ e.jackdbus_id \in Id /\ e.pid \in Id
  BY DEF UnknownEntry, Id
<1>2. patches \subseteq Patch
  BY DEF LashClient
<1>3. g = NoGraph \/ g \in Graph
  BY SnapshotType DEF TypeInv, LashdTypes
<1>4. id \in Id
  BY <1>1, <1>3 DEF Graph
<1>5. bound = BoundEntry(e, c, e.jackdbus_id, patches, patches)
  <2>1. bound = [e EXCEPT !.id = c, !.old_patches = patches,
                           !.backup_patches = e.backup_patches \union patches]
    BY DEF BoundTo
  <2>2. e.backup_patches \union patches = patches
    BY <1>1
  <2> HIDE DEF patches, bound
  <2>3. bound = [e EXCEPT !.id = c, !.old_patches = patches, !.backup_patches = patches]
    BY <2>1, <2>2
  <2> QED BY <1>1, <2>3 DEF BoundEntry
<1>6. found = BoundEntry(e, c, id, patches, patches)
  BY <1>5 DEF BoundEntry
<1>7. found \in KnownEntry
  BY <1>1, <1>2, <1>4, <1>6 DEF BoundEntry, KnownEntry
<1>8. found.jackdbus_id = id /\ found.old_patches = patches
  BY <1>6 DEF BoundEntry
<1>9. left \subseteq patches
  BY <1>8 DEF OldPatchesLeft
<1> DEFINE entry == IF known THEN [found EXCEPT !.old_patches = OldPatchesLeft(list, found, seen)] ELSE found
<1>10. entry = BoundEntry(e, c, id, left, patches)
  BY <1>6 DEF BoundEntry
<1>11. entry \in KnownEntry
  <2>1. e.name \in Name /\ e.pid \in Id
    BY <1>1
  <2> HIDE DEF entry, patches, left, found, id
  <2>2. patches \subseteq Patch /\ left \subseteq Patch
    BY <1>2, <1>9
  <2> QED BY <1>4, <1>10, <2>1, <2>2 DEF BoundEntry, KnownEntry
<1>12. /\ lashd' \in {walked /\ compared : compared \in
                        IF known THEN Compared(list, found, seen) ELSE {TRUE}}
       /\ unknown_clients' = u /\ clients' = Append(clients, entry)
       /\ graph' = IF known THEN g ELSE NoGraph
       /\ calls' = calls \union IF known /\ e.name \in g.ports THEN ClientPortWires(list, found) ELSE {}
       /\ lash' = [l EXCEPT ![c].jack_patches = {}, ![c].jack_client_name = TRUE]
       /\ owned' = owned \union {c} /\ rebound' = rebound \union ({c} \intersect Outlived)
       /\ missed' = (missed \/ (task = "save" /\ ~known))
       /\ UNCHANGED <<dangling, kept>>
  BY Zenon DEF Bind
<1>13. clients' \in Seq(KnownEntry)
  <2>1. clients \in Seq(KnownEntry)
    BY DEF TypeInv, LashdTypes
  <2> HIDE DEF entry
  <2> QED BY <2>1, <1>11, <1>12
<1>14. lashd' \in BOOLEAN
  BY <1>12
<1>15. known <=> Fetched # NoGraph /\ id # None
  BY <1>8
<1>16. missed \in BOOLEAN
  BY DEF TypeInv, LashdTypes
<1>17. known => seen = LinksOf(found, Fetched)
  OBVIOUS
<1> DEFINE entry2 == BoundEntry(e, c, id, left, patches)
           found2 == BoundEntry(e, c, id, patches, patches)
<1>18. found = found2 /\ list = Append(clients, found2)
  BY <1>6
<1>19. clients' = Append(clients, entry2)
  BY <1>10, <1>12
<1>20. id = IF Fetched = NoGraph THEN e.jackdbus_id ELSE Fetched.ids[e.name]
  OBVIOUS
<1>21. IF Fetched # NoGraph /\ id # None
       THEN /\ graph' = Fetched /\ missed' = missed
            /\ left = OldPatchesLeft(list, found, LinksOf(found, Fetched))
            /\ calls' = calls \union IF e.name \in Fetched.ports
                                     THEN ClientPortWires(list, found) ELSE {}
       ELSE /\ graph' = NoGraph /\ missed' = (missed \/ task = "save")
            /\ left = patches /\ calls' = calls
  <2>1. left = IF known THEN OldPatchesLeft(list, found, seen) ELSE patches
    OBVIOUS
  <2>2. g = Fetched
    OBVIOUS
  <2> HIDE DEF known, left, g, found, list, seen, id, patches
  <2>3. CASE known
    BY <1>12, <1>15, <1>16, <1>17, <2>1, <2>2, <2>3
  <2>4. CASE ~known
    BY <1>12, <1>15, <1>16, <2>1, <2>2, <2>4
  <2> QED BY <2>3, <2>4
<1>22. /\ id \in Id /\ left \subseteq patches /\ found2 \in KnownEntry
       /\ clients' = Append(clients, entry2) /\ clients' \in Seq(KnownEntry)
       /\ unknown_clients' = u /\ lashd' \in BOOLEAN
       /\ lash' = [l EXCEPT ![c].jack_patches = {}, ![c].jack_client_name = TRUE]
       /\ owned' = owned \union {c} /\ rebound' = rebound \union ({c} \intersect Outlived)
       /\ UNCHANGED <<dangling, kept>>
  <2> HIDE DEF id, left, entry, entry2, found2, found
  <2> QED BY <1>4, <1>7, <1>9, <1>12, <1>13, <1>14, <1>18, <1>19
<1>23. Binding(e, c, u, l, id, left)
  <2> HIDE DEF id, left, found, list
  <2> QED BY <1>18, <1>20, <1>21, <1>22 DEF Binding, entry2, found2, patches
<1> HIDE DEF id, left
<1> QED BY <1>23

------------------------------------------------------------------------------
(* What JACK and the programs do *)

LEMMA ClientsAreNames == Client \subseteq Name
BY DEF Name

(* No step of the environment touches lashd.                               *)
LEMMA LashdUntouched ==
  ASSUME Environment
  PROVE  UNCHANGED <<lashd, mgrVars, lash, projectVars, historyVars>>
<1>1. CASE JackStart
  BY <1>1 DEF JackStart, ExternalStep
<1>2. CASE JackStop
  BY <1>2 DEF JackStop, ExternalStep
<1>3. CASE \E n \in Name : JackOpen(n) \/ JackPort(n) \/ JackClose(n)
  BY <1>3 DEF JackOpen, JackPort, JackClose, ExternalStep
<1>4. CASE \E w \in Wire : UserConnects(w) \/ JackDisconnects(w)
  BY <1>4 DEF UserConnects, JackDisconnects, ExternalStep
<1>5. CASE \E w \in calls : JackTakesCall(w)
  BY <1>5 DEF JackTakesCall, ExternalStep
<1>6. CASE \E c \in Client : Start(c) \/ Exit(c)
  BY <1>6 DEF Start, Exit, ExternalStep
<1> QED BY <1>1, <1>2, <1>3, <1>4, <1>5, <1>6 DEF Environment

LEMMA LashdTypesStay ==
  ASSUME LashdTypes, UNCHANGED <<lashd, mgrVars, lash, projectVars, historyVars>>
  PROVE  LashdTypes'
BY DEF LashdTypes, mgrVars, projectVars, historyVars

LEMMA Emitted ==
  ASSUME signals \in Seq(Signal), NEW s, s \in Signal, Emit(<<s>>)
  PROVE  signals' = Append(signals, s) /\ signals' \in Seq(Signal)
<1>1. signals' = signals \o <<s>>
  BY DEF Emit
<1>2. signals \o <<s>> = Append(signals, s)
  OBVIOUS
<1> QED BY <1>1, <1>2

LEMMA SignalTypes ==
  ASSUME JackTypes
  PROVE  /\ \A k \in {"started", "stopped"} : ServerSignal(k) \in Signal
         /\ \A n \in Name : \A k \in {"port", "disappeared"} : jack[n].id # None => ClientSignal(k, n) \in Signal
         /\ \A w \in Name \X Name : \A k \in {"connected", "disconnected"} : LinkSignal(k, w) \in Signal
         /\ \A n \in Name : \A k \in Nat : [kind |-> "appeared", name |-> n, id |-> <<n, k>>] \in Signal
<1>1. \A n \in Name : jack[n].id \in Id
  BY DEF JackTypes, JackClient
<1>2. \A n \in Name : jack[n].id # None => jack[n].id \in Name \X Nat
  BY <1>1 DEF Id
<1>3. \A w \in Name \X Name : Link(w, [n \in Name |-> jack[n].id]) \in Links
  <2>1. [n \in Name |-> jack[n].id] \in [Name -> Id]
    BY <1>1
  <2> QED BY <2>1, LinkType
<1>4. \A k \in {"started", "stopped"} : ServerSignal(k) \in Signal
  BY DEF ServerSignal, Signal
<1>5. \A n \in Name : \A k \in {"port", "disappeared"} : jack[n].id # None => ClientSignal(k, n) \in Signal
  BY <1>2 DEF ClientSignal, Signal
<1>6. \A w \in Name \X Name : \A k \in {"connected", "disconnected"} : LinkSignal(k, w) \in Signal
  BY <1>3 DEF LinkSignal, Signal
<1>7. \A n \in Name : \A k \in Nat : [kind |-> "appeared", name |-> n, id |-> <<n, k>>] \in Signal
  BY DEF Signal
<1> QED BY <1>4, <1>5, <1>6, <1>7

LEMMA WiresAreOfNames == Wire \subseteq Name \X Name
BY JackAssumption

LEMMA JackTypesKept ==
  ASSUME JackTypes, Environment
  PROVE  JackTypes'
<1> USE DEF jackVars, processVars
<1>0. /\ jack_up \in BOOLEAN /\ jack \in [Name -> JackClient] /\ wires \subseteq Name \X Name
      /\ opened \in [Name -> Nat] /\ process \in [Client -> Id] /\ started \in [Client -> Nat]
      /\ signals \in Seq(Signal) /\ calls \subseteq Name \X Name
      /\ \A n \in Name : jack[n].id = None => jack[n] = NotThere
  BY DEF JackTypes
<1>n. NotThere \in JackClient
  BY DEF NotThere, JackClient, Id
<1>1. CASE JackStart
  <2>1. signals' \in Seq(Signal)
    BY <1>0, <1>1, Emitted, SignalTypes DEF JackStart
  <2> QED BY <1>0, <1>1, <2>1 DEF JackStart, JackTypes
<1>2. CASE JackStop
  <2>1. signals' \in Seq(Signal)
    <3>1. CASE UNCHANGED signals
      BY <1>0, <3>1
    <3>2. CASE Emit(<<ServerSignal("stopped")>>)
      BY <1>0, <3>2, Emitted, SignalTypes
    <3> QED BY <1>2, <3>1, <3>2 DEF JackStop
  <2>2. jack' \in [Name -> JackClient] /\ \A n \in Name : jack'[n] = NotThere
    BY <1>2, <1>n DEF JackStop
  <2> QED BY <1>0, <1>2, <2>1, <2>2 DEF JackStop, JackTypes
<1>3. ASSUME NEW n \in Name, JackOpen(n) PROVE JackTypes'
  <2> DEFINE id == <<n, opened[n]>>
             pid == IF n \in Client THEN process[n] ELSE <<n, 0>>
  <2>1. id \in Id /\ pid \in Id
    BY <1>0 DEF Id
  <2>2. /\ jack' = [jack EXCEPT ![n] = [id |-> id, port |-> FALSE, pid |-> pid]]
        /\ Emit(<<[kind |-> "appeared", name |-> n, id |-> id]>>)
        /\ opened' = [opened EXCEPT ![n] = @ + 1]
        /\ UNCHANGED <<jack_up, wires, processVars, calls>>
    BY <1>3 DEF JackOpen
  <2>3. signals' \in Seq(Signal)
    BY <1>0, <2>2, Emitted, SignalTypes
  <2>4. jack' \in [Name -> JackClient]
    BY <1>0, <2>1, <2>2 DEF JackClient
  <2>5. opened' \in [Name -> Nat]
    BY <1>0, <2>2
  <2>6. \A m \in Name : jack'[m].id = None => jack'[m] = NotThere
    BY <1>0, <2>2, NotNone
  <2> QED BY <1>0, <2>2, <2>3, <2>4, <2>5, <2>6 DEF JackTypes
<1>4. ASSUME NEW n \in Name, JackPort(n) PROVE JackTypes'
  <2>1. signals' \in Seq(Signal)
    BY <1>0, <1>4, Emitted, SignalTypes DEF JackPort
  <2>2. jack' \in [Name -> JackClient]
    <3>1. [jack[n] EXCEPT !.port = TRUE] \in JackClient
      BY <1>0 DEF JackClient
    <3>2. jack' = [jack EXCEPT ![n] = [jack[n] EXCEPT !.port = TRUE]]
      BY <1>4 DEF JackPort
    <3> QED BY <1>0, <3>1, <3>2
  <2>3. \A m \in Name : jack'[m].id = None => jack'[m] = NotThere
    <3>1. jack' = [jack EXCEPT ![n] = [jack[n] EXCEPT !.port = TRUE]] /\ jack[n].id # None
      BY <1>4 DEF JackPort
    <3>2. [jack[n] EXCEPT !.port = TRUE].id = jack[n].id
      BY <1>0 DEF JackClient
    <3> QED BY <1>0, <3>1, <3>2
  <2> QED BY <1>0, <1>4, <2>1, <2>2, <2>3 DEF JackPort, JackTypes
<1>5. ASSUME NEW n \in Name, JackClose(n) PROVE JackTypes'
  <2>1. signals' \in Seq(Signal)
    BY <1>0, <1>5, Emitted, SignalTypes DEF JackClose
  <2>2. jack' \in [Name -> JackClient] /\ \A m \in Name : jack'[m] = jack[m] \/ jack'[m] = NotThere
    BY <1>0, <1>5, <1>n DEF JackClose
  <2> QED BY <1>0, <1>5, <2>1, <2>2 DEF JackClose, JackTypes
<1>6. ASSUME NEW w \in Wire, UserConnects(w) PROVE JackTypes'
  <2>0. w \in Name \X Name
    BY WiresAreOfNames
  <2>1. signals' \in Seq(Signal)
    BY <1>0, <1>6, <2>0, Emitted, SignalTypes DEF UserConnects
  <2>2. wires' \subseteq Name \X Name
    BY <1>0, <1>6, <2>0 DEF UserConnects
  <2> QED BY <1>0, <1>6, <2>1, <2>2 DEF UserConnects, JackTypes
<1>7. ASSUME NEW w \in Wire, JackDisconnects(w) PROVE JackTypes'
  <2>0. w \in Name \X Name
    BY WiresAreOfNames
  <2>1. signals' \in Seq(Signal)
    BY <1>0, <1>7, <2>0, Emitted, SignalTypes DEF JackDisconnects
  <2>2. wires' \subseteq Name \X Name
    BY <1>0, <1>7 DEF JackDisconnects
  <2> QED BY <1>0, <1>7, <2>1, <2>2 DEF JackDisconnects, JackTypes
<1>8. ASSUME NEW w \in calls, JackTakesCall(w) PROVE JackTypes'
  <2>0. w \in Name \X Name
    BY <1>0
  <2>1. signals' \in Seq(Signal) /\ wires' \subseteq Name \X Name
    <3>1. CASE MayConnect(w)
      <4>1. wires' = wires \union {w} /\ Emit(<<LinkSignal("connected", w)>>)
        BY <1>8, <3>1 DEF JackTakesCall
      <4> QED BY <1>0, <2>0, <4>1, Emitted, SignalTypes
    <3>2. CASE ~MayConnect(w)
      BY <1>0, <1>8, <3>2 DEF JackTakesCall
    <3> QED BY <3>1, <3>2
  <2> QED BY <1>0, <1>8, <2>1 DEF JackTakesCall, JackTypes
<1>9. ASSUME NEW c \in Client, Start(c) \/ Exit(c) PROVE JackTypes'
  <2>1. process' \in [Client -> Id] /\ started' \in [Client -> Nat]
    <3>1. <<c, started[c]>> \in Id /\ None \in Id
      BY <1>0, ClientsAreNames DEF Id
    <3>2. CASE Start(c)
      BY <1>0, <3>1, <3>2 DEF Start, NewProcess
    <3>3. CASE Exit(c)
      <4>1. process' = [process EXCEPT ![c] = None] /\ started' = started
        BY <3>3 DEF Exit
      <4> QED BY <1>0, <3>1, <4>1
    <3> QED BY <1>9, <3>2, <3>3
  <2> QED BY <1>0, <1>9, <2>1 DEF Start, Exit, JackTypes
<1> QED BY <1>1, <1>2, <1>3, <1>4, <1>5, <1>6, <1>7, <1>8, <1>9 DEF Environment

------------------------------------------------------------------------------
(* What lashd does *)

LEMMA BindingTypes ==
  ASSUME TypeInv, NEW e \in UnknownEntry, NEW c \in Client, NEW u \in Seq(UnknownEntry),
         NEW l \in [Client -> LashClient], NEW id, NEW left, Binding(e, c, u, l, id, left),
         UNCHANGED <<jack_up, jack, wires, opened, started, loaded, task, doc>>,
         process' \in [Client -> Id], signals' \in Seq(Signal), modified' \in BOOLEAN
  PROVE  TypeInv'
<1> DEFINE patches == l[c].jack_patches
           found == BoundEntry(e, c, id, patches, patches)
           list == Append(clients, found)
<1>0. /\ jack_up \in BOOLEAN /\ jack \in [Name -> JackClient] /\ wires \subseteq Name \X Name
      /\ opened \in [Name -> Nat] /\ started \in [Client -> Nat]
      /\ calls \subseteq Name \X Name
      /\ \A n \in Name : jack[n].id = None => jack[n] = NotThere
      /\ dangling \in BOOLEAN /\ loaded \in BOOLEAN /\ missed \in BOOLEAN
      /\ clients \in Seq(KnownEntry) /\ (graph = NoGraph \/ graph \in Graph)
      /\ task \in {"none", "save", "load"}
      /\ \A d \in Client : doc[d] = NotSaved \/ doc[d] \subseteq Patch
      /\ kept \in [Client -> SUBSET Patch] /\ owned \subseteq Client /\ rebound \subseteq Client
  BY DEF TypeInv, JackTypes, LashdTypes
<1>1. /\ id \in Id /\ left \subseteq patches /\ found \in KnownEntry
      /\ clients' \in Seq(KnownEntry)
      /\ IF Fetched # NoGraph /\ id # None
         THEN /\ graph' = Fetched /\ missed' = missed
              /\ calls' = calls \union IF e.name \in Fetched.ports
                                       THEN ClientPortWires(list, found) ELSE {}
         ELSE /\ graph' = NoGraph /\ missed' = (missed \/ task = "save")
              /\ calls' = calls
      /\ unknown_clients' = u /\ lashd' \in BOOLEAN
      /\ lash' = [l EXCEPT ![c].jack_patches = {}, ![c].jack_client_name = TRUE]
      /\ owned' = owned \union {c} /\ rebound' = rebound \union ({c} \intersect Outlived)
      /\ UNCHANGED <<dangling, kept>>
  BY DEF Binding
<1>2. Fetched = NoGraph \/ Fetched \in Graph
  BY <1>0, SnapshotType DEF TypeInv
<1>3. ClientPortWires(list, found) \subseteq Name \X Name
  <2>1. list \in Seq(KnownEntry)
    <3> HIDE DEF found
    <3> QED BY <1>0, <1>1
  <2> HIDE DEF found, list
  <2> QED BY <1>1, <2>1, WiresType
<1> HIDE DEF found, list
<1>4. calls' \subseteq Name \X Name
  BY <1>0, <1>1, <1>3
<1>5. (graph = NoGraph \/ graph \in Graph)' /\ missed' \in BOOLEAN
  BY <1>0, <1>1, <1>2
<1>6. lash' \in [Client -> LashClient]
  BY <1>1 DEF LashClient
<1>7. JackTypes'
  BY <1>0, <1>4 DEF JackTypes
<1>8. {lashd, dangling, loaded, modified, missed}' \subseteq BOOLEAN
  BY <1>0, <1>1, <1>5
<1>9. owned' \subseteq Client /\ rebound' \subseteq Client
  BY <1>0, <1>1
<1>10. LashdTypes'
  BY <1>0, <1>1, <1>5, <1>6, <1>8, <1>9 DEF LashdTypes
<1> QED BY <1>7, <1>10 DEF TypeInv

LEMMA PidOfClient ==
  ASSUME JackTypes, NEW id
  PROVE  /\ ClientPid(id) \in Id
         /\ ClientPid(id) # None => \E n \in Name : jack[n].id = id /\ id # None /\ ClientPid(id) = jack[n].pid
<1>1. \A n \in Name : jack[n].pid \in Id
  BY DEF JackTypes, JackClient
<1>2. CASE \E n \in Name : jack[n].id = id
  <2> DEFINE m == CHOOSE n \in Name : jack[n].id = id
  <2>1. m \in Name /\ jack[m].id = id /\ ClientPid(id) = jack[m].pid
    BY <1>2 DEF ClientPid
  <2> HIDE DEF m
  <2>2. id = None => jack[m].pid = None
    BY <2>1 DEF JackTypes, NotThere
  <2> QED BY <1>1, <2>1, <2>2
<1>3. CASE ~\E n \in Name : jack[n].id = id
  BY <1>3 DEF ClientPid, Id
<1> QED BY <1>2, <1>3

LEMMA UnknownJackEntry ==
  ASSUME NEW n \in Name, NEW id \in Name \X Nat, NEW pid \in Name \X Nat
  PROVE  JackEntry(n, id, pid) \in UnknownEntry
BY DEF JackEntry, UnknownEntry

LEMMA GraphEntriesType ==
  ASSUME JackTypes, NEW g \in Graph
  PROVE  GraphEntries(g) \in Seq({JackEntry(n, g.ids[n], ClientPid(g.ids[n])) :
                                    n \in {m \in Name : ClientPid(g.ids[m]) # None}})
         /\ GraphEntries(g) \in Seq(UnknownEntry)
<1> DEFINE there == {n \in Name : ClientPid(g.ids[n]) # None}
           E(n) == JackEntry(n, g.ids[n], ClientPid(g.ids[n]))
           S == {E(n) : n \in there}
           f == [n \in there |-> E(n)]
<1>1. GraphEntries(g) = SetToSeq(S)
  BY DEF GraphEntries
<1>2. IsFiniteSet(there)
  BY GraphAssumption, FS_Subset
<1>3. f \in Surjection(there, S)
  BY DEF Surjection
<1>4. IsFiniteSet(S)
  <2> HIDE DEF f, S, there
  <2> QED BY <1>2, <1>3, FS_Surjection
<1>5. S \subseteq UnknownEntry
  <2>1. ASSUME NEW n \in there PROVE E(n) \in UnknownEntry
    <3>1. n \in Name /\ ClientPid(g.ids[n]) # None
      BY <2>1
    <3>2. g.ids[n] # None /\ ClientPid(g.ids[n]) \in Id /\ g.ids[n] \in Id
      BY <3>1, PidOfClient DEF Graph
    <3> QED BY <3>1, <3>2, UnknownJackEntry DEF Id
  <2> QED BY <2>1
<1>6. SetToSeq(S) \in Seq(S)
  <2> HIDE DEF S
  <2> QED BY <1>4, ListOfSet
<1>7. SetToSeq(S) \in Seq(UnknownEntry)
  <2> HIDE DEF S
  <2> QED BY <1>5, <1>6
<1> HIDE DEF S
<1> QED BY <1>1, <1>6, <1>7 DEF S

LEMMA OwnersAreClients ==
  ASSUME NEW pid
  PROVE  /\ OwnersOf(pid) \subseteq Client
         /\ \A c \in OwnersOf(pid) : lash[c].pid = pid /\ lash[c].state \in {"running", "lost"}
         /\ OwnersOf(pid) = {} => \A c \in Running \union Lost : lash[c].pid # pid
BY DEF OwnersOf, Running, Lost

LEMMA KindOfSignal ==
  ASSUME NEW s \in Signal
  PROVE  /\ s.kind \in {"appeared", "disappeared", "port"} => s.name \in Name /\ s.id \in Name \X Nat
         /\ s.kind \in {"connected", "disconnected"} => s.link \in Links
<1>1. CASE s \in [kind : {"started", "stopped"}]
  BY <1>1
<1>2. CASE s \in [kind : {"appeared", "disappeared", "port"}, name : Name, id : Name \X Nat]
  BY <1>2
<1>3. CASE s \in [kind : {"connected", "disconnected"}, link : Links]
  BY <1>3
<1> QED BY <1>1, <1>2, <1>3 DEF Signal

LEMMA HeadType ==
  ASSUME signals \in Seq(Signal), signals # <<>>
  PROVE  /\ Head(signals) \in Signal
         /\ Tail(signals) \in Seq(Signal)
         /\ Head(signals).kind \in {"appeared", "disappeared", "port"} =>
              Head(signals).name \in Name /\ Head(signals).id \in Name \X Nat
         /\ Head(signals).kind \in {"connected", "disconnected"} => Head(signals).link \in Links
<1>1. Head(signals) \in Signal /\ Tail(signals) \in Seq(Signal)
  OBVIOUS
<1> QED BY <1>1, KindOfSignal

LEMMA ConcernedEntries ==
  ASSUME NEW l
  PROVE  clients \in Seq(KnownEntry) => Concerned(l) \subseteq DOMAIN clients
BY FoundByJackdbusId DEF Concerned

LEMMA SavedPatches ==
  ASSUME clients \in Seq(KnownEntry), NEW c \in Client, NEW g, g = NoGraph \/ g \in Graph, HasPatches(c, g)
  PROVE  ClientPatches(c, g) \subseteq Patch /\ g \in Graph
<1> DEFINE e == clients[FindById(clients, c)]
<1>1. g \in Graph /\ FindById(clients, c) # 0
  BY DEF HasPatches
<1>2. e \in KnownEntry
  BY <1>1, FoundById
<1> HIDE DEF e
<1>3. \A w \in g.wires : Link(w, g.ids) \in Links
  BY <1>1, LinkType DEF Graph
<1>4. \A l \in LinksOf(e, g) : Described(clients, e, l) \in Patch
  BY <1>2, <1>3, DescribedType DEF LinksOf
<1>5. ClientPatches(c, g) = {Described(clients, e, l) : l \in LinksOf(e, g)}
  BY DEF ClientPatches, e
<1> QED BY <1>1, <1>4, <1>5

(* What the other actions of lashd leave of JACK's types: they read the    *)
(* signals and call JACK.                                                  *)
LEMMA JackTypesRead ==
  ASSUME JackTypes, UNCHANGED jackVars, process' \in [Client -> Id], started' \in [Client -> Nat],
         signals' \in Seq(Signal), calls' \subseteq Name \X Name
  PROVE  JackTypes'
BY DEF JackTypes, jackVars

LEMMA SignalHandledTypes ==
  ASSUME TypeInv, HandleSignal
  PROVE  TypeInv'
<1> DEFINE s == Head(signals)
<1>0. /\ clients \in Seq(KnownEntry) /\ unknown_clients \in Seq(UnknownEntry)
      /\ graph = NoGraph \/ graph \in Graph
      /\ lash \in [Client -> LashClient]
      /\ dangling \in BOOLEAN /\ loaded \in BOOLEAN /\ missed \in BOOLEAN /\ modified \in BOOLEAN
      /\ calls \subseteq Name \X Name /\ process \in [Client -> Id] /\ started \in [Client -> Nat]
      /\ lashd \in BOOLEAN
      /\ JackTypes
  BY DEF TypeInv, LashdTypes, JackTypes
<1>1. /\ lashd /\ signals # <<>> /\ signals' = Tail(signals)
      /\ UNCHANGED <<jackVars, processVars>>
      /\ \/ s.kind = "appeared" /\ ClientAppeared(s)
         \/ s.kind = "disappeared" /\ ClientDisappeared(s)
         \/ s.kind = "port" /\ PortAppeared(s)
         \/ s.kind = "connected" /\ PortsConnected(s.link)
         \/ s.kind = "disconnected" /\ PortsDisconnected(s.link)
         \/ s.kind = "started" /\ ServerStarted
         \/ s.kind = "stopped" /\ ServerStopped
  BY DEF HandleSignal
<1>2. /\ signals' \in Seq(Signal) /\ s \in Signal
      /\ s.kind \in {"appeared", "disappeared", "port"} => s.name \in Name /\ s.id \in Name \X Nat
      /\ s.kind \in {"connected", "disconnected"} => s.link \in Links
  BY <1>1, HeadType DEF TypeInv, JackTypes
<1> HIDE DEF s
<1>3. process' = process /\ started' = started /\ UNCHANGED jackVars
  BY <1>1 DEF processVars
<1>4. Walked \subseteq BOOLEAN
  BY DEF Walked
<1>5. calls' \subseteq Name \X Name => JackTypes'
  BY <1>0, <1>2, <1>3, JackTypesRead
<1> USE DEF mgrVars, projectVars, historyVars
<1>6. CASE s.kind = "appeared" /\ ClientAppeared(s)
  <2> DEFINE pid == ClientPid(s.id)
             e == JackEntry(s.name, s.id, pid)
  <2>1. UNCHANGED projectVars
    BY <1>6 DEF ClientAppeared
  <2>2. CASE Vanished(pid)
    BY <1>0, <1>5, <1>6, <2>1, <2>2, LashdTypesStay DEF ClientAppeared, TypeInv, LashdTypes
  <2>3. CASE ~Vanished(pid)
    <3>1. pid \in Name \X Nat
      BY <1>0, <2>3, PidOfClient DEF Vanished, Id
    <3>2. e \in UnknownEntry
      BY <1>2, <1>6, <3>1, UnknownJackEntry
    <3>3. CASE OwnersOf(pid) = {}
      <4>1. /\ unknown_clients' = Append(unknown_clients, e) /\ lashd' \in Walked
            /\ UNCHANGED <<calls, clients, dangling, graph, lash, historyVars>>
        BY <1>6, <2>3, <3>3 DEF ClientAppeared
      <4> HIDE DEF e
      <4>2. unknown_clients' \in Seq(UnknownEntry)
        BY <1>0, <3>2, <4>1
      <4> QED BY <1>0, <1>4, <1>5, <2>1, <4>1, <4>2 DEF TypeInv, LashdTypes
    <3>4. CASE OwnersOf(pid) # {}
      <4>1. PICK c \in OwnersOf(pid) : Bind(e, c, unknown_clients, lash, TRUE)
        BY <1>6, <2>3, <3>4 DEF ClientAppeared
      <4>2. c \in Client
        BY <4>1, OwnersAreClients
      <4> HIDE DEF e
      <4>3. PICK id, left : Binding(e, c, unknown_clients, lash, id, left)
        BY <1>0, <3>2, <4>1, <4>2, BindDoes
      <4>4. UNCHANGED <<jack_up, jack, wires, opened, started, loaded, task, doc>>
            /\ process' \in [Client -> Id] /\ modified' \in BOOLEAN
        BY <1>0, <1>3, <2>1 DEF jackVars
      <4> QED BY <1>0, <1>2, <3>2, <4>2, <4>3, <4>4, BindingTypes
    <3> QED BY <3>3, <3>4
  <2> QED BY <2>2, <2>3
<1>7. CASE s.kind = "disappeared" /\ ClientDisappeared(s)
  <2> DEFINE i == FindByJackdbusId(unknown_clients, s.id)
  <2>1. /\ lashd' \in Walked
        /\ unknown_clients' = IF i = 0 THEN unknown_clients ELSE RemoveAt(unknown_clients, i)
        /\ UNCHANGED <<calls, clients, dangling, graph, lash, projectVars, historyVars>>
    BY <1>7 DEF ClientDisappeared
  <2>2. i \in {0} \union DOMAIN unknown_clients
    BY <1>0, FoundByJackdbusId
  <2> HIDE DEF i
  <2>3. unknown_clients' \in Seq(UnknownEntry)
    BY <1>0, <2>1, <2>2, OneRemoved DEF Subset
  <2> QED BY <1>0, <1>4, <1>5, <2>1, <2>3 DEF TypeInv, LashdTypes
<1>8. CASE s.kind = "port" /\ PortAppeared(s)
  <2> DEFINE i == FindByJackdbusId(clients, s.id)
  <2>1. /\ calls' = calls \union (IF i # 0 THEN ClientPortWires(clients, clients[i])
                                  ELSE ForeignPortWires(clients, s.name))
        /\ UNCHANGED <<lashd, mgrVars, lash, projectVars, historyVars>>
    BY <1>8 DEF PortAppeared
  <2>2. i # 0 => clients[i] \in KnownEntry
    BY <1>0, FoundByJackdbusId
  <2> HIDE DEF i
  <2>3. calls' \subseteq Name \X Name
    BY <1>0, <1>2, <1>8, <2>1, <2>2, WiresType, ForeignWiresType
  <2> QED BY <1>5, <2>1, <2>3, LashdTypesStay DEF TypeInv
<1>9. CASE s.kind = "connected" /\ PortsConnected(s.link)
  <2> DEFINE l == s.link
             After(i) == IF i \in Concerned(l)
                        THEN [clients[i] EXCEPT !.old_patches = OldPatchesLeft(clients, clients[i], {l})]
                        ELSE clients[i]
  <2>1. /\ lashd' \in BOOLEAN /\ clients' = [i \in DOMAIN clients |-> After(i)]
        /\ MarkModified(Concerned(l))
        /\ UNCHANGED <<calls, unknown_clients, dangling, graph, lash, loaded, task, doc, kept, owned, rebound>>
    BY <1>9 DEF PortsConnected
  <2>2. \A i \in DOMAIN clients : After(i) \in KnownEntry
    <3>1. \A i \in DOMAIN clients : clients[i] \in KnownEntry
      BY <1>0
    <3>2. \A i \in DOMAIN clients : OldPatchesLeft(clients, clients[i], {l}) \subseteq clients[i].old_patches
      BY DEF OldPatchesLeft
    <3> QED BY <3>1, <3>2 DEF KnownEntry
  <2>3. clients' \in Seq(KnownEntry)
    <3> HIDE DEF After
    <3>1. Len(clients) \in Nat /\ DOMAIN clients = 1..Len(clients)
      BY <1>0
    <3> QED BY <2>1, <2>2, <3>1
  <2>4. modified' \in BOOLEAN /\ missed' \in BOOLEAN
    BY <1>0, <2>1 DEF MarkModified
  <2> QED BY <1>0, <1>5, <2>1, <2>3, <2>4 DEF TypeInv, LashdTypes
<1>10. CASE s.kind = "disconnected" /\ PortsDisconnected(s.link)
  <2>1. modified' \in BOOLEAN /\ missed' \in BOOLEAN
    BY <1>0, <1>10 DEF PortsDisconnected, MarkModified
  <2> QED BY <1>0, <1>5, <1>10, <2>1 DEF PortsDisconnected, TypeInv, LashdTypes
<1>11. CASE s.kind = "started" /\ ServerStarted
  <2>1. graph' = NoGraph \/ graph' \in Graph
    BY <1>0, <1>11, SnapshotType DEF ServerStarted
  <2>2. unknown_clients' \in Seq(UnknownEntry)
    <3>1. CASE graph' = NoGraph
      BY <1>0, <1>11, <3>1 DEF ServerStarted
    <3>2. CASE graph' \in Graph /\ graph' # NoGraph
      <4>1. GraphEntries(graph') \in Seq(UnknownEntry)
        BY <1>0, <3>2, GraphEntriesType
      <4>2. unknown_clients' = unknown_clients \o GraphEntries(graph')
        BY <1>11, <3>2 DEF ServerStarted
      <4> QED BY <1>0, <4>1, <4>2
    <3> QED BY <2>1, <3>1, <3>2
  <2> QED BY <1>0, <1>4, <1>5, <1>11, <2>1, <2>2 DEF ServerStarted, TypeInv, LashdTypes
<1>12. CASE s.kind = "stopped" /\ ServerStopped
  <2>1. unknown_clients' \in Seq(UnknownEntry) /\ dangling' \in BOOLEAN
    BY <1>0, <1>12 DEF ServerStopped
  <2> QED BY <1>0, <1>4, <1>5, <1>12, <2>1 DEF ServerStopped, TypeInv, LashdTypes
<1> QED BY <1>1, <1>6, <1>7, <1>8, <1>9, <1>10, <1>11, <1>12

LEMMA ConnectTypes ==
  ASSUME TypeInv, NEW c \in Client, Connect(c)
  PROVE  TypeInv'
<1> DEFINE pid == process[c]
           l == [lash EXCEPT ![c].state = "running", ![c].pid = pid]
           i == FindByPid(unknown_clients, pid)
<1>0. /\ unknown_clients \in Seq(UnknownEntry) /\ lash \in [Client -> LashClient]
      /\ process \in [Client -> Id] /\ signals \in Seq(Signal) /\ JackTypes
      /\ modified \in BOOLEAN
  BY DEF TypeInv, LashdTypes, JackTypes
<1>1. /\ modified' = TRUE \/ modified' = modified
      /\ UNCHANGED <<jackVars, processVars, signals, loaded, task, doc>>
      /\ IF i # 0
         THEN \E walked \in Walked :
                Bind(unknown_clients[i], c, RemoveAt(unknown_clients, i), l, walked)
         ELSE /\ lash' = l /\ lashd' \in Walked
              /\ UNCHANGED <<calls, mgrVars, historyVars>>
  BY DEF Connect
<1>2. l \in [Client -> LashClient]
  BY <1>0 DEF LashClient
<1>3. i \in {0} \union DOMAIN unknown_clients
  BY <1>0, FoundByPid
<1>4. modified' \in BOOLEAN
  BY <1>0, <1>1
<1>5. Walked \subseteq BOOLEAN
  BY DEF Walked
<1> HIDE DEF i, l
<1>6. CASE i # 0
  <2>1. PICK walked \in Walked :
          Bind(unknown_clients[i], c, RemoveAt(unknown_clients, i), l, walked)
    BY <1>1, <1>6
  <2>2. unknown_clients[i] \in UnknownEntry /\ RemoveAt(unknown_clients, i) \in Seq(UnknownEntry)
    BY <1>0, <1>3, <1>6, OneRemoved DEF Subset
  <2>3. PICK id, left : Binding(unknown_clients[i], c, RemoveAt(unknown_clients, i), l, id, left)
    BY <1>2, <1>5, <2>1, <2>2, BindDoes
  <2> QED BY <1>0, <1>1, <1>2, <1>4, <2>2, <2>3, BindingTypes DEF jackVars, processVars
<1>7. CASE i = 0
  <2>1. lashd' \in BOOLEAN /\ UNCHANGED <<calls, mgrVars, historyVars>> /\ lash' = l
    BY <1>1, <1>5, <1>7
  <2>2. JackTypes'
    BY <1>0, <1>1, <2>1, JackTypesRead DEF processVars, JackTypes
  <2>3. LashdTypes'
    BY <1>1, <1>2, <1>4, <2>1 DEF TypeInv, LashdTypes, mgrVars, historyVars
  <2> QED BY <2>2, <2>3 DEF TypeInv
<1> QED BY <1>6, <1>7

LEMMA DisconnectTypes ==
  ASSUME TypeInv, NEW c \in Client, Disconnect(c)
  PROVE  TypeInv'
<1> DEFINE i == IF lash[c].jack_client_name THEN FindById(clients, c) ELSE 0
           backup == IF i = 0 THEN {} ELSE clients[i].backup_patches
<1>0. clients \in Seq(KnownEntry) /\ lash \in [Client -> LashClient]
  BY DEF TypeInv, LashdTypes
<1>1. /\ clients' = IF i = 0 THEN clients ELSE RemoveAt(clients, i)
      /\ lash' = [lash EXCEPT ![c].state = "lost", ![c].pid = None,
                              ![c].jack_patches = @ \union backup]
      /\ modified' = TRUE
      /\ UNCHANGED <<jackVars, processVars, signals, calls, lashd, unknown_clients,
                     dangling, graph, loaded, task, doc, historyVars>>
  BY DEF Disconnect
<1>2. i \in {0} \union DOMAIN clients
  BY <1>0, FoundById
<1>3. backup \subseteq Patch
  <2>1. i # 0 => clients[i] \in KnownEntry
    BY <1>0, <1>2
  <2> HIDE DEF i
  <2> QED BY <2>1 DEF KnownEntry
<1> HIDE DEF i, backup
<1>4. clients' \in Seq(KnownEntry)
  BY <1>0, <1>1, <1>2, OneRemoved DEF Subset
<1>5. lash' \in [Client -> LashClient]
  <2>1. lash[c].jack_patches \union backup \subseteq Patch
    BY <1>0, <1>3 DEF LashClient
  <2>2. lash' = [lash EXCEPT ![c].state = "lost", ![c].pid = None,
                             ![c].jack_patches = lash[c].jack_patches \union backup]
    BY <1>0, <1>1
  <2>3. None \in Id
    BY DEF Id
  <2> QED BY <1>0, <2>1, <2>2, <2>3 DEF LashClient
<1>6. JackTypes'
  BY <1>1, JackTypesRead DEF TypeInv, JackTypes, processVars
<1>7. LashdTypes'
  BY <1>1, <1>4, <1>5 DEF TypeInv, LashdTypes, historyVars
<1> QED BY <1>6, <1>7 DEF TypeInv

LEMMA LaunchTypes ==
  ASSUME TypeInv, NEW c \in Client, Launch(c)
  PROVE  TypeInv'
<1>1. /\ process' = [process EXCEPT ![c] = <<c, started[c]>>]
      /\ started' = [started EXCEPT ![c] = @ + 1]
      /\ lash' = [lash EXCEPT ![c].pid = process'[c]]
      /\ UNCHANGED <<jackVars, signals, calls, lashd, mgrVars, projectVars, historyVars>>
  BY DEF Launch, NewProcess
<1>2. process \in [Client -> Id] /\ started \in [Client -> Nat] /\ lash \in [Client -> LashClient]
  BY DEF TypeInv, JackTypes, LashdTypes
<1>3. <<c, started[c]>> \in Id
  BY <1>2, ClientsAreNames DEF Id
<1>4. process' \in [Client -> Id] /\ started' \in [Client -> Nat] /\ process'[c] \in Id
  BY <1>1, <1>2, <1>3
<1>5. lash' \in [Client -> LashClient]
  BY <1>1, <1>2, <1>4 DEF LashClient
<1>6. JackTypes'
  BY <1>1, <1>4, JackTypesRead DEF TypeInv, JackTypes
<1>7. LashdTypes'
  BY <1>1, <1>5 DEF TypeInv, LashdTypes, mgrVars, projectVars, historyVars
<1> QED BY <1>6, <1>7 DEF TypeInv

(* What a save writes for the client c.                                    *)
SavedOf(c, g) == IF c \in Running /\ HasPatches(c, g) THEN ClientPatches(c, g) ELSE {}

(* The entries whose backups a save renews.                                *)
IsRenewed(i, g) ==
  clients[i].id \in Running /\ HasPatches(clients[i].id, g) /\ i = FindById(clients, clients[i].id)

LEMMA SaveCompletesDoes ==
  ASSUME clients \in Seq(KnownEntry), NEW g, g = NoGraph \/ g \in Graph, SaveCompletes(g),
         kept \in [Client -> SUBSET Patch]
  PROVE  /\ \A c \in Client : SavedOf(c, g) \subseteq Patch
         /\ doc' = [c \in Client |-> IF c \in Running THEN SavedOf(c, g) ELSE NotSaved]
         /\ kept' = [c \in Client |-> IF c \in Running /\ HasPatches(c, g) THEN SavedOf(c, g) ELSE kept[c]]
         /\ kept' \in [Client -> SUBSET Patch]
         /\ clients' \in Seq(KnownEntry) /\ DOMAIN clients' = DOMAIN clients
         /\ \A i \in DOMAIN clients :
              clients'[i] = IF IsRenewed(i, g)
                            THEN [clients[i] EXCEPT !.backup_patches = SavedOf(clients[i].id, g)]
                            ELSE clients[i]
         /\ modified' = FALSE
<1> DEFINE saved == [c \in Client |-> SavedOf(c, g)]
           After(i) == IF IsRenewed(i, g)
                      THEN [clients[i] EXCEPT !.backup_patches = saved[clients[i].id]]
                      ELSE clients[i]
<1>1. \A c \in Client : SavedOf(c, g) \subseteq Patch
  BY SavedPatches DEF SavedOf
<1>2. saved = [c \in Client |-> IF c \in Running /\ HasPatches(c, g) THEN ClientPatches(c, g) ELSE {}]
  BY DEF SavedOf
<1>3. /\ doc' = [c \in Client |-> IF c \in Running THEN saved[c] ELSE NotSaved]
      /\ kept' = [c \in Client |-> IF c \in Running /\ HasPatches(c, g) THEN saved[c] ELSE kept[c]]
      /\ clients' = [i \in DOMAIN clients |-> After(i)]
      /\ modified' = FALSE
  BY <1>2, Zenon DEF SaveCompletes, IsRenewed, SavedOf
<1>4. \A c \in Client : saved[c] = SavedOf(c, g)
  OBVIOUS
<1>5. /\ \A i \in DOMAIN clients : clients[i] \in KnownEntry
      /\ Len(clients) \in Nat /\ DOMAIN clients = 1..Len(clients)
  OBVIOUS
<1>6. \A i \in DOMAIN clients : clients[i].id \in Client
  BY <1>5 DEF KnownEntry
<1> HIDE DEF saved
<1>7. \A i \in DOMAIN clients : After(i) \in KnownEntry
  BY <1>1, <1>4, <1>5, <1>6 DEF KnownEntry
<1>8. \A i \in DOMAIN clients :
         After(i) = IF IsRenewed(i, g)
                   THEN [clients[i] EXCEPT !.backup_patches = SavedOf(clients[i].id, g)]
                   ELSE clients[i]
  BY <1>4, <1>6
<1> HIDE DEF After
<1>9. clients' \in Seq(KnownEntry) /\ DOMAIN clients' = DOMAIN clients
      /\ \A i \in DOMAIN clients : clients'[i] = After(i)
  BY <1>3, <1>5, <1>7
<1>10. doc' = [c \in Client |-> IF c \in Running THEN SavedOf(c, g) ELSE NotSaved]
       /\ kept' = [c \in Client |-> IF c \in Running /\ HasPatches(c, g) THEN SavedOf(c, g) ELSE kept[c]]
  BY <1>3, <1>4
<1>11. kept' \in [Client -> SUBSET Patch]
  BY <1>1, <1>10
<1> QED BY <1>1, <1>3, <1>8, <1>9, <1>10, <1>11

LEMMA SaveTypes ==
  ASSUME TypeInv, Save \/ SaveEnds
  PROVE  TypeInv'
<1>0. /\ clients \in Seq(KnownEntry) /\ kept \in [Client -> SUBSET Patch]
      /\ lash \in [Client -> LashClient] /\ (graph = NoGraph \/ graph \in Graph)
      /\ \A c \in Client : doc[c] = NotSaved \/ doc[c] \subseteq Patch
  BY DEF TypeInv, LashdTypes
<1>1. /\ UNCHANGED <<jackVars, processVars, signals, calls, lashd, unknown_clients,
                     dangling, loaded, owned, rebound>>
      /\ task' \in {"none", "save", "load"} /\ missed' \in BOOLEAN
  BY DEF Save, SaveEnds, TypeInv, LashdTypes
<1>2. graph' = NoGraph \/ graph' \in Graph
  BY <1>0, SnapshotType DEF Save, SaveEnds, TypeInv
<1>3. lash' \in [Client -> LashClient]
  <2>1. CASE Save
    <3>1. lash' = [c \in Client |-> IF c \in Lost THEN [lash[c] EXCEPT !.state = "gone"] ELSE lash[c]]
      BY <2>1 DEF Save
    <3>2. \A c \in Client : [lash[c] EXCEPT !.state = "gone"] \in LashClient
      BY <1>0 DEF LashClient
    <3> QED BY <1>0, <3>1, <3>2
  <2>2. CASE SaveEnds
    BY <1>0, <2>2 DEF SaveEnds
  <2> QED BY <2>1, <2>2
<1>4. \/ SaveCompletes(graph') \/ SaveCompletes(graph)
      \/ UNCHANGED <<doc, kept, clients, modified>>
  BY DEF Save, SaveEnds
<1>5. /\ clients' \in Seq(KnownEntry) /\ kept' \in [Client -> SUBSET Patch] /\ modified' \in BOOLEAN
      /\ \A c \in Client : doc'[c] = NotSaved \/ doc'[c] \subseteq Patch
  <2>1. ASSUME NEW g, SaveCompletes(g), g = NoGraph \/ g \in Graph
        PROVE  /\ clients' \in Seq(KnownEntry) /\ kept' \in [Client -> SUBSET Patch] /\ modified' \in BOOLEAN
               /\ \A c \in Client : doc'[c] = NotSaved \/ doc'[c] \subseteq Patch
    BY <1>0, <2>1, SaveCompletesDoes
  <2>2. CASE UNCHANGED <<doc, kept, clients, modified>>
    BY <1>0, <2>2 DEF TypeInv, LashdTypes
  <2> QED BY <1>0, <1>2, <1>4, <2>1, <2>2
<1>6. JackTypes'
  BY <1>1, JackTypesRead DEF TypeInv, JackTypes, processVars
<1>7. LashdTypes'
  BY <1>1, <1>2, <1>3, <1>5 DEF TypeInv, LashdTypes
<1> QED BY <1>6, <1>7 DEF TypeInv

LEMMA EntriesAreClients ==
  ASSUME clients \in Seq(KnownEntry)
  PROVE  /\ Outlived \subseteq Client
         /\ \A i \in DOMAIN clients : clients[i] \in KnownEntry /\ clients[i].id \in Outlived
<1>1. \A i \in DOMAIN clients : clients[i] \in KnownEntry
  OBVIOUS
<1>2. \A i \in DOMAIN clients : clients[i].id \in Client
  BY <1>1 DEF KnownEntry
<1>3. Outlived = {clients[i].id : i \in DOMAIN clients}
  BY DEF Outlived, ToSet
<1> QED BY <1>1, <1>2, <1>3

LEMMA ProjectTypes ==
  ASSUME TypeInv, LoadEnds \/ Close \/ Load
  PROVE  TypeInv'
<1>0. /\ clients \in Seq(KnownEntry) /\ kept \in [Client -> SUBSET Patch]
      /\ lash \in [Client -> LashClient] /\ (graph = NoGraph \/ graph \in Graph)
      /\ \A c \in Client : doc[c] = NotSaved \/ doc[c] \subseteq Patch
      /\ rebound \subseteq Client
  BY DEF TypeInv, LashdTypes
<1>1. UNCHANGED <<jackVars, processVars, signals, calls>>
  BY DEF LoadEnds, Close, Load
<1>2. JackTypes'
  BY <1>1, JackTypesRead DEF TypeInv, JackTypes, processVars
<1> USE DEF mgrVars, projectVars, historyVars
<1>3. CASE LoadEnds
  BY <1>2, <1>3 DEF LoadEnds, TypeInv, LashdTypes
<1>4. CASE Close
  <2>1. clients' \in Seq(KnownEntry)
    BY <1>0, <1>4, SomeKept DEF Close, Subset
  <2>2. lash' \in [Client -> LashClient]
    BY <1>4 DEF Close, LashClient, Id
  <2> QED BY <1>2, <1>4, <2>1, <2>2 DEF Close, TypeInv, LashdTypes
<1>5. CASE Load
  <2>1. lash' \in [Client -> LashClient]
    <3>1. lash' = [c \in Client |-> IF doc[c] = NotSaved THEN lash[c]
                     ELSE [lash[c] EXCEPT !.state = "lost", !.jack_patches = doc[c]]]
      BY <1>5 DEF Load
    <3>2. \A c \in Client : doc[c] # NotSaved =>
             [lash[c] EXCEPT !.state = "lost", !.jack_patches = doc[c]] \in LashClient
      BY <1>0 DEF LashClient
    <3> QED BY <1>0, <3>1, <3>2
  <2>2. kept' \in [Client -> SUBSET Patch]
    BY <1>0, <1>5 DEF Load
  <2>3. rebound' \subseteq Client
    <3>1. Outlived \subseteq Client
      BY <1>0, EntriesAreClients
    <3> QED BY <1>0, <1>5, <3>1 DEF Load
  <2> QED BY <1>2, <1>5, <2>1, <2>2, <2>3 DEF Load, TypeInv, LashdTypes
<1> QED BY <1>3, <1>4, <1>5

LEMMA DocumentType ==
  ASSUME NEW d \in Document \union {NoClients}, NEW c \in Client
  PROVE  d[c] = NotSaved \/ d[c] \subseteq Patch
BY DocumentAssumption DEF NoClients

LEMMA TypesStay ==
  ASSUME TypeInv, Environment \/ Lashd
  PROVE  TypeInv'
<1>1. CASE Environment
  BY <1>1, JackTypesKept, LashdUntouched, LashdTypesStay DEF TypeInv
<1>2. CASE HandleSignal
  BY <1>2, SignalHandledTypes
<1>3. ASSUME NEW c \in Client, Connect(c) \/ Disconnect(c) \/ Launch(c) PROVE TypeInv'
  BY <1>3, ConnectTypes, DisconnectTypes, LaunchTypes
<1>4. CASE Save \/ SaveEnds
  BY <1>4, SaveTypes
<1>5. CASE LoadEnds \/ Close \/ Load
  BY <1>5, ProjectTypes
<1> QED BY <1>1, <1>2, <1>3, <1>4, <1>5 DEF Lashd

LEMMA TypesHold == Spec => []TypeInv
<1>1. ASSUME Init PROVE TypeInv
  <2> DEFINE run == [n \in Name |-> IF jack_up /\ n \in Foreign
                            THEN [id |-> <<n, 0>>, pid |-> <<n, 0>>, port |-> TRUE]
                            ELSE NotThere]
  <2>1. /\ jack_up \in BOOLEAN /\ jack = run
        /\ opened = [n \in Name |-> IF jack[n].id = None THEN 0 ELSE 1]
        /\ wires = {} /\ process = [c \in Client |-> None] /\ started = [c \in Client |-> 0]
        /\ signals = <<>> /\ calls = {}
    BY <1>1 DEF Init
  <2>2. jack \in [Name -> JackClient] /\ \A n \in Name : jack[n].id = None => jack[n] = NotThere
    <3>1. \A n \in Name : <<n, 0>> \in Id /\ <<n, 0>> # None
      BY NotNone DEF Id
    <3>2. NotThere \in JackClient
      BY DEF NotThere, JackClient, Id
    <3>3. \A n \in Name : [id |-> <<n, 0>>, pid |-> <<n, 0>>, port |-> TRUE] \in JackClient
      BY <3>1 DEF JackClient
    <3> QED BY <2>1, <3>1, <3>2, <3>3
  <2>3. opened \in [Name -> Nat] /\ process \in [Client -> Id] /\ started \in [Client -> Nat]
    BY <2>1 DEF Id
  <2>4. JackTypes
    BY <2>1, <2>2, <2>3 DEF JackTypes
  <2>5. \A c \in Client : doc[c] = NotSaved \/ doc[c] \subseteq Patch
    BY <1>1, DocumentType DEF Init
  <2>6. lash \in [Client -> LashClient]
    <3>1. lash = [c \in Client |->
            [state |-> IF doc[c] = NotSaved THEN "none" ELSE "lost", pid |-> None,
             jack_patches |-> IF doc[c] = NotSaved THEN {} ELSE doc[c],
             jack_client_name |-> FALSE]]
      BY <1>1 DEF Init
    <3>2. None \in Id
      BY DEF Id
    <3> QED BY <2>5, <3>1, <3>2 DEF LashClient
  <2>7. kept \in [Client -> SUBSET Patch]
    <3>1. kept = [c \in Client |-> lash[c].jack_patches]
      BY <1>1 DEF Init
    <3> QED BY <2>6, <3>1 DEF LashClient
  <2>8. graph = NoGraph \/ graph \in Graph
    BY <1>1, <2>4, SnapshotType DEF Init
  <2>9. unknown_clients \in Seq(UnknownEntry)
    <3>1. CASE jack_up
      BY <1>1, <2>4, <3>1, SnapshotType, GraphEntriesType DEF Init
    <3>2. CASE ~jack_up
      BY <1>1, <3>2 DEF Init
    <3> QED BY <3>1, <3>2
  <2>10. LashdTypes
    <3>1. /\ {lashd, dangling, loaded, modified, missed} \subseteq BOOLEAN
          /\ clients = <<>> /\ owned = {} /\ rebound = {} /\ task \in {"none", "save", "load"}
      BY <1>1 DEF Init
    <3> QED BY <2>5, <2>6, <2>7, <2>8, <2>9, <3>1 DEF LashdTypes
  <2> QED BY <2>4, <2>10 DEF TypeInv
<1>2. ASSUME TypeInv, [Next]_vars PROVE TypeInv'
  <2>1. CASE Next
    BY <1>2, <2>1, TypesStay DEF Next
  <2>2. CASE UNCHANGED vars
    BY <1>2, <2>2 DEF vars, jackVars, processVars, mgrVars, projectVars, historyVars, TypeInv,
       JackTypes, LashdTypes
  <2> QED BY <1>2, <2>1, <2>2
<1> QED BY <1>1, <1>2, PTL DEF Spec

------------------------------------------------------------------------------
(* The steps of lashd, sorted by what they do to the lists                 *)

Took(kind) ==
  /\ signals # <<>> /\ Head(signals).kind = kind /\ signals' = Tail(signals)
  /\ UNCHANGED <<jackVars, processVars>>

NewEntry == JackEntry(Head(signals).name, Head(signals).id, ClientPid(Head(signals).id))

(* lashd_jackdbus_on_client_appeared binds, or does not.                   *)
AppearedBinds(c, id, left) ==
  /\ Took("appeared") /\ NewEntry \in UnknownEntry
  /\ c \in OwnersOf(ClientPid(Head(signals).id))
  /\ Binding(NewEntry, c, unknown_clients, lash, id, left)
  /\ UNCHANGED projectVars

AppearedOnly ==
  /\ Took("appeared")
  /\ \/ ClientPid(Head(signals).id) = None /\ unknown_clients' = unknown_clients
     \/ /\ OwnersOf(ClientPid(Head(signals).id)) = {} /\ NewEntry \in UnknownEntry
        /\ unknown_clients' = Append(unknown_clients, NewEntry)
  /\ UNCHANGED <<calls, clients, dangling, graph, lash, projectVars, historyVars>>

(* server_add_client binds, or does not.                                   *)
Connected(c) == [lash EXCEPT ![c].state = "running", ![c].pid = process[c]]

Connects(c) ==
  /\ loaded /\ process[c] # None
  /\ \/ lash[c].state = "none" /\ modified' = TRUE
     \/ lash[c].state = "lost" /\ lash[c].pid = process[c] /\ UNCHANGED modified
  /\ UNCHANGED <<jackVars, processVars, signals, loaded, task, doc>>

ConnectBinds(c, i, id, left) ==
  /\ Connects(c) /\ i \in DOMAIN unknown_clients /\ unknown_clients[i] \in UnknownEntry
  /\ unknown_clients[i].pid = process[c]
  /\ Binding(unknown_clients[i], c, RemoveAt(unknown_clients, i), Connected(c), id, left)

ConnectsOnly(c) ==
  /\ Connects(c) /\ \A i \in DOMAIN unknown_clients : unknown_clients[i].pid # process[c]
  /\ lash' = Connected(c) /\ UNCHANGED <<calls, mgrVars, historyVars>>

LEMMA LashdDoes ==
  ASSUME TypeInv, Lashd
  PROVE  \/ \E c \in Client : \E id, left : AppearedBinds(c, id, left)
         \/ AppearedOnly
         \/ Took("disappeared") /\ ClientDisappeared(Head(signals))
         \/ Took("port") /\ PortAppeared(Head(signals))
         \/ Took("connected") /\ PortsConnected(Head(signals).link)
         \/ Took("disconnected") /\ PortsDisconnected(Head(signals).link)
         \/ Took("started") /\ ServerStarted
         \/ Took("stopped") /\ ServerStopped
         \/ \E c \in Client : \E i, id, left : ConnectBinds(c, i, id, left)
         \/ \E c \in Client : ConnectsOnly(c) \/ Disconnect(c) \/ Launch(c)
         \/ Save \/ SaveEnds \/ LoadEnds \/ Close \/ Load
<1>0. /\ unknown_clients \in Seq(UnknownEntry) /\ lash \in [Client -> LashClient] /\ JackTypes
      /\ signals \in Seq(Signal) /\ process \in [Client -> Id]
  BY DEF TypeInv, LashdTypes, JackTypes
<1>1. CASE HandleSignal
  <2> DEFINE s == Head(signals)
             pid == ClientPid(s.id)
  <2>1. /\ Took(s.kind)
        /\ \/ s.kind = "appeared" /\ ClientAppeared(s)
           \/ s.kind = "disappeared" /\ ClientDisappeared(s)
           \/ s.kind = "port" /\ PortAppeared(s)
           \/ s.kind = "connected" /\ PortsConnected(s.link)
           \/ s.kind = "disconnected" /\ PortsDisconnected(s.link)
           \/ s.kind = "started" /\ ServerStarted
           \/ s.kind = "stopped" /\ ServerStopped
    BY <1>1 DEF HandleSignal, Took
  <2>2. CASE s.kind = "appeared" /\ ClientAppeared(s)
    <3>1. UNCHANGED projectVars
      BY <2>2 DEF ClientAppeared
    <3>2. CASE pid = None
      <4>1. UNCHANGED <<calls, lashd, mgrVars, lash, historyVars>>
        BY <2>2, <3>2 DEF ClientAppeared, Vanished
      <4> QED BY <2>1, <2>2, <3>1, <3>2, <4>1 DEF AppearedOnly, mgrVars
    <3>3. CASE pid # None
      <4>1. pid \in Name \X Nat
        BY <1>0, <3>3, PidOfClient DEF Id
      <4>2. s.name \in Name /\ s.id \in Name \X Nat
        BY <1>0, <2>1, <2>2, HeadType DEF Took
      <4>3. NewEntry \in UnknownEntry
        BY <4>1, <4>2, UnknownJackEntry DEF NewEntry
      <4>4. CASE OwnersOf(pid) = {}
        <5>1. /\ unknown_clients' = Append(unknown_clients, JackEntry(s.name, s.id, pid))
              /\ UNCHANGED <<calls, clients, dangling, graph, lash, historyVars>>
          BY <2>2, <3>3, <4>4 DEF ClientAppeared, Vanished
        <5> QED BY <2>1, <2>2, <3>1, <4>3, <4>4, <5>1 DEF AppearedOnly, NewEntry
      <4>5. CASE OwnersOf(pid) # {}
        <5>1. PICK c \in OwnersOf(pid) :
                Bind(JackEntry(s.name, s.id, pid), c, unknown_clients, lash, TRUE)
          BY <2>2, <3>3, <4>5 DEF ClientAppeared, Vanished
        <5>2. c \in Client
          BY <5>1, OwnersAreClients
        <5>3. Bind(NewEntry, c, unknown_clients, lash, TRUE)
          BY <5>1 DEF NewEntry
        <5>4. PICK id, left : Binding(NewEntry, c, unknown_clients, lash, id, left)
          BY <1>0, <4>3, <5>2, <5>3, BindDoes
        <5>5. AppearedBinds(c, id, left)
          BY <2>1, <2>2, <3>1, <4>3, <5>1, <5>4 DEF AppearedBinds
        <5> QED BY <5>2, <5>5
      <4> QED BY <4>4, <4>5
    <3> QED BY <3>2, <3>3
  <2> HIDE DEF s
  <2> QED BY <2>1, <2>2 DEF s
<1>2. ASSUME NEW c \in Client, Connect(c)
      PROVE  ConnectsOnly(c) \/ \E i, id, left : ConnectBinds(c, i, id, left)
  <2> DEFINE i == FindByPid(unknown_clients, process[c])
  <2>1. Connects(c)
    BY <1>2 DEF Connect, Connects
  <2>2. IF i # 0
        THEN \E walked \in Walked :
               Bind(unknown_clients[i], c, RemoveAt(unknown_clients, i), Connected(c), walked)
        ELSE lash' = Connected(c) /\ UNCHANGED <<calls, mgrVars, historyVars>>
    BY <1>2 DEF Connect, Connected
  <2>3. /\ i \in {0} \union DOMAIN unknown_clients
        /\ i # 0 => unknown_clients[i].pid = process[c]
        /\ i = 0 => \A j \in DOMAIN unknown_clients : unknown_clients[j].pid # process[c]
    BY <1>0, FoundByPid
  <2> HIDE DEF i
  <2>4. CASE i # 0
    <3>1. PICK walked \in Walked :
            Bind(unknown_clients[i], c, RemoveAt(unknown_clients, i), Connected(c), walked)
      BY <2>2, <2>4
    <3>2. walked \in BOOLEAN
      BY DEF Walked
    <3>3. unknown_clients[i] \in UnknownEntry
      BY <1>0, <2>3, <2>4
    <3>4. Connected(c) \in [Client -> LashClient]
      BY <1>0 DEF Connected, LashClient
    <3>5. PICK id, left :
            Binding(unknown_clients[i], c, RemoveAt(unknown_clients, i), Connected(c), id, left)
      BY <3>1, <3>2, <3>3, <3>4, BindDoes
    <3>6. ConnectBinds(c, i, id, left)
      BY <2>1, <2>3, <2>4, <3>3, <3>5 DEF ConnectBinds
    <3> QED BY <3>6
  <2>5. CASE i = 0
    BY <2>1, <2>2, <2>3, <2>5 DEF ConnectsOnly
  <2> QED BY <2>4, <2>5
<1> QED BY <1>1, <1>2 DEF Lashd

LEMMA AppendedEntry ==
  ASSUME NEW S, NEW list \in Seq(S), NEW x
  PROVE  /\ \A i \in DOMAIN list : i \in DOMAIN Append(list, x) /\ Append(list, x)[i] = list[i]
         /\ \E n \in DOMAIN Append(list, x) :
              /\ n \notin DOMAIN list /\ Append(list, x)[n] = x
              /\ \A i \in DOMAIN Append(list, x) : i \in DOMAIN list \/ i = n
<1> DEFINE n == Len(list) + 1
<1>1. /\ DOMAIN Append(list, x) = 1..n /\ DOMAIN list = 1..Len(list) /\ Len(list) \in Nat
      /\ \A i \in 1..Len(list) : Append(list, x)[i] = list[i]
      /\ Append(list, x)[n] = x
  OBVIOUS
<1>2. n \in 1..n /\ n \notin 1..Len(list) /\ \A i \in 1..n : i \in 1..Len(list) \/ i = n
  BY <1>1
<1>3. \A i \in DOMAIN list : i \in DOMAIN Append(list, x)
  BY <1>1
<1> HIDE DEF n
<1> QED BY <1>1, <1>2, <1>3

------------------------------------------------------------------------------
(* The patches of clients *)

(* But for clients that an entry outlived, a client has one entry at most, *)
(* which the project knows of; the patches to keep are in the LASH client  *)
(* or in the backup of the entry.                                          *)
OneEntry ==
  \A i, j \in DOMAIN clients :
    clients[i].id = clients[j].id => i = j \/ clients[i].id \in rebound
EntryIsNamed ==
  \A i \in DOMAIN clients :
    \/ clients[i].id \in rebound \/ lash[clients[i].id].state = "gone"
    \/ lash[clients[i].id].jack_client_name
HasPatch(c, p) ==
  p \in lash[c].jack_patches \/ \E i \in DOMAIN clients : clients[i].id = c /\ p \in clients[i].backup_patches
PatchIsKept ==
  \A c \in Client \ rebound : lash[c].state # "gone" => \A p \in kept[c] : HasPatch(c, p)

EntryInv == OneEntry /\ EntryIsNamed /\ PatchIsKept

LEMMA EntriesStay ==
  ASSUME TypeInv, EntryInv, DOMAIN clients' = DOMAIN clients,
         \A i \in DOMAIN clients : clients'[i].id = clients[i].id
                                   /\ clients'[i].backup_patches = clients[i].backup_patches,
         \A c \in Client : /\ lash'[c].jack_patches = lash[c].jack_patches
                           /\ lash'[c].jack_client_name = lash[c].jack_client_name
                           /\ lash'[c].state # "gone" => lash[c].state # "gone",
         UNCHANGED <<kept, rebound>>
  PROVE  EntryInv'
<1>1. \A i \in DOMAIN clients : clients[i].id \in Client
  BY EntriesAreClients DEF TypeInv, LashdTypes, KnownEntry
<1>2. OneEntry'
  BY DEF EntryInv, OneEntry
<1>3. EntryIsNamed'
  BY <1>1 DEF EntryInv, EntryIsNamed
<1>4. PatchIsKept'
  BY DEF EntryInv, PatchIsKept, HasPatch
<1> QED BY <1>2, <1>3, <1>4 DEF EntryInv

LEMMA EntryIsBound ==
  ASSUME TypeInv, EntryInv, NEW e \in UnknownEntry, NEW c \in Client, NEW u, NEW l \in [Client -> LashClient],
         NEW id, NEW left, Binding(e, c, u, l, id, left),
         lash[c].state # "gone",
         \A d \in Client : /\ l[d].jack_patches = lash[d].jack_patches
                           /\ l[d].jack_client_name = lash[d].jack_client_name
                           /\ l[d].state # "gone" => lash[d].state # "gone"
  PROVE  EntryInv'
<1> DEFINE x == BoundEntry(e, c, id, left, l[c].jack_patches)
<1>0. clients \in Seq(KnownEntry) /\ rebound \subseteq Client /\ lash \in [Client -> LashClient]
  BY DEF TypeInv, LashdTypes
<1>1. /\ clients' = Append(clients, x)
      /\ lash' = [l EXCEPT ![c].jack_patches = {}, ![c].jack_client_name = TRUE]
      /\ rebound' = rebound \union ({c} \intersect Outlived)
      /\ kept' = kept
  BY DEF Binding
<1>2. x.id = c /\ x.backup_patches = lash[c].jack_patches
  BY DEF BoundEntry
<1>3. /\ \A i \in DOMAIN clients : clients[i].id \in Client
      /\ \A i \in DOMAIN clients : clients[i].id \in Outlived
  BY <1>0, EntriesAreClients DEF KnownEntry
<1>4. /\ lash'[c].jack_client_name
      /\ \A d \in Client : d # c => /\ lash'[d].jack_patches = lash[d].jack_patches
                                    /\ lash'[d].jack_client_name = lash[d].jack_client_name
                                    /\ lash'[d].state # "gone" => lash[d].state # "gone"
  BY <1>1
<1> HIDE DEF x
<1>5. PICK n \in DOMAIN clients' :
        /\ n \notin DOMAIN clients /\ clients'[n] = x
        /\ \A i \in DOMAIN clients' : i \in DOMAIN clients \/ i = n
  BY <1>0, <1>1, AppendedEntry
<1>6. \A i \in DOMAIN clients : i \in DOMAIN clients' /\ clients'[i] = clients[i]
  BY <1>0, <1>1, AppendedEntry
<1>7. \A i \in DOMAIN clients : clients[i].id = c => c \in rebound'
  BY <1>1, <1>3
<1>8. rebound \subseteq rebound'
  BY <1>1
<1>9. OneEntry'
  <2> SUFFICES ASSUME NEW i \in DOMAIN clients', NEW j \in DOMAIN clients', clients'[i].id = clients'[j].id
               PROVE  i = j \/ clients'[i].id \in rebound'
    BY DEF OneEntry
  <2>1. CASE i \in DOMAIN clients /\ j \in DOMAIN clients
    BY <1>6, <1>8, <2>1 DEF EntryInv, OneEntry
  <2>2. CASE i = n /\ j \in DOMAIN clients
    BY <1>2, <1>5, <1>6, <1>7, <2>2
  <2>3. CASE i \in DOMAIN clients /\ j = n
    BY <1>2, <1>5, <1>6, <1>7, <2>3
  <2> QED BY <1>5, <2>1, <2>2, <2>3
<1>10. EntryIsNamed'
  <2> SUFFICES ASSUME NEW i \in DOMAIN clients'
               PROVE  clients'[i].id \in rebound' \/ lash'[clients'[i].id].state = "gone"
                      \/ lash'[clients'[i].id].jack_client_name
    BY DEF EntryIsNamed
  <2>1. CASE clients'[i].id = c
    BY <1>4, <2>1
  <2>2. CASE i \in DOMAIN clients /\ clients'[i].id # c
    BY <1>3, <1>4, <1>6, <1>8, <2>2 DEF EntryInv, EntryIsNamed
  <2> QED BY <1>2, <1>5, <2>1, <2>2
<1>11. PatchIsKept'
  <2> SUFFICES ASSUME NEW d \in Client, d \notin rebound', lash'[d].state # "gone", NEW p \in kept'[d]
               PROVE  HasPatch(d, p)'
    BY DEF PatchIsKept
  <2>1. lash[d].state # "gone"
    BY <1>4
  <2>2. HasPatch(d, p)
    BY <1>1, <1>8, <2>1 DEF EntryInv, PatchIsKept
  <2>3. CASE p \in lash[d].jack_patches
    BY <1>2, <1>4, <1>5, <2>3 DEF HasPatch
  <2>4. CASE \E i \in DOMAIN clients : clients[i].id = d /\ p \in clients[i].backup_patches
    BY <1>6, <2>4 DEF HasPatch
  <2> QED BY <2>2, <2>3, <2>4 DEF HasPatch
<1> QED BY <1>9, <1>10, <1>11 DEF EntryInv

LEMMA SomeEntriesStay ==
  ASSUME OneEntry, Subset(clients', clients, KnownEntry), rebound' = rebound
  PROVE  OneEntry' /\ \A i \in DOMAIN clients' : \E j \in DOMAIN clients : clients'[i] = clients[j]
<1>1. PICK from \in [DOMAIN clients' -> DOMAIN clients] :
        /\ \A i \in DOMAIN clients' : clients'[i] = clients[from[i]]
        /\ \A i, j \in DOMAIN clients' : from[i] = from[j] => i = j
  BY DEF Subset
<1>2. \A i \in DOMAIN clients' : from[i] \in DOMAIN clients
  BY <1>1
<1>3. OneEntry'
  BY <1>1, <1>2 DEF OneEntry
<1> QED BY <1>1, <1>2, <1>3

LEMMA EntryIsLost ==
  ASSUME TypeInv, EntryInv, NEW c \in Client, Disconnect(c)
  PROVE  EntryInv'
<1> DEFINE i == IF lash[c].jack_client_name THEN FindById(clients, c) ELSE 0
           backup == IF i = 0 THEN {} ELSE clients[i].backup_patches
<1>0. clients \in Seq(KnownEntry) /\ lash \in [Client -> LashClient]
  BY DEF TypeInv, LashdTypes
<1>1. /\ clients' = IF i = 0 THEN clients ELSE RemoveAt(clients, i)
      /\ lash' = [lash EXCEPT ![c].state = "lost", ![c].pid = None,
                              ![c].jack_patches = lash[c].jack_patches \union backup]
      /\ kept' = kept /\ rebound' = rebound /\ lash[c].state = "running"
  BY <1>0 DEF Disconnect, historyVars, Running
<1>2. /\ i \in {0} \union DOMAIN clients
      /\ i # 0 => clients[i].id = c
      /\ i = 0 => ~lash[c].jack_client_name \/ \A j \in DOMAIN clients : clients[j].id # c
  BY <1>0, FoundById
<1>3. /\ lash'[c].jack_patches = lash[c].jack_patches \union backup
      /\ \A d \in Client : /\ lash'[d].jack_client_name = lash[d].jack_client_name
                           /\ lash'[d].state # "gone" => lash[d].state # "gone"
                           /\ lash'[d].state = "gone" <=> lash[d].state = "gone"
                           /\ d # c => lash'[d].jack_patches = lash[d].jack_patches
  BY <1>0, <1>1
<1>8. \A d \in Client : /\ lash[d].jack_client_name => lash'[d].jack_client_name
                        /\ lash[d].state = "gone" => lash'[d].state = "gone"
  BY <1>0, <1>1, <1>3 DEF LashClient
<1>9. \A k \in DOMAIN clients : clients[k].id \in Client
  BY <1>0, EntriesAreClients DEF KnownEntry
<1>10. /\ rebound' = rebound /\ kept' = kept
       /\ clients' = IF i = 0 THEN clients ELSE RemoveAt(clients, i)
  BY <1>1
<1> DEFINE StillNamed(d) == d \in rebound' \/ lash'[d].state = "gone" \/ lash'[d].jack_client_name
<1>11. ASSUME NEW k \in DOMAIN clients PROVE StillNamed(clients[k].id)
  <2>1. clients[k].id \in rebound \/ lash[clients[k].id].state = "gone"
        \/ lash[clients[k].id].jack_client_name
    BY <1>11 DEF EntryInv, EntryIsNamed
  <2>2. clients[k].id \in Client
    BY <1>9, <1>11
  <2>3. CASE clients[k].id \in rebound
    BY <1>10, <2>3
  <2>4. CASE lash[clients[k].id].state = "gone"
    BY <1>8, <2>2, <2>4
  <2>5. CASE lash[clients[k].id].jack_client_name
    BY <1>8, <2>2, <2>5
  <2> QED BY <2>1, <2>3, <2>4, <2>5
<1> HIDE DEF StillNamed
<1>4. i # 0 => backup = clients[i].backup_patches
  OBVIOUS
<1> HIDE DEF i, backup
<1>5. CASE i = 0
  <2>1. clients' = clients
    BY <1>10, <1>5
  <2>2. OneEntry'
    BY <1>10, <2>1 DEF EntryInv, OneEntry
  <2>4. EntryIsNamed'
    BY <1>11, <2>1 DEF EntryIsNamed, StillNamed
  <2>3. PatchIsKept'
    BY <1>3, <1>10, <2>1 DEF EntryInv, PatchIsKept, HasPatch
  <2> QED BY <2>2, <2>3, <2>4 DEF EntryInv
<1>6. CASE i # 0
  <2>1. /\ Subset(clients', clients, KnownEntry)
        /\ \A j \in DOMAIN clients : j # i => \E k \in DOMAIN clients' : clients'[k] = clients[j]
    BY <1>0, <1>1, <1>2, <1>6, OneRemoved
  <2>2. OneEntry' /\ \A j \in DOMAIN clients' : \E k \in DOMAIN clients : clients'[j] = clients[k]
    BY <1>1, <2>1, SomeEntriesStay DEF EntryInv
  <2>3. EntryIsNamed'
    <3> SUFFICES ASSUME NEW k \in DOMAIN clients'
                 PROVE  clients'[k].id \in rebound' \/ lash'[clients'[k].id].state = "gone"
                        \/ lash'[clients'[k].id].jack_client_name
      BY DEF EntryIsNamed
    <3>1. PICK j \in DOMAIN clients : clients'[k] = clients[j]
      BY <2>2
    <3>2. StillNamed(clients[j].id)
      BY <1>11
    <3> QED BY <3>1, <3>2 DEF StillNamed
  <2>4. PatchIsKept'
    <3> SUFFICES ASSUME NEW d \in Client, d \notin rebound', lash'[d].state # "gone", NEW p \in kept'[d]
                 PROVE  HasPatch(d, p)'
      BY DEF PatchIsKept
    <3>1. HasPatch(d, p) /\ d \notin rebound
      BY <1>1, <1>3 DEF EntryInv, PatchIsKept
    <3>2. CASE p \in lash[d].jack_patches
      BY <1>3, <3>2 DEF HasPatch
    <3>3. CASE \E j \in DOMAIN clients : clients[j].id = d /\ p \in clients[j].backup_patches
      <4>1. PICK j \in DOMAIN clients : clients[j].id = d /\ p \in clients[j].backup_patches
        BY <3>3
      <4>2. CASE j = i
        BY <1>2, <1>3, <1>4, <1>6, <4>1, <4>2 DEF HasPatch
      <4>3. CASE j # i
        BY <2>1, <4>1, <4>3 DEF HasPatch
      <4> QED BY <4>2, <4>3
    <3> QED BY <3>1, <3>2, <3>3 DEF HasPatch
  <2> QED BY <2>2, <2>3, <2>4 DEF EntryInv
<1> QED BY <1>5, <1>6

LEMMA EntriesAreSaved ==
  ASSUME TypeInv, EntryInv, NEW g, g = NoGraph \/ g \in Graph, SaveCompletes(g), rebound' = rebound,
         \A c \in Client : /\ lash'[c].jack_patches = lash[c].jack_patches
                           /\ lash'[c].jack_client_name = lash[c].jack_client_name
                           /\ lash'[c].state # "gone" => lash[c].state # "gone"
  PROVE  EntryInv'
<1>0. clients \in Seq(KnownEntry) /\ kept \in [Client -> SUBSET Patch]
  BY DEF TypeInv, LashdTypes
<1>1. /\ kept' = [c \in Client |-> IF c \in Running /\ HasPatches(c, g) THEN SavedOf(c, g) ELSE kept[c]]
      /\ DOMAIN clients' = DOMAIN clients
      /\ \A i \in DOMAIN clients :
           clients'[i] = IF IsRenewed(i, g)
                         THEN [clients[i] EXCEPT !.backup_patches = SavedOf(clients[i].id, g)]
                         ELSE clients[i]
  BY <1>0, SaveCompletesDoes
<1>2. \A i \in DOMAIN clients : clients[i] \in KnownEntry /\ clients[i].id \in Client
  BY <1>0, EntriesAreClients DEF KnownEntry
<1>3. \A i \in DOMAIN clients :
        /\ clients'[i].id = clients[i].id
        /\ IsRenewed(i, g) => clients'[i].backup_patches = SavedOf(clients[i].id, g)
        /\ ~IsRenewed(i, g) => clients'[i] = clients[i]
  BY <1>1, <1>2 DEF KnownEntry
<1>4. OneEntry'
  BY <1>1, <1>3 DEF EntryInv, OneEntry
<1>5. EntryIsNamed'
  BY <1>1, <1>2, <1>3 DEF EntryInv, EntryIsNamed
<1>6. PatchIsKept'
  <2> SUFFICES ASSUME NEW c \in Client, c \notin rebound', lash'[c].state # "gone", NEW p \in kept'[c]
               PROVE  HasPatch(c, p)'
    BY DEF PatchIsKept
  <2>1. CASE c \in Running /\ HasPatches(c, g)
    <3>1. p \in SavedOf(c, g)
      BY <1>1, <2>1
    <3>2. FindById(clients, c) \in DOMAIN clients /\ clients[FindById(clients, c)].id = c
      BY <1>0, <2>1, FoundById DEF HasPatches
    <3>3. IsRenewed(FindById(clients, c), g)
      BY <2>1, <3>2 DEF IsRenewed
    <3> QED BY <1>1, <1>3, <3>1, <3>2, <3>3 DEF HasPatch
  <2>2. CASE ~(c \in Running /\ HasPatches(c, g))
    <3>1. p \in kept[c]
      BY <1>1, <2>2
    <3>2. HasPatch(c, p)
      BY <3>1 DEF EntryInv, PatchIsKept
    <3>3. \A i \in DOMAIN clients : clients[i].id = c => ~IsRenewed(i, g)
      BY <2>2 DEF IsRenewed
    <3> QED BY <1>1, <1>3, <3>2, <3>3 DEF HasPatch
  <2> QED BY <2>1, <2>2
<1> QED BY <1>4, <1>5, <1>6 DEF EntryInv

LEMMA EntriesOfProject ==
  ASSUME TypeInv, EntryInv, Close \/ Load
  PROVE  EntryInv'
<1>0. /\ clients \in Seq(KnownEntry) /\ lash \in [Client -> LashClient]
      /\ \A i \in DOMAIN clients : clients[i].id \in Client /\ clients[i].id \in Outlived
  BY EntriesAreClients DEF TypeInv, LashdTypes, KnownEntry
<1>1. CASE Close
  <2>1. /\ Subset(clients', clients, KnownEntry) /\ rebound' = rebound
        /\ \A c \in Client : lash'[c].state = "gone"
    BY <1>0, <1>1, SomeKept DEF Close, historyVars
  <2>2. OneEntry' /\ \A j \in DOMAIN clients' : \E k \in DOMAIN clients : clients'[j] = clients[k]
    BY <2>1, SomeEntriesStay DEF EntryInv
  <2>3. EntryIsNamed' /\ PatchIsKept'
    BY <1>0, <2>1, <2>2 DEF EntryIsNamed, PatchIsKept
  <2> QED BY <2>2, <2>3 DEF EntryInv
<1>2. CASE Load
  <2>1. /\ clients' = clients /\ rebound' = rebound \union Outlived
        /\ kept' = [c \in Client |-> IF doc[c] = NotSaved THEN {} ELSE doc[c]]
        /\ lash' = [c \in Client |-> IF doc[c] = NotSaved THEN lash[c]
                     ELSE [lash[c] EXCEPT !.state = "lost", !.jack_patches = doc[c]]]
    BY <1>2 DEF Load, mgrVars
  <2>2. OneEntry' /\ EntryIsNamed'
    BY <1>0, <2>1 DEF EntryInv, OneEntry, EntryIsNamed
  <2>3. \A c \in Client : doc[c] # NotSaved => lash'[c].jack_patches = doc[c]
    BY <1>0, <2>1 DEF LashClient
  <2>4. PatchIsKept'
    BY <2>1, <2>3 DEF PatchIsKept, HasPatch
  <2> QED BY <2>2, <2>4 DEF EntryInv
<1> QED BY <1>1, <1>2

LEMMA EntriesHold == Spec => [](TypeInv /\ EntryInv)
<1>1. ASSUME Init PROVE EntryInv
  <2>1. /\ clients = <<>> /\ kept = [c \in Client |-> lash[c].jack_patches]
    BY <1>1 DEF Init
  <2>2. DOMAIN clients = {}
    BY <2>1
  <2> QED BY <2>1, <2>2 DEF EntryInv, OneEntry, EntryIsNamed, PatchIsKept, HasPatch
<1>2. ASSUME TypeInv, EntryInv, [Next]_vars PROVE EntryInv'
  <2> DEFINE Same ==
        /\ DOMAIN clients' = DOMAIN clients
        /\ \A i \in DOMAIN clients : clients'[i].id = clients[i].id
                                     /\ clients'[i].backup_patches = clients[i].backup_patches
        /\ \A c \in Client : /\ lash'[c].jack_patches = lash[c].jack_patches
                             /\ lash'[c].jack_client_name = lash[c].jack_client_name
                             /\ lash'[c].state # "gone" => lash[c].state # "gone"
        /\ UNCHANGED <<kept, rebound>>
  <2>0. /\ clients \in Seq(KnownEntry) /\ lash \in [Client -> LashClient]
        /\ \A i \in DOMAIN clients : clients[i] \in KnownEntry
        /\ graph = NoGraph \/ graph \in Graph
    BY <1>2, EntriesAreClients DEF TypeInv, LashdTypes
  <2>s. Same => EntryInv'
    BY <1>2, EntriesStay
  <2>1. ASSUME UNCHANGED <<clients, lash, kept, rebound>> PROVE Same
    BY <2>1
  <2> USE DEF mgrVars, projectVars, historyVars
  <2>2. CASE Environment
    BY <2>1, <2>2, <2>s, LashdUntouched
  <2>3. CASE UNCHANGED vars
    BY <2>1, <2>3, <2>s DEF vars
  <2>4. CASE Lashd
    <3>1. ASSUME NEW c \in Client, NEW id, NEW left, AppearedBinds(c, id, left) PROVE EntryInv'
      BY <1>2, <2>0, <3>1, EntryIsBound, OwnersAreClients DEF AppearedBinds
    <3>2. CASE AppearedOnly
      BY <2>1, <2>s, <3>2 DEF AppearedOnly
    <3>3. CASE ClientDisappeared(Head(signals))
      BY <2>1, <2>s, <3>3 DEF ClientDisappeared
    <3>4. CASE PortAppeared(Head(signals))
      BY <2>1, <2>s, <3>4 DEF PortAppeared
    <3>5. CASE PortsConnected(Head(signals).link)
      <4> DEFINE l == Head(signals).link
      <4>1. /\ clients' = [i \in DOMAIN clients |-> IF i \in Concerned(l)
                  THEN [clients[i] EXCEPT !.old_patches = OldPatchesLeft(clients, clients[i], {l})]
                  ELSE clients[i]]
            /\ UNCHANGED <<lash, kept, rebound>>
        BY <3>5 DEF PortsConnected
      <4> HIDE DEF l
      <4>2. /\ DOMAIN clients' = DOMAIN clients
            /\ \A i \in DOMAIN clients : clients'[i].id = clients[i].id
                                         /\ clients'[i].backup_patches = clients[i].backup_patches
        BY <2>0, <4>1 DEF KnownEntry
      <4>3. Same
        BY <4>1, <4>2
      <4> QED BY <2>s, <4>3
    <3>6. CASE PortsDisconnected(Head(signals).link)
      BY <2>1, <2>s, <3>6 DEF PortsDisconnected
    <3>7. CASE ServerStarted
      BY <2>1, <2>s, <3>7 DEF ServerStarted
    <3>8. CASE ServerStopped
      BY <2>1, <2>s, <3>8 DEF ServerStopped
    <3>9. ASSUME NEW c \in Client, NEW i, NEW id, NEW left, ConnectBinds(c, i, id, left) PROVE EntryInv'
      <4>1. Connected(c) \in [Client -> LashClient]
        BY <1>2, <2>0 DEF Connected, LashClient, TypeInv, JackTypes
      <4>2. lash[c].state # "gone"
        BY <3>9 DEF ConnectBinds, Connects
      <4>3. \A d \in Client : /\ Connected(c)[d].jack_patches = lash[d].jack_patches
                              /\ Connected(c)[d].jack_client_name = lash[d].jack_client_name
                              /\ Connected(c)[d].state # "gone" => lash[d].state # "gone"
        BY <2>0, <4>2 DEF Connected, LashClient
      <4> QED BY <1>2, <3>9, <4>1, <4>2, <4>3, EntryIsBound DEF ConnectBinds
    <3>10. ASSUME NEW c \in Client, ConnectsOnly(c) \/ Launch(c) PROVE EntryInv'
      <4>1. /\ lash' = Connected(c) \/ lash' = [lash EXCEPT ![c].pid = process'[c]]
            /\ UNCHANGED <<clients, kept, rebound>>
            /\ lash[c].state # "gone"
        BY <3>10 DEF ConnectsOnly, Launch, Connects, Lost
      <4>2. \A d \in Client : /\ lash'[d].jack_patches = lash[d].jack_patches
                              /\ lash'[d].jack_client_name = lash[d].jack_client_name
                              /\ lash'[d].state # "gone" => lash[d].state # "gone"
        BY <2>0, <4>1 DEF Connected, LashClient
      <4>3. Same
        BY <4>1, <4>2
      <4> QED BY <2>s, <4>3
    <3>11. ASSUME NEW c \in Client, Disconnect(c) PROVE EntryInv'
      BY <1>2, <3>11, EntryIsLost
    <3>12. CASE Save \/ SaveEnds
      <4>1. \A d \in Client : /\ lash'[d].jack_patches = lash[d].jack_patches
                              /\ lash'[d].jack_client_name = lash[d].jack_client_name
                              /\ lash'[d].state # "gone" => lash[d].state # "gone"
        <5>1. CASE Save
          <6>1. lash' = [d \in Client |-> IF d \in Lost THEN [lash[d] EXCEPT !.state = "gone"] ELSE lash[d]]
            BY <5>1 DEF Save
          <6> QED BY <2>0, <6>1 DEF LashClient
        <5>2. CASE SaveEnds
          BY <5>2 DEF SaveEnds
        <5> QED BY <3>12, <5>1, <5>2
      <4>2. UNCHANGED rebound /\ (graph' = NoGraph \/ graph' \in Graph)
        BY <1>2, <2>0, <3>12, SnapshotType DEF Save, SaveEnds, TypeInv
      <4>3. SaveCompletes(graph') \/ SaveCompletes(graph) \/ UNCHANGED <<kept, clients>>
        BY <3>12 DEF Save, SaveEnds
      <4>4. ASSUME NEW g, SaveCompletes(g), g = NoGraph \/ g \in Graph PROVE EntryInv'
        BY <1>2, <4>1, <4>2, <4>4, EntriesAreSaved
      <4>5. CASE UNCHANGED <<kept, clients>>
        <5>1. Same
          BY <4>1, <4>2, <4>5
        <5> QED BY <2>s, <5>1
      <4> QED BY <2>0, <4>2, <4>3, <4>4, <4>5
    <3>13. CASE LoadEnds
      BY <2>1, <2>s, <3>13 DEF LoadEnds
    <3>14. CASE Close \/ Load
      BY <1>2, <3>14, EntriesOfProject
    <3> HIDE DEF Same
    <3> QED BY <1>2, <2>4, <3>1, <3>2, <3>3, <3>4, <3>5, <3>6, <3>7, <3>8, <3>9, <3>10, <3>11,
               <3>12, <3>13, <3>14, LashdDoes
  <2> HIDE DEF Same
  <2> QED BY <1>2, <2>2, <2>3, <2>4 DEF Next
<1> QED BY <1>1, <1>2, TypesHold, PTL DEF Spec

(* project_lose_client, lashd_jackdbus_mgr_bind_client, a save and a load:  *)
(* the patches with which a client was loaded or last saved are in the     *)
(* LASH client or in the backup of its entry.                              *)
THEOREM PatchesStayKept == Spec => []PatchesAreKept
<1>1. ASSUME TypeInv, EntryInv PROVE PatchesAreKept
  <2> SUFFICES ASSUME NEW c \in (Running \union Lost) \ rebound, NEW p \in kept[c]
               PROVE  p \in lash[c].jack_patches \union
                        (IF FindById(clients, c) = 0 THEN {}
                         ELSE clients[FindById(clients, c)].backup_patches)
    BY DEF PatchesAreKept
  <2>1. c \in Client /\ lash[c].state # "gone"
    BY DEF Running, Lost
  <2>2. HasPatch(c, p)
    BY <1>1, <2>1 DEF EntryInv, PatchIsKept
  <2>3. CASE \E i \in DOMAIN clients : clients[i].id = c /\ p \in clients[i].backup_patches
    <3>1. PICK i \in DOMAIN clients : clients[i].id = c /\ p \in clients[i].backup_patches
      BY <2>3
    <3>2. /\ FindById(clients, c) \in DOMAIN clients /\ FindById(clients, c) # 0
          /\ clients[FindById(clients, c)].id = c
      BY <1>1, <3>1, FoundById DEF TypeInv, LashdTypes
    <3>3. FindById(clients, c) = i
      BY <1>1, <3>1, <3>2 DEF EntryInv, OneEntry
    <3> QED BY <3>1, <3>2, <3>3
  <2> QED BY <2>2, <2>3 DEF HasPatch
<1> QED BY <1>1, EntriesHold, PTL

------------------------------------------------------------------------------
(* The queue of signals *)

Queued(q, s) == \E i \in DOMAIN q : q[i] = s
(* Every s in the queue has a t behind it.                                 *)
Follows(q, s, t) == \A i \in DOMAIN q : q[i] = s => \E j \in DOMAIN q : i < j /\ q[j] = t

LEMMA QueueGrows ==
  ASSUME NEW S, NEW q \in Seq(S), NEW x \in S
  PROVE  /\ Queued(Append(q, x), x)
         /\ \A s : Queued(q, s) => Queued(Append(q, x), s)
         /\ \A s : Queued(Append(q, x), s) => Queued(q, s) \/ s = x
         /\ \A s, t : Follows(q, s, t) /\ x # s => Follows(Append(q, x), s, t)
         /\ \A s : s # x => Follows(Append(q, x), s, x)
<1> DEFINE a == Append(q, x)
           n == Len(q) + 1
<1>1. /\ DOMAIN a = 1..n /\ DOMAIN q = 1..Len(q) /\ Len(q) \in Nat /\ n = Len(q) + 1
      /\ \A i \in 1..Len(q) : a[i] = q[i]
      /\ a[n] = x
  OBVIOUS
<1>2. /\ n \in 1..n /\ \A i \in 1..n : i \in 1..Len(q) \/ i = n
      /\ \A i \in 1..Len(q) : i \in 1..n /\ i < n
  BY <1>1
<1> HIDE DEF a, n
<1>3. /\ Queued(a, x)
      /\ \A s : Queued(q, s) => Queued(a, s)
      /\ \A s : Queued(a, s) => Queued(q, s) \/ s = x
  BY <1>1, <1>2 DEF Queued
<1>4. ASSUME NEW s, NEW t, Follows(q, s, t), x # s PROVE Follows(a, s, t)
  <2> SUFFICES ASSUME NEW i \in DOMAIN a, a[i] = s PROVE \E j \in DOMAIN a : i < j /\ a[j] = t
    BY DEF Follows
  <2>1. i \in DOMAIN q /\ q[i] = s
    BY <1>1, <1>2, <1>4
  <2>2. PICK j \in DOMAIN q : i < j /\ q[j] = t
    BY <1>4, <2>1 DEF Follows
  <2> QED BY <1>1, <1>2, <2>2
<1>5. ASSUME NEW s, s # x PROVE Follows(a, s, x)
  <2> SUFFICES ASSUME NEW i \in DOMAIN a, a[i] = s PROVE \E j \in DOMAIN a : i < j /\ a[j] = x
    BY DEF Follows
  <2>1. i \in 1..Len(q)
    BY <1>1, <1>2, <1>5
  <2> QED BY <1>1, <1>2, <2>1
<1> QED BY <1>3, <1>4, <1>5 DEF a

LEMMA QueueShrinks ==
  ASSUME NEW S, NEW q \in Seq(S), q # <<>>
  PROVE  /\ Queued(q, Head(q))
         /\ \A s : Queued(q, s) => Head(q) = s \/ Queued(Tail(q), s)
         /\ \A s : Queued(Tail(q), s) => Queued(q, s)
         /\ \A s, t : Follows(q, s, t) => Follows(Tail(q), s, t)
         /\ \A s, t : Follows(q, s, t) /\ Head(q) = s => Queued(Tail(q), t)
<1> DEFINE r == Tail(q)
<1>1. /\ Len(q) \in Nat /\ Len(q) > 0 /\ DOMAIN q = 1..Len(q) /\ Head(q) = q[1]
      /\ DOMAIN r = 1..Len(q) - 1
      /\ \A i \in 1..Len(q) - 1 : r[i] = q[i + 1]
  OBVIOUS
<1> HIDE DEF r
<1>2. /\ 1 \in DOMAIN q /\ \A i \in DOMAIN r : i + 1 \in DOMAIN q /\ r[i] = q[i + 1] /\ 1 < i + 1
      /\ \A i \in DOMAIN q : i # 1 => i - 1 \in DOMAIN r /\ r[i - 1] = q[i]
      /\ \A i, j \in DOMAIN q : i < j => j # 1
  BY <1>1
<1>3. Queued(q, Head(q))
  BY <1>1, <1>2 DEF Queued
<1>4. ASSUME NEW s, Queued(q, s) PROVE Head(q) = s \/ Queued(r, s)
  BY <1>1, <1>2, <1>4 DEF Queued
<1>5. ASSUME NEW s, Queued(r, s) PROVE Queued(q, s)
  BY <1>2, <1>5 DEF Queued
<1>6. ASSUME NEW s, NEW t, Follows(q, s, t) PROVE Follows(r, s, t)
  <2> SUFFICES ASSUME NEW i \in DOMAIN r, r[i] = s PROVE \E j \in DOMAIN r : i < j /\ r[j] = t
    BY DEF Follows
  <2>1. i + 1 \in DOMAIN q /\ q[i + 1] = s
    BY <1>2
  <2>2. PICK j \in DOMAIN q : i + 1 < j /\ q[j] = t
    BY <1>6, <2>1 DEF Follows
  <2>3. j - 1 \in DOMAIN r /\ r[j - 1] = t
    BY <1>2, <2>1, <2>2
  <2>4. i < j - 1
    BY <1>1, <2>2
  <2> QED BY <2>3, <2>4
<1>7. ASSUME NEW s, NEW t, Follows(q, s, t), Head(q) = s PROVE Queued(r, t)
  <2>1. PICK j \in DOMAIN q : 1 < j /\ q[j] = t
    BY <1>1, <1>2, <1>7 DEF Follows
  <2> QED BY <1>2, <2>1 DEF Queued
<1> QED BY <1>3, <1>4, <1>5, <1>6, <1>7 DEF r

------------------------------------------------------------------------------
(* Numbers *)

Appeared(n) == [kind |-> "appeared", name |-> n, id |-> jack[n].id]

(* JACK clients and processes are numbered by name; what lashd knows has   *)
(* numbers that were given.                                                *)
Given(id, n) == id[1] = n /\ id[2] < opened[n]

JackNumbers ==
  \A n \in Name : jack[n].id # None =>
    /\ jack_up /\ Given(jack[n].id, n)
    /\ jack[n].pid \in Name \X Nat /\ jack[n].pid[1] = n
    /\ n \in Client => jack[n].pid[2] < started[n]
ProcessNumbers ==
  \A c \in Client : process[c] # None => process[c][1] = c /\ process[c][2] + 1 = started[c]
WiresHavePorts == \A w \in wires : jack[w[1]].port /\ jack[w[2]].port
SignalNumbers ==
  \A i \in DOMAIN signals :
    signals[i].kind \in {"appeared", "disappeared", "port"} =>
      /\ Given(signals[i].id, signals[i].name)
      /\ signals[i].kind = "disappeared" => signals[i].id # jack[signals[i].name].id
(* A JACK client that is there came after each stop that lashd has yet to  *)
(* hear of, and so did the signal of it.                                   *)
StopsAreFirst ==
  \A n \in Name : jack[n].id # None => Follows(signals, ServerSignal("stopped"), Appeared(n))
(* A wire was made after its ends appeared and after the last stop.        *)
WireMade(w) == LinkSignal("connected", w)
WiresAreNew ==
  \A w \in wires :
    /\ \A n \in {w[1], w[2]} : Follows(signals, Appeared(n), WireMade(w))
    /\ Follows(signals, ServerSignal("stopped"), WireMade(w))

WorldInv ==
  /\ JackNumbers /\ ProcessNumbers /\ WiresHavePorts
  /\ SignalNumbers /\ StopsAreFirst /\ WiresAreNew

(* The patches of a client are patches of its connections.                 *)
OfClient(patches, c) == \A p \in patches : ById(c) \in {p.src, p.dest}

(* An unknown client's process is no younger than that of the JACK client  *)
(* that has the name now.                                                  *)
GoodUnknown(e) ==
  /\ e.pid[1] = e.name /\ Given(e.jackdbus_id, e.name)
  /\ e.name \in Client => /\ e.pid[2] < started[e.name]
                          /\ jack[e.name].id # None => e.pid[2] <= jack[e.name].pid[2]
GoodKnown(e) ==
  /\ e.name = e.id /\ (e.jackdbus_id # None => Given(e.jackdbus_id, e.id))
  /\ lash[e.id].state # "none" /\ e.id \in owned
  /\ OfClient(e.old_patches, e.id) /\ OfClient(e.backup_patches, e.id)
GoodLash(c) ==
  /\ lash[c].pid # None => lash[c].pid[1] = c /\ lash[c].pid[2] < started[c]
  /\ lash[c].state = "none" => doc[c] = NotSaved
  /\ OfClient(lash[c].jack_patches, c) /\ (doc[c] = NotSaved \/ OfClient(doc[c], c))
  /\ ~loaded => lash[c].state = "gone" /\ lash[c].pid = None
GoodGraph(g) == g # NoGraph => \A n \in Name : g.ids[n] # None => Given(g.ids[n], n)

ListInv ==
  /\ \A i \in DOMAIN unknown_clients : GoodUnknown(unknown_clients[i])
  /\ \A i \in DOMAIN clients : GoodKnown(clients[i])
  /\ \A c \in Client : GoodLash(c)
  /\ GoodGraph(graph)
NumberInv == WorldInv /\ ListInv

(* A JACK client of a LASH client's process is bound, or known, or its     *)
(* signal is still to come.                                                *)
InUnknown(c) ==
  \E i \in DOMAIN unknown_clients :
    unknown_clients[i].jackdbus_id = jack[c].id /\ unknown_clients[i].pid = jack[c].pid
BoundInv ==
  \A c \in Client : jack[c].id # None =>
    /\ lash[c].state \in {"running", "lost"} /\ lash[c].pid = jack[c].pid =>
         Bound(c) # {} \/ Queued(signals, Appeared(c))
    /\ lash[c].state = "none" /\ process[c] = jack[c].pid =>
         InUnknown(c) \/ Queued(signals, Appeared(c))

(* While the project is not marked, a wire that is not in the document has *)
(* still to be heard of; during a save it is in the graph or has.          *)
InGraph(w) ==
  /\ graph # NoGraph /\ w \in graph.wires
  /\ graph.ids[w[1]] = jack[w[1]].id /\ graph.ids[w[2]] = jack[w[2]].id
MarkInv ==
  loaded /\ ~missed =>
    \A c \in (Running \union Lost) \ rebound : Bound(c) # {} => \A w \in WiresOf(c) :
      /\ task = "load" \/ (task = "none" /\ ~modified) =>
           doc[c] = NotSaved \/ w \in WiresIn(doc[c]) \/ Queued(signals, WireMade(w))
      /\ task = "save" => InGraph(w) \/ Queued(signals, WireMade(w))

(* A patch that could be a wire has been asked for, or the signal of a     *)
(* port of it, or of the wire itself, is still to come.                    *)
WireOf(p) == <<p.src.of, p.dest.of>>
PortSignal(n) == ClientSignal("port", n)
ArmedInv ==
  \A p \in Patch : Waits(p, p.src) /\ Waits(p, p.dest) /\ "id" \in {p.src.kind, p.dest.kind} =>
    /\ \/ WireOf(p) \in calls
       \/ Queued(signals, WireMade(WireOf(p)))
       \/ Queued(signals, PortSignal(p.src.of)) \/ Queued(signals, PortSignal(p.dest.of))
    /\ WireOf(p) \in wires => Queued(signals, WireMade(WireOf(p)))

------------------------------------------------------------------------------
(* The steps of the environment, sorted by what they do to JACK            *)

Emits(x) == x \in Signal /\ signals' = Append(signals, x)

Starts == jack_up' = TRUE /\ Emits(ServerSignal("started")) /\ UNCHANGED <<jack, wires, opened, process, started, calls>>
Stops ==
  /\ \A n \in Name : jack'[n] = NotThere
  /\ wires' = {} /\ calls' = {}
  /\ Emits(ServerSignal("stopped")) \/ UNCHANGED signals
  /\ UNCHANGED <<opened, process, started>>
Opens(n) ==
  /\ jack_up /\ jack_up' = jack_up /\ jack[n].id = None
  /\ jack'[n].id = <<n, opened[n]>> /\ ~jack'[n].port
  /\ jack'[n].pid = IF n \in Client THEN process[n] ELSE <<n, 0>>
  /\ n \in Client => process[n] # None
  /\ \A m \in Name : m # n => jack'[m] = jack[m]
  /\ Emits([kind |-> "appeared", name |-> n, id |-> <<n, opened[n]>>])
  /\ opened' = [opened EXCEPT ![n] = @ + 1]
  /\ UNCHANGED <<wires, process, started, calls>>
OpensPort(n) ==
  /\ jack[n].id # None /\ ~jack[n].port
  /\ jack'[n].port /\ Emits(PortSignal(n))
  /\ \A m \in Name : /\ jack'[m].id = jack[m].id /\ jack'[m].pid = jack[m].pid
                     /\ m # n => jack'[m] = jack[m]
  /\ UNCHANGED <<jack_up, wires, opened, process, started, calls>>
Closes(n) ==
  /\ jack[n].id # None /\ jack'[n] = NotThere /\ \A w \in wires : n # w[1] /\ n # w[2]
  /\ \A m \in Name : m # n => jack'[m] = jack[m]
  /\ Emits(ClientSignal("disappeared", n))
  /\ UNCHANGED <<jack_up, wires, opened, process, started, calls>>
Wires(w) ==
  /\ jack[w[1]].port /\ jack[w[2]].port /\ wires' = wires \union {w} /\ Emits(WireMade(w))
  /\ calls' \subseteq calls /\ calls \ {w} \subseteq calls'
  /\ UNCHANGED <<jack_up, jack, opened, process, started>>
Refuses(w) ==
  /\ ~MayConnect(w) /\ calls' = calls \ {w}
  /\ UNCHANGED <<jack_up, jack, wires, opened, process, started, signals>>
Unwires(w) ==
  /\ wires' = wires \ {w} /\ Emits(LinkSignal("disconnected", w))
  /\ UNCHANGED <<jack_up, jack, opened, process, started, calls>>
Forks(c) ==
  /\ process' = [process EXCEPT ![c] = <<c, started[c]>>]
  /\ started' = [started EXCEPT ![c] = @ + 1]
  /\ UNCHANGED <<jack_up, jack, wires, opened, signals, calls>>
Ends(c) ==
  /\ process' = [process EXCEPT ![c] = None]
  /\ UNCHANGED <<jack_up, jack, wires, opened, started, signals, calls>>

LEMMA EnvironmentDoes ==
  ASSUME JackTypes, Environment
  PROVE  \/ Starts \/ Stops
         \/ \E n \in Name : Opens(n) \/ OpensPort(n) \/ Closes(n)
         \/ \E w \in Name \X Name : Wires(w) \/ Refuses(w) \/ Unwires(w)
         \/ \E c \in Client : Forks(c) \/ Ends(c)
<1> USE DEF jackVars, processVars
<1>0. /\ jack \in [Name -> JackClient] /\ process \in [Client -> Id] /\ started \in [Client -> Nat]
      /\ signals \in Seq(Signal) /\ calls \subseteq Name \X Name /\ opened \in [Name -> Nat]
  BY DEF JackTypes
<1>1. CASE JackStart
  BY <1>0, <1>1, Emitted, SignalTypes DEF JackStart, Starts, Emits
<1>2. CASE JackStop
  <2>1. Emits(ServerSignal("stopped")) \/ UNCHANGED signals
    <3>1. CASE Emit(<<ServerSignal("stopped")>>)
      BY <1>0, <3>1, Emitted, SignalTypes DEF Emits
    <3> QED BY <1>2, <3>1 DEF JackStop
  <2> QED BY <1>2, <2>1 DEF JackStop, Stops
<1>3. ASSUME NEW n \in Name, JackOpen(n) PROVE Opens(n)
  <2> DEFINE id == <<n, opened[n]>>
             pid == IF n \in Client THEN process[n] ELSE <<n, 0>>
             new == [id |-> id, port |-> FALSE, pid |-> pid]
  <2>1. /\ jack_up /\ jack[n].id = None /\ (n \in Client => process[n] # None)
        /\ jack' = [jack EXCEPT ![n] = new]
        /\ Emit(<<[kind |-> "appeared", name |-> n, id |-> id]>>)
        /\ opened' = [opened EXCEPT ![n] = @ + 1]
        /\ UNCHANGED <<jack_up, wires, process, started, calls>>
    BY <1>3 DEF JackOpen
  <2>2. Emits([kind |-> "appeared", name |-> n, id |-> id])
    BY <1>0, <2>1, Emitted, SignalTypes DEF Emits
  <2>3. new.id = id /\ ~new.port /\ new.pid = pid
    OBVIOUS
  <2> HIDE DEF new
  <2>4. jack'[n] = new /\ \A m \in Name : m # n => jack'[m] = jack[m]
    BY <1>0, <2>1
  <2> QED BY <2>1, <2>2, <2>3, <2>4 DEF Opens
<1>4. ASSUME NEW n \in Name, JackPort(n) PROVE OpensPort(n)
  <2>1. /\ jack[n].id # None /\ ~jack[n].port
        /\ jack' = [jack EXCEPT ![n] = [jack[n] EXCEPT !.port = TRUE]]
        /\ Emit(<<PortSignal(n)>>)
        /\ UNCHANGED <<jack_up, wires, opened, process, started, calls>>
    BY <1>4 DEF JackPort, PortSignal
  <2>2. Emits(PortSignal(n))
    BY <1>0, <2>1, Emitted, SignalTypes DEF Emits, PortSignal
  <2> DEFINE new == [jack[n] EXCEPT !.port = TRUE]
  <2>3. new.id = jack[n].id /\ new.port /\ new.pid = jack[n].pid
    BY <1>0 DEF JackClient
  <2> HIDE DEF new
  <2>4. jack'[n] = new /\ \A m \in Name : m # n => jack'[m] = jack[m]
    BY <1>0, <2>1 DEF new
  <2> QED BY <2>1, <2>2, <2>3, <2>4 DEF OpensPort
<1>5. ASSUME NEW n \in Name, JackClose(n) PROVE Closes(n)
  <2>1. /\ jack[n].id # None /\ \A w \in wires : n \notin {w[1], w[2]}
        /\ Emit(<<ClientSignal("disappeared", n)>>)
        /\ jack' = [jack EXCEPT ![n] = NotThere]
        /\ UNCHANGED <<jack_up, wires, opened, process, started, calls>>
    BY <1>5 DEF JackClose
  <2>2. Emits(ClientSignal("disappeared", n))
    BY <1>0, <2>1, Emitted, SignalTypes DEF Emits
  <2>3. jack'[n] = NotThere /\ \A m \in Name : m # n => jack'[m] = jack[m]
    BY <1>0, <2>1
  <2> QED BY <2>1, <2>2, <2>3 DEF Closes
<1>6. ASSUME NEW w \in Wire, UserConnects(w) PROVE w \in Name \X Name /\ Wires(w)
  <2>1. w \in Name \X Name
    BY WiresAreOfNames
  <2>2. Emits(WireMade(w))
    BY <1>0, <1>6, <2>1, Emitted, SignalTypes DEF UserConnects, Emits, WireMade
  <2> QED BY <1>6, <2>1, <2>2 DEF UserConnects, Wires, MayConnect
<1>7. ASSUME NEW w \in Wire, JackDisconnects(w) PROVE w \in Name \X Name /\ Unwires(w)
  <2>1. w \in Name \X Name
    BY WiresAreOfNames
  <2>2. Emits(LinkSignal("disconnected", w))
    BY <1>0, <1>7, <2>1, Emitted, SignalTypes DEF JackDisconnects, Emits
  <2> QED BY <1>7, <2>1, <2>2 DEF JackDisconnects, Unwires
<1>8. ASSUME NEW w \in calls, JackTakesCall(w) PROVE w \in Name \X Name /\ (Wires(w) \/ Refuses(w))
  <2>1. w \in Name \X Name
    BY <1>0
  <2>2. CASE MayConnect(w)
    <3>1. Emits(WireMade(w))
      BY <1>0, <1>8, <2>1, <2>2, Emitted, SignalTypes DEF JackTakesCall, Emits, WireMade
    <3> QED BY <1>8, <2>1, <2>2, <3>1 DEF JackTakesCall, Wires, MayConnect
  <2>3. CASE ~MayConnect(w)
    BY <1>8, <2>1, <2>3 DEF JackTakesCall, Refuses
  <2> QED BY <2>2, <2>3
<1>9. ASSUME NEW c \in Client, Start(c) \/ Exit(c) PROVE Forks(c) \/ Ends(c)
  BY <1>9 DEF Start, Exit, NewProcess, Forks, Ends
<1> QED BY <1>1, <1>2, <1>3, <1>4, <1>5, <1>6, <1>7, <1>8, <1>9 DEF Environment

LEMMA SignalFields ==
  /\ \A k : ServerSignal(k).kind = k
  /\ \A n : Appeared(n).kind = "appeared" /\ Appeared(n).name = n /\ Appeared(n).id = jack[n].id
  /\ \A n : PortSignal(n).kind = "port" /\ PortSignal(n).name = n /\ PortSignal(n).id = jack[n].id
  /\ \A n : ClientSignal("disappeared", n).kind = "disappeared"
            /\ ClientSignal("disappeared", n).name = n /\ ClientSignal("disappeared", n).id = jack[n].id
  /\ \A w \in Name \X Name :
       /\ WireMade(w).kind = "connected"
       /\ WireMade(w).link = [from |-> w[1], from_id |-> jack[w[1]].id, to |-> w[2], to_id |-> jack[w[2]].id]
       /\ WireMade(w) = [kind |-> "connected", link |->
            [from |-> w[1], from_id |-> jack[w[1]].id, to |-> w[2], to_id |-> jack[w[2]].id]]
       /\ LinkSignal("disconnected", w).kind = "disconnected"
<1>1. \A w \in Name \X Name : Link(w, [n \in Name |-> jack[n].id]) =
        [from |-> w[1], from_id |-> jack[w[1]].id, to |-> w[2], to_id |-> jack[w[2]].id]
  BY DEF Link
<1> QED BY <1>1 DEF ServerSignal, Appeared, PortSignal, ClientSignal, WireMade, LinkSignal

LEMMA SameWire ==
  ASSUME NEW w \in Name \X Name, jack'[w[1]].id = jack[w[1]].id, jack'[w[2]].id = jack[w[2]].id
  PROVE  WireMade(w)' = WireMade(w)
<1>1. WireMade(w)' = [kind |-> "connected", link |->
            [from |-> w[1], from_id |-> jack'[w[1]].id, to |-> w[2], to_id |-> jack'[w[2]].id]]
  <2>1. w[1] \in Name /\ w[2] \in Name
    OBVIOUS
  <2> QED BY <2>1 DEF WireMade, LinkSignal, Link
<1> QED BY <1>1, SignalFields

LEMMA OrderKept ==
  ASSUME JackTypes, StopsAreFirst, WiresAreNew, NEW x, Emits(x), wires' \subseteq Name \X Name,
         \A n \in Name : jack'[n].id \in {jack[n].id, None} \/ x = Appeared(n)',
         \A w \in wires' : \/ w \in wires /\ jack'[w[1]].id = jack[w[1]].id /\ jack'[w[2]].id = jack[w[2]].id
                           \/ x = WireMade(w)',
         x.kind = "stopped" => wires' = {} /\ \A n \in Name : jack'[n].id = None,
         x.kind = "appeared" => \A w \in wires' : x.name # w[1] /\ x.name # w[2]
  PROVE  StopsAreFirst' /\ WiresAreNew'
<1>0. signals \in Seq(Signal) /\ x \in Signal /\ signals' = Append(signals, x)
  BY DEF JackTypes, Emits
<1>1. /\ \A s, t : Follows(signals, s, t) /\ x # s => Follows(signals', s, t)
      /\ \A s : s # x => Follows(signals', s, x)
  BY <1>0, QueueGrows
<1>2. \A n : Appeared(n)'.kind = "appeared" /\ Appeared(n)'.name = n
  BY DEF Appeared
<1>3. ServerSignal("stopped")' = ServerSignal("stopped") /\ ServerSignal("stopped").kind = "stopped"
  BY DEF ServerSignal
<1>4. ASSUME NEW n \in Name, jack'[n].id # None
      PROVE  Follows(signals', ServerSignal("stopped"), Appeared(n)')
  <2>1. x # ServerSignal("stopped")
    BY <1>3, <1>4
  <2>2. CASE x = Appeared(n)'
    BY <1>1, <2>1, <2>2
  <2>3. CASE jack'[n].id = jack[n].id
    <3>1. Appeared(n)' = Appeared(n)
      BY <2>3 DEF Appeared
    <3>2. Follows(signals, ServerSignal("stopped"), Appeared(n))
      BY <1>4, <2>3 DEF StopsAreFirst
    <3> QED BY <1>1, <2>1, <3>1, <3>2
  <2> QED BY <1>4, <2>2, <2>3
<1>5. StopsAreFirst'
  BY <1>3, <1>4 DEF StopsAreFirst
<1>6. ASSUME NEW w \in wires'
      PROVE  /\ \A n \in {w[1], w[2]} : Follows(signals', Appeared(n)', WireMade(w)')
             /\ Follows(signals', ServerSignal("stopped"), WireMade(w)')
  <2>1. x # ServerSignal("stopped") /\ \A n \in {w[1], w[2]} : x # Appeared(n)'
    BY <1>2, <1>3, <1>6
  <2>2. CASE x = WireMade(w)'
    BY <1>1, <2>1, <2>2
  <2>3. CASE w \in wires /\ jack'[w[1]].id = jack[w[1]].id /\ jack'[w[2]].id = jack[w[2]].id
    <3>1. WireMade(w)' = WireMade(w) /\ \A n \in {w[1], w[2]} : Appeared(n)' = Appeared(n)
      BY <2>3, SameWire DEF Appeared, JackTypes
    <3>2. /\ \A n \in {w[1], w[2]} : Follows(signals, Appeared(n), WireMade(w))
          /\ Follows(signals, ServerSignal("stopped"), WireMade(w))
      BY <2>3 DEF WiresAreNew
    <3> QED BY <1>1, <2>1, <3>1, <3>2
  <2> QED BY <1>6, <2>2, <2>3
<1>7. WiresAreNew'
  BY <1>3, <1>6 DEF WiresAreNew
<1> QED BY <1>5, <1>7

LEMMA SignalNumbersKept ==
  ASSUME JackTypes, SignalNumbers, NEW x, Emits(x) \/ signals' = signals,
         \A n \in Name : opened'[n] \in Nat /\ opened[n] <= opened'[n],
         \A n \in Name : jack'[n].id \in {jack[n].id, None, <<n, opened[n]>>},
         Emits(x) /\ x.kind \in {"appeared", "disappeared", "port"} =>
           /\ x.id[1] = x.name /\ x.id[2] < opened'[x.name]
           /\ x.kind = "disappeared" => x.id # jack'[x.name].id
  PROVE  SignalNumbers'
<1>0. signals \in Seq(Signal) /\ opened \in [Name -> Nat]
  BY DEF JackTypes
<1>1. ASSUME NEW i \in DOMAIN signals, signals[i].kind \in {"appeared", "disappeared", "port"}
      PROVE  /\ signals[i].id[1] = signals[i].name /\ signals[i].id[2] < opened'[signals[i].name]
             /\ signals[i].kind = "disappeared" => signals[i].id # jack'[signals[i].name].id
  <2>1. signals[i] \in Signal
    BY <1>0
  <2>2. signals[i].name \in Name /\ signals[i].id \in Name \X Nat
    BY <1>1, <2>1, KindOfSignal
  <2>3. /\ signals[i].id[1] = signals[i].name /\ signals[i].id[2] < opened[signals[i].name]
        /\ signals[i].kind = "disappeared" => signals[i].id # jack[signals[i].name].id
    BY <1>1 DEF SignalNumbers, Given
  <2>4. signals[i].id[2] < opened'[signals[i].name]
    BY <1>0, <2>2, <2>3
  <2>5. signals[i].id # None /\ signals[i].id # <<signals[i].name, opened[signals[i].name]>>
    BY <1>0, <2>2, <2>3, NotNone
  <2> QED BY <2>2, <2>3, <2>4, <2>5
<1>2. CASE signals' = signals
  BY <1>1, <1>2 DEF SignalNumbers, Given
<1>3. CASE Emits(x)
  <2>1. PICK n \in DOMAIN signals' :
          /\ signals'[n] = x
          /\ \A i \in DOMAIN signals' : i \in DOMAIN signals \/ i = n
    BY <1>0, <1>3, AppendedEntry DEF Emits
  <2>2. \A i \in DOMAIN signals : signals'[i] = signals[i]
    BY <1>0, <1>3, AppendedEntry DEF Emits
  <2> QED BY <1>1, <1>3, <2>1, <2>2 DEF SignalNumbers, Given
<1> QED BY <1>2, <1>3

LEMMA SignalNumbersStay ==
  ASSUME JackTypes, SignalNumbers, NEW x, Emits(x) \/ signals' = signals, opened' = opened,
         \A n \in Name : jack'[n].id = jack[n].id \/ jack'[n].id = None,
         \/ x.kind \notin {"appeared", "disappeared", "port"}
         \/ /\ x.id[1] = x.name /\ x.id[2] < opened[x.name]
            /\ x.kind = "disappeared" => x.id # jack'[x.name].id
  PROVE  SignalNumbers'
<1>1. \A n \in Name : opened'[n] \in Nat /\ opened[n] <= opened'[n]
  BY DEF JackTypes
<1>2. \A n \in Name : jack'[n].id \in {jack[n].id, None, <<n, opened[n]>>}
  OBVIOUS
<1>3. Emits(x) /\ x.kind \in {"appeared", "disappeared", "port"} =>
        /\ x.id[1] = x.name /\ x.id[2] < opened'[x.name]
        /\ x.kind = "disappeared" => x.id # jack'[x.name].id
  OBVIOUS
<1> QED BY <1>1, <1>2, <1>3, SignalNumbersKept

LEMMA WorldMoves ==
  ASSUME JackTypes, JackTypes', WorldInv, Environment
  PROVE  WorldInv'
<1>0. /\ jack \in [Name -> JackClient] /\ process \in [Client -> Id] /\ started \in [Client -> Nat]
      /\ signals \in Seq(Signal) /\ opened \in [Name -> Nat] /\ wires \subseteq Name \X Name
      /\ wires' \subseteq Name \X Name
      /\ \A n \in Name : jack[n].id = None => jack[n] = NotThere
  BY DEF JackTypes
<1>n. NotThere.id = None /\ ~NotThere.port
  BY DEF NotThere
<1>w. \A w \in wires : w[1] \in Name /\ w[2] \in Name /\ jack[w[1]].id # None /\ jack[w[2]].id # None
  <2>1. \A w \in wires : w[1] \in Name /\ w[2] \in Name
    BY <1>0
  <2> QED BY <1>0, <1>n, <2>1 DEF WorldInv, WiresHavePorts
<1> USE DEF WorldInv
<1>1. CASE Starts
  <2>1. UNCHANGED <<jack, wires, opened, process, started>> /\ jack_up' /\ Emits(ServerSignal("started"))
    BY <1>1 DEF Starts
  <2>2. StopsAreFirst' /\ WiresAreNew'
    BY <2>1, <1>0, OrderKept, SignalFields
  <2>3. SignalNumbers'
    <3>1. ServerSignal("started").kind = "started"
      BY SignalFields
    <3> QED BY <2>1, <3>1, SignalNumbersStay
  <2>4. JackNumbers' /\ ProcessNumbers' /\ WiresHavePorts'
    BY <2>1 DEF JackNumbers, ProcessNumbers, WiresHavePorts, Given
  <2> QED BY <2>2, <2>3, <2>4
<1>2. CASE Stops
  <2>1. /\ \A n \in Name : jack'[n].id = None
        /\ wires' = {} /\ UNCHANGED <<opened, process, started>>
        /\ Emits(ServerSignal("stopped")) \/ signals' = signals
    BY <1>2, <1>n DEF Stops
  <2>2. StopsAreFirst' /\ WiresAreNew' /\ JackNumbers' /\ ProcessNumbers' /\ WiresHavePorts'
    BY <2>1 DEF StopsAreFirst, WiresAreNew, JackNumbers, ProcessNumbers, WiresHavePorts
  <2>3. SignalNumbers'
    <3>1. ServerSignal("stopped").kind = "stopped"
      BY SignalFields
    <3> QED BY <2>1, <3>1, SignalNumbersStay
  <2> QED BY <2>2, <2>3
<1>3. ASSUME NEW n \in Name, Opens(n) PROVE WorldInv'
  <2> DEFINE x == [kind |-> "appeared", name |-> n, id |-> <<n, opened[n]>>]
  <2>1. /\ jack_up' /\ jack[n].id = None /\ jack'[n].id = <<n, opened[n]>>
        /\ jack'[n].pid = IF n \in Client THEN process[n] ELSE <<n, 0>>
        /\ n \in Client => process[n] # None
        /\ \A m \in Name : m # n => jack'[m] = jack[m]
        /\ Emits(x) /\ opened' = [opened EXCEPT ![n] = @ + 1]
        /\ UNCHANGED <<wires, process, started>>
    BY <1>3 DEF Opens
  <2>2. \A m \in Name : opened'[m] \in Nat /\ opened[m] <= opened'[m]
    BY <1>0, <2>1
  <2>3. opened'[n] = opened[n] + 1
    BY <1>0, <2>1
  <2>4. x.kind = "appeared" /\ x.name = n /\ x.id = <<n, opened[n]>> /\ x = Appeared(n)'
    BY <2>1 DEF Appeared
  <2> HIDE DEF x
  <2>5. \A w \in wires : w[1] # n /\ w[2] # n
    BY <1>w, <2>1
  <2>6. StopsAreFirst' /\ WiresAreNew'
    <3>1. \A m \in Name : jack'[m].id \in {jack[m].id, None} \/ x = Appeared(m)'
      BY <2>1, <2>4
    <3>2. \A w \in wires' : w \in wires /\ jack'[w[1]].id = jack[w[1]].id /\ jack'[w[2]].id = jack[w[2]].id
      BY <1>w, <2>1, <2>5
    <3> QED BY <1>0, <2>1, <2>4, <2>5, <3>1, <3>2, OrderKept
  <2>7. SignalNumbers'
    <3>1. \A m \in Name : jack'[m].id \in {jack[m].id, None, <<m, opened[m]>>}
      BY <2>1
    <3>2. x.id[1] = x.name /\ x.id[2] < opened'[x.name]
      BY <1>0, <2>3, <2>4
    <3> QED BY <2>1, <2>2, <2>4, <3>1, <3>2, SignalNumbersKept
  <2>8. JackNumbers'
    <3> SUFFICES ASSUME NEW m \in Name, jack'[m].id # None
                 PROVE  /\ jack_up' /\ jack'[m].id[1] = m /\ jack'[m].id[2] < opened'[m]
                        /\ jack'[m].pid \in Name \X Nat /\ jack'[m].pid[1] = m
                        /\ m \in Client => jack'[m].pid[2] < started'[m]
      BY DEF JackNumbers, Given
    <3>1. CASE m = n
      <4>1. n \in Client => /\ process[n] \in Name \X Nat
                            /\ process[n][1] = n /\ process[n][2] + 1 = started[n]
        BY <1>0, <2>1 DEF ProcessNumbers, Id
      <4>2. n \in Client => process[n][2] \in Nat /\ started[n] \in Nat /\ process[n][2] < started[n]
        BY <1>0, <4>1
      <4> QED BY <1>0, <2>1, <2>3, <3>1, <4>1, <4>2
    <3>2. CASE m # n
      <4>1. /\ jack[m].id # None /\ jack'[m] = jack[m]
        BY <2>1, <3>2
      <4>2. jack[m].id \in Name \X Nat
        BY <1>0, <4>1 DEF JackClient, Id
      <4> QED BY <1>0, <2>1, <2>2, <4>1, <4>2 DEF JackNumbers, Given
    <3> QED BY <3>1, <3>2
  <2>9. ProcessNumbers' /\ WiresHavePorts'
    BY <1>w, <2>1, <2>5 DEF ProcessNumbers, WiresHavePorts
  <2> QED BY <2>6, <2>7, <2>8, <2>9
<1>4. ASSUME NEW n \in Name, OpensPort(n) PROVE WorldInv'
  <2>1. /\ jack'[n].port /\ Emits(PortSignal(n)) /\ jack[n].id # None
        /\ \A m \in Name : /\ jack'[m].id = jack[m].id /\ jack'[m].pid = jack[m].pid
                           /\ m # n => jack'[m] = jack[m]
        /\ UNCHANGED <<jack_up, wires, opened, process, started>>
    BY <1>4 DEF OpensPort
  <2>2. StopsAreFirst' /\ WiresAreNew'
    BY <1>0, <1>w, <2>1, OrderKept, SignalFields
  <2>3. SignalNumbers'
    <3>1. jack[n].id[1] = n /\ jack[n].id[2] < opened'[n]
      BY <2>1 DEF JackNumbers, Given
    <3>2. PortSignal(n).kind = "port" /\ PortSignal(n).name = n /\ PortSignal(n).id = jack[n].id
      BY SignalFields
    <3> QED BY <2>1, <3>1, <3>2, SignalNumbersStay
  <2>4. JackNumbers' /\ ProcessNumbers' /\ WiresHavePorts'
    BY <1>w, <2>1 DEF JackNumbers, ProcessNumbers, WiresHavePorts, Given
  <2> QED BY <2>2, <2>3, <2>4
<1>5. ASSUME NEW n \in Name, Closes(n) PROVE WorldInv'
  <2>1. /\ jack[n].id # None /\ jack'[n].id = None /\ \A w \in wires : n # w[1] /\ n # w[2]
        /\ \A m \in Name : m # n => jack'[m] = jack[m]
        /\ Emits(ClientSignal("disappeared", n))
        /\ UNCHANGED <<jack_up, wires, opened, process, started>>
    BY <1>5, <1>n DEF Closes
  <2>2. StopsAreFirst' /\ WiresAreNew'
    BY <1>0, <1>w, <2>1, OrderKept, SignalFields
  <2>3. SignalNumbers'
    <3>1. jack[n].id[1] = n /\ jack[n].id[2] < opened'[n]
      BY <2>1 DEF JackNumbers, Given
    <3>2. /\ ClientSignal("disappeared", n).kind = "disappeared"
          /\ ClientSignal("disappeared", n).name = n /\ ClientSignal("disappeared", n).id = jack[n].id
      BY SignalFields
    <3>3. \A m \in Name : jack'[m].id = jack[m].id \/ jack'[m].id = None
      BY <2>1
    <3> QED BY <2>1, <3>1, <3>2, <3>3, SignalNumbersStay
  <2>4. JackNumbers' /\ ProcessNumbers' /\ WiresHavePorts'
    BY <1>w, <2>1 DEF JackNumbers, ProcessNumbers, WiresHavePorts, Given
  <2> QED BY <2>2, <2>3, <2>4
<1>6. ASSUME NEW w \in Name \X Name, Wires(w) PROVE WorldInv'
  <2>1. /\ jack[w[1]].port /\ jack[w[2]].port /\ wires' = wires \union {w} /\ Emits(WireMade(w))
        /\ UNCHANGED <<jack_up, jack, opened, process, started>>
    BY <1>6 DEF Wires
  <2>2. WireMade(w)' = WireMade(w)
    BY <2>1, SameWire
  <2>3. StopsAreFirst' /\ WiresAreNew'
    BY <1>0, <2>1, <2>2, OrderKept, SignalFields
  <2>4. SignalNumbers'
    <3>1. WireMade(w).kind = "connected"
      BY SignalFields
    <3> QED BY <2>1, <3>1, SignalNumbersStay
  <2>5. JackNumbers' /\ ProcessNumbers' /\ WiresHavePorts'
    BY <2>1 DEF JackNumbers, ProcessNumbers, WiresHavePorts, Given
  <2> QED BY <2>3, <2>4, <2>5
<1>7. ASSUME NEW w \in Name \X Name, Unwires(w) PROVE WorldInv'
  <2>1. /\ wires' = wires \ {w} /\ Emits(LinkSignal("disconnected", w))
        /\ UNCHANGED <<jack_up, jack, opened, process, started>>
    BY <1>7 DEF Unwires
  <2>3. StopsAreFirst' /\ WiresAreNew'
    BY <1>0, <2>1, OrderKept, SignalFields
  <2>4. SignalNumbers'
    <3>1. LinkSignal("disconnected", w).kind = "disconnected"
      BY SignalFields
    <3> QED BY <2>1, <3>1, SignalNumbersStay
  <2>5. JackNumbers' /\ ProcessNumbers' /\ WiresHavePorts'
    BY <2>1 DEF JackNumbers, ProcessNumbers, WiresHavePorts, Given
  <2> QED BY <2>3, <2>4, <2>5
<1>8. ASSUME NEW w \in Name \X Name, Refuses(w) PROVE WorldInv'
  <2>1. UNCHANGED <<jack_up, jack, wires, opened, process, started, signals>>
    BY <1>8 DEF Refuses
  <2> QED BY <2>1 DEF JackNumbers, ProcessNumbers, WiresHavePorts, SignalNumbers, StopsAreFirst,
          WiresAreNew, Given, Appeared, WireMade, LinkSignal, ServerSignal
<1>9. ASSUME NEW c \in Client, Forks(c) \/ Ends(c) PROVE WorldInv'
  <2>1. /\ UNCHANGED <<jack_up, jack, wires, opened, signals>>
        /\ \/ process' = [process EXCEPT ![c] = <<c, started[c]>>] /\ started' = [started EXCEPT ![c] = @ + 1]
           \/ process' = [process EXCEPT ![c] = None] /\ started' = started
    BY <1>9 DEF Forks, Ends
  <2>2. WiresHavePorts' /\ SignalNumbers' /\ StopsAreFirst' /\ WiresAreNew'
    BY <2>1 DEF WiresHavePorts, SignalNumbers, StopsAreFirst,
          WiresAreNew, Given, Appeared, WireMade, LinkSignal, ServerSignal
  <2>3. ProcessNumbers'
    BY <1>0, <2>1 DEF ProcessNumbers
  <2>4. \A d \in Client : started'[d] \in Nat /\ started[d] <= started'[d]
    BY <1>0, <2>1
  <2>5. JackNumbers'
    <3> SUFFICES ASSUME NEW m \in Name, jack[m].id # None
                 PROVE  /\ jack_up /\ Given(jack[m].id, m)
                        /\ jack[m].pid \in Name \X Nat /\ jack[m].pid[1] = m
                        /\ m \in Client => jack[m].pid[2] < started'[m]
      BY <2>1 DEF JackNumbers, Given
    <3>1. /\ jack_up /\ Given(jack[m].id, m) /\ jack[m].pid \in Name \X Nat /\ jack[m].pid[1] = m
          /\ m \in Client => jack[m].pid[2] < started[m]
      BY DEF JackNumbers
    <3>2. jack[m].pid[2] \in Nat
      BY <3>1
    <3> QED BY <1>0, <2>4, <3>1, <3>2
  <2> QED BY <2>2, <2>3, <2>5
<1> QED BY <1>1, <1>2, <1>3, <1>4, <1>5, <1>6, <1>7, <1>8, <1>9, EnvironmentDoes

LEMMA EnvironmentGrows ==
  ASSUME JackTypes, WorldInv, Environment
  PROVE  /\ \A n \in Name : opened[n] \in Nat /\ opened'[n] \in Nat /\ opened[n] <= opened'[n]
         /\ \A c \in Client : started[c] \in Nat /\ started'[c] \in Nat /\ started[c] <= started'[c]
         /\ \A n \in Name : \/ jack'[n].id = None
                            \/ jack'[n].id = jack[n].id /\ jack'[n].pid = jack[n].pid
                            \/ /\ n \in Client => jack'[n].pid \in Name \X Nat /\ jack'[n].pid[2] + 1 = started[n]
                               /\ Emits(Appeared(n)')
         /\ ExternalStep
<1>0. /\ process \in [Client -> Id] /\ started \in [Client -> Nat] /\ opened \in [Name -> Nat]
  BY DEF JackTypes
<1>1. ExternalStep
  BY DEF Environment, JackStart, JackStop, JackOpen, JackPort, JackClose, UserConnects,
         JackDisconnects, JackTakesCall, Start, Exit
<1>2. \A n \in Name : opened[n] \in Nat /\ opened[n] <= opened[n]
  BY <1>0
<1>3. \A c \in Client : started[c] \in Nat /\ started[c] <= started[c]
  BY <1>0
<1>4. CASE Starts \/ Stops
  BY <1>1, <1>2, <1>3, <1>4 DEF Starts, Stops, NotThere
<1>5. ASSUME NEW n \in Name, Opens(n)
      PROVE  /\ \A m \in Name : opened'[m] \in Nat /\ opened[m] <= opened'[m]
             /\ started' = started
             /\ \A m \in Name : m # n => jack'[m] = jack[m]
             /\ n \in Client => jack'[n].pid \in Name \X Nat /\ jack'[n].pid[2] + 1 = started[n]
             /\ Emits(Appeared(n)')
  <2>1. \A m \in Name : opened'[m] \in Nat /\ opened[m] <= opened'[m]
    BY <1>0, <1>5 DEF Opens
  <2>2. n \in Client => jack'[n].pid \in Name \X Nat /\ jack'[n].pid[2] + 1 = started[n]
    BY <1>0, <1>5 DEF Opens, Id, WorldInv, ProcessNumbers
  <2>3. Emits(Appeared(n)')
    BY <1>5 DEF Opens, Appeared
  <2> QED BY <1>5, <2>1, <2>2, <2>3 DEF Opens
<1>7. ASSUME NEW n \in Name, OpensPort(n) \/ Closes(n)
      PROVE  /\ opened' = opened /\ started' = started
             /\ \A m \in Name : jack'[m].id = None \/ (jack'[m].id = jack[m].id /\ jack'[m].pid = jack[m].pid)
  BY <1>7 DEF OpensPort, Closes, NotThere
<1>8. ASSUME NEW w \in Name \X Name, Wires(w) \/ Refuses(w) \/ Unwires(w)
      PROVE  UNCHANGED <<opened, started, jack>>
  BY <1>8 DEF Wires, Refuses, Unwires
<1>9. ASSUME NEW c \in Client, Forks(c) \/ Ends(c)
      PROVE  /\ UNCHANGED <<opened, jack>>
             /\ \A d \in Client : started'[d] \in Nat /\ started[d] <= started'[d]
  BY <1>0, <1>9 DEF Forks, Ends
<1> QED BY <1>1, <1>2, <1>3, <1>4, <1>5, <1>7, <1>8, <1>9, EnvironmentDoes

LEMMA ListMoves ==
  ASSUME TypeInv, WorldInv, ListInv, Environment
  PROVE  ListInv'
<1>0. /\ unknown_clients \in Seq(UnknownEntry) /\ clients \in Seq(KnownEntry)
      /\ lash \in [Client -> LashClient] /\ (graph = NoGraph \/ graph \in Graph)
      /\ JackTypes
  BY DEF TypeInv, LashdTypes
<1>1. /\ \A n \in Name : opened[n] \in Nat /\ opened'[n] \in Nat /\ opened[n] <= opened'[n]
      /\ \A c \in Client : started[c] \in Nat /\ started'[c] \in Nat /\ started[c] <= started'[c]
      /\ \A n \in Name : \/ jack'[n].id = None
                         \/ jack'[n].id = jack[n].id /\ jack'[n].pid = jack[n].pid
                         \/ n \in Client => jack'[n].pid \in Name \X Nat /\ jack'[n].pid[2] + 1 = started[n]
  BY <1>0, EnvironmentGrows
<1>2. /\ UNCHANGED <<clients, unknown_clients, graph, lash, loaded, doc, owned>>
  BY <1>0, EnvironmentGrows DEF ExternalStep, mgrVars, projectVars, historyVars
<1>3. ASSUME NEW n \in Name, NEW id \in Name \X Nat, Given(id, n) PROVE Given(id, n)'
  <2>1. id[2] \in Nat /\ id[1] = n /\ id[2] < opened[n]
    BY <1>3 DEF Given
  <2>2. id[2] < opened'[n]
    BY <1>1, <2>1
  <2> QED BY <2>1, <2>2 DEF Given
<1>4. ASSUME NEW i \in DOMAIN unknown_clients PROVE GoodUnknown(unknown_clients[i])'
  <2> DEFINE e == unknown_clients[i]
  <2>0. e \in UnknownEntry
    BY <1>0
  <2>1. e.name \in Name /\ e.jackdbus_id \in Name \X Nat /\ e.pid \in Name \X Nat
    BY <2>0 DEF UnknownEntry
  <2>2. GoodUnknown(e)
    BY DEF ListInv
  <2> HIDE DEF e
  <2>3. Given(e.jackdbus_id, e.name)'
    BY <1>2, <1>3, <2>1, <2>2 DEF GoodUnknown, e
  <2>4. ASSUME e.name \in Client
        PROVE  e.pid[2] < started'[e.name] /\ (jack'[e.name].id # None => e.pid[2] <= jack'[e.name].pid[2])
    <3>1. e.pid[2] \in Nat /\ e.pid[2] < started[e.name]
      BY <2>1, <2>2, <2>4 DEF GoodUnknown
    <3>2. e.pid[2] < started'[e.name]
      BY <1>1, <2>4, <3>1
    <3>3. CASE jack'[e.name].id = jack[e.name].id /\ jack'[e.name].pid = jack[e.name].pid
      BY <2>2, <2>4, <3>2, <3>3 DEF GoodUnknown
    <3>4. CASE jack'[e.name].pid \in Name \X Nat /\ jack'[e.name].pid[2] + 1 = started[e.name]
      <4>1. jack'[e.name].pid[2] \in Nat
        BY <3>4
      <4>2. e.pid[2] <= jack'[e.name].pid[2]
        BY <1>1, <2>4, <3>1, <3>4, <4>1
      <4> QED BY <3>2, <4>2
    <3> QED BY <1>1, <2>1, <2>4, <3>2, <3>3, <3>4
  <2>5. e.pid[1] = e.name
    BY <2>2 DEF GoodUnknown
  <2>6. e' = e
    BY <1>2 DEF e
  <2>7. GoodUnknown(e)'
    BY <2>3, <2>4, <2>5, <2>6 DEF GoodUnknown
  <2> QED BY <2>7 DEF e
<1>5. ASSUME NEW i \in DOMAIN clients PROVE GoodKnown(clients[i])'
  <2>1. clients[i] \in KnownEntry
    BY <1>0
  <2>2. clients[i].id \in Name /\ clients[i].jackdbus_id \in Id
    BY <2>1, ClientsAreNames DEF KnownEntry
  <2>3. GoodKnown(clients[i])
    BY DEF ListInv
  <2>4. clients[i].jackdbus_id # None => Given(clients[i].jackdbus_id, clients[i].id)'
    BY <1>2, <1>3, <2>2, <2>3 DEF GoodKnown, Id
  <2> QED BY <1>2, <2>3, <2>4 DEF GoodKnown, OfClient
<1>6. ASSUME NEW c \in Client PROVE GoodLash(c)'
  <2>1. GoodLash(c)
    BY DEF ListInv
  <2>2. lash[c].pid \in Id
    BY <1>0 DEF LashClient
  <2>3. lash[c].pid # None => lash[c].pid[1] = c /\ lash[c].pid[2] < started'[c]
    <3> SUFFICES ASSUME lash[c].pid # None PROVE lash[c].pid[1] = c /\ lash[c].pid[2] < started'[c]
      OBVIOUS
    <3>1. lash[c].pid[2] \in Nat /\ lash[c].pid[1] = c /\ lash[c].pid[2] < started[c]
      BY <2>1, <2>2 DEF GoodLash, Id
    <3> QED BY <1>1, <3>1
  <2> QED BY <1>2, <2>1, <2>3 DEF GoodLash, OfClient
<1>7. GoodGraph(graph)'
  <2> SUFFICES ASSUME graph # NoGraph, NEW n \in Name, graph.ids[n] # None
               PROVE  Given(graph.ids[n], n)'
    BY <1>2 DEF GoodGraph
  <2>1. graph.ids[n] \in Name \X Nat
    BY <1>0 DEF Graph, Id
  <2>2. Given(graph.ids[n], n)
    BY DEF ListInv, GoodGraph
  <2> QED BY <1>2, <1>3, <2>1, <2>2
<1> QED BY <1>2, <1>4, <1>5, <1>6, <1>7 DEF ListInv

LEMMA LashdLeavesJack ==
  ASSUME Lashd
  PROVE  /\ UNCHANGED <<jack_up, jack, wires, opened>>
         /\ signals' = signals \/ (signals # <<>> /\ signals' = Tail(signals))
         /\ UNCHANGED <<process, started>> \/ \E c \in Client : Launch(c)
BY DEF Lashd, HandleSignal, Connect, Disconnect, Launch, Save, SaveEnds, LoadEnds, Close, Load,
       jackVars, processVars

LEMMA WorldStays ==
  ASSUME JackTypes, WorldInv, Lashd
  PROVE  WorldInv'
<1>0. /\ jack \in [Name -> JackClient] /\ process \in [Client -> Id] /\ started \in [Client -> Nat]
      /\ signals \in Seq(Signal) /\ wires \subseteq Name \X Name
  BY DEF JackTypes
<1>1. UNCHANGED <<jack_up, jack, wires, opened>>
  BY LashdLeavesJack
<1>2. /\ \A i \in DOMAIN signals' : \E j \in DOMAIN signals : signals'[i] = signals[j]
      /\ \A s, t : Follows(signals, s, t) => Follows(signals', s, t)
  <2>1. CASE signals' = signals
    BY <2>1
  <2>2. CASE signals # <<>> /\ signals' = Tail(signals)
    <3>1. /\ \A s : Queued(signals', s) => Queued(signals, s)
          /\ \A s, t : Follows(signals, s, t) => Follows(signals', s, t)
      BY <1>0, <2>2, QueueShrinks
    <3> QED BY <3>1 DEF Queued
  <2> QED BY <2>1, <2>2, LashdLeavesJack
<1>3. /\ \A n : Appeared(n)' = Appeared(n)
      /\ ServerSignal("stopped")' = ServerSignal("stopped")
      /\ \A w \in Name \X Name : WireMade(w)' = WireMade(w)
  BY <1>1 DEF Appeared, ServerSignal, WireMade, LinkSignal, Link
<1>4. SignalNumbers'
  <2> SUFFICES ASSUME NEW i \in DOMAIN signals', signals'[i].kind \in {"appeared", "disappeared", "port"}
               PROVE  /\ Given(signals'[i].id, signals'[i].name)
                      /\ signals'[i].kind = "disappeared" => signals'[i].id # jack[signals'[i].name].id
    BY <1>1 DEF SignalNumbers, Given
  <2>1. PICK j \in DOMAIN signals : signals'[i] = signals[j]
    BY <1>2
  <2> QED BY <2>1 DEF WorldInv, SignalNumbers
<1>5. StopsAreFirst'
  BY <1>1, <1>2, <1>3 DEF WorldInv, StopsAreFirst
<1>6. WiresAreNew'
  <2> SUFFICES ASSUME NEW w \in wires
               PROVE  /\ \A n \in {w[1], w[2]} : Follows(signals', Appeared(n)', WireMade(w)')
                      /\ Follows(signals', ServerSignal("stopped")', WireMade(w)')
    BY <1>1 DEF WiresAreNew
  <2>1. WireMade(w)' = WireMade(w)
    BY <1>0, <1>3
  <2> QED BY <1>2, <1>3, <2>1 DEF WorldInv, WiresAreNew
<1>7. WiresHavePorts'
  BY <1>1 DEF WorldInv, WiresHavePorts
<1>8. /\ ProcessNumbers'
      /\ \A c \in Client : started[c] \in Nat /\ started'[c] \in Nat /\ started[c] <= started'[c]
  <2>1. CASE UNCHANGED <<process, started>>
    BY <1>0, <2>1 DEF WorldInv, ProcessNumbers
  <2>2. ASSUME NEW c \in Client, Launch(c)
        PROVE  /\ process' = [process EXCEPT ![c] = <<c, started[c]>>]
               /\ started' = [started EXCEPT ![c] = @ + 1]
    BY <2>2 DEF Launch, NewProcess
  <2>3. ASSUME NEW c \in Client, Launch(c)
        PROVE  /\ ProcessNumbers'
               /\ \A d \in Client : started[d] \in Nat /\ started'[d] \in Nat /\ started[d] <= started'[d]
    <3>1. \A d \in Client : started[d] \in Nat /\ started'[d] \in Nat /\ started[d] <= started'[d]
      BY <1>0, <2>2, <2>3
    <3>2. ProcessNumbers'
      BY <1>0, <2>2, <2>3 DEF WorldInv, ProcessNumbers
    <3> QED BY <3>1, <3>2
  <2> QED BY <2>1, <2>3, LashdLeavesJack
<1>9. JackNumbers'
  <2> SUFFICES ASSUME NEW m \in Name, jack[m].id # None
               PROVE  /\ jack_up /\ Given(jack[m].id, m)
                      /\ jack[m].pid \in Name \X Nat /\ jack[m].pid[1] = m
                      /\ m \in Client => jack[m].pid[2] < started'[m]
    BY <1>1 DEF JackNumbers, Given
  <2>1. /\ jack_up /\ Given(jack[m].id, m) /\ jack[m].pid \in Name \X Nat /\ jack[m].pid[1] = m
        /\ m \in Client => jack[m].pid[2] < started[m]
    BY DEF WorldInv, JackNumbers
  <2>2. jack[m].pid[2] \in Nat
    BY <2>1
  <2> QED BY <1>8, <2>1, <2>2
<1> QED BY <1>4, <1>5, <1>6, <1>7, <1>8, <1>9 DEF WorldInv

------------------------------------------------------------------------------
(* Numbers, in the steps of lashd                                          *)

LEMMA PidOfNumber ==
  ASSUME JackTypes, WorldInv, NEW n \in Name, NEW id \in Id, id # None, Given(id, n)
  PROVE  ClientPid(id) = IF jack[n].id = id THEN jack[n].pid ELSE None
<1>1. ASSUME NEW m \in Name, jack[m].id = id PROVE m = n
  BY <1>1 DEF WorldInv, JackNumbers, Given
<1>2. CASE ClientPid(id) # None
  BY <1>1, <1>2, PidOfClient
<1>3. CASE ClientPid(id) = None /\ jack[n].id = id
  <2> DEFINE m == CHOOSE m \in Name : jack[m].id = id
  <2>1. m \in Name /\ jack[m].id = id /\ ClientPid(id) = jack[m].pid
    BY <1>3 DEF ClientPid
  <2> HIDE DEF m
  <2> QED BY <1>1, <1>3, <2>1
<1> QED BY <1>2, <1>3

LEMMA HeadAppeared ==
  ASSUME TypeInv, WorldInv, Took("appeared")
  PROVE  /\ Head(signals).name \in Name /\ Head(signals).id \in Name \X Nat
         /\ Given(Head(signals).id, Head(signals).name)
         /\ ClientPid(Head(signals).id) # None =>
              /\ jack[Head(signals).name].id = Head(signals).id
              /\ ClientPid(Head(signals).id) = jack[Head(signals).name].pid
         /\ jack[Head(signals).name].id = Head(signals).id =>
              ClientPid(Head(signals).id) = jack[Head(signals).name].pid
         /\ \A n : Appeared(n) = Head(signals) => n = Head(signals).name /\ jack[n].id = Head(signals).id
<1>1. JackTypes /\ signals \in Seq(Signal) /\ signals # <<>> /\ Head(signals).kind = "appeared"
  BY DEF TypeInv, JackTypes, Took
<1>2. Head(signals).name \in Name /\ Head(signals).id \in Name \X Nat
  BY <1>1, HeadType
<1>3. 1 \in DOMAIN signals /\ Head(signals) = signals[1]
  BY <1>1
<1>4. Given(Head(signals).id, Head(signals).name)
  BY <1>1, <1>3 DEF WorldInv, SignalNumbers
<1>5. Head(signals).id # None /\ Head(signals).id \in Id
  BY <1>2, NotNone DEF Id
<1> QED BY <1>1, <1>2, <1>4, <1>5, PidOfNumber, SignalFields

LEMMA GoodNewEntry ==
  ASSUME TypeInv, WorldInv, Took("appeared"), NewEntry \in UnknownEntry
  PROVE  /\ GoodUnknown(NewEntry) /\ NewEntry.name = Head(signals).name
         /\ NewEntry.jackdbus_id = Head(signals).id /\ NewEntry.pid = ClientPid(Head(signals).id)
         /\ jack[NewEntry.name].id = NewEntry.jackdbus_id /\ NewEntry.pid = jack[NewEntry.name].pid
         /\ NewEntry.jackdbus_id # None /\ NewEntry.pid # None
<1>1. /\ NewEntry.name = Head(signals).name /\ NewEntry.jackdbus_id = Head(signals).id
      /\ NewEntry.pid = ClientPid(Head(signals).id)
  BY DEF NewEntry, JackEntry
<1>2. NewEntry.pid \in Name \X Nat /\ NewEntry.jackdbus_id \in Name \X Nat
  BY DEF UnknownEntry
<1>3. NewEntry.pid # None /\ NewEntry.jackdbus_id # None /\ NewEntry.pid[2] \in Nat
  BY <1>2, NotNone
<1>4. /\ Head(signals).name \in Name /\ Given(Head(signals).id, Head(signals).name)
      /\ jack[NewEntry.name].id = NewEntry.jackdbus_id /\ NewEntry.pid = jack[NewEntry.name].pid
  BY <1>1, <1>3, HeadAppeared
<1>5. NewEntry.pid[1] = NewEntry.name /\ (NewEntry.name \in Client => NewEntry.pid[2] < started[NewEntry.name])
  BY <1>1, <1>3, <1>4 DEF WorldInv, JackNumbers
<1>6. NewEntry.pid[2] <= jack[NewEntry.name].pid[2]
  BY <1>3, <1>4
<1> QED BY <1>1, <1>3, <1>4, <1>5, <1>6 DEF GoodUnknown

LEMMA LashdGrows ==
  ASSUME JackTypes, Lashd
  PROVE  \A c \in Client : started[c] \in Nat /\ started'[c] \in Nat /\ started[c] <= started'[c]
<1>0. started \in [Client -> Nat]
  BY DEF JackTypes
<1>1. CASE started' = started
  BY <1>0, <1>1
<1>2. ASSUME NEW c \in Client, Launch(c)
      PROVE  \A d \in Client : started[d] \in Nat /\ started'[d] \in Nat /\ started[d] <= started'[d]
  <2>1. started' = [started EXCEPT ![c] = @ + 1]
    BY <1>2 DEF Launch, NewProcess
  <2> QED BY <1>0, <2>1
<1> QED BY <1>1, <1>2, LashdLeavesJack

LEMMA UnknownKept ==
  ASSUME TypeInv, ListInv, Lashd,
         \A i \in DOMAIN unknown_clients' :
           \/ \E j \in DOMAIN unknown_clients : unknown_clients'[i] = unknown_clients[j]
           \/ GoodUnknown(unknown_clients'[i])
  PROVE  \A i \in DOMAIN unknown_clients' : GoodUnknown(unknown_clients[i])'
<1> SUFFICES ASSUME NEW i \in DOMAIN unknown_clients' PROVE GoodUnknown(unknown_clients[i])'
  OBVIOUS
<1> DEFINE e == unknown_clients'[i]
<1>1. TypeInv'
  BY TypesStay
<1>2. e \in UnknownEntry
  BY <1>1 DEF TypeInv, LashdTypes
<1>3. e.name \in Name /\ e.pid \in Name \X Nat
  BY <1>2 DEF UnknownEntry
<1>4. GoodUnknown(e)
  BY DEF ListInv
<1> HIDE DEF e
<1>5. UNCHANGED <<jack, opened>>
  BY LashdLeavesJack
<1>6. e.name \in Client => e.pid[2] < started'[e.name]
  <2> SUFFICES ASSUME e.name \in Client PROVE e.pid[2] < started'[e.name]
    OBVIOUS
  <2>1. e.pid[2] \in Nat /\ e.pid[2] < started[e.name]
    BY <1>3, <1>4 DEF GoodUnknown
  <2> QED BY <2>1, LashdGrows DEF TypeInv
<1> QED BY <1>4, <1>5, <1>6 DEF GoodUnknown, Given, e

LEMMA KnownKept ==
  ASSUME TypeInv, ListInv, Lashd, owned \subseteq owned',
         \A c \in Client : lash[c].state # "none" => lash'[c].state # "none",
         \A i \in DOMAIN clients' :
           \/ \E j \in DOMAIN clients :
                /\ clients'[i].id = clients[j].id /\ clients'[i].name = clients[j].name
                /\ clients'[i].jackdbus_id = clients[j].jackdbus_id
                /\ clients'[i].old_patches \subseteq clients[j].old_patches
                /\ OfClient(clients'[i].backup_patches, clients[j].id)
           \/ GoodKnown(clients[i])'
  PROVE  \A i \in DOMAIN clients' : GoodKnown(clients[i])'
<1> SUFFICES ASSUME NEW i \in DOMAIN clients', NEW j \in DOMAIN clients,
                    clients'[i].id = clients[j].id, clients'[i].name = clients[j].name,
                    clients'[i].jackdbus_id = clients[j].jackdbus_id,
                    clients'[i].old_patches \subseteq clients[j].old_patches,
                    OfClient(clients'[i].backup_patches, clients[j].id)
             PROVE  GoodKnown(clients[i])'
  OBVIOUS
<1>1. clients[j] \in KnownEntry
  BY DEF TypeInv, LashdTypes
<1>2. clients[j].id \in Client
  BY <1>1 DEF KnownEntry
<1>3. GoodKnown(clients[j])
  BY DEF ListInv
<1>4. opened' = opened
  BY LashdLeavesJack
<1> QED BY <1>2, <1>3, <1>4 DEF GoodKnown, OfClient, Given

LEMMA LashKept ==
  ASSUME TypeInv, ListInv, Lashd, NEW c \in Client,
         lash'[c].pid = lash[c].pid \/ lash'[c].pid = None,
         lash'[c].state = lash[c].state \/ lash'[c].state # "none",
         lash'[c].jack_patches \subseteq lash[c].jack_patches \/ OfClient(lash'[c].jack_patches, c),
         \/ doc'[c] = doc[c] \/ doc'[c] = NotSaved
         \/ lash'[c].state # "none" /\ OfClient(doc'[c], c),
         loaded' = loaded, loaded \/ lash'[c] = lash[c]
  PROVE  GoodLash(c)'
<1>1. lash[c].pid \in Id /\ GoodLash(c)
  BY DEF TypeInv, LashdTypes, LashClient, ListInv
<1>2. lash'[c].pid # None => lash'[c].pid[1] = c /\ lash'[c].pid[2] < started'[c]
  <2> SUFFICES ASSUME lash'[c].pid # None PROVE lash'[c].pid[1] = c /\ lash'[c].pid[2] < started'[c]
    OBVIOUS
  <2>1. lash[c].pid # None /\ lash'[c].pid = lash[c].pid
    OBVIOUS
  <2>2. lash[c].pid[2] \in Nat /\ lash[c].pid[1] = c /\ lash[c].pid[2] < started[c]
    BY <1>1, <2>1 DEF GoodLash, Id
  <2> QED BY <2>1, <2>2, LashdGrows DEF TypeInv
<1> QED BY <1>1, <1>2 DEF GoodLash, OfClient

LEMMA GoodFetched ==
  ASSUME TypeInv, WorldInv, ListInv
  PROVE  GoodGraph(Fetched)
<1>1. JackTypes
  BY DEF TypeInv
<1>2. \A n \in Name : Snapshot.ids[n] = jack[n].id
  BY <1>1, SnapshotType
<1>3. GoodGraph(Snapshot)
  BY <1>2 DEF GoodGraph, WorldInv, JackNumbers
<1> QED BY <1>3 DEF Fetched, ListInv

LEMMA BindingNumbers ==
  ASSUME TypeInv, WorldInv, ListInv, Lashd, NEW e \in UnknownEntry, GoodUnknown(e),
         NEW c \in Client, e.name = c, NEW u, NEW l \in [Client -> LashClient], NEW id, NEW left,
         Binding(e, c, u, l, id, left), l[c].state # "none", l[c].jack_patches = lash[c].jack_patches,
         \A d \in Client : lash[d].state # "none" => l[d].state # "none"
  PROVE  /\ id # None => Given(id, c)
         /\ \A i \in DOMAIN clients' : GoodKnown(clients[i])'
         /\ GoodGraph(graph)'
<1> DEFINE x == BoundEntry(e, c, id, left, l[c].jack_patches)
<1>1. /\ id = IF Fetched = NoGraph THEN e.jackdbus_id ELSE Fetched.ids[c]
      /\ clients' = Append(clients, x) /\ clients \in Seq(KnownEntry)
      /\ left \subseteq l[c].jack_patches /\ owned' = owned \union {c}
      /\ lash' = [l EXCEPT ![c].jack_patches = {}, ![c].jack_client_name = TRUE]
      /\ graph' = NoGraph \/ graph' = Fetched
  BY DEF Binding, TypeInv, LashdTypes
<1>2. id # None => Given(id, c)
  BY <1>1, GoodFetched, ClientsAreNames DEF GoodGraph, GoodUnknown
<1>3. \A d \in Client : lash'[d].state = l[d].state
  BY <1>1
<1>4. opened' = opened
  BY LashdLeavesJack
<1>5. GoodGraph(graph)'
  BY <1>1, <1>4, GoodFetched DEF GoodGraph, Given
<1>6. OfClient(lash[c].jack_patches, c)
  BY DEF ListInv, GoodLash
<1>7. /\ x.id = c /\ x.name = c /\ x.jackdbus_id = id /\ x.old_patches = left
      /\ x.backup_patches = lash[c].jack_patches
  BY DEF BoundEntry
<1> HIDE DEF x
<1>8. PICK n \in DOMAIN clients' :
        /\ clients'[n] = x /\ \A i \in DOMAIN clients' : i \in DOMAIN clients \/ i = n
  BY <1>1, AppendedEntry
<1>9. \A i \in DOMAIN clients : clients'[i] = clients[i]
  BY <1>1, AppendedEntry
<1>10. GoodKnown(clients[n])'
  <2>1. clients[n]' = x
    BY <1>8
  <2>2. lash'[c].state # "none" /\ c \in owned'
    BY <1>1, <1>3
  <2>3. OfClient(left, c)
    BY <1>1, <1>6 DEF OfClient
  <2>4. x.jackdbus_id # None => Given(x.jackdbus_id, x.id)'
    BY <1>2, <1>4, <1>7 DEF Given
  <2> QED BY <1>6, <1>7, <2>1, <2>2, <2>3, <2>4 DEF GoodKnown, OfClient
<1>11. \A i \in DOMAIN clients' : GoodKnown(clients[i])'
  <2>1. \A j \in DOMAIN clients : OfClient(clients[j].backup_patches, clients[j].id)
    BY DEF ListInv, GoodKnown
  <2>2. owned \subseteq owned' /\ \A d \in Client : lash[d].state # "none" => lash'[d].state # "none"
    BY <1>1, <1>3
  <2>3. \A i \in DOMAIN clients' : (i \in DOMAIN clients /\ clients'[i] = clients[i]) \/ i = n
    BY <1>8, <1>9
  <2> QED BY <1>10, <2>1, <2>2, <2>3, KnownKept
<1> QED BY <1>2, <1>5, <1>11

LEMMA DescribedEnds ==
  ASSUME NEW list, NEW e, NEW l, Belongs(e, l)
  PROVE  ById(e.id) \in {Described(list, e, l).src, Described(list, e, l).dest}
<1>1. \A n : EndAt(list, e, n, e.jackdbus_id) = ById(e.id)
  BY DEF EndAt
<1> QED BY <1>1 DEF Described, Belongs

LEMMA SavedNumbers ==
  ASSUME TypeInv, ListInv, NEW g, NEW c \in Client
  PROVE  OfClient(SavedOf(c, g), c)
<1>1. CASE c \in Running /\ HasPatches(c, g)
  <2> DEFINE e == clients[FindById(clients, c)]
  <2>1. e.id = c
    BY <1>1, FoundById DEF HasPatches, TypeInv, LashdTypes
  <2>2. SavedOf(c, g) = {Described(clients, e, l) : l \in LinksOf(e, g)}
    BY <1>1 DEF SavedOf, ClientPatches
  <2> HIDE DEF e
  <2>3. \A l \in LinksOf(e, g) : Belongs(e, l)
    BY DEF LinksOf
  <2> QED BY <2>1, <2>2, <2>3, DescribedEnds DEF OfClient
<1> QED BY <1>1 DEF SavedOf, OfClient

LEMMA JoinedEntries ==
  ASSUME NEW p \in Seq(UnknownEntry), NEW q \in Seq(UnknownEntry), NEW r, r = p \o q
  PROVE  /\ \A i \in DOMAIN p : i \in DOMAIN r /\ r[i] = p[i]
         /\ \A i \in DOMAIN r : (\E j \in DOMAIN p : r[i] = p[j]) \/ \E j \in DOMAIN q : r[i] = q[j]
<1>1. /\ Len(p) \in Nat /\ Len(q) \in Nat /\ DOMAIN p = 1..Len(p) /\ DOMAIN q = 1..Len(q)
      /\ DOMAIN r = 1..Len(p) + Len(q)
      /\ \A i \in 1..Len(p) + Len(q) : r[i] = IF i <= Len(p) THEN p[i] ELSE q[i - Len(p)]
  OBVIOUS
<1>2. \A i \in DOMAIN p : i \in DOMAIN r /\ r[i] = p[i]
  BY <1>1
<1>3. ASSUME NEW i \in DOMAIN r, ~(i <= Len(p)) PROVE \E j \in DOMAIN q : r[i] = q[j]
  <2>1. i - Len(p) \in DOMAIN q /\ r[i] = q[i - Len(p)]
    BY <1>1, <1>3
  <2> QED BY <2>1
<1>4. ASSUME NEW i \in DOMAIN r, i <= Len(p) PROVE i \in DOMAIN p /\ r[i] = p[i]
  BY <1>1, <1>4
<1>5. \A i \in DOMAIN r : (\E j \in DOMAIN p : r[i] = p[j]) \/ \E j \in DOMAIN q : r[i] = q[j]
  BY <1>3, <1>4
<1> QED BY <1>2, <1>5

LEMMA GoodGraphEntries ==
  ASSUME JackTypes, WorldInv, NEW g \in Graph, GoodGraph(g), NEW i \in DOMAIN GraphEntries(g)
  PROVE  GoodUnknown(GraphEntries(g)[i])
<1> DEFINE E(n) == JackEntry(n, g.ids[n], ClientPid(g.ids[n]))
           there == {n \in Name : ClientPid(g.ids[n]) # None}
<1>2. GraphEntries(g) \in Seq({E(n) : n \in there})
  BY GraphEntriesType
<1>3. GraphEntries(g)[i] \in {E(n) : n \in there}
  <2> HIDE DEF E, there
  <2> QED BY <1>2
<1>4. PICK n \in there : GraphEntries(g)[i] = E(n)
  BY <1>3
<1> DEFINE e == GraphEntries(g)[i]
<1>5. e.name = n /\ e.jackdbus_id = g.ids[n] /\ e.pid = ClientPid(g.ids[n])
  BY <1>4 DEF JackEntry
<1> HIDE DEF e
<1>6. n \in Name /\ g.ids[n] \in Id /\ g.ids[n] # None /\ ClientPid(g.ids[n]) # None
  BY <1>4, PidOfClient DEF Graph
<1>7. g # NoGraph
  BY GraphAssumption DEF Graph, Id
<1>8. Given(g.ids[n], n)
  BY <1>6, <1>7 DEF GoodGraph
<1>9. ClientPid(g.ids[n]) = jack[n].pid /\ jack[n].id = g.ids[n]
  BY <1>6, <1>8, PidOfNumber
<1>10. jack[n].pid \in Name \X Nat /\ jack[n].pid[1] = n /\ (n \in Client => jack[n].pid[2] < started[n])
  BY <1>6, <1>9 DEF WorldInv, JackNumbers
<1>11. jack[n].pid[2] <= jack[n].pid[2]
  BY <1>10
<1>12. GoodUnknown(e)
  BY <1>5, <1>8, <1>9, <1>10, <1>11 DEF GoodUnknown
<1> QED BY <1>12 DEF e

LEMMA ConnectedNumbers ==
  ASSUME TypeInv, WorldInv, ListInv, Lashd, NEW c \in Client, Connects(c),
         \A d \in Client : /\ lash'[d].pid = Connected(c)[d].pid /\ lash'[d].state = Connected(c)[d].state
                           /\ lash'[d].jack_patches \subseteq Connected(c)[d].jack_patches
  PROVE  \A d \in Client : GoodLash(d)'
<1>0. lash \in [Client -> LashClient] /\ process \in [Client -> Id] /\ started \in [Client -> Nat]
  BY DEF TypeInv, JackTypes, LashdTypes
<1>1. loaded /\ process[c] # None /\ UNCHANGED <<started, loaded, doc>>
  BY DEF Connects, processVars
<1>2. /\ Connected(c)[c].pid = process[c] /\ Connected(c)[c].state = "running"
      /\ \A d \in Client : /\ Connected(c)[d].jack_patches = lash[d].jack_patches
                           /\ d # c => Connected(c)[d] = lash[d]
  BY <1>0 DEF Connected, LashClient
<1>3. \A d \in Client : d # c => GoodLash(d)'
  BY <1>1, <1>2, LashKept
<1>4. GoodLash(c)'
  <2>1. process[c] \in Name \X Nat /\ process[c][1] = c /\ process[c][2] + 1 = started[c]
    BY <1>0, <1>1 DEF WorldInv, ProcessNumbers, Id
  <2>2. process[c][2] < started[c]
    BY <1>0, <2>1
  <2>3. GoodLash(c)
    BY DEF ListInv
  <2> QED BY <1>1, <1>2, <2>1, <2>2, <2>3 DEF GoodLash, OfClient
<1> QED BY <1>3, <1>4

LEMMA ListStays ==
  ASSUME TypeInv, WorldInv, ListInv, Lashd
  PROVE  ListInv'
<1> DEFINE U == \A i \in DOMAIN unknown_clients' : GoodUnknown(unknown_clients[i])'
           K == \A i \in DOMAIN clients' : GoodKnown(clients[i])'
           L == \A c \in Client : GoodLash(c)'
           G == GoodGraph(graph)'
           Grow == \A c \in Client : lash[c].state # "none" => lash'[c].state # "none"
<1>0. /\ unknown_clients \in Seq(UnknownEntry) /\ clients \in Seq(KnownEntry)
      /\ lash \in [Client -> LashClient] /\ (graph = NoGraph \/ graph \in Graph)
      /\ process \in [Client -> Id] /\ started \in [Client -> Nat] /\ JackTypes
  BY DEF TypeInv, LashdTypes, JackTypes
<1>1. U /\ K /\ L /\ G => ListInv'
  BY DEF ListInv
<1>2. UNCHANGED unknown_clients => U
  BY UnknownKept
<1>3. \A i \in DOMAIN clients : OfClient(clients[i].backup_patches, clients[i].id)
  BY DEF ListInv, GoodKnown
<1>4. UNCHANGED <<clients, owned>> /\ Grow => K
  BY <1>3, KnownKept
<1>5. graph' = graph \/ graph' = NoGraph \/ graph' = Fetched => G
  BY GoodFetched, LashdLeavesJack DEF GoodGraph, Given, ListInv
<1>6. UNCHANGED <<lash, doc, loaded>> => L /\ Grow
  BY LashKept
<1> HIDE DEF U, K, L, G, Grow
<1>7. ASSUME NEW c \in Client, NEW id, NEW left, AppearedBinds(c, id, left) PROVE ListInv'
  <2>1. /\ NewEntry \in UnknownEntry /\ Binding(NewEntry, c, unknown_clients, lash, id, left)
        /\ lash[c].pid = ClientPid(Head(signals).id) /\ lash[c].state \in {"running", "lost"}
        /\ UNCHANGED <<loaded, doc>> /\ Took("appeared")
    BY <1>7, OwnersAreClients DEF AppearedBinds, projectVars
  <2>2. GoodUnknown(NewEntry) /\ NewEntry.pid = lash[c].pid /\ NewEntry.pid # None
    BY <2>1, GoodNewEntry
  <2>3. NewEntry.name = c
    BY <2>2 DEF GoodUnknown, ListInv, GoodLash
  <2>4. K /\ G
    BY <1>0, <2>1, <2>2, <2>3, BindingNumbers DEF K, G
  <2>5. unknown_clients' = unknown_clients /\ lash' = [lash EXCEPT ![c].jack_patches = {}, ![c].jack_client_name = TRUE]
    BY <2>1 DEF Binding
  <2>6. L
    <3>1. loaded
      BY <2>1 DEF ListInv, GoodLash
    <3>2. \A d \in Client : /\ lash'[d].pid = lash[d].pid /\ lash'[d].state = lash[d].state
                            /\ lash'[d].jack_patches \subseteq lash[d].jack_patches
      BY <1>0, <2>5
    <3> QED BY <2>1, <3>1, <3>2, LashKept DEF L
  <2> QED BY <1>1, <1>2, <2>4, <2>5, <2>6
<1>8. CASE AppearedOnly
  <2>1. UNCHANGED <<clients, graph, lash, loaded, doc, owned>>
    BY <1>8 DEF AppearedOnly, projectVars, historyVars
  <2>2. U
    <3>1. CASE unknown_clients' = unknown_clients
      BY <1>2, <3>1
    <3>2. CASE NewEntry \in UnknownEntry /\ unknown_clients' = Append(unknown_clients, NewEntry)
      <4>1. GoodUnknown(NewEntry)
        BY <1>8, <3>2, GoodNewEntry DEF AppearedOnly
      <4>2. \A i \in DOMAIN unknown_clients' :
              unknown_clients'[i] = NewEntry \/ \E j \in DOMAIN unknown_clients : unknown_clients'[i] = unknown_clients[j]
        BY <1>0, <3>2, AppendedEntry
      <4> QED BY <4>1, <4>2, UnknownKept DEF U
    <3> QED BY <1>8, <3>1, <3>2 DEF AppearedOnly
  <2> QED BY <1>1, <1>4, <1>5, <1>6, <2>1, <2>2
<1>9. CASE Took("disappeared") /\ ClientDisappeared(Head(signals))
  <2> DEFINE i == FindByJackdbusId(unknown_clients, Head(signals).id)
  <2>1. /\ UNCHANGED <<clients, graph, lash, loaded, doc, owned>>
        /\ unknown_clients' = IF i = 0 THEN unknown_clients ELSE RemoveAt(unknown_clients, i)
    BY <1>9 DEF ClientDisappeared, projectVars, historyVars
  <2>2. i \in {0} \union DOMAIN unknown_clients
    BY <1>0, FoundByJackdbusId
  <2> HIDE DEF i
  <2>3. U
    <3>1. CASE i # 0
      <4>1. Subset(unknown_clients', unknown_clients, UnknownEntry)
        BY <1>0, <2>1, <2>2, <3>1, OneRemoved
      <4>2. \A k \in DOMAIN unknown_clients' : \E j \in DOMAIN unknown_clients : unknown_clients'[k] = unknown_clients[j]
        BY <4>1 DEF Subset
      <4> QED BY <4>2, UnknownKept DEF U
    <3> QED BY <1>2, <2>1, <3>1
  <2> QED BY <1>1, <1>4, <1>5, <1>6, <2>1, <2>3
<1>10. CASE \/ Took("port") /\ PortAppeared(Head(signals))
            \/ Took("disconnected") /\ PortsDisconnected(Head(signals).link)
  <2>1. UNCHANGED <<clients, unknown_clients, graph, lash, loaded, doc, owned>>
    BY <1>10 DEF PortAppeared, PortsDisconnected, mgrVars, projectVars, historyVars
  <2> QED BY <1>1, <1>2, <1>4, <1>5, <1>6, <2>1
<1>11. CASE Took("connected") /\ PortsConnected(Head(signals).link)
  <2> DEFINE link == Head(signals).link
             new(i) == [clients[i] EXCEPT !.old_patches = OldPatchesLeft(clients, clients[i], {link})]
  <2>1. /\ UNCHANGED <<unknown_clients, graph, lash, loaded, doc, owned>>
        /\ clients' = [i \in DOMAIN clients |-> IF i \in Concerned(link) THEN new(i) ELSE clients[i]]
    BY <1>11 DEF PortsConnected
  <2>2. \A i \in DOMAIN clients : /\ new(i).id = clients[i].id /\ new(i).name = clients[i].name
                                  /\ new(i).jackdbus_id = clients[i].jackdbus_id
                                  /\ new(i).old_patches \subseteq clients[i].old_patches
                                  /\ new(i).backup_patches = clients[i].backup_patches
    <3> SUFFICES ASSUME NEW i \in DOMAIN clients
                 PROVE  /\ new(i).id = clients[i].id /\ new(i).name = clients[i].name
                        /\ new(i).jackdbus_id = clients[i].jackdbus_id
                        /\ new(i).old_patches \subseteq clients[i].old_patches
                        /\ new(i).backup_patches = clients[i].backup_patches
      OBVIOUS
    <3>1. clients[i] \in KnownEntry
      BY <1>0
    <3> QED BY <3>1 DEF KnownEntry, OldPatchesLeft
  <2> HIDE DEF new, link
  <2>3. Grow
    BY <1>6, <2>1
  <2>4. K
    BY <1>3, <2>1, <2>2, <2>3, KnownKept DEF K, Grow
  <2> QED BY <1>1, <1>2, <1>5, <1>6, <2>1, <2>4
<1>12. CASE Took("started") /\ ServerStarted
  <2>1. /\ UNCHANGED <<clients, lash, loaded, doc, owned>> /\ graph' = Fetched
        /\ unknown_clients' = unknown_clients \o (IF Fetched = NoGraph THEN <<>> ELSE GraphEntries(Fetched))
    BY <1>12 DEF ServerStarted, projectVars, historyVars
  <2>2. U
    <3>1. CASE Fetched = NoGraph
      BY <1>0, <1>2, <2>1, <3>1
    <3>2. CASE Fetched \in Graph /\ Fetched # NoGraph
      <4> DEFINE q == GraphEntries(Fetched)
      <4>1. q \in Seq(UnknownEntry)
        BY <1>0, <3>2, GraphEntriesType
      <4>2. \A i \in DOMAIN q : GoodUnknown(q[i])
        BY <1>0, <3>2, GoodFetched, GoodGraphEntries
      <4>3. unknown_clients' = unknown_clients \o q
        BY <2>1, <3>2
      <4> HIDE DEF q
      <4>5. unknown_clients \in Seq(UnknownEntry)
        BY <1>0
      <4>4. \A i \in DOMAIN unknown_clients' : (\E j \in DOMAIN unknown_clients : unknown_clients'[i] = unknown_clients[j])
                                               \/ \E j \in DOMAIN q : unknown_clients'[i] = q[j]
        BY <4>1, <4>3, <4>5, JoinedEntries
      <4> QED BY <4>2, <4>4, UnknownKept DEF U
    <3> QED BY <1>0, <3>1, <3>2, SnapshotType
  <2> QED BY <1>1, <1>4, <1>5, <1>6, <2>1, <2>2
<1>13. CASE Took("stopped") /\ ServerStopped
  <2>1. UNCHANGED <<clients, lash, loaded, doc, owned>> /\ graph' = NoGraph /\ unknown_clients' = <<>>
    BY <1>13 DEF ServerStopped, projectVars, historyVars
  <2>2. U
    BY <2>1, UnknownKept DEF U
  <2> QED BY <1>1, <1>4, <1>5, <1>6, <2>1, <2>2
<1>14. ASSUME NEW c \in Client, NEW i, NEW id, NEW left, ConnectBinds(c, i, id, left) PROVE ListInv'
  <2> DEFINE e == unknown_clients[i]
             l == Connected(c)
  <2>1. /\ Connects(c) /\ i \in DOMAIN unknown_clients /\ e \in UnknownEntry /\ e.pid = process[c]
        /\ Binding(e, c, RemoveAt(unknown_clients, i), l, id, left) /\ process[c] # None
    BY <1>14 DEF ConnectBinds, Connects
  <2>2. GoodUnknown(e)
    BY <2>1 DEF ListInv
  <2>3. /\ unknown_clients' = RemoveAt(unknown_clients, i)
        /\ lash' = [l EXCEPT ![c].jack_patches = {}, ![c].jack_client_name = TRUE]
    BY <2>1 DEF Binding
  <2>4. /\ l \in [Client -> LashClient] /\ l[c].state = "running"
        /\ \A d \in Client : /\ l[d].jack_patches = lash[d].jack_patches
                             /\ lash[d].state # "none" => l[d].state # "none"
    BY <1>0 DEF Connected, LashClient
  <2> HIDE DEF e, l
  <2>5. e.name = c
    BY <2>1, <2>2 DEF GoodUnknown, WorldInv, ProcessNumbers
  <2>6. K /\ G
    BY <2>1, <2>2, <2>4, <2>5, BindingNumbers DEF K, G
  <2>7. U
    <3>1. Subset(unknown_clients', unknown_clients, UnknownEntry)
      BY <1>0, <2>1, <2>3, OneRemoved
    <3>2. \A k \in DOMAIN unknown_clients' : \E j \in DOMAIN unknown_clients : unknown_clients'[k] = unknown_clients[j]
      BY <3>1 DEF Subset
    <3> QED BY <3>2, UnknownKept DEF U
  <2>8. \A d \in Client : /\ lash'[d].pid = l[d].pid /\ lash'[d].state = l[d].state
                          /\ lash'[d].jack_patches \subseteq l[d].jack_patches
    BY <2>3, <2>4
  <2>9. L
    BY <2>1, <2>8, ConnectedNumbers DEF L, l
  <2> QED BY <1>1, <2>6, <2>7, <2>9
<1>15. ASSUME NEW c \in Client, ConnectsOnly(c) PROVE ListInv'
  <2>1. Connects(c) /\ lash' = Connected(c) /\ UNCHANGED <<clients, unknown_clients, graph, owned>>
    BY <1>15 DEF ConnectsOnly, mgrVars, historyVars
  <2>2. L
    BY <2>1, ConnectedNumbers DEF L
  <2>3. Grow
    BY <1>0, <2>1 DEF Connected, Grow, LashClient
  <2> QED BY <1>1, <1>2, <1>4, <1>5, <2>1, <2>2, <2>3
<1>16. ASSUME NEW c \in Client, Disconnect(c) PROVE ListInv'
  <2> DEFINE i == IF lash[c].jack_client_name THEN FindById(clients, c) ELSE 0
             backup == IF i = 0 THEN {} ELSE clients[i].backup_patches
  <2>1. /\ clients' = IF i = 0 THEN clients ELSE RemoveAt(clients, i)
        /\ lash' = [lash EXCEPT ![c].state = "lost", ![c].pid = None,
                                ![c].jack_patches = lash[c].jack_patches \union backup]
        /\ UNCHANGED <<unknown_clients, graph, loaded, doc, owned>> /\ lash[c].state = "running"
    BY <1>0, <1>16 DEF Disconnect, historyVars, Running
  <2>2. i \in {0} \union DOMAIN clients /\ (i # 0 => clients[i].id = c)
    BY <1>0, FoundById
  <2>3. OfClient(backup, c)
    BY <1>3, <2>2 DEF OfClient
  <2> HIDE DEF i, backup
  <2>4. Grow
    BY <1>0, <2>1 DEF Grow, LashClient
  <2>5. K
    <3>1. CASE i = 0
      BY <1>4, <2>1, <2>4, <3>1
    <3>2. CASE i # 0
      <4>1. Subset(clients', clients, KnownEntry)
        BY <1>0, <2>1, <2>2, <3>2, OneRemoved
      <4>2. \A k \in DOMAIN clients' : \E j \in DOMAIN clients : clients'[k] = clients[j]
        BY <4>1 DEF Subset
      <4> QED BY <1>3, <2>1, <2>4, <4>2, KnownKept DEF K, Grow
    <3> QED BY <3>1, <3>2
  <2>6. L
    <3>1. loaded
      BY <2>1 DEF ListInv, GoodLash
    <3>2. OfClient(lash[c].jack_patches, c)
      BY DEF ListInv, GoodLash
    <3>3. /\ lash'[c].pid = None /\ lash'[c].state = "lost"
          /\ lash'[c].jack_patches = lash[c].jack_patches \union backup
          /\ \A d \in Client : d # c => lash'[d] = lash[d]
      BY <1>0, <2>1 DEF LashClient
    <3>4. OfClient(lash'[c].jack_patches, c)
      BY <2>3, <3>2, <3>3 DEF OfClient
    <3> QED BY <2>1, <3>1, <3>3, <3>4, LashKept DEF L
  <2> QED BY <1>1, <1>2, <1>5, <2>1, <2>5, <2>6
<1>17. ASSUME NEW c \in Client, Launch(c) PROVE ListInv'
  <2>1. /\ lash' = [lash EXCEPT ![c].pid = <<c, started[c]>>] /\ started' = [started EXCEPT ![c] = @ + 1]
        /\ UNCHANGED <<clients, unknown_clients, graph, loaded, doc, owned>> /\ lash[c].state = "lost"
    BY <1>0, <1>17 DEF Launch, NewProcess, mgrVars, projectVars, historyVars, Lost
  <2>2. Grow
    BY <1>0, <2>1 DEF Grow, LashClient
  <2>3. /\ lash'[c].pid = <<c, started[c]>> /\ lash'[c].state = lash[c].state
        /\ lash'[c].jack_patches = lash[c].jack_patches
        /\ \A d \in Client : d # c => lash'[d] = lash[d]
    BY <1>0, <2>1 DEF LashClient
  <2>4. loaded
    BY <2>1 DEF ListInv, GoodLash
  <2>5. GoodLash(c)'
    <3>1. <<c, started[c]>>[1] = c /\ <<c, started[c]>>[2] < started'[c]
      BY <1>0, <2>1
    <3>2. GoodLash(c)
      BY DEF ListInv
    <3> QED BY <2>1, <2>3, <2>4, <3>1, <3>2 DEF GoodLash, OfClient
  <2>6. L
    BY <2>1, <2>3, <2>4, <2>5, LashKept DEF L
  <2> QED BY <1>1, <1>2, <1>4, <1>5, <2>1, <2>2, <2>6
<1>18. ASSUME NEW g, g = NoGraph \/ g \in Graph, SaveCompletes(g), UNCHANGED <<unknown_clients, loaded, owned>>,
              graph' = g, g = graph \/ g = Fetched, loaded,
              \A c \in Client : /\ lash'[c].pid = lash[c].pid /\ lash'[c].jack_patches = lash[c].jack_patches
                                /\ lash'[c].state = lash[c].state \/ lash'[c].state # "none"
                                /\ lash[c].state = "running" => lash'[c].state = "running"
       PROVE  ListInv'
  <2>1. /\ doc' = [c \in Client |-> IF c \in Running THEN SavedOf(c, g) ELSE NotSaved]
        /\ DOMAIN clients' = DOMAIN clients
        /\ \A i \in DOMAIN clients :
             clients'[i] = IF IsRenewed(i, g)
                           THEN [clients[i] EXCEPT !.backup_patches = SavedOf(clients[i].id, g)]
                           ELSE clients[i]
    BY <1>0, <1>18, SaveCompletesDoes DEF TypeInv, LashdTypes
  <2>2. \A i \in DOMAIN clients : clients[i] \in KnownEntry /\ clients[i].id \in Client
    BY <1>0, EntriesAreClients DEF KnownEntry
  <2>3. \A i \in DOMAIN clients :
          /\ clients'[i].id = clients[i].id /\ clients'[i].name = clients[i].name
          /\ clients'[i].jackdbus_id = clients[i].jackdbus_id
          /\ clients'[i].old_patches = clients[i].old_patches
          /\ \/ clients'[i].backup_patches = clients[i].backup_patches
             \/ clients'[i].backup_patches = SavedOf(clients[i].id, g)
    BY <2>1, <2>2 DEF KnownEntry
  <2>4. Grow
    BY <1>18 DEF Grow
  <2>5. K
    <3>1. \A i \in DOMAIN clients : OfClient(clients'[i].backup_patches, clients[i].id)
      BY <1>3, <2>2, <2>3, SavedNumbers
    <3> QED BY <1>18, <2>1, <2>3, <2>4, <3>1, KnownKept DEF K, Grow
  <2>6. L
    <3>1. ASSUME NEW c \in Client PROVE GoodLash(c)'
      <4>1. \/ doc'[c] = NotSaved
            \/ lash'[c].state # "none" /\ OfClient(doc'[c], c)
        BY <1>18, <2>1, SavedNumbers DEF Running
      <4> QED BY <1>18, <4>1, LashKept
    <3> QED BY <3>1 DEF L
  <2> QED BY <1>1, <1>2, <1>5, <1>18, <2>5, <2>6
<1>19. CASE Save
  <2>1. /\ graph' = Fetched /\ loaded /\ UNCHANGED <<unknown_clients, loaded, owned>>
        /\ \A c \in Client : /\ lash'[c].pid = lash[c].pid /\ lash'[c].jack_patches = lash[c].jack_patches
                             /\ lash'[c].state = lash[c].state \/ lash'[c].state # "none"
                             /\ lash[c].state = "running" => lash'[c].state = "running"
        /\ SaveCompletes(graph') \/ UNCHANGED <<doc, clients>>
    BY <1>0, <1>19 DEF Save, LashClient, Lost
  <2>2. CASE SaveCompletes(graph')
    <3>1. Fetched = NoGraph \/ Fetched \in Graph
      BY <1>0, SnapshotType
    <3> QED BY <1>18, <2>1, <2>2, <3>1
  <2>3. CASE UNCHANGED <<doc, clients>>
    <3>1. L /\ Grow
      BY <2>1, <2>3, LashKept DEF L, Grow
    <3> QED BY <1>1, <1>2, <1>4, <1>5, <2>1, <2>3, <3>1
  <2> QED BY <2>1, <2>2, <2>3
<1>20. CASE SaveEnds
  <2>1. SaveCompletes(graph) /\ loaded /\ UNCHANGED <<unknown_clients, loaded, owned, graph, lash>>
    BY <1>20 DEF SaveEnds
  <2> QED BY <1>0, <1>18, <2>1
<1>21. CASE LoadEnds
  <2>1. UNCHANGED <<clients, unknown_clients, graph, lash, loaded, doc, owned>>
    BY <1>21 DEF LoadEnds, mgrVars, historyVars
  <2> QED BY <1>1, <1>2, <1>4, <1>5, <1>6, <2>1
<1>22. CASE Close
  <2>1. /\ UNCHANGED <<unknown_clients, graph, doc, owned>> /\ ~loaded'
        /\ \A c \in Client : lash'[c].state = "gone" /\ lash'[c].pid = None /\ lash'[c].jack_patches = {}
        /\ Subset(clients', clients, KnownEntry)
    BY <1>0, <1>22, SomeKept DEF Close, historyVars
  <2>2. \A c \in Client : doc[c] = NotSaved \/ OfClient(doc[c], c)
    BY DEF ListInv, GoodLash
  <2>3. L
    BY <2>1, <2>2 DEF L, GoodLash, OfClient
  <2>4. Grow
    BY <2>1 DEF Grow
  <2>5. \A k \in DOMAIN clients' : \E j \in DOMAIN clients : clients'[k] = clients[j]
    BY <2>1 DEF Subset
  <2>6. K
    BY <1>3, <2>1, <2>4, <2>5, KnownKept DEF K, Grow
  <2> QED BY <1>1, <1>2, <1>5, <2>1, <2>3, <2>6
<1>23. CASE Load
  <2>1. /\ UNCHANGED <<clients, unknown_clients, graph, doc, owned, started>> /\ ~loaded /\ loaded'
        /\ \A c \in Client : IF doc[c] = NotSaved THEN lash'[c] = lash[c]
                             ELSE /\ lash'[c].state = "lost" /\ lash'[c].jack_patches = doc[c]
                                  /\ lash'[c].pid = lash[c].pid
    BY <1>0, <1>23 DEF Load, mgrVars, processVars, LashClient
  <2>2. \A c \in Client : GoodLash(c)
    BY DEF ListInv
  <2>3. L
    BY <2>1, <2>2 DEF L, GoodLash, OfClient
  <2>4. Grow
    BY <2>1 DEF Grow
  <2> QED BY <1>1, <1>2, <1>4, <1>5, <2>1, <2>3, <2>4
<1> QED BY <1>7, <1>8, <1>9, <1>10, <1>11, <1>12, <1>13, <1>14, <1>15, <1>16, <1>17, <1>19, <1>20,
           <1>21, <1>22, <1>23, LashdDoes

LEMMA NumbersHold == Spec => [](TypeInv /\ EntryInv /\ NumberInv)
<1>1. ASSUME Init, TypeInv PROVE NumberInv
  <2>1. /\ \A n \in Name : jack[n] = IF jack_up /\ n \in Foreign
                                     THEN [id |-> <<n, 0>>, pid |-> <<n, 0>>, port |-> TRUE]
                                     ELSE NotThere
        /\ \A n \in Name : opened[n] = IF jack[n].id = None THEN 0 ELSE 1
        /\ wires = {} /\ signals = <<>> /\ \A c \in Client : process[c] = None
        /\ graph = IF jack_up THEN Snapshot ELSE NoGraph
        /\ clients = <<>> /\ loaded
        /\ unknown_clients = IF jack_up THEN GraphEntries(graph) ELSE <<>>
        /\ doc \in Document \union {NoClients}
        /\ \A c \in Client : lash[c] =
             [state |-> IF doc[c] = NotSaved THEN "none" ELSE "lost", pid |-> None,
              jack_patches |-> IF doc[c] = NotSaved THEN {} ELSE doc[c], jack_client_name |-> FALSE]
    BY <1>1 DEF Init
  <2>2. JackNumbers
    <3> SUFFICES ASSUME NEW n \in Name, jack[n].id # None
                 PROVE  /\ jack_up /\ Given(jack[n].id, n)
                        /\ jack[n].pid \in Name \X Nat /\ jack[n].pid[1] = n
                        /\ n \in Client => jack[n].pid[2] < started[n]
      BY DEF JackNumbers
    <3> DEFINE new == [id |-> <<n, 0>>, pid |-> <<n, 0>>, port |-> TRUE]
    <3>4. /\ jack[n] = IF jack_up /\ n \in Foreign THEN new ELSE NotThere
          /\ opened[n] = IF jack[n].id = None THEN 0 ELSE 1
      BY <2>1
    <3>5. new.id = <<n, 0>> /\ new.pid = <<n, 0>> /\ NotThere.id = None
      BY DEF NotThere
    <3> HIDE DEF new
    <3>1. jack_up /\ n \in Foreign /\ jack[n] = new
      BY <3>4, <3>5
    <3>2. jack[n].id = <<n, 0>> /\ jack[n].pid = <<n, 0>> /\ opened[n] = 1
      BY <3>1, <3>4, <3>5
    <3>3. n \notin Client
      BY <3>1, JackAssumption
    <3> QED BY <3>1, <3>2, <3>3 DEF Given
  <2>3. DOMAIN signals = {} /\ DOMAIN clients = {}
    BY <2>1
  <2>4. WorldInv
    BY <2>1, <2>2, <2>3 DEF WorldInv, ProcessNumbers, WiresHavePorts, SignalNumbers, StopsAreFirst, WiresAreNew, Follows
  <2>5. \A c \in Client : GoodLash(c)
    <3>1. \A c \in Client : doc[c] = NotSaved \/ OfClient(doc[c], c)
      BY <2>1, DocumentAssumption DEF NoClients, OfClient
    <3>2. \A c \in Client : /\ lash[c].pid = None /\ (lash[c].state = "none" => doc[c] = NotSaved)
                            /\ lash[c].jack_patches = {} \/ (doc[c] # NotSaved /\ lash[c].jack_patches = doc[c])
      <4> SUFFICES ASSUME NEW c \in Client
                   PROVE  /\ lash[c].pid = None /\ (lash[c].state = "none" => doc[c] = NotSaved)
                          /\ lash[c].jack_patches = {} \/ (doc[c] # NotSaved /\ lash[c].jack_patches = doc[c])
        OBVIOUS
      <4>1. lash[c] = [state |-> IF doc[c] = NotSaved THEN "none" ELSE "lost", pid |-> None,
              jack_patches |-> IF doc[c] = NotSaved THEN {} ELSE doc[c], jack_client_name |-> FALSE]
        BY <2>1
      <4> QED BY <4>1
    <3> QED BY <2>1, <3>1, <3>2 DEF GoodLash, OfClient
  <2>6. JackTypes
    BY <1>1 DEF TypeInv
  <2>7. \A n \in Name : Snapshot.ids[n] = jack[n].id
    BY <2>6, SnapshotType
  <2>8. GoodGraph(graph)
    BY <2>1, <2>2, <2>7 DEF GoodGraph, JackNumbers
  <2>9. \A i \in DOMAIN unknown_clients : GoodUnknown(unknown_clients[i])
    <3>1. CASE ~jack_up
      <4>1. DOMAIN unknown_clients = {}
        BY <2>1, <3>1
      <4> QED BY <4>1
    <3>2. CASE jack_up
      <4>1. graph = Snapshot /\ graph \in Graph /\ unknown_clients = GraphEntries(graph)
        BY <2>1, <2>6, <3>2, SnapshotType
      <4> QED BY <2>4, <2>6, <2>8, <4>1, GoodGraphEntries
    <3> QED BY <3>1, <3>2
  <2> QED BY <2>3, <2>4, <2>5, <2>8, <2>9 DEF NumberInv, ListInv
<1>2. ASSUME TypeInv, NumberInv, [Next]_vars PROVE NumberInv'
  <2>1. CASE Environment
    BY <1>2, <2>1, WorldMoves, ListMoves, TypesStay DEF NumberInv, TypeInv
  <2>2. CASE Lashd
    BY <1>2, <2>2, WorldStays, ListStays DEF NumberInv, TypeInv
  <2>3. CASE UNCHANGED vars
    <3>1. UNCHANGED <<jack_up, jack, wires, opened, process, started, signals, clients,
                      unknown_clients, graph, lash, loaded, doc, owned>>
      BY <2>3 DEF vars, jackVars, processVars, mgrVars, projectVars, historyVars
    <3>2. WorldInv'
      BY <1>2, <3>1 DEF NumberInv, WorldInv, JackNumbers, ProcessNumbers, WiresHavePorts, SignalNumbers,
         StopsAreFirst, WiresAreNew, Given, Appeared, WireMade, LinkSignal, ServerSignal
    <3>3. ListInv'
      BY <1>2, <3>1 DEF NumberInv, ListInv, GoodUnknown, GoodKnown, GoodLash, GoodGraph, Given, OfClient
    <3> QED BY <3>2, <3>3 DEF NumberInv
  <2> QED BY <1>2, <2>1, <2>2, <2>3 DEF Next
<1> QED BY <1>1, <1>2, EntriesHold, PTL DEF Spec

------------------------------------------------------------------------------
(* Running clients are bound                                               *)

LEMMA SignalsGrow ==
  ASSUME JackTypes, Environment
  PROVE  \A s : Queued(signals, s) => Queued(signals', s)
<1>0. signals \in Seq(Signal)
  BY DEF JackTypes
<1>1. ASSUME NEW x, Emits(x) PROVE \A s : Queued(signals, s) => Queued(signals', s)
  BY <1>0, <1>1, QueueGrows DEF Emits
<1>2. (\E x : Emits(x)) \/ signals' = signals
  BY EnvironmentDoes DEF Starts, Stops, Opens, OpensPort, Closes, Wires, Refuses, Unwires, Forks, Ends
<1> QED BY <1>1, <1>2

LEMMA ProcessMoves ==
  ASSUME JackTypes, Environment \/ Lashd, NEW c \in Client
  PROVE  process'[c] \in {process[c], None, <<c, started[c]>>}
<1>0. process \in [Client -> Id]
  BY DEF JackTypes
<1>1. CASE UNCHANGED process
  BY <1>1
<1>2. ASSUME NEW d \in Client, Forks(d) \/ Ends(d) PROVE process'[c] \in {process[c], None, <<c, started[c]>>}
  BY <1>0, <1>2 DEF Forks, Ends
<1>3. ASSUME NEW d \in Client, Launch(d) PROVE process'[c] \in {process[c], None, <<c, started[c]>>}
  BY <1>0, <1>3 DEF Launch, NewProcess
<1>4. CASE Environment
  BY <1>1, <1>2, <1>4, EnvironmentDoes DEF Starts, Stops, Opens, OpensPort, Closes, Wires, Refuses, Unwires
<1>5. CASE Lashd
  BY <1>1, <1>3, <1>5, LashdLeavesJack
<1> QED BY <1>4, <1>5

(* A JACK client's process is not one that is yet to start.                *)
LEMMA ProcessOfClient ==
  ASSUME JackTypes, WorldInv, Environment \/ Lashd, NEW c \in Client, jack[c].id # None, process'[c] = jack[c].pid
  PROVE  process[c] = jack[c].pid
<1>1. jack[c].pid \in Name \X Nat /\ jack[c].pid[2] < started[c] /\ started[c] \in Nat
  BY ClientsAreNames DEF WorldInv, JackNumbers, JackTypes
<1>2. jack[c].pid # None /\ jack[c].pid[2] \in Nat
  BY <1>1, NotNone
<1>3. jack[c].pid # <<c, started[c]>>
  BY <1>1, <1>2
<1> QED BY <1>2, <1>3, ProcessMoves

LEMMA BoundMoves ==
  ASSUME TypeInv, NumberInv, BoundInv, Environment
  PROVE  BoundInv'
<1>0. JackTypes /\ WorldInv
  BY DEF TypeInv, NumberInv
<1>1. UNCHANGED <<clients, unknown_clients, lash>>
  BY <1>0, EnvironmentGrows DEF ExternalStep, mgrVars
<1> SUFFICES ASSUME NEW c \in Client, jack'[c].id # None
             PROVE  /\ lash[c].state \in {"running", "lost"} /\ lash[c].pid = jack'[c].pid =>
                         Bound(c)' # {} \/ Queued(signals', Appeared(c)')
                    /\ lash[c].state = "none" /\ process'[c] = jack'[c].pid =>
                         InUnknown(c)' \/ Queued(signals', Appeared(c)')
  BY <1>1 DEF BoundInv
<1>2. CASE Emits(Appeared(c)')
  <2>1. Queued(signals', Appeared(c)')
    BY <1>0, <1>2, QueueGrows DEF Emits, JackTypes
  <2> QED BY <2>1
<1>3. CASE jack'[c].id = jack[c].id /\ jack'[c].pid = jack[c].pid
  <2>1. Appeared(c)' = Appeared(c) /\ Bound(c)' = Bound(c) /\ (InUnknown(c) => InUnknown(c)')
    BY <1>1, <1>3 DEF Appeared, Bound, InUnknown
  <2>2. process'[c] = jack'[c].pid => process[c] = jack[c].pid
    BY <1>0, <1>3, ProcessOfClient
  <2>3. Queued(signals, Appeared(c)) => Queued(signals', Appeared(c))
    BY <1>0, SignalsGrow
  <2> QED BY <1>3, <2>1, <2>2, <2>3 DEF BoundInv
<1> QED BY <1>0, <1>2, <1>3, EnvironmentGrows, ClientsAreNames

LEMMA BoundKept ==
  ASSUME BoundInv, NEW c \in Client, jack[c].id # None, jack' = jack,
         Queued(signals, Appeared(c)) => Queued(signals', Appeared(c)),
         Bound(c) # {} => Bound(c)' # {}, InUnknown(c) => InUnknown(c)',
         lash'[c].state \in {"running", "lost"} /\ lash'[c].pid = jack[c].pid =>
           lash[c].state \in {"running", "lost"} /\ lash[c].pid = jack[c].pid,
         lash'[c].state = "none" => lash[c].state = "none",
         process'[c] = jack[c].pid => process[c] = jack[c].pid
  PROVE  /\ lash'[c].state \in {"running", "lost"} /\ lash'[c].pid = jack[c].pid =>
              Bound(c)' # {} \/ Queued(signals', Appeared(c))
         /\ lash'[c].state = "none" /\ process'[c] = jack[c].pid =>
              InUnknown(c)' \/ Queued(signals', Appeared(c))
BY DEF BoundInv

LEMMA BoundEntryStays ==
  ASSUME NEW c, jack' = jack,
         \A i \in DOMAIN clients : clients[i].id = c =>
           \E j \in DOMAIN clients' : /\ clients'[j].id = clients[i].id
                                      /\ clients'[j].jackdbus_id = clients[i].jackdbus_id
  PROVE  Bound(c) # {} => Bound(c)' # {}
BY DEF Bound

LEMMA AppearanceKept ==
  ASSUME JackTypes, NEW kind, Took(kind), kind # "appeared", NEW c
  PROVE  Queued(signals, Appeared(c)) => Queued(signals', Appeared(c))
<1>1. signals \in Seq(Signal) /\ signals # <<>> /\ signals' = Tail(signals) /\ Head(signals) # Appeared(c)
  BY SignalFields DEF JackTypes, Took
<1> QED BY <1>1, QueueShrinks

LEMMA BindingBinds ==
  ASSUME TypeInv, WorldInv, jack' = jack, NEW e \in UnknownEntry, NEW d \in Client, e.name = d, NEW u,
         NEW l \in [Client -> LashClient], NEW id, NEW left, Binding(e, d, u, l, id, left)
  PROVE  /\ jack[d].id # None => id = jack[d].id /\ Fetched = Snapshot /\ Bound(d)' # {}
         /\ \A c \in Client : Bound(c) # {} => Bound(c)' # {}
         /\ \A c \in Client : lash'[c].state = l[c].state /\ lash'[c].pid = l[c].pid
<1> DEFINE x == BoundEntry(e, d, id, left, l[d].jack_patches)
<1>1. /\ clients' = Append(clients, x) /\ clients \in Seq(KnownEntry)
      /\ lash' = [l EXCEPT ![d].jack_patches = {}, ![d].jack_client_name = TRUE]
      /\ id = IF Fetched = NoGraph THEN e.jackdbus_id ELSE Fetched.ids[d]
  BY DEF Binding, TypeInv, LashdTypes
<1>2. x.id = d /\ x.jackdbus_id = id
  BY DEF BoundEntry
<1> HIDE DEF x
<1>3. PICK n \in DOMAIN clients' : clients'[n] = x
  BY <1>1, AppendedEntry
<1>4. \A i \in DOMAIN clients : i \in DOMAIN clients' /\ clients'[i] = clients[i]
  BY <1>1, AppendedEntry
<1>5. ASSUME jack[d].id # None PROVE id = jack[d].id /\ Fetched = Snapshot
  <2>1. jack_up
    BY <1>5, ClientsAreNames DEF WorldInv, JackNumbers
  <2>2. Fetched = Snapshot /\ Snapshot # NoGraph /\ Snapshot.ids[d] = jack[d].id
    BY <2>1, SnapshotType, ClientsAreNames DEF Fetched, TypeInv
  <2> QED BY <1>1, <2>2
<1>6. jack[d].id # None => Bound(d)' # {}
  BY <1>2, <1>3, <1>5 DEF Bound
<1>7. \A c \in Client : Bound(c) # {} => Bound(c)' # {}
  BY <1>4, BoundEntryStays
<1>8. \A c \in Client : lash'[c].state = l[c].state /\ lash'[c].pid = l[c].pid
  BY <1>1 DEF LashClient
<1> QED BY <1>5, <1>6, <1>7, <1>8

LEMMA AppearedOwner ==
  ASSUME TypeInv, NumberInv, NEW d \in Client, NEW id, NEW left, AppearedBinds(d, id, left)
  PROVE  /\ GoodUnknown(NewEntry) /\ NewEntry.name = d /\ Head(signals).name = d
         /\ NewEntry.pid = jack[d].pid /\ NewEntry.jackdbus_id = jack[d].id /\ jack[d].id # None
         /\ lash[d].pid = jack[d].pid /\ lash[d].state \in {"running", "lost"}
<1>1. /\ NewEntry \in UnknownEntry /\ Took("appeared")
      /\ lash[d].pid = ClientPid(Head(signals).id) /\ lash[d].state \in {"running", "lost"}
  BY OwnersAreClients DEF AppearedBinds
<1>2. /\ GoodUnknown(NewEntry) /\ NewEntry.name = Head(signals).name /\ NewEntry.pid = lash[d].pid
      /\ jack[NewEntry.name].id = NewEntry.jackdbus_id /\ NewEntry.pid = jack[NewEntry.name].pid
      /\ NewEntry.jackdbus_id # None /\ NewEntry.pid # None
  BY <1>1, GoodNewEntry DEF NumberInv
<1>3. NewEntry.name = d
  BY <1>2 DEF GoodUnknown, NumberInv, ListInv, GoodLash
<1> QED BY <1>1, <1>2, <1>3

LEMMA ConnectedEntry ==
  ASSUME TypeInv, NumberInv, NEW d \in Client, NEW i, NEW id, NEW left, ConnectBinds(d, i, id, left)
  PROVE  /\ unknown_clients[i] \in UnknownEntry /\ GoodUnknown(unknown_clients[i])
         /\ unknown_clients[i].name = d /\ unknown_clients[i].pid = process[d]
<1>1. /\ i \in DOMAIN unknown_clients /\ unknown_clients[i] \in UnknownEntry
      /\ unknown_clients[i].pid = process[d] /\ process[d] # None
  BY DEF ConnectBinds, Connects
<1>2. GoodUnknown(unknown_clients[i])
  BY <1>1 DEF NumberInv, ListInv
<1> QED BY <1>1, <1>2 DEF GoodUnknown, NumberInv, WorldInv, ProcessNumbers

LEMMA BoundStays ==
  ASSUME TypeInv, NumberInv, BoundInv, Lashd
  PROVE  BoundInv'
<1>1. UNCHANGED <<jack_up, jack>> /\ \A n : Appeared(n)' = Appeared(n)
  BY LashdLeavesJack DEF Appeared
<1> DEFINE Goal(c) ==
      /\ lash'[c].state \in {"running", "lost"} /\ lash'[c].pid = jack[c].pid =>
              Bound(c)' # {} \/ Queued(signals', Appeared(c))
      /\ lash'[c].state = "none" /\ process'[c] = jack[c].pid =>
              InUnknown(c)' \/ Queued(signals', Appeared(c))
<1> SUFFICES ASSUME NEW c \in Client, jack[c].id # None PROVE Goal(c)
  BY <1>1 DEF BoundInv
<1>0. /\ unknown_clients \in Seq(UnknownEntry) /\ clients \in Seq(KnownEntry)
      /\ lash \in [Client -> LashClient] /\ process \in [Client -> Id] /\ JackTypes
      /\ signals \in Seq(Signal) /\ WorldInv /\ ListInv
  BY DEF TypeInv, LashdTypes, JackTypes, NumberInv
<1>2. /\ jack[c].pid \in Name \X Nat /\ jack[c].pid[1] = c /\ jack[c].pid # None /\ jack_up
      /\ jack[c].id \in Name \X Nat /\ jack[c].id[1] = c
      /\ started[c] \in Nat /\ jack[c].pid[2] < started[c]
  <2>1. /\ jack[c].pid \in Name \X Nat /\ jack[c].pid[1] = c /\ jack_up /\ jack[c].id[1] = c
        /\ jack[c].pid[2] < started[c]
    BY <1>0, ClientsAreNames DEF WorldInv, JackNumbers, Given
  <2>2. jack[c].id \in Name \X Nat /\ started[c] \in Nat
    BY <1>0, ClientsAreNames DEF JackTypes, JackClient, Id
  <2> QED BY <2>1, <2>2, NotNone
<1>3. process'[c] = jack[c].pid => process[c] = jack[c].pid
  BY <1>0, ProcessOfClient
<1> DEFINE Q == Queued(signals, Appeared(c)) => Queued(signals', Appeared(c))
           B == Bound(c) # {} => Bound(c)' # {}
           U == InUnknown(c) => InUnknown(c)'
           L == /\ lash'[c].state \in {"running", "lost"} /\ lash'[c].pid = jack[c].pid =>
                     lash[c].state \in {"running", "lost"} /\ lash[c].pid = jack[c].pid
                /\ lash'[c].state = "none" => lash[c].state = "none"
<1>4. Q /\ B /\ U /\ L => Goal(c)
  BY <1>1, <1>3, BoundKept
<1>5. UNCHANGED signals => Q
  OBVIOUS
<1>6. ASSUME NEW kind, Took(kind), kind # "appeared" PROVE Q
  BY <1>0, <1>6, AppearanceKept
<1>7. UNCHANGED clients => B
  BY <1>1 DEF Bound
<1>8. UNCHANGED unknown_clients => U
  BY <1>1 DEF InUnknown
<1>9. lash'[c].state = lash[c].state /\ lash'[c].pid = lash[c].pid => L
  OBVIOUS
<1>10. ASSUME \A i \in DOMAIN clients : clients[i].id = c =>
                \E j \in DOMAIN clients' : /\ clients'[j].id = clients[i].id
                                           /\ clients'[j].jackdbus_id = clients[i].jackdbus_id
       PROVE  B
  BY <1>1, <1>10, BoundEntryStays
<1>11. ASSUME NEW i \in DOMAIN unknown_clients, unknown_clients' = RemoveAt(unknown_clients, i),
              unknown_clients[i].jackdbus_id # jack[c].id \/ unknown_clients[i].pid # jack[c].pid
       PROVE  U
  <2>1. \A j \in DOMAIN unknown_clients : j # i =>
           \E k \in DOMAIN unknown_clients' : unknown_clients'[k] = unknown_clients[j]
    BY <1>0, <1>11, OneRemoved
  <2> QED BY <1>1, <1>11, <2>1 DEF InUnknown
<1>12. ASSUME NEW q \in Seq(UnknownEntry), unknown_clients' = unknown_clients \o q PROVE U
  <2>1. \A i \in DOMAIN unknown_clients : i \in DOMAIN unknown_clients' /\ unknown_clients'[i] = unknown_clients[i]
    BY <1>0, <1>12, JoinedEntries
  <2> QED BY <1>1, <2>1 DEF InUnknown
<1> HIDE DEF Q, B, U, L
<1>13. ASSUME NEW d \in Client, NEW id, NEW left, AppearedBinds(d, id, left) PROVE Goal(c)
  <2>1. /\ Took("appeared") /\ NewEntry \in UnknownEntry
        /\ Binding(NewEntry, d, unknown_clients, lash, id, left)
    BY <1>13 DEF AppearedBinds
  <2>2. NewEntry.name = d /\ Head(signals).name = d /\ lash[d].state \in {"running", "lost"}
    BY <1>13, AppearedOwner
  <2>3. /\ jack[d].id # None => Bound(d)' # {}
        /\ Bound(c) # {} => Bound(c)' # {}
        /\ \A x \in Client : lash'[x].state = lash[x].state /\ lash'[x].pid = lash[x].pid
    BY <1>0, <1>1, <2>1, <2>2, BindingBinds
  <2>4. CASE c = d
    BY <2>2, <2>3, <2>4
  <2>5. CASE c # d
    <3>1. Head(signals) # Appeared(c)
      BY <1>0, <2>1, <2>2, <2>5, HeadAppeared
    <3>2. signals # <<>> /\ signals' = Tail(signals)
      BY <2>1 DEF Took
    <3>3. Q
      BY <1>0, <3>1, <3>2, QueueShrinks DEF Q
    <3>4. unknown_clients' = unknown_clients
      BY <2>1 DEF Binding
    <3>5. B
      BY <2>3 DEF B
    <3> QED BY <1>4, <1>8, <1>9, <2>3, <3>3, <3>4, <3>5
  <2> QED BY <2>4, <2>5
<1>14. CASE AppearedOnly
  <2>1. /\ signals # <<>> /\ signals' = Tail(signals) /\ UNCHANGED <<process, clients, lash>> /\ Took("appeared")
    BY <1>14 DEF AppearedOnly, Took, processVars
  <2>2. U
    <3>1. CASE unknown_clients' = unknown_clients
      BY <1>8, <3>1
    <3>2. CASE unknown_clients' = Append(unknown_clients, NewEntry)
      <4>1. \A i \in DOMAIN unknown_clients : i \in DOMAIN unknown_clients' /\ unknown_clients'[i] = unknown_clients[i]
        BY <1>0, <3>2, AppendedEntry
      <4> QED BY <1>1, <4>1 DEF InUnknown, U
    <3> QED BY <1>14, <3>1, <3>2 DEF AppearedOnly
  <2>3. B /\ L
    BY <1>7, <1>9, <2>1
  <2>4. CASE Head(signals) # Appeared(c)
    <3>1. Q
      BY <1>0, <2>1, <2>4, QueueShrinks DEF Q
    <3> QED BY <1>4, <2>2, <2>3, <3>1
  <2>5. CASE Head(signals) = Appeared(c)
    <3>1. c = Head(signals).name /\ jack[c].id = Head(signals).id /\ ClientPid(Head(signals).id) = jack[c].pid
      BY <1>0, <2>1, <2>5, HeadAppeared
    <3>2. /\ OwnersOf(jack[c].pid) = {} /\ NewEntry \in UnknownEntry
          /\ unknown_clients' = Append(unknown_clients, NewEntry)
      BY <1>2, <1>14, <3>1 DEF AppearedOnly
    <3>3. ~(lash[c].state \in {"running", "lost"} /\ lash[c].pid = jack[c].pid)
      BY <3>2, OwnersAreClients DEF Running, Lost
    <3>4. NewEntry.jackdbus_id = jack[c].id /\ NewEntry.pid = jack[c].pid
      BY <3>1 DEF NewEntry, JackEntry
    <3>5. \E n \in DOMAIN unknown_clients' : unknown_clients'[n] = NewEntry
      BY <1>0, <3>2, AppendedEntry
    <3>6. InUnknown(c)'
      BY <1>1, <3>4, <3>5 DEF InUnknown
    <3> QED BY <2>1, <3>3, <3>6
  <2> QED BY <2>4, <2>5
<1>15. CASE Took("disappeared") /\ ClientDisappeared(Head(signals))
  <2> DEFINE i == FindByJackdbusId(unknown_clients, Head(signals).id)
  <2>1. /\ UNCHANGED <<clients, lash>>
        /\ unknown_clients' = IF i = 0 THEN unknown_clients ELSE RemoveAt(unknown_clients, i)
    BY <1>15 DEF ClientDisappeared
  <2>2. i \in {0} \union DOMAIN unknown_clients /\ (i # 0 => unknown_clients[i].jackdbus_id = Head(signals).id)
    BY <1>0, FoundByJackdbusId
  <2> HIDE DEF i
  <2>3. Head(signals).id # jack[c].id
    <3>1. /\ Head(signals).kind = "disappeared" /\ 1 \in DOMAIN signals /\ Head(signals) = signals[1]
      BY <1>0, <1>15 DEF Took
    <3>2. /\ Head(signals).id[1] = Head(signals).name
          /\ Head(signals).id # jack[Head(signals).name].id
      BY <1>0, <3>1 DEF WorldInv, SignalNumbers, Given
    <3> QED BY <1>2, <3>2
  <2>4. U
    BY <1>8, <1>11, <2>1, <2>2, <2>3
  <2> QED BY <1>4, <1>6, <1>7, <1>9, <1>15, <2>1, <2>4
<1>16. CASE \/ Took("port") /\ PortAppeared(Head(signals))
            \/ Took("disconnected") /\ PortsDisconnected(Head(signals).link)
  <2>1. UNCHANGED <<clients, unknown_clients, lash>>
    BY <1>16 DEF PortAppeared, PortsDisconnected, mgrVars
  <2> QED BY <1>4, <1>6, <1>7, <1>8, <1>9, <1>16, <2>1
<1>17. CASE Took("connected") /\ PortsConnected(Head(signals).link)
  <2> DEFINE link == Head(signals).link
             new(i) == [clients[i] EXCEPT !.old_patches = OldPatchesLeft(clients, clients[i], {link})]
  <2>1. /\ UNCHANGED <<unknown_clients, lash>>
        /\ clients' = [i \in DOMAIN clients |-> IF i \in Concerned(link) THEN new(i) ELSE clients[i]]
    BY <1>17 DEF PortsConnected
  <2>2. \A i \in DOMAIN clients : new(i).id = clients[i].id /\ new(i).jackdbus_id = clients[i].jackdbus_id
    BY <1>0 DEF KnownEntry
  <2> HIDE DEF new, link
  <2>3. \A i \in DOMAIN clients : /\ i \in DOMAIN clients' /\ clients'[i].id = clients[i].id
                                  /\ clients'[i].jackdbus_id = clients[i].jackdbus_id
    BY <2>1, <2>2
  <2>4. B
    BY <1>10, <2>3
  <2> QED BY <1>4, <1>6, <1>8, <1>9, <1>17, <2>1, <2>4
<1>18. CASE Took("started") /\ ServerStarted
  <2> DEFINE q == IF Fetched = NoGraph THEN <<>> ELSE GraphEntries(Fetched)
  <2>1. UNCHANGED <<clients, lash>> /\ unknown_clients' = unknown_clients \o q
    BY <1>18 DEF ServerStarted
  <2>2. q \in Seq(UnknownEntry)
    <3>1. Fetched = NoGraph \/ Fetched \in Graph
      BY <1>0, SnapshotType DEF TypeInv, LashdTypes
    <3>2. Fetched \in Graph => GraphEntries(Fetched) \in Seq(UnknownEntry)
      BY <1>0, GraphEntriesType
    <3>3. <<>> \in Seq(UnknownEntry)
      OBVIOUS
    <3> QED BY <3>1, <3>2, <3>3
  <2> HIDE DEF q
  <2>3. U
    BY <1>12, <2>1, <2>2
  <2> QED BY <1>4, <1>6, <1>7, <1>9, <1>18, <2>1, <2>3
<1>19. CASE Took("stopped") /\ ServerStopped
  <2>1. UNCHANGED <<clients, lash>> /\ signals # <<>> /\ signals' = Tail(signals) /\ Head(signals).kind = "stopped"
    BY <1>19 DEF ServerStopped, Took
  <2>2. Head(signals) \in Signal
    BY <1>0, <2>1
  <2>3. Head(signals) = ServerSignal("stopped")
    BY <2>1, <2>2 DEF Signal, ServerSignal
  <2>4. Follows(signals, ServerSignal("stopped"), Appeared(c))
    BY <1>0, ClientsAreNames DEF WorldInv, StopsAreFirst
  <2>5. Queued(signals', Appeared(c))
    BY <1>0, <2>1, <2>3, <2>4, QueueShrinks
  <2> QED BY <2>5
<1>20. ASSUME NEW d \in Client, NEW i, NEW id, NEW left, ConnectBinds(d, i, id, left) PROVE Goal(c)
  <2> DEFINE l == Connected(d)
  <2>1. /\ Binding(unknown_clients[i], d, RemoveAt(unknown_clients, i), l, id, left)
        /\ i \in DOMAIN unknown_clients /\ UNCHANGED signals
    BY <1>20 DEF ConnectBinds, Connects
  <2>2. /\ unknown_clients[i] \in UnknownEntry /\ GoodUnknown(unknown_clients[i])
        /\ unknown_clients[i].name = d /\ unknown_clients[i].pid = process[d]
    BY <1>20, ConnectedEntry
  <2>3. l \in [Client -> LashClient] /\ l[d].state = "running" /\ \A x \in Client : x # d => l[x] = lash[x]
    BY <1>0 DEF Connected, LashClient
  <2> HIDE DEF l
  <2>4. /\ jack[d].id # None => Bound(d)' # {}
        /\ Bound(c) # {} => Bound(c)' # {}
        /\ \A x \in Client : lash'[x].state = l[x].state /\ lash'[x].pid = l[x].pid
    BY <1>0, <1>1, <2>1, <2>2, <2>3, BindingBinds
  <2>5. CASE c = d
    BY <2>3, <2>4, <2>5
  <2>6. CASE c # d
    <3>1. unknown_clients' = RemoveAt(unknown_clients, i)
      BY <2>1 DEF Binding
    <3>2. unknown_clients[i].pid # jack[c].pid
      BY <1>2, <2>2, <2>6 DEF GoodUnknown
    <3>3. U
      BY <1>11, <2>1, <3>1, <3>2
    <3>4. B
      BY <2>4 DEF B
    <3>5. L
      BY <1>9, <2>3, <2>4, <2>6
    <3> QED BY <1>4, <1>5, <2>1, <3>3, <3>4, <3>5
  <2> QED BY <2>5, <2>6
<1>21. ASSUME NEW d \in Client, ConnectsOnly(d) PROVE Goal(c)
  <2>1. /\ lash' = Connected(d) /\ UNCHANGED <<clients, unknown_clients, signals>>
        /\ lash[d].state = "none" \/ (lash[d].state = "lost" /\ lash[d].pid = process[d])
        /\ \A i \in DOMAIN unknown_clients : unknown_clients[i].pid # process[d]
    BY <1>21 DEF ConnectsOnly, Connects, mgrVars
  <2>2. CASE c # d
    <3>1. lash'[c] = lash[c]
      BY <1>0, <2>1, <2>2 DEF Connected
    <3> QED BY <1>4, <1>5, <1>7, <1>8, <1>9, <2>1, <3>1
  <2>3. CASE c = d
    <3>1. lash'[c].state = "running" /\ lash'[c].pid = process[c]
      BY <1>0, <2>1, <2>3 DEF Connected, LashClient
    <3>2. process[c] = jack[c].pid => Bound(c) # {} \/ Queued(signals, Appeared(c))
      BY <2>1, <2>3 DEF BoundInv, InUnknown
    <3>3. B
      BY <1>7, <2>1
    <3> QED BY <2>1, <3>1, <3>2, <3>3 DEF B
  <2> QED BY <2>2, <2>3
<1>22. ASSUME NEW d \in Client, Disconnect(d) PROVE Goal(c)
  <2> DEFINE i == IF lash[d].jack_client_name THEN FindById(clients, d) ELSE 0
             backup == IF i = 0 THEN {} ELSE clients[i].backup_patches
  <2>1. /\ clients' = IF i = 0 THEN clients ELSE RemoveAt(clients, i)
        /\ lash' = [lash EXCEPT ![d].state = "lost", ![d].pid = None,
                                ![d].jack_patches = lash[d].jack_patches \union backup]
        /\ UNCHANGED <<unknown_clients, signals>>
    BY <1>0, <1>22 DEF Disconnect
  <2>2. i \in {0} \union DOMAIN clients /\ (i # 0 => clients[i].id = d)
    BY <1>0, FoundById
  <2> HIDE DEF i, backup
  <2>3. CASE c = d
    <3>1. lash'[c].pid = None /\ lash'[c].state = "lost"
      BY <1>0, <2>1, <2>3 DEF LashClient
    <3> QED BY <1>2, <3>1
  <2>4. CASE c # d
    <3>1. lash'[c] = lash[c]
      BY <1>0, <2>1, <2>4
    <3>2. i # 0 => \A j \in DOMAIN clients : j # i => \E k \in DOMAIN clients' : clients'[k] = clients[j]
      BY <1>0, <2>1, <2>2, OneRemoved
    <3>3. B
      BY <1>10, <2>1, <2>2, <2>4, <3>2
    <3> QED BY <1>4, <1>5, <1>8, <1>9, <2>1, <3>1, <3>3
  <2> QED BY <2>3, <2>4
<1>23. ASSUME NEW d \in Client, Launch(d) PROVE Goal(c)
  <2>1. /\ lash' = [lash EXCEPT ![d].pid = <<d, started[d]>>]
        /\ UNCHANGED <<clients, unknown_clients, signals>> /\ lash[d].state = "lost"
    BY <1>0, <1>23 DEF Launch, NewProcess, mgrVars, Lost
  <2>2. CASE c = d
    <3>1. lash'[c].pid = <<c, started[c]>> /\ lash'[c].state = "lost"
      BY <1>0, <2>1, <2>2 DEF LashClient
    <3>2. jack[c].pid[2] \in Nat /\ jack[c].pid[2] # started[c]
      BY <1>2
    <3>3. jack[c].pid # <<c, started[c]>>
      BY <3>2
    <3> QED BY <3>1, <3>3
  <2>3. CASE c # d
    <3>1. lash'[c] = lash[c]
      BY <1>0, <2>1, <2>3
    <3> QED BY <1>4, <1>5, <1>7, <1>8, <1>9, <2>1, <3>1
  <2> QED BY <2>2, <2>3
<1>24. CASE Save \/ SaveEnds
  <2>1. /\ UNCHANGED <<unknown_clients, signals>>
        /\ \A x \in Client : /\ lash'[x].pid = lash[x].pid
                             /\ lash'[x].state = lash[x].state \/ lash'[x].state = "gone"
        /\ SaveCompletes(graph') \/ UNCHANGED clients
    BY <1>0, <1>24 DEF Save, SaveEnds, LashClient
  <2>2. B
    <3>1. CASE SaveCompletes(graph')
      <4>1. graph' = NoGraph \/ graph' \in Graph
        BY TypesStay DEF TypeInv, LashdTypes
      <4>2. /\ DOMAIN clients' = DOMAIN clients
            /\ \A i \in DOMAIN clients :
                 clients'[i] = IF IsRenewed(i, graph')
                               THEN [clients[i] EXCEPT !.backup_patches = SavedOf(clients[i].id, graph')]
                               ELSE clients[i]
        BY <1>0, <3>1, <4>1, SaveCompletesDoes DEF TypeInv, LashdTypes
      <4>3. \A i \in DOMAIN clients : clients[i] \in KnownEntry
        BY <1>0
      <4>4. \A i \in DOMAIN clients : /\ clients'[i].id = clients[i].id
                                      /\ clients'[i].jackdbus_id = clients[i].jackdbus_id
        BY <4>2, <4>3 DEF KnownEntry
      <4> QED BY <1>10, <4>2, <4>4
    <3> QED BY <1>7, <2>1, <3>1
  <2>3. L
    BY <2>1 DEF L
  <2> QED BY <1>4, <1>5, <1>8, <2>1, <2>2, <2>3
<1>25. CASE LoadEnds
  <2>1. UNCHANGED <<clients, unknown_clients, lash, signals>>
    BY <1>25 DEF LoadEnds, mgrVars
  <2> QED BY <1>4, <1>5, <1>7, <1>8, <1>9, <2>1
<1>26. CASE Close
  <2>1. lash'[c].state = "gone"
    BY <1>26 DEF Close
  <2> QED BY <2>1
<1>27. CASE Load
  <2>1. /\ UNCHANGED <<clients, unknown_clients, signals>> /\ ~loaded /\ lash'[c].pid = lash[c].pid
        /\ lash'[c].state = lash[c].state \/ lash'[c].state = "lost"
    BY <1>0, <1>27 DEF Load, mgrVars, LashClient
  <2>2. lash[c].pid = None
    BY <1>0, <2>1 DEF ListInv, GoodLash
  <2>3. L
    BY <1>2, <2>1, <2>2 DEF L
  <2> QED BY <1>4, <1>5, <1>7, <1>8, <2>1, <2>3
<1> QED BY <1>13, <1>14, <1>15, <1>16, <1>17, <1>18, <1>19, <1>20, <1>21, <1>22, <1>23, <1>24, <1>25,
           <1>26, <1>27, LashdDoes

LEMMA BoundHolds == Spec => []BoundInv
<1>1. ASSUME Init PROVE BoundInv
  <2>1. \A c \in Client : jack[c].id = None
    BY <1>1, JackAssumption, ClientsAreNames DEF Init, NotThere
  <2> QED BY <2>1 DEF BoundInv
<1>2. ASSUME TypeInv, NumberInv, BoundInv, [Next]_vars PROVE BoundInv'
  <2>1. CASE UNCHANGED vars
    BY <1>2, <2>1 DEF vars, jackVars, processVars, mgrVars, projectVars, historyVars, BoundInv, Bound,
       InUnknown, Appeared
  <2> QED BY <1>2, <2>1, BoundMoves, BoundStays DEF Next
<1> QED BY <1>1, <1>2, NumbersHold, PTL DEF Spec

(* However LASH connection, JACK client and signals interleave, the JACK   *)
(* client of a running LASH client's process is bound to it, once all      *)
(* signals were handled: lashd_jackdbus_on_client_appeared looks for the   *)
(* LASH client, server_add_client for the JACK client, and a server that   *)
(* starts or stops changes what they find.                                 *)
THEOREM RunningClientsStayBound == Spec => []RunningClientsAreBound
<1>1. ASSUME BoundInv PROVE RunningClientsAreBound
  <2>1. signals = <<>> => \A s : ~Queued(signals, s)
    BY DEF Queued
  <2> QED BY <1>1, <2>1 DEF BoundInv, RunningClientsAreBound, Quiet, Running
<1> QED BY <1>1, BoundHolds, PTL

------------------------------------------------------------------------------
(* What a save writes                                                      *)

Numbered(e) == e.jackdbus_id # None => Given(e.jackdbus_id, e.id)

LEMMA EndNamed ==
  ASSUME NEW list \in Seq(KnownEntry), \A i \in DOMAIN list : Numbered(list[i]),
         NEW e, Numbered(e), NEW n, NEW id, id # None, Given(id, n)
  PROVE  /\ EndAt(list, e, n, id).of = n
         /\ id = e.jackdbus_id => EndAt(list, e, n, id) = ById(n) /\ e.id = n
<1> DEFINE i == FindByJackdbusId(list, id)
<1>1. i \in {0} \union DOMAIN list /\ (i # 0 => list[i].jackdbus_id = id)
  BY FoundByJackdbusId
<1>2. EndAt(list, e, n, id) = CASE id = e.jackdbus_id -> ById(e.id)
        [] id # e.jackdbus_id /\ i # 0 -> ById(list[i].id)
        [] OTHER -> ByName(n)
  BY DEF EndAt
<1> HIDE DEF i
<1>3. id = e.jackdbus_id => e.id = n
  BY DEF Numbered, Given
<1>4. i # 0 => list[i].id = n
  BY <1>1 DEF Numbered, Given
<1>5. ById(n).of = n /\ ByName(n).of = n
  BY DEF ById, ByName
<1>6. CASE id = e.jackdbus_id
  BY <1>2, <1>3, <1>5, <1>6
<1>7. CASE id # e.jackdbus_id /\ i # 0
  BY <1>2, <1>4, <1>5, <1>7
<1>8. CASE id # e.jackdbus_id /\ i = 0
  BY <1>2, <1>5, <1>8
<1> QED BY <1>6, <1>7, <1>8

LEMMA DescribedWire ==
  ASSUME NEW list \in Seq(KnownEntry), \A i \in DOMAIN list : Numbered(list[i]),
         NEW e, Numbered(e), NEW ids, NEW w,
         ids[w[1]] # None, Given(ids[w[1]], w[1]), ids[w[2]] # None, Given(ids[w[2]], w[2])
  PROVE  /\ Described(list, e, Link(w, ids)).src.of = w[1]
         /\ Described(list, e, Link(w, ids)).dest.of = w[2]
         /\ Belongs(e, Link(w, ids)) <=> e.id \in {w[1], w[2]} /\ e.jackdbus_id = ids[e.id]
<1> DEFINE l == Link(w, ids)
<1>1. l.from = w[1] /\ l.from_id = ids[w[1]] /\ l.to = w[2] /\ l.to_id = ids[w[2]]
  BY DEF Link
<1> HIDE DEF l
<1>2. Described(list, e, l).src = EndAt(list, e, w[1], ids[w[1]])
      /\ Described(list, e, l).dest = EndAt(list, e, w[2], ids[w[2]])
  BY <1>1 DEF Described
<1>3. /\ Described(list, e, l).src.of = w[1] /\ Described(list, e, l).dest.of = w[2]
      /\ ids[w[1]] = e.jackdbus_id => e.id = w[1]
      /\ ids[w[2]] = e.jackdbus_id => e.id = w[2]
  BY <1>2, EndNamed
<1>4. Belongs(e, l) <=> e.jackdbus_id = ids[w[1]] \/ e.jackdbus_id = ids[w[2]]
  BY <1>1 DEF Belongs
<1>5. Belongs(e, l) <=> e.id \in {w[1], w[2]} /\ e.jackdbus_id = ids[e.id]
  BY <1>3, <1>4
<1> QED BY <1>3, <1>5 DEF l

LEMMA WiresWritten ==
  ASSUME TypeInv, NumberInv, NEW c \in Client, NEW i \in Bound(c)
  PROVE  WiresIn({Described(clients, clients[i], l) : l \in LinksOf(clients[i], Snapshot)}) = WiresOf(c)
<1> DEFINE e == clients[i]
           D(w) == Described(clients, e, Link(w, Snapshot.ids))
<1>0. /\ clients \in Seq(KnownEntry) /\ JackTypes /\ wires \subseteq Name \X Name
      /\ i \in DOMAIN clients /\ e.id = c /\ e.jackdbus_id = jack[c].id
  BY DEF TypeInv, LashdTypes, JackTypes, Bound
<1>1. \A j \in DOMAIN clients : Numbered(clients[j])
  BY DEF NumberInv, ListInv, GoodKnown, Numbered
<1>2. Snapshot.wires = wires /\ \A n \in Name : Snapshot.ids[n] = jack[n].id
  BY <1>0, SnapshotType
<1> HIDE DEF e
<1>3. ASSUME NEW w \in wires
      PROVE  /\ D(w).src.of = w[1] /\ D(w).dest.of = w[2]
             /\ Belongs(e, Link(w, Snapshot.ids)) <=> c \in {w[1], w[2]}
  <2>1. w[1] \in Name /\ w[2] \in Name
    BY <1>0
  <2>2. jack[w[1]].id # None /\ jack[w[2]].id # None
    BY <1>0, <2>1 DEF NumberInv, WorldInv, WiresHavePorts, JackTypes, NotThere
  <2>3. Given(jack[w[1]].id, w[1]) /\ Given(jack[w[2]].id, w[2])
    BY <2>1, <2>2 DEF NumberInv, WorldInv, JackNumbers
  <2>4. Numbered(e)
    BY <1>0, <1>1 DEF e
  <2>5. Snapshot.ids[c] = jack[c].id
    BY <1>2, ClientsAreNames
  <2>6. /\ Snapshot.ids[w[1]] # None /\ Given(Snapshot.ids[w[1]], w[1])
        /\ Snapshot.ids[w[2]] # None /\ Given(Snapshot.ids[w[2]], w[2])
    BY <1>2, <2>1, <2>2, <2>3
  <2>7. /\ D(w).src.of = w[1] /\ D(w).dest.of = w[2]
        /\ Belongs(e, Link(w, Snapshot.ids)) <=> e.id \in {w[1], w[2]} /\ e.jackdbus_id = Snapshot.ids[e.id]
    BY <1>0, <1>1, <2>4, <2>6, DescribedWire
  <2> QED BY <1>0, <2>5, <2>7
<1>4. LinksOf(e, Snapshot) = {l \in {Link(w, Snapshot.ids) : w \in wires} : Belongs(e, l)}
  BY <1>2 DEF LinksOf
<1>5. \A w \in wires : w = <<w[1], w[2]>>
  BY <1>0
<1>6. WiresIn({Described(clients, e, l) : l \in LinksOf(e, Snapshot)})
        = {<<Described(clients, e, l).src.of, Described(clients, e, l).dest.of>> : l \in LinksOf(e, Snapshot)}
  BY DEF WiresIn
<1>7. ASSUME NEW l \in LinksOf(e, Snapshot)
      PROVE  <<Described(clients, e, l).src.of, Described(clients, e, l).dest.of>> \in WiresOf(c)
  <2>1. PICK w \in wires : l = Link(w, Snapshot.ids) /\ Belongs(e, l)
    BY <1>4, <1>7
  <2> QED BY <1>3, <1>5, <2>1 DEF WiresOf
<1>8. ASSUME NEW w \in WiresOf(c)
      PROVE  \E l \in LinksOf(e, Snapshot) : w = <<Described(clients, e, l).src.of, Described(clients, e, l).dest.of>>
  <2>1. w \in wires /\ c \in {w[1], w[2]}
    BY DEF WiresOf
  <2>2. Link(w, Snapshot.ids) \in LinksOf(e, Snapshot)
    BY <1>3, <1>4, <2>1
  <2> QED BY <1>3, <1>5, <2>1, <2>2
<1>9. WiresIn({Described(clients, e, l) : l \in LinksOf(e, Snapshot)}) = WiresOf(c)
  BY <1>6, <1>7, <1>8
<1> QED BY <1>9 DEF e

LEMMA OnlySavesEnd ==
  ASSUME TypeInv, Environment \/ Lashd, task = "save", task' = "none"
  PROVE  SaveEnds
<1>1. JackTypes
  BY DEF TypeInv
<1>2. CASE Environment
  <2>1. ExternalStep
    BY <1>2 DEF Environment, JackStart, JackStop, JackOpen, JackPort, JackClose, UserConnects,
         JackDisconnects, JackTakesCall, Start, Exit
  <2> QED BY <2>1 DEF ExternalStep, projectVars
<1>3. CASE HandleSignal
  <2>1. task' = task
    BY <1>3 DEF HandleSignal, ClientAppeared, ClientDisappeared, PortAppeared, PortsConnected,
       PortsDisconnected, ServerStarted, ServerStopped, projectVars
  <2> QED BY <2>1
<1>4. ASSUME NEW c \in Client, Connect(c) \/ Disconnect(c) \/ Launch(c) PROVE FALSE
  BY <1>4 DEF Connect, Disconnect, Launch, projectVars
<1>5. CASE Save \/ LoadEnds \/ Close \/ Load
  BY <1>5 DEF Save, LoadEnds, Close, Load
<1> QED BY <1>2, <1>3, <1>4, <1>5 DEF Lashd

LEMMA EntryOfClient ==
  ASSUME TypeInv, EntryInv, NEW c \in Client \ rebound, NEW i \in DOMAIN clients, clients[i].id = c
  PROVE  FindById(clients, c) = i /\ i # 0
<1>1. clients \in Seq(KnownEntry)
  BY DEF TypeInv, LashdTypes
<1>2. FindById(clients, c) \in DOMAIN clients /\ clients[FindById(clients, c)].id = c /\ 0 \notin DOMAIN clients
  BY <1>1, FoundById
<1> QED BY <1>2 DEF EntryInv, OneEntry

(* A save during which nothing else happens writes, for each client that   *)
(* is bound and that no entry outlived, the wires it has in JACK: the      *)
(* entry that lashd_jackdbus_mgr_get_client_patches finds is the JACK      *)
(* client's, and each end of a patch names the JACK client of the wire.    *)
THEOREM ConnectionsAreSaved == Spec => SavesConnections
<1> DEFINE A == task = "save" /\ task' = "none" /\ Quiet /\ graph = Snapshot =>
                  \A c \in Running \ rebound : Bound(c) # {} => WiresIn(doc'[c]) = WiresOf(c)
<1>1. ASSUME TypeInv, EntryInv, NumberInv, [Next]_vars PROVE [A]_vars
  <2> SUFFICES ASSUME Next, task = "save", task' = "none", graph = Snapshot,
                      NEW c \in Running \ rebound, NEW i \in Bound(c)
               PROVE  WiresIn(doc'[c]) = WiresOf(c)
    BY <1>1 DEF A
  <2>1. SaveEnds
    BY <1>1, OnlySavesEnd DEF Next
  <2>2. c \in Client /\ c \notin rebound /\ lash[c].state = "running" /\ i \in DOMAIN clients /\ clients[i].id = c
    BY DEF Running, Bound
  <2>3. FindById(clients, c) = i /\ i # 0
    BY <1>1, <2>2, EntryOfClient
  <2>4. JackTypes /\ clients \in Seq(KnownEntry) /\ kept \in [Client -> SUBSET Patch]
    BY <1>1 DEF TypeInv, LashdTypes
  <2>5. graph \in Graph /\ graph # NoGraph
    BY <2>4, SnapshotType
  <2>6. lash[c].jack_client_name
    BY <1>1, <2>2 DEF EntryInv, EntryIsNamed
  <2>7. HasPatches(c, graph)
    BY <2>3, <2>5, <2>6 DEF HasPatches
  <2>8. doc' = [d \in Client |-> IF d \in Running THEN SavedOf(d, graph) ELSE NotSaved]
    <3>1. SaveCompletes(graph)
      BY <2>1 DEF SaveEnds
    <3> QED BY <2>4, <2>5, <3>1, SaveCompletesDoes
  <2>9. doc'[c] = {Described(clients, clients[i], l) : l \in LinksOf(clients[i], Snapshot)}
    BY <2>2, <2>3, <2>7, <2>8 DEF SavedOf, ClientPatches
  <2> QED BY <1>1, <2>2, <2>9, WiresWritten
<1> QED BY <1>1, NumbersHold, PTL DEF Spec, SavesConnections, A

------------------------------------------------------------------------------
(* A project that is not marked                                            *)

LEMMA WireMoves ==
  ASSUME JackTypes, WorldInv, Environment, NEW w \in wires'
  PROVE  \/ w \in wires /\ jack'[w[1]].id = jack[w[1]].id /\ jack'[w[2]].id = jack[w[2]].id
         \/ w \in Name \X Name /\ Queued(signals', WireMade(w)')
<1>0. /\ signals \in Seq(Signal) /\ wires \subseteq Name \X Name /\ \A n \in Name : jack[n].id = None => jack[n] = NotThere
  BY DEF JackTypes
<1>1. \A x \in wires : x[1] \in Name /\ x[2] \in Name /\ jack[x[1]].id # None /\ jack[x[2]].id # None
  <2>1. \A x \in wires : x[1] \in Name /\ x[2] \in Name
    BY <1>0
  <2> QED BY <1>0, <2>1 DEF WorldInv, WiresHavePorts, NotThere
<1>2. CASE Starts \/ Stops
  BY <1>2 DEF Starts, Stops
<1>3. ASSUME NEW n \in Name, Opens(n) \/ OpensPort(n) \/ Closes(n)
      PROVE  w \in wires /\ jack'[w[1]].id = jack[w[1]].id /\ jack'[w[2]].id = jack[w[2]].id
  <2>1. w \in wires
    BY <1>3 DEF Opens, OpensPort, Closes
  <2> QED BY <1>1, <1>3, <2>1 DEF Opens, OpensPort, Closes
<1>4. ASSUME NEW x \in Name \X Name, Wires(x)
      PROVE  \/ w \in wires /\ jack'[w[1]].id = jack[w[1]].id /\ jack'[w[2]].id = jack[w[2]].id
             \/ w \in Name \X Name /\ Queued(signals', WireMade(w)')
  <2>1. jack' = jack /\ wires' = wires \union {x} /\ Emits(WireMade(x))
    BY <1>4 DEF Wires
  <2>2. WireMade(x)' = WireMade(x)
    BY <2>1, SameWire
  <2>3. Queued(signals', WireMade(x))
    BY <1>0, <2>1, QueueGrows DEF Emits
  <2>4. w \in wires \/ w = x
    BY <2>1
  <2>5. CASE w = x
    BY <2>2, <2>3, <2>5
  <2> QED BY <2>1, <2>4, <2>5
<1>5. ASSUME NEW x \in Name \X Name, Refuses(x) \/ Unwires(x)
      PROVE  w \in wires /\ jack' = jack
  BY <1>5 DEF Refuses, Unwires
<1>6. ASSUME NEW d \in Client, Forks(d) \/ Ends(d)
      PROVE  w \in wires /\ jack' = jack
  BY <1>6 DEF Forks, Ends
<1> QED BY <1>2, <1>3, <1>4, <1>5, <1>6, EnvironmentDoes

LEMMA WireBehind ==
  ASSUME JackTypes, WorldInv, signals # <<>>, signals' = Tail(signals), NEW w \in wires,
         \/ \E n \in {w[1], w[2]} : Head(signals) = Appeared(n)
         \/ Head(signals) = ServerSignal("stopped")
  PROVE  Queued(signals', WireMade(w))
<1>1. signals \in Seq(Signal)
  BY DEF JackTypes
<1>2. PICK s : Head(signals) = s /\ Follows(signals, s, WireMade(w))
  BY DEF WorldInv, WiresAreNew
<1> QED BY <1>1, <1>2, QueueShrinks

LEMMA WireKept ==
  ASSUME JackTypes, NEW kind, Took(kind), kind # "connected", NEW w \in Name \X Name
  PROVE  Queued(signals, WireMade(w)) => Queued(signals', WireMade(w))
<1>1. signals \in Seq(Signal) /\ signals # <<>> /\ signals' = Tail(signals) /\ Head(signals) # WireMade(w)
  BY SignalFields DEF JackTypes, Took
<1> QED BY <1>1, QueueShrinks

LEMMA BoundEntryWas ==
  ASSUME NEW c, jack' = jack,
         \A j \in DOMAIN clients' : clients'[j].id = c =>
           \E i \in DOMAIN clients : /\ clients[i].id = clients'[j].id
                                     /\ clients[i].jackdbus_id = clients'[j].jackdbus_id
  PROVE  Bound(c)' # {} => Bound(c) # {}
BY DEF Bound

(* Who was bound while the environment moves: a new JACK client has a new  *)
(* number.                                                                 *)
LEMMA BoundWas ==
  ASSUME TypeInv, NumberInv, Environment, NEW c \in Client
  PROVE  /\ Bound(c)' # {} => jack'[c].id = jack[c].id /\ jack'[c].id # None
         /\ Bound(c)' \subseteq Bound(c)
<1>0. JackTypes /\ WorldInv /\ opened \in [Name -> Nat] /\ c \in Name
  BY ClientsAreNames DEF TypeInv, NumberInv, JackTypes
<1>1. clients' = clients
  BY <1>0, EnvironmentGrows DEF ExternalStep, mgrVars
<1> SUFFICES ASSUME NEW i \in DOMAIN clients, clients[i].id = c, clients[i].jackdbus_id # None,
                    clients[i].jackdbus_id = jack'[c].id
             PROVE  jack'[c].id = jack[c].id
  BY <1>1 DEF Bound
<1>2. Given(clients[i].jackdbus_id, c)
  BY DEF NumberInv, ListInv, GoodKnown
<1>3. jack'[c].id # <<c, opened[c]>>
  BY <1>0, <1>2 DEF Given
<1>4. jack'[c].id \in {jack[c].id, None, <<c, opened[c]>>}
  <2>1. CASE Starts \/ Stops
    BY <1>0, <2>1 DEF Starts, Stops, NotThere
  <2>2. ASSUME NEW n \in Name, Opens(n) \/ OpensPort(n) \/ Closes(n)
        PROVE  jack'[c].id \in {jack[c].id, None, <<c, opened[c]>>}
    BY <1>0, <2>2 DEF Opens, OpensPort, Closes, NotThere
  <2>3. ASSUME NEW x \in Name \X Name, Wires(x) \/ Refuses(x) \/ Unwires(x) PROVE jack' = jack
    BY <2>3 DEF Wires, Refuses, Unwires
  <2>4. ASSUME NEW d \in Client, Forks(d) \/ Ends(d) PROVE jack' = jack
    BY <2>4 DEF Forks, Ends
  <2> QED BY <1>0, <2>1, <2>2, <2>3, <2>4, EnvironmentDoes
<1> QED BY <1>3, <1>4

LEMMA MarkMoves ==
  ASSUME TypeInv, NumberInv, MarkInv, Environment
  PROVE  MarkInv'
<1>0. JackTypes /\ WorldInv /\ wires \subseteq Name \X Name
  BY DEF TypeInv, NumberInv, JackTypes
<1>1. UNCHANGED <<clients, graph, lash, loaded, task, doc, modified, rebound, missed>>
  BY <1>0, EnvironmentGrows DEF ExternalStep, mgrVars, projectVars, historyVars
<1> SUFFICES ASSUME loaded, ~missed, NEW c \in Client, lash[c].state \in {"running", "lost"}, c \notin rebound,
                    Bound(c)' # {}, NEW w \in wires', c \in {w[1], w[2]}
             PROVE  /\ task = "load" \/ (task = "none" /\ ~modified) =>
                         doc[c] = NotSaved \/ w \in WiresIn(doc[c]) \/ Queued(signals', WireMade(w)')
                    /\ task = "save" => InGraph(w)' \/ Queued(signals', WireMade(w)')
  BY <1>1 DEF MarkInv, Running, Lost, WiresOf
<1>2. CASE Queued(signals', WireMade(w)')
  BY <1>2
<1>3. CASE w \in wires /\ jack'[w[1]].id = jack[w[1]].id /\ jack'[w[2]].id = jack[w[2]].id
  <2>1. Bound(c) # {}
    BY BoundWas
  <2>2. /\ task = "load" \/ (task = "none" /\ ~modified) =>
             doc[c] = NotSaved \/ w \in WiresIn(doc[c]) \/ Queued(signals, WireMade(w))
        /\ task = "save" => InGraph(w) \/ Queued(signals, WireMade(w))
    BY <1>3, <2>1 DEF MarkInv, Running, Lost, WiresOf
  <2>3. w \in Name \X Name
    BY <1>0, <1>3
  <2>4. WireMade(w)' = WireMade(w)
    BY <1>3, <2>3, SameWire
  <2>5. Queued(signals, WireMade(w)) => Queued(signals', WireMade(w))
    BY <1>0, SignalsGrow
  <2>6. InGraph(w) => InGraph(w)'
    BY <1>1, <1>3 DEF InGraph
  <2> QED BY <2>2, <2>4, <2>5, <2>6
<1> QED BY <1>0, <1>2, <1>3, WireMoves

LEMMA PatchesDropped ==
  ASSUME TypeInv, NEW l, PortsConnected(l)
  PROVE  /\ DOMAIN clients' = DOMAIN clients
         /\ \A i \in DOMAIN clients :
              /\ clients'[i].id = clients[i].id /\ clients'[i].name = clients[i].name
              /\ clients'[i].jackdbus_id = clients[i].jackdbus_id
              /\ clients'[i].old_patches = IF i \in Concerned(l)
                                           THEN OldPatchesLeft(clients, clients[i], {l})
                                           ELSE clients[i].old_patches
<1> DEFINE new(i) == [clients[i] EXCEPT !.old_patches = OldPatchesLeft(clients, clients[i], {l})]
<1>0. \A i \in DOMAIN clients : clients[i] \in KnownEntry
  BY DEF TypeInv, LashdTypes
<1>1. clients' = [i \in DOMAIN clients |-> IF i \in Concerned(l) THEN new(i) ELSE clients[i]]
  BY DEF PortsConnected
<1>2. \A i \in DOMAIN clients : /\ new(i).id = clients[i].id /\ new(i).name = clients[i].name
                                /\ new(i).jackdbus_id = clients[i].jackdbus_id
                                /\ new(i).old_patches = OldPatchesLeft(clients, clients[i], {l})
  BY <1>0 DEF KnownEntry
<1> HIDE DEF new
<1> QED BY <1>1, <1>2

LEMMA BackupsRenewed ==
  ASSUME TypeInv, NEW g, g = NoGraph \/ g \in Graph, SaveCompletes(g)
  PROVE  /\ DOMAIN clients' = DOMAIN clients
         /\ \A i \in DOMAIN clients :
              /\ clients'[i].id = clients[i].id /\ clients'[i].name = clients[i].name
              /\ clients'[i].jackdbus_id = clients[i].jackdbus_id
              /\ clients'[i].old_patches = clients[i].old_patches
         /\ doc' = [c \in Client |-> IF c \in Running THEN SavedOf(c, g) ELSE NotSaved]
         /\ modified' = FALSE
<1>0. clients \in Seq(KnownEntry) /\ kept \in [Client -> SUBSET Patch] /\ \A i \in DOMAIN clients : clients[i] \in KnownEntry
  BY DEF TypeInv, LashdTypes
<1>1. /\ DOMAIN clients' = DOMAIN clients
      /\ \A i \in DOMAIN clients :
           clients'[i] = IF IsRenewed(i, g)
                         THEN [clients[i] EXCEPT !.backup_patches = SavedOf(clients[i].id, g)]
                         ELSE clients[i]
      /\ doc' = [c \in Client |-> IF c \in Running THEN SavedOf(c, g) ELSE NotSaved]
      /\ modified' = FALSE
  BY <1>0, SaveCompletesDoes
<1> QED BY <1>0, <1>1 DEF KnownEntry

(* The entry that a binding adds is the only one that is new.              *)
LEMMA BindingAdds ==
  ASSUME TypeInv, jack' = jack, NEW e, NEW d \in Client, NEW u, NEW l, NEW id, NEW left,
         Binding(e, d, u, l, id, left), NEW c, c # d
  PROVE  Bound(c)' # {} => Bound(c) # {}
<1> DEFINE x == BoundEntry(e, d, id, left, l[d].jack_patches)
<1>1. clients' = Append(clients, x) /\ clients \in Seq(KnownEntry)
  BY DEF Binding, TypeInv, LashdTypes
<1>2. x.id = d
  BY DEF BoundEntry
<1> HIDE DEF x
<1>3. \A i \in DOMAIN clients' : (i \in DOMAIN clients /\ clients'[i] = clients[i]) \/ clients'[i] = x
  BY <1>1, AppendedEntry
<1> QED BY <1>2, <1>3, BoundEntryWas

LEMMA AppearedRecord ==
  ASSUME NEW s \in Signal, s.kind = "appeared"
  PROVE  s = [kind |-> "appeared", name |-> s.name, id |-> s.id]
BY DEF Signal

(* A wire of a bound client that is in the graph is written by the save.   *)
LEMMA WireIsSaved ==
  ASSUME TypeInv, EntryInv, NumberInv, NEW c \in Running \ rebound, Bound(c) # {},
         NEW w \in wires, c \in {w[1], w[2]}, InGraph(w)
  PROVE  w \in WiresIn(SavedOf(c, graph))
<1>1. PICK i \in Bound(c) : TRUE
  OBVIOUS
<1>2. /\ c \in Client \ rebound /\ lash[c].state = "running" /\ i \in DOMAIN clients
      /\ clients[i].id = c /\ clients[i].jackdbus_id = jack[c].id
  BY <1>1 DEF Running, Bound
<1>3. FindById(clients, c) = i /\ i # 0
  BY <1>2, EntryOfClient
<1>4. HasPatches(c, graph)
  BY <1>2, <1>3 DEF HasPatches, InGraph, EntryInv, EntryIsNamed
<1>5. SavedOf(c, graph) = {Described(clients, clients[i], l) : l \in LinksOf(clients[i], graph)}
  BY <1>3, <1>4 DEF SavedOf, ClientPatches
<1>6. /\ clients \in Seq(KnownEntry) /\ JackTypes /\ w \in Name \X Name /\ w[1] \in Name /\ w[2] \in Name
  BY DEF TypeInv, LashdTypes, JackTypes
<1>7. jack[w[1]].id # None /\ jack[w[2]].id # None
  BY <1>6 DEF NumberInv, WorldInv, WiresHavePorts, JackTypes, NotThere
<1>8. Given(jack[w[1]].id, w[1]) /\ Given(jack[w[2]].id, w[2])
  BY <1>6, <1>7 DEF NumberInv, WorldInv, JackNumbers
<1>9. /\ graph.ids[w[1]] = jack[w[1]].id /\ graph.ids[w[2]] = jack[w[2]].id /\ w \in graph.wires
  BY DEF InGraph
<1>10. \A j \in DOMAIN clients : Numbered(clients[j])
  BY DEF NumberInv, ListInv, GoodKnown, Numbered
<1> DEFINE l == Link(w, graph.ids)
<1>11. /\ Described(clients, clients[i], l).src.of = w[1] /\ Described(clients, clients[i], l).dest.of = w[2]
       /\ Belongs(clients[i], l)
  BY <1>2, <1>6, <1>7, <1>8, <1>9, <1>10, DescribedWire
<1>12. l \in LinksOf(clients[i], graph)
  BY <1>9, <1>11 DEF LinksOf
<1> HIDE DEF l
<1> QED BY <1>5, <1>6, <1>11, <1>12 DEF WiresIn

LEMMA MarkStays ==
  ASSUME TypeInv, EntryInv, NumberInv, BoundInv, MarkInv, Lashd
  PROVE  MarkInv'
<1>0. /\ unknown_clients \in Seq(UnknownEntry) /\ clients \in Seq(KnownEntry)
      /\ lash \in [Client -> LashClient] /\ process \in [Client -> Id] /\ JackTypes
      /\ signals \in Seq(Signal) /\ WorldInv /\ ListInv /\ wires \subseteq Name \X Name
      /\ rebound \subseteq Client /\ (graph = NoGraph \/ graph \in Graph)
      /\ {loaded, modified, missed} \subseteq BOOLEAN
  BY DEF TypeInv, LashdTypes, JackTypes, NumberInv
<1>1. UNCHANGED <<jack_up, jack, wires>> /\ \A w : WireMade(w)' = WireMade(w)
  BY LashdLeavesJack DEF WireMade, LinkSignal, Link
<1> DEFINE Unmarked(c, w) == task' = "load" \/ (task' = "none" /\ ~modified') =>
                               doc'[c] = NotSaved \/ w \in WiresIn(doc'[c]) \/ Queued(signals', WireMade(w))
           Saving(w) == task' = "save" => InGraph(w)' \/ Queued(signals', WireMade(w))
<1> SUFFICES ASSUME loaded', ~missed', NEW c \in Client, lash'[c].state \in {"running", "lost"}, c \notin rebound',
                    Bound(c)' # {}, NEW w \in wires, c \in {w[1], w[2]}
             PROVE  Unmarked(c, w) /\ Saving(w)
  BY <1>1 DEF MarkInv, Running, Lost, WiresOf
<1>2. /\ loaded /\ ~missed /\ lash[c].state \in {"running", "lost"} /\ c \notin rebound /\ Bound(c) # {} =>
           /\ task = "load" \/ (task = "none" /\ ~modified) =>
                doc[c] = NotSaved \/ w \in WiresIn(doc[c]) \/ Queued(signals, WireMade(w))
           /\ task = "save" => InGraph(w) \/ Queued(signals, WireMade(w))
  BY DEF MarkInv, Running, Lost, WiresOf
<1>3. jack[c].id # None /\ jack_up /\ Fetched = Snapshot
  <2>1. jack[c].id # None
    BY <1>1 DEF Bound
  <2> QED BY <1>0, <2>1, ClientsAreNames DEF WorldInv, JackNumbers, Fetched
<1>4. graph' = Snapshot => InGraph(w)'
  <2>1. w[1] \in Name /\ w[2] \in Name
    BY <1>0
  <2> QED BY <1>0, <1>1, <2>1, SnapshotType DEF InGraph
<1>5. graph' = graph => (InGraph(w) => InGraph(w)')
  BY <1>1 DEF InGraph
<1> DEFINE Q == Queued(signals, WireMade(w)) => Queued(signals', WireMade(w))
           B == Bound(c) # {}
           L == loaded /\ lash[c].state \in {"running", "lost"} /\ c \notin rebound
           M == ~missed
           D == task' = task /\ doc' = doc /\ (modified => modified')
           G == graph' = graph \/ graph' = Snapshot
<1>6. Q /\ B /\ L /\ M /\ D => Unmarked(c, w)
  BY <1>0, <1>2
<1>7. Q /\ B /\ L /\ M /\ D /\ G => Saving(w)
  BY <1>2, <1>4, <1>5
<1>8. ASSUME NEW kind, Took(kind), kind # "connected" PROVE Q
  BY <1>0, <1>8, WireKept
<1>9. UNCHANGED clients => B
  BY <1>1 DEF Bound
<1>10. ASSUME \A j \in DOMAIN clients' : clients'[j].id = c =>
                \E i \in DOMAIN clients : /\ clients[i].id = clients'[j].id
                                          /\ clients[i].jackdbus_id = clients'[j].jackdbus_id
       PROVE  B
  BY <1>1, <1>10, BoundEntryWas
<1>11. UNCHANGED <<lash, loaded, rebound>> => L
  OBVIOUS
<1>12. UNCHANGED missed => M
  OBVIOUS
<1>13. UNCHANGED projectVars => D
  BY DEF projectVars
<1>14. UNCHANGED signals => Q
  OBVIOUS
<1> HIDE DEF Q, B, L, M, D, G, Unmarked, Saving
<1>15. ASSUME NEW d \in Client, NEW id, NEW left, AppearedBinds(d, id, left) PROVE Unmarked(c, w) /\ Saving(w)
  <2>1. /\ Took("appeared") /\ NewEntry \in UnknownEntry /\ UNCHANGED projectVars
        /\ Binding(NewEntry, d, unknown_clients, lash, id, left)
    BY <1>15 DEF AppearedBinds
  <2>2. /\ NewEntry.name = d /\ Head(signals).name = d /\ lash[d].state \in {"running", "lost"}
        /\ jack[d].id # None /\ NewEntry.jackdbus_id = jack[d].id
    BY <1>15, AppearedOwner
  <2>3. id = jack[d].id /\ Fetched = Snapshot
    <3>1. Snapshot.ids[d] = jack[d].id /\ Snapshot # NoGraph
      BY <1>0, SnapshotType, ClientsAreNames DEF Snapshot
    <3>2. id = IF Fetched = NoGraph THEN NewEntry.jackdbus_id ELSE Fetched.ids[NewEntry.name]
      BY <2>1 DEF Binding
    <3> QED BY <1>3, <2>2, <3>1, <3>2
  <2>4. graph' = Snapshot /\ missed' = missed
    BY <1>0, <2>1, <2>2, <2>3, SnapshotType DEF Binding
  <2>5. Q /\ D /\ M /\ G
    BY <1>8, <1>12, <1>13, <2>1, <2>4 DEF G
  <2>6. Saving(w)
    BY <1>4, <2>4 DEF Saving
  <2>7. CASE c # d
    <3>1. B
      BY <1>1, <2>1, <2>7, BindingAdds DEF B
    <3>2. L
      BY <1>0, <2>1, <2>7 DEF L, Binding, projectVars
    <3> QED BY <1>6, <2>5, <2>6, <3>1, <3>2
  <2>8. CASE c = d
    <3>1. Head(signals) = Appeared(d)
      <4>1. Head(signals) \in Signal /\ Head(signals).kind = "appeared" /\ signals # <<>>
        BY <1>0, <2>1, HeadType DEF Took
      <4>2. Head(signals).id = jack[d].id
        BY <2>2 DEF NewEntry, JackEntry
      <4>3. Head(signals) = [kind |-> "appeared", name |-> Head(signals).name, id |-> Head(signals).id]
        BY <4>1, AppearedRecord
      <4> QED BY <2>2, <4>2, <4>3 DEF Appeared
    <3>2. Queued(signals', WireMade(w))
      BY <1>0, <2>1, <2>8, <3>1, WireBehind DEF Took
    <3> QED BY <2>6, <3>2 DEF Unmarked
  <2> QED BY <2>7, <2>8
<1>16. CASE AppearedOnly
  <2>1. /\ Took("appeared")
        /\ UNCHANGED <<clients, graph, lash, projectVars, rebound, missed, loaded>>
    BY <1>16 DEF AppearedOnly, historyVars, projectVars
  <2>2. G
    BY <2>1 DEF G
  <2> QED BY <1>6, <1>7, <1>8, <1>9, <1>11, <1>12, <1>13, <2>1, <2>2
<1>17. CASE \/ Took("disappeared") /\ ClientDisappeared(Head(signals))
            \/ Took("port") /\ PortAppeared(Head(signals))
  <2>1. UNCHANGED <<clients, graph, lash, projectVars, rebound, missed, loaded>>
    BY <1>17 DEF ClientDisappeared, PortAppeared, mgrVars, projectVars, historyVars
  <2>2. G
    BY <2>1 DEF G
  <2> QED BY <1>6, <1>7, <1>8, <1>9, <1>11, <1>12, <1>13, <1>17, <2>1, <2>2
<1>18. CASE Took("connected") /\ PortsConnected(Head(signals).link)
  <2> DEFINE l == Head(signals).link
  <2>1. /\ DOMAIN clients' = DOMAIN clients
        /\ \A i \in DOMAIN clients : /\ clients'[i].id = clients[i].id
                                     /\ clients'[i].jackdbus_id = clients[i].jackdbus_id
    BY <1>18, PatchesDropped
  <2>2. /\ UNCHANGED <<graph, lash, loaded, task, doc, rebound>> /\ MarkModified(Concerned(l))
    BY <1>18 DEF PortsConnected
  <2>3. B
    BY <1>10, <2>1
  <2>4. L /\ D /\ M /\ G
    <3>1. (modified => modified') /\ (missed => missed')
      BY <2>2 DEF MarkModified
    <3> QED BY <1>0, <1>11, <2>2, <3>1 DEF D, M, G
  <2>5. CASE Head(signals) # WireMade(w)
    <3>1. Q
      BY <1>0, <1>18, <2>5, QueueShrinks DEF Took, Q
    <3> QED BY <1>6, <1>7, <2>3, <2>4, <3>1
  <2>6. CASE Head(signals) = WireMade(w)
    <3>1. l.from_id = jack[w[1]].id /\ l.to_id = jack[w[2]].id
      <4>1. w \in Name \X Name /\ jack \in [Name -> JackClient]
        BY <1>0 DEF WorldInv, JackTypes
      <4>2. WireMade(w).link = Link(w, [n \in Name |-> jack[n].id])
        BY DEF WireMade, LinkSignal
      <4>3. l = Link(w, [n \in Name |-> jack[n].id])
        BY <2>6, <4>2
      <4>4. w[1] \in Name /\ w[2] \in Name
        BY <4>1
      <4> QED BY <4>3, <4>4 DEF Link
    <3>2. PICK i \in DOMAIN clients : clients[i].jackdbus_id = jack[c].id
      BY <2>3 DEF B, Bound
    <3>3. FindByJackdbusId(clients, jack[c].id) # 0
      BY <1>0, <3>2, FoundByJackdbusId
    <3>4. FindByJackdbusId(clients, jack[c].id) \in Concerned(l)
      BY <3>1, <3>3 DEF Concerned
    <3>5. modified' /\ task = "none"
      BY <2>2, <3>4 DEF MarkModified
    <3> QED BY <2>2, <3>5 DEF Unmarked, Saving
  <2> QED BY <2>5, <2>6
<1>19. CASE Took("disconnected") /\ PortsDisconnected(Head(signals).link)
  <2>1. /\ UNCHANGED <<clients, graph, lash, loaded, task, doc, rebound>>
        /\ (modified => modified') /\ (missed => missed')
    BY <1>19 DEF PortsDisconnected, MarkModified, mgrVars
  <2>2. D /\ M /\ G
    BY <1>0, <2>1 DEF D, M, G
  <2> QED BY <1>6, <1>7, <1>8, <1>9, <1>11, <1>19, <2>1, <2>2
<1>20. CASE Took("started") /\ ServerStarted
  <2>1. UNCHANGED <<clients, lash, projectVars, rebound, missed, loaded>> /\ graph' = Snapshot
    BY <1>3, <1>20 DEF ServerStarted, projectVars, historyVars
  <2>2. G
    BY <2>1 DEF G
  <2> QED BY <1>6, <1>7, <1>8, <1>9, <1>11, <1>12, <1>13, <1>20, <2>1, <2>2
<1>21. CASE Took("stopped") /\ ServerStopped
  <2>1. Head(signals) = ServerSignal("stopped")
    <3>1. Head(signals) \in Signal /\ Head(signals).kind = "stopped"
      BY <1>0, <1>21, HeadType DEF Took
    <3> QED BY <3>1 DEF Signal, ServerSignal
  <2>2. Queued(signals', WireMade(w))
    BY <1>0, <1>21, <2>1, WireBehind DEF Took
  <2> QED BY <2>2 DEF Unmarked, Saving
<1>22. ASSUME NEW d \in Client, NEW i, NEW id, NEW left, ConnectBinds(d, i, id, left)
       PROVE  Unmarked(c, w) /\ Saving(w)
  <2> DEFINE l == Connected(d)
  <2>1. /\ Binding(unknown_clients[i], d, RemoveAt(unknown_clients, i), l, id, left)
        /\ i \in DOMAIN unknown_clients /\ UNCHANGED <<signals, loaded, task, doc>>
        /\ loaded /\ process[d] # None
        /\ \/ lash[d].state = "none" /\ modified' = TRUE
           \/ lash[d].state = "lost" /\ lash[d].pid = process[d] /\ UNCHANGED modified
    BY <1>22 DEF ConnectBinds, Connects
  <2>2. /\ unknown_clients[i] \in UnknownEntry /\ GoodUnknown(unknown_clients[i])
        /\ unknown_clients[i].name = d /\ unknown_clients[i].pid = process[d]
    BY <1>22, ConnectedEntry
  <2>3. l \in [Client -> LashClient] /\ \A x \in Client : x # d => l[x] = lash[x]
    BY <1>0 DEF Connected, LashClient
  <2> HIDE DEF l
  <2>4. graph' = Snapshot \/ (graph' = NoGraph /\ task # "save")
    BY <1>3, <2>1 DEF Binding
  <2>5. Saving(w)
    BY <1>4, <2>1, <2>4 DEF Saving
  <2>6. Q /\ D
    BY <1>14, <2>1 DEF D
  <2>7. M
    BY <1>0, <2>1 DEF M, Binding
  <2>8. CASE c # d
    <3>1. B
      BY <1>1, <2>1, <2>8, BindingAdds DEF B
    <3>2. L
      <4>1. lash' = [l EXCEPT ![d].jack_patches = {}, ![d].jack_client_name = TRUE]
            /\ rebound \subseteq rebound'
        BY <2>1 DEF Binding
      <4>2. lash'[c] = lash[c]
        BY <2>3, <2>8, <4>1
      <4> QED BY <2>1, <4>1, <4>2 DEF L
    <3> QED BY <1>6, <2>5, <2>6, <2>7, <3>1, <3>2
  <2>9. CASE c = d /\ lash[d].state = "none"
    <3>1. doc[c] = NotSaved
      BY <1>0, <2>9 DEF ListInv, GoodLash
    <3> QED BY <2>1, <2>5, <2>9, <3>1 DEF Unmarked
  <2>10. CASE c = d /\ lash[d].state = "lost" /\ lash[d].pid = process[d]
    <3>1. Bound(c) = {}
      <4>1. c \notin Outlived
        BY <2>1, <2>10 DEF Binding
      <4> QED BY <1>0, <4>1, EntriesAreClients DEF Bound
    <3>2. jack[c].pid = process[c]
      <4>1. /\ jack[c].pid \in Name \X Nat /\ jack[c].pid[1] = c /\ jack[c].pid[2] < started[c] /\ started[c] \in Nat
        BY <1>0, <1>3, ClientsAreNames DEF WorldInv, JackNumbers, JackTypes
      <4>2. process[c] \in Name \X Nat /\ process[c][1] = c /\ process[c][2] + 1 = started[c]
        BY <1>0, <2>1, <2>10 DEF WorldInv, ProcessNumbers, Id
      <4>3. process[c][2] <= jack[c].pid[2]
        BY <1>3, <2>2, <2>10 DEF GoodUnknown
      <4>4. process[c][2] = jack[c].pid[2]
        BY <4>1, <4>2, <4>3
      <4> QED BY <4>1, <4>2, <4>4
    <3>3. Queued(signals, Appeared(c))
      BY <1>3, <2>10, <3>1, <3>2 DEF BoundInv
    <3>4. Follows(signals, Appeared(c), WireMade(w))
      BY <1>0 DEF WorldInv, WiresAreNew
    <3>5. Queued(signals', WireMade(w))
      BY <2>1, <3>3, <3>4 DEF Queued, Follows
    <3> QED BY <2>5, <3>5 DEF Unmarked
  <2> QED BY <2>1, <2>8, <2>9, <2>10
<1>23. ASSUME NEW d \in Client, ConnectsOnly(d) PROVE Unmarked(c, w) /\ Saving(w)
  <2>1. /\ lash' = Connected(d) /\ UNCHANGED <<clients, graph, signals, loaded, task, doc, rebound, missed>>
        /\ \/ lash[d].state = "none" /\ modified' = TRUE
           \/ lash[d].state = "lost" /\ UNCHANGED modified
    BY <1>23 DEF ConnectsOnly, Connects, mgrVars, historyVars
  <2>2. Q /\ B /\ M /\ D /\ G
    BY <1>9, <1>12, <1>14, <2>1 DEF D, G
  <2>3. L
    <3>1. lash[c].state # "none"
      BY <1>0, <2>2 DEF B, Bound, ListInv, GoodKnown
    <3>2. c # d => lash'[c] = lash[c]
      BY <1>0, <2>1 DEF Connected
    <3>3. c = d => lash[c].state = "lost"
      BY <2>1, <3>1
    <3> QED BY <2>1, <3>2, <3>3 DEF L
  <2> QED BY <1>6, <1>7, <2>2, <2>3
<1>24. ASSUME NEW d \in Client, Disconnect(d) PROVE Unmarked(c, w) /\ Saving(w)
  <2> DEFINE i == IF lash[d].jack_client_name THEN FindById(clients, d) ELSE 0
  <2>1. /\ clients' = IF i = 0 THEN clients ELSE RemoveAt(clients, i)
        /\ \A x \in Client : x # d => lash'[x] = lash[x]
        /\ UNCHANGED <<graph, signals, loaded, task, doc, rebound, missed>> /\ modified' = TRUE
        /\ lash[d].state = "running"
    BY <1>0, <1>24 DEF Disconnect, Running, historyVars
  <2>2. i \in {0} \union DOMAIN clients
    BY <1>0, FoundById
  <2> HIDE DEF i
  <2>3. B
    <3>1. CASE i = 0
      BY <1>9, <2>1, <3>1
    <3>2. CASE i # 0
      <4>1. Subset(clients', clients, KnownEntry)
        BY <1>0, <2>1, <2>2, <3>2, OneRemoved
      <4>2. \A k \in DOMAIN clients' : \E j \in DOMAIN clients : clients'[k] = clients[j]
        BY <4>1 DEF Subset
      <4> QED BY <1>10, <4>2
    <3> QED BY <3>1, <3>2
  <2>4. Q /\ M /\ D /\ G
    BY <1>12, <1>14, <2>1 DEF D, G
  <2>5. L
    BY <2>1 DEF L
  <2> QED BY <1>6, <1>7, <2>3, <2>4, <2>5
<1>25. ASSUME NEW d \in Client, Launch(d) PROVE Unmarked(c, w) /\ Saving(w)
  <2>1. /\ \A x \in Client : lash'[x].state = lash[x].state
        /\ UNCHANGED <<clients, graph, signals, projectVars, loaded, rebound, missed>>
    BY <1>0, <1>25 DEF Launch, LashClient, mgrVars, projectVars, historyVars
  <2>2. G /\ L
    BY <2>1 DEF G, L
  <2> QED BY <1>6, <1>7, <1>9, <1>12, <1>13, <1>14, <2>1, <2>2
<1>26. CASE Save
  <2>1. /\ graph' = Snapshot
        /\ Running = {} \/ task' = "save"
        /\ lash' = [x \in Client |-> IF x \in Lost THEN [lash[x] EXCEPT !.state = "gone"] ELSE lash[x]]
    BY <1>3, <1>26 DEF Save
  <2>2. c \in Running
    BY <1>0, <2>1 DEF Running, Lost, LashClient
  <2> QED BY <1>4, <2>1, <2>2 DEF Unmarked, Saving
<1>27. CASE SaveEnds
  <2>1. /\ SaveCompletes(graph) /\ task = "save" /\ task' = "none"
        /\ UNCHANGED <<signals, graph, lash, loaded, rebound, missed>>
    BY <1>27 DEF SaveEnds
  <2>2. /\ DOMAIN clients' = DOMAIN clients
        /\ \A i \in DOMAIN clients : /\ clients'[i].id = clients[i].id
                                     /\ clients'[i].jackdbus_id = clients[i].jackdbus_id
        /\ doc' = [x \in Client |-> IF x \in Running THEN SavedOf(x, graph) ELSE NotSaved]
    BY <1>0, <2>1, BackupsRenewed
  <2>3. B
    BY <1>10, <2>2
  <2>4. InGraph(w) \/ Queued(signals', WireMade(w))
    BY <1>2, <2>1, <2>3 DEF B
  <2>5. CASE c \in Running /\ InGraph(w)
    <3>1. w \in WiresIn(SavedOf(c, graph))
      BY <1>0, <2>1, <2>3, <2>5, WireIsSaved DEF B
    <3> QED BY <2>1, <2>2, <3>1 DEF Unmarked, Saving
  <2>6. CASE c \notin Running
    BY <2>1, <2>2, <2>6 DEF Unmarked, Saving
  <2>7. CASE Queued(signals', WireMade(w))
    BY <2>7 DEF Unmarked, Saving
  <2> QED BY <2>4, <2>5, <2>6, <2>7
<1>28. CASE LoadEnds
  <2>1. /\ UNCHANGED <<clients, graph, signals, lash, loaded, doc, rebound, missed>>
        /\ task = "load" /\ task' = "none"
    BY <1>28 DEF LoadEnds, mgrVars, historyVars
  <2>2. B /\ L /\ M
    BY <1>9, <1>11, <1>12, <2>1
  <2> QED BY <1>2, <2>1, <2>2 DEF B, L, M, Unmarked, Saving
<1>29. CASE Close
  BY <1>29 DEF Close
<1>30. CASE Load
  <2>1. clients' = clients /\ rebound' = rebound \union Outlived
    BY <1>30 DEF Load, mgrVars
  <2>2. Bound(c) # {}
    BY <1>9, <2>1 DEF B
  <2>3. c \in Outlived
    BY <1>0, <2>2, EntriesAreClients DEF Bound
  <2> QED BY <2>1, <2>3
<1> QED BY <1>15, <1>16, <1>17, <1>18, <1>19, <1>20, <1>21, <1>22, <1>23, <1>24, <1>25,
           <1>26, <1>27, <1>28, <1>29, <1>30, LashdDoes

(* A project that is not marked modified has every wire of its clients in  *)
(* its document: a wire that is made is heard of and marks the project     *)
(* (jack_mgr_client_modified), or is in the graph that the save that       *)
(* takes the mark away asks for, whatever is bound or lost meanwhile.      *)
THEOREM UnmodifiedIsSaved == Spec => []UnmodifiedMeansSaved
<1>1. ASSUME Init PROVE MarkInv
  <2>1. \A c : Bound(c) = {}
    BY <1>1 DEF Init, Bound
  <2> QED BY <2>1 DEF MarkInv
<1>2. ASSUME TypeInv, EntryInv, NumberInv, BoundInv, MarkInv, [Next]_vars PROVE MarkInv'
  <2>1. CASE UNCHANGED vars
    BY <1>2, <2>1 DEF vars, jackVars, processVars, mgrVars, projectVars, historyVars, MarkInv, Bound, InGraph,
       WireMade, LinkSignal, WiresOf, Running, Lost
  <2> QED BY <1>2, <2>1, MarkMoves, MarkStays DEF Next
<1>3. ASSUME MarkInv PROVE UnmodifiedMeansSaved
  <2>1. signals = <<>> => \A s : ~Queued(signals, s)
    BY DEF Queued
  <2> QED BY <1>3, <2>1 DEF MarkInv, UnmodifiedMeansSaved, Quiet
<1> QED BY <1>1, <1>2, <1>3, NumbersHold, BoundHolds, PTL DEF Spec

(* An end is known by its entry when the patch has the uuid, and by none   *)
(* when it has the name.                                                   *)
Known(list, e, id, end) ==
  /\ id # None /\ Given(id, end.of)
  /\ end.kind = "id" => e.jackdbus_id = id \/ \E i \in DOMAIN list : list[i].jackdbus_id = id
  /\ end.kind = "name" => e.jackdbus_id # id /\ \A i \in DOMAIN list : list[i].jackdbus_id # id

(* An end is described as the patch has it, if its JACK client's entry is  *)
(* there just when the patch knows its uuid.                               *)
LEMMA EndDescribed ==
  ASSUME NEW list \in Seq(KnownEntry), \A i \in DOMAIN list : Numbered(list[i]),
         NEW e, Numbered(e), NEW end \in End, NEW id, Known(list, e, id, end)
  PROVE  EndAt(list, e, end.of, id) = end
<1> DEFINE i == FindByJackdbusId(list, id)
<1>1. /\ i \in {0} \union DOMAIN list /\ (i # 0 => list[i].jackdbus_id = id)
      /\ i = 0 => \A j \in DOMAIN list : list[j].jackdbus_id # id
  BY FoundByJackdbusId
<1>2. EndAt(list, e, end.of, id) = CASE id = e.jackdbus_id -> ById(e.id)
        [] id # e.jackdbus_id /\ i # 0 -> ById(list[i].id)
        [] OTHER -> ByName(end.of)
  BY DEF EndAt
<1> HIDE DEF i
<1>3. id = e.jackdbus_id => e.id = end.of
  BY DEF Numbered, Given, Known
<1>4. i # 0 => list[i].id = end.of
  BY <1>1 DEF Numbered, Given, Known
<1>5. /\ \/ end.kind = "id" /\ end = ById(end.of)
         \/ end.kind = "name" /\ end = ByName(end.of)
      /\ end.kind = "id" => e.jackdbus_id = id \/ \E j \in DOMAIN list : list[j].jackdbus_id = id
      /\ end.kind = "name" => e.jackdbus_id # id /\ \A j \in DOMAIN list : list[j].jackdbus_id # id
  <2>1. CASE end \in {ById(c) : c \in Client}
    BY <2>1 DEF ById, Known
  <2>2. CASE end \in {ByName(n) : n \in Name}
    BY <2>2 DEF ByName, Known
  <2> QED BY <2>1, <2>2 DEF End
<1>6. CASE id = e.jackdbus_id
  BY <1>2, <1>3, <1>5, <1>6
<1>7. CASE id # e.jackdbus_id /\ i # 0
  BY <1>1, <1>2, <1>4, <1>5, <1>7
<1>8. CASE id # e.jackdbus_id /\ i = 0
  BY <1>1, <1>2, <1>5, <1>8
<1> QED BY <1>6, <1>7, <1>8

LEMMA PatchDescribed ==
  ASSUME NEW list \in Seq(KnownEntry), \A i \in DOMAIN list : Numbered(list[i]),
         NEW e, Numbered(e), NEW ids, NEW p \in Patch,
         Known(list, e, ids[p.src.of], p.src), Known(list, e, ids[p.dest.of], p.dest)
  PROVE  Described(list, e, Link(WireOf(p), ids)) = p
<1> DEFINE l == Link(WireOf(p), ids)
<1>1. /\ l.from = p.src.of /\ l.from_id = ids[p.src.of]
      /\ l.to = p.dest.of /\ l.to_id = ids[p.dest.of]
  BY DEF Link, WireOf
<1> HIDE DEF l
<1>2. p.src \in End /\ p.dest \in End /\ p = [src |-> p.src, dest |-> p.dest]
  BY PatchEnds
<1>3. EndAt(list, e, p.src.of, ids[p.src.of]) = p.src
  BY <1>2, EndDescribed
<1>4. EndAt(list, e, p.dest.of, ids[p.dest.of]) = p.dest
  BY <1>2, EndDescribed
<1>5. Described(list, e, l) = p
  BY <1>1, <1>2, <1>3, <1>4 DEF Described
<1> QED BY <1>5 DEF l

(* A client's port asks for each wire of its entry's patches, if the other *)
(* end has a name.                                                         *)
LEMMA WireAskedFor ==
  ASSUME NEW list, NEW e, e.name = e.id, NEW p, p \in e.old_patches,
         ById(e.id) \in {p.src, p.dest}, HasName(list, p.src), HasName(list, p.dest)
  PROVE  WireOf(p) \in ClientPortWires(list, e)
<1>1. ById(e.id).of = e.id
  BY DEF ById
<1>2. CASE p.src = ById(e.id)
  <2>1. p \in {q \in e.old_patches : q.src = ById(e.id) /\ HasName(list, q.dest)}
    BY <1>2
  <2>2. WireOf(p) = <<e.name, p.dest.of>>
    BY <1>1, <1>2 DEF WireOf
  <2> QED BY <2>1, <2>2 DEF ClientPortWires
<1>3. CASE p.src # ById(e.id)
  <2>1. p \in {q \in e.old_patches : q.src # ById(e.id) /\ q.dest = ById(e.id) /\ HasName(list, q.src)}
    BY <1>3
  <2>2. WireOf(p) = <<p.src.of, e.name>>
    BY <1>1, <1>3 DEF WireOf
  <2> QED BY <2>1, <2>2 DEF ClientPortWires
<1> QED BY <1>2, <1>3

LEMMA NameFound ==
  ASSUME NEW list \in Seq(KnownEntry), NEW end,
         end.kind = "name" \/ \E i \in DOMAIN list : list[i].id = end.of
  PROVE  HasName(list, end)
<1>1. FindById(list, end.of) = 0 => \A i \in DOMAIN list : list[i].id # end.of
  BY FoundById
<1> QED BY <1>1 DEF HasName

(* What an end at which a patch waits says of its client's entry.          *)
LEMMA WaitingEnd ==
  ASSUME TypeInv, EntryInv, NumberInv, NEW p \in Patch, NEW end \in {p.src, p.dest}, Waits(p, end)
  PROVE  /\ jack[end.of].id # None /\ Given(jack[end.of].id, end.of) /\ HasName(clients, end)
         /\ end.kind \in {"id", "name"}
         /\ end.kind = "id" => /\ end.of \in Client /\ end = ById(end.of)
                               /\ \E i \in Bound(end.of) : p \in clients[i].old_patches
                               /\ \A i \in DOMAIN clients : \A j \in DOMAIN clients :
                                    clients[i].id = end.of /\ clients[j].id = end.of => i = j
         /\ end.kind = "name" => /\ end = ByName(end.of)
                                 /\ \A i \in DOMAIN clients : clients[i].jackdbus_id # jack[end.of].id
<1>1. /\ end.of \in Name /\ end \in End
      /\ end.kind = "id" => end.of \in Client /\ end = ById(end.of)
      /\ end.kind # "id" => end = ByName(end.of) /\ end.kind = "name"
  BY PatchEnds
<1>2. jack[end.of].port /\ end.of \notin rebound
  BY DEF Waits
<1>3. jack[end.of].id # None
  BY <1>1, <1>2 DEF TypeInv, JackTypes, NotThere
<1>4. Given(jack[end.of].id, end.of)
  BY <1>1, <1>3 DEF NumberInv, WorldInv, JackNumbers
<1>5. clients \in Seq(KnownEntry)
  BY DEF TypeInv, LashdTypes
<1>6. CASE end.kind = "id"
  <2>1. PICK i \in Bound(end.of) : p \in clients[i].old_patches
    BY <1>6 DEF Waits
  <2>2. i \in DOMAIN clients /\ clients[i].id = end.of
    BY <2>1 DEF Bound
  <2>3. HasName(clients, end)
    BY <1>5, <2>2, NameFound
  <2>4. \A k \in DOMAIN clients : \A j \in DOMAIN clients :
           clients[k].id = end.of /\ clients[j].id = end.of => k = j
    BY <1>2 DEF EntryInv, OneEntry
  <2> QED BY <1>1, <1>3, <1>4, <1>6, <2>1, <2>3, <2>4
<1>7. CASE end.kind = "name"
  <2>1. end.of \notin owned
    BY <1>7 DEF Waits
  <2>2. ASSUME NEW i \in DOMAIN clients, clients[i].jackdbus_id = jack[end.of].id PROVE FALSE
    <3>1. clients[i].id = end.of /\ clients[i].id \in owned
      BY <1>3, <1>4, <2>2 DEF NumberInv, ListInv, GoodKnown, Given
    <3> QED BY <2>1, <3>1
  <2>3. HasName(clients, end)
    BY <1>7 DEF HasName
  <2> QED BY <1>1, <1>3, <1>4, <1>7, <2>2, <2>3
<1> QED BY <1>1, <1>6, <1>7

(* A patch that waits at a port has waited there since it was there.       *)
LEMMA PortsStay ==
  ASSUME JackTypes, Environment, NEW n \in Name, jack'[n].port
  PROVE  jack'[n] = jack[n] \/ OpensPort(n)
<1>0. jack'[n] # NotThere
  BY DEF NotThere
<1>1. CASE Starts \/ Stops
  BY <1>0, <1>1 DEF Starts, Stops
<1>2. ASSUME NEW m \in Name, Opens(m) \/ OpensPort(m) \/ Closes(m)
      PROVE  jack'[n] = jack[n] \/ OpensPort(n)
  BY <1>0, <1>2 DEF Opens, OpensPort, Closes
<1>3. ASSUME NEW x \in Name \X Name, Wires(x) \/ Refuses(x) \/ Unwires(x) PROVE jack' = jack
  BY <1>3 DEF Wires, Refuses, Unwires
<1>4. ASSUME NEW d \in Client, Forks(d) \/ Ends(d) PROVE jack' = jack
  BY <1>4 DEF Forks, Ends
<1> QED BY <1>1, <1>2, <1>3, <1>4, EnvironmentDoes

(* A call is answered by its wire, or refused when the wire is there.      *)
LEMMA CallsAnswered ==
  ASSUME JackTypes, WorldInv, Environment, NEW w \in calls, jack'[w[1]].port, jack[w[1]].port, jack[w[2]].port
  PROVE  w \in calls' \/ w \in wires \/ Queued(signals', WireMade(w))
<1>0. calls \subseteq Name \X Name /\ signals \in Seq(Signal) /\ w[1] \in Name /\ w[2] \in Name
  BY DEF JackTypes
<1>1. CASE Starts \/ \E n \in Name : Opens(n) \/ OpensPort(n) \/ Closes(n)
  BY <1>1 DEF Starts, Opens, OpensPort, Closes
<1>2. CASE Stops
  BY <1>0, <1>2 DEF Stops, NotThere
<1>3. ASSUME NEW x \in Name \X Name, Wires(x) PROVE w \in calls' \/ Queued(signals', WireMade(w))
  <2>1. CASE x = w
    BY <1>0, <1>3, <2>1, QueueGrows DEF Wires, Emits
  <2>2. CASE x # w
    BY <1>3, <2>2 DEF Wires
  <2> QED BY <2>1, <2>2
<1>4. ASSUME NEW x \in Name \X Name, Refuses(x) PROVE w \in calls' \/ w \in wires
  BY <1>4 DEF Refuses, MayConnect
<1>5. ASSUME NEW x \in Name \X Name, Unwires(x) PROVE w \in calls'
  BY <1>5 DEF Unwires
<1>6. ASSUME NEW d \in Client, Forks(d) \/ Ends(d) PROVE w \in calls'
  BY <1>6 DEF Forks, Ends
<1> QED BY <1>1, <1>2, <1>3, <1>4, <1>5, <1>6, EnvironmentDoes

LEMMA ArmedMoves ==
  ASSUME TypeInv, NumberInv, ArmedInv, Environment
  PROVE  ArmedInv'
<1>0. JackTypes /\ WorldInv /\ wires \subseteq Name \X Name /\ signals \in Seq(Signal)
  BY DEF TypeInv, NumberInv, JackTypes
<1>1. UNCHANGED <<clients, rebound, owned>>
  BY <1>0, EnvironmentGrows DEF ExternalStep, mgrVars, historyVars
<1> SUFFICES ASSUME NEW p \in Patch, Waits(p, p.src)', Waits(p, p.dest)', "id" \in {p.src.kind, p.dest.kind}
             PROVE  /\ \/ WireOf(p) \in calls'
                       \/ Queued(signals', WireMade(WireOf(p))')
                       \/ Queued(signals', PortSignal(p.src.of)') \/ Queued(signals', PortSignal(p.dest.of)')
                    /\ WireOf(p) \in wires' => Queued(signals', WireMade(WireOf(p))')
  BY DEF ArmedInv
<1> DEFINE n == p.src.of
           m == p.dest.of
           w == WireOf(p)
<1>2. /\ n \in Name /\ m \in Name /\ w \in Name \X Name /\ w[1] = n /\ w[2] = m
      /\ p.src.kind = "id" => n \in Client
      /\ p.dest.kind = "id" => m \in Client
  BY PatchEnds DEF WireOf
<1>3. jack'[n].port /\ jack'[m].port
  BY DEF Waits
<1>4. CASE OpensPort(n) \/ OpensPort(m)
  <2>1. PICK k \in {n, m} : OpensPort(k)
    BY <1>4
  <2>2. k \in Name /\ Emits(PortSignal(k)) /\ wires' = wires /\ ~jack[k].port /\ jack'[k].id = jack[k].id
    BY <1>2, <2>1 DEF OpensPort
  <2>3. PortSignal(k)' = PortSignal(k)
    BY <2>2 DEF PortSignal, ClientSignal
  <2>4. Queued(signals', PortSignal(k)')
    BY <1>0, <2>2, <2>3, QueueGrows DEF Emits
  <2>5. w \notin wires'
    BY <1>0, <1>2, <2>1, <2>2 DEF WorldInv, WiresHavePorts
  <2> HIDE DEF w
  <2> QED BY <2>1, <2>4, <2>5 DEF w
<1>5. CASE ~OpensPort(n) /\ ~OpensPort(m)
  <2>1. jack'[n] = jack[n] /\ jack'[m] = jack[m]
    BY <1>0, <1>2, <1>3, <1>5, PortsStay
  <2>2. ASSUME NEW end \in {p.src, p.dest} PROVE Waits(p, end)
    <3>1. Waits(p, end)' /\ jack'[end.of] = jack[end.of] /\ (end.kind = "id" => end.of \in Client)
      BY <1>2, <2>1, <2>2
    <3>2. end.kind = "id" => Bound(end.of)' \subseteq Bound(end.of)
      BY <3>1, BoundWas
    <3> QED BY <1>1, <3>1, <3>2 DEF Waits
  <2>3. /\ w \in calls \/ Queued(signals, WireMade(w)) \/ Queued(signals, PortSignal(n)) \/ Queued(signals, PortSignal(m))
        /\ w \in wires => Queued(signals, WireMade(w))
    BY <2>2 DEF ArmedInv
  <2>4. WireMade(w)' = WireMade(w) /\ PortSignal(n)' = PortSignal(n) /\ PortSignal(m)' = PortSignal(m)
    <3>1. WireMade(w)' = WireMade(w)
      BY <1>2, <2>1, SameWire
    <3> QED BY <2>1, <3>1 DEF PortSignal, ClientSignal
  <2>5. \A s : Queued(signals, s) => Queued(signals', s)
    BY <1>0, SignalsGrow
  <2>6. w \in calls => w \in calls' \/ w \in wires \/ Queued(signals', WireMade(w))
    BY <1>0, <1>2, <1>3, <2>1, CallsAnswered
  <2>7. w \in wires' => Queued(signals', WireMade(w)')
    <3>1. w \in wires' => w \in wires \/ Queued(signals', WireMade(w)')
      BY <1>0, WireMoves
    <3> HIDE DEF w
    <3> QED BY <2>3, <2>4, <2>5, <3>1
  <2> HIDE DEF w
  <2>8. w \in calls' \/ Queued(signals', WireMade(w)') \/ Queued(signals', PortSignal(n)') \/ Queued(signals', PortSignal(m)')
    BY <2>3, <2>4, <2>5, <2>6
  <2> QED BY <2>7, <2>8 DEF w
<1> QED BY <1>4, <1>5

(* What waits at an end after a step that adds no entry for its client has *)
(* waited there before.                                                    *)
LEMMA EndWaited ==
  ASSUME NEW p, NEW end, Waits(p, end)', jack' = jack, owned \subseteq owned', rebound \subseteq rebound',
         \A j \in DOMAIN clients' : clients'[j].id = end.of =>
           \E i \in DOMAIN clients : /\ clients[i].id = clients'[j].id
                                     /\ clients[i].jackdbus_id = clients'[j].jackdbus_id
                                     /\ clients'[j].old_patches \subseteq clients[i].old_patches
  PROVE  Waits(p, end)
<1>1. jack[end.of].port /\ end.of \notin rebound
  BY DEF Waits
<1>2. CASE end.kind = "id"
  <2>1. PICK j \in Bound(end.of)' : p \in clients'[j].old_patches
    BY <1>2 DEF Waits
  <2>2. j \in DOMAIN clients' /\ clients'[j].id = end.of
        /\ clients'[j].jackdbus_id # None /\ clients'[j].jackdbus_id = jack[end.of].id
    BY <2>1 DEF Bound
  <2>3. PICK i \in DOMAIN clients : /\ clients[i].id = clients'[j].id
                                    /\ clients[i].jackdbus_id = clients'[j].jackdbus_id
                                    /\ clients'[j].old_patches \subseteq clients[i].old_patches
    BY <2>2
  <2>4. i \in Bound(end.of) /\ p \in clients[i].old_patches
    BY <2>1, <2>2, <2>3 DEF Bound
  <2> QED BY <1>1, <1>2, <2>4 DEF Waits
<1>3. CASE end.kind # "id"
  <2>1. end.of \notin owned
    BY <1>3 DEF Waits
  <2> QED BY <1>1, <1>3, <2>1 DEF Waits
<1> QED BY <1>2, <1>3

(* An entry that is bound asks for each wire its patches still wait for,   *)
(* and has given up those that the graph has.                              *)
LEMMA BindingArms ==
  ASSUME TypeInv, EntryInv, NumberInv, jack' = jack, NEW e \in UnknownEntry, NEW d \in Client, e.name = d, NEW u,
         NEW l \in [Client -> LashClient], NEW id, NEW left, Binding(e, d, u, l, id, left),
         NEW p \in Patch, Waits(p, p.src)', Waits(p, p.dest)', d \in {p.src.of, p.dest.of}
  PROVE  WireOf(p) \in calls' /\ WireOf(p) \notin wires
<1> DEFINE patches == l[d].jack_patches
           found == BoundEntry(e, d, id, patches, patches)
           new == BoundEntry(e, d, id, left, patches)
           list == Append(clients, found)
<1>0. JackTypes /\ WorldInv /\ clients \in Seq(KnownEntry) /\ d \in Name
  BY ClientsAreNames DEF TypeInv, LashdTypes, NumberInv
<1>1. jack[d].port /\ d \notin rebound' /\ jack[d].id # None
  <2>1. jack[d].port /\ d \notin rebound'
    BY DEF Waits
  <2> QED BY <1>0, <2>1 DEF JackTypes, NotThere
<1>2. id = jack[d].id /\ Fetched = Snapshot
  <2>1. jack_up /\ Fetched = Snapshot
    BY <1>0, <1>1 DEF WorldInv, JackNumbers, Fetched
  <2>2. Snapshot # NoGraph /\ Snapshot.ids[d] = jack[d].id
    BY <1>0, SnapshotType
  <2>3. id = IF Fetched = NoGraph THEN e.jackdbus_id ELSE Fetched.ids[e.name]
    BY DEF Binding
  <2> QED BY <2>1, <2>2, <2>3
<1>3. Snapshot # NoGraph /\ d \in Snapshot.ports /\ Snapshot.ids = [n \in Name |-> jack[n].id] /\ Snapshot.wires = wires
  BY <1>0, <1>1, SnapshotType
<1>4. /\ left \subseteq patches /\ found \in KnownEntry /\ clients' = Append(clients, new)
      /\ left = OldPatchesLeft(list, found, LinksOf(found, Snapshot))
      /\ calls' = calls \union ClientPortWires(list, found)
      /\ d \notin Outlived /\ owned' = owned \union {d} /\ rebound \subseteq rebound'
  BY <1>1, <1>2, <1>3 DEF Binding
<1>5. /\ found.id = d /\ found.name = d /\ found.jackdbus_id = jack[d].id /\ found.old_patches = patches
      /\ new.id = d /\ new.old_patches = left
  BY <1>2 DEF BoundEntry
<1> HIDE DEF patches, found, new, list
<1>6. \A i \in DOMAIN clients : clients[i].id # d
  BY <1>0, <1>4, EntriesAreClients
<1>7. PICK k \in DOMAIN list : list[k] = found
  BY <1>0, <1>4, AppendedEntry DEF list
<1>8. /\ list \in Seq(KnownEntry)
      /\ \A i \in DOMAIN clients : i \in DOMAIN list /\ list[i] = clients[i]
      /\ \A i \in DOMAIN list : i \in DOMAIN clients \/ list[i] = found
  BY <1>0, <1>4, AppendedEntry DEF list
<1>9. \A j \in DOMAIN clients' : (j \in DOMAIN clients /\ clients'[j] = clients[j]) \/ clients'[j] = new
  BY <1>0, <1>4, AppendedEntry
<1>10. Given(jack[d].id, d)
  BY <1>0, <1>1 DEF WorldInv, JackNumbers
<1>11. \A i \in DOMAIN clients : Numbered(clients[i])
  BY DEF NumberInv, ListInv, GoodKnown, Numbered
<1>12. Numbered(found) /\ \A i \in DOMAIN list : Numbered(list[i])
  <2>1. Numbered(found)
    BY <1>5, <1>10 DEF Numbered
  <2> QED BY <1>8, <1>11, <2>1
<1>13. ASSUME NEW end \in {p.src, p.dest}
       PROVE  /\ end.of = d => end = ById(d) /\ p \in left
              /\ HasName(list, end) /\ Known(list, found, jack[end.of].id, end)
  <2>1. CASE end.of = d
    <3>1. end.kind = "id"
      BY <1>4, <1>13, <2>1 DEF Waits
    <3>2. end = ById(d)
      BY <1>13, <2>1, <3>1, PatchEnds
    <3>3. PICK j \in Bound(d)' : p \in clients'[j].old_patches
      BY <1>13, <2>1, <3>1 DEF Waits
    <3>4. j \in DOMAIN clients' /\ clients'[j].id = d
      BY <3>3 DEF Bound
    <3>5. p \in left
      BY <1>5, <1>6, <1>9, <3>3, <3>4
    <3>6. HasName(list, end)
      BY <1>5, <1>7, <1>8, <2>1, NameFound
    <3>7. Known(list, found, jack[end.of].id, end)
      BY <1>1, <1>5, <1>10, <2>1, <3>1 DEF Known
    <3> QED BY <3>2, <3>5, <3>6, <3>7
  <2>2. CASE end.of # d
    <3>1. Waits(p, end)
      <4>1. \A j \in DOMAIN clients' : clients'[j].id = end.of => j \in DOMAIN clients /\ clients'[j] = clients[j]
        BY <1>5, <1>9, <2>2
      <4> QED BY <1>4, <1>13, <4>1, EndWaited
    <3>2. /\ jack[end.of].id # None /\ Given(jack[end.of].id, end.of) /\ end.kind \in {"id", "name"}
          /\ end.kind = "id" => \E i \in Bound(end.of) : p \in clients[i].old_patches
          /\ end.kind = "name" => \A i \in DOMAIN clients : clients[i].jackdbus_id # jack[end.of].id
      BY <1>13, <3>1, WaitingEnd
    <3>3. jack[end.of].id # jack[d].id
      BY <1>10, <2>2, <3>2 DEF Given
    <3>4. end.kind = "id" => \E i \in DOMAIN list : list[i].id = end.of /\ list[i].jackdbus_id = jack[end.of].id
      BY <1>8, <3>2 DEF Bound
    <3>5. end.kind = "name" => \A i \in DOMAIN list : list[i].jackdbus_id # jack[end.of].id
      BY <1>5, <1>8, <3>2, <3>3
    <3>6. HasName(list, end)
      BY <1>8, <3>2, <3>4, NameFound
    <3>7. Known(list, found, jack[end.of].id, end)
      BY <1>5, <3>2, <3>3, <3>4, <3>5 DEF Known
    <3> QED BY <2>2, <3>6, <3>7
  <2> QED BY <2>1, <2>2
<1>14. p \in left /\ p \in patches /\ ById(d) \in {p.src, p.dest}
  BY <1>4, <1>13
<1>15. WireOf(p) \in calls'
  <2>1. HasName(list, p.src) /\ HasName(list, p.dest)
    BY <1>13
  <2>2. WireOf(p) \in ClientPortWires(list, found)
    BY <1>5, <1>14, <2>1, WireAskedFor
  <2> QED BY <1>4, <2>2
<1>16. WireOf(p) \notin wires
  <2> SUFFICES ASSUME WireOf(p) \in wires PROVE FALSE
    OBVIOUS
  <2> DEFINE ids == Snapshot.ids
             w == WireOf(p)
  <2>1. w[1] = p.src.of /\ w[2] = p.dest.of /\ p.src.of \in Name /\ p.dest.of \in Name
    BY PatchEnds DEF WireOf
  <2>2. ids[p.src.of] = jack[p.src.of].id /\ ids[p.dest.of] = jack[p.dest.of].id
    BY <1>3, <2>1
  <2>3. Known(list, found, ids[p.src.of], p.src) /\ Known(list, found, ids[p.dest.of], p.dest)
    BY <1>13, <2>2
  <2> HIDE DEF ids
  <2>4. Described(list, found, Link(WireOf(p), ids)) = p
    BY <1>8, <1>12, <2>3, PatchDescribed
  <2>5. Belongs(found, Link(w, ids))
    <3>1. Link(w, ids).from_id = ids[p.src.of] /\ Link(w, ids).to_id = ids[p.dest.of]
      BY <2>1 DEF Link
    <3> QED BY <1>5, <2>2, <3>1 DEF Belongs
  <2>6. Link(w, ids) \in LinksOf(found, Snapshot)
    BY <1>3, <2>5 DEF LinksOf, ids
  <2> HIDE DEF w
  <2>7. p \notin left
    BY <1>4, <2>4, <2>6 DEF OldPatchesLeft, w
  <2> QED BY <1>14, <2>7
<1> QED BY <1>15, <1>16

(* A step that binds nobody adds no entry and no patch to one, and takes   *)
(* no call back.                                                           *)
Shrinks ==
  /\ calls \subseteq calls' /\ owned \subseteq owned' /\ rebound \subseteq rebound'
  /\ \A j \in DOMAIN clients' :
       \E i \in DOMAIN clients : /\ clients[i].id = clients'[j].id
                                 /\ clients[i].jackdbus_id = clients'[j].jackdbus_id
                                 /\ clients'[j].old_patches \subseteq clients[i].old_patches
HearsOther == \/ UNCHANGED signals
              \/ \E kind \in {"appeared", "disappeared", "disconnected", "started", "stopped"} : Took(kind)

LEMMA LashdShrinks ==
  ASSUME TypeInv, Lashd
  PROVE  \/ \E d \in Client : \E id, left : AppearedBinds(d, id, left)
         \/ \E d \in Client : \E i, id, left : ConnectBinds(d, i, id, left)
         \/ Took("port") /\ PortAppeared(Head(signals)) /\ Shrinks
         \/ Took("connected") /\ PortsConnected(Head(signals).link) /\ Shrinks
         \/ HearsOther /\ Shrinks
<1>0. clients \in Seq(KnownEntry) /\ (graph = NoGraph \/ graph \in Graph) /\ JackTypes
  BY DEF TypeInv, LashdTypes
<1>1. ASSUME UNCHANGED <<clients, owned, rebound>>, calls \subseteq calls' PROVE Shrinks
  BY <1>1 DEF Shrinks
<1>2. ASSUME Subset(clients', clients, KnownEntry), UNCHANGED <<calls, owned, rebound>> PROVE Shrinks
  BY <1>2 DEF Shrinks, Subset
<1>3. ASSUME NEW g, g = NoGraph \/ g \in Graph, SaveCompletes(g), UNCHANGED <<calls, owned, rebound>> PROVE Shrinks
  <2>1. /\ DOMAIN clients' = DOMAIN clients
        /\ \A i \in DOMAIN clients : /\ clients'[i].id = clients[i].id
                                     /\ clients'[i].jackdbus_id = clients[i].jackdbus_id
                                     /\ clients'[i].old_patches = clients[i].old_patches
    BY <1>3, BackupsRenewed
  <2> QED BY <1>3, <2>1 DEF Shrinks
<1>4. CASE AppearedOnly
  <2>1. Took("appeared") /\ UNCHANGED <<clients, owned, rebound, calls>>
    BY <1>4 DEF AppearedOnly, historyVars
  <2> QED BY <1>1, <2>1 DEF HearsOther
<1>5. CASE Took("disappeared") /\ ClientDisappeared(Head(signals))
  <2>1. UNCHANGED <<clients, owned, rebound, calls>>
    BY <1>5 DEF ClientDisappeared, historyVars
  <2> QED BY <1>1, <1>5, <2>1 DEF HearsOther
<1>6. CASE Took("port") /\ PortAppeared(Head(signals))
  <2>1. UNCHANGED <<clients, owned, rebound>> /\ calls \subseteq calls'
    BY <1>6 DEF PortAppeared, mgrVars, historyVars
  <2> QED BY <1>1, <1>6, <2>1
<1>7. CASE Took("connected") /\ PortsConnected(Head(signals).link)
  <2>1. UNCHANGED <<calls, owned, rebound>>
    BY <1>7 DEF PortsConnected
  <2>2. /\ DOMAIN clients' = DOMAIN clients
        /\ \A i \in DOMAIN clients :
              /\ clients'[i].id = clients[i].id
              /\ clients'[i].jackdbus_id = clients[i].jackdbus_id
              /\ clients'[i].old_patches = IF i \in Concerned(Head(signals).link)
                                           THEN OldPatchesLeft(clients, clients[i], {Head(signals).link})
                                           ELSE clients[i].old_patches
    BY <1>7, PatchesDropped
  <2> QED BY <1>7, <2>1, <2>2 DEF Shrinks, OldPatchesLeft
<1>8. CASE Took("disconnected") /\ PortsDisconnected(Head(signals).link)
  <2>1. UNCHANGED <<clients, owned, rebound, calls>>
    BY <1>8 DEF PortsDisconnected, mgrVars
  <2> QED BY <1>1, <1>8, <2>1 DEF HearsOther
<1>9. CASE (Took("started") /\ ServerStarted) \/ (Took("stopped") /\ ServerStopped)
  <2>1. UNCHANGED <<clients, owned, rebound, calls>>
    BY <1>9 DEF ServerStarted, ServerStopped, historyVars
  <2> QED BY <1>1, <1>9, <2>1 DEF HearsOther
<1>10. ASSUME NEW d \in Client, ConnectsOnly(d) \/ Launch(d) PROVE HearsOther /\ Shrinks
  <2>1. UNCHANGED <<clients, owned, rebound, calls, signals>>
    BY <1>10 DEF ConnectsOnly, Connects, Launch, mgrVars, historyVars
  <2> QED BY <1>1, <2>1 DEF HearsOther
<1>11. ASSUME NEW d \in Client, Disconnect(d) PROVE HearsOther /\ Shrinks
  <2> DEFINE i == IF lash[d].jack_client_name THEN FindById(clients, d) ELSE 0
  <2>1. clients' = (IF i = 0 THEN clients ELSE RemoveAt(clients, i)) /\ UNCHANGED <<owned, rebound, calls, signals>>
    BY <1>11 DEF Disconnect, historyVars
  <2>2. i \in {0} \union DOMAIN clients
    BY <1>0, FoundById
  <2> HIDE DEF i
  <2>3. CASE i = 0
    BY <1>1, <2>1, <2>3 DEF HearsOther
  <2>4. CASE i # 0
    <3>1. Subset(clients', clients, KnownEntry)
      BY <1>0, <2>1, <2>2, <2>4, OneRemoved
    <3> QED BY <1>2, <2>1, <3>1 DEF HearsOther
  <2> QED BY <2>3, <2>4
<1>12. CASE Save
  <2>1. /\ UNCHANGED <<owned, rebound, calls, signals>> /\ graph' = Fetched
        /\ SaveCompletes(graph') \/ UNCHANGED clients
    BY <1>12 DEF Save
  <2>2. graph' = NoGraph \/ graph' \in Graph
    BY <1>0, <2>1, SnapshotType
  <2> QED BY <1>1, <1>3, <2>1, <2>2 DEF HearsOther
<1>13. CASE SaveEnds
  BY <1>0, <1>3, <1>13 DEF SaveEnds, HearsOther
<1>14. CASE LoadEnds
  BY <1>1, <1>14 DEF LoadEnds, mgrVars, historyVars, HearsOther
<1>15. CASE Close
  <2> DEFINE removed == {FindById(clients, c) : c \in {x \in Running : lash[x].jack_client_name}}
  <2>1. clients' = Keeping(clients, DOMAIN clients \ removed) /\ UNCHANGED <<owned, rebound, calls, signals>>
    BY <1>15 DEF Close, historyVars
  <2> HIDE DEF removed
  <2>2. Subset(clients', clients, KnownEntry)
    BY <1>0, <2>1, SomeKept
  <2> QED BY <1>2, <2>1, <2>2 DEF HearsOther
<1>16. CASE Load
  <2>1. UNCHANGED <<clients, owned, calls, signals>> /\ rebound \subseteq rebound'
    BY <1>16 DEF Load, mgrVars
  <2> QED BY <2>1 DEF Shrinks, HearsOther
<1> QED BY <1>4, <1>5, <1>6, <1>7, <1>8, <1>9, <1>10, <1>11, <1>12, <1>13, <1>14, <1>15, <1>16, LashdDoes

(* The entry that a JACK client's number finds.                            *)
LEMMA EntryOfNumber ==
  ASSUME TypeInv, NumberInv, NEW n \in Name, jack[n].id # None, Given(jack[n].id, n)
  PROVE  LET i == FindByJackdbusId(clients, jack[n].id)
         IN  /\ i = 0 \/ (i \in DOMAIN clients /\ clients[i].jackdbus_id = jack[n].id
                          /\ clients[i].id = n /\ clients[i].name = n /\ n \in owned)
             /\ i = 0 => \A j \in DOMAIN clients : clients[j].jackdbus_id # jack[n].id
<1> DEFINE i == FindByJackdbusId(clients, jack[n].id)
<1>1. clients \in Seq(KnownEntry)
  BY DEF TypeInv, LashdTypes
<1>2. /\ i \in {0} \union DOMAIN clients /\ (i # 0 => clients[i].jackdbus_id = jack[n].id)
      /\ i = 0 => \A j \in DOMAIN clients : clients[j].jackdbus_id # jack[n].id
  BY <1>1, FoundByJackdbusId
<1>3. \A j \in DOMAIN clients : clients[j].jackdbus_id = jack[n].id =>
         clients[j].id = n /\ clients[j].name = n /\ clients[j].id \in owned
  BY DEF NumberInv, ListInv, GoodKnown, Given
<1> HIDE DEF i
<1>4. i = 0 \/ (i \in DOMAIN clients /\ clients[i].jackdbus_id = jack[n].id
                /\ clients[i].id = n /\ clients[i].name = n /\ n \in owned)
  BY <1>2, <1>3
<1> QED BY <1>2, <1>4 DEF i

(* A port that appears asks for each wire that waits at both ends, with    *)
(* the patches of its client or, if nobody's is bound, of all the others.  *)
LEMMA PortArms ==
  ASSUME TypeInv, EntryInv, NumberInv, NEW p \in Patch, Waits(p, p.src), Waits(p, p.dest),
         "id" \in {p.src.kind, p.dest.kind}, NEW end \in {p.src, p.dest},
         NEW s, s.id = jack[end.of].id, s.name = end.of, PortAppeared(s)
  PROVE  WireOf(p) \in calls'
<1> DEFINE n == end.of
           i == FindByJackdbusId(clients, jack[n].id)
<1>0. clients \in Seq(KnownEntry) /\ n \in Name
  BY PatchEnds DEF TypeInv, LashdTypes
<1>1. calls' = calls \union IF i # 0 THEN ClientPortWires(clients, clients[i]) ELSE ForeignPortWires(clients, n)
  BY DEF PortAppeared
<1>2. jack[n].id # None /\ Given(jack[n].id, n)
  BY WaitingEnd
<1>3. /\ i = 0 \/ (i \in DOMAIN clients /\ clients[i].jackdbus_id = jack[n].id
                   /\ clients[i].id = n /\ clients[i].name = n /\ n \in owned)
      /\ i = 0 => \A j \in DOMAIN clients : clients[j].jackdbus_id # jack[n].id
  BY <1>0, <1>2, EntryOfNumber
<1> HIDE DEF i
<1>4. CASE i # 0
  <2>1. end.kind = "id"
    <3>1. end.kind = "name" => \A j \in DOMAIN clients : clients[j].jackdbus_id # jack[n].id
      BY WaitingEnd
    <3>2. end.kind \in {"id", "name"}
      BY WaitingEnd
    <3> QED BY <1>3, <1>4, <3>1, <3>2
  <2>2. /\ end = ById(n) /\ \E j \in Bound(n) : p \in clients[j].old_patches
        /\ \A k \in DOMAIN clients : \A j \in DOMAIN clients : clients[k].id = n /\ clients[j].id = n => k = j
    BY <2>1, WaitingEnd
  <2>3. p \in clients[i].old_patches
    BY <1>3, <1>4, <2>2 DEF Bound
  <2>4. HasName(clients, p.src) /\ HasName(clients, p.dest)
    BY WaitingEnd
  <2>5. clients[i].name = clients[i].id /\ ById(clients[i].id) \in {p.src, p.dest}
    BY <1>3, <1>4, <2>2
  <2>6. WireOf(p) \in ClientPortWires(clients, clients[i])
    BY <2>3, <2>4, <2>5, WireAskedFor
  <2> QED BY <1>1, <1>4, <2>6
<1>5. CASE i = 0
  <2>1. end = ByName(n) /\ end.kind = "name"
    <3>1. end.kind = "id" => \E j \in Bound(n) : p \in clients[j].old_patches
      BY WaitingEnd
    <3>2. end.kind # "id"
      BY <1>3, <1>5, <3>1 DEF Bound
    <3>3. end.kind \in {"id", "name"} /\ (end.kind = "name" => end = ByName(n))
      BY WaitingEnd
    <3> QED BY <3>2, <3>3
  <2>2. PICK other \in {p.src, p.dest} : other.kind = "id"
    OBVIOUS
  <2>3. /\ other = ById(other.of) /\ other.of \in Client
        /\ \E j \in Bound(other.of) : p \in clients[j].old_patches
    BY <2>2, WaitingEnd
  <2>4. PICK j \in Bound(other.of) : p \in clients[j].old_patches
    BY <2>3
  <2>5. j \in DOMAIN clients /\ clients[j].id = other.of
    BY <2>4 DEF Bound
  <2>6. clients[j].name = other.of
    BY <2>5 DEF NumberInv, ListInv, GoodKnown
  <2>7. clients[j] \in ToSet(clients)
    BY <2>5 DEF ToSet
  <2> DEFINE e == clients[j]
  <2>8. e.name = other.of /\ e.id = other.of /\ p \in e.old_patches /\ e \in ToSet(clients)
    BY <2>4, <2>5, <2>6, <2>7
  <2> HIDE DEF e
  <2>9. CASE other = p.src /\ end = p.dest
    <3>1. p \in {q \in e.old_patches : q.src = ById(e.id) /\ q.dest = ByName(n)}
      BY <2>1, <2>3, <2>8, <2>9
    <3>2. <<e.name, n>> \in {<<e.name, n>> : q \in {q \in e.old_patches : q.src = ById(e.id) /\ q.dest = ByName(n)}}
      BY <3>1
    <3>3. <<e.name, n>> \in ForeignPortWires(clients, n)
      BY <2>8, <3>2 DEF ForeignPortWires
    <3>4. WireOf(p) = <<e.name, n>>
      BY <2>8, <2>9 DEF WireOf
    <3> QED BY <1>1, <1>5, <3>3, <3>4
  <2>10. CASE other = p.dest /\ end = p.src
    <3>1. p \in {q \in e.old_patches : q.src # ById(e.id) /\ q.src = ByName(n)}
      BY <2>1, <2>8, <2>10 DEF ById, ByName
    <3>2. <<n, e.name>> \in {<<n, e.name>> : q \in {q \in e.old_patches : q.src # ById(e.id) /\ q.src = ByName(n)}}
      BY <3>1
    <3>3. <<n, e.name>> \in ForeignPortWires(clients, n)
      BY <2>8, <3>2 DEF ForeignPortWires
    <3>4. WireOf(p) = <<n, e.name>>
      BY <2>8, <2>10 DEF WireOf
    <3> QED BY <1>1, <1>5, <3>3, <3>4
  <2>11. other # end
    BY <2>1, <2>2
  <2> QED BY <2>9, <2>10, <2>11
<1> QED BY <1>4, <1>5

(* A wire that is heard of is waited for no more.                          *)
LEMMA WireDisarms ==
  ASSUME TypeInv, EntryInv, NumberInv, NEW p \in Patch, Waits(p, p.src), Waits(p, p.dest), jack' = jack,
         NEW l, l = Link(WireOf(p), [n \in Name |-> jack[n].id]), PortsConnected(l),
         NEW end \in {p.src, p.dest}, end.kind = "id", Waits(p, end)'
  PROVE  FALSE
<1> DEFINE ids == [n \in Name |-> jack[n].id]
           c == end.of
<1>0. clients \in Seq(KnownEntry) /\ p.src.of \in Name /\ p.dest.of \in Name /\ c \in Name
  BY PatchEnds DEF TypeInv, LashdTypes
<1>1. PICK i \in Bound(c)' : p \in clients'[i].old_patches
  BY DEF Waits
<1>2. /\ DOMAIN clients' = DOMAIN clients
      /\ \A k \in DOMAIN clients : /\ clients'[k].id = clients[k].id
                                   /\ clients'[k].jackdbus_id = clients[k].jackdbus_id
                                   /\ clients'[k].old_patches = IF k \in Concerned(l)
                                         THEN OldPatchesLeft(clients, clients[k], {l})
                                         ELSE clients[k].old_patches
  BY PatchesDropped
<1>3. i \in DOMAIN clients /\ clients[i].id = c /\ clients[i].jackdbus_id = jack[c].id
  BY <1>1, <1>2 DEF Bound
<1>4. /\ jack[c].id # None /\ Given(jack[c].id, c)
      /\ \A k \in DOMAIN clients : \A j \in DOMAIN clients : clients[k].id = c /\ clients[j].id = c => k = j
  BY WaitingEnd
<1>5. FindByJackdbusId(clients, jack[c].id) = i /\ i # 0
  <2> DEFINE f == FindByJackdbusId(clients, jack[c].id)
  <2>1. /\ f = 0 \/ (f \in DOMAIN clients /\ clients[f].jackdbus_id = jack[c].id
                     /\ clients[f].id = c /\ clients[f].name = c /\ c \in owned)
        /\ f = 0 => \A j \in DOMAIN clients : clients[j].jackdbus_id # jack[c].id
    BY <1>0, <1>4, EntryOfNumber
  <2> HIDE DEF f
  <2>2. f = i
    BY <1>3, <1>4, <2>1
  <2>3. i # 0
    BY <1>0, <1>3
  <2> QED BY <2>2, <2>3 DEF f
<1>6. ids[p.src.of] = jack[p.src.of].id /\ ids[p.dest.of] = jack[p.dest.of].id
  BY <1>0
<1>7. l.from_id = jack[p.src.of].id /\ l.to_id = jack[p.dest.of].id
  BY <1>0 DEF Link, WireOf
<1>8. i \in Concerned(l)
  BY <1>5, <1>7 DEF Concerned
<1>9. \A k \in DOMAIN clients : Numbered(clients[k])
  BY DEF NumberInv, ListInv, GoodKnown, Numbered
<1>10. ASSUME NEW x \in {p.src, p.dest} PROVE Known(clients, clients[i], jack[x.of].id, x)
  <2>1. /\ jack[x.of].id # None /\ Given(jack[x.of].id, x.of)
        /\ x.kind = "id" => \E j \in Bound(x.of) : p \in clients[j].old_patches
        /\ x.kind = "name" => \A j \in DOMAIN clients : clients[j].jackdbus_id # jack[x.of].id
    BY <1>10, WaitingEnd
  <2> QED BY <1>3, <2>1 DEF Known, Bound
<1>11. Known(clients, clients[i], ids[p.src.of], p.src) /\ Known(clients, clients[i], ids[p.dest.of], p.dest)
  BY <1>6, <1>10
<1>12. l = Link(WireOf(p), ids)
  OBVIOUS
<1> HIDE DEF ids
<1>13. Described(clients, clients[i], Link(WireOf(p), ids)) = p
  BY <1>0, <1>3, <1>9, <1>11, PatchDescribed
<1>14. p \notin OldPatchesLeft(clients, clients[i], {l})
  BY <1>12, <1>13 DEF OldPatchesLeft
<1> QED BY <1>1, <1>2, <1>3, <1>8, <1>14

LEMMA ArmedStays ==
  ASSUME TypeInv, EntryInv, NumberInv, ArmedInv, Lashd
  PROVE  ArmedInv'
<1>0. /\ JackTypes /\ signals \in Seq(Signal) /\ lash \in [Client -> LashClient]
      /\ WorldInv /\ wires \subseteq Name \X Name
  BY DEF TypeInv, LashdTypes, JackTypes, NumberInv
<1>1. jack' = jack /\ wires' = wires
  BY LashdLeavesJack
<1> DEFINE Armed(p) ==
      /\ \/ WireOf(p) \in calls'
         \/ Queued(signals', WireMade(WireOf(p)))
         \/ Queued(signals', PortSignal(p.src.of)) \/ Queued(signals', PortSignal(p.dest.of))
      /\ WireOf(p) \in wires => Queued(signals', WireMade(WireOf(p)))
<1> SUFFICES ASSUME NEW p \in Patch, Waits(p, p.src)', Waits(p, p.dest)', "id" \in {p.src.kind, p.dest.kind}
             PROVE  Armed(p)
  BY <1>1 DEF ArmedInv, WireMade, PortSignal, LinkSignal, ClientSignal, Link
<1> DEFINE n == p.src.of
           m == p.dest.of
           w == WireOf(p)
<1>2. w \in Name \X Name /\ w[1] = n /\ w[2] = m /\ n \in Name /\ m \in Name
  BY PatchEnds DEF WireOf
<1>3. WireMade(w).kind = "connected" /\ PortSignal(n).kind = "port" /\ PortSignal(m).kind = "port"
  BY <1>2, SignalFields
<1> DEFINE Was == Waits(p, p.src) /\ Waits(p, p.dest)
           Wire1 == Queued(signals, WireMade(w)) => Queued(signals', WireMade(w))
           Port1 == \/ Queued(signals, PortSignal(n)) \/ Queued(signals, PortSignal(m))
                    => Queued(signals', PortSignal(n)) \/ Queued(signals', PortSignal(m))
<1>4. Was => /\ \/ w \in calls \/ Queued(signals, WireMade(w))
                \/ Queued(signals, PortSignal(n)) \/ Queued(signals, PortSignal(m))
             /\ w \in wires => Queued(signals, WireMade(w))
  BY DEF ArmedInv
<1> HIDE DEF w
<1>5. Was /\ Wire1 /\ Port1 /\ calls \subseteq calls' => Armed(p)
  BY <1>4 DEF w
<1>6. Shrinks => Was
  <2> SUFFICES ASSUME Shrinks, NEW end \in {p.src, p.dest} PROVE Waits(p, end)
    OBVIOUS
  <2>1. Waits(p, end)'
    OBVIOUS
  <2> QED BY <1>1, <2>1, EndWaited DEF Shrinks
<1>7. ASSUME NEW k, Took(k), k # "connected" PROVE Wire1
  BY <1>0, <1>2, <1>7, WireKept
<1>8. ASSUME NEW k, Took(k), NEW s, s.kind # k, Queued(signals, s) PROVE Queued(signals', s)
  BY <1>0, <1>8, QueueShrinks DEF Took
<1>9. ASSUME NEW k, Took(k), k # "port" PROVE Port1
  BY <1>3, <1>8, <1>9
<1> DEFINE Of(d) == d \in {n, m}
<1>10. ASSUME NEW e \in UnknownEntry, NEW d \in Client, e.name = d, NEW u, NEW l \in [Client -> LashClient],
              NEW id, NEW left, Binding(e, d, u, l, id, left), Wire1, Port1
       PROVE  Armed(p)
  <2>1. CASE Of(d)
    <3>1. w \in calls' /\ w \notin wires
      BY <1>1, <1>10, <2>1, BindingArms DEF w
    <3> QED BY <3>1 DEF w
  <2>2. CASE ~Of(d)
    <3> DEFINE new == BoundEntry(e, d, id, left, l[d].jack_patches)
    <3>1. /\ clients' = Append(clients, new) /\ clients \in Seq(KnownEntry) /\ new.id = d
          /\ owned \subseteq owned' /\ rebound \subseteq rebound' /\ calls \subseteq calls'
      BY <1>10 DEF Binding, BoundEntry, TypeInv, LashdTypes
    <3> HIDE DEF new
    <3>2. \A j \in DOMAIN clients' : (j \in DOMAIN clients /\ clients'[j] = clients[j]) \/ clients'[j] = new
      BY <3>1, AppendedEntry
    <3>3. ASSUME NEW end \in {p.src, p.dest} PROVE Waits(p, end)
      <4>1. Waits(p, end)' /\ end.of # d
        BY <2>2, <3>3
      <4>2. \A j \in DOMAIN clients' : clients'[j].id = end.of => j \in DOMAIN clients /\ clients'[j] = clients[j]
        BY <3>1, <3>2, <4>1
      <4> QED BY <1>1, <3>1, <4>1, <4>2, EndWaited
    <3>4. Was
      BY <3>3
    <3> QED BY <1>5, <1>10, <3>1, <3>4
  <2> QED BY <2>1, <2>2
<1> HIDE DEF Was, Wire1, Port1, Armed, Of
<1>11. ASSUME NEW d \in Client, NEW id, NEW left, AppearedBinds(d, id, left) PROVE Armed(p)
  <2>1. Took("appeared") /\ NewEntry \in UnknownEntry /\ Binding(NewEntry, d, unknown_clients, lash, id, left)
    BY <1>11 DEF AppearedBinds
  <2>2. NewEntry.name = d
    BY <1>11, AppearedOwner
  <2>3. Wire1 /\ Port1
    BY <1>7, <1>9, <2>1
  <2> QED BY <1>0, <1>10, <2>1, <2>2, <2>3
<1>12. ASSUME NEW d \in Client, NEW i, NEW id, NEW left, ConnectBinds(d, i, id, left) PROVE Armed(p)
  <2>1. /\ Binding(unknown_clients[i], d, RemoveAt(unknown_clients, i), Connected(d), id, left)
        /\ UNCHANGED signals
    BY <1>12 DEF ConnectBinds, Connects
  <2>2. unknown_clients[i] \in UnknownEntry /\ unknown_clients[i].name = d
    BY <1>12, ConnectedEntry
  <2>3. Connected(d) \in [Client -> LashClient]
    <3>1. process[d] \in Id
      BY <1>0 DEF JackTypes
    <3> QED BY <1>0, <3>1 DEF Connected, LashClient
  <2>4. Wire1 /\ Port1
    BY <2>1 DEF Wire1, Port1
  <2> QED BY <1>10, <2>1, <2>2, <2>3, <2>4
<1>13. CASE HearsOther /\ Shrinks
  <2>1. Wire1 /\ Port1
    <3>1. CASE UNCHANGED signals
      BY <3>1 DEF Wire1, Port1
    <3>2. CASE ~UNCHANGED signals
      <4>1. PICK k \in {"appeared", "disappeared", "disconnected", "started", "stopped"} : Took(k)
        BY <1>13, <3>2 DEF HearsOther
      <4> QED BY <1>7, <1>9, <4>1
    <3> QED BY <3>1, <3>2
  <2> QED BY <1>5, <1>6, <1>13, <2>1 DEF Shrinks
<1>14. CASE Took("port") /\ PortAppeared(Head(signals)) /\ Shrinks
  <2>1. Was /\ Wire1 /\ calls \subseteq calls'
    BY <1>6, <1>7, <1>14 DEF Shrinks
  <2>2. CASE Head(signals) # PortSignal(n) /\ Head(signals) # PortSignal(m)
    <3>1. Port1
      BY <1>0, <1>14, <2>2, QueueShrinks DEF Took, Port1
    <3> QED BY <1>5, <2>1, <3>1
  <2>3. ASSUME NEW end \in {p.src, p.dest}, Head(signals) = PortSignal(end.of) PROVE Armed(p)
    <3>1. Head(signals).id = jack[end.of].id /\ Head(signals).name = end.of
      BY <2>3, SignalFields
    <3>2. w \in calls'
      BY <1>14, <2>1, <2>3, <3>1, PortArms DEF w, Was
    <3>3. w \in wires => Queued(signals', WireMade(w))
      BY <1>4, <2>1 DEF Wire1
    <3> QED BY <3>2, <3>3 DEF Armed, w
  <2> QED BY <2>2, <2>3
<1>15. CASE Took("connected") /\ PortsConnected(Head(signals).link) /\ Shrinks
  <2>1. Was /\ Port1 /\ calls \subseteq calls'
    BY <1>6, <1>9, <1>15 DEF Shrinks
  <2>2. CASE Head(signals) # WireMade(w)
    <3>1. Wire1
      BY <1>0, <1>15, <2>2, QueueShrinks DEF Took, Wire1
    <3> QED BY <1>5, <2>1, <3>1
  <2>3. CASE Head(signals) = WireMade(w)
    <3> DEFINE l == Head(signals).link
    <3>1. l = Link(WireOf(p), [x \in Name |-> jack[x].id])
      BY <2>3 DEF WireMade, LinkSignal, w
    <3> HIDE DEF l
    <3>2. PICK end \in {p.src, p.dest} : end.kind = "id"
      OBVIOUS
    <3>3. Waits(p, end)'
      BY <3>2
    <3>4. PortsConnected(l)
      BY <1>15 DEF l
    <3>5. FALSE
      BY <1>1, <2>1, <3>1, <3>2, <3>3, <3>4, WireDisarms DEF Was
    <3> QED BY <3>5
  <2> QED BY <2>2, <2>3
<1> QED BY <1>11, <1>12, <1>13, <1>14, <1>15, LashdShrinks

(* Once lashd has heard everything and JACK has taken every call, no patch *)
(* waits at both its ends: each order of appearing clients, their ports,   *)
(* the connections to lashd and the wires themselves has an end ask for    *)
(* the wire (lashd_jackdbus_mgr_bind_client, _new_client_port and          *)
(* _new_foreign_port) or learn that it is there.                           *)
THEOREM PatchesResume == Spec => []NothingLeftToResume
<1>1. ASSUME Init PROVE ArmedInv
  <2>1. ASSUME NEW p \in Patch, NEW end \in {p.src, p.dest}, end.kind = "id" PROVE ~Waits(p, end)
    BY <1>1, <2>1 DEF Init, Waits, Bound
  <2> QED BY <2>1 DEF ArmedInv
<1>2. ASSUME TypeInv, EntryInv, NumberInv, ArmedInv, [Next]_vars PROVE ArmedInv'
  <2>1. CASE UNCHANGED vars
    BY <1>2, <2>1 DEF vars, jackVars, processVars, mgrVars, projectVars, historyVars, ArmedInv, Waits, Bound,
       WireMade, PortSignal, LinkSignal, ClientSignal
  <2> QED BY <1>2, <2>1, ArmedMoves, ArmedStays DEF Next
<1>3. ASSUME TypeInv, NumberInv, ArmedInv PROVE NothingLeftToResume
  <2> SUFFICES ASSUME Quiet, NEW c \in Client, NEW i \in Bound(c), NEW p \in clients[i].old_patches,
                      Waits(p, p.src), Waits(p, p.dest)
               PROVE  FALSE
    BY DEF NothingLeftToResume, Running, Lost
  <2>1. i \in DOMAIN clients /\ clients[i].id = c
    BY DEF Bound
  <2>2. p \in Patch
    <3>1. clients[i] \in KnownEntry
      BY <1>3, <2>1 DEF TypeInv, LashdTypes
    <3> QED BY <3>1 DEF KnownEntry
  <2>3. ById(c) \in {p.src, p.dest}
    BY <1>3, <2>1 DEF NumberInv, ListInv, GoodKnown, OfClient
  <2>4. "id" \in {p.src.kind, p.dest.kind}
    BY <2>3 DEF ById
  <2>5. \A s : ~Queued(signals, s)
    BY DEF Quiet, Queued
  <2> QED BY <1>3, <2>2, <2>4, <2>5 DEF ArmedInv, Quiet
<1> QED BY <1>1, <1>2, <1>3, NumbersHold, PTL DEF Spec

=============================================================================
