------------------------ MODULE LiblashSessionProofs ------------------------
(***************************************************************************)
(* Theorems about LiblashSession, for any names, kinds of clients and      *)
(* numbers of tasks and renames.                                           *)
(***************************************************************************)
EXTENDS LiblashSession, FiniteSetTheorems, SequenceTheorems, WellFoundedInduction, TLAPS

------------------------------------------------------------------------------
(* The least number *)

(* What cannot fail first does not fail: the induction that the proofs of  *)
(* recursive functions use.                                                *)
LEMMA LeastNumber ==
  ASSUME NEW T, T \subseteq Nat, T # {}
  PROVE  \E n \in T : \A m \in T : n <= m
<1>1. PICK n \in T : \A m \in T : ~(<<m, n>> \in OpToRel(<, Nat))
  BY NatLessThanWellFounded, WFMin
<1>2. \A m \in T : ~(m < n)
  BY <1>1 DEF OpToRel
<1> QED BY <1>2

------------------------------------------------------------------------------
(* What the client will call its project *)

(* The names f are those of Known for the first k of the messages s.       *)
Calls(f, k, n, s) ==
  f = [i \in 0..k |-> IF i = 0 THEN n ELSE Called(f[i - 1], s[i])]

LEMMA CallsExist ==
  ASSUME NEW n, NEW s, NEW k \in Nat
  PROVE  \E f : Calls(f, k, n, s)
<1> DEFINE T == {j \in Nat : ~\E f : Calls(f, j, n, s)}
<1>1. SUFFICES ASSUME T # {} PROVE FALSE
  OBVIOUS
<1>2. PICK j \in T : \A m \in T : j <= m
  BY <1>1, LeastNumber
<1>3. CASE j = 0
  <2> DEFINE f == [i \in 0..0 |-> n]
  <2>1. f = [i \in 0..0 |-> IF i = 0 THEN n ELSE Called(f[i - 1], s[i])]
    OBVIOUS
  <2> HIDE DEF f
  <2>2. Calls(f, j, n, s)
    BY <1>3, <2>1 DEF Calls
  <2> QED BY <1>2, <2>2
<1>4. CASE j # 0
  <2>1. j - 1 \in Nat /\ j - 1 \notin T
    BY <1>2, <1>4
  <2>2. PICK f : Calls(f, j - 1, n, s)
    BY <2>1
  <2> DEFINE g == [i \in 0..j |-> IF i < j THEN f[i] ELSE Called(f[j - 1], s[j])]
  <2>3. ASSUME NEW i \in 0..j
        PROVE  g[i] = IF i = 0 THEN n ELSE Called(g[i - 1], s[i])
    <3>1. CASE i = 0
      <4>1. g[i] = f[0] /\ 0 \in 0..j - 1
        BY <1>2, <1>4, <3>1
      <4>2. f[0] = n
        BY <2>2, <4>1 DEF Calls
      <4> QED BY <3>1, <4>1, <4>2
    <3>2. CASE i # 0 /\ i < j
      <4>1. i \in 0..j - 1 /\ i - 1 \in 0..j /\ i - 1 < j
        BY <1>2, <3>2
      <4>2. f[i] = Called(f[i - 1], s[i])
        BY <2>2, <3>2, <4>1 DEF Calls
      <4>3. g[i] = f[i] /\ g[i - 1] = f[i - 1]
        BY <3>2, <4>1
      <4> HIDE DEF g
      <4> QED BY <3>2, <4>2, <4>3
    <3>3. CASE i = j
      <4>1. j - 1 \in 0..j /\ j - 1 < j /\ j \in 0..j /\ ~(j < j)
        BY <1>2, <1>4
      <4>2. g[j] = Called(f[j - 1], s[j]) /\ g[j - 1] = f[j - 1]
        BY <4>1
      <4> HIDE DEF g
      <4> QED BY <1>4, <3>3, <4>2
    <3> HIDE DEF g
    <3> QED BY <1>2, <3>1, <3>2, <3>3
  <2>4. g = [i \in 0..j |-> g[i]]
    OBVIOUS
  <2> HIDE DEF g
  <2>5. Calls(g, j, n, s)
    BY <2>3, <2>4 DEF Calls
  <2> QED BY <1>2, <2>5
<1> QED BY <1>3, <1>4

LEMMA KnownUnfolds ==
  ASSUME NEW n, NEW s, Len(s) \in Nat
  PROVE  Calls(Known(n, s), Len(s), n, s)
<1>1. PICK f : Calls(f, Len(s), n, s)
  BY CallsExist
<1> DEFINE name == CHOOSE g : g = [i \in 0..Len(s) |->
                                     IF i = 0 THEN n ELSE Called(g[i - 1], s[i])]
<1>2. f = [i \in 0..Len(s) |-> IF i = 0 THEN n ELSE Called(f[i - 1], s[i])]
  BY <1>1 DEF Calls
<1>3. name = [i \in 0..Len(s) |-> IF i = 0 THEN n ELSE Called(name[i - 1], s[i])]
  BY <1>2
<1>4. Known(n, s) = name
  BY DEF Known
<1> HIDE DEF name
<1> QED BY <1>3, <1>4 DEF Calls

LEMMA KnownIs ==
  ASSUME NEW n, NEW s, Len(s) \in Nat, NEW g, Calls(g, Len(s), n, s)
  PROVE  Known(n, s) = g
<1> DEFINE f == Known(n, s)
<1>1. Calls(f, Len(s), n, s)
  BY KnownUnfolds
<1> HIDE DEF f
<1> DEFINE T == {i \in 0..Len(s) : f[i] # g[i]}
<1>2. ASSUME T # {} PROVE FALSE
  <2>0. T \subseteq Nat
    OBVIOUS
  <2>1. PICK i \in T : \A m \in T : i <= m
    <3> HIDE DEF T
    <3> QED BY <1>2, <2>0, LeastNumber
  <2>2. i # 0
    <3>1. 0 \in 0..Len(s)
      OBVIOUS
    <3>2. f[0] = n
      BY <1>1, <3>1 DEF Calls
    <3>3. g[0] = n
      BY <3>1 DEF Calls
    <3> QED BY <3>2, <3>3
  <2>3. i - 1 \in 0..Len(s) /\ i - 1 \notin T
    BY <2>1, <2>2
  <2>4. f[i] = Called(f[i - 1], s[i])
    BY <1>1, <2>2 DEF Calls
  <2>5. g[i] = Called(g[i - 1], s[i])
    BY <2>2 DEF Calls
  <2> QED BY <2>3, <2>4, <2>5
<1>3. \A i \in 0..Len(s) : f[i] = g[i]
  BY <1>2
<1>4. f = [i \in 0..Len(s) |-> f[i]] /\ g = [i \in 0..Len(s) |-> g[i]]
  BY <1>1 DEF Calls
<1>5. f = g
  BY <1>3, <1>4
<1> QED BY <1>5 DEF f

(* One more message.                                                       *)
LEMMA KnownAppended ==
  ASSUME NEW S, NEW s \in Seq(S), NEW m, NEW n
  PROVE  /\ \A i \in 0..Len(s) : Known(n, Append(s, m))[i] = Known(n, s)[i]
         /\ Known(n, Append(s, m))[Len(s) + 1] = Called(Known(n, s)[Len(s)], m)
<1> DEFINE f == Known(n, s)
           k == Len(s)
           a == Append(s, m)
<1>1. /\ k \in Nat /\ Len(a) = k + 1 /\ a[k + 1] = m
      /\ \A i \in 1..k : a[i] = s[i]
  OBVIOUS
<1>2. Calls(f, k, n, s)
  BY <1>1, KnownUnfolds
<1> HIDE DEF f, k, a
<1> DEFINE g == [i \in 0..k + 1 |-> IF i <= k THEN f[i] ELSE Called(f[k], m)]
<1>3. ASSUME NEW i \in 0..k + 1
      PROVE  g[i] = IF i = 0 THEN n ELSE Called(g[i - 1], a[i])
  <2>1. CASE i = 0
    <3>1. 0 \in 0..k /\ 0 <= k
      BY <1>1
    <3>2. f[0] = n
      BY <1>2, <3>1 DEF Calls
    <3> QED BY <2>1, <3>1, <3>2
  <2>2. CASE i \in 1..k
    <3>1. i \in 0..k /\ i - 1 \in 0..k + 1 /\ i - 1 <= k /\ i <= k /\ i # 0
      BY <1>1, <2>2
    <3>2. f[i] = Called(f[i - 1], s[i])
      BY <1>2, <3>1 DEF Calls
    <3>3. g[i] = f[i] /\ g[i - 1] = f[i - 1] /\ a[i] = s[i]
      BY <1>1, <2>2, <3>1
    <3> HIDE DEF g
    <3> QED BY <3>1, <3>2, <3>3
  <2>3. CASE i = k + 1
    <3>1. k \in 0..k + 1 /\ k <= k /\ ~(k + 1 <= k) /\ k + 1 # 0 /\ k + 1 - 1 = k
          /\ k + 1 \in 0..k + 1
      BY <1>1
    <3>2. g[k + 1] = Called(f[k], m) /\ g[k] = f[k]
      BY <3>1
    <3> HIDE DEF g
    <3> QED BY <1>1, <2>3, <3>1, <3>2
  <2> HIDE DEF g
  <2> QED BY <1>1, <2>1, <2>2, <2>3
<1>4. g = [i \in 0..k + 1 |-> g[i]]
  OBVIOUS
<1>5. \A i \in 0..k : g[i] = f[i]
  BY <1>1
<1>6. g[k + 1] = Called(f[k], m)
  BY <1>1
<1> HIDE DEF g
<1>7. Calls(g, Len(a), n, a)
  BY <1>1, <1>3, <1>4 DEF Calls
<1>8. Known(n, a) = g
  BY <1>1, <1>7, KnownIs
<1> QED BY <1>5, <1>6, <1>8 DEF f, k, a

(* One message less.                                                       *)
LEMMA KnownDispatched ==
  ASSUME NEW S, NEW s \in Seq(S), s # <<>>, NEW n
  PROVE  \A i \in 0..Len(s) - 1 :
           Known(Called(n, Head(s)), Tail(s))[i] = Known(n, s)[i + 1]
<1> DEFINE f == Known(n, s)
           k == Len(s)
           t == Tail(s)
           h == Head(s)
<1>1. /\ k \in Nat /\ k > 0 /\ Len(t) = k - 1 /\ s[1] = h
      /\ \A i \in 1..k - 1 : t[i] = s[i + 1]
  OBVIOUS
<1>2. Calls(f, k, n, s)
  BY <1>1, KnownUnfolds
<1> HIDE DEF f, k, t, h
<1>3. f[0] = n /\ \A i \in 1..k : f[i] = Called(f[i - 1], s[i])
  <2>1. \A i \in 0..k : f[i] = IF i = 0 THEN n ELSE Called(f[i - 1], s[i])
    BY <1>2 DEF Calls
  <2>2. 0 \in 0..k /\ \A i \in 1..k : i \in 0..k /\ i # 0
    BY <1>1
  <2> QED BY <2>1, <2>2
<1> DEFINE g == [i \in 0..k - 1 |-> f[i + 1]]
<1>4. ASSUME NEW i \in 0..k - 1
      PROVE  g[i] = IF i = 0 THEN Called(n, h) ELSE Called(g[i - 1], t[i])
  <2>1. CASE i = 0
    <3>1. 1 \in 1..k /\ 1 - 1 = 0 /\ i + 1 = 1
      BY <1>1, <2>1
    <3>2. f[1] = Called(f[0], s[1])
      BY <1>3, <3>1
    <3> QED BY <1>1, <1>3, <2>1, <3>1, <3>2
  <2>2. CASE i # 0
    <3>1. /\ i + 1 \in 1..k /\ i \in 1..k - 1 /\ i - 1 \in 0..k - 1
          /\ i + 1 - 1 = i /\ i - 1 + 1 = i
      BY <1>1, <2>2
    <3>2. f[i + 1] = Called(f[i], s[i + 1])
      BY <1>3, <3>1
    <3>3. g[i] = f[i + 1] /\ g[i - 1] = f[i] /\ t[i] = s[i + 1]
      BY <1>1, <3>1
    <3> HIDE DEF g
    <3> QED BY <2>2, <3>2, <3>3
  <2> HIDE DEF g
  <2> QED BY <2>1, <2>2
<1>5. g = [i \in 0..k - 1 |-> g[i]] /\ \A i \in 0..k - 1 : g[i] = f[i + 1]
  OBVIOUS
<1> HIDE DEF g
<1>6. Calls(g, Len(t), Called(n, h), t)
  BY <1>1, <1>4, <1>5 DEF Calls
<1>7. Known(Called(n, h), t) = g
  BY <1>1, <1>6, KnownIs
<1> QED BY <1>5, <1>7 DEF f, k, t, h

LEMMA KnownFirst ==
  ASSUME NEW n, NEW s, Len(s) \in Nat
  PROVE  /\ Known(n, s)[0] = n
         /\ \A i \in 1..Len(s) : Known(n, s)[i] = Called(Known(n, s)[i - 1], s[i])
<1> DEFINE f == Known(n, s)
<1>1. Calls(f, Len(s), n, s)
  BY KnownUnfolds
<1> HIDE DEF f
<1>2. \A i \in 0..Len(s) : f[i] = IF i = 0 THEN n ELSE Called(f[i - 1], s[i])
  BY <1>1 DEF Calls
<1>3. 0 \in 0..Len(s) /\ \A i \in 1..Len(s) : i \in 0..Len(s) /\ i # 0
  OBVIOUS
<1> QED BY <1>2, <1>3 DEF f

------------------------------------------------------------------------------
(* The inductive invariant *)

(* The messages of the two queues.                                         *)
ToClient ==
  [type : {"Save"}, name : Name, task : Task]
    \cup [type : {"Load"}, task : Task]
    \cup [type : {"Quit", "Reply"}, name : Name]
    \cup [type : {"ProjectNameChanged", "ProjectPathChanged"},
          old : Name, new : Name \cup {Text}]

ToServer ==
  [type : {"Connect", "SaveProject", "CloseProject", "Error"}]
    \cup [type : {"Progress"}, task : Task, percentage : {0, 99, 255}]
    \cup [type : {"CommitDataSet"}, task : Task, configs : BOOLEAN]

DaemonTypeOK ==
  /\ setup \in Setup
  /\ project \in Name \cup {NoName} /\ other \in Name
  /\ task_iter \in 0..MaxTask /\ client_task \in 0..task_iter
  /\ closed \in BOOLEAN /\ changes \in 0..MaxRename

BusTypeOK ==
  /\ to_client \in Seq(ToClient)
  /\ to_server \in Seq(ToServer)
  /\ matched \subseteq {"Control", "Server", "ProjectNameChanged"}

LibraryTypeOK ==
  /\ phase \in {"closed", "connecting", "matching", "running"}
  /\ server_connected \in BOOLEAN
  /\ project_name \in Name \cup {NoName, Text}
  /\ pending_task \in 0..task_iter
  /\ events_in \in Seq(TaskEvent \cup {"Quit"})
  /\ unsent_configs \in {"none", "empty", "some"}
  /\ g_pending_event \in TaskEvent \cup {"none"}
  /\ handling \in TaskEvent \cup {"none"}

HistoryTypeOK ==
  /\ taken \subseteq Task
  /\ answers \in [Task -> 0..1]
  /\ successes \subseteq Task
  /\ told \in BOOLEAN
  /\ lost \subseteq 0..MaxTask
  /\ misnamed \in BOOLEAN

TypeOK == DaemonTypeOK /\ BusTypeOK /\ LibraryTypeOK /\ HistoryTypeOK

(* A message that asks for a task, and one that ends one.                  *)
IsRequest(m) == m.type \in {"Save", "Load"}

IsFinal(m) == \/ m.type = "CommitDataSet"
              \/ m.type = "Progress" /\ m.percentage \in {0, 255}

(* A task is requested, pending or answered, and once only.                *)
TaskInv ==
  /\ \A i, j \in DOMAIN to_client :
       IsRequest(to_client[i]) /\ IsRequest(to_client[j])
         /\ to_client[i].task = to_client[j].task => i = j
  /\ \A i \in DOMAIN to_client : IsRequest(to_client[i]) =>
       /\ to_client[i].task <= task_iter
       /\ to_client[i].task # pending_task
       /\ answers[to_client[i].task] = 0
  /\ pending_task # 0 => answers[pending_task] = 0
  /\ \A t \in Task : t > task_iter => answers[t] = 0
  /\ \A i \in DOMAIN to_server :
       IsFinal(to_server[i]) => answers[to_server[i].task] = 1

(* The pending task has one event, which is in the queue or with the       *)
(* application.                                                            *)
EventInv ==
  /\ handling # "none" => g_pending_event = handling
  /\ g_pending_event # "none" => pending_task \in taken
  /\ \A i \in DOMAIN events_in : events_in[i] \in TaskEvent =>
       /\ pending_task # 0 /\ g_pending_event = "none"
       /\ \A j \in DOMAIN events_in : events_in[j] \in TaskEvent => i = j

(* A client connects once, and has no signals before that.                 *)
ConnectInv ==
  /\ \A i \in DOMAIN to_server : to_server[i].type = "Connect" =>
       /\ phase # "closed" /\ project = NoName /\ ~closed
       /\ phase = "connecting" => to_client = <<>>
       /\ \A j \in DOMAIN to_server : to_server[j].type = "Connect" => i = j
  /\ Member => ~closed
  /\ phase = "closed" => project = NoName /\ ~closed /\ to_client = <<>>
  /\ phase \in {"closed", "connecting"} =>
       /\ matched = {} /\ project_name = NoName /\ pending_task = 0
  /\ phase = "connecting" =>
       \/ to_client = <<>>
       \/ \E n \in Name :
            /\ Member /\ ~misnamed => n = project
            /\ Member \/ closed
            /\ \/ to_client = <<Reply(n)>>
               \/ \E t \in Task : to_client = <<Load(t), Reply(n)>>
  /\ phase \in {"matching", "running"} /\ ~misnamed =>
       /\ Member \/ closed
       /\ \A i \in DOMAIN to_client : to_client[i].type # "Reply"
  /\ client_task # 0 => Member

LibraryInv == TypeOK /\ TaskInv /\ EventInv /\ ConnectInv /\ successes \subseteq taken

KnownBefore(i) == Known(project_name, to_client)[i - 1]

(* Signals reach the client while it calls its project by the name that    *)
(* the project had when they were sent.                                    *)
NameInv ==
  ~misnamed =>
    /\ Member => /\ project = Known(project_name, to_client)[Len(to_client)]
                 /\ project # other
    /\ told => closed
    /\ closed => \/ told \/ 0 \in lost
                 \/ \E i \in DOMAIN to_client :
                      to_client[i].type = "Quit" /\ KnownBefore(i) = to_client[i].name
    /\ ~closed => \A i \in DOMAIN to_client : to_client[i].type = "Quit" =>
                    KnownBefore(i) \notin {NoName, to_client[i].name}

(* The daemon's task for the client is the library's.                      *)
SameTaskInv ==
  ~misnamed /\ Member =>
    /\ pending_task \in {0, client_task}
    /\ \A i \in DOMAIN to_client :
         \/ to_client[i].type = "Load"
         \/ to_client[i].type = "Save" /\ KnownBefore(i) = to_client[i].name
         => to_client[i].task = client_task
    /\ \A i \in DOMAIN to_client :
         to_client[i].type = "Save" /\ to_client[i].task = client_task
         => KnownBefore(i) = to_client[i].name

SessionInv == LibraryInv /\ NameInv /\ SameTaskInv /\ AskedTaskIsUnderway

------------------------------------------------------------------------------
(* Messages *)

LEMMA MessagesToClient ==
  /\ \A n \in Name, t \in Task : Save(n, t) \in ToClient
  /\ \A n \in Name : Quit(n) \in ToClient /\ Reply(n) \in ToClient
  /\ \A n, new \in Name : NameChanged(n, new) \in ToClient
  /\ \A n \in Name : ProjectChanged(n, Text) \in ToClient
  /\ \A t \in Task : Load(t) \in ToClient
<1>1. \A n \in Name, t \in Task : Save(n, t) \in ToClient
  BY DEF Save, ToClient
<1>2. \A n \in Name : Quit(n) \in ToClient /\ Reply(n) \in ToClient
  BY DEF Quit, Reply, ToClient
<1>3. \A n, new \in Name : NameChanged(n, new) \in ToClient
  BY DEF NameChanged, ToClient
<1>4. \A n \in Name : ProjectChanged(n, Text) \in ToClient
  BY DEF ProjectChanged, ToClient
<1>5. \A t \in Task : Load(t) \in ToClient
  BY DEF Load, ToClient
<1> QED BY <1>1, <1>2, <1>3, <1>4, <1>5

LEMMA MessagesToServer ==
  /\ Connect \in ToServer
  /\ \A type \in {"SaveProject", "CloseProject", "Error"} : Request(type) \in ToServer
  /\ \A t \in Task, x \in {0, 99, 255} : Progress(t, x) \in ToServer
  /\ \A t \in Task, configs \in BOOLEAN : CommitDataSet(t, configs) \in ToServer
BY DEF Connect, Request, Progress, CommitDataSet, ToServer

LEMMA MessageFields ==
  ASSUME NEW m \in ToClient
  PROVE  /\ m.type \in {"Save", "Quit", "Reply", "Load", "ProjectNameChanged",
                        "ProjectPathChanged"}
         /\ IsRequest(m) => m.task \in Task
         /\ m.type \in {"Save", "Quit", "Reply"} => m.name \in Name
         /\ "new" \in DOMAIN m <=> m.type \in {"ProjectNameChanged", "ProjectPathChanged"}
         /\ "new" \in DOMAIN m => m.old \in Name /\ m.new \in Name \cup {Text}
<1>1. CASE m \in [type : {"Save"}, name : Name, task : Task]
  BY <1>1 DEF IsRequest
<1>2. CASE m \in [type : {"Load"}, task : Task]
  BY <1>2 DEF IsRequest
<1>3. CASE m \in [type : {"Quit", "Reply"}, name : Name]
  BY <1>3 DEF IsRequest
<1>4. CASE m \in [type : {"ProjectNameChanged", "ProjectPathChanged"},
                  old : Name, new : Name \cup {Text}]
  BY <1>4 DEF IsRequest
<1> QED BY <1>1, <1>2, <1>3, <1>4 DEF ToClient

LEMMA ReportFields ==
  ASSUME NEW m \in ToServer
  PROVE  /\ IsFinal(m) => m.task \in Task
         /\ m.type = "Connect" <=> m = Connect
         /\ m.type \in {"Connect", "SaveProject", "CloseProject", "Error"} => ~IsFinal(m)
         /\ m.type = "CommitDataSet" => m.task \in Task /\ m.configs \in BOOLEAN
         /\ m.type = "Progress" => m.task \in Task /\ m.percentage \in {0, 99, 255}
<1>1. CASE m \in [type : {"Connect", "SaveProject", "CloseProject", "Error"}]
  BY <1>1 DEF IsFinal, Connect
<1>2. CASE m \in [type : {"Progress"}, task : Task, percentage : {0, 99, 255}]
  BY <1>2 DEF IsFinal, Connect
<1>3. CASE m \in [type : {"CommitDataSet"}, task : Task, configs : BOOLEAN]
  BY <1>3 DEF IsFinal, Connect
<1> QED BY <1>1, <1>2, <1>3 DEF ToServer

LEMMA SentOne ==
  ASSUME NEW S, NEW s \in Seq(S), NEW x \in S
  PROVE  /\ s \o <<x>> \in Seq(S) /\ Len(s \o <<x>>) = Len(s) + 1
         /\ \A i \in 1..Len(s) : (s \o <<x>>)[i] = s[i]
         /\ (s \o <<x>>)[Len(s) + 1] = x
<1>1. s \o <<x>> = Append(s, x)
  BY AppendIsConcat
<1> QED BY <1>1, AppendProperties

LEMMA SentTwo ==
  ASSUME NEW S, NEW s \in Seq(S), NEW x \in S, NEW y \in S
  PROVE  /\ s \o <<x, y>> \in Seq(S) /\ Len(s \o <<x, y>>) = Len(s) + 2
         /\ \A i \in 1..Len(s) : (s \o <<x, y>>)[i] = s[i]
         /\ (s \o <<x, y>>)[Len(s) + 1] = x
         /\ (s \o <<x, y>>)[Len(s) + 2] = y
         /\ s \o <<x, y>> = Append(Append(s, x), y)
<1> DEFINE a == Append(s, x)
           b == Append(a, y)
<1>1. /\ a \in Seq(S) /\ Len(a) = Len(s) + 1 /\ a[Len(s) + 1] = x
      /\ \A i \in 1..Len(s) : a[i] = s[i]
  BY AppendProperties
<1> HIDE DEF a
<1>2. /\ b \in Seq(S) /\ Len(b) = Len(a) + 1 /\ b[Len(a) + 1] = y
      /\ \A i \in 1..Len(a) : b[i] = a[i]
  BY <1>1, AppendProperties
<1> HIDE DEF b
<1>3. <<x, y>> \in Seq(S) /\ Len(<<x, y>>) = 2 /\ <<x, y>>[1] = x /\ <<x, y>>[2] = y
  OBVIOUS
<1>4. /\ s \o <<x, y>> \in Seq(S) /\ Len(s \o <<x, y>>) = Len(s) + 2
      /\ \A i \in 1..Len(s) + 2 : (s \o <<x, y>>)[i] =
           IF i <= Len(s) THEN s[i] ELSE <<x, y>>[i - Len(s)]
  BY <1>3, ConcatProperties
<1>5. Len(s) \in Nat
  OBVIOUS
<1>6. \A i \in 1..Len(s) + 2 : (s \o <<x, y>>)[i] = b[i]
  <2>1. SUFFICES ASSUME NEW i \in 1..Len(s) + 2
                 PROVE  (s \o <<x, y>>)[i] = b[i]
    OBVIOUS
  <2>2. CASE i <= Len(s)
    BY <1>1, <1>2, <1>4, <1>5, <2>2
  <2>3. CASE i = Len(s) + 1
    BY <1>1, <1>2, <1>3, <1>4, <1>5, <2>3
  <2>4. CASE i = Len(s) + 2
    BY <1>1, <1>2, <1>3, <1>4, <1>5, <2>4
  <2> QED BY <1>5, <2>2, <2>3, <2>4
<1>7. s \o <<x, y>> = b
  <2> DEFINE c == s \o <<x, y>>
  <2>1. c \in Seq(S) /\ b \in Seq(S) /\ Len(c) = Len(b)
        /\ \A i \in 1..Len(c) : c[i] = b[i]
    BY <1>1, <1>2, <1>4, <1>5, <1>6
  <2> HIDE DEF c
  <2>2. c = b
    BY <2>1, SeqEqual
  <2> QED BY <2>2 DEF c
<1> QED BY <1>1, <1>2, <1>4, <1>5, <1>7 DEF a, b

LEMMA TailOf ==
  ASSUME NEW S, NEW s \in Seq(S), s # <<>>
  PROVE  /\ Head(s) \in S /\ Head(s) = s[1] /\ 1 \in DOMAIN s
         /\ Tail(s) \in Seq(S) /\ Len(Tail(s)) = Len(s) - 1 /\ Len(s) \in Nat
         /\ Len(s) > 0
         /\ \A i \in DOMAIN Tail(s) : i + 1 \in DOMAIN s /\ Tail(s)[i] = s[i + 1]
         /\ \A i \in DOMAIN s : i = 1 \/ (i - 1 \in DOMAIN Tail(s) /\ i - 1 + 1 = i)
<1>1. Len(s) \in Nat /\ Len(s) > 0 /\ DOMAIN s = 1..Len(s)
  OBVIOUS
<1>2. /\ Head(s) \in S /\ Head(s) = s[1] /\ Tail(s) \in Seq(S)
      /\ Len(Tail(s)) = Len(s) - 1 /\ \A i \in 1..Len(Tail(s)) : Tail(s)[i] = s[i + 1]
  BY HeadTailProperties
<1>3. DOMAIN Tail(s) = 1..Len(s) - 1
  BY <1>1, <1>2
<1> QED BY <1>1, <1>2, <1>3

------------------------------------------------------------------------------
(* The steps *)

(* The library reports on a task or asks for something without ending it.  *)
Chatter ==
  /\ \E x \in ToServer : ~IsFinal(x) /\ x.type # "Connect" /\ Send(<<x>>)
  /\ UNCHANGED <<setup, daemon, to_client, matched, library, history>>

(* The task that was pending is reported as done.                          *)
TaskDone ==
  /\ pending_task \in taken /\ pending_task # 0
  /\ pending_task' = 0
  /\ g_pending_event # "none" /\ g_pending_event' = "none"
  /\ handling' = "none"
  /\ unsent_configs' \in {unsent_configs, "none"}
  /\ \E f \in ToServer : IsFinal(f) /\ f.task = pending_task /\ Send(<<f>>)
  /\ answers' = [answers EXCEPT ![pending_task] = @ + 1]
  /\ successes' = successes \cup {pending_task}
  /\ UNCHANGED <<setup, daemon, to_client, matched, phase, server_connected,
                 project_name, events_in, taken, told, lost, misnamed>>

LEMMA EventSent ==
  ASSUME TypeOK, EventInv, SendBack \/ HandlePendingEvent
  PROVE  TaskDone
<1>1. PICK event \in {handling, g_pending_event} :
        SendEvent(event) /\ g_pending_event # "none" /\ handling' = "none"
  <2>1. CASE SendBack
    BY <2>1 DEF SendBack, EventInv
  <2>2. CASE HandlePendingEvent
    BY <2>2 DEF HandlePendingEvent, Polling
  <2> QED BY <2>1, <2>2
<1>2. pending_task \in taken /\ pending_task \in Task /\ pending_task # 0
  <2>1. pending_task \in taken
    BY <1>1 DEF EventInv
  <2>2. taken \subseteq Task
    BY DEF TypeOK, HistoryTypeOK
  <2>3. 0 \notin Task
    BY DEF Task
  <2> QED BY <2>1, <2>2, <2>3
<1>3. /\ pending_task' = 0 /\ g_pending_event' = "none"
      /\ UNCHANGED <<setup, daemon, to_client, matched, phase, server_connected,
                     project_name, events_in, taken, told, lost, misnamed>>
  BY <1>1, <1>2 DEF SendEvent, TaskOver, ForgetPendingEvent
<1>4. /\ unsent_configs' \in {unsent_configs, "none"}
      /\ answers' = [answers EXCEPT ![pending_task] = @ + 1]
      /\ successes' = successes \cup {pending_task}
      /\ \E f \in ToServer : IsFinal(f) /\ f.task = pending_task /\ Send(<<f>>)
  <2>1. CASE event = "Save_Data_Set"
    <3> DEFINE f == CommitDataSet(pending_task, unsent_configs = "some")
    <3>1. f \in ToServer /\ IsFinal(f) /\ f.task = pending_task
      <4>1. (unsent_configs = "some") \in BOOLEAN
        OBVIOUS
      <4> QED BY <1>2, <4>1 DEF CommitDataSet, ToServer, IsFinal
    <3>2. /\ unsent_configs' = "none"
          /\ Answer(pending_task, <<f>>, TRUE)
      BY <1>1, <1>2, <2>1 DEF SendEvent
    <3> HIDE DEF f
    <3> QED BY <3>1, <3>2 DEF Answer
  <2>2. CASE event # "Save_Data_Set"
    <3> DEFINE f == Progress(pending_task, 255)
    <3>1. f \in ToServer /\ IsFinal(f) /\ f.task = pending_task
      BY <1>2 DEF Progress, ToServer, IsFinal
    <3>2. /\ unsent_configs' = unsent_configs
          /\ Answer(pending_task, <<f>>, TRUE)
      BY <1>1, <1>2, <2>2 DEF SendEvent
    <3> HIDE DEF f
    <3> QED BY <3>1, <3>2 DEF Answer
  <2> QED BY <2>1, <2>2
<1> QED BY <1>1, <1>2, <1>3, <1>4 DEF TaskDone

LEMMA ChatterSent ==
  ASSUME TypeOK, NotifyProgress \/ SendRequest
  PROVE  Chatter
<1>1. CASE NotifyProgress
  <2> DEFINE x == Progress(pending_task, 99)
  <2>1. pending_task \in Task
    BY <1>1, BoundsOK DEF NotifyProgress, TypeOK, LibraryTypeOK, DaemonTypeOK, Task
  <2>2. x \in ToServer /\ ~IsFinal(x) /\ x.type # "Connect"
    BY <2>1 DEF Progress, ToServer, IsFinal
  <2>3. Send(<<x>>)
    BY <1>1 DEF NotifyProgress
  <2> HIDE DEF x
  <2> QED BY <1>1, <2>2, <2>3 DEF NotifyProgress, Chatter
<1>2. CASE SendRequest
  <2>1. PICK type \in {"SaveProject", "CloseProject"} : Send(<<Request(type)>>)
    BY <1>2 DEF SendRequest
  <2>2. /\ Request(type) \in ToServer /\ ~IsFinal(Request(type))
        /\ Request(type).type # "Connect"
    BY <2>1 DEF Request, ToServer, IsFinal
  <2> QED BY <1>2, <2>1, <2>2 DEF SendRequest, Chatter
<1> QED BY <1>1, <1>2

LEMMA StepCases ==
  ASSUME TypeOK, EventInv, [Next]_vars
  PROVE  \/ HandleConnect \/ SaveRequested \/ CloseRequested \/ HandleRequest
         \/ HandleReport \/ (\E n \in Name : Rename(n) \/ RenameOther(n))
         \/ SignalOther \/ ChangeProject
         \/ ClientOpen \/ ConnectReply \/ ConnectTimeout \/ AddMatch
         \/ Dispatch \/ GetEvent \/ SendConfig \/ Forget
         \/ Chatter \/ TaskDone \/ UNCHANGED vars
BY EventSent, ChatterSent DEF Next, DaemonStep, Opening, OldAPI

------------------------------------------------------------------------------
(* What a message does to the client *)

Dispatched ==
  /\ to_client # <<>> /\ to_client' = Tail(to_client)
  /\ phase = "running"
  /\ UNCHANGED <<setup, daemon, matched, phase, server_connected, misnamed>>

(* A callback has done the task, or there is nobody to ask: the answer is  *)
(* sent at once, perhaps after a notification.                             *)
TaskAnswered(t) ==
  /\ \E f \in ToServer :
       /\ IsFinal(f) /\ f.task = t
       /\ Send(<<f>>) \/ Send(<<Progress(t, 99), f>>)
  /\ answers' = [answers EXCEPT ![t] = @ + 1]
  /\ \/ successes' = successes /\ taken' \in {taken, taken \cup {t}}
     \/ successes' = successes \cup {t} /\ taken' = taken \cup {t}
  /\ UNCHANGED <<pending_task, queue, lost>>

(* Nobody will answer.                                                     *)
TaskStuck(t) ==
  /\ pending_task' \in {pending_task, t}
  /\ lost' = lost \cup {t}
  /\ to_server' = to_server \/ Send(<<Request("Error")>>)
  /\ UNCHANGED <<answers, successes, queue, taken>>

LEMMA CallbackAnswers ==
  ASSUME NEW t \in Task, NEW event, RunCallback(t, event)
  PROVE  TaskAnswered(t)
<1>1. PICK notified \in {<<>>, <<Progress(t, 99)>>}, success \in BOOLEAN :
        IF event = "Save_Data_Set" /\ success
          THEN \E configs \in BOOLEAN :
                 Answer(t, Append(notified, CommitDataSet(t, configs)), TRUE)
          ELSE Answer(t, Append(notified, Progress(t, IF success THEN 255 ELSE 0)),
                      success)
  BY DEF RunCallback
<1>2. PICK f : /\ f \in ToServer /\ IsFinal(f) /\ f.task = t
               /\ \/ Answer(t, Append(notified, f), TRUE)
                  \/ Answer(t, Append(notified, f), FALSE)
  <2>1. CASE event = "Save_Data_Set" /\ success
    <3>1. PICK configs \in BOOLEAN :
            Answer(t, Append(notified, CommitDataSet(t, configs)), TRUE)
      BY <1>1, <2>1
    <3>2. CommitDataSet(t, configs) \in ToServer /\ IsFinal(CommitDataSet(t, configs))
          /\ CommitDataSet(t, configs).task = t
      BY DEF CommitDataSet, ToServer, IsFinal
    <3> QED BY <3>1, <3>2
  <2>2. CASE ~(event = "Save_Data_Set" /\ success)
    <3> DEFINE f == Progress(t, IF success THEN 255 ELSE 0)
    <3>1. Answer(t, Append(notified, f), success)
      BY <1>1, <2>2
    <3>2. f \in ToServer /\ IsFinal(f) /\ f.task = t
      BY DEF Progress, ToServer, IsFinal
    <3> HIDE DEF f
    <3>3. success = TRUE \/ success = FALSE
      OBVIOUS
    <3> QED BY <3>1, <3>2, <3>3
  <2> QED BY <2>1, <2>2
<1>3. Append(notified, f) = <<f>> \/ Append(notified, f) = <<Progress(t, 99), f>>
  <2>1. Append(<<>>, f) = <<f>>
    <3>1. <<>> \in Seq(ToServer) /\ <<f>> \in Seq(ToServer)
      BY <1>2
    <3> QED BY <1>2, <3>1, AppendIsConcat, ConcatEmptySeq
  <2>2. Append(<<Progress(t, 99)>>, f) = <<Progress(t, 99), f>>
    <3> DEFINE x == Progress(t, 99)
               a == Append(<<x>>, f)
               b == <<x, f>>
    <3>1. x \in ToServer
      BY MessagesToServer
    <3> HIDE DEF x
    <3>2. /\ a \in Seq(ToServer) /\ Len(a) = 2 /\ a[1] = x /\ a[2] = f
          /\ b \in Seq(ToServer) /\ Len(b) = 2 /\ b[1] = x /\ b[2] = f
      BY <1>2, <3>1
    <3> HIDE DEF a, b
    <3>3. \A i \in 1..2 : a[i] = b[i]
      BY <3>2
    <3>4. a = b
      BY <3>2, <3>3, SeqEqual
    <3> QED BY <3>4 DEF a, b, x
  <2> QED BY <2>1, <2>2
<1>4. Send(<<f>>) \/ Send(<<Progress(t, 99), f>>)
  BY <1>2, <1>3 DEF Answer
<1>5. /\ answers' = [answers EXCEPT ![t] = @ + 1]
      /\ successes' \in {successes, successes \cup {t}}
  BY <1>2 DEF Answer
<1> QED BY <1>2, <1>4, <1>5 DEF RunCallback, TaskAnswered

LEMMA NewTaskStep ==
  ASSUME NEW t \in Task, NEW event \in TaskEvent, NewTask(t, event)
  PROVE  TaskAnswered(t) \/ AddEvent(t, event) \/ TaskStuck(t)
<1>1. CASE RunCallback(t, event)
  BY <1>1, CallbackAnswers
<1>2. CASE AddEvent(t, event)
  BY <1>2
<1>3. CASE NobodyToAsk(t, event)
  <2>1. CASE event = "Save_Data_Set"
    <3> DEFINE f == Progress(t, 0)
    <3>1. f \in ToServer /\ IsFinal(f) /\ f.task = t
      BY DEF Progress, ToServer, IsFinal
    <3>2. Answer(t, <<f>>, FALSE) /\ UNCHANGED <<pending_task, lost, queue, taken>>
      BY <1>3, <2>1 DEF NobodyToAsk
    <3> HIDE DEF f
    <3> QED BY <3>1, <3>2 DEF Answer, TaskAnswered
  <2>2. CASE event # "Save_Data_Set"
    BY <1>3, <2>2 DEF NobodyToAsk, NoAnswer, TaskStuck
  <2> QED BY <2>1, <2>2
<1> QED BY <1>1, <1>2, <1>3 DEF NewTask

(* The message leads to a task, or is bounced, or left alone, or tells of  *)
(* the project's end, or of its new name.                                  *)
LEMMA DispatchCases ==
  ASSUME TypeOK, Dispatch
  PROVE  LET m == Head(to_client) IN
         /\ Dispatched /\ m \in ToClient
         /\ \/ /\ IsRequest(m) /\ m.task \in Task /\ pending_task = 0
               /\ m.type = "Save" => OwnProject(m)
               /\ \/ TaskAnswered(m.task)
                  \/ \E event \in TaskEvent : AddEvent(m.task, event)
                  \/ TaskStuck(m.task)
               /\ UNCHANGED <<project_name, told>>
            \/ /\ m.type = "Save" /\ ~(OwnProject(m) /\ pending_task = 0)
               /\ NoTask /\ UNCHANGED <<project_name, told>>
            \/ /\ m.type = "Load" /\ pending_task # 0
               /\ Send(<<Request("Error")>>)
               /\ UNCHANGED <<answers, successes, pending_task, queue, taken, lost,
                              project_name, told>>
            \/ m.type = "Quit" /\ HandleQuit(m)
            \/ /\ m.type \notin {"Save", "Quit", "Load"}
               /\ project_name' = Follow(project_name, m) /\ NoTask
               /\ UNCHANGED told
<1> DEFINE m == Head(to_client)
<1>1. Dispatched /\ m \in ToClient
  BY TailOf DEF Dispatch, Dispatched, TypeOK, BusTypeOK
<1>2. SaveEvent \in TaskEvent /\ LoadEvent \in TaskEvent
  BY DEF SaveEvent, LoadEvent, TaskEvent, CallbackFor
<1>3. CASE m.type = "Save"
  <2>1. HandleSave(m)
    BY <1>3 DEF Dispatch
  <2>2. m.task \in Task /\ IsRequest(m)
    BY <1>1, <1>3, MessageFields DEF IsRequest
  <2> HIDE DEF m
  <2>3. CASE OwnProject(m) /\ pending_task = 0
    <3>1. NewTask(m.task, SaveEvent) /\ UNCHANGED <<project_name, told>>
      BY <2>1, <2>3 DEF HandleSave
    <3>2. TaskAnswered(m.task) \/ AddEvent(m.task, SaveEvent) \/ TaskStuck(m.task)
      BY <1>2, <2>2, <3>1, NewTaskStep
    <3> QED BY <1>1, <1>2, <2>2, <2>3, <3>1, <3>2 DEF m
  <2>4. CASE ~(OwnProject(m) /\ pending_task = 0)
    BY <1>1, <1>3, <2>1, <2>4 DEF HandleSave, m
  <2> QED BY <2>3, <2>4
<1>4. CASE m.type = "Load"
  <2>1. HandleLoad(m)
    BY <1>4 DEF Dispatch
  <2>2. m.task \in Task /\ IsRequest(m)
    BY <1>1, <1>4, MessageFields DEF IsRequest
  <2> HIDE DEF m
  <2>3. CASE pending_task = 0
    <3>1. NewTask(m.task, LoadEvent) /\ UNCHANGED <<project_name, told>>
      BY <2>1, <2>3 DEF HandleLoad
    <3>2. TaskAnswered(m.task) \/ AddEvent(m.task, LoadEvent) \/ TaskStuck(m.task)
      BY <1>2, <2>2, <3>1, NewTaskStep
    <3> QED BY <1>1, <1>2, <1>4, <2>2, <2>3, <3>1, <3>2 DEF m
  <2>4. CASE pending_task # 0
    BY <1>1, <1>4, <2>1, <2>4 DEF HandleLoad, m
  <2> QED BY <2>3, <2>4
<1>5. CASE m.type = "Quit"
  BY <1>1, <1>5 DEF Dispatch
<1>6. CASE m.type \notin {"Save", "Quit", "Load"}
  BY <1>1, <1>6 DEF Dispatch
<1> QED BY <1>3, <1>4, <1>5, <1>6

------------------------------------------------------------------------------
(* What the steps do to the queues *)

(* The first d messages of s are gone.                                     *)
Shifted(s, r, d) ==
  /\ Len(r) \in Nat /\ Len(s) = Len(r) + d
  /\ \A i \in DOMAIN r : i + d \in DOMAIN s /\ r[i] = s[i + d]

(* The messages x were added.                                              *)
Grown(s, r, x) ==
  /\ Len(s) \in Nat /\ Len(x) \in Nat /\ Len(r) = Len(s) + Len(x)
  /\ \A i \in DOMAIN s : r[i] = s[i]
  /\ \A i \in DOMAIN x : r[Len(s) + i] = x[i]
  /\ DOMAIN r = 1..Len(r) /\ DOMAIN s = 1..Len(s) /\ DOMAIN x = 1..Len(x)

LEMMA GrownByOne ==
  ASSUME NEW S, NEW s \in Seq(S), NEW x \in S
  PROVE  /\ Grown(s, Append(s, x), <<x>>) /\ Append(s, x) \in Seq(S)
         /\ Append(s, x) = s \o <<x>>
<1>1. Append(s, x) \in Seq(S) /\ Append(s, x) = s \o <<x>> /\ <<x>> \in Seq(S)
  BY AppendProperties, AppendIsConcat
<1>2. Len(<<x>>) = 1 /\ <<x>>[1] = x /\ DOMAIN <<x>> = 1..1
  OBVIOUS
<1> QED BY <1>1, <1>2, AppendProperties DEF Grown

LEMMA GrownByTwo ==
  ASSUME NEW S, NEW s \in Seq(S), NEW x \in S, NEW y \in S
  PROVE  /\ Grown(s, s \o <<x, y>>, <<x, y>>) /\ s \o <<x, y>> \in Seq(S)
<1> DEFINE a == s \o <<x, y>>
<1>1. /\ a \in Seq(S) /\ Len(a) = Len(s) + 2 /\ a[Len(s) + 1] = x /\ a[Len(s) + 2] = y
      /\ \A i \in 1..Len(s) : a[i] = s[i]
  BY SentTwo
<1> HIDE DEF a
<1>2. Len(<<x, y>>) = 2 /\ <<x, y>>[1] = x /\ <<x, y>>[2] = y /\ DOMAIN <<x, y>> = 1..2
  OBVIOUS
<1>3. Len(s) \in Nat /\ DOMAIN s = 1..Len(s) /\ DOMAIN a = 1..Len(a)
  BY <1>1
<1>4. Grown(s, a, <<x, y>>)
  BY <1>1, <1>2, <1>3 DEF Grown
<1> QED BY <1>1, <1>4 DEF a

LEMMA ShiftedByOne ==
  ASSUME NEW S, NEW s \in Seq(S), s # <<>>
  PROVE  Shifted(s, Tail(s), 1) /\ Tail(s) \in Seq(S)
<1> USE TailOf
<1>1. Tail(s) \in Seq(S) /\ Len(Tail(s)) = Len(s) - 1 /\ Len(s) \in Nat /\ Len(s) > 0
  OBVIOUS
<1> QED BY <1>1 DEF Shifted

LEMMA ShiftedByNone ==
  ASSUME NEW S, NEW s \in Seq(S)
  PROVE  Shifted(s, s, 0)
BY DEF Shifted

(* The messages that the daemon broadcasts.                                *)
IsSignal(m) ==
  m \in ToClient /\ m.type \in {"Save", "Quit", "ProjectNameChanged", "ProjectPathChanged"}

LEMMA BroadcastEffect ==
  ASSUME TypeOK, NEW m \in ToClient, Broadcast(m)
  PROVE  /\ to_client' \in Seq(ToClient)
         /\ \/ ~Heard(m) /\ to_client' = to_client
            \/ Heard(m) /\ Grown(to_client, to_client', <<m>>)
               /\ to_client' = Append(to_client, m)
BY GrownByOne DEF Broadcast, TypeOK, BusTypeOK

(* The daemon signals what it has done.                                    *)
DaemonSignals ==
  /\ \E m \in ToClient :
       /\ IsSignal(m) /\ Broadcast(m)
       /\ IF IsRequest(m)
            THEN task_iter < MaxTask /\ task_iter' = task_iter + 1 /\ m.task = task_iter'
            ELSE UNCHANGED task_iter
  /\ UNCHANGED to_server
  /\ lost' \in {lost, lost \cup {0}, lost \cup {task_iter'}}
  /\ UNCHANGED <<setup, matched, library, taken, answers, successes, told>>

LEMMA Signals ==
  ASSUME TypeOK,
         \/ SaveRequested \/ CloseRequested \/ SignalOther \/ ChangeProject
         \/ \E n \in Name : Rename(n) \/ RenameOther(n)
  PROVE  DaemonSignals
<1> USE DEF IsSignal, IsRequest, Missed
<1>0. /\ task_iter \in Nat /\ project \in Name \cup {NoName} /\ other \in Name
      /\ MaxTask \in Nat /\ (Member => project \in Name)
      /\ task_iter < MaxTask => task_iter + 1 \in Task
  BY BoundsOK DEF TypeOK, DaemonTypeOK, Member, Task
<1>1. CASE SaveRequested
  <2> DEFINE m == Save(project, task_iter')
  <2>1. m \in ToClient /\ m.type = "Save" /\ m.task = task_iter'
    BY <1>0, <1>1, MessagesToClient DEF SaveRequested, CanSave, ProjectSave, Save
  <2>2. Broadcast(m) /\ task_iter' = task_iter + 1 /\ task_iter < MaxTask
        /\ lost' \in {lost, lost \cup {task_iter'}}
    BY <1>1 DEF SaveRequested, CanSave, ProjectSave
  <2> HIDE DEF m
  <2> QED BY <1>1, <2>1, <2>2 DEF SaveRequested, DaemonSignals
<1>2. CASE CloseRequested
  <2> DEFINE m == Quit(project)
  <2>1. m \in ToClient
    BY <1>0, <1>2, MessagesToClient DEF CloseRequested
  <2>2. m.type = "Quit"
    BY DEF Quit
  <2>3. Broadcast(m) /\ task_iter' = task_iter /\ lost' \in {lost, lost \cup {0}}
    BY <1>2 DEF CloseRequested, ProjectClose
  <2> HIDE DEF m
  <2> QED BY <1>2, <2>1, <2>2, <2>3 DEF CloseRequested, DaemonSignals
<1>3. CASE SignalOther
  <2>1. PICK m \in {Save(other, task_iter'), Quit(other)} :
          /\ Broadcast(m)
          /\ IF m = Quit(other) THEN UNCHANGED task_iter
             ELSE task_iter < MaxTask /\ task_iter' = task_iter + 1
    BY <1>3 DEF SignalOther, Save, Quit
  <2>2. m \in ToClient
    BY <1>0, <2>1, MessagesToClient DEF Save, Quit
  <2>3. /\ m.type \in {"Quit", "Save"}
        /\ m.type = "Save" => m # Quit(other) /\ m.task = task_iter'
        /\ m.type # "Save" => m = Quit(other)
    BY <2>1 DEF Save, Quit
  <2> QED BY <1>3, <2>1, <2>2, <2>3 DEF SignalOther, history, DaemonSignals
<1>4. CASE ChangeProject
  <2> DEFINE m == ProjectChanged(project, Text)
  <2>1. m \in ToClient
    BY <1>0, <1>4, MessagesToClient DEF ChangeProject
  <2>2. m.type = "ProjectPathChanged"
    BY DEF ProjectChanged
  <2>3. Broadcast(m)
    BY <1>4 DEF ChangeProject
  <2> HIDE DEF m
  <2> QED BY <1>4, <2>1, <2>2, <2>3 DEF ChangeProject, DaemonSignals
<1>5. ASSUME NEW n \in Name, Rename(n) PROVE DaemonSignals
  <2> DEFINE m == NameChanged(project, n)
  <2>1. m \in ToClient
    BY <1>0, <1>5, MessagesToClient DEF Rename
  <2>2. m.type = "ProjectNameChanged"
    BY DEF NameChanged
  <2>3. Broadcast(m)
    BY <1>5 DEF Rename
  <2> HIDE DEF m
  <2> QED BY <1>5, <2>1, <2>2, <2>3 DEF Rename, DaemonSignals
<1>6. ASSUME NEW n \in Name, RenameOther(n) PROVE DaemonSignals
  <2> DEFINE m == NameChanged(other, n)
  <2>1. m \in ToClient
    BY <1>0, <1>6, MessagesToClient
  <2>2. m.type = "ProjectNameChanged"
    BY DEF NameChanged
  <2>3. Broadcast(m)
    BY <1>6 DEF RenameOther
  <2> HIDE DEF m
  <2> QED BY <1>6, <2>1, <2>2, <2>3 DEF RenameOther, DaemonSignals
<1> QED BY <1>1, <1>2, <1>3, <1>4, <1>5, <1>6

LEMMA RequestTaken ==
  ASSUME TypeOK, HandleRequest
  PROVE  /\ to_server' \in Seq(ToServer)
         /\ Shifted(to_server, to_server', 1)
         /\ 1 \in DOMAIN to_server /\ ~IsFinal(to_server[1])
         /\ to_server[1].type # "Connect"
<1>1. /\ to_server # <<>> /\ to_server' = Tail(to_server)
      /\ Head(to_server).type \in {"SaveProject", "CloseProject", "Error"}
  BY DEF HandleRequest
<1>2. to_server \in Seq(ToServer)
  BY DEF TypeOK, BusTypeOK
<1>3. Head(to_server) \in ToServer /\ Head(to_server) = to_server[1]
      /\ 1 \in DOMAIN to_server
  BY <1>1, <1>2, TailOf
<1>4. ~IsFinal(to_server[1]) /\ to_server[1].type # "Connect"
  BY <1>1, <1>3, ReportFields
<1> QED BY <1>1, <1>2, <1>3, <1>4, ShiftedByOne

(* The reply to Connect is taken out of the queue, which holds no more     *)
(* than a task besides it.                                                 *)
LEMMA ReplyTaken ==
  ASSUME TypeOK, ConnectInv, ConnectReply
  PROVE  /\ \E n \in Name :
              /\ project_name' = n /\ (Member /\ ~misnamed => n = project)
              /\ \/ to_client = <<Reply(n)>> /\ to_client' = <<>>
                 \/ \E t \in Task : to_client = <<Load(t), Reply(n)>>
                                    /\ to_client' = <<Load(t)>>
         /\ to_client' \in Seq(ToClient)
<1>1. PICK i \in DOMAIN to_client : /\ to_client[i].type = "Reply"
                                    /\ project_name' = to_client[i].name
                                    /\ to_client' = RemoveAt(to_client, i)
  BY DEF ConnectReply
<1>2. to_client # <<>>
  BY <1>1
<1>3. PICK n \in Name :
        /\ Member /\ ~misnamed => n = project
        /\ \/ to_client = <<Reply(n)>>
           \/ \E t \in Task : to_client = <<Load(t), Reply(n)>>
  BY <1>2 DEF ConnectInv, ConnectReply
<1> DEFINE r == Reply(n)
<1>4. r \in ToClient /\ r.type = "Reply" /\ r.name = n
  BY MessagesToClient DEF Reply
<1> HIDE DEF r
<1>5. CASE to_client = <<r>>
  <2>1. i = 1
    BY <1>1, <1>5
  <2>2. to_client' = SubSeq(<<r>>, 1, 0) \o SubSeq(<<r>>, 2, 1)
    BY <1>1, <1>5, <2>1 DEF RemoveAt
  <2>3. SubSeq(<<r>>, 1, 0) = <<>> /\ SubSeq(<<r>>, 2, 1) = <<>>
    BY <1>4
  <2>4. to_client' = <<>>
    BY <2>2, <2>3
  <2>5. project_name' = n
    BY <1>1, <1>4, <1>5, <2>1
  <2>6. to_client' \in Seq(ToClient)
    BY <2>4
  <2> QED BY <1>3, <1>5, <2>4, <2>5, <2>6 DEF r
<1>6. ASSUME NEW t \in Task, to_client = <<Load(t), r>>
      PROVE  to_client' = <<Load(t)>> /\ project_name' = n /\ to_client' \in Seq(ToClient)
  <2> DEFINE x == Load(t)
  <2>1. x \in ToClient /\ x.type = "Load"
    BY MessagesToClient DEF Load
  <2> HIDE DEF x
  <2>2. i = 2
    <3>1. to_client = <<x, r>>
      BY <1>6 DEF x
    <3>2. i \in 1..2 /\ to_client[1] = x
      BY <1>1, <3>1
    <3> QED BY <1>1, <2>1, <3>2
  <2>3. to_client' = SubSeq(<<x, r>>, 1, 1) \o SubSeq(<<x, r>>, 3, 2)
    <3>1. Len(<<x, r>>) = 2
      OBVIOUS
    <3> QED BY <1>1, <1>6, <2>2, <3>1 DEF RemoveAt, x
  <2> DEFINE a == SubSeq(<<x, r>>, 1, 1)
             b == SubSeq(<<x, r>>, 3, 2)
  <2>4. a \in Seq(ToClient) /\ Len(a) = 1 /\ a[1] = x
    BY <1>4, <2>1
  <2>5. b = <<>>
    BY <1>4, <2>1
  <2>6. a = <<x>>
    <3> HIDE DEF a
    <3> DEFINE c == <<x>>
    <3>1. c \in Seq(ToClient) /\ Len(c) = 1 /\ c[1] = x
      BY <2>1
    <3> HIDE DEF c
    <3>2. \A j \in 1..1 : a[j] = c[j]
      BY <2>4, <3>1
    <3>3. a = c
      BY <2>4, <3>1, <3>2, SeqEqual
    <3> QED BY <3>3 DEF c
  <2>7. to_client' = <<x>>
    <3> HIDE DEF a, b
    <3>1. a \o b = a
      BY <2>4, <2>5, ConcatEmptySeq
    <3> QED BY <2>3, <2>6, <3>1 DEF a, b
  <2>8. project_name' = n
    BY <1>1, <1>4, <1>6, <2>2
  <2> QED BY <2>1, <2>7, <2>8 DEF x
<1> QED BY <1>3, <1>5, <1>6 DEF r

(* The answers, and a notification before them, are new messages.          *)
LEMMA AnswerSent ==
  ASSUME TypeOK, NEW t \in Task, TaskAnswered(t)
  PROVE  /\ to_server' \in Seq(ToServer)
         /\ \E f \in ToServer, x \in Seq(ToServer) :
              /\ IsFinal(f) /\ f.task = t
              /\ Grown(to_server, to_server', x)
              /\ x[Len(x)] = f /\ Len(x) \in DOMAIN x
              /\ \A i \in DOMAIN x : i # Len(x) =>
                   ~IsFinal(x[i]) /\ x[i].type # "Connect"
<1>1. PICK f \in ToServer : /\ IsFinal(f) /\ f.task = t
                            /\ Send(<<f>>) \/ Send(<<Progress(t, 99), f>>)
  BY DEF TaskAnswered
<1>2. CASE Send(<<f>>)
  <2> DEFINE x == <<f>>
  <2>1. Grown(to_server, to_server', x) /\ to_server' \in Seq(ToServer)
    BY <1>1, <1>2, GrownByOne DEF Send, TypeOK, BusTypeOK
  <2>2. x \in Seq(ToServer) /\ Len(x) = 1 /\ x[1] = f /\ DOMAIN x = 1..1
    BY <1>1
  <2> HIDE DEF x
  <2>3. \A i \in DOMAIN x : i = Len(x)
    BY <2>2
  <2>4. x[Len(x)] = f /\ Len(x) \in DOMAIN x
    BY <2>2
  <2> QED BY <1>1, <2>1, <2>2, <2>3, <2>4
<1>3. CASE Send(<<Progress(t, 99), f>>)
  <2> DEFINE y == Progress(t, 99)
             x == <<y, f>>
  <2>1. y \in ToServer /\ ~IsFinal(y) /\ y.type # "Connect"
    BY DEF Progress, ToServer, IsFinal
  <2> HIDE DEF y
  <2>2. Grown(to_server, to_server', x) /\ to_server' \in Seq(ToServer)
    BY <1>1, <1>3, <2>1, GrownByTwo DEF Send, TypeOK, BusTypeOK, y
  <2>3. x \in Seq(ToServer) /\ Len(x) = 2 /\ x[1] = y /\ x[2] = f /\ DOMAIN x = 1..2
    BY <1>1, <2>1
  <2> HIDE DEF x
  <2>4. \A i \in DOMAIN x : i # Len(x) => ~IsFinal(x[i]) /\ x[i].type # "Connect"
    <3>1. \A i \in DOMAIN x : i # Len(x) => i = 1
      BY <2>3
    <3> QED BY <2>1, <2>3, <3>1
  <2>5. x[Len(x)] = f /\ Len(x) \in DOMAIN x
    BY <2>3
  <2> QED BY <1>1, <2>2, <2>3, <2>4, <2>5
<1> QED BY <1>1, <1>2, <1>3

LEMMA OneSent ==
  ASSUME TypeOK, NEW x \in ToServer, Send(<<x>>)
  PROVE  to_server' \in Seq(ToServer) /\ Grown(to_server, to_server', <<x>>)
BY GrownByOne DEF Send, TypeOK, BusTypeOK

LEMMA DispatchType ==
  ASSUME LibraryInv, Dispatch
  PROVE  TypeOK'
<1> DEFINE m == Head(to_client)
<1>1. Dispatched /\ m \in ToClient
  BY DispatchCases DEF LibraryInv
<1>2. to_client' \in Seq(ToClient) /\ m = to_client[1] /\ 1 \in DOMAIN to_client
  BY <1>1, TailOf DEF Dispatched, LibraryInv, TypeOK, BusTypeOK
<1>3. DaemonTypeOK'
  BY <1>1 DEF Dispatched, daemon, LibraryInv, TypeOK, DaemonTypeOK
<1>4. /\ matched' \subseteq {"Control", "Server", "ProjectNameChanged"}
      /\ phase' \in {"closed", "connecting", "matching", "running"}
      /\ server_connected' \in BOOLEAN /\ misnamed' \in BOOLEAN
  BY <1>1 DEF Dispatched, LibraryInv, TypeOK, BusTypeOK, LibraryTypeOK, HistoryTypeOK
<1> DEFINE Rest == /\ to_server' \in Seq(ToServer)
                   /\ project_name' \in Name \cup {NoName, Text}
                   /\ pending_task' \in 0..task_iter
                   /\ events_in' \in Seq(TaskEvent \cup {"Quit"})
                   /\ unsent_configs' \in {"none", "empty", "some"}
                   /\ g_pending_event' \in TaskEvent \cup {"none"}
                   /\ handling' \in TaskEvent \cup {"none"}
                   /\ taken' \subseteq Task
                   /\ answers' \in [Task -> 0..1]
                   /\ successes' \subseteq Task
                   /\ told' \in BOOLEAN
                   /\ lost' \subseteq 0..MaxTask
<1>5. /\ to_server \in Seq(ToServer)
      /\ project_name \in Name \cup {NoName, Text}
      /\ pending_task \in 0..task_iter
      /\ events_in \in Seq(TaskEvent \cup {"Quit"})
      /\ unsent_configs \in {"none", "empty", "some"}
      /\ g_pending_event \in TaskEvent \cup {"none"}
      /\ handling \in TaskEvent \cup {"none"}
      /\ taken \subseteq Task /\ answers \in [Task -> 0..1] /\ successes \subseteq Task
      /\ told \in BOOLEAN /\ lost \subseteq 0..MaxTask
  BY DEF LibraryInv, TypeOK, BusTypeOK, LibraryTypeOK, HistoryTypeOK
<1>6. ASSUME IsRequest(m), m.task \in Task, pending_task = 0,
             \/ TaskAnswered(m.task)
             \/ \E event \in TaskEvent : AddEvent(m.task, event)
             \/ TaskStuck(m.task),
             UNCHANGED <<project_name, told>>
      PROVE  Rest
  <2>1. m.task <= task_iter /\ answers[m.task] = 0 /\ m.task \in 0..task_iter
        /\ m.task \in 0..MaxTask
    BY <1>2, <1>6, BoundsOK DEF LibraryInv, TaskInv, Task, TypeOK, DaemonTypeOK
  <2> DEFINE t == m.task
  <2>2. t \in Task /\ t \in 0..task_iter /\ t \in 0..MaxTask /\ answers[t] = 0
    BY <1>6, <2>1
  <2> HIDE DEF t
  <2>3. CASE TaskAnswered(t)
    <3>1. to_server' \in Seq(ToServer)
      BY <2>2, <2>3, AnswerSent DEF LibraryInv
    <3>2. /\ answers' = [answers EXCEPT ![t] = @ + 1] /\ taken' \in {taken, taken \cup {t}}
          /\ successes' \in {successes, successes \cup {t}}
          /\ UNCHANGED <<pending_task, queue, lost>>
      BY <2>3 DEF TaskAnswered
    <3>3. answers' \in [Task -> 0..1]
      BY <1>5, <2>2, <3>2
    <3> QED BY <1>5, <1>6, <2>2, <3>1, <3>2, <3>3 DEF queue
  <2>4. ASSUME NEW event \in TaskEvent, AddEvent(t, event) PROVE Rest
    <3>1. events_in' \in Seq(TaskEvent \cup {"Quit"})
      BY <1>5, <2>4, AppendProperties DEF AddEvent
    <3> QED BY <1>5, <1>6, <2>2, <2>4, <3>1 DEF AddEvent, NoAnswer
  <2>5. CASE TaskStuck(t)
    <3>1. to_server' \in Seq(ToServer)
      BY <1>5, <2>5, MessagesToServer, OneSent DEF TaskStuck, LibraryInv
    <3> QED BY <1>5, <1>6, <2>2, <2>5, <3>1 DEF TaskStuck, queue
  <2> QED BY <1>6, <2>3, <2>4, <2>5 DEF t
<1>7. ASSUME NoTask, UNCHANGED told,
             UNCHANGED project_name \/ project_name' = Follow(project_name, m)
      PROVE  Rest
  <2>1. project_name' \in Name \cup {NoName, Text}
    BY <1>1, <1>5, <1>7, MessageFields DEF Follow
  <2> QED BY <1>5, <1>7, <2>1 DEF NoTask, NoAnswer, queue
<1>8. ASSUME Send(<<Request("Error")>>),
             UNCHANGED <<answers, successes, pending_task, queue, taken, lost,
                         project_name, told>>
      PROVE  Rest
  <2>1. to_server' \in Seq(ToServer)
    BY <1>8, MessagesToServer, OneSent DEF LibraryInv
  <2> QED BY <1>5, <1>8, <2>1 DEF queue
<1>9. ASSUME HandleQuit(m) PROVE Rest
  <2> DEFINE S == TaskEvent \cup {"Quit"}
  <2>1. events_in' \in Seq(S)
    <3>1. events_in' = Append(events_in, "Quit") \/ events_in' = events_in
      BY <1>9 DEF HandleQuit
    <3>2. events_in \in Seq(S) /\ "Quit" \in S
      BY <1>5
    <3> HIDE DEF m, Rest, S
    <3> QED BY <3>1, <3>2, AppendProperties
  <2> QED BY <1>5, <1>9, <2>1 DEF HandleQuit, NoAnswer
<1> HIDE DEF m, Rest
<1>10. Rest
  BY <1>6, <1>7, <1>8, <1>9, DispatchCases DEF LibraryInv, m
<1>11. task_iter' = task_iter
  BY <1>1 DEF Dispatched, daemon
<1> QED BY <1>2, <1>3, <1>4, <1>10, <1>11
        DEF Rest, TypeOK, BusTypeOK, LibraryTypeOK, HistoryTypeOK

(* The rules are added one by one.                                         *)
LEMMA RulesAre ==
  ASSUME TypeOK
  PROVE  /\ Cardinality(matched) \in Nat
         /\ \A n \in Nat : n < Len(Rules) =>
              Rules[n + 1] \in {"Control", "Server", "ProjectNameChanged"}
<1> DEFINE S == {"Control", "Server", "ProjectNameChanged"}
<1>1. IsFiniteSet(matched)
  <2>1. IsFiniteSet({"Control"} \cup {"Server"} \cup {"ProjectNameChanged"})
    BY FS_Singleton, FS_Union
  <2>2. matched \subseteq {"Control"} \cup {"Server"} \cup {"ProjectNameChanged"}
    BY DEF TypeOK, BusTypeOK
  <2> QED BY <2>1, <2>2, FS_Subset
<1>2. Rules \in Seq(S)
  <2>1. (IF setup.controller THEN <<"Control">> ELSE <<>>) \in Seq(S)
    <3>1. <<"Control">> \in Seq(S)
      OBVIOUS
    <3>2. <<>> \in Seq(S)
      BY EmptySeq
    <3> QED BY <3>1, <3>2
  <2>2. <<"Server", "ProjectNameChanged">> \in Seq(S)
    OBVIOUS
  <2> HIDE DEF S
  <2> QED BY <2>1, <2>2, ConcatProperties DEF Rules
<1> HIDE DEF S
<1>3. \A n \in Nat : n < Len(Rules) => Rules[n + 1] \in S
  BY <1>2
<1> QED BY <1>1, <1>3, FS_CardinalityType DEF S

LEMMA SignalTypes ==
  ASSUME TypeOK,
         \/ SaveRequested \/ CloseRequested \/ SignalOther \/ ChangeProject
         \/ \E n \in Name : Rename(n) \/ RenameOther(n)
  PROVE  DaemonTypeOK' /\ misnamed' \in BOOLEAN
<1> USE BoundsOK DEF TypeOK, DaemonTypeOK, HistoryTypeOK, Change
<1>1. CASE SaveRequested
  BY <1>1 DEF SaveRequested, CanSave, ProjectSave
<1>2. CASE CloseRequested
  BY <1>2 DEF CloseRequested, ProjectClose
<1>3. CASE SignalOther
  BY <1>3 DEF SignalOther, history
<1>4. CASE ChangeProject
  BY <1>4 DEF ChangeProject
<1>5. ASSUME NEW n \in Name, Rename(n) PROVE DaemonTypeOK' /\ misnamed' \in BOOLEAN
  BY <1>5 DEF Rename
<1>6. ASSUME NEW n \in Name, RenameOther(n)
      PROVE  DaemonTypeOK' /\ misnamed' \in BOOLEAN
  BY <1>6 DEF RenameOther
<1> QED BY <1>1, <1>2, <1>3, <1>4, <1>5, <1>6

LEMMA TypeStep ==
  ASSUME LibraryInv, [Next]_vars
  PROVE  TypeOK'
<1> USE DEF TypeOK
<1>0. TypeOK /\ TaskInv /\ EventInv /\ ConnectInv
  BY DEF LibraryInv
<1>1. CASE HandleConnect
  <2>1. to_server # <<>> /\ to_server' = Tail(to_server)
    BY <1>1 DEF HandleConnect
  <2>2. to_server' \in Seq(ToServer)
    BY <1>0, <2>1, ShiftedByOne DEF BusTypeOK
  <2>3. PICK n \in Name \ {other} :
          /\ project' = n
          /\ IF setup.restored
               THEN /\ task_iter < MaxTask
                    /\ task_iter' = task_iter + 1
                    /\ client_task' = task_iter'
                    /\ to_client' = to_client \o <<Load(task_iter'), Reply(n)>>
               ELSE /\ to_client' = Append(to_client, Reply(n))
                    /\ UNCHANGED <<task_iter, client_task>>
    BY <1>1 DEF HandleConnect
  <2>4. Reply(n) \in ToClient
    BY MessagesToClient
  <2>5. /\ to_client' \in Seq(ToClient) /\ task_iter' \in 0..MaxTask
        /\ client_task' \in 0..task_iter' /\ task_iter <= task_iter'
    <3>1. CASE setup.restored
      <4>1. task_iter' \in Task /\ client_task' = task_iter' /\ task_iter <= task_iter'
        BY <1>0, <2>3, <3>1, BoundsOK DEF DaemonTypeOK, Task
      <4>2. Load(task_iter') \in ToClient
        BY <4>1, MessagesToClient
      <4>3. to_client' \in Seq(ToClient)
        BY <1>0, <2>3, <2>4, <3>1, <4>2, GrownByTwo DEF BusTypeOK
      <4> QED BY <4>1, <4>3, BoundsOK DEF Task
    <3>2. CASE ~setup.restored
      BY <1>0, <2>3, <2>4, <3>2, AppendProperties DEF DaemonTypeOK, BusTypeOK
    <3> QED BY <3>1, <3>2
  <2>6. DaemonTypeOK'
    BY <1>0, <1>1, <2>3, <2>5 DEF HandleConnect, DaemonTypeOK
  <2>7. BusTypeOK'
    BY <1>0, <1>1, <2>2, <2>5 DEF HandleConnect, BusTypeOK
  <2>8. LibraryTypeOK' /\ HistoryTypeOK'
    BY <1>0, <1>1, <2>5 DEF HandleConnect, LibraryTypeOK, HistoryTypeOK, library,
                            queue, history, DaemonTypeOK
  <2> QED BY <2>6, <2>7, <2>8
<1>2. CASE \/ SaveRequested \/ CloseRequested \/ SignalOther \/ ChangeProject
           \/ \E n \in Name : Rename(n) \/ RenameOther(n)
  <2>0. DaemonSignals
    BY <1>0, <1>2, Signals
  <2>1. PICK m \in ToClient :
          /\ Broadcast(m)
          /\ IF IsRequest(m)
               THEN task_iter < MaxTask /\ task_iter' = task_iter + 1
               ELSE UNCHANGED task_iter
    BY <2>0 DEF DaemonSignals
  <2>2. to_client' \in Seq(ToClient) /\ to_server' \in Seq(ToServer)
    BY <1>0, <2>0, <2>1, BroadcastEffect DEF DaemonSignals, BusTypeOK
  <2>3. task_iter' \in 0..MaxTask /\ task_iter <= task_iter' /\ task_iter \in Nat
    BY <1>0, <2>1, BoundsOK DEF DaemonTypeOK
  <2>4. BusTypeOK'
    BY <1>0, <2>0, <2>2 DEF DaemonSignals, BusTypeOK
  <2>5. lost' \subseteq 0..MaxTask
    BY <1>0, <2>0, <2>3, BoundsOK DEF DaemonSignals, HistoryTypeOK
  <2>6. LibraryTypeOK'
    BY <1>0, <2>0, <2>3 DEF DaemonSignals, LibraryTypeOK, library, queue
  <2>7. HistoryTypeOK' /\ DaemonTypeOK'
    BY <1>0, <1>2, <2>0, <2>5, SignalTypes DEF DaemonSignals, HistoryTypeOK
  <2> QED BY <2>4, <2>6, <2>7
<1>3. CASE HandleRequest
  <2>1. to_server' \in Seq(ToServer)
    BY <1>0, <1>3, RequestTaken
  <2> QED BY <1>0, <1>3, <2>1 DEF HandleRequest, daemon, history, DaemonTypeOK,
                                  BusTypeOK, LibraryTypeOK, HistoryTypeOK, library, queue
<1>4. CASE HandleReport
  <2> DEFINE m == Head(to_server)
  <2>1. to_server # <<>> /\ to_server' = Tail(to_server)
    BY <1>4 DEF HandleReport
  <2>2. to_server' \in Seq(ToServer) /\ m \in ToServer
    BY <1>0, <2>1, ShiftedByOne, TailOf DEF BusTypeOK
  <2>3. m.type \in {"Progress", "CommitDataSet"} => m.task \in Task
    BY <2>2, ReportFields
  <2>4. client_task' \in {0, client_task} /\ lost' \in {lost, lost \cup {m.task}}
        /\ m.type \in {"Progress", "CommitDataSet"}
    BY <1>4 DEF HandleReport
  <2> HIDE DEF m
  <2>5. m.task \in 0..MaxTask
    BY <2>3, <2>4, BoundsOK DEF Task
  <2>6. DaemonTypeOK'
    BY <1>0, <1>4, <2>4 DEF HandleReport, DaemonTypeOK
  <2>7. HistoryTypeOK'
    BY <1>0, <1>4, <2>4, <2>5 DEF HandleReport, HistoryTypeOK
  <2> QED BY <1>0, <1>4, <2>2, <2>6, <2>7 DEF HandleReport, BusTypeOK, LibraryTypeOK,
                                             library, queue
<1>5. CASE ClientOpen
  <2>1. to_server' \in Seq(ToServer)
    BY <1>0, <1>5, MessagesToServer, OneSent DEF ClientOpen
  <2> QED BY <1>0, <1>5, <2>1 DEF ClientOpen, DaemonTypeOK, BusTypeOK, LibraryTypeOK,
                                  HistoryTypeOK, daemon, queue, history
<1>6. CASE ConnectReply
  <2>1. to_client' \in Seq(ToClient) /\ project_name' \in Name
    BY <1>0, <1>6, ReplyTaken
  <2> QED BY <1>0, <1>6, <2>1 DEF ConnectReply, DaemonTypeOK, BusTypeOK, LibraryTypeOK,
                                  HistoryTypeOK, daemon, queue, history
<1>7. CASE ConnectTimeout
  BY <1>0, <1>7 DEF ConnectTimeout, DaemonTypeOK, BusTypeOK, LibraryTypeOK,
                    HistoryTypeOK, daemon, queue
<1>8. CASE AddMatch
  <2>1. matched' \subseteq {"Control", "Server", "ProjectNameChanged"}
        /\ phase' \in {"closed", "connecting", "matching", "running"}
    BY <1>0, <1>8, RulesAre DEF AddMatch, BusTypeOK, LibraryTypeOK
  <2> QED BY <1>0, <1>8, <2>1 DEF AddMatch, DaemonTypeOK, BusTypeOK, LibraryTypeOK,
                                  HistoryTypeOK, daemon, queue, history
<1>9. CASE GetEvent
  <2>1. events_in # <<>> /\ events_in' = Tail(events_in)
    BY <1>9 DEF GetEvent
  <2>2. /\ events_in' \in Seq(TaskEvent \cup {"Quit"})
        /\ Head(events_in) = events_in[1] /\ 1 \in DOMAIN events_in
    BY <1>0, <2>1, TailOf DEF LibraryTypeOK
  <2>3. Head(events_in) \in TaskEvent => pending_task \in Task
    BY <1>0, <2>2, BoundsOK DEF EventInv, LibraryTypeOK, DaemonTypeOK, Task
  <2>4. /\ g_pending_event' \in TaskEvent \cup {"none"}
        /\ handling' \in TaskEvent \cup {"none"}
        /\ taken' \subseteq Task
    BY <1>0, <1>9, <2>3 DEF GetEvent, LibraryTypeOK, HistoryTypeOK
  <2> QED BY <1>0, <1>9, <2>2, <2>4 DEF GetEvent, DaemonTypeOK, BusTypeOK,
                                        LibraryTypeOK, HistoryTypeOK, daemon
<1>10. CASE SendConfig \/ Forget
  BY <1>0, <1>10 DEF SendConfig, Forget, DaemonTypeOK, BusTypeOK, LibraryTypeOK,
                     HistoryTypeOK, daemon, history
<1>11. CASE Chatter
  <2>1. to_server' \in Seq(ToServer)
    BY <1>0, <1>11, OneSent DEF Chatter
  <2> QED BY <1>0, <1>11, <2>1 DEF Chatter, DaemonTypeOK, BusTypeOK, LibraryTypeOK,
                                   HistoryTypeOK, daemon, library, queue, history
<1>12. CASE TaskDone
  <2>1. to_server' \in Seq(ToServer)
    BY <1>0, <1>12, OneSent DEF TaskDone
  <2>2. pending_task \in Task /\ answers[pending_task] = 0
    BY <1>0, <1>12 DEF TaskDone, HistoryTypeOK, TaskInv
  <2>3. answers' \in [Task -> 0..1] /\ successes' \subseteq Task
    BY <1>0, <1>12, <2>2 DEF TaskDone, HistoryTypeOK
  <2>4. pending_task' \in 0..task_iter /\ unsent_configs' \in {"none", "empty", "some"}
    BY <1>0, <1>12 DEF TaskDone, LibraryTypeOK, DaemonTypeOK
  <2>5. LibraryTypeOK'
    BY <1>0, <1>12, <2>4 DEF TaskDone, LibraryTypeOK, daemon
  <2> QED BY <1>0, <1>12, <2>1, <2>3, <2>5 DEF TaskDone, DaemonTypeOK, BusTypeOK,
                                   HistoryTypeOK, daemon
<1>13. CASE UNCHANGED vars
  BY <1>0, <1>13 DEF vars, DaemonTypeOK, BusTypeOK, LibraryTypeOK,
                     HistoryTypeOK, daemon, library, queue, history
<1> HIDE DEF TypeOK
<1> QED BY <1>0, <1>1, <1>2, <1>3, <1>4, <1>5, <1>6, <1>7, <1>8, <1>9, <1>10, <1>11,
           <1>12, <1>13, StepCases, DispatchType

------------------------------------------------------------------------------
(* Every task is requested, pending or answered once *)

(* Neither the request of task t is on its way to the client nor is the    *)
(* task pending.                                                           *)
Settled(t) ==
  /\ pending_task # t
  /\ \A i \in DOMAIN to_client : IsRequest(to_client[i]) => to_client[i].task # t

(* Only the daemon adds requests, of the new task.                         *)
LEMMA DaemonKeepsTasks ==
  ASSUME TypeOK, TypeOK', TaskInv, NEW x \in Seq(ToClient), NEW d \in {0, 1},
         Grown(to_client, to_client', x),
         Shifted(to_server, to_server', d),
         task_iter' >= task_iter,
         \A i \in DOMAIN x : IsRequest(x[i]) => task_iter' = task_iter + 1
                                                /\ x[i].task = task_iter',
         \A i, j \in DOMAIN x : IsRequest(x[i]) /\ IsRequest(x[j]) => i = j,
         UNCHANGED <<pending_task, answers>>
  PROVE  TaskInv'
<1>1. /\ task_iter \in Nat /\ task_iter' \in Nat /\ pending_task <= task_iter
      /\ Len(to_client) \in Nat /\ Len(x) \in Nat
  BY DEF TypeOK, DaemonTypeOK, LibraryTypeOK, BusTypeOK
<1>2. ASSUME NEW i \in DOMAIN to_client'
      PROVE  \/ i \in DOMAIN to_client /\ to_client'[i] = to_client[i]
             \/ /\ i - Len(to_client) \in DOMAIN x
                /\ to_client'[i] = x[i - Len(to_client)]
  <2>1. i \in 1..Len(to_client) + Len(x)
    BY DEF Grown
  <2>2. CASE i \in 1..Len(to_client)
    BY <2>2 DEF Grown
  <2>3. CASE i \notin 1..Len(to_client)
    <3>1. i - Len(to_client) \in 1..Len(x) /\ Len(to_client) + (i - Len(to_client)) = i
      BY <1>1, <2>1, <2>3
    <3> QED BY <3>1 DEF Grown
  <2> QED BY <2>2, <2>3
<1>3. ASSUME NEW i \in DOMAIN x, IsRequest(x[i])
      PROVE  /\ x[i].task = task_iter' /\ task_iter' = task_iter + 1 /\ task_iter' \in Task
             /\ answers[task_iter'] = 0 /\ task_iter' # pending_task
  <2>1. x[i].task = task_iter' /\ task_iter' = task_iter + 1
    BY <1>3
  <2>2. x[i] \in ToClient
    BY ElementOfSeq
  <2>3. task_iter' \in Task
    BY <1>3, <2>1, <2>2, MessageFields
  <2> QED BY <1>1, <2>1, <2>3 DEF TaskInv
<1>4. ASSUME NEW i \in DOMAIN to_client, IsRequest(to_client[i])
      PROVE  /\ to_client[i].task <= task_iter /\ to_client[i].task # pending_task
             /\ answers[to_client[i].task] = 0 /\ to_client[i].task \in Task
  BY <1>4, MessageFields, ElementOfSeq DEF TaskInv, TypeOK, BusTypeOK
<1>5. ASSUME NEW i \in DOMAIN to_client', NEW j \in DOMAIN to_client',
             IsRequest(to_client'[i]), IsRequest(to_client'[j]),
             to_client'[i].task = to_client'[j].task
      PROVE  i = j
  <2>1. CASE i \in DOMAIN to_client /\ to_client'[i] = to_client[i]
    <3>1. to_client'[i].task <= task_iter
      BY <1>4, <1>5, <2>1
    <3>2. j \in DOMAIN to_client /\ to_client'[j] = to_client[j]
      BY <1>1, <1>2, <1>3, <1>5, <3>1
    <3> QED BY <1>5, <2>1, <3>2 DEF TaskInv
  <2>2. CASE i - Len(to_client) \in DOMAIN x /\ to_client'[i] = x[i - Len(to_client)]
    <3>1. to_client'[i].task = task_iter + 1
      BY <1>3, <1>5, <2>2
    <3>2. /\ j - Len(to_client) \in DOMAIN x
          /\ to_client'[j] = x[j - Len(to_client)]
      <4>1. ~(to_client'[j].task <= task_iter)
        BY <1>1, <1>5, <3>1
      <4>2. ~(j \in DOMAIN to_client /\ to_client'[j] = to_client[j])
        BY <1>4, <1>5, <4>1
      <4> QED BY <1>2, <4>2
    <3>3. i - Len(to_client) = j - Len(to_client)
      BY <1>5, <2>2, <3>2
    <3>4. i \in Nat /\ j \in Nat
      BY DEF Grown
    <3> QED BY <1>1, <3>3, <3>4
  <2> QED BY <1>2, <2>1, <2>2
<1>6. ASSUME NEW i \in DOMAIN to_client', IsRequest(to_client'[i])
      PROVE  /\ to_client'[i].task <= task_iter' /\ to_client'[i].task # pending_task
             /\ answers[to_client'[i].task] = 0
  <2>1. CASE i \in DOMAIN to_client /\ to_client'[i] = to_client[i]
    BY <1>1, <1>4, <1>6, <2>1 DEF Task
  <2>2. CASE i - Len(to_client) \in DOMAIN x /\ to_client'[i] = x[i - Len(to_client)]
    BY <1>1, <1>3, <1>6, <2>2
  <2> QED BY <1>2, <2>1, <2>2
<1>7. \A t \in Task : t > task_iter' => answers[t] = 0
  BY <1>1 DEF TaskInv, Task
<1>8. ASSUME NEW i \in DOMAIN to_server', IsFinal(to_server'[i])
      PROVE  answers[to_server'[i].task] = 1
  BY <1>8 DEF TaskInv, Shifted
<1> QED BY <1>5, <1>6, <1>7, <1>8 DEF TaskInv, IsRequest, IsFinal

(* The library takes requests and answers each but once.                   *)
LEMMA LibraryKeepsTasks ==
  ASSUME TypeOK, TypeOK', TaskInv, NEW x \in Seq(ToServer), NEW d \in {0, 1},
         Shifted(to_client, to_client', d),
         Grown(to_server, to_server', x),
         UNCHANGED task_iter,
         \A t \in Task : answers'[t] # answers[t] =>
           answers'[t] = 1 /\ t <= task_iter /\ Settled(t)',
         pending_task' \in {0, pending_task}
           \/ /\ answers'[pending_task'] = 0
              /\ \A i \in DOMAIN to_client' :
                   IsRequest(to_client'[i]) => to_client'[i].task # pending_task',
         \A i \in DOMAIN x : IsFinal(x[i]) => answers'[x[i].task] = 1
  PROVE  TaskInv'
<1>1. /\ task_iter \in Nat /\ pending_task' \in 0..task_iter
      /\ answers \in [Task -> 0..1] /\ answers' \in [Task -> 0..1] /\ task_iter <= MaxTask
  BY DEF TypeOK, DaemonTypeOK, LibraryTypeOK, HistoryTypeOK
<1>2. \A i \in DOMAIN to_client' :
        i + d \in DOMAIN to_client /\ to_client'[i] = to_client[i + d]
  BY DEF Shifted
<1>3. DOMAIN to_client' \subseteq Nat /\ \A i \in DOMAIN to_client' :
        IsRequest(to_client'[i]) => to_client'[i].task \in Task
  BY MessageFields, ElementOfSeq DEF TypeOK, BusTypeOK
<1>4. ASSUME NEW i \in DOMAIN to_client', NEW j \in DOMAIN to_client',
             IsRequest(to_client'[i]), IsRequest(to_client'[j]),
             to_client'[i].task = to_client'[j].task
      PROVE  i = j
  <2>1. i + d = j + d
    BY <1>2, <1>4 DEF TaskInv
  <2> QED BY <1>3, <2>1
<1>5. ASSUME NEW i \in DOMAIN to_client', IsRequest(to_client'[i])
      PROVE  /\ to_client'[i].task <= task_iter'
             /\ to_client'[i].task # pending_task'
             /\ answers'[to_client'[i].task] = 0
  <2> DEFINE t == to_client'[i].task
  <2>1. t <= task_iter /\ t # pending_task /\ answers[t] = 0 /\ t \in Task
    BY <1>2, <1>3, <1>5 DEF TaskInv
  <2>2. t # pending_task'
    BY <1>5, <2>1 DEF Task
  <2>3. answers'[t] = answers[t]
    BY <1>5, <2>1 DEF Settled, IsRequest
  <2> QED BY <2>1, <2>2, <2>3
<1>6. ASSUME pending_task' # 0 PROVE answers'[pending_task'] = 0
  <2>1. CASE pending_task' = pending_task
    <3>1. answers[pending_task] = 0 /\ pending_task \in Task
      BY <1>1, <1>6, <2>1, BoundsOK DEF TaskInv, Task
    <3>2. ~Settled(pending_task)'
      BY <2>1 DEF Settled
    <3>3. answers'[pending_task] = answers[pending_task]
      BY <2>1, <3>1, <3>2 DEF Settled
    <3> QED BY <2>1, <3>1, <3>3
  <2> QED BY <1>6, <2>1
<1>7. \A t \in Task : t > task_iter' => answers'[t] = 0
  BY <1>1 DEF TaskInv, Task
<1>8. ASSUME NEW i \in DOMAIN to_server', IsFinal(to_server'[i])
      PROVE  answers'[to_server'[i].task] = 1
  <2>1. CASE i \in DOMAIN to_server
    <3>1. to_server'[i] = to_server[i]
      BY <2>1 DEF Grown
    <3>2. to_server[i].task \in Task /\ answers[to_server[i].task] = 1
      BY <1>8, <2>1, <3>1, ReportFields, ElementOfSeq DEF TaskInv, TypeOK, BusTypeOK
    <3> QED BY <3>1, <3>2
  <2>2. CASE i \notin DOMAIN to_server
    <3>1. i - Len(to_server) \in DOMAIN x /\ Len(to_server) + (i - Len(to_server)) = i
      BY <2>2 DEF Grown
    <3>2. to_server'[i] = x[i - Len(to_server)]
      BY <3>1 DEF Grown
    <3> QED BY <1>8, <3>1, <3>2
  <2> QED BY <2>1, <2>2
<1> QED BY <1>4, <1>5, <1>6, <1>7, <1>8 DEF TaskInv, IsRequest, IsFinal

LEMMA TasksDispatched ==
  ASSUME LibraryInv, TypeOK', Dispatch
  PROVE  TaskInv'
<1> DEFINE m == Head(to_client)
<1>0. TypeOK /\ TaskInv
  BY DEF LibraryInv
<1>1. Dispatched /\ m \in ToClient /\ task_iter' = task_iter
  BY DispatchCases DEF LibraryInv, Dispatched, daemon
<1>2. m = to_client[1] /\ 1 \in DOMAIN to_client
  BY <1>1, TailOf DEF Dispatched, LibraryInv, TypeOK, BusTypeOK
<1>3. Shifted(to_client, to_client', 1)
  BY <1>1, ShiftedByOne DEF Dispatched, LibraryInv, TypeOK, BusTypeOK
<1>4. ASSUME UNCHANGED <<pending_task, answers>>,
             NEW x \in Seq(ToServer), Grown(to_server, to_server', x),
             \A i \in DOMAIN x : ~IsFinal(x[i])
      PROVE  TaskInv'
  BY <1>0, <1>1, <1>3, <1>4, LibraryKeepsTasks
<1>5. ASSUME NEW x \in ToServer, Send(<<x>>), ~IsFinal(x)
      PROVE  /\ Grown(to_server, to_server', <<x>>) /\ <<x>> \in Seq(ToServer)
             /\ \A i \in DOMAIN <<x>> : ~IsFinal(<<x>>[i])
  <2>1. Grown(to_server, to_server', <<x>>)
    BY <1>0, <1>5, OneSent
  <2>2. <<x>> \in Seq(ToServer)
    OBVIOUS
  <2>3. DOMAIN <<x>> = {1} /\ <<x>>[1] = x
    OBVIOUS
  <2> QED BY <1>5, <2>1, <2>2, <2>3
<1>6. ASSUME UNCHANGED to_server
      PROVE  /\ Grown(to_server, to_server', <<>>) /\ <<>> \in Seq(ToServer)
             /\ DOMAIN <<>> = {}
  <2>1. <<>> \in Seq(ToServer) /\ DOMAIN <<>> = {} /\ Len(<<>>) = 0
    BY EmptySeq
  <2>2. to_server \in Seq(ToServer)
    BY <1>0 DEF TypeOK, BusTypeOK
  <2> QED BY <1>6, <2>1, <2>2 DEF Grown
<1>7. Request("Error") \in ToServer /\ ~IsFinal(Request("Error"))
  BY MessagesToServer DEF Request, IsFinal
<1>8. ASSUME IsRequest(m), m.task \in Task, pending_task = 0,
             \/ TaskAnswered(m.task)
             \/ \E event \in TaskEvent : AddEvent(m.task, event)
             \/ TaskStuck(m.task)
      PROVE  TaskInv'
  <2>0. PICK t \in Task : t = m.task
    BY <1>8
  <2>1. t <= task_iter /\ answers[t] = 0 /\ t \in Task /\ t # 0
    BY <1>0, <1>2, <1>8, <2>0 DEF TaskInv, Task
  <2>2. \A i \in DOMAIN to_client' : IsRequest(to_client'[i]) => to_client'[i].task # t
    <3>1. SUFFICES ASSUME NEW i \in DOMAIN to_client', IsRequest(to_client'[i]),
                          to_client'[i].task = t
                   PROVE  FALSE
      OBVIOUS
    <3>2. i + 1 \in DOMAIN to_client /\ to_client'[i] = to_client[i + 1] /\ i # 0
      BY <1>3 DEF Shifted
    <3>3. i + 1 = 1
      BY <1>0, <1>2, <1>8, <2>0, <3>1, <3>2 DEF TaskInv
    <3>4. i \in Nat
      BY <3>1 DEF TypeOK, BusTypeOK
    <3> QED BY <3>2, <3>3, <3>4
  <2>3. answers \in [Task -> 0..1]
    BY <1>0 DEF TypeOK, HistoryTypeOK
  <2>4. CASE TaskAnswered(t)
    <3>1. PICK f \in ToServer, x \in Seq(ToServer) :
            /\ IsFinal(f) /\ f.task = t
            /\ Grown(to_server, to_server', x)
            /\ x[Len(x)] = f /\ Len(x) \in DOMAIN x
            /\ \A i \in DOMAIN x : i # Len(x) => ~IsFinal(x[i])
      BY <1>0, <2>1, <2>4, AnswerSent
    <3>2. answers' = [answers EXCEPT ![t] = @ + 1] /\ pending_task' = pending_task
      BY <2>4 DEF TaskAnswered
    <3>3. answers'[t] = 1 /\ \A u \in Task : u # t => answers'[u] = answers[u]
      BY <2>1, <2>3, <3>2
    <3>4. Settled(t)'
      BY <1>8, <2>1, <2>2, <3>2 DEF Settled, IsRequest
    <3>5. \A i \in DOMAIN x : IsFinal(x[i]) => answers'[x[i].task] = 1
      BY <3>1, <3>3
    <3>6. \A u \in Task : answers'[u] # answers[u] =>
            answers'[u] = 1 /\ u <= task_iter /\ Settled(u)'
      BY <2>1, <3>3, <3>4
    <3> QED BY <1>0, <1>1, <1>3, <3>1, <3>2, <3>5, <3>6, LibraryKeepsTasks
  <2>5. ASSUME pending_task' \in {t, pending_task}, UNCHANGED answers,
               NEW x \in Seq(ToServer), Grown(to_server, to_server', x),
               \A i \in DOMAIN x : ~IsFinal(x[i])
        PROVE  TaskInv'
    <3>1. answers'[t] = 0
      BY <2>1, <2>5
    <3> QED BY <1>0, <1>1, <1>3, <2>2, <2>5, <3>1, LibraryKeepsTasks
  <2>6. ASSUME NEW event \in TaskEvent, AddEvent(t, event) PROVE TaskInv'
    <3>1. pending_task' = t /\ UNCHANGED <<to_server, answers>>
      BY <2>6 DEF AddEvent, NoAnswer
    <3> DEFINE x == <<>>
    <3>2. x \in Seq(ToServer) /\ Grown(to_server, to_server', x) /\ DOMAIN x = {}
      BY <1>6, <3>1
    <3> HIDE DEF x
    <3> QED BY <2>5, <3>1, <3>2
  <2>7. CASE TaskStuck(t)
    <3>1. pending_task' \in {t, pending_task} /\ UNCHANGED answers
      BY <2>7 DEF TaskStuck
    <3>2. CASE Send(<<Request("Error")>>)
      <4> DEFINE x == <<Request("Error")>>
      <4>1. x \in Seq(ToServer) /\ Grown(to_server, to_server', x)
            /\ \A i \in DOMAIN x : ~IsFinal(x[i])
        BY <1>5, <1>7, <3>2
      <4> HIDE DEF x
      <4> QED BY <2>5, <3>1, <4>1
    <3>3. CASE UNCHANGED to_server
      <4> DEFINE x == <<>>
      <4>1. x \in Seq(ToServer) /\ Grown(to_server, to_server', x) /\ DOMAIN x = {}
        BY <1>6, <3>3
      <4> HIDE DEF x
      <4> QED BY <2>5, <3>1, <4>1
    <3> QED BY <2>7, <3>2, <3>3 DEF TaskStuck
  <2> QED BY <1>8, <2>0, <2>4, <2>6, <2>7
<1>9. ASSUME UNCHANGED <<to_server, answers, pending_task>> PROVE TaskInv'
  <2> DEFINE x == <<>>
  <2>1. x \in Seq(ToServer) /\ Grown(to_server, to_server', x) /\ DOMAIN x = {}
    BY <1>6, <1>9
  <2> HIDE DEF x
  <2> QED BY <1>4, <1>9, <2>1
<1>10. ASSUME Send(<<Request("Error")>>), UNCHANGED <<answers, pending_task>>
       PROVE  TaskInv'
  <2> DEFINE x == <<Request("Error")>>
  <2>1. x \in Seq(ToServer) /\ Grown(to_server, to_server', x)
        /\ \A i \in DOMAIN x : ~IsFinal(x[i])
    BY <1>5, <1>7, <1>10
  <2> HIDE DEF x
  <2> QED BY <1>4, <1>10, <2>1
<1>11. NoTask \/ HandleQuit(m) => UNCHANGED <<to_server, answers, pending_task>>
  BY DEF NoTask, HandleQuit, NoAnswer
<1> HIDE DEF m
<1> QED BY <1>0, <1>8, <1>9, <1>10, <1>11, DispatchCases DEF m

LEMMA TaskStep ==
  ASSUME LibraryInv, [Next]_vars
  PROVE  TaskInv'
<1>0. TypeOK /\ TaskInv /\ EventInv /\ ConnectInv /\ TypeOK'
  BY TypeStep DEF LibraryInv
<1>1. /\ to_client \in Seq(ToClient) /\ to_server \in Seq(ToServer)
      /\ task_iter \in Nat /\ task_iter' \in Nat
  BY <1>0 DEF TypeOK, BusTypeOK, DaemonTypeOK
<1>2. \A q : <<>> \in Seq(q)
  BY EmptySeq
<1>3. /\ UNCHANGED to_client => Grown(to_client, to_client', <<>>)
                                /\ Shifted(to_client, to_client', 0)
      /\ UNCHANGED to_server => Grown(to_server, to_server', <<>>)
                                /\ Shifted(to_server, to_server', 0)
      /\ DOMAIN <<>> = {}
  <2>1. DOMAIN <<>> = {} /\ Len(<<>>) = 0
    OBVIOUS
  <2> QED BY <1>1, <2>1 DEF Grown, Shifted
<1>4. CASE HandleConnect
  <2>1. to_server # <<>> /\ to_server' = Tail(to_server)
    BY <1>4 DEF HandleConnect
  <2>2. Shifted(to_server, to_server', 1)
    BY <1>1, <2>1, ShiftedByOne
  <2>3. PICK n \in Name :
          IF setup.restored
            THEN /\ task_iter < MaxTask
                 /\ task_iter' = task_iter + 1
                 /\ to_client' = to_client \o <<Load(task_iter'), Reply(n)>>
            ELSE /\ to_client' = Append(to_client, Reply(n))
                 /\ UNCHANGED task_iter
    BY <1>4 DEF HandleConnect
  <2> DEFINE r == Reply(n)
  <2>4. r \in ToClient /\ ~IsRequest(r)
    BY MessagesToClient DEF Reply, IsRequest
  <2>5. UNCHANGED <<pending_task, answers>>
    BY <1>4 DEF HandleConnect, library, history
  <2>6. CASE setup.restored
    <3>1. PICK t \in Task : t = task_iter' /\ task_iter' = task_iter + 1
      BY <1>1, <2>3, <2>6, BoundsOK DEF Task
    <3> DEFINE y == Load(t)
               x == <<y, r>>
    <3>2. y \in ToClient /\ IsRequest(y) /\ y.task = t
      BY MessagesToClient DEF Load, IsRequest
    <3>3. to_client' = to_client \o <<y, r>>
      BY <2>3, <2>6, <3>1
    <3> HIDE DEF y, r
    <3>4. Grown(to_client, to_client', x)
      BY <1>1, <2>4, <3>2, <3>3, GrownByTwo
    <3>5. x \in Seq(ToClient) /\ x[1] = y /\ x[2] = r /\ DOMAIN x = 1..2
      BY <2>4, <3>2
    <3> HIDE DEF x
    <3>6. \A i \in DOMAIN x : IsRequest(x[i]) => i = 1
      BY <2>4, <3>5
    <3>7. \A i \in DOMAIN x : IsRequest(x[i]) => task_iter' = task_iter + 1
                                                /\ x[i].task = task_iter'
      BY <3>1, <3>2, <3>5, <3>6
    <3>8. task_iter' >= task_iter
      BY <1>1, <3>1
    <3>9. \A i, j \in DOMAIN x : IsRequest(x[i]) /\ IsRequest(x[j]) => i = j
      BY <3>6
    <3> QED BY <1>0, <2>2, <2>5, <3>4, <3>5, <3>7, <3>8, <3>9, DaemonKeepsTasks
  <2>7. CASE ~setup.restored
    <3> DEFINE x == <<r>>
    <3> HIDE DEF r
    <3>1. Grown(to_client, to_client', x)
      BY <1>1, <2>3, <2>4, <2>7, GrownByOne DEF r
    <3>2. x \in Seq(ToClient) /\ DOMAIN x = 1..1 /\ x[1] = r
      BY <2>4
    <3>3. task_iter' >= task_iter
      BY <1>1, <2>3, <2>7
    <3> HIDE DEF x
    <3>4. \A i \in DOMAIN x : ~IsRequest(x[i])
      BY <2>4, <3>2
    <3> QED BY <1>0, <2>2, <2>5, <3>1, <3>2, <3>3, <3>4, DaemonKeepsTasks
  <2> QED BY <2>6, <2>7
<1>5. CASE DaemonSignals
  <2>1. PICK m \in ToClient :
          /\ Broadcast(m)
          /\ IF IsRequest(m)
               THEN task_iter' = task_iter + 1 /\ m.task = task_iter'
               ELSE UNCHANGED task_iter
    BY <1>5 DEF DaemonSignals
  <2>2. PICK d \in {0, 1} : Shifted(to_server, to_server', d)
    BY <1>0, <1>5, ShiftedByNone DEF DaemonSignals, TypeOK, BusTypeOK
  <2>3. task_iter' >= task_iter /\ UNCHANGED <<pending_task, answers>>
    BY <1>1, <1>5, <2>1 DEF DaemonSignals, library
  <2>4. PICK x \in {<<>>, <<m>>} : Grown(to_client, to_client', x)
    BY <1>0, <1>3, <2>1, BroadcastEffect
  <2>5. x \in Seq(ToClient) /\ \A i \in DOMAIN x : i = 1 /\ x[i] = m
    <3>1. <<m>> \in Seq(ToClient) /\ DOMAIN <<m>> = {1} /\ <<m>>[1] = m
      OBVIOUS
    <3> QED BY <1>2, <1>3, <2>4, <3>1
  <2> QED BY <1>0, <2>1, <2>2, <2>3, <2>4, <2>5, DaemonKeepsTasks
<1>6. ASSUME NEW d \in {0, 1}, Shifted(to_server, to_server', d),
             UNCHANGED <<to_client, task_iter, pending_task, answers>>
      PROVE  TaskInv'
  <2> DEFINE x == <<>>
  <2>1. x \in Seq(ToClient) /\ Grown(to_client, to_client', x) /\ DOMAIN x = {}
    BY <1>2, <1>3, <1>6
  <2> HIDE DEF x
  <2>2. task_iter' >= task_iter /\ UNCHANGED <<pending_task, answers>>
    BY <1>1, <1>6
  <2>3. \A i \in DOMAIN x : FALSE
    BY <2>1
  <2> QED BY <1>0, <1>6, <2>1, <2>2, <2>3, DaemonKeepsTasks
<1>7. CASE HandleRequest
  <2>1. UNCHANGED <<to_client, task_iter, pending_task, answers>>
    BY <1>7 DEF HandleRequest, daemon, library, history
  <2>2. \E d \in {0, 1} : Shifted(to_server, to_server', d)
    BY <1>0, <1>7, RequestTaken
  <2> QED BY <1>6, <2>1, <2>2
<1>8. CASE HandleReport
  <2>1. UNCHANGED <<to_client, task_iter, pending_task, answers>>
    BY <1>8 DEF HandleReport, library
  <2>2. Shifted(to_server, to_server', 1)
    BY <1>1, <1>8, ShiftedByOne DEF HandleReport
  <2> QED BY <1>6, <2>1, <2>2
<1>9. ASSUME NEW x \in ToServer, ~IsFinal(x), Send(<<x>>),
             UNCHANGED <<to_client, task_iter, pending_task, answers>>
      PROVE  TaskInv'
  <2> DEFINE y == <<x>>
  <2>1. Grown(to_server, to_server', y) /\ Shifted(to_client, to_client', 0)
    BY <1>0, <1>3, <1>9, OneSent
  <2>2. y \in Seq(ToServer) /\ DOMAIN y = {1} /\ y[1] = x
    OBVIOUS
  <2> HIDE DEF y
  <2>3. \A i \in DOMAIN y : ~IsFinal(y[i])
    BY <1>9, <2>2
  <2> QED BY <1>0, <1>9, <2>1, <2>2, <2>3, LibraryKeepsTasks
<1>10. CASE ClientOpen
  <2>1. Connect \in ToServer /\ ~IsFinal(Connect)
    BY MessagesToServer DEF Connect, IsFinal
  <2> QED BY <1>9, <1>10, <2>1 DEF ClientOpen, daemon, history
<1>11. CASE Chatter
  BY <1>9, <1>11 DEF Chatter, daemon, library, history
<1>12. CASE ConnectReply
  <2>1. PICK n \in Name :
          \/ to_client = <<Reply(n)>> /\ to_client' = <<>>
          \/ \E t \in Task : to_client = <<Load(t), Reply(n)>>
                             /\ to_client' = <<Load(t)>>
    BY <1>0, <1>12, ReplyTaken
  <2>2. \A i \in DOMAIN to_client' : i = 1 /\ i \in DOMAIN to_client
                                    /\ to_client'[i] = to_client[i]
    <3>1. CASE to_client' = <<>>
      BY <1>3, <3>1
    <3>2. ASSUME NEW t \in Task, to_client = <<Load(t), Reply(n)>>,
                 to_client' = <<Load(t)>>
          PROVE  \A i \in DOMAIN to_client' : i = 1 /\ i \in DOMAIN to_client
                                              /\ to_client'[i] = to_client[i]
      <4> DEFINE x == Load(t)
                 r == Reply(n)
      <4>1. to_client = <<x, r>> /\ to_client' = <<x>>
        BY <3>2
      <4> HIDE DEF x, r
      <4> QED BY <4>1
    <3> QED BY <2>1, <3>1, <3>2
  <2>3. UNCHANGED <<to_server, task_iter, pending_task, answers>>
    BY <1>12 DEF ConnectReply, daemon, history
  <2> QED BY <1>0, <2>2, <2>3 DEF TaskInv, IsRequest, IsFinal
<1>13. CASE ConnectTimeout \/ AddMatch \/ GetEvent \/ SendConfig \/ Forget \/ UNCHANGED vars
  <2>1. UNCHANGED <<to_client, to_server, task_iter, pending_task, answers>>
    BY <1>13 DEF ConnectTimeout, AddMatch, GetEvent, SendConfig, Forget, vars, daemon,
                 library, history
  <2> QED BY <1>0, <2>1 DEF TaskInv, IsRequest, IsFinal
<1>14. CASE TaskDone
  <2>1. PICK f \in ToServer : IsFinal(f) /\ f.task = pending_task /\ Send(<<f>>)
    BY <1>14 DEF TaskDone
  <2>2. PICK t \in Task : t = pending_task
    BY <2>1, ReportFields
  <2>3. /\ answers' = [answers EXCEPT ![t] = @ + 1] /\ pending_task' = 0
        /\ UNCHANGED <<to_client, task_iter>>
    BY <1>14, <2>2 DEF TaskDone, daemon
  <2>4. answers[t] = 0 /\ t <= task_iter /\ t # 0 /\ answers \in [Task -> 0..1]
    BY <1>0, <2>2 DEF TaskInv, TypeOK, LibraryTypeOK, DaemonTypeOK, HistoryTypeOK, Task
  <2>5. answers'[t] = 1 /\ \A u \in Task : u # t => answers'[u] = answers[u]
    BY <2>3, <2>4
  <2>6. Settled(t)'
    BY <1>0, <2>2, <2>3, <2>4 DEF Settled, TaskInv, IsRequest
  <2>7. Grown(to_server, to_server', <<f>>) /\ Shifted(to_client, to_client', 0)
    BY <1>0, <1>3, <2>1, <2>3, OneSent
  <2> DEFINE y == <<f>>
  <2>8. y \in Seq(ToServer) /\ DOMAIN y = {1} /\ y[1] = f
    OBVIOUS
  <2>9. Grown(to_server, to_server', y)
    BY <2>7
  <2> HIDE DEF y
  <2>10. \A i \in DOMAIN y : IsFinal(y[i]) => answers'[y[i].task] = 1
    BY <2>1, <2>2, <2>5, <2>8
  <2>11. \A u \in Task : answers'[u] # answers[u] =>
           answers'[u] = 1 /\ u <= task_iter /\ Settled(u)'
    BY <2>4, <2>5, <2>6
  <2> QED BY <1>0, <2>3, <2>7, <2>8, <2>9, <2>10, <2>11, LibraryKeepsTasks
<1> QED BY <1>0, <1>4, <1>5, <1>7, <1>8, <1>10, <1>11, <1>12, <1>13, <1>14, StepCases,
           Signals, TasksDispatched

------------------------------------------------------------------------------
(* The event of the pending task *)

LEMMA EventsDispatched ==
  ASSUME LibraryInv, TypeOK', Dispatch
  PROVE  EventInv' /\ successes' \subseteq taken'
<1> DEFINE m == Head(to_client)
<1>0. TypeOK /\ EventInv /\ successes \subseteq taken
  BY DEF LibraryInv
<1>1. events_in \in Seq(TaskEvent \cup {"Quit"}) /\ taken \subseteq Task
  BY <1>0 DEF TypeOK, LibraryTypeOK, HistoryTypeOK
<1>2. 0 \notin taken /\ "Quit" \notin TaskEvent
  BY <1>1 DEF Task, TaskEvent, CallbackFor
<1>3. ASSUME NEW e \in TaskEvent \cup {"Quit"}
      PROVE  \A i \in DOMAIN Append(events_in, e) :
               \/ i \in DOMAIN events_in /\ Append(events_in, e)[i] = events_in[i]
               \/ i = Len(events_in) + 1 /\ Append(events_in, e)[i] = e
  BY <1>1, AppendProperties
<1>4. ASSUME IsRequest(m), m.task \in Task, pending_task = 0,
             \/ TaskAnswered(m.task)
             \/ \E event \in TaskEvent : AddEvent(m.task, event)
             \/ TaskStuck(m.task)
      PROVE  EventInv' /\ successes' \subseteq taken'
  <2>1. g_pending_event = "none" /\ \A i \in DOMAIN events_in : events_in[i] \notin TaskEvent
    BY <1>0, <1>2, <1>4 DEF EventInv
  <2>2. CASE TaskAnswered(m.task)
    BY <1>0, <2>1, <2>2 DEF TaskAnswered, queue, EventInv
  <2>3. ASSUME NEW event \in TaskEvent, AddEvent(m.task, event)
        PROVE  EventInv' /\ successes' \subseteq taken'
    <3>1. /\ pending_task' = m.task /\ events_in' = Append(events_in, event)
          /\ UNCHANGED <<g_pending_event, handling, taken, successes>>
      BY <2>3 DEF AddEvent, NoAnswer
    <3>2. m.task # 0
      BY <1>4 DEF Task
    <3>3. \A i \in DOMAIN events_in' : events_in'[i] \in TaskEvent =>
            i = Len(events_in) + 1
      BY <1>3, <2>1, <3>1
    <3> QED BY <1>0, <2>1, <3>1, <3>2, <3>3 DEF EventInv
  <2>4. CASE TaskStuck(m.task)
    BY <1>0, <2>1, <2>4 DEF TaskStuck, queue, EventInv
  <2> QED BY <1>4, <2>2, <2>3, <2>4
<1>5. ASSUME HandleQuit(m) PROVE EventInv' /\ successes' \subseteq taken'
  <2>1. events_in' \in {events_in, Append(events_in, "Quit")}
        /\ UNCHANGED <<pending_task, g_pending_event, handling, taken, successes>>
    BY <1>5 DEF HandleQuit, NoAnswer
  <2>2. \A i \in DOMAIN events_in' : events_in'[i] \in TaskEvent =>
          i \in DOMAIN events_in /\ events_in'[i] = events_in[i]
    BY <1>2, <1>3, <2>1
  <2> QED BY <1>0, <2>1, <2>2 DEF EventInv
<1>6. ASSUME UNCHANGED <<successes, pending_task, queue, taken>>
      PROVE  EventInv' /\ successes' \subseteq taken'
  BY <1>0, <1>6 DEF EventInv, queue
<1>7. NoTask => UNCHANGED <<successes, pending_task, queue, taken>>
  BY DEF NoTask, NoAnswer
<1> HIDE DEF m
<1> QED BY <1>0, <1>4, <1>5, <1>6, <1>7, DispatchCases DEF m

LEMMA EventStep ==
  ASSUME LibraryInv, [Next]_vars
  PROVE  EventInv' /\ successes' \subseteq taken'
<1>0. TypeOK /\ EventInv /\ successes \subseteq taken /\ TypeOK'
  BY TypeStep DEF LibraryInv
<1>1. CASE GetEvent
  <2> DEFINE event == Head(events_in)
  <2>1. /\ events_in # <<>> /\ events_in' = Tail(events_in) /\ g_pending_event = "none"
        /\ UNCHANGED <<pending_task, successes>>
        /\ IF event \in TaskEvent
             THEN /\ g_pending_event' = event /\ handling' = event
                  /\ taken' = taken \cup {pending_task}
             ELSE UNCHANGED <<g_pending_event, handling, taken>>
    BY <1>1 DEF GetEvent
  <2>2. events_in \in Seq(TaskEvent \cup {"Quit"})
    BY <1>0 DEF TypeOK, LibraryTypeOK
  <2>3. /\ event = events_in[1] /\ 1 \in DOMAIN events_in
        /\ \A i \in DOMAIN events_in' : /\ i # 0 /\ i \in Nat /\ i + 1 \in DOMAIN events_in
                                        /\ events_in'[i] = events_in[i + 1]
    BY <2>1, <2>2, TailOf
  <2> HIDE DEF event
  <2>4. CASE event \in TaskEvent
    <3>1. \A i \in DOMAIN events_in' : events_in'[i] \notin TaskEvent
      <4>1. SUFFICES ASSUME NEW i \in DOMAIN events_in', events_in'[i] \in TaskEvent
                     PROVE  FALSE
        OBVIOUS
      <4>2. i + 1 = 1
        BY <1>0, <2>3, <2>4, <4>1 DEF EventInv
      <4> QED BY <2>3, <4>2
    <3> QED BY <1>0, <2>1, <2>4, <3>1 DEF EventInv
  <2>5. CASE event \notin TaskEvent
    <3>1. ASSUME NEW i \in DOMAIN events_in', NEW j \in DOMAIN events_in',
                 events_in'[i] \in TaskEvent, events_in'[j] \in TaskEvent
          PROVE  i = j
      <4>1. i + 1 = j + 1
        BY <1>0, <2>3, <3>1 DEF EventInv
      <4> QED BY <2>3, <4>1
    <3>2. \A i \in DOMAIN events_in' : events_in'[i] \in TaskEvent => pending_task # 0
      BY <1>0, <2>3 DEF EventInv
    <3> QED BY <1>0, <2>1, <2>5, <3>1, <3>2 DEF EventInv
  <2> QED BY <2>4, <2>5
<1>2. CASE Forget
  BY <1>0, <1>2 DEF Forget, EventInv, history
<1>3. CASE TaskDone
  BY <1>0, <1>3 DEF TaskDone, EventInv
<1>4. ASSUME UNCHANGED <<pending_task, events_in, g_pending_event, handling, taken,
                         successes>>
      PROVE  EventInv' /\ successes' \subseteq taken'
  BY <1>0, <1>4 DEF EventInv
<1>5. CASE HandleConnect \/ DaemonSignals \/ HandleRequest \/ HandleReport
  BY <1>4, <1>5 DEF HandleConnect, DaemonSignals, HandleRequest, HandleReport,
                    library, queue, history
<1>6. CASE ClientOpen \/ ConnectReply \/ ConnectTimeout \/ AddMatch
  BY <1>4, <1>6 DEF ClientOpen, ConnectReply, ConnectTimeout, AddMatch, queue, history
<1>7. CASE SendConfig \/ Chatter \/ UNCHANGED vars
  BY <1>4, <1>7 DEF SendConfig, Chatter, vars, library, queue, history
<1> QED BY <1>0, <1>1, <1>2, <1>3, <1>5, <1>6, <1>7, StepCases, Signals, EventsDispatched

------------------------------------------------------------------------------
(* The client connects once *)

(* No message Connect was added to the queue; its first d messages are gone. *)
ConnectsFrom(d) ==
  \A i \in DOMAIN to_server' : to_server'[i].type = "Connect" =>
    i + d \in DOMAIN to_server /\ to_server[i + d].type = "Connect"

LEMMA ConnectsKept ==
  ASSUME TypeOK, TypeOK', NEW x \in Seq(ToServer),
         Grown(to_server, to_server', x),
         \A i \in DOMAIN x : x[i].type # "Connect"
  PROVE  ConnectsFrom(0)
<1>1. ASSUME NEW i \in DOMAIN to_server', to_server'[i].type = "Connect"
      PROVE  i + 0 \in DOMAIN to_server /\ to_server[i + 0].type = "Connect"
  <2>1. Len(to_server) \in Nat /\ Len(x) \in Nat /\ i \in 1..Len(to_server) + Len(x)
    BY DEF Grown
  <2>2. CASE i \in DOMAIN to_server
    BY <1>1, <2>1, <2>2 DEF Grown
  <2>3. CASE i \notin DOMAIN to_server
    <3>1. i - Len(to_server) \in DOMAIN x /\ Len(to_server) + (i - Len(to_server)) = i
      BY <2>1, <2>3 DEF Grown
    <3> QED BY <1>1, <3>1 DEF Grown
  <2> QED BY <2>2, <2>3
<1> QED BY <1>1 DEF ConnectsFrom

LEMMA OneKept ==
  ASSUME TypeOK, TypeOK', NEW x \in ToServer, Send(<<x>>), x.type # "Connect"
  PROVE  ConnectsFrom(0)
<1> DEFINE y == <<x>>
<1>1. Grown(to_server, to_server', y)
  BY OneSent
<1>2. y \in Seq(ToServer) /\ DOMAIN y = {1} /\ y[1] = x
  OBVIOUS
<1> HIDE DEF y
<1> QED BY <1>1, <1>2, ConnectsKept

(* The daemon's signals, and the client's project.                         *)
LEMMA SignalProject ==
  ASSUME TypeOK,
         \/ SaveRequested \/ CloseRequested \/ SignalOther \/ ChangeProject
         \/ \E n \in Name : Rename(n) \/ RenameOther(n)
  PROVE  \/ /\ UNCHANGED <<project, closed>>
            /\ client_task' = client_task \/ Member
            /\ misnamed => misnamed'
         \/ /\ Member /\ project' = NoName /\ closed' = TRUE /\ client_task' = 0
            /\ UNCHANGED misnamed
         \/ /\ Member /\ project' \in Name /\ UNCHANGED <<closed, client_task>>
            /\ misnamed' = TRUE \/ (matched # {} /\ misnamed' = misnamed)
<1> DEFINE Goal ==
         \/ /\ UNCHANGED <<project, closed>>
            /\ client_task' = client_task \/ Member
            /\ misnamed => misnamed'
         \/ /\ Member /\ project' = NoName /\ closed' = TRUE /\ client_task' = 0
            /\ UNCHANGED misnamed
         \/ /\ Member /\ project' \in Name /\ UNCHANGED <<closed, client_task>>
            /\ misnamed' = TRUE \/ (matched # {} /\ misnamed' = misnamed)
<1>1. ASSUME SaveRequested PROVE Goal
  BY <1>1 DEF SaveRequested, CanSave, ProjectSave
<1>2. ASSUME CloseRequested PROVE Goal
  BY <1>2 DEF CloseRequested, ProjectClose
<1>3. ASSUME SignalOther PROVE Goal
  BY <1>3 DEF SignalOther, history
<1>4. ASSUME ChangeProject PROVE Goal
  BY <1>4 DEF ChangeProject
<1>5. ASSUME NEW n \in Name, Rename(n) PROVE Goal
  <2>1. Heard(NameChanged(project, n)) => matched # {}
    BY DEF Heard, NameChanged
  <2>2. misnamed \in BOOLEAN
    BY DEF TypeOK, HistoryTypeOK
  <2>3. /\ Member /\ project' = n /\ UNCHANGED <<closed, client_task>>
        /\ misnamed' = (misnamed \/ ~Heard(NameChanged(project, n)) \/ n = other)
    BY <1>5 DEF Rename
  <2> QED BY <2>1, <2>2, <2>3
<1>6. ASSUME NEW n \in Name, RenameOther(n) PROVE Goal
  BY <1>6 DEF RenameOther
<1> HIDE DEF Goal
<1>7. Goal
  BY <1>1, <1>2, <1>3, <1>4, <1>5, <1>6
<1> QED BY <1>7 DEF Goal

LEMMA ConnectStep ==
  ASSUME LibraryInv, [Next]_vars
  PROVE  ConnectInv'
<1> USE DEF Member
<1>0. TypeOK /\ EventInv /\ ConnectInv /\ TypeOK' /\ NoName \notin Name
  BY TypeStep, NamesOK DEF LibraryInv
<1>1. /\ to_client \in Seq(ToClient) /\ to_server \in Seq(ToServer)
      /\ to_client' \in Seq(ToClient) /\ DOMAIN to_server' \subseteq Nat
      /\ misnamed \in BOOLEAN
  BY <1>0 DEF TypeOK, BusTypeOK, HistoryTypeOK
<1>2. ASSUME NEW d \in {0, 1}, ConnectsFrom(d)
      PROVE  /\ (\E i \in DOMAIN to_server' : to_server'[i].type = "Connect") =>
                  (\E i \in DOMAIN to_server : to_server[i].type = "Connect")
             /\ \A i, j \in DOMAIN to_server' :
                  to_server'[i].type = "Connect" /\ to_server'[j].type = "Connect" => i = j
  <2>1. ASSUME NEW i \in DOMAIN to_server', NEW j \in DOMAIN to_server',
               to_server'[i].type = "Connect", to_server'[j].type = "Connect"
        PROVE  i = j
    <3>1. i + d = j + d
      BY <1>0, <1>2, <2>1 DEF ConnectsFrom, ConnectInv
    <3> QED BY <1>1, <3>1
  <2> QED BY <1>2, <2>1 DEF ConnectsFrom
<1>3. ASSUME NEW d \in {0, 1}, ConnectsFrom(d),
             UNCHANGED <<project, closed, phase, to_client, matched, project_name>>,
             pending_task' \in {0, pending_task},
             client_task' \in {0, client_task},
             misnamed => misnamed'
      PROVE  ConnectInv'
  BY <1>0, <1>1, <1>2, <1>3 DEF ConnectInv
<1>4. ConnectsFrom(0) \/ ~UNCHANGED to_server
  BY <1>1 DEF ConnectsFrom
<1>5. CASE HandleConnect
  <2>1. /\ to_server # <<>> /\ Head(to_server) = Connect /\ to_server' = Tail(to_server)
        /\ UNCHANGED <<closed, phase, matched, project_name, pending_task, misnamed>>
    BY <1>5 DEF HandleConnect, library, history
  <2>2. to_server[1].type = "Connect" /\ 1 \in DOMAIN to_server
        /\ \A i \in DOMAIN to_server' : /\ i + 1 \in DOMAIN to_server /\ i + 1 # 1
                                        /\ to_server'[i] = to_server[i + 1]
    BY <1>1, <2>1, TailOf DEF Connect
  <2>3. \A i \in DOMAIN to_server' : to_server'[i].type # "Connect"
    BY <1>0, <2>2 DEF ConnectInv
  <2>4. /\ ~closed /\ project = NoName /\ phase # "closed"
        /\ phase = "connecting" => to_client = <<>>
        /\ phase \in {"matching", "running"} => misnamed
    BY <1>0, <2>2 DEF ConnectInv
  <2>5. PICK n \in Name :
          /\ project' = n
          /\ IF setup.restored
               THEN /\ task_iter < MaxTask
                    /\ task_iter' = task_iter + 1
                    /\ to_client' = to_client \o <<Load(task_iter'), Reply(n)>>
               ELSE to_client' = Append(to_client, Reply(n))
    BY <1>5 DEF HandleConnect
  <2>6. phase = "connecting" => \/ to_client' = <<Reply(n)>>
                                \/ \E t \in Task : to_client' = <<Load(t), Reply(n)>>
    <3> DEFINE r == Reply(n)
    <3>1. r \in ToClient
      BY MessagesToClient
    <3> HIDE DEF r
    <3>2. ASSUME to_client = <<>>, setup.restored
          PROVE  \E t \in Task : to_client' = <<Load(t), r>>
      <4>1. PICK t \in Task : t = task_iter'
        BY <1>0, <2>5, <3>2, BoundsOK DEF TypeOK, DaemonTypeOK, Task
      <4> DEFINE y == Load(t)
      <4>2. y \in ToClient
        BY MessagesToClient
      <4>3. to_client' = <<>> \o <<y, r>>
        BY <2>5, <3>2, <4>1 DEF r
      <4> HIDE DEF y
      <4>4. <<y, r>> \in Seq(ToClient)
        BY <3>1, <4>2
      <4>5. to_client' = <<y, r>>
        BY <4>3, <4>4, ConcatEmptySeq
      <4> QED BY <4>5 DEF y
    <3>3. ASSUME to_client = <<>>, ~setup.restored PROVE to_client' = <<r>>
      <4>1. to_client' = Append(<<>>, r) /\ <<>> \in Seq(ToClient) /\ <<r>> \in Seq(ToClient)
        BY <1>1, <2>5, <3>1, <3>3 DEF r
      <4> QED BY <3>1, <4>1, AppendIsConcat, ConcatEmptySeq
    <3> QED BY <2>4, <3>2, <3>3 DEF r
  <2>7. project' # NoName /\ project' \in Name
    BY <1>0, <2>5
  <2> HIDE DEF Member
  <2>8. Member'
    BY <2>7 DEF Member
  <2> QED BY <1>0, <2>1, <2>3, <2>4, <2>5, <2>6, <2>8 DEF ConnectInv
<1>6. CASE \/ SaveRequested \/ CloseRequested \/ SignalOther \/ ChangeProject
           \/ \E n \in Name : Rename(n) \/ RenameOther(n)
  <2>0. DaemonSignals
    BY <1>0, <1>6, Signals
  <2>1. PICK m \in ToClient : IsSignal(m) /\ Broadcast(m)
    BY <2>0 DEF DaemonSignals
  <2>2. UNCHANGED <<phase, matched, project_name, pending_task>>
    BY <2>0 DEF DaemonSignals, library
  <2>3. PICK d \in {0, 1} : ConnectsFrom(d)
    BY <1>0, <2>0, ShiftedByNone DEF DaemonSignals, TypeOK, BusTypeOK,
                                        Shifted, ConnectsFrom
  <2>4. \/ UNCHANGED to_client
        \/ /\ matched # {} /\ Grown(to_client, to_client', <<m>>)
    BY <1>0, <2>1, BroadcastEffect DEF Heard
  <2>5. (\A i \in DOMAIN to_client : to_client[i].type # "Reply") =>
          (\A i \in DOMAIN to_client' : to_client'[i].type # "Reply")
    <3>1. CASE UNCHANGED to_client
      BY <3>1
    <3>2. CASE Grown(to_client, to_client', <<m>>)
      <4> DEFINE y == <<m>>
      <4>1. Len(y) = 1 /\ DOMAIN y = 1..1 /\ y[1] = m /\ Grown(to_client, to_client', y)
        BY <3>2
      <4> HIDE DEF y
      <4>2. \A i \in DOMAIN to_client' :
              \/ i \in DOMAIN to_client /\ to_client'[i] = to_client[i]
              \/ to_client'[i] = m
        BY <4>1 DEF Grown
      <4> QED BY <2>1, <4>2 DEF IsSignal
    <3> QED BY <2>4, <3>1, <3>2
  <2>6. \/ /\ UNCHANGED <<project, closed>>
           /\ client_task' = client_task \/ Member
           /\ misnamed => misnamed'
        \/ /\ Member /\ project' = NoName /\ closed' = TRUE /\ client_task' = 0
           /\ UNCHANGED misnamed
        \/ /\ Member /\ project' \in Name /\ UNCHANGED <<closed, client_task>>
           /\ misnamed' = TRUE \/ (matched # {} /\ misnamed' = misnamed)
    BY <1>0, <1>6, SignalProject
  <2>7. phase \in {"closed", "connecting"} => UNCHANGED to_client /\ matched = {}
    BY <1>0, <2>4 DEF ConnectInv
  <2>8. Member => \A i \in DOMAIN to_server' : to_server'[i].type # "Connect"
    BY <1>0, <1>2, <2>3 DEF ConnectInv
  <2>9. Member => ~closed /\ phase # "closed"
    BY <1>0 DEF ConnectInv
  <2>10. (\E i \in DOMAIN to_server' : to_server'[i].type = "Connect") =>
           /\ phase # "closed" /\ project = NoName /\ ~closed
           /\ phase = "connecting" => to_client = <<>>
    BY <1>0, <1>2, <2>3 DEF ConnectInv
  <2>11. \A i, j \in DOMAIN to_server' :
           to_server'[i].type = "Connect" /\ to_server'[j].type = "Connect" => i = j
    BY <1>2, <2>3
  <2>12. CASE /\ UNCHANGED <<project, closed>>
              /\ client_task' = client_task \/ Member
              /\ misnamed => misnamed'
    BY <1>0, <1>1, <2>2, <2>5, <2>7, <2>10, <2>11, <2>12 DEF ConnectInv
  <2>13. CASE /\ Member /\ project' = NoName /\ closed' = TRUE /\ client_task' = 0
              /\ UNCHANGED misnamed
    BY <1>0, <1>1, <2>2, <2>5, <2>7, <2>8, <2>9, <2>13 DEF ConnectInv
  <2>14. CASE /\ Member /\ project' \in Name /\ UNCHANGED <<closed, client_task>>
              /\ misnamed' = TRUE \/ (matched # {} /\ misnamed' = misnamed)
    BY <1>0, <1>1, <2>2, <2>5, <2>7, <2>8, <2>9, <2>14 DEF ConnectInv
  <2> QED BY <2>6, <2>12, <2>13, <2>14
<1>7. CASE HandleRequest
  <2>1. PICK d \in {0, 1} : ConnectsFrom(d)
    BY <1>0, <1>7, RequestTaken DEF Shifted, ConnectsFrom
  <2> QED BY <1>3, <1>7, <2>1 DEF HandleRequest, daemon, library, history
<1>8. CASE HandleReport
  <2>1. ConnectsFrom(1)
    BY <1>1, <1>8, ShiftedByOne DEF HandleReport, Shifted, ConnectsFrom
  <2>2. client_task' \in {0, client_task}
    BY <1>8 DEF HandleReport
  <2> QED BY <1>3, <1>8, <2>1, <2>2 DEF HandleReport, library
<1>9. CASE Chatter
  <2>1. ConnectsFrom(0)
    BY <1>0, <1>9, OneKept DEF Chatter
  <2> QED BY <1>3, <1>9, <2>1 DEF Chatter, daemon, library, history
<1>10. CASE TaskDone
  <2>1. ConnectsFrom(0)
    BY <1>0, <1>10, OneKept DEF TaskDone, IsFinal
  <2> QED BY <1>3, <1>10, <2>1 DEF TaskDone, daemon
<1>11. CASE GetEvent \/ SendConfig \/ Forget \/ UNCHANGED vars
  <2>1. UNCHANGED <<daemon, to_client, to_server, matched, phase, project_name,
                    pending_task, misnamed>>
    BY <1>11 DEF GetEvent, SendConfig, Forget, vars, library, history
  <2> QED BY <1>3, <1>4, <2>1 DEF daemon
<1>12. CASE ClientOpen
  <2>1. /\ phase = "closed" /\ phase' = "connecting" /\ Send(<<Connect>>)
        /\ UNCHANGED <<project, closed, client_task, to_client, matched, project_name,
                       pending_task, misnamed>>
    BY <1>12 DEF ClientOpen, daemon, queue, history
  <2>2. \A i \in DOMAIN to_server : to_server[i].type # "Connect"
    BY <1>0, <2>1 DEF ConnectInv
  <2> DEFINE c == Connect
  <2>3. c \in ToServer
    BY MessagesToServer
  <2> HIDE DEF c
  <2>4. to_server' = to_server \o <<c>>
    BY <2>1 DEF Send, c
  <2>5. \A i \in DOMAIN to_server' : to_server'[i].type = "Connect" => i = Len(to_server) + 1
    BY <1>1, <2>2, <2>3, <2>4, SentOne
  <2> QED BY <1>0, <2>1, <2>5 DEF ConnectInv
<1>13. CASE ConnectReply
  <2>1. /\ phase = "connecting" /\ phase' = "matching"
        /\ UNCHANGED <<project, closed, client_task, to_server, matched, pending_task, misnamed>>
    BY <1>13 DEF ConnectReply, daemon, queue, history
  <2>2. to_client # <<>>
    BY <1>1, <1>13 DEF ConnectReply
  <2>3. Member \/ closed
    BY <1>0, <2>1, <2>2 DEF ConnectInv
  <2>4. \A i \in DOMAIN to_server : to_server[i].type # "Connect"
    BY <1>0, <2>1, <2>2 DEF ConnectInv
  <2>5. \A i \in DOMAIN to_client' : to_client'[i].type # "Reply"
    <3>1. to_client' = <<>> \/ \E t \in Task : to_client' = <<Load(t)>>
      BY <1>0, <1>13, ReplyTaken
    <3>2. ASSUME NEW t \in Task
          PROVE  \A i \in DOMAIN <<Load(t)>> : <<Load(t)>>[i].type # "Reply"
      BY DEF Load
    <3>3. DOMAIN <<>> = {}
      OBVIOUS
    <3> QED BY <3>1, <3>2, <3>3
  <2> QED BY <1>0, <2>1, <2>3, <2>4, <2>5 DEF ConnectInv
<1>14. CASE ConnectTimeout
  BY <1>0, <1>14 DEF ConnectTimeout, ConnectInv, daemon, queue
<1>15. CASE AddMatch
  <2>1. phase = "matching" /\ phase' \in {"matching", "running"}
    BY <1>15 DEF AddMatch
  <2> QED BY <1>0, <1>15, <2>1 DEF AddMatch, ConnectInv, daemon, queue, history
<1>16. CASE Dispatch
  <2> DEFINE m == Head(to_client)
  <2>1. /\ phase = "running" /\ phase' = "running" /\ to_client' = Tail(to_client)
        /\ to_client # <<>>
        /\ UNCHANGED <<project, closed, client_task, misnamed>>
    BY <1>16 DEF Dispatch, daemon
  <2>2. ConnectsFrom(0)
    <3>1. ASSUME NEW t \in Task, TaskAnswered(t) PROVE ConnectsFrom(0)
      <4>1. PICK f \in ToServer, x \in Seq(ToServer) :
              /\ IsFinal(f) /\ Grown(to_server, to_server', x) /\ x[Len(x)] = f
              /\ \A i \in DOMAIN x : i # Len(x) => x[i].type # "Connect"
        BY <1>0, <3>1, AnswerSent
      <4>2. \A i \in DOMAIN x : x[i].type # "Connect"
        BY <4>1 DEF IsFinal
      <4> QED BY <1>0, <4>1, <4>2, ConnectsKept
    <3>2. ASSUME Send(<<Request("Error")>>) PROVE ConnectsFrom(0)
      <4>1. Request("Error") \in ToServer /\ Request("Error").type # "Connect"
        BY MessagesToServer DEF Request
      <4> QED BY <1>0, <3>2, <4>1, OneKept
    <3>3. ASSUME NEW t, NEW event, AddEvent(t, event) PROVE ConnectsFrom(0)
      BY <1>4, <3>3 DEF AddEvent, NoAnswer
    <3>4. NoTask \/ HandleQuit(m) => ConnectsFrom(0)
      BY <1>4 DEF NoTask, HandleQuit, NoAnswer
    <3>5. ASSUME NEW t, TaskStuck(t) PROVE ConnectsFrom(0)
      BY <1>4, <3>2, <3>5 DEF TaskStuck
    <3> HIDE DEF m
    <3> QED BY <1>0, <1>16, <3>1, <3>2, <3>3, <3>4, <3>5, DispatchCases DEF m
  <2>3. (\A i \in DOMAIN to_client : to_client[i].type # "Reply") =>
          (\A i \in DOMAIN to_client' : to_client'[i].type # "Reply")
    BY <1>1, <2>1, TailOf
  <2> QED BY <1>0, <1>2, <2>1, <2>2, <2>3 DEF ConnectInv
<1> QED BY <1>0, <1>5, <1>6, <1>7, <1>8, <1>9, <1>10, <1>11, <1>12, <1>13, <1>14,
           <1>15, <1>16, StepCases

------------------------------------------------------------------------------
(* What holds whether or not the client knows its project's name *)

LEMMA InitiallySound ==
  ASSUME Init
  PROVE  SessionInv
<1> USE BoundsOK, NamesOK, SetupOK DEF Init
<1>1. DOMAIN <<>> = {} /\ (\A S : <<>> \in Seq(S))
  BY EmptySeq
<1>2. TypeOK
  <2>1. DaemonTypeOK
    <3>1. closed \in BOOLEAN
      BY Zenon
    <3>2. /\ setup \in Setup /\ project \in Name \cup {NoName} /\ other \in Name
          /\ task_iter \in 0..MaxTask /\ client_task \in 0..task_iter
          /\ changes \in 0..MaxRename
      BY SMT
    <3> QED BY <3>1, <3>2 DEF DaemonTypeOK
  <2>2. HistoryTypeOK
    <3>1. answers \in [Task -> 0..1]
      OBVIOUS
    <3>2. misnamed \in BOOLEAN /\ told \in BOOLEAN
      BY Zenon
    <3>3. taken = {} /\ successes = {} /\ lost = {}
      OBVIOUS
    <3> QED BY <3>1, <3>2, <3>3 DEF HistoryTypeOK
  <2>3. BusTypeOK
    <3>1. to_client \in Seq(ToClient) /\ to_server \in Seq(ToServer)
      BY <1>1
    <3>2. matched = {}
      OBVIOUS
    <3> QED BY <3>1, <3>2 DEF BusTypeOK
  <2>4. LibraryTypeOK
    <3>1. events_in \in Seq(TaskEvent \cup {"Quit"})
      BY <1>1
    <3>2. pending_task \in 0..task_iter
      OBVIOUS
    <3>3. server_connected \in BOOLEAN /\ project_name \in Name \cup {NoName, Text}
      OBVIOUS
    <3>4. phase = "closed" /\ unsent_configs = "none" /\ g_pending_event = "none"
          /\ handling = "none"
      OBVIOUS
    <3> QED BY <3>1, <3>2, <3>3, <3>4 DEF LibraryTypeOK
  <2> QED BY <2>1, <2>2, <2>3, <2>4 DEF TypeOK
<1>3. TaskInv /\ EventInv /\ ConnectInv
  BY <1>1 DEF TaskInv, EventInv, ConnectInv, Member
<1>4. NameInv /\ SameTaskInv /\ AskedTaskIsUnderway
  BY <1>1 DEF NameInv, SameTaskInv, AskedTaskIsUnderway, Member
<1> QED BY <1>2, <1>3, <1>4 DEF SessionInv, LibraryInv

LEMMA LibraryStep ==
  ASSUME LibraryInv, [Next]_vars
  PROVE  LibraryInv'
BY TypeStep, TaskStep, EventStep, ConnectStep DEF LibraryInv

(* Every task gets at most one final answer from the library, and none is  *)
(* reported as done that the application was not told of.                  *)
THEOREM TasksAnsweredOnce == Spec => []AnswersAreDeserved
<1>1. Init => LibraryInv
  BY InitiallySound DEF SessionInv
<1>2. LibraryInv /\ [Next]_vars => LibraryInv'
  BY LibraryStep
<1>3. LibraryInv => AnswersAreDeserved
  BY DEF LibraryInv, TypeOK, HistoryTypeOK, AnswersAreDeserved
<1> QED BY <1>1, <1>2, <1>3, PTL DEF Spec

------------------------------------------------------------------------------
(* What the steps do to the name that the client will know *)

KnownAtEnd == Known(project_name, to_client)[Len(to_client)]

LEMMA CalledAfter ==
  ASSUME NEW m \in ToClient, NEW n
  PROVE  /\ m.type \in {"Save", "Load", "Quit"} => Called(n, m) = n
         /\ m.type # "Reply" => Called(n, m) = Follow(n, m)
         /\ m.type = "Reply" => Called(n, m) = m.name
BY MessageFields DEF Called, Follow

LEMMA CalledAnew ==
  ASSUME NEW a, NEW b, NEW n
  PROVE  Called(n, NameChanged(a, b)) = IF n = a THEN b ELSE n
BY DEF Called, Follow, NameChanged

LEMMA BroadcastKnown ==
  ASSUME TypeOK, NEW m \in ToClient, Broadcast(m), UNCHANGED project_name
  PROVE  /\ \A i \in DOMAIN to_client :
              /\ i \in DOMAIN to_client' /\ to_client'[i] = to_client[i]
              /\ KnownBefore(i)' = KnownBefore(i)
         /\ ~Heard(m) => to_client' = to_client /\ KnownAtEnd' = KnownAtEnd
         /\ Heard(m) => \E e \in DOMAIN to_client' :
              /\ to_client'[e] = m /\ KnownBefore(e)' = KnownAtEnd
              /\ KnownAtEnd' = Called(KnownAtEnd, m)
              /\ \A i \in DOMAIN to_client' : i \in DOMAIN to_client \/ i = e
<1>1. to_client \in Seq(ToClient)
  BY DEF TypeOK, BusTypeOK
<1>2. CASE ~Heard(m)
  BY <1>2 DEF Broadcast, KnownBefore, KnownAtEnd
<1>3. CASE Heard(m)
  <2>0. PICK k \in Nat : k = Len(to_client)
    BY <1>1
  <2>1. to_client' = Append(to_client, m)
    BY <1>3 DEF Broadcast
  <2>2. /\ k \in Nat /\ Len(to_client') = k + 1 /\ to_client'[k + 1] = m
        /\ DOMAIN to_client = 1..k /\ DOMAIN to_client' = 1..k + 1
        /\ \A i \in 1..k : to_client'[i] = to_client[i]
    BY <1>1, <2>0, <2>1, AppendProperties
  <2>3. /\ \A i \in 0..k : Known(project_name, to_client')[i] = Known(project_name, to_client)[i]
        /\ Known(project_name, to_client')[k + 1] = Called(KnownAtEnd, m)
    BY <1>1, <2>0, <2>1, KnownAppended DEF KnownAtEnd
  <2>4. \A i \in 1..k + 1 : KnownBefore(i)' = Known(project_name, to_client)[i - 1]
    <3>1. SUFFICES ASSUME NEW i \in 1..k + 1
                   PROVE  Known(project_name', to_client')[i - 1]
                            = Known(project_name, to_client)[i - 1]
      BY DEF KnownBefore
    <3>2. i - 1 \in 0..k
      BY <2>2
    <3> QED BY <2>3, <3>2
  <2>5. k + 1 \in 1..k + 1 /\ k + 1 - 1 = k /\ \A i \in 1..k : i \in 1..k + 1
    BY <2>2
  <2>6. KnownBefore(k + 1)' = KnownAtEnd /\ KnownAtEnd' = Called(KnownAtEnd, m)
    BY <2>0, <2>2, <2>3, <2>4, <2>5 DEF KnownAtEnd
  <2>7. \A i \in 1..k : KnownBefore(i)' = KnownBefore(i)
    BY <2>4, <2>5 DEF KnownBefore
  <2>8. \A i \in 1..k + 1 : i \in 1..k \/ i = k + 1
    BY <2>2
  <2> QED BY <1>3, <2>2, <2>5, <2>6, <2>7, <2>8
<1> QED BY <1>2, <1>3

LEMMA DispatchKnown ==
  ASSUME TypeOK, to_client # <<>>, to_client' = Tail(to_client),
         project_name' = Called(project_name, Head(to_client))
  PROVE  /\ KnownAtEnd' = KnownAtEnd
         /\ \A i \in DOMAIN to_client' :
              /\ i + 1 \in DOMAIN to_client /\ to_client'[i] = to_client[i + 1]
              /\ KnownBefore(i)' = KnownBefore(i + 1)
         /\ \A i \in DOMAIN to_client :
              i = 1 \/ (i - 1 \in DOMAIN to_client' /\ i - 1 + 1 = i)
         /\ KnownBefore(1) = project_name
         /\ 1 \in DOMAIN to_client /\ to_client[1] = Head(to_client)
<1>1. to_client \in Seq(ToClient)
  BY DEF TypeOK, BusTypeOK
<1> DEFINE k == Len(to_client)
<1>2. /\ 1 \in DOMAIN to_client /\ to_client[1] = Head(to_client)
      /\ Len(to_client') = k - 1 /\ k \in Nat /\ k > 0
      /\ \A i \in DOMAIN to_client' :
           i + 1 \in DOMAIN to_client /\ to_client'[i] = to_client[i + 1]
      /\ \A i \in DOMAIN to_client :
           i = 1 \/ (i - 1 \in DOMAIN to_client' /\ i - 1 + 1 = i)
      /\ DOMAIN to_client' = 1..k - 1
  BY <1>1, TailOf
<1>3. \A i \in 0..k - 1 :
        Known(project_name', to_client')[i] = Known(project_name, to_client)[i + 1]
  BY <1>1, KnownDispatched
<1> HIDE DEF k
<1>4. KnownAtEnd' = KnownAtEnd
  <2>1. k - 1 \in 0..k - 1 /\ k - 1 + 1 = k
    BY <1>2
  <2> QED BY <1>2, <1>3, <2>1 DEF KnownAtEnd, k
<1>5. ASSUME NEW i \in DOMAIN to_client'
      PROVE  KnownBefore(i)' = KnownBefore(i + 1)
  <2>1. i - 1 \in 0..k - 1 /\ i - 1 + 1 = i /\ i + 1 - 1 = i
    BY <1>2
  <2>2. Known(project_name', to_client')[i - 1] = Known(project_name, to_client)[i]
    BY <1>3, <2>1
  <2> QED BY <2>1, <2>2 DEF KnownBefore
<1>6. KnownBefore(1) = project_name
  BY <1>2, KnownFirst DEF KnownBefore, k
<1> QED BY <1>2, <1>4, <1>5, <1>6

(* The name changes with the next message, unless the client has lost      *)
(* track of it.                                                            *)
LEMMA FollowsName ==
  ASSUME LibraryInv, Dispatch, ~misnamed
  PROVE  project_name' = Called(project_name, Head(to_client))
<1> DEFINE m == Head(to_client)
<1>1. /\ phase = "running" /\ to_client # <<>> /\ m \in ToClient
  BY DispatchCases DEF LibraryInv, Dispatched
<1>2. m = to_client[1] /\ 1 \in DOMAIN to_client
  BY <1>1, TailOf DEF LibraryInv, TypeOK, BusTypeOK
<1>3. m.type # "Reply"
  BY <1>1, <1>2 DEF LibraryInv, ConnectInv
<1> HIDE DEF m
<1>4. CASE m.type \in {"Save", "Load", "Quit"}
  <2>1. UNCHANGED project_name
    BY <1>4, DispatchCases DEF LibraryInv, HandleQuit, m
  <2> QED BY <1>1, <1>4, <2>1, CalledAfter DEF m
<1>5. CASE m.type \notin {"Save", "Load", "Quit"}
  <2>1. project_name' = Follow(project_name, m)
    BY <1>5, DispatchCases DEF LibraryInv, IsRequest, m
  <2> QED BY <1>1, <1>3, <2>1, CalledAfter DEF m
<1> QED BY <1>4, <1>5

------------------------------------------------------------------------------
(* The client knows its project's name *)

LEMMA NamesSignalled ==
  ASSUME SessionInv,
         \/ SaveRequested \/ CloseRequested \/ SignalOther \/ ChangeProject
         \/ \E n \in Name : Rename(n) \/ RenameOther(n)
  PROVE  NameInv' /\ SameTaskInv'
<1>0. /\ LibraryInv /\ TypeOK /\ TaskInv /\ ConnectInv /\ NameInv /\ SameTaskInv
      /\ NoName \notin Name
  BY NamesOK DEF SessionInv, LibraryInv
<1>1. /\ DaemonSignals /\ UNCHANGED <<project_name, told, pending_task>>
      /\ lost \subseteq lost'
  BY <1>0, Signals DEF DaemonSignals, library
<1>2. /\ task_iter \in Nat /\ client_task <= task_iter /\ project \in Name \cup {NoName}
      /\ other \in Name /\ misnamed \in BOOLEAN /\ client_task \in Nat
  BY <1>0 DEF TypeOK, DaemonTypeOK, HistoryTypeOK
<1>3. ASSUME NEW i \in DOMAIN to_client, IsRequest(to_client[i])
      PROVE  to_client[i].task \in Task /\ to_client[i].task <= task_iter
             /\ to_client[i].task # 0
  <2>1. to_client[i] \in ToClient
    BY <1>0, ElementOfSeq DEF TypeOK, BusTypeOK
  <2>2. to_client[i].task \in Task
    BY <1>3, <2>1, MessageFields
  <2> QED BY <1>0, <1>3, <2>2 DEF TaskInv, Task
<1> DEFINE Quits == closed => \/ told \/ 0 \in lost
                              \/ \E i \in DOMAIN to_client :
                                   to_client[i].type = "Quit" /\ KnownBefore(i) = to_client[i].name
           OtherQuits == ~closed => \A i \in DOMAIN to_client : to_client[i].type = "Quit" =>
                           KnownBefore(i) \notin {NoName, to_client[i].name}
<1>4. ~misnamed => Quits /\ OtherQuits /\ (told => closed)
  BY <1>0 DEF NameInv
<1>5. ~misnamed /\ Member => project = KnownAtEnd /\ project # other
  BY <1>0 DEF NameInv, KnownAtEnd
<1>6. ASSUME NEW m \in ToClient, Broadcast(m), ~misnamed, UNCHANGED closed,
             m.type = "Quit" /\ Heard(m) /\ ~closed => KnownAtEnd \notin {NoName, m.name}
      PROVE  Quits' /\ OtherQuits' /\ (told' => closed')
  <2>1. /\ \A i \in DOMAIN to_client :
             /\ i \in DOMAIN to_client' /\ to_client'[i] = to_client[i]
             /\ KnownBefore(i)' = KnownBefore(i)
        /\ ~Heard(m) => to_client' = to_client
        /\ Heard(m) => \E e \in DOMAIN to_client' :
             /\ to_client'[e] = m /\ KnownBefore(e)' = KnownAtEnd
             /\ \A i \in DOMAIN to_client' : i \in DOMAIN to_client \/ i = e
    BY <1>0, <1>1, <1>6, BroadcastKnown
  <2>2. Quits'
    BY <1>1, <1>4, <1>6, <2>1
  <2>3. OtherQuits'
    BY <1>1, <1>4, <1>6, <2>1
  <2> QED BY <1>1, <1>4, <1>6, <2>2, <2>3
<1>7. ASSUME NEW m \in ToClient, Broadcast(m), IsSignal(m), ~misnamed, Member,
             UNCHANGED client_task,
             m.type = "Save" => m.task = task_iter + 1 /\ KnownAtEnd # m.name
      PROVE  SameTaskInv'
  <2>1. /\ \A i \in DOMAIN to_client :
             /\ i \in DOMAIN to_client' /\ to_client'[i] = to_client[i]
             /\ KnownBefore(i)' = KnownBefore(i)
        /\ ~Heard(m) => to_client' = to_client
        /\ Heard(m) => \E e \in DOMAIN to_client' :
             /\ to_client'[e] = m /\ KnownBefore(e)' = KnownAtEnd
             /\ \A i \in DOMAIN to_client' : i \in DOMAIN to_client \/ i = e
    BY <1>0, <1>1, <1>7, BroadcastKnown
  <2>2. m.type # "Load" /\ (m.type = "Save" => m.task # client_task)
    BY <1>2, <1>7 DEF IsSignal
  <2> QED BY <1>0, <1>1, <1>7, <2>1, <2>2 DEF SameTaskInv
<1> HIDE DEF Quits, OtherQuits
<1>8. Quits' /\ OtherQuits' /\ (told' => closed')
        /\ (Member' => project' = KnownAtEnd' /\ project' # other') => NameInv'
  BY DEF NameInv, Quits, OtherQuits, KnownAtEnd
<1>9. misnamed' => NameInv' /\ SameTaskInv'
  BY DEF NameInv, SameTaskInv
<1>10. CASE SaveRequested
  <2> DEFINE m == Save(project, task_iter')
  <2>1. /\ Member /\ client_task = 0 /\ task_iter' = task_iter + 1 /\ Broadcast(m)
        /\ client_task' = task_iter' /\ task_iter < MaxTask
        /\ UNCHANGED <<project, other, closed, misnamed>>
    BY <1>10 DEF SaveRequested, CanSave, ProjectSave
  <2>2. m \in ToClient
    BY <1>2, <2>1, BoundsOK, MessagesToClient DEF Member, Task
  <2>3. m.type = "Save" /\ m.name = project /\ m.task = task_iter'
    BY DEF Save
  <2> HIDE DEF m
  <2>4. ASSUME ~misnamed
        PROVE  /\ \A i \in DOMAIN to_client :
                    /\ i \in DOMAIN to_client' /\ to_client'[i] = to_client[i]
                    /\ KnownBefore(i)' = KnownBefore(i)
               /\ KnownAtEnd' = KnownAtEnd
               /\ ~Heard(m) => to_client' = to_client
               /\ Heard(m) => \E e \in DOMAIN to_client' :
                    /\ to_client'[e] = m /\ KnownBefore(e)' = KnownAtEnd
                    /\ \A i \in DOMAIN to_client' : i \in DOMAIN to_client \/ i = e
    BY <1>0, <1>1, <2>1, <2>2, <2>3, BroadcastKnown, CalledAfter
  <2>5. ASSUME ~misnamed PROVE NameInv'
    BY <1>5, <1>6, <1>8, <2>1, <2>2, <2>3, <2>4, <2>5 DEF Member
  <2>6. ASSUME ~misnamed PROVE SameTaskInv'
    <3>1. /\ pending_task' = 0
          /\ \A i \in DOMAIN to_client : ~(to_client[i].type = "Load")
          /\ \A i \in DOMAIN to_client :
               ~(to_client[i].type = "Save" /\ KnownBefore(i) = to_client[i].name)
      BY <1>0, <1>1, <1>3, <2>1, <2>6 DEF SameTaskInv, IsRequest
    <3>2. \A i \in DOMAIN to_client : to_client[i].type = "Save" =>
                                        to_client[i].task # task_iter'
      BY <1>2, <1>3, <2>1 DEF IsRequest
    <3>3. KnownAtEnd = m.name
      BY <1>5, <2>1, <2>3, <2>6
    <3> QED BY <2>1, <2>3, <2>4, <2>6, <3>1, <3>2, <3>3 DEF SameTaskInv
  <2> QED BY <1>9, <2>1, <2>5, <2>6
<1>11. CASE CloseRequested
  <2> DEFINE m == Quit(project)
  <2>1. /\ Member /\ project' = NoName /\ closed' = TRUE /\ Broadcast(m)
        /\ lost' = IF Heard(m) THEN lost ELSE lost \cup {0}
        /\ UNCHANGED misnamed
    BY <1>11 DEF CloseRequested, ProjectClose, Missed
  <2>2. m \in ToClient
    BY <1>2, <2>1, MessagesToClient DEF Member
  <2>3. m.type = "Quit" /\ m.name = project
    BY DEF Quit
  <2> HIDE DEF m
  <2>4. ~Member' /\ SameTaskInv'
    BY <2>1 DEF Member, SameTaskInv
  <2>5. ASSUME ~misnamed PROVE Quits'
    <3>1. Heard(m) => \E e \in DOMAIN to_client' :
            to_client'[e] = m /\ KnownBefore(e)' = KnownAtEnd
      BY <1>0, <1>1, <2>1, <2>2, BroadcastKnown
    <3>2. KnownAtEnd = m.name
      BY <1>5, <2>1, <2>3, <2>5
    <3> QED BY <2>1, <2>3, <3>1, <3>2 DEF Quits
  <2>6. ~misnamed => OtherQuits' /\ (told' => closed')
    BY <2>1 DEF OtherQuits
  <2> QED BY <1>8, <1>9, <2>1, <2>4, <2>5, <2>6
<1>12. CASE SignalOther
  <2>1. PICK m \in {Save(other, task_iter'), Quit(other)} :
          /\ Broadcast(m)
          /\ m = Quit(other) \/ (task_iter < MaxTask /\ task_iter' = task_iter + 1)
    BY <1>12 DEF SignalOther
  <2>2. m \in ToClient
    BY <1>2, <2>1, MessagesToClient, BoundsOK DEF Task
  <2>3. /\ m.type \in {"Save", "Quit"} /\ m.name = other
        /\ m.type = "Save" => m.task = task_iter'
        /\ m = Quit(other) => m.type = "Quit"
    BY <2>1 DEF Save, Quit
  <2>4. UNCHANGED <<project, other, client_task, closed, misnamed>>
    BY <1>12 DEF SignalOther, history
  <2>5. KnownAtEnd' = KnownAtEnd
    BY <1>0, <1>1, <2>1, <2>2, <2>3, BroadcastKnown, CalledAfter
  <2>6. ASSUME ~misnamed, Heard(m), ~closed PROVE KnownAtEnd \notin {NoName, m.name}
    <3>1. matched # {}
      BY <2>6 DEF Heard
    <3>2. phase \in {"matching", "running"}
      BY <1>0, <3>1 DEF ConnectInv, TypeOK, LibraryTypeOK
    <3>3. Member
      BY <1>0, <2>6, <3>2 DEF ConnectInv
    <3> QED BY <1>5, <2>3, <2>6, <3>3 DEF Member
  <2>7. ~misnamed => NameInv'
    BY <1>5, <1>6, <1>8, <2>1, <2>2, <2>4, <2>5, <2>6 DEF Member
  <2>8. ASSUME ~misnamed, Member PROVE SameTaskInv'
    <3>1. m.type = "Save" => m.task = task_iter + 1 /\ KnownAtEnd # m.name
      BY <1>5, <2>1, <2>3, <2>8
    <3> QED BY <1>7, <2>1, <2>2, <2>3, <2>4, <2>8, <3>1 DEF IsSignal
  <2>9. ~Member => SameTaskInv'
    BY <2>4 DEF SameTaskInv, Member
  <2> QED BY <1>9, <2>4, <2>7, <2>8, <2>9
<1>13. CASE ChangeProject
  <2> DEFINE m == ProjectChanged(project, Text)
  <2>1. /\ Member /\ Broadcast(m) /\ misnamed' = (misnamed \/ Heard(m))
        /\ UNCHANGED <<project, other, client_task, closed>>
    BY <1>13 DEF ChangeProject
  <2>2. m \in ToClient
    BY <1>2, <2>1, MessagesToClient DEF Member
  <2>3. m.type = "ProjectPathChanged"
    BY DEF ProjectChanged
  <2> HIDE DEF m
  <2>4. ASSUME ~misnamed' PROVE NameInv' /\ SameTaskInv'
    <3>1. ~misnamed /\ ~Heard(m)
      BY <2>1, <2>4
    <3>2. KnownAtEnd' = KnownAtEnd
      BY <1>0, <1>1, <2>1, <2>2, <3>1, BroadcastKnown
    <3>3. NameInv'
      BY <1>5, <1>6, <1>8, <2>1, <2>2, <2>3, <3>1, <3>2 DEF Member
    <3> QED BY <1>7, <2>1, <2>2, <2>3, <3>1, <3>3 DEF IsSignal
  <2> QED BY <1>9, <2>4
<1>14. ASSUME NEW n \in Name, Rename(n) PROVE NameInv' /\ SameTaskInv'
  <2> DEFINE m == NameChanged(project, n)
  <2>1. /\ Member /\ project' = n /\ Broadcast(m)
        /\ misnamed' = (misnamed \/ ~Heard(m) \/ n = other)
        /\ UNCHANGED <<other, client_task, closed>>
    BY <1>14 DEF Rename
  <2>2. m \in ToClient
    BY <1>2, <2>1, MessagesToClient DEF Member
  <2>3. m.type = "ProjectNameChanged"
    BY DEF NameChanged
  <2>4. Called(KnownAtEnd, m) = IF KnownAtEnd = project THEN n ELSE KnownAtEnd
    BY CalledAnew
  <2> HIDE DEF m
  <2>5. ASSUME ~misnamed' PROVE NameInv' /\ SameTaskInv'
    <3>1. ~misnamed /\ Heard(m) /\ n # other
      BY <2>1, <2>5
    <3>2. KnownAtEnd' = n
      BY <1>0, <1>1, <1>5, <2>1, <2>2, <2>4, <3>1, BroadcastKnown
    <3>3. NameInv'
      BY <1>5, <1>6, <1>8, <2>1, <2>2, <2>3, <3>1, <3>2
    <3> QED BY <1>7, <2>1, <2>2, <2>3, <3>1, <3>3 DEF IsSignal
  <2> QED BY <1>9, <2>5
<1>15. ASSUME NEW n \in Name, RenameOther(n) PROVE NameInv' /\ SameTaskInv'
  <2> DEFINE m == NameChanged(other, n)
  <2>1. /\ other' = n /\ Broadcast(m) /\ misnamed' = (misnamed \/ n = project)
        /\ UNCHANGED <<project, client_task, closed>>
    BY <1>15 DEF RenameOther
  <2>2. m \in ToClient
    BY <1>2, MessagesToClient
  <2>3. m.type = "ProjectNameChanged"
    BY DEF NameChanged
  <2>4. Called(KnownAtEnd, m) = IF KnownAtEnd = other THEN n ELSE KnownAtEnd
    BY CalledAnew
  <2> HIDE DEF m
  <2>5. ASSUME ~misnamed' PROVE NameInv' /\ SameTaskInv'
    <3>1. ~misnamed /\ n # project
      BY <2>1, <2>5
    <3>2. Member => KnownAtEnd' = KnownAtEnd
      BY <1>0, <1>1, <1>5, <2>1, <2>2, <2>4, <3>1, BroadcastKnown
    <3>3. NameInv'
      BY <1>5, <1>6, <1>8, <2>1, <2>2, <2>3, <3>1, <3>2 DEF Member
    <3>4. Member => SameTaskInv'
      BY <1>7, <2>1, <2>2, <2>3, <3>1 DEF IsSignal
    <3>5. ~Member => SameTaskInv'
      BY <2>1 DEF SameTaskInv, Member
    <3> QED BY <3>3, <3>4, <3>5
  <2> QED BY <1>9, <2>5
<1> QED BY <1>10, <1>11, <1>12, <1>13, <1>14, <1>15

(* The daemon's reply to Connect has the name.                             *)
LEMMA ReplyNames ==
  ASSUME NEW n \in Name, NEW q, NEW s \in Seq(ToClient),
         s = <<Reply(n)>> \/ \E t \in Task : s = <<Load(t), Reply(n)>>
  PROVE  /\ Known(q, s)[Len(s)] = n
         /\ \A i \in DOMAIN s : s[i].type \in {"Load", "Reply"}
<1>1. Called(q, Reply(n)) = n
  BY DEF Called, Reply
<1> DEFINE r == Reply(n)
<1>2. r \in ToClient /\ r.type = "Reply" /\ r.name = n
  BY MessagesToClient DEF Reply
<1>3. \A x : Called(x, r) = n
  BY <1>2, CalledAfter
<1> HIDE DEF r
<1>4. CASE s = <<r>>
  <2>1. Len(s) = 1 /\ DOMAIN s = 1..1 /\ s[1] = r
    BY <1>4
  <2>2. Known(q, s)[1] = n
    BY <1>3, <2>1, KnownFirst
  <2> QED BY <1>2, <2>1, <2>2
<1>5. ASSUME NEW t \in Task, s = <<Load(t), r>>
      PROVE  /\ Known(q, s)[Len(s)] = n
             /\ \A i \in DOMAIN s : s[i].type \in {"Load", "Reply"}
  <2> DEFINE y == Load(t)
  <2>1. y.type = "Load"
    BY DEF Load
  <2>2. s = <<y, r>>
    BY <1>5
  <2> HIDE DEF y
  <2>3. Len(s) = 2 /\ DOMAIN s = 1..2 /\ s[1] = y /\ s[2] = r
    BY <2>2
  <2>4. Known(q, s)[2] = n
    <3>1. Len(s) \in Nat /\ 2 \in 1..Len(s)
      BY <2>3
    <3>2. Known(q, s)[2] = Called(Known(q, s)[2 - 1], s[2])
      BY <3>1, KnownFirst
    <3> QED BY <1>3, <2>3, <3>2
  <2> QED BY <1>2, <2>1, <2>3, <2>4
<1> QED BY <1>4, <1>5 DEF r

LEMMA NamesConnected ==
  ASSUME SessionInv, LibraryInv', HandleConnect
  PROVE  NameInv' /\ SameTaskInv'
<1>0. /\ TypeOK /\ TypeOK' /\ ConnectInv /\ ConnectInv' /\ NameInv /\ NoName \notin Name
  BY NamesOK DEF SessionInv, LibraryInv
<1>1. /\ to_server # <<>> /\ Head(to_server) = Connect
      /\ UNCHANGED <<other, closed, phase, project_name, pending_task, misnamed, told, lost>>
  BY DEF HandleConnect, library, history
<1>2. to_server[1].type = "Connect" /\ 1 \in DOMAIN to_server
  BY <1>0, <1>1, TailOf DEF Connect, TypeOK, BusTypeOK
<1>3. SUFFICES ASSUME ~misnamed PROVE NameInv' /\ SameTaskInv'
  BY <1>1 DEF NameInv, SameTaskInv
<1>4. phase = "connecting" /\ ~closed /\ to_client = <<>> /\ pending_task = 0
  <2>1. phase # "closed" /\ project = NoName /\ ~closed
    BY <1>0, <1>2 DEF ConnectInv
  <2>2. phase \notin {"matching", "running"}
    BY <1>0, <1>3, <2>1 DEF ConnectInv, Member
  <2>3. phase = "connecting"
    BY <1>0, <2>1, <2>2 DEF TypeOK, LibraryTypeOK
  <2> QED BY <1>0, <1>2, <2>1, <2>3 DEF ConnectInv
<1>5. PICK n \in Name \ {other} :
        /\ project' = n
        /\ IF setup.restored
             THEN /\ task_iter < MaxTask
                  /\ task_iter' = task_iter + 1
                  /\ client_task' = task_iter'
                  /\ to_client' = to_client \o <<Load(task_iter'), Reply(n)>>
             ELSE /\ to_client' = Append(to_client, Reply(n))
                  /\ UNCHANGED <<task_iter, client_task>>
  BY DEF HandleConnect
<1>6. /\ to_client' \in Seq(ToClient) /\ to_client' # <<>>
  <2>1. to_client \in Seq(ToClient) /\ to_client' \in Seq(ToClient)
    BY <1>0 DEF TypeOK, BusTypeOK
  <2> DEFINE r == Reply(n)
  <2>2. r \in ToClient
    BY MessagesToClient
  <2>3. CASE setup.restored
    <3>1. PICK t \in Task : t = task_iter'
      BY <1>0, <1>5, <2>3, BoundsOK DEF TypeOK, DaemonTypeOK, Task
    <3> DEFINE y == Load(t)
    <3>2. y \in ToClient /\ to_client' = to_client \o <<y, r>>
      BY <1>5, <2>3, <3>1, MessagesToClient
    <3> HIDE DEF y, r
    <3>3. Len(to_client') = Len(to_client) + 2 /\ Len(to_client) \in Nat
      BY <2>1, <2>2, <3>2, SentTwo
    <3> QED BY <2>1, <3>3
  <2>4. CASE ~setup.restored
    <3>1. to_client' = Append(to_client, r)
      BY <1>5, <2>4
    <3> HIDE DEF r
    <3>2. Len(to_client') = Len(to_client) + 1 /\ Len(to_client) \in Nat
      BY <2>1, <2>2, <3>1
    <3> QED BY <2>1, <3>2
  <2> QED BY <2>3, <2>4
<1>7. PICK k \in Name : /\ Member' /\ ~misnamed' => k = project'
                        /\ \/ to_client' = <<Reply(k)>>
                           \/ \E t \in Task : to_client' = <<Load(t), Reply(k)>>
  BY <1>0, <1>1, <1>4, <1>6 DEF ConnectInv
<1>8. Member' /\ k = n
  BY <1>0, <1>1, <1>3, <1>5, <1>7 DEF Member
<1>9. /\ Known(project_name', to_client')[Len(to_client')] = n
      /\ \A i \in DOMAIN to_client' : to_client'[i].type \in {"Load", "Reply"}
  BY <1>6, <1>7, <1>8, ReplyNames
<1>10. NameInv'
  BY <1>0, <1>1, <1>3, <1>4, <1>5, <1>9 DEF NameInv
<1>11. \A i \in DOMAIN to_client' : to_client'[i].type = "Load" =>
         to_client'[i].task = client_task'
  <2> DEFINE r == Reply(n)
  <2>1. r \in ToClient /\ r.type = "Reply"
    BY MessagesToClient DEF Reply
  <2>2. CASE setup.restored
    <3>1. PICK t \in Task : t = task_iter' /\ t = client_task'
      BY <1>0, <1>5, <2>2, BoundsOK DEF TypeOK, DaemonTypeOK, Task
    <3> DEFINE y == Load(t)
    <3>2. y \in ToClient /\ to_client' = to_client \o <<y, r>> /\ y.task = t
      BY <1>5, <2>2, <3>1, MessagesToClient DEF Load
    <3>3. <<>> \in Seq(ToClient) /\ Len(<<>>) = 0
      BY EmptySeq
    <3> HIDE DEF y, r
    <3>4. Len(to_client') = 2 /\ to_client'[1] = y /\ to_client'[2] = r
      BY <1>4, <2>1, <3>2, <3>3, SentTwo
    <3>5. \A i \in DOMAIN to_client' : i = 1 \/ i = 2
      BY <1>6, <3>4
    <3> QED BY <2>1, <3>1, <3>2, <3>4, <3>5
  <2>3. CASE ~setup.restored
    <3>1. to_client' = Append(<<>>, r)
      BY <1>4, <1>5, <2>3
    <3> HIDE DEF r
    <3>2. \A i \in DOMAIN to_client' : to_client'[i] = r
      BY <1>6, <2>1, <3>1
    <3> QED BY <2>1, <3>2
  <2> QED BY <2>2, <2>3
<1>12. SameTaskInv'
  BY <1>1, <1>4, <1>9, <1>11 DEF SameTaskInv
<1> QED BY <1>10, <1>12

LEMMA NamesReplied ==
  ASSUME SessionInv, ConnectReply
  PROVE  NameInv' /\ SameTaskInv'
<1>0. /\ TypeOK /\ ConnectInv /\ NameInv /\ SameTaskInv /\ to_client \in Seq(ToClient)
  BY DEF SessionInv, LibraryInv, TypeOK, BusTypeOK
<1>1. /\ phase = "connecting"
      /\ UNCHANGED <<project, other, closed, client_task, pending_task, misnamed, told, lost>>
  BY DEF ConnectReply, daemon, queue, history
<1>2. SUFFICES ASSUME ~misnamed PROVE NameInv' /\ SameTaskInv'
  BY <1>1 DEF NameInv, SameTaskInv
<1>3. PICK n \in Name :
        /\ project_name' = n /\ (Member /\ ~misnamed => n = project)
        /\ \/ to_client = <<Reply(n)>> /\ to_client' = <<>>
           \/ \E t \in Task : to_client = <<Load(t), Reply(n)>> /\ to_client' = <<Load(t)>>
  BY <1>0, ReplyTaken
<1>4. \A i \in DOMAIN to_client : to_client[i].type \in {"Load", "Reply"}
  BY <1>0, <1>3, ReplyNames
<1>5. \/ to_client' = <<>>
      \/ \E y \in ToClient : /\ y.type = "Load" /\ to_client' = <<y>>
                             /\ 1 \in DOMAIN to_client /\ to_client[1] = y
  <2>1. ASSUME NEW t \in Task, to_client = <<Load(t), Reply(n)>>, to_client' = <<Load(t)>>
        PROVE  \E y \in ToClient : /\ y.type = "Load" /\ to_client' = <<y>>
                                   /\ 1 \in DOMAIN to_client /\ to_client[1] = y
    <3> DEFINE y == Load(t)
               r == Reply(n)
    <3>1. y \in ToClient /\ y.type = "Load"
      BY MessagesToClient DEF Load
    <3>2. to_client = <<y, r>> /\ to_client' = <<y>>
      BY <2>1
    <3> HIDE DEF y, r
    <3> QED BY <3>1, <3>2
  <2> QED BY <1>3, <2>1
<1>6. /\ Known(project_name', to_client')[Len(to_client')] = n
      /\ \A i \in DOMAIN to_client' : /\ to_client'[i].type = "Load"
                                      /\ i \in DOMAIN to_client
                                      /\ to_client'[i] = to_client[i]
  <2>1. CASE to_client' = <<>>
    <3>1. Len(<<>>) = 0 /\ DOMAIN <<>> = {}
      OBVIOUS
    <3>2. Known(n, <<>>)[0] = n
      BY <3>1, KnownFirst
    <3> QED BY <1>3, <2>1, <3>1, <3>2
  <2>2. ASSUME NEW y \in ToClient, y.type = "Load", to_client' = <<y>>,
               1 \in DOMAIN to_client, to_client[1] = y
        PROVE  /\ Known(project_name', to_client')[Len(to_client')] = n
               /\ \A i \in DOMAIN to_client' : /\ to_client'[i].type = "Load"
                                               /\ i \in DOMAIN to_client
                                               /\ to_client'[i] = to_client[i]
    <3>1. Len(to_client') = 1 /\ DOMAIN to_client' = 1..1 /\ to_client'[1] = y
      BY <2>2
    <3>2. /\ Known(n, to_client')[0] = n
          /\ Known(n, to_client')[1] = Called(Known(n, to_client')[0], y)
      BY <3>1, KnownFirst
    <3>3. Called(n, y) = n
      BY <2>2, CalledAfter
    <3> QED BY <1>3, <2>2, <3>1, <3>2, <3>3
  <2> QED BY <1>5, <2>1, <2>2
<1>7. NameInv'
  BY <1>0, <1>1, <1>2, <1>3, <1>4, <1>6 DEF NameInv, Member
<1>8. SameTaskInv'
  BY <1>0, <1>1, <1>2, <1>6 DEF SameTaskInv, Member
<1> QED BY <1>7, <1>8

LEMMA NamesDispatched ==
  ASSUME SessionInv, Dispatch
  PROVE  NameInv' /\ SameTaskInv'
<1> DEFINE m == Head(to_client)
<1>0. LibraryInv /\ TypeOK /\ ConnectInv /\ NameInv /\ SameTaskInv
  BY DEF SessionInv, LibraryInv
<1>1. /\ Dispatched /\ UNCHANGED <<project, other, closed, client_task, misnamed>>
      /\ phase = "running"
  BY <1>0, DispatchCases DEF Dispatched, daemon
<1>2. SUFFICES ASSUME ~misnamed PROVE NameInv' /\ SameTaskInv'
  BY <1>1 DEF NameInv, SameTaskInv
<1>3. project_name' = Called(project_name, m)
  BY <1>0, <1>2, FollowsName
<1>4. /\ KnownAtEnd' = KnownAtEnd
      /\ \A i \in DOMAIN to_client' :
           /\ i + 1 \in DOMAIN to_client /\ to_client'[i] = to_client[i + 1]
           /\ KnownBefore(i)' = KnownBefore(i + 1)
      /\ \A i \in DOMAIN to_client :
           i = 1 \/ (i - 1 \in DOMAIN to_client' /\ i - 1 + 1 = i)
      /\ KnownBefore(1) = project_name
      /\ 1 \in DOMAIN to_client /\ to_client[1] = m
  BY <1>0, <1>1, <1>3, DispatchKnown DEF Dispatched
<1>5. lost \subseteq lost' /\ (m.type # "Quit" => UNCHANGED told)
  <2>1. \A t : TaskAnswered(t) \/ TaskStuck(t) => lost \subseteq lost'
    BY DEF TaskAnswered, TaskStuck
  <2>2. \A t, event : AddEvent(t, event) => lost \subseteq lost'
    BY DEF AddEvent
  <2>3. NoTask \/ HandleQuit(m) => lost \subseteq lost'
    BY DEF NoTask, HandleQuit
  <2> HIDE DEF m
  <2> QED BY <1>0, <2>1, <2>2, <2>3, DispatchCases DEF m
<1>6. m.type = "Quit" =>
        /\ told' = IF QuitConcerns(m) THEN TRUE ELSE told
        /\ UNCHANGED pending_task
  <2>1. m.type = "Quit" => HandleQuit(m)
    BY DEF Dispatch
  <2> QED BY <2>1 DEF HandleQuit
<1> HIDE DEF m
<1>7. NameInv'
  <2>1. told' => closed
    <3>1. CASE m.type # "Quit"
      BY <1>0, <1>2, <1>5, <3>1 DEF NameInv
    <3>2. CASE m.type = "Quit"
      BY <1>0, <1>2, <1>4, <1>6, <3>2 DEF NameInv, QuitConcerns
    <3> QED BY <3>1, <3>2
  <2>2. ASSUME closed
        PROVE  \/ told' \/ 0 \in lost'
               \/ \E i \in DOMAIN to_client' :
                    to_client'[i].type = "Quit" /\ KnownBefore(i)' = to_client'[i].name
    <3>1. CASE told \/ 0 \in lost
      <4>1. told => told'
        BY <1>5, <1>6
      <4> QED BY <1>5, <3>1, <4>1
    <3>2. ASSUME NEW i \in DOMAIN to_client, to_client[i].type = "Quit",
                 KnownBefore(i) = to_client[i].name
          PROVE  \/ told'
                 \/ \E j \in DOMAIN to_client' :
                      to_client'[j].type = "Quit" /\ KnownBefore(j)' = to_client'[j].name
      <4>1. CASE i = 1
        BY <1>4, <1>6, <3>2, <4>1 DEF QuitConcerns
      <4>2. CASE i # 1
        <5>1. i - 1 \in DOMAIN to_client' /\ i - 1 + 1 = i
          BY <1>4, <4>2
        <5>2. to_client'[i - 1] = to_client[i] /\ KnownBefore(i - 1)' = KnownBefore(i)
          BY <1>4, <5>1
        <5> QED BY <3>2, <5>1, <5>2
      <4> QED BY <4>1, <4>2
    <3> QED BY <1>0, <1>2, <2>2, <3>1, <3>2 DEF NameInv
  <2>3. ~closed => \A i \in DOMAIN to_client' : to_client'[i].type = "Quit" =>
                     KnownBefore(i)' \notin {NoName, to_client'[i].name}
    BY <1>0, <1>2, <1>4 DEF NameInv
  <2>4. Member => project = KnownAtEnd' /\ project # other
    BY <1>0, <1>2, <1>4 DEF NameInv, KnownAtEnd
  <2> QED BY <1>1, <2>1, <2>2, <2>3, <2>4 DEF NameInv, KnownAtEnd, Member
<1>8. ASSUME Member PROVE SameTaskInv'
  <2>1. pending_task' = pending_task
          \/ (IsRequest(m) /\ (m.type = "Save" => OwnProject(m)) /\ pending_task' = m.task)
    <3>1. \A t : TaskAnswered(t) => UNCHANGED pending_task
      BY DEF TaskAnswered
    <3>2. \A t, event : AddEvent(t, event) => pending_task' = t
      BY DEF AddEvent
    <3>3. \A t : TaskStuck(t) => pending_task' \in {pending_task, t}
      BY DEF TaskStuck
    <3>4. NoTask \/ HandleQuit(m) => UNCHANGED pending_task
      BY DEF NoTask, HandleQuit
    <3> QED BY <1>0, <3>1, <3>2, <3>3, <3>4, DispatchCases DEF m
  <2>2. pending_task' \in {0, client_task}
    BY <1>0, <1>2, <1>4, <1>8, <2>1 DEF SameTaskInv, IsRequest, OwnProject
  <2>3. /\ \A i \in DOMAIN to_client' :
             \/ to_client'[i].type = "Load"
             \/ to_client'[i].type = "Save" /\ KnownBefore(i)' = to_client'[i].name
             => to_client'[i].task = client_task
        /\ \A i \in DOMAIN to_client' :
             to_client'[i].type = "Save" /\ to_client'[i].task = client_task
             => KnownBefore(i)' = to_client'[i].name
    BY <1>0, <1>2, <1>4, <1>8 DEF SameTaskInv
  <2> QED BY <1>1, <2>2, <2>3 DEF SameTaskInv
<1>9. ~Member => SameTaskInv'
  BY <1>1 DEF SameTaskInv, Member
<1> QED BY <1>7, <1>8, <1>9

LEMMA NameStep ==
  ASSUME SessionInv, [Next]_vars
  PROVE  NameInv' /\ SameTaskInv'
<1>0. /\ LibraryInv /\ LibraryInv' /\ TypeOK /\ EventInv /\ TaskInv /\ ConnectInv
      /\ NameInv /\ SameTaskInv
  BY LibraryStep DEF SessionInv, LibraryInv
<1>1. ASSUME UNCHANGED <<project, other, closed, client_task, to_client, project_name,
                         told, misnamed>>,
             pending_task' \in {0, pending_task}, lost \subseteq lost'
      PROVE  NameInv' /\ SameTaskInv'
  <2>1. NameInv'
    BY <1>0, <1>1 DEF NameInv, KnownBefore, Member
  <2>2. SameTaskInv'
    BY <1>0, <1>1 DEF SameTaskInv, KnownBefore, Member
  <2> QED BY <2>1, <2>2
<1>2. CASE HandleRequest
  BY <1>1, <1>2 DEF HandleRequest, daemon, library, history
<1>3. CASE ClientOpen \/ AddMatch \/ GetEvent \/ SendConfig \/ Forget \/ UNCHANGED vars
  BY <1>1, <1>3 DEF ClientOpen, AddMatch, GetEvent, SendConfig, Forget, vars, daemon,
                    library, queue, history
<1>4. CASE Chatter \/ TaskDone
  BY <1>1, <1>4 DEF Chatter, TaskDone, daemon, library, history
<1>5. CASE ConnectTimeout
  BY <1>5 DEF ConnectTimeout, NameInv, SameTaskInv
<1>6. CASE HandleReport
  <2> DEFINE m == Head(to_server)
  <2>1. /\ to_server # <<>> /\ m.type \in {"Progress", "CommitDataSet"}
        /\ client_task' \in {0, client_task} /\ lost \subseteq lost'
        /\ client_task' # client_task => Expected(m) /\ IsFinal(m)
        /\ UNCHANGED <<project, other, closed, to_client, project_name, pending_task, told,
                       misnamed>>
    BY <1>6 DEF HandleReport, library, IsFinal
  <2>2. m = to_server[1] /\ 1 \in DOMAIN to_server /\ m \in ToServer
    BY <1>0, <2>1, TailOf DEF TypeOK, BusTypeOK
  <2>3. NameInv'
    BY <1>0, <2>1 DEF NameInv, KnownBefore, Member
  <2>4. CASE client_task' = client_task
    BY <1>0, <2>1, <2>3, <2>4 DEF SameTaskInv, KnownBefore, Member
  <2>5. ASSUME client_task' # client_task, ~misnamed, Member PROVE SameTaskInv'
    <3>1. IsFinal(m) /\ m.task = client_task /\ client_task' = 0
      BY <2>1, <2>5 DEF Expected
    <3>2. answers[client_task] = 1
      BY <1>0, <2>2, <3>1 DEF TaskInv
    <3>3. pending_task = 0
      BY <1>0, <2>5, <3>2 DEF SameTaskInv, TaskInv
    <3>4. ASSUME NEW i \in DOMAIN to_client, IsRequest(to_client[i])
          PROVE  to_client[i].task # client_task /\ to_client[i].task # 0
      <4>1. to_client[i].task \in Task
        BY <1>0, <3>4, MessageFields, ElementOfSeq DEF TypeOK, BusTypeOK
      <4> QED BY <1>0, <3>2, <3>4, <4>1 DEF TaskInv, Task
    <3>5. \A i \in DOMAIN to_client :
            /\ to_client[i].type # "Load"
            /\ ~(to_client[i].type = "Save" /\ KnownBefore(i) = to_client[i].name)
      BY <1>0, <2>5, <3>4 DEF SameTaskInv, IsRequest
    <3>6. \A i \in DOMAIN to_client : to_client[i].type = "Save" => to_client[i].task # 0
      BY <3>4 DEF IsRequest
    <3> QED BY <2>1, <3>1, <3>3, <3>5, <3>6 DEF SameTaskInv, KnownBefore
  <2>6. misnamed \/ ~Member => SameTaskInv'
    BY <2>1 DEF SameTaskInv, Member
  <2> QED BY <2>3, <2>4, <2>5, <2>6
<1> QED BY <1>0, <1>2, <1>3, <1>4, <1>5, <1>6, StepCases, NamesSignalled, NamesConnected,
           NamesReplied, NamesDispatched

------------------------------------------------------------------------------
(* The task that the daemon waits for is underway *)

(* The library has task t pending and the application has its event.       *)
InHand(t) ==
  /\ pending_task = t
  /\ \/ g_pending_event # "none"
     \/ \E i \in DOMAIN events_in : events_in[i] \in TaskEvent

Requested(t) == \E i \in DOMAIN to_client : IsRequest(to_client[i]) /\ to_client[i].task = t

AnswerOnItsWay(t) ==
  \E i \in DOMAIN to_server : IsFinal(to_server[i]) /\ to_server[i].task = t

Underway(t) == Requested(t) \/ InHand(t) \/ AnswerOnItsWay(t) \/ t \in lost \/ misnamed

LEMMA UnderwayMeans == AskedTaskIsUnderway <=> (client_task # 0 => Underway(client_task))
<1>1. \A t : Requested(t) <=> InTransit(to_client, t, {"Save", "Load"})
  BY DEF Requested, InTransit, IsRequest
<1>2. \A t : AnswerOnItsWay(t) <=> FinalInTransit(t)
  BY DEF AnswerOnItsWay, FinalInTransit, IsFinal
<1> QED BY <1>1, <1>2 DEF AskedTaskIsUnderway, Underway, InHand

LEMMA UnderwayMeansNext ==
  AskedTaskIsUnderway' <=> (client_task # 0 => Underway(client_task))'
BY UnderwayMeans, PTL

(* An answer stays on its way when the library sends more.                 *)
LEMMA AnswerKept ==
  ASSUME NEW x, Grown(to_server, to_server', x), NEW t, AnswerOnItsWay(t)
  PROVE  AnswerOnItsWay(t)'
<1>1. PICK i \in DOMAIN to_server : IsFinal(to_server[i]) /\ to_server[i].task = t
  BY DEF AnswerOnItsWay
<1>2. i \in DOMAIN to_server' /\ to_server'[i] = to_server[i]
  BY DEF Grown
<1> QED BY <1>1, <1>2 DEF AnswerOnItsWay, IsFinal

LEMMA AnswerKeptAfter ==
  ASSUME TypeOK, NEW x \in ToServer, Send(<<x>>), NEW t
  PROVE  /\ AnswerOnItsWay(t) => AnswerOnItsWay(t)'
         /\ IsFinal(x) /\ x.task = t => AnswerOnItsWay(t)'
<1>1. Grown(to_server, to_server', <<x>>)
  BY OneSent
<1>2. /\ Len(to_server) + 1 \in DOMAIN to_server'
      /\ to_server'[Len(to_server) + 1] = x
  BY SentOne DEF Send, TypeOK, BusTypeOK
<1> QED BY <1>1, <1>2, AnswerKept DEF AnswerOnItsWay, IsFinal

LEMMA UnderwayDispatched ==
  ASSUME SessionInv, Dispatch, ~misnamed, NEW t \in Task, t = client_task, Underway(t)
  PROVE  Underway(t)'
<1> DEFINE m == Head(to_client)
<1>0. LibraryInv /\ TypeOK /\ TaskInv /\ ConnectInv /\ SameTaskInv /\ t # 0
  BY DEF SessionInv, LibraryInv, Task
<1>1. /\ Dispatched /\ m \in ToClient /\ to_client # <<>>
      /\ to_client' = Tail(to_client)
  BY <1>0, DispatchCases DEF Dispatched
<1>2. /\ m = to_client[1] /\ 1 \in DOMAIN to_client
      /\ \A i \in DOMAIN to_client' : i + 1 \in DOMAIN to_client
                                      /\ to_client'[i] = to_client[i + 1]
      /\ \A i \in DOMAIN to_client :
           i = 1 \/ (i - 1 \in DOMAIN to_client' /\ i - 1 + 1 = i)
  BY <1>0, <1>1, TailOf DEF TypeOK, BusTypeOK
<1>3. lost \subseteq lost' /\ (AnswerOnItsWay(t) => AnswerOnItsWay(t)')
  <2>1. ASSUME NEW u \in Task, TaskAnswered(u)
        PROVE  lost \subseteq lost' /\ (AnswerOnItsWay(t) => AnswerOnItsWay(t)')
    BY <1>0, <2>1, AnswerSent, AnswerKept DEF TaskAnswered
  <2>2. UNCHANGED to_server => (AnswerOnItsWay(t) => AnswerOnItsWay(t)')
    BY DEF AnswerOnItsWay, IsFinal
  <2>3. Send(<<Request("Error")>>) => (AnswerOnItsWay(t) => AnswerOnItsWay(t)')
    BY <1>0, MessagesToServer, AnswerKeptAfter
  <2>4. ASSUME NEW u, TaskStuck(u)
        PROVE  lost \subseteq lost' /\ (AnswerOnItsWay(t) => AnswerOnItsWay(t)')
    BY <2>2, <2>3, <2>4 DEF TaskStuck
  <2>5. ASSUME NEW u, NEW event, AddEvent(u, event)
        PROVE  lost \subseteq lost' /\ (AnswerOnItsWay(t) => AnswerOnItsWay(t)')
    BY <2>2, <2>5 DEF AddEvent, NoAnswer
  <2>6. NoTask \/ HandleQuit(m) =>
          lost \subseteq lost' /\ (AnswerOnItsWay(t) => AnswerOnItsWay(t)')
    BY <2>2 DEF NoTask, HandleQuit, NoAnswer
  <2> HIDE DEF m
  <2> QED BY <1>0, <2>1, <2>3, <2>4, <2>5, <2>6, DispatchCases DEF m
<1>4. ASSUME IsRequest(m), m.task = t PROVE Underway(t)'
  <2>1. Member
    BY <1>0 DEF ConnectInv
  <2>2. pending_task = 0
    BY <1>0, <1>2, <1>4, <2>1 DEF TaskInv, SameTaskInv
  <2>3. m.type = "Save" => OwnProject(m)
    <3>1. KnownBefore(1) = project_name
      BY <1>0, <1>1, <1>2, KnownFirst DEF KnownBefore, TypeOK, BusTypeOK
    <3> QED BY <1>0, <1>2, <1>4, <2>1, <3>1 DEF SameTaskInv, OwnProject
  <2> HIDE DEF m
  <2>4. TaskAnswered(t) \/ (\E event \in TaskEvent : AddEvent(t, event)) \/ TaskStuck(t)
    BY <1>0, <1>4, <2>2, <2>3, DispatchCases DEF IsRequest, m
  <2>5. CASE TaskAnswered(t)
    <3>1. PICK f \in ToServer, x \in Seq(ToServer) :
            /\ IsFinal(f) /\ f.task = t
            /\ Grown(to_server, to_server', x)
            /\ x[Len(x)] = f /\ Len(x) \in DOMAIN x
      BY <1>0, <2>5, AnswerSent
    <3>2. /\ Len(to_server) + Len(x) \in DOMAIN to_server'
          /\ to_server'[Len(to_server) + Len(x)] = f
      BY <3>1 DEF Grown
    <3> QED BY <3>1, <3>2 DEF Underway, AnswerOnItsWay, IsFinal
  <2>6. ASSUME NEW event \in TaskEvent, AddEvent(t, event) PROVE Underway(t)'
    <3>1. pending_task' = t /\ events_in' = Append(events_in, event)
      BY <2>6 DEF AddEvent
    <3>2. events_in \in Seq(TaskEvent \cup {"Quit"})
      BY <1>0 DEF TypeOK, LibraryTypeOK
    <3>3. Len(events_in) + 1 \in DOMAIN events_in'
          /\ events_in'[Len(events_in) + 1] = event
      BY <3>1, <3>2, AppendProperties
    <3> QED BY <3>1, <3>3 DEF Underway, InHand
  <2>7. CASE TaskStuck(t)
    BY <2>7 DEF TaskStuck, Underway
  <2> QED BY <2>4, <2>5, <2>6, <2>7
<1>5. ASSUME Requested(t), ~(IsRequest(m) /\ m.task = t) PROVE Requested(t)'
  <2>1. PICK i \in DOMAIN to_client : IsRequest(to_client[i]) /\ to_client[i].task = t
    BY <1>5 DEF Requested
  <2>2. i # 1
    BY <1>2, <1>5, <2>1
  <2>3. i - 1 \in DOMAIN to_client' /\ to_client'[i - 1] = to_client[i]
    BY <1>2, <2>1, <2>2
  <2> QED BY <2>1, <2>3 DEF Requested, IsRequest
<1>6. ASSUME InHand(t) PROVE InHand(t)'
  <2>1. pending_task = t /\ pending_task # 0
    BY <1>0, <1>6 DEF InHand
  <2>2. CASE UNCHANGED <<pending_task, queue>>
    BY <1>6, <2>2 DEF InHand, queue
  <2>3. CASE HandleQuit(m)
    <3>1. /\ UNCHANGED <<pending_task, g_pending_event>>
          /\ events_in' \in {events_in, Append(events_in, "Quit")}
      BY <2>3 DEF HandleQuit
    <3>2. events_in \in Seq(TaskEvent \cup {"Quit"})
      BY <1>0 DEF TypeOK, LibraryTypeOK
    <3>3. \A i \in DOMAIN events_in : i \in DOMAIN events_in' /\ events_in'[i] = events_in[i]
      BY <3>1, <3>2, AppendProperties
    <3> QED BY <1>6, <3>1, <3>3 DEF InHand
  <2>4. NoTask => UNCHANGED <<pending_task, queue>>
    BY DEF NoTask
  <2> HIDE DEF m
  <2> QED BY <1>0, <2>1, <2>2, <2>3, <2>4, DispatchCases DEF m
<1> HIDE DEF m
<1> QED BY <1>3, <1>4, <1>5, <1>6 DEF Underway

LEMMA UnderwayStep ==
  ASSUME SessionInv, [Next]_vars
  PROVE  AskedTaskIsUnderway'
<1>0. /\ LibraryInv /\ LibraryInv' /\ TypeOK /\ TypeOK' /\ EventInv /\ ConnectInv
      /\ SameTaskInv
  BY LibraryStep DEF SessionInv, LibraryInv
<1>1. client_task # 0 => Underway(client_task)
  BY UnderwayMeans DEF SessionInv
<1>2. SUFFICES ASSUME client_task' # 0, ~misnamed'
               PROVE  Underway(client_task)'
  BY UnderwayMeansNext DEF Underway
<1>3. PICK t \in Task : t = client_task'
  BY <1>0, <1>2, BoundsOK DEF TypeOK, DaemonTypeOK, Task
<1>4. SUFFICES Underway(t)'
  BY <1>3 DEF Underway, Requested, InHand, AnswerOnItsWay
<1>5. \A i \in DOMAIN to_server : to_server[i] \in ToServer
  BY <1>0, ElementOfSeq DEF TypeOK, BusTypeOK
<1>6. t # 0
  BY DEF Task
(* The task was the client's before the step: four parts to preserve.      *)
<1>7. ASSUME t = client_task,
             Requested(t) => Requested(t)' \/ Underway(t)',
             InHand(t) => InHand(t)' \/ Underway(t)',
             AnswerOnItsWay(t) => AnswerOnItsWay(t)' \/ Underway(t)',
             lost \subseteq lost', misnamed => misnamed'
      PROVE  Underway(t)'
  BY <1>1, <1>2, <1>6, <1>7 DEF Underway
<1>8. UNCHANGED to_client => (Requested(t) => Requested(t)')
  BY DEF Requested, IsRequest
<1>9. UNCHANGED <<pending_task, g_pending_event, events_in>> => (InHand(t) => InHand(t)')
  BY DEF InHand
<1>10. UNCHANGED to_server => (AnswerOnItsWay(t) => AnswerOnItsWay(t)')
  BY DEF AnswerOnItsWay, IsFinal
<1>11. HandleRequest => (AnswerOnItsWay(t) => AnswerOnItsWay(t)')
  <2>1. SUFFICES ASSUME HandleRequest, NEW i \in DOMAIN to_server,
                        IsFinal(to_server[i]), to_server[i].task = t
                 PROVE  AnswerOnItsWay(t)'
    BY DEF AnswerOnItsWay
  <2>2. /\ i = 1 \/ (i - 1 \in DOMAIN to_server' /\ i - 1 + 1 = i)
        /\ \A j \in DOMAIN to_server' : to_server'[j] = to_server[j + 1]
    BY <1>0, <2>1, TailOf DEF HandleRequest, TypeOK, BusTypeOK
  <2>3. i # 1
    BY <1>0, <2>1, RequestTaken
  <2>4. to_server'[i - 1] = to_server[i] /\ i - 1 \in DOMAIN to_server'
    BY <2>2, <2>3
  <2> QED BY <2>1, <2>4 DEF AnswerOnItsWay, IsFinal
<1>12. CASE HandleConnect
  <2>1. /\ to_server # <<>> /\ Head(to_server) = Connect
    BY <1>12 DEF HandleConnect
  <2>2. to_server[1].type = "Connect" /\ 1 \in DOMAIN to_server
    BY <1>0, <2>1, TailOf DEF Connect, TypeOK, BusTypeOK
  <2>3. client_task = 0
    BY <1>0, <2>2 DEF ConnectInv, Member
  <2>4. PICK n \in Name :
          IF setup.restored
            THEN /\ client_task' = task_iter'
                 /\ to_client' = to_client \o <<Load(task_iter'), Reply(n)>>
            ELSE UNCHANGED client_task
    BY <1>12 DEF HandleConnect
  <2> DEFINE y == Load(t)
             r == Reply(n)
  <2>5. to_client' = to_client \o <<y, r>>
    BY <1>2, <1>3, <2>3, <2>4
  <2>6. y \in ToClient /\ r \in ToClient /\ IsRequest(y) /\ y.task = t
    BY MessagesToClient DEF Load, IsRequest
  <2> HIDE DEF y, r
  <2>7. /\ Len(to_client) \in Nat /\ Len(to_client') = Len(to_client) + 2
        /\ to_client'[Len(to_client) + 1] = y /\ to_client' \in Seq(ToClient)
    BY <1>0, <2>5, <2>6, SentTwo DEF TypeOK, BusTypeOK
  <2>8. Len(to_client) + 1 \in DOMAIN to_client'
    BY <2>7
  <2>9. Requested(t)'
    BY <2>6, <2>7, <2>8 DEF Requested, IsRequest
  <2> QED BY <2>9 DEF Underway
<1>13. ASSUME \/ SaveRequested \/ CloseRequested \/ SignalOther \/ ChangeProject
              \/ \E n \in Name : Rename(n) \/ RenameOther(n)
       PROVE  Underway(t)'
  <2>1. DaemonSignals
    BY <1>0, <1>13, Signals
  <2>2. /\ InHand(t) => InHand(t)'
        /\ AnswerOnItsWay(t) => AnswerOnItsWay(t)'
        /\ lost \subseteq lost'
    BY <1>9, <1>10, <2>1 DEF DaemonSignals, library, queue
  <2>3. Requested(t) => Requested(t)'
    <3>1. PICK m \in ToClient : Broadcast(m)
      BY <2>1 DEF DaemonSignals
    <3>2. UNCHANGED project_name
      BY <2>1 DEF DaemonSignals, library
    <3>3. \A i \in DOMAIN to_client : i \in DOMAIN to_client' /\ to_client'[i] = to_client[i]
      BY <1>0, <3>1, <3>2, BroadcastKnown
    <3> QED BY <3>3 DEF Requested, IsRequest
  <2>4. misnamed => misnamed'
    BY <1>0, <1>13, SignalProject DEF TypeOK, HistoryTypeOK
  <2>5. ASSUME t # client_task PROVE Underway(t)'
    <3>1. SaveRequested
      BY <1>2, <1>3, <1>13, <2>5 DEF CloseRequested, ProjectClose, SignalOther, ChangeProject,
                                     Rename, RenameOther
    <3> DEFINE m == Save(project, task_iter')
    <3>2. /\ task_iter' = t /\ Broadcast(m) /\ Member /\ UNCHANGED project_name
          /\ lost' = IF Heard(m) THEN lost ELSE lost \cup {task_iter'}
      BY <1>3, <3>1 DEF SaveRequested, CanSave, ProjectSave, Missed, library
    <3>3. m \in ToClient
      BY <1>0, <3>2, MessagesToClient DEF Member, TypeOK, DaemonTypeOK
    <3>4. IsRequest(m) /\ m.task = t
      BY <3>2 DEF Save, IsRequest
    <3> HIDE DEF m
    <3>5. CASE Heard(m)
      <4>1. \E e \in DOMAIN to_client' : to_client'[e] = m
        BY <1>0, <3>2, <3>3, <3>5, BroadcastKnown
      <4> QED BY <3>4, <4>1 DEF Underway, Requested, IsRequest
    <3>6. CASE ~Heard(m)
      BY <3>2, <3>6 DEF Underway
    <3> QED BY <3>5, <3>6
  <2> QED BY <1>7, <2>2, <2>3, <2>4, <2>5
<1>14. CASE HandleRequest
  BY <1>3, <1>7, <1>8, <1>9, <1>11, <1>14 DEF HandleRequest, daemon, library, queue, history
<1>15. CASE HandleReport
  <2> DEFINE m == Head(to_server)
             final == IF m.type = "Progress" THEN m.percentage \in {0, 255} ELSE m.configs
  <2>1. /\ to_server # <<>> /\ m.type \in {"Progress", "CommitDataSet"}
        /\ to_server' = Tail(to_server)
        /\ client_task' = IF Expected(m) /\ final THEN 0 ELSE client_task
        /\ lost' = IF m.type = "CommitDataSet" /\ Expected(m) /\ ~final
                     THEN lost \cup {m.task} ELSE lost
        /\ UNCHANGED <<project, to_client, library, misnamed>>
    BY <1>15 DEF HandleReport
  <2>2. /\ m = to_server[1] /\ m \in ToServer
        /\ \A j \in DOMAIN to_server' : to_server'[j] = to_server[j + 1]
        /\ \A i \in DOMAIN to_server :
             i = 1 \/ (i - 1 \in DOMAIN to_server' /\ i - 1 + 1 = i)
    BY <1>0, <2>1, TailOf DEF TypeOK, BusTypeOK
  <2>3. t = client_task /\ ~(Expected(m) /\ final) /\ lost \subseteq lost'
    BY <1>2, <1>3, <2>1
  <2>4. Member
    BY <1>0, <1>6, <2>3 DEF ConnectInv
  <2>5. ASSUME AnswerOnItsWay(t) PROVE AnswerOnItsWay(t)' \/ t \in lost'
    <3>1. PICK i \in DOMAIN to_server : IsFinal(to_server[i]) /\ to_server[i].task = t
      BY <2>5 DEF AnswerOnItsWay
    <3>2. CASE i = 1
      <4>1. Expected(m)
        BY <1>6, <2>2, <2>3, <2>4, <3>1, <3>2 DEF Expected
      <4>2. m.type = "CommitDataSet" /\ m.task = t
        BY <2>1, <2>2, <2>3, <3>1, <3>2, <4>1 DEF IsFinal
      <4> QED BY <2>1, <2>3, <4>1, <4>2
    <3>3. CASE i # 1
      <4>1. i - 1 \in DOMAIN to_server' /\ to_server'[i - 1] = to_server[i]
        BY <2>2, <3>3
      <4> QED BY <3>1, <4>1 DEF AnswerOnItsWay, IsFinal
    <3> QED BY <3>2, <3>3
  <2> HIDE DEF m, final
  <2>6. UNCHANGED <<to_client, pending_task, g_pending_event, events_in, misnamed>>
    BY <2>1 DEF library, queue
  <2>7. t \in lost' => Underway(t)'
    BY DEF Underway
  <2> QED BY <1>7, <1>8, <1>9, <2>3, <2>5, <2>6, <2>7
<1>16. ASSUME UNCHANGED client_task, misnamed => misnamed', lost \subseteq lost',
              AnswerOnItsWay(t) => AnswerOnItsWay(t)',
              UNCHANGED to_client, InHand(t) => InHand(t)' \/ Underway(t)'
       PROVE  Underway(t)'
  BY <1>3, <1>7, <1>8, <1>16
<1>17. CASE AddMatch \/ SendConfig \/ Forget \/ UNCHANGED vars
  <2>1. UNCHANGED <<client_task, misnamed, lost, to_server, to_client, pending_task,
                    g_pending_event, events_in>>
    BY <1>17 DEF AddMatch, SendConfig, Forget, vars, daemon, library, queue, history
  <2> QED BY <1>9, <1>10, <1>16, <2>1
<1>18. CASE ConnectTimeout
  BY <1>2, <1>18 DEF ConnectTimeout
<1>19. CASE ClientOpen
  <2>1. /\ UNCHANGED <<client_task, misnamed, lost, to_client, pending_task,
                       g_pending_event, events_in>>
        /\ Send(<<Connect>>)
    BY <1>19 DEF ClientOpen, daemon, queue, history
  <2>2. AnswerOnItsWay(t) => AnswerOnItsWay(t)'
    BY <1>0, <2>1, AnswerKeptAfter, MessagesToServer
  <2> QED BY <1>9, <1>16, <2>1, <2>2
<1>20. CASE Chatter
  <2>1. /\ UNCHANGED <<client_task, misnamed, lost, to_client, pending_task,
                       g_pending_event, events_in>>
    BY <1>20 DEF Chatter, daemon, library, queue, history
  <2>2. AnswerOnItsWay(t) => AnswerOnItsWay(t)'
    BY <1>0, <1>20, AnswerKeptAfter DEF Chatter
  <2> QED BY <1>9, <1>16, <2>1, <2>2
<1>21. CASE TaskDone
  <2>1. UNCHANGED <<client_task, misnamed, lost, to_client>>
    BY <1>21 DEF TaskDone, daemon
  <2>2. PICK f \in ToServer : IsFinal(f) /\ f.task = pending_task /\ Send(<<f>>)
    BY <1>21 DEF TaskDone
  <2>3. AnswerOnItsWay(t) => AnswerOnItsWay(t)'
    BY <1>0, <2>2, AnswerKeptAfter
  <2>4. InHand(t) => Underway(t)'
    BY <1>0, <2>2, AnswerKeptAfter DEF InHand, Underway
  <2> QED BY <1>16, <2>1, <2>3, <2>4
<1>22. CASE GetEvent
  <2> DEFINE event == Head(events_in)
  <2>1. /\ UNCHANGED <<client_task, misnamed, lost, to_client, to_server, pending_task>>
        /\ events_in # <<>> /\ events_in' = Tail(events_in) /\ g_pending_event = "none"
        /\ event \in TaskEvent => g_pending_event' = event
    BY <1>22 DEF GetEvent, daemon
  <2>2. /\ event = events_in[1]
        /\ \A j \in DOMAIN events_in' : events_in'[j] = events_in[j + 1]
        /\ \A i \in DOMAIN events_in :
             i = 1 \/ (i - 1 \in DOMAIN events_in' /\ i - 1 + 1 = i)
    BY <1>0, <2>1, TailOf DEF TypeOK, LibraryTypeOK
  <2>3. "none" \notin TaskEvent
    BY DEF TaskEvent, CallbackFor
  <2> HIDE DEF event
  <2>4. ASSUME InHand(t) PROVE InHand(t)'
    <3>1. PICK i \in DOMAIN events_in : events_in[i] \in TaskEvent
      BY <2>1, <2>4 DEF InHand
    <3>2. CASE i = 1
      BY <2>1, <2>2, <2>3, <2>4, <3>1, <3>2 DEF InHand
    <3>3. CASE i # 1
      <4>1. i - 1 \in DOMAIN events_in' /\ events_in'[i - 1] = events_in[i]
        BY <2>2, <3>3
      <4> QED BY <2>1, <2>4, <3>1, <4>1 DEF InHand
    <3> QED BY <3>2, <3>3
  <2> QED BY <1>10, <1>16, <2>1, <2>4
<1>23. CASE ConnectReply
  <2>1. UNCHANGED <<client_task, misnamed, lost, to_server, pending_task,
                    g_pending_event, events_in>>
    BY <1>23 DEF ConnectReply, daemon, queue, history
  <2>2. ASSUME Requested(t) PROVE Requested(t)'
    <3>1. PICK n \in Name :
            \/ to_client = <<Reply(n)>> /\ to_client' = <<>>
            \/ \E u \in Task : to_client = <<Load(u), Reply(n)>> /\ to_client' = <<Load(u)>>
      BY <1>0, <1>23, ReplyTaken
    <3>2. PICK i \in DOMAIN to_client : IsRequest(to_client[i]) /\ to_client[i].task = t
      BY <2>2 DEF Requested
    <3> DEFINE r == Reply(n)
    <3>3. ~IsRequest(r)
      BY DEF Reply, IsRequest
    <3>4. to_client # <<r>>
      <4> HIDE DEF r
      <4>1. to_client = <<r>> => to_client[i] = r
        OBVIOUS
      <4> QED BY <3>2, <3>3, <4>1
    <3>5. PICK u \in Task : to_client = <<Load(u), Reply(n)>> /\ to_client' = <<Load(u)>>
      BY <3>1, <3>4
    <3> DEFINE y == Load(u)
    <3>6. to_client = <<y, r>> /\ to_client' = <<y>>
      BY <3>5
    <3> HIDE DEF r, y
    <3>7. i = 1 /\ 1 \in DOMAIN to_client' /\ to_client'[1] = to_client[1]
      <4>1. i \in {1, 2} /\ to_client[2] = r
        BY <3>6
      <4>2. i = 1
        BY <3>2, <3>3, <4>1
      <4> QED BY <3>6, <4>2
    <3> QED BY <3>2, <3>7 DEF Requested, IsRequest
  <2> QED BY <1>3, <1>7, <1>9, <1>10, <2>1, <2>2
<1>24. CASE Dispatch
  <2>1. UNCHANGED <<client_task, misnamed>>
    BY <1>24 DEF Dispatch, daemon
  <2> QED BY <1>1, <1>2, <1>3, <1>6, <1>24, <2>1, UnderwayDispatched
<1> QED BY <1>0, <1>12, <1>13, <1>14, <1>15, <1>17, <1>18, <1>19, <1>20, <1>21, <1>22,
           <1>23, <1>24, StepCases

------------------------------------------------------------------------------

LEMMA SessionStep ==
  ASSUME SessionInv, [Next]_vars
  PROVE  SessionInv'
BY LibraryStep, NameStep, UnderwayStep DEF SessionInv

LEMMA Session == Spec => []SessionInv
<1>1. Init => SessionInv
  BY InitiallySound
<1>2. SessionInv /\ [Next]_vars => SessionInv'
  BY SessionStep
<1> QED BY <1>1, <1>2, PTL DEF Spec

(* A task that the daemon waits for is on its way to the client, in the    *)
(* library's and the application's hands, or answered: or one of the code's *)
(* ways to lose it was taken.                                              *)
THEOREM TaskIsUnderway == Spec => []AskedTaskIsUnderway
<1>1. SessionInv => AskedTaskIsUnderway
  BY DEF SessionInv
<1> QED BY <1>1, Session, PTL

(* The signals on their way lead the client to its project's name, through *)
(* any number of renames of either project, and it is told to quit when    *)
(* its own project was closed and only then.                               *)
THEOREM NameIsFollowed == Spec => []ClientKnowsItsProject
<1>1. SessionInv => ClientKnowsItsProject
  BY DEF SessionInv, NameInv, ClientKnowsItsProject
<1> QED BY <1>1, Session, PTL

=============================================================================
