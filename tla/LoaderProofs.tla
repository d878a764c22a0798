---------------------------- MODULE LoaderProofs ----------------------------
(***************************************************************************)
(* Theorems about Loader, for any number of clients, pids, processes and   *)
(* entries.                                                                *)
(***************************************************************************)
EXTENDS Loader, SequenceTheorems, TLAPS

---------------------------------------------------------------------------
(* The inductive invariant *)

\* A process that was born; its pid may have another owner by now.
Made(x) == x \in Process /\ x[2] <= process[x[1]].birth

BirthsAreCounted ==
  \A p \in Pid : /\ process[p].birth <= births
                 /\ process[p].state # "none" => process[p].birth >= 1

\* An entry has the pid of the process it was made for, or none.
EntryOK(e) ==
  /\ e.process # NoProcess => Made(e.process)
  /\ e.pid # NoPid => e.process # NoProcess /\ e.process[1] = e.pid
  /\ e.dead => Ended(e.process)

EntriesNameTheirProcess == \A i \in DOMAIN g_childs_list : EntryOK(g_childs_list[i])

\* loader_execute works on the last entry, which no handler can have marked.
ExecutionHasEntry ==
  /\ pc \in {"fork", "forked"} =>
       /\ executing.client \in Lost
       /\ g_childs_list # <<>> /\ g_childs_list[Last].pid = NoPid
  /\ pc = "forked" =>
       /\ executing.pid \in Pid
       /\ g_childs_list[Last].process # NoProcess
       /\ g_childs_list[Last].process[1] = executing.pid
  /\ pc \notin {"execute", "fork", "forked"} => todo = {}

ClientOK(r) ==
  /\ r.state = "running" => Made(r.process) /\ r.process[1] = r.pid
  /\ r.state = "lost" /\ r.pid # NoPid => Made(r.launched) /\ r.launched[1] = r.pid

ClientsNameTheirProcess == \A c \in Client : ClientOK(client[c])

NoticesAreOfEnded ==
  /\ \A x \in connects : Made(x)
  /\ \A x \in notices : Made(x) /\ Ended(x)

IInv ==
  /\ TypeOK /\ BirthsAreCounted /\ EntriesNameTheirProcess
  /\ ExecutionHasEntry /\ ClientsNameTheirProcess /\ NoticesAreOfEnded

---------------------------------------------------------------------------
(* Processes *)

ProcessEntry == [state : {"none", "running", "zombie"}, birth : 0..MaxProcesses,
                 forkedFor : Client \union {NoClient}, connected : BOOLEAN]

ClientRecord == [state : {"none", "lost", "running"}, pid : Pid \union {NoPid},
                 process : Process \union {NoProcess},
                 launched : Process \union {NoProcess}]

\* Births only go up, and what runs now was running or has just been born.
Aging ==
  \A p \in Pid :
    /\ process[p].birth <= process'[p].birth
    /\ process'[p].state = "running" /\ process'[p].birth = process[p].birth =>
         process[p].state = "running"

\* What has ended does not run again, though its pid does (fork).
LEMMA EndedStays ==
  ASSUME TypeOK, TypeOK', Aging, NEW x, Made(x)
  PROVE  Made(x)' /\ (Ended(x) => Ended(x)')
<1>1. /\ x[1] \in Pid /\ x[2] \in Nat
      /\ process[x[1]].birth \in Nat /\ process'[x[1]].birth \in Nat
  BY DEF Made, Process, TypeOK
<1> QED BY <1>1 DEF Made, Aging, Ended, Running

LEMMA UnchangedProcessIsAging ==
  ASSUME TypeOK, UNCHANGED process
  PROVE  Aging
  BY DEF Aging, TypeOK

LEMMA KeptEntry ==
  ASSUME TypeOK, TypeOK', Aging, NEW e, EntryOK(e)
  PROVE  EntryOK(e)'
<1>1. Ended(e.process) => e.process # NoProcess
  BY DEF Ended
<1>2. e.process # NoProcess => Made(e.process)' /\ (Ended(e.process) => Ended(e.process)')
  BY EndedStays DEF EntryOK
<1> QED BY <1>1, <1>2 DEF EntryOK

LEMMA KeptEntries ==
  ASSUME IInv, TypeOK', Aging,
         \A i \in DOMAIN g_childs_list' :
           \E j \in DOMAIN g_childs_list : g_childs_list'[i] = g_childs_list[j]
  PROVE  EntriesNameTheirProcess'
<1> SUFFICES ASSUME NEW i \in DOMAIN g_childs_list', NEW e, e = g_childs_list'[i]
             PROVE  EntryOK(e)'
  BY DEF EntriesNameTheirProcess
<1>1. EntryOK(e)
  BY DEF IInv, EntriesNameTheirProcess
<1> QED BY <1>1, KeptEntry DEF IInv

LEMMA KeptClient ==
  ASSUME TypeOK, TypeOK', Aging, NEW r, ClientOK(r)
  PROVE  ClientOK(r)'
<1>1. r.state = "running" => Made(r.process)'
  BY EndedStays DEF ClientOK
<1>2. r.state = "lost" /\ r.pid # NoPid => Made(r.launched)'
  BY EndedStays DEF ClientOK
<1> QED BY <1>1, <1>2 DEF ClientOK

LEMMA KeptClients ==
  ASSUME IInv, TypeOK', Aging, UNCHANGED client
  PROVE  ClientsNameTheirProcess'
<1> SUFFICES ASSUME NEW c \in Client, NEW r, r = client'[c] PROVE ClientOK(r)'
  BY DEF ClientsNameTheirProcess
<1>1. ClientOK(r)
  BY DEF IInv, ClientsNameTheirProcess
<1> QED BY <1>1, KeptClient DEF IInv

LEMMA KeptNotices ==
  ASSUME IInv, TypeOK', Aging, connects' \subseteq connects, notices' \subseteq notices
  PROVE  NoticesAreOfEnded'
  BY EndedStays DEF IInv, NoticesAreOfEnded
---------------------------------------------------------------------------
(* Lists *)

\* loader_childs_bury: list_del leaves the other entries in their order.
LEMMA WithoutType ==
  ASSUME NEW S, NEW list \in Seq(S), NEW i \in DOMAIN list
  PROVE  /\ Without(list, i) \in Seq(S)
         /\ Len(Without(list, i)) = Len(list) - 1
         /\ \A j \in DOMAIN Without(list, i) :
              \E k \in DOMAIN list : Without(list, i)[j] = list[k]
<1> DEFINE front == SubSeq(list, 1, i - 1)
           back == SubSeq(list, i + 1, Len(list))
<1>1. i \in 1..Len(list) /\ Len(list) \in Nat
  OBVIOUS
<1>2. /\ front \in Seq(S) /\ Len(front) = i - 1
      /\ \A j \in 1..(i - 1) : front[j] = list[j]
  BY <1>1, SubSeqProperties
<1>3. /\ back \in Seq(S) /\ Len(back) = Len(list) - i
      /\ \A j \in 1..(Len(list) - i) : back[j] = list[i + j]
  BY <1>1, SubSeqProperties
<1> HIDE DEF front, back
<1>4. front \o back \in Seq(S) /\ Len(front \o back) = Len(list) - 1
  <2>1. Len(front \o back) = (i - 1) + (Len(list) - i)
    BY <1>2, <1>3, ConcatProperties
  <2> QED BY <1>1, <1>2, <1>3, <2>1, ConcatProperties
<1>5. ASSUME NEW j \in DOMAIN (front \o back)
      PROVE  \E k \in DOMAIN list : (front \o back)[j] = list[k]
  <2>1. j \in 1..(Len(list) - 1)
    BY <1>1, <1>4
  <2>2. CASE j <= i - 1
    BY <1>1, <1>2, <1>3, <2>1, <2>2, ConcatProperties
  <2>3. CASE j > i - 1
    <3>1. (front \o back)[j] = back[j - (i - 1)]
      BY <1>1, <1>2, <1>3, <1>4, <2>1, <2>3, ConcatProperties
    <3>2. j - (i - 1) \in 1..(Len(list) - i) /\ i + (j - (i - 1)) \in DOMAIN list
      BY <1>1, <2>1, <2>3
    <3> QED BY <1>3, <3>1, <3>2
  <2> QED BY <1>1, <2>1, <2>2, <2>3
<1> QED BY <1>4, <1>5 DEF Without, front, back

---------------------------------------------------------------------------
(* The steps of processes *)

\* What a step of the kernel leaves alone keeps its invariants.
LEMMA KernelStep ==
  ASSUME IInv, TypeOK', BirthsAreCounted', Aging,
         UNCHANGED <<g_childs_list, mainVars, client>>
  PROVE  EntriesNameTheirProcess' /\ ExecutionHasEntry' /\ ClientsNameTheirProcess'
<1>1. EntriesNameTheirProcess'
  BY KeptEntries
<1>2. ClientsNameTheirProcess'
  BY KeptClients
<1>3. ExecutionHasEntry'
  BY DEF IInv, ExecutionHasEntry, mainVars, Last, Lost
<1> QED BY <1>1, <1>2, <1>3

LEMMA StartStep ==
  ASSUME IInv, NEW p \in Pid, Start(p)
  PROVE  IInv'
<1> USE LoaderAssumption
<1>1. TypeOK' /\ BirthsAreCounted' /\ Aging
  <2>1. process'[p] = [state |-> "running", birth |-> process[p].birth + 1,
                       forkedFor |-> NoClient, connected |-> FALSE]
    BY DEF Start, Born, IInv, TypeOK
  <2>2. \A q \in Pid \ {p} : process'[q] = process[q]
    BY DEF Start, Born, IInv, TypeOK
  <2>3. process[p].birth \in Nat /\ process[p].birth <= births /\ births \in Nat
          /\ births' = births + 1 /\ births' <= MaxProcesses
    BY DEF Start, Born, IInv, TypeOK, BirthsAreCounted
  <2>4. process' \in [Pid -> ProcessEntry]
    BY <2>1, <2>2, <2>3 DEF Start, Born, IInv, TypeOK, ProcessEntry
  <2>5. TypeOK'
    BY <2>3, <2>4 DEF Start, IInv, TypeOK, mainVars, busVars, Lost, ProcessEntry
  <2>6. BirthsAreCounted'
    BY <2>1, <2>2, <2>3 DEF BirthsAreCounted, IInv, TypeOK
  <2>7. Aging
    <3>1. \A q \in Pid : process[q].birth \in Nat
      BY DEF IInv, TypeOK, ProcessEntry
    <3>2. process[p].birth <= process'[p].birth /\ process'[p].birth # process[p].birth
      BY <2>1, <2>3
    <3>3. \A q \in Pid \ {p} : /\ process[q].birth <= process'[q].birth
                               /\ process'[q] = process[q]
      BY <2>2, <3>1
    <3> QED BY <3>2, <3>3 DEF Aging
  <2> QED BY <2>5, <2>6, <2>7
<1>2. EntriesNameTheirProcess' /\ ExecutionHasEntry' /\ ClientsNameTheirProcess'
  BY <1>1, KernelStep DEF Start
<1>3. NoticesAreOfEnded'
  BY <1>1, KeptNotices DEF Start, busVars
<1> QED BY <1>1, <1>2, <1>3 DEF IInv

LEMMA SendConnectStep ==
  ASSUME IInv, NEW p \in Pid, SendConnect(p)
  PROVE  IInv'
<1> USE LoaderAssumption
<1>1. Holder(p) \in Process /\ Made(Holder(p))
  BY DEF SendConnect, IInv, TypeOK, BirthsAreCounted, Holder, Process, Made
<1>2. TypeOK'
  <2>1. process' \in [Pid -> ProcessEntry]
    BY DEF SendConnect, IInv, TypeOK, ProcessEntry
  <2>2. connects' \subseteq Process
    BY <1>1 DEF SendConnect, IInv, TypeOK
  <2> QED BY <2>1, <2>2 DEF SendConnect, IInv, TypeOK, mainVars, Lost, ProcessEntry
<1>3. BirthsAreCounted' /\ Aging
  BY DEF SendConnect, IInv, TypeOK, BirthsAreCounted, Aging
<1>4. EntriesNameTheirProcess' /\ ExecutionHasEntry' /\ ClientsNameTheirProcess'
  BY <1>2, <1>3, KernelStep DEF SendConnect
<1>5. NoticesAreOfEnded'
  <2>1. \A x : Made(x) => Made(x)' /\ (Ended(x) => Ended(x)')
    BY <1>2, <1>3, EndedStays DEF IInv
  <2> QED BY <1>1, <2>1 DEF SendConnect, IInv, NoticesAreOfEnded
<1> QED BY <1>2, <1>3, <1>4, <1>5 DEF IInv

LEMMA GoneType ==
  ASSUME NEW r \in ProcessEntry
  PROVE  /\ Gone(r) \in ProcessEntry
         /\ Gone(r).state = "none" /\ Gone(r).birth = r.birth
         /\ [Gone(r) EXCEPT !.state = "zombie"] \in ProcessEntry
         /\ [Gone(r) EXCEPT !.state = "zombie"].state = "zombie"
         /\ [Gone(r) EXCEPT !.state = "zombie"].birth = r.birth
<1>1. Gone(r) \in ProcessEntry /\ Gone(r).state = "none" /\ Gone(r).birth = r.birth
  BY DEF ProcessEntry, Gone
<1>2. [Gone(r) EXCEPT !.state = "zombie"] \in ProcessEntry
  BY <1>1 DEF ProcessEntry
<1>3. /\ [Gone(r) EXCEPT !.state = "zombie"].state = "zombie"
      /\ [Gone(r) EXCEPT !.state = "zombie"].birth = r.birth
  BY <1>1 DEF ProcessEntry
<1> QED BY <1>1, <1>2, <1>3

LEMMA ExitStep ==
  ASSUME IInv, NEW p \in Pid, Exit(p)
  PROVE  IInv'
<1> USE LoaderAssumption
<1>1. Holder(p) \in Process /\ Made(Holder(p))
  BY DEF Exit, IInv, TypeOK, BirthsAreCounted, Holder, Process, Made
<1>2. /\ process'[p].state \in {"none", "zombie"} /\ process'[p].birth = process[p].birth
      /\ \A q \in Pid \ {p} : process'[q] = process[q]
      /\ process' \in [Pid -> ProcessEntry]
  <2> DEFINE child == process[p].forkedFor # NoClient
             gone == Gone(process[p])
             ended == IF child THEN [gone EXCEPT !.state = "zombie"] ELSE gone
  <2>1. process' = [process EXCEPT ![p] = ended]
    BY DEF Exit
  <2>2. process[p] \in ProcessEntry
    BY DEF IInv, TypeOK, ProcessEntry
  <2>3. /\ ended.state \in {"none", "zombie"} /\ ended.birth = process[p].birth
        /\ ended \in ProcessEntry
    BY <2>2, GoneType
  <2> HIDE DEF ended
  <2> QED BY <2>1, <2>3 DEF IInv, TypeOK, ProcessEntry
<1>3. TypeOK'
  BY <1>1, <1>2 DEF Exit, IInv, TypeOK, mainVars, Lost, ProcessEntry
<1>4. BirthsAreCounted' /\ Aging
  BY <1>2 DEF Exit, IInv, TypeOK, BirthsAreCounted, Aging
<1>5. EntriesNameTheirProcess' /\ ExecutionHasEntry' /\ ClientsNameTheirProcess'
  BY <1>3, <1>4, KernelStep DEF Exit
<1>6. NoticesAreOfEnded'
  <2>1. \A x : Made(x) => Made(x)' /\ (Ended(x) => Ended(x)')
    BY <1>3, <1>4, EndedStays DEF IInv
  <2>2. ASSUME NEW x, x = Holder(p)
        PROVE  Made(x)' /\ Ended(x)'
    <3>1. Made(x)'
      BY <1>1, <2>1, <2>2
    <3>2. x[1] = p /\ x \in Process
      BY <1>1, <2>2 DEF Holder
    <3>3. x # NoProcess
      BY <3>2 DEF Process, NoProcess
    <3> QED BY <1>2, <3>1, <3>2, <3>3 DEF Ended, Running
  <2> QED BY <2>1, <2>2 DEF Exit, IInv, NoticesAreOfEnded
<1> QED BY <1>3, <1>4, <1>5, <1>6 DEF IInv

---------------------------------------------------------------------------
(* The handler *)

\* A reaped process was a zombie, so the entry with its pid, whichever process
\* it was made for, is one whose process has ended.
LEMMA HandlerStep ==
  ASSUME IInv, SigchldHandler
  PROVE  IInv'
<1> USE LoaderAssumption
<1> DEFINE reaped == Reaped(Zombies)
           marked(i) == [g_childs_list[i] EXCEPT !.dead = @ \/ \E p \in reaped : Marks(i, p)]
<1>1. reaped \subseteq Pid /\ \A p \in reaped : process[p].state = "zombie"
  BY DEF Reaped, Zombies
<1>2. /\ process' \in [Pid -> ProcessEntry]
      /\ \A p \in Pid : /\ process'[p].birth = process[p].birth
                        /\ p \in reaped => process'[p].state = "none"
                        /\ p \notin reaped => process'[p] = process[p]
  <2>1. \A p \in Pid : process[p] \in ProcessEntry
    BY DEF IInv, TypeOK, ProcessEntry
  <2>2. process' = [p \in Pid |-> IF p \in reaped THEN Gone(process[p]) ELSE process[p]]
    BY DEF SigchldHandler
  <2> QED BY <2>1, <2>2, GoneType
<1>3. g_childs_list \in Seq(Entry) /\ g_childs_list' = [i \in DOMAIN g_childs_list |-> marked(i)]
  BY DEF IInv, TypeOK, SigchldHandler
<1>4. ASSUME NEW i \in DOMAIN g_childs_list
      PROVE  /\ marked(i) \in Entry
             /\ marked(i).pid = g_childs_list[i].pid
             /\ marked(i).process = g_childs_list[i].process
             /\ marked(i).dead => \/ g_childs_list[i].dead
                                 \/ g_childs_list[i].pid \in reaped
  <2>1. g_childs_list[i] \in Entry
    BY <1>3
  <2>2. (g_childs_list[i].dead \/ \E p \in reaped : Marks(i, p)) \in BOOLEAN
    BY <2>1 DEF Entry
  <2> QED BY <2>1, <2>2 DEF Entry, Marks
<1> HIDE DEF marked, reaped
<1>5. /\ g_childs_list' \in Seq(Entry) /\ DOMAIN g_childs_list' = DOMAIN g_childs_list
      /\ Len(g_childs_list') = Len(g_childs_list)
  BY <1>3, <1>4
<1>6. TypeOK'
  <2>1. missed' \subseteq Process
    <3>1. \A p \in reaped : Holder(p) \in Process
      BY <1>1 DEF IInv, TypeOK, BirthsAreCounted, Holder, Process
    <3> QED BY <3>1 DEF SigchldHandler, IInv, TypeOK, reaped
  <2>2. \A i \in DOMAIN g_childs_list' : g_childs_list'[i].dead => g_childs_list'[i].pid # NoPid
    BY <1>1, <1>3, <1>4 DEF IInv, TypeOK
  <2> QED BY <1>2, <1>5, <2>1, <2>2
          DEF SigchldHandler, IInv, TypeOK, mainVars, busVars, Lost, ProcessEntry
<1>7. BirthsAreCounted' /\ Aging
  BY <1>2 DEF SigchldHandler, IInv, TypeOK, BirthsAreCounted, Aging
<1>8. EntriesNameTheirProcess'
  <2> SUFFICES ASSUME NEW i \in DOMAIN g_childs_list, NEW e, e = g_childs_list'[i]
               PROVE  EntryOK(e)'
    BY <1>5 DEF EntriesNameTheirProcess
  <2> DEFINE was == g_childs_list[i]
  <2>1. EntryOK(was) /\ was \in Entry
    BY <1>3 DEF IInv, EntriesNameTheirProcess
  <2>2. e.pid = was.pid /\ e.process = was.process
        /\ (e.dead => was.dead \/ was.pid \in reaped)
    BY <1>3, <1>4
  <2>3. e.process # NoProcess => Made(e.process)'
    BY <1>6, <1>7, <2>1, <2>2, EndedStays DEF IInv, EntryOK
  <2>4. ASSUME e.dead PROVE Ended(e.process)'
    <3>1. CASE was.dead
      BY <1>6, <1>7, <2>1, <2>2, <3>1, EndedStays DEF IInv, EntryOK, Ended
    <3>2. CASE was.pid \in reaped
      BY <1>1, <1>2, <2>1, <2>2, <3>2 DEF EntryOK, Ended, Running
    <3> QED BY <2>2, <2>4, <3>1, <3>2
  <2> QED BY <2>1, <2>2, <2>3, <2>4 DEF EntryOK
<1>9. ExecutionHasEntry'
  <2>1. ASSUME g_childs_list # <<>>
        PROVE  /\ Last \in DOMAIN g_childs_list /\ g_childs_list' # <<>>
               /\ g_childs_list'[Last].pid = g_childs_list[Last].pid
               /\ g_childs_list'[Last].process = g_childs_list[Last].process
    BY <1>3, <1>4, <1>5, <2>1 DEF Last
  <2> QED BY <1>5, <2>1 DEF SigchldHandler, IInv, ExecutionHasEntry, mainVars, Last, Lost
<1>10. ClientsNameTheirProcess'
  BY <1>6, <1>7, KeptClients DEF SigchldHandler
<1>11. NoticesAreOfEnded'
  BY <1>6, <1>7, KeptNotices DEF SigchldHandler, busVars
<1> QED BY <1>6, <1>7, <1>8, <1>9, <1>10, <1>11 DEF IInv

---------------------------------------------------------------------------
(* Launching *)

LEMMA LaunchStep ==
  ASSUME IInv, NEW S \in SUBSET Client, Launch(S)
  PROVE  IInv'
<1>1. TypeOK'
  BY DEF Launch, IInv, TypeOK, kernelVars, busVars, Lost
<1>2. BirthsAreCounted' /\ Aging
  BY UnchangedProcessIsAging DEF Launch, IInv, TypeOK, BirthsAreCounted, kernelVars
<1>3. EntriesNameTheirProcess' /\ ClientsNameTheirProcess' /\ NoticesAreOfEnded'
  BY <1>1, <1>2, KeptEntries, KeptClients, KeptNotices DEF Launch, busVars
<1>4. ExecutionHasEntry'
  BY DEF Launch, IInv, ExecutionHasEntry
<1> QED BY <1>1, <1>2, <1>3, <1>4 DEF IInv

LEMMA ExecuteStep ==
  ASSUME IInv, NEW c \in Client, Execute(c)
  PROVE  IInv'
<1> USE LoaderAssumption
<1> DEFINE new == [pid |-> NoPid, dead |-> FALSE, terminal |-> c \in Terminal,
                   process |-> NoProcess]
<1>1. new \in Entry
  <2>1. (c \in Terminal) \in BOOLEAN
    OBVIOUS
  <2> QED BY <2>1 DEF Entry
<1>2. /\ g_childs_list \in Seq(Entry) /\ Last \in Nat
      /\ g_childs_list' \in Seq(Entry) /\ Last' = Last + 1
      /\ \A i \in 1..Last : g_childs_list'[i] = g_childs_list[i]
      /\ g_childs_list'[Last + 1] = new
      /\ DOMAIN g_childs_list' = 1..(Last + 1) /\ DOMAIN g_childs_list = 1..Last
  <2>1. g_childs_list \in Seq(Entry) /\ g_childs_list' = Append(g_childs_list, new)
    BY DEF Execute, IInv, TypeOK
  <2> HIDE DEF new
  <2> QED BY <1>1, <2>1 DEF Last
<1>3. new.pid = NoPid /\ new.process = NoProcess /\ new.dead = FALSE
  OBVIOUS
<1> HIDE DEF new
<1>4. TypeOK'
  <2>1. \A i \in DOMAIN g_childs_list' : g_childs_list'[i].dead => g_childs_list'[i].pid # NoPid
    BY <1>2, <1>3 DEF IInv, TypeOK
  <2>2. cursor \in 1..(Last' + 1)
    BY <1>2 DEF IInv, TypeOK, Last
  <2>3. executing' \in [client : Client \union {NoClient}, pid : Pid \union {NoPid}]
    BY DEF Execute
  <2> QED BY <1>2, <2>1, <2>2, <2>3 DEF Execute, IInv, TypeOK, kernelVars, busVars, Lost, Last
<1>5. BirthsAreCounted' /\ Aging
  BY UnchangedProcessIsAging DEF Execute, IInv, TypeOK, BirthsAreCounted, kernelVars
<1>6. EntriesNameTheirProcess'
  <2> SUFFICES ASSUME NEW i \in DOMAIN g_childs_list', NEW e, e = g_childs_list'[i]
               PROVE  EntryOK(e)'
    BY DEF EntriesNameTheirProcess
  <2>1. CASE i \in DOMAIN g_childs_list
    BY <1>2, <1>4, <1>5, <2>1, KeptEntry DEF IInv, EntriesNameTheirProcess
  <2>2. CASE i = Last + 1
    BY <1>2, <1>3, <2>2 DEF EntryOK
  <2> QED BY <1>2, <2>1, <2>2
<1>7. ExecutionHasEntry'
  BY <1>2, <1>3 DEF Execute, IInv, TypeOK, ExecutionHasEntry, Last, Lost
<1>8. ClientsNameTheirProcess' /\ NoticesAreOfEnded'
  BY <1>4, <1>5, KeptClients, KeptNotices DEF Execute, busVars
<1> QED BY <1>4, <1>5, <1>6, <1>7, <1>8 DEF IInv

\* Nothing but the entry's number of birth tells a child from the process that
\* had its pid before.
LEMMA ForkStep ==
  ASSUME IInv, NEW p \in Pid, Fork(p)
  PROVE  IInv'
<1> USE LoaderAssumption
<1>1. /\ executing.client \in Lost /\ executing.client \in Client
      /\ g_childs_list # <<>> /\ g_childs_list[Last].pid = NoPid
  BY DEF Fork, IInv, ExecutionHasEntry, Lost
<1>2. /\ process'[p] = [state |-> "running", birth |-> process[p].birth + 1,
                        forkedFor |-> executing.client, connected |-> FALSE]
      /\ \A q \in Pid \ {p} : process'[q] = process[q]
      /\ process[p].birth \in Nat /\ process[p].birth <= births /\ births \in Nat
      /\ births' = births + 1 /\ births' <= MaxProcesses
  BY DEF Fork, Born, IInv, TypeOK, BirthsAreCounted
<1>3. process' \in [Pid -> ProcessEntry]
  BY <1>1, <1>2 DEF Fork, Born, IInv, TypeOK, ProcessEntry
<1> DEFINE child == <<p, process'[p].birth>>
<1>4. child \in Process /\ child[1] = p /\ child[2] = process'[p].birth /\ child # NoProcess
  BY <1>2 DEF Process, NoProcess
<1> HIDE DEF child
<1>5. /\ Last \in DOMAIN g_childs_list /\ g_childs_list' \in Seq(Entry) /\ Last' = Last
      /\ DOMAIN g_childs_list' = DOMAIN g_childs_list
      /\ \A i \in DOMAIN g_childs_list : i # Last => g_childs_list'[i] = g_childs_list[i]
      /\ g_childs_list'[Last].process = child
      /\ g_childs_list'[Last].pid = g_childs_list[Last].pid
      /\ g_childs_list'[Last].dead = g_childs_list[Last].dead
  <2>1. g_childs_list \in Seq(Entry) /\ Last \in DOMAIN g_childs_list
    BY <1>1 DEF IInv, TypeOK, Last
  <2>2. g_childs_list' = [g_childs_list EXCEPT ![Last].process = child]
    BY DEF Fork, child
  <2>3. g_childs_list[Last] \in Entry
    BY <2>1
  <2>4. [g_childs_list[Last] EXCEPT !.process = child] \in Entry
    BY <1>4, <2>3 DEF Entry
  <2> HIDE DEF Entry
  <2>5. /\ g_childs_list' \in Seq(Entry) /\ Last' = Last
        /\ DOMAIN g_childs_list' = DOMAIN g_childs_list
        /\ \A i \in DOMAIN g_childs_list : i # Last => g_childs_list'[i] = g_childs_list[i]
        /\ g_childs_list'[Last] = [g_childs_list[Last] EXCEPT !.process = child]
    BY <2>1, <2>2, <2>4 DEF Last
  <2>6. /\ g_childs_list'[Last].process = child
        /\ g_childs_list'[Last].pid = g_childs_list[Last].pid
        /\ g_childs_list'[Last].dead = g_childs_list[Last].dead
    BY <2>3, <2>5 DEF Entry
  <2> QED BY <2>1, <2>5, <2>6
<1>6. TypeOK'
  <2>1. \A i \in DOMAIN g_childs_list' : g_childs_list'[i].dead => g_childs_list'[i].pid # NoPid
    BY <1>5 DEF IInv, TypeOK
  <2>2. executing' \in [client : Client \union {NoClient}, pid : Pid \union {NoPid}]
    BY DEF Fork, IInv, TypeOK
  <2>3. cursor \in 1..(Last' + 1)
    BY <1>5 DEF IInv, TypeOK, Last
  <2>4. pc' \in {"dispatch", "execute", "fork", "forked", "run", "stdin", "bury"}
    BY DEF Fork
  <2>5. /\ UNCHANGED <<todo, cursor, round, client, sigchld, missed>>
        /\ UNCHANGED <<connects, notices>>
    BY DEF Fork, busVars
  <2>6. /\ todo' \subseteq Lost' /\ round' \in 1..2 /\ sigchld' \in BOOLEAN
        /\ connects' \subseteq Process /\ notices' \subseteq Process /\ missed' \subseteq Process
    BY <2>5 DEF IInv, TypeOK, Lost
  <2>7. UNCHANGED client /\ cursor' \in 1..(Len(g_childs_list') + 1)
    BY <2>3, <2>5 DEF Last
  <2>8. births' \in 0..MaxProcesses
    BY <1>2
  <2> QED BY <1>3, <1>5, <2>1, <2>2, <2>4, <2>6, <2>7, <2>8 DEF IInv, TypeOK, ProcessEntry
<1>7. BirthsAreCounted' /\ Aging
  <2>1. \A q \in Pid : process[q].birth \in Nat /\ process[q].birth <= births
    BY DEF IInv, TypeOK, BirthsAreCounted
  <2>2. BirthsAreCounted'
    BY <1>2, <2>1 DEF BirthsAreCounted, IInv
  <2>3. Aging
    BY <1>2, <2>1 DEF Aging
  <2> QED BY <2>2, <2>3
<1>8. EntriesNameTheirProcess'
  <2> SUFFICES ASSUME NEW i \in DOMAIN g_childs_list, NEW e, e = g_childs_list'[i]
               PROVE  EntryOK(e)'
    BY <1>5 DEF EntriesNameTheirProcess
  <2>1. CASE i # Last
    BY <1>5, <1>6, <1>7, <2>1, KeptEntry DEF IInv, EntriesNameTheirProcess
  <2>2. CASE i = Last
    <3>1. e.process = child /\ e.pid = NoPid /\ ~e.dead
      BY <1>1, <1>5, <2>2 DEF IInv, TypeOK
    <3>2. \A x : x = child => Made(x)'
      BY <1>2, <1>4 DEF Made
    <3> QED BY <3>1, <3>2 DEF EntryOK
  <2> QED BY <2>1, <2>2
<1>9. ExecutionHasEntry'
  <2>1. executing'.pid = p /\ executing'.client = executing.client /\ pc' = "forked"
    BY DEF Fork, IInv, TypeOK
  <2> QED BY <1>1, <1>4, <1>5, <2>1 DEF Fork, ExecutionHasEntry, Last, Lost
<1>10. ClientsNameTheirProcess' /\ NoticesAreOfEnded'
  BY <1>6, <1>7, KeptClients, KeptNotices DEF Fork, busVars
<1> QED BY <1>6, <1>7, <1>8, <1>9, <1>10 DEF IInv

LEMMA LaunchedType ==
  ASSUME todo \subseteq Lost
  PROVE  /\ Launched \in {"execute", "run"}
         /\ Launched = "run" => todo = {}
  BY DEF Launched

LEMMA ForkFailsStep ==
  ASSUME IInv, ForkFails
  PROVE  IInv'
<1> DEFINE c == executing.client
<1>1. c \in Client /\ client[c].state = "lost"
  BY DEF ForkFails, IInv, ExecutionHasEntry, Lost
<1>2. /\ client'[c] = [client[c] EXCEPT !.pid = NoPid]
      /\ \A d \in Client \ {c} : client'[d] = client[d]
  BY <1>1 DEF ForkFails, IInv, TypeOK
<1>3. TypeOK'
  <2>1. client' \in [Client -> ClientRecord]
    <3>1. client[c] \in ClientRecord
      BY <1>1 DEF IInv, TypeOK, ClientRecord
    <3>2. [client[c] EXCEPT !.pid = NoPid] \in ClientRecord
      BY <3>1 DEF ClientRecord
    <3> QED BY <1>1, <1>2, <3>2 DEF ForkFails, IInv, TypeOK, ClientRecord
  <2>2. \A d \in Client : client'[d].state = client[d].state
    BY <1>1, <1>2 DEF IInv, TypeOK
  <2>3. todo' \subseteq Lost'
    BY <2>2 DEF ForkFails, IInv, TypeOK, Lost
  <2> QED BY <2>1, <2>3, LaunchedType
          DEF ForkFails, NoExecution, IInv, TypeOK, kernelVars, busVars, ClientRecord
<1>4. BirthsAreCounted' /\ Aging
  BY UnchangedProcessIsAging DEF ForkFails, IInv, TypeOK, BirthsAreCounted, kernelVars
<1>5. EntriesNameTheirProcess' /\ NoticesAreOfEnded'
  BY <1>3, <1>4, KeptEntries, KeptNotices DEF ForkFails, busVars
<1>6. ExecutionHasEntry'
  BY LaunchedType DEF ForkFails, IInv, TypeOK, ExecutionHasEntry
<1>7. ClientsNameTheirProcess'
  <2> SUFFICES ASSUME NEW d \in Client, NEW r, r = client'[d] PROVE ClientOK(r)'
    BY DEF ClientsNameTheirProcess
  <2>1. ClientOK(r)
    <3>1. ClientOK(client[d])
      BY DEF IInv, ClientsNameTheirProcess
    <3>2. CASE d = c
      <4>1. r.pid = NoPid /\ r.state = client[c].state /\ client[c].state # "running"
        BY <1>1, <1>2, <3>2 DEF IInv, TypeOK
      <4> QED BY <4>1, <3>1 DEF ClientOK
    <3> QED BY <1>2, <3>1, <3>2
  <2> QED BY <1>3, <1>4, <2>1, KeptClient DEF IInv
<1> QED BY <1>3, <1>4, <1>5, <1>6, <1>7 DEF IInv

\* The child may have ended by now; no handler has marked its entry.
LEMMA AssignPidStep ==
  ASSUME IInv, AssignPid
  PROVE  IInv'
<1> USE LoaderAssumption
<1> DEFINE c == executing.client
           p == executing.pid
           last == g_childs_list[Last]
           named == [last EXCEPT !.pid = p]
           owner == [client[c] EXCEPT !.pid = p, !.launched = last.process]
<1>1. /\ c \in Client /\ client[c].state = "lost"
      /\ g_childs_list # <<>> /\ last.pid = NoPid
      /\ p \in Pid /\ last.process # NoProcess /\ last.process[1] = p
  BY DEF AssignPid, IInv, ExecutionHasEntry, Lost
<1>2. /\ Last \in DOMAIN g_childs_list /\ g_childs_list \in Seq(Entry)
      /\ last \in Entry /\ ~last.dead /\ Made(last.process)
  <2>1. g_childs_list \in Seq(Entry) /\ Last \in DOMAIN g_childs_list
    BY <1>1 DEF IInv, TypeOK, Last
  <2>2. EntryOK(last)
    BY <2>1 DEF IInv, EntriesNameTheirProcess
  <2> QED BY <1>1, <2>1, <2>2 DEF IInv, TypeOK, EntryOK
<1>3. /\ named \in Entry /\ named.pid = p /\ ~named.dead
      /\ named.process = last.process
  BY <1>1, <1>2 DEF Entry
<1>4. /\ client[c] \in ClientRecord
      /\ owner \in ClientRecord /\ owner.pid = p
      /\ owner.state = "lost" /\ owner.launched = last.process
  <2>1. client[c] \in ClientRecord
    BY <1>1 DEF IInv, TypeOK, ClientRecord
  <2>2. last.process \in Process \union {NoProcess}
    BY <1>2 DEF Entry
  <2> HIDE DEF p, c, last
  <2> QED BY <1>1, <2>1, <2>2 DEF ClientRecord
<1>5. client' = [client EXCEPT ![c] = owner]
  BY <1>1 DEF AssignPid, IInv, TypeOK
<1>6. g_childs_list' = [g_childs_list EXCEPT ![Last] = named]
  BY DEF AssignPid
<1> HIDE DEF named, owner, last, p, c
<1>7. /\ client'[c] = owner /\ \A d \in Client \ {c} : client'[d] = client[d]
      /\ client' \in [Client -> ClientRecord]
  BY <1>1, <1>4, <1>5 DEF IInv, TypeOK, ClientRecord
<1>8. /\ g_childs_list' \in Seq(Entry) /\ Last' = Last
      /\ DOMAIN g_childs_list' = DOMAIN g_childs_list
      /\ g_childs_list'[Last] = named
      /\ \A i \in DOMAIN g_childs_list : i # Last => g_childs_list'[i] = g_childs_list[i]
  BY <1>2, <1>3, <1>6 DEF Last
<1>9. TypeOK'
  <2>1. todo' \subseteq Lost'
    <3>1. \A d \in Client : client'[d].state = client[d].state
      BY <1>1, <1>4, <1>7
    <3> QED BY <3>1 DEF AssignPid, IInv, TypeOK, Lost
  <2>2. \A i \in DOMAIN g_childs_list' : g_childs_list'[i].dead => g_childs_list'[i].pid # NoPid
    BY <1>1, <1>3, <1>8 DEF IInv, TypeOK
  <2>3. cursor' \in 1..(Len(g_childs_list') + 1)
    BY <1>8 DEF AssignPid, IInv, TypeOK, Last
  <2> QED BY <1>7, <1>8, <2>1, <2>2, <2>3, LaunchedType
          DEF AssignPid, NoExecution, IInv, TypeOK, kernelVars, busVars, ClientRecord
<1>10. BirthsAreCounted' /\ Aging
  BY UnchangedProcessIsAging DEF AssignPid, IInv, TypeOK, BirthsAreCounted, kernelVars
<1>11. EntriesNameTheirProcess'
  <2> SUFFICES ASSUME NEW i \in DOMAIN g_childs_list, NEW e, e = g_childs_list'[i]
               PROVE  EntryOK(e)'
    BY <1>8 DEF EntriesNameTheirProcess
  <2>1. EntryOK(e)
    BY <1>1, <1>2, <1>3, <1>8 DEF IInv, EntriesNameTheirProcess, EntryOK
  <2> QED BY <1>9, <1>10, <2>1, KeptEntry DEF IInv
<1>12. ClientsNameTheirProcess'
  <2> SUFFICES ASSUME NEW d \in Client, NEW r, r = client'[d] PROVE ClientOK(r)'
    BY DEF ClientsNameTheirProcess
  <2>1. ClientOK(r)
    BY <1>1, <1>2, <1>4, <1>7 DEF IInv, ClientsNameTheirProcess, ClientOK
  <2> QED BY <1>9, <1>10, <2>1, KeptClient DEF IInv
<1>13. ExecutionHasEntry' /\ NoticesAreOfEnded'
  BY <1>9, <1>10, LaunchedType, KeptNotices
     DEF AssignPid, IInv, TypeOK, ExecutionHasEntry, busVars
<1> QED BY <1>9, <1>10, <1>11, <1>12, <1>13 DEF IInv

---------------------------------------------------------------------------
(* The bus *)

\* client_disconnected leaves nothing of the process in the client.
LEMMA LoseClientStep ==
  ASSUME IInv, NEW c \in Client, LoseClient(c), todo = {},
         UNCHANGED process
  PROVE  /\ client' \in [Client -> ClientRecord]
         /\ TypeOK' => ClientsNameTheirProcess'
<1> DEFINE lost == [state |-> "lost", pid |-> NoPid, process |-> NoProcess,
                    launched |-> NoProcess]
<1>1. client' = [client EXCEPT ![c] = lost]
  BY DEF LoseClient
<1>2. lost \in ClientRecord /\ ClientOK(lost)
  BY DEF ClientRecord, ClientOK
<1> HIDE DEF lost
<1>3. client' \in [Client -> ClientRecord]
  BY <1>1, <1>2 DEF IInv, TypeOK, ClientRecord
<1>4. ASSUME TypeOK', NEW d \in Client, NEW r, r = client'[d] PROVE ClientOK(r)'
  <2>1. ClientOK(r)
    BY <1>1, <1>2, <1>4 DEF IInv, TypeOK, ClientsNameTheirProcess
  <2>2. Aging
    BY UnchangedProcessIsAging DEF IInv
  <2> QED BY <1>4, <2>1, <2>2, KeptClient DEF IInv
<1> QED BY <1>3, <1>4 DEF ClientsNameTheirProcess

LEMMA HandleConnectStep ==
  ASSUME IInv, NEW x \in connects, HandleConnect(x)
  PROVE  IInv'
<1> USE LoaderAssumption
<1> DEFINE resumed == [state |-> "running", pid |-> x[1], process |-> x, launched |-> NoProcess]
<1>1. PICK c \in Client : client' = [client EXCEPT ![c] = resumed]
  <2>1. \A c : c \in LostWithPid(x[1]) \/ c \in New => c \in Client
    BY DEF LostWithPid, Lost, New
  <2> QED BY <2>1 DEF HandleConnect
<1>2. Made(x) /\ x \in Process
  BY DEF IInv, NoticesAreOfEnded, Made
<1>3. resumed \in ClientRecord /\ ClientOK(resumed)
  BY <1>2 DEF Process, ClientRecord, ClientOK
<1> HIDE DEF resumed
<1>4. todo = {} /\ todo' = {} /\ pc' = "run"
  BY DEF HandleConnect, IInv, ExecutionHasEntry
<1>5. TypeOK'
  <2>1. client' \in [Client -> ClientRecord]
    BY <1>1, <1>3 DEF IInv, TypeOK, ClientRecord
  <2> QED BY <1>4, <2>1 DEF HandleConnect, IInv, TypeOK, kernelVars, ClientRecord
<1>6. BirthsAreCounted' /\ Aging
  BY UnchangedProcessIsAging DEF HandleConnect, IInv, TypeOK, BirthsAreCounted, kernelVars
<1>7. EntriesNameTheirProcess' /\ NoticesAreOfEnded'
  BY <1>5, <1>6, KeptEntries, KeptNotices DEF HandleConnect
<1>8. ExecutionHasEntry'
  BY <1>4 DEF ExecutionHasEntry
<1>9. ClientsNameTheirProcess'
  <2> SUFFICES ASSUME NEW d \in Client, NEW r, r = client'[d] PROVE ClientOK(r)'
    BY DEF ClientsNameTheirProcess
  <2>1. ClientOK(r)
    BY <1>1, <1>3 DEF IInv, TypeOK, ClientsNameTheirProcess
  <2> QED BY <1>5, <1>6, <2>1, KeptClient DEF IInv
<1> QED BY <1>5, <1>6, <1>7, <1>8, <1>9 DEF IInv

LEMMA HandleNoticeStep ==
  ASSUME IInv, NEW x \in notices, HandleNotice(x)
  PROVE  IInv'
<1>1. todo = {} /\ todo' = {} /\ pc' = "run"
  BY DEF HandleNotice, IInv, ExecutionHasEntry
<1>2. client' \in [Client -> ClientRecord] /\ (TypeOK' => ClientsNameTheirProcess')
  <2>1. CASE \E c \in Connected : LoseClient(c)
    BY <1>1, <2>1, LoseClientStep DEF HandleNotice, Connected, kernelVars
  <2>2. CASE UNCHANGED client
    BY <2>2, KeptClients, UnchangedProcessIsAging
       DEF HandleNotice, IInv, TypeOK, ClientRecord, kernelVars
  <2> QED BY <2>1, <2>2 DEF HandleNotice
<1>3. TypeOK'
  BY <1>1, <1>2 DEF HandleNotice, IInv, TypeOK, kernelVars, ClientRecord
<1>4. BirthsAreCounted' /\ Aging
  BY UnchangedProcessIsAging DEF HandleNotice, IInv, TypeOK, BirthsAreCounted, kernelVars
<1>5. EntriesNameTheirProcess' /\ NoticesAreOfEnded'
  BY <1>3, <1>4, KeptEntries, KeptNotices DEF HandleNotice
<1>6. ExecutionHasEntry'
  BY <1>1 DEF ExecutionHasEntry
<1> QED BY <1>2, <1>3, <1>4, <1>5, <1>6 DEF IInv

---------------------------------------------------------------------------
(* loader_run *)

\* Steps that only move the main thread on.
LEMMA MovingOnStep ==
  ASSUME IInv, UNCHANGED <<g_childs_list, todo, executing, client, kernelVars, busVars, missed>>,
         pc \notin {"execute", "fork", "forked"}, pc' \notin {"execute", "fork", "forked"},
         pc' \in {"dispatch", "run", "stdin", "bury"},
         cursor' \in {1, cursor}, round' \in 1..2
  PROVE  IInv'
<1>1. TypeOK'
  BY DEF IInv, TypeOK, kernelVars, busVars, Lost
<1>2. BirthsAreCounted' /\ Aging
  BY UnchangedProcessIsAging DEF IInv, TypeOK, BirthsAreCounted, kernelVars
<1>3. EntriesNameTheirProcess' /\ ClientsNameTheirProcess' /\ NoticesAreOfEnded'
  BY <1>1, <1>2, KeptEntries, KeptClients, KeptNotices DEF busVars
<1>4. ExecutionHasEntry'
  BY DEF IInv, ExecutionHasEntry
<1> QED BY <1>1, <1>2, <1>3, <1>4 DEF IInv

LEMMA BuryStep ==
  ASSUME IInv, Bury
  PROVE  IInv'
<1> DEFINE e == g_childs_list[cursor]
<1>1. todo = {} /\ todo' = {} /\ pc' = "bury"
  BY DEF Bury, IInv, ExecutionHasEntry
<1>2. g_childs_list \in Seq(Entry) /\ cursor \in DOMAIN g_childs_list
  BY DEF Bury, IInv, TypeOK, Last
<1>3. BirthsAreCounted' /\ Aging
  BY UnchangedProcessIsAging DEF Bury, IInv, TypeOK, BirthsAreCounted, kernelVars
<1>4. /\ g_childs_list' \in Seq(Entry) /\ cursor' \in 1..(Len(g_childs_list') + 1)
      /\ \A i \in DOMAIN g_childs_list' :
           \E j \in DOMAIN g_childs_list : g_childs_list'[i] = g_childs_list[j]
  <2>1. CASE e.dead
    <3>1. g_childs_list' = Without(g_childs_list, cursor) /\ cursor' = cursor
      BY <2>1 DEF Bury
    <3> QED BY <1>2, <3>1, WithoutType DEF Last
  <2>2. CASE ~e.dead
    BY <1>2, <2>2 DEF Bury, Last
  <2> QED BY <2>1, <2>2
<1>5. client' \in [Client -> ClientRecord] /\ (TypeOK' => ClientsNameTheirProcess')
  <2>1. CASE \E c \in OwnersOf(e) : LoseClient(c)
    BY <1>1, <2>1, LoseClientStep DEF Bury, OwnersOf, Connected, kernelVars
  <2>2. CASE UNCHANGED client
    BY <2>2, KeptClients, UnchangedProcessIsAging DEF Bury, IInv, TypeOK, ClientRecord, kernelVars
  <2> QED BY <2>1, <2>2 DEF Bury
<1>6. TypeOK'
  <2>1. \A i \in DOMAIN g_childs_list' : g_childs_list'[i].dead => g_childs_list'[i].pid # NoPid
    BY <1>4 DEF IInv, TypeOK
  <2> QED BY <1>1, <1>4, <1>5, <2>1 DEF Bury, IInv, TypeOK, kernelVars, busVars, ClientRecord
<1>7. EntriesNameTheirProcess' /\ NoticesAreOfEnded'
  BY <1>3, <1>4, <1>6, KeptEntries, KeptNotices DEF Bury, busVars
<1>8. ExecutionHasEntry'
  BY <1>1 DEF ExecutionHasEntry
<1> QED BY <1>3, <1>5, <1>6, <1>7, <1>8 DEF IInv

---------------------------------------------------------------------------
(* Theorems *)

LEMMA Initially == Init => IInv
<1> USE LoaderAssumption
<1> SUFFICES ASSUME Init PROVE IInv
  OBVIOUS
<1>1. /\ client \in [Client -> [state : {"none", "lost"}, pid : {NoPid},
                             process : {NoProcess}, launched : {NoProcess}]]
      /\ process \in [Pid -> ProcessEntry]
  BY DEF Init, ProcessEntry
<1>2. client \in [Client -> ClientRecord]
  BY <1>1 DEF ClientRecord
<1>3. TypeOK
  <2>1. g_childs_list = <<>> /\ g_childs_list \in Seq(Entry) /\ Len(g_childs_list) = 0
    BY DEF Init
  <2>2. executing \in [client : Client \union {NoClient}, pid : Pid \union {NoPid}]
    BY DEF Init, NoExecution
  <2>3. births \in 0..MaxProcesses
    BY DEF Init
  <2>4. /\ pc = "dispatch" /\ todo = {} /\ cursor = 1 /\ round = 1 /\ sigchld = FALSE
        /\ connects = {} /\ notices = {} /\ missed = {}
    BY DEF Init
  <2>5. cursor \in 1..(Len(g_childs_list) + 1) /\ round \in 1..2
    BY <2>1, <2>4
  <2>6. \A i \in DOMAIN g_childs_list : g_childs_list[i].dead => g_childs_list[i].pid # NoPid
    BY <2>1
  <2>7. /\ pc \in {"dispatch", "execute", "fork", "forked", "run", "stdin", "bury"}
        /\ todo \subseteq Lost /\ sigchld \in BOOLEAN
        /\ connects \subseteq Process /\ notices \subseteq Process /\ missed \subseteq Process
    BY <2>4
  <2> QED BY <1>1, <1>2, <2>1, <2>2, <2>3, <2>5, <2>6, <2>7 DEF TypeOK, ProcessEntry, ClientRecord
<1>4. BirthsAreCounted /\ EntriesNameTheirProcess /\ ExecutionHasEntry /\ NoticesAreOfEnded
  BY DEF Init, BirthsAreCounted, EntriesNameTheirProcess, ExecutionHasEntry, NoticesAreOfEnded
<1>5. ClientsNameTheirProcess
  BY <1>1 DEF ClientsNameTheirProcess, ClientOK
<1> QED BY <1>3, <1>4, <1>5 DEF IInv

LEMMA Inductive == IInv /\ [Next]_vars => IInv'
<1> SUFFICES ASSUME IInv, [Next]_vars PROVE IInv'
  OBVIOUS
<1>1. ASSUME NEW p \in Pid, Start(p) PROVE IInv'
  BY <1>1, StartStep
<1>2. ASSUME NEW p \in Pid, SendConnect(p) PROVE IInv'
  BY <1>2, SendConnectStep
<1>3. ASSUME NEW p \in Pid, Exit(p) PROVE IInv'
  BY <1>3, ExitStep
<1>4. ASSUME SigchldHandler PROVE IInv'
  BY <1>4, HandlerStep
<1>5. ASSUME NEW S \in SUBSET Client, Launch(S) PROVE IInv'
  BY <1>5, LaunchStep
<1>6. ASSUME NEW x \in connects, HandleConnect(x) PROVE IInv'
  BY <1>6, HandleConnectStep
<1>7. ASSUME NEW x \in notices, HandleNotice(x) PROVE IInv'
  BY <1>7, HandleNoticeStep
<1>8. ASSUME NEW c \in Client, Execute(c) PROVE IInv'
  BY <1>8, ExecuteStep
<1>9. ASSUME NEW p \in Pid, Fork(p) PROVE IInv'
  BY <1>9, ForkStep
<1>10. ASSUME ForkFails PROVE IInv'
  BY <1>10, ForkFailsStep
<1>11. ASSUME AssignPid PROVE IInv'
  BY <1>11, AssignPidStep
<1>12. ASSUME Bury PROVE IInv'
  BY <1>12, BuryStep
<1>13. ASSUME NothingToDispatch \/ ReadChildsOutput \/ StdinRead \/ RunAgain PROVE IInv'
  <2>1. /\ UNCHANGED <<g_childs_list, todo, executing, client, kernelVars, busVars, missed>>
        /\ pc \notin {"execute", "fork", "forked"} /\ pc' \notin {"execute", "fork", "forked"}
        /\ pc' \in {"dispatch", "run", "stdin", "bury"}
        /\ cursor' \in {1, cursor} /\ round' \in 1..2
    BY <1>13 DEF NothingToDispatch, ReadChildsOutput, StdinRead, RunAgain, IInv, TypeOK
  <2> QED BY <2>1, MovingOnStep
<1>14. ASSUME UNCHANGED vars PROVE IInv'
  <2>1. TypeOK'
    BY <1>14 DEF vars, mainVars, kernelVars, busVars, IInv, TypeOK, Lost
  <2>2. BirthsAreCounted' /\ Aging
    BY <1>14, UnchangedProcessIsAging DEF vars, kernelVars, IInv, BirthsAreCounted
  <2>3. NoticesAreOfEnded'
    BY <1>14, <2>1, <2>2, KeptNotices DEF vars, busVars
  <2> QED BY <1>14, <2>1, <2>2, <2>3, KernelStep DEF vars, mainVars, IInv
<1> QED BY <1>1, <1>2, <1>3, <1>4, <1>5, <1>6, <1>7, <1>8, <1>9, <1>10, <1>11, <1>12, <1>13,
           <1>14 DEF Next, Kernel, Main, Dispatch

LEMMA Invariant == Spec => []IInv
BY Initially, Inductive, PTL DEF Spec

\* The variables of the loader, of the kernel and of the bus keep their types,
\* through every interruption by the handler.
THEOREM LoaderTypeCorrect == Spec => []TypeOK
BY Invariant, PTL DEF IInv

\* loader_child_find_and_mark_dead marks an entry dead only when the process it
\* was made for has ended.
THEOREM MarkedAreEnded == Spec => []DeadMeansEnded
<1>1. IInv => DeadMeansEnded
  BY DEF IInv, EntriesNameTheirProcess, EntryOK, DeadMeansEnded
<1> QED BY <1>1, Invariant, PTL

\* Burials and notices (client_disconnected) take only clients whose process
\* has ended, or whose pid a dead child had before.
THEOREM LostHaveEnded == Spec => OnlyTheEndedAreLost
<1> DEFINE Deserved(c) ==
      \/ Ended(client[c].process)
      \/ \E i \in DOMAIN g_childs_list :
           /\ g_childs_list[i].dead
           /\ g_childs_list[i].process[1] = client[c].process[1]
           /\ g_childs_list[i].process[2] < client[c].process[2]
<1>1. ASSUME IInv, [Next]_vars, NEW c \in Client,
             client[c].state = "running", client'[c].state = "lost"
      PROVE  Deserved(c)
  <2>1. \A d \in Client : LoseClient(d) => d = c
    BY <1>1 DEF LoseClient, IInv, TypeOK
  <2>2. Made(client[c].process) /\ client[c].process[1] = client[c].pid
    BY <1>1 DEF IInv, ClientsNameTheirProcess, ClientOK
  <2>3. CASE \E x \in notices : HandleNotice(x)
    <3>1. PICK x \in notices : HandleNotice(x)
      BY <2>3
    <3>2. PICK d \in Connected : client[d].process = x /\ LoseClient(d)
      BY <1>1, <3>1 DEF HandleNotice
    <3>3. client[c].process = x
      BY <2>1, <3>2 DEF Connected
    <3> QED BY <1>1, <3>3 DEF IInv, NoticesAreOfEnded
  <2>4. CASE Bury
    <3> DEFINE e == g_childs_list[cursor]
    <3>1. cursor \in DOMAIN g_childs_list /\ e.dead
      BY <1>1, <2>4 DEF Bury, IInv, TypeOK, Last
    <3>2. PICK d \in OwnersOf(e) : LoseClient(d)
      BY <1>1, <2>4, <3>1 DEF Bury
    <3>3. client[c].pid = e.pid
      BY <2>1, <3>2 DEF OwnersOf, Connected
    <3>4. /\ e.pid # NoPid /\ e.process[1] = e.pid
          /\ Made(e.process) /\ Ended(e.process)
      BY <1>1, <3>1 DEF IInv, TypeOK, EntriesNameTheirProcess, EntryOK
    <3>5. CASE Ended(client[c].process)
      BY <3>5
    <3>6. CASE ~Ended(client[c].process)
      <4> DEFINE x == client[c].process
                 y == e.process
      <4>1. x \in Process /\ y \in Process /\ x[1] = y[1]
        BY <2>2, <3>3, <3>4 DEF Made
      <4>2. Running(x)
        BY <3>6, <4>1, LoaderAssumption DEF Ended, Process, NoProcess
      <4>3. x[2] = process[x[1]].birth /\ y[2] <= process[x[1]].birth
        BY <3>4, <4>1, <4>2 DEF Made, Running
      <4>4. y[2] # x[2]
        BY <3>4, <4>1, <4>2 DEF Ended, Running
      <4>5. y[2] < x[2]
        BY <4>1, <4>3, <4>4 DEF Process
      <4> QED BY <3>1, <4>1, <4>5
    <3> QED BY <3>5, <3>6
  <2>5. CASE ~((\E x \in notices : HandleNotice(x)) \/ Bury)
    <3>1. CASE \E x \in connects : HandleConnect(x)
      BY <1>1, <3>1 DEF HandleConnect, IInv, TypeOK
    <3>2. CASE ForkFails
      <4>1. client'[c].state = client[c].state
        BY <1>1, <3>2 DEF ForkFails, IInv, TypeOK
      <4> QED BY <1>1, <4>1
    <3>3. CASE AssignPid
      <4>1. client'[c].state = client[c].state
        BY <1>1, <3>3 DEF AssignPid, IInv, TypeOK
      <4> QED BY <1>1, <4>1
    <3>4. CASE UNCHANGED client
      BY <1>1, <3>4
    <3> QED BY <1>1, <2>5, <3>1, <3>2, <3>3, <3>4
            DEF Next, Kernel, Main, Dispatch, Start, SendConnect, Exit, SigchldHandler, Launch,
                NothingToDispatch, Execute, Fork, ReadChildsOutput, StdinRead, RunAgain, vars
  <2> QED BY <2>3, <2>4, <2>5
<1>2. IInv /\ [Next]_vars => [\A c \in Client :
        client[c].state = "running" /\ client'[c].state = "lost" => Deserved(c)]_vars
  BY <1>1
<1> QED BY <1>2, Invariant, PTL DEF Spec, OnlyTheEndedAreLost

\* server_find_lost_client_by_pid: while the process that lashd launched for a
\* lost client lives, no other living process has its pid.
THEOREM PlacesAreKept == Spec => PlacesAreNotTaken
<1> DEFINE Kept(c) ==
      LET x == client'[c].process IN
        client[c].launched = x \/ Ended(client[c].launched) \/ Ended(x)
<1>1. ASSUME IInv, [Next]_vars, NEW c \in Client,
             client[c].state = "lost", client'[c].state = "running"
      PROVE  Kept(c)
  <2>1. PICK x \in connects : HandleConnect(x)
    <3>1. ASSUME NEW d \in Client, LoseClient(d) PROVE client'[c].state # "running"
      BY <1>1, <3>1 DEF LoseClient, IInv, TypeOK
    <3>2. CASE ForkFails \/ AssignPid
      <4>1. client'[c].state = client[c].state
        BY <1>1, <3>2 DEF ForkFails, AssignPid, IInv, TypeOK
      <4> QED BY <1>1, <4>1
    <3>3. CASE \E y \in notices : HandleNotice(y)
      BY <1>1, <3>1, <3>3 DEF HandleNotice, Connected
    <3>4. CASE Bury
      BY <1>1, <3>1, <3>4 DEF Bury, OwnersOf, Connected
    <3>5. CASE UNCHANGED client
      BY <1>1, <3>5
    <3> QED BY <1>1, <3>2, <3>3, <3>4, <3>5
            DEF Next, Kernel, Main, Dispatch, Start, SendConnect, Exit, SigchldHandler, Launch,
                NothingToDispatch, Execute, Fork, ReadChildsOutput, StdinRead, RunAgain, vars
  <2>2. client'[c].process = x /\ c \in LostWithPid(x[1])
    <3>1. PICK d \in IF LostWithPid(x[1]) # {} THEN LostWithPid(x[1]) ELSE New :
            client' = [client EXCEPT ![d] = [state |-> "running", pid |-> x[1], process |-> x,
                                             launched |-> NoProcess]]
      BY <2>1 DEF HandleConnect
    <3>2. d = c
      BY <1>1, <3>1 DEF IInv, TypeOK, LostWithPid, Lost, New
    <3> QED BY <1>1, <3>1, <3>2 DEF IInv, TypeOK, New
  <2>3. Made(x) /\ client[c].pid = x[1] /\ x[1] \in Pid
    BY <1>1, <2>2 DEF IInv, NoticesAreOfEnded, LostWithPid, Made, Process
  <2>4. Made(client[c].launched) /\ client[c].launched[1] = x[1]
    BY <1>1, <2>3, LoaderAssumption DEF IInv, ClientsNameTheirProcess, ClientOK
  <2> DEFINE y == client[c].launched
  <2>5. CASE Running(x) /\ Running(y)
    <3>1. x \in Process /\ y \in Process /\ x[1] = y[1] /\ x[2] = y[2]
      BY <2>3, <2>4, <2>5 DEF Made, Running
    <3>2. x = y
      BY <3>1 DEF Process
    <3> QED BY <2>2, <3>2
  <2>6. CASE ~(Running(x) /\ Running(y))
    <3>1. x # NoProcess /\ y # NoProcess
      BY <2>3, <2>4, LoaderAssumption DEF Made, Process, NoProcess
    <3> QED BY <2>2, <2>6, <3>1 DEF Ended
  <2> QED BY <2>5, <2>6
<1>2. IInv /\ [Next]_vars => [\A c \in Client :
        client[c].state = "lost" /\ client'[c].state = "running" => Kept(c)]_vars
  BY <1>1
<1> QED BY <1>2, Invariant, PTL DEF Spec, PlacesAreNotTaken
=============================================================================
