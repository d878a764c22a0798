-------------------------- MODULE ClientDependency --------------------------
(***************************************************************************)
(* The dependencies between the clients of one project, and the search for *)
(* circles that guards AddDependency (lashd/client_dependency.c and the    *)
(* dependency methods of lashd/dbus_iface_control.c).                      *)
(*                                                                         *)
(* A dependency names a client by its id only: the client may be lost, be  *)
(* gone for good, or be the dependent itself.                              *)
(***************************************************************************)
EXTENDS Naturals, FiniteSets, SequencesExt

CONSTANTS
  Client,    \* client identities
  MaxDeps    \* bound on the dependencies of one client

ASSUME ClientsOK == IsFiniteSet(Client) /\ MaxDeps \in Nat

VARIABLES
  clients, lost_clients,  \* the two lists of the project, as sets
  dependencies,           \* the list of each client, the newest first
  hung,                   \* a search has recursed without end: lashd is dead
  blind                   \* the dependencies that were added while the search
                          \*   for circles could not see all they lead to

vars == <<clients, lost_clients, dependencies, hung, blind>>

Deps(c) == ToSet(dependencies[c])

Edges == {<<c, d>> \in Client \X Client : d \in Deps(c)}

------------------------------------------------------------------------------
(* client_dependency_find_circular *)

(* Faulty: a search that does not look past the first step. *)
ShallowSearch(list, deps, orig, new) ==
  IF new \in list /\ orig \in ToSet(deps[new]) THEN "circular" ELSE "absent"

(* The search from the client new, for the client orig, with the           *)
(* dependencies deps. Only the clients in the list are followed. A path    *)
(* longer than there are clients meets a client again: the recursion has   *)
(* no end.                                                                 *)
(*                                                                         *)
(* The outcome for a client is that of its first dependency that is not    *)
(* "absent": the loop returns there, or never returns.                     *)
Search(list, deps, orig, new) ==
  LET search[n \in 0..Cardinality(Client) + 1, x \in Client] ==
        IF x \notin list THEN "absent"
        ELSE IF n = 0 THEN "endless"
        ELSE LET outcome(d) == IF d = orig THEN "circular" ELSE search[n - 1, d]
                 telling == SelectSeq(deps[x], LAMBDA d : outcome(d) # "absent")
             IN IF telling = <<>> THEN "absent" ELSE outcome(Head(telling))
  IN search[Cardinality(Client) + 1, new]

------------------------------------------------------------------------------

(* What x leads to, x included, along the edges E: the reference.          *)
LeadsTo(E, x) ==
  LET step(S) == S \cup {e[2] : e \in {f \in E : f[1] \in S}}
      reach[n \in 0..Cardinality(Client)] ==
        IF n = 0 THEN {x} ELSE step(reach[n - 1])
  IN reach[Cardinality(Client)]

Circular(E) == \E e \in E : e[1] \in LeadsTo(E, e[2])

(* The edges that the search follows: those of running clients. *)
Followed == {e \in Edges : e[1] \in clients}

------------------------------------------------------------------------------

Init ==
  /\ clients = {}
  /\ lost_clients = {}
  /\ dependencies = [c \in Client |-> <<>>]
  /\ hung = FALSE
  /\ blind = {}

(* client_dependency_add: no duplicate, no circle, the newest first. *)
AddDependency(c, d) ==
  /\ ~hung
  /\ c \in clients
  /\ d \notin Deps(c)
  /\ Len(dependencies[c]) < MaxDeps
  /\ LET found == Search(clients, dependencies, c, d) IN
       CASE found = "absent" ->
            /\ dependencies' = [dependencies EXCEPT ![c] = <<d>> \o @]
            /\ blind' = IF c = d \/ ~(LeadsTo(Edges, d) \subseteq clients)
                          THEN blind \cup {<<c, d>>} ELSE blind
            /\ UNCHANGED hung
       [] found = "endless" ->
            /\ hung' = TRUE
            /\ UNCHANGED <<dependencies, blind>>
       [] OTHER -> UNCHANGED <<dependencies, hung, blind>>
  /\ UNCHANGED <<clients, lost_clients>>

(* client_dependency_remove *)
RemoveDependency(c, d) ==
  /\ ~hung
  /\ c \in clients
  /\ d \in Deps(c)
  /\ dependencies' = [dependencies EXCEPT ![c] = Remove(@, d)]
  /\ blind' = blind \ {<<c, d>>}
  /\ UNCHANGED <<clients, lost_clients, hung>>

(* project_new_client: the new client gets an id that nobody has named. *)
Join(c) ==
  /\ ~hung
  /\ c \notin clients \cup lost_clients
  /\ \A e \in Edges : e[2] # c
  /\ clients' = clients \cup {c}
  /\ UNCHANGED <<lost_clients, dependencies, hung, blind>>

(* project_lose_client: the lost client keeps its dependencies. *)
Lose(c) ==
  /\ ~hung
  /\ c \in clients
  /\ clients' = clients \ {c}
  /\ lost_clients' = lost_clients \cup {c}
  /\ UNCHANGED <<dependencies, hung, blind>>

(* client_resume_project *)
Resume(c) ==
  /\ ~hung
  /\ c \in lost_clients
  /\ clients' = clients \cup {c}
  /\ lost_clients' = lost_clients \ {c}
  /\ UNCHANGED <<dependencies, hung, blind>>

(* project_clear_lost_clients, when the project is saved: the dependencies *)
(* of other clients on the destroyed ones stay.                            *)
ClearLostClients ==
  /\ ~hung
  /\ lost_clients' = {}
  /\ dependencies' = [c \in Client |-> IF c \in lost_clients THEN <<>>
                                                             ELSE dependencies[c]]
  /\ blind' = {e \in blind : e[1] \notin lost_clients}
  /\ UNCHANGED <<clients, hung>>

(* client_parse_xml of one client, at the end of those read so far: its    *)
(* dependencies are added one by one, as by client_dependency_add, but the *)
(* client itself is not in the list yet.                                   *)
ReadClient(sofar, c) ==
  LET outcome(d) == Search(sofar.list, sofar.deps, c, d)
      saved == Reverse(dependencies[c])
  IN [list |-> sofar.list \cup {c},
      deps |-> [sofar.deps EXCEPT ![c] =
                  SelectSeq(saved, LAMBDA d : outcome(d) = "absent")],
      hung |-> sofar.hung \/ \E d \in ToSet(saved) : outcome(d) = "endless"]

(* client_dependency_list_sanity_check *)
SaneDependencies(list, deps) == SelectSeq(deps, LAMBDA d : d \in list)

(* Closing the saved project and opening it again: project_load reads the  *)
(* clients in the order they were written in, and server_project_restore   *)
(* drops the dependencies on clients there are not.                        *)
Reopen ==
  /\ ~hung
  /\ lost_clients = {}
  /\ \E order \in SetToSeqs(clients) :
       LET read == FoldLeft(ReadClient,
                            [list |-> {}, hung |-> FALSE,
                             deps |-> [c \in Client |-> <<>>]], order)
       IN dependencies' = [c \in Client |-> SaneDependencies(clients, read.deps[c])]
          /\ hung' = read.hung
  /\ clients' = {}
  /\ lost_clients' = clients
  /\ blind' = blind \cap Edges'

Next ==
  \/ \E c, d \in Client : AddDependency(c, d) \/ RemoveDependency(c, d)
  \/ \E c \in Client : Join(c) \/ Lose(c) \/ Resume(c)
  \/ ClearLostClients
  \/ Reopen

Spec == Init /\ [][Next]_vars

------------------------------------------------------------------------------
(* Properties *)

(* client_dependency_find_circular finds a chain exactly if there is one   *)
(* among running clients; it has no end only where those already depend    *)
(* on each other in a circle. So a chain of dependencies only becomes      *)
(* circular by a client that is made to depend on itself, or while one of  *)
(* the clients in it does not run (blind).                                 *)
SearchFindsCircles ==
  /\ \A c \in clients, d \in Client :
       LET chain == \E e \in Followed : e[2] = c /\ e[1] \in LeadsTo(Followed, d)
           found == Search(clients, dependencies, c, d)
       IN
         /\ found = "circular" => chain
         /\ found = "absent" => ~chain
         /\ found = "endless" => Circular(Followed)
  /\ ~Circular(Edges \ blind)

(* Reading a project breaks its circles, whatever the order of its clients *)
(* is: client_parse_xml adds the dependencies anew. Only a dependency of a *)
(* client on itself passes the search again.                               *)
ReadingBreaksCircles ==
  [][Reopen => ~Circular({e \in Edges' : e[1] # e[2]})]_vars
=============================================================================
