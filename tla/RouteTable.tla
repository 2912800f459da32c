------------------------------ MODULE RouteTable ------------------------------
(***************************************************************************)
(* The entries of routes.json and what the operations of RouteStore do to  *)
(* the list once it is in memory (crates/nsl/src/routes.rs).               *)
(*                                                                         *)
(* The list is modelled as a set: the order of entries matters only to     *)
(* find_route, which module Routing models on sequences; the `find` of     *)
(* add_route_with_owner takes any one entry with the wanted key.           *)
(* Port, change_origin and strip_prefix are payload and left out.          *)
(*                                                                         *)
(* A process is identified by its pid and its incarnation `gen`, because a *)
(* pid is used again after its process ends.  Only the recorded start time *)
(* (RouteOwner.start_time) lets the program tell two incarnations apart,   *)
(* and where /proc is missing or cannot be read there is none.             *)
(*                                                                         *)
(* Commands and processes belong to users.  A command may not signal a     *)
(* process of another user, and takes such a process for dead.             *)
(***************************************************************************)
EXTENDS PathPrefix

CONSTANTS Hosts,        \* hostnames
          Prefixes,     \* path prefixes as they reach RouteStore
          AllPrefixes,  \* the None of Option<&str>: every prefix of a host
          Pids,         \* pids of application processes
          NoPid,        \* pid 0, a static route without a process
          Users,        \* who runs commands and application processes
          Superuser,    \* the user who may signal every process
          MaxGen,       \* bound: incarnations of a pid are 0..MaxGen
          Requests      \* bound: the commands users may give

ASSUME NoPidAssumption == NoPid \notin Pids
ASSUME AllPrefixesAssumption == AllPrefixes \notin Prefixes
ASSUME MaxGenAssumption == MaxGen \in Nat

Gens == 0..MaxGen

\* What is stored is the normalised prefix.
StoredPrefixes == {NormalizePathPrefix(p) : p \in Prefixes}

\* RouteOwner metadata of an entry: none in an entry written by an older nsl
\* and in a static route, else with or without a start time.
Owners == {"none", "unstamped", "stamped"}

\* RouteMapping.
Route == [host: Hosts, prefix: StoredPrefixes, pid: Pids \cup {NoPid},
          gen: Gens, owner: Owners]

\* The commands that write the table.
AddOp == [kind: {"add"}, user: Users, host: Hosts, prefix: Prefixes,
          pid: Pids \cup {NoPid}, gen: Gens, owner: Owners, force: BOOLEAN]
RemoveOp == [kind: {"remove"}, user: Users, host: Hosts,
             prefix: Prefixes \cup {AllPrefixes}]
RemoveForPidOp == [kind: {"removeForPid"}, user: Users, host: Hosts,
                   prefix: Prefixes \cup {AllPrefixes}, pid: Pids]
Op == AddOp \cup RemoveOp \cup RemoveForPidOp

ASSUME RequestsAssumption == Requests \subseteq Op

-------------------------------------------------------------------------------
(* State of the processes that routes point to: app[pid] is the current or  *)
(* last incarnation of the pid.                                             *)

AppState == [Pids -> [alive: BOOLEAN, gen: Gens, user: Users]]

MaySignal(user, other) == user \in {Superuser, other}

\* kill(pid, 0): pid 0 counts as alive, incarnations are not told apart, and a
\* process that may not be signalled (EPERM) counts as dead.
IsProcessAlive(pid, user, app) ==
  IF pid = NoPid THEN TRUE ELSE app[pid].alive /\ MaySignal(user, app[pid].user)

\* The process that registered r is gone, whoever has its pid now.
Ended(r, app) ==
  /\ r.pid # NoPid
  /\ ~(app[r.pid].alive /\ app[r.pid].gen = r.gen)

\* It is gone, or belongs to someone whose processes the user may not signal.
Gone(r, user, app) ==
  \/ Ended(r, app)
  \/ r.pid # NoPid /\ ~MaySignal(user, app[r.pid].user)

\* Variant with a fault: the recorded start time is not compared.
OwnerIsCurrentByPid(r, user, app) ==
  /\ r.owner # "none"
  /\ IsProcessAlive(r.pid, user, app)

\* validate_app_owner: alive, and the incarnation that was recorded if a start
\* time was.  What the model does not tell apart (platform, process group, cwd)
\* may fail as well, and the command that forces then ends with an error.
OwnerIsCurrent(r, user, app) ==
  /\ r.owner # "none"
  /\ IsProcessAlive(r.pid, user, app)
  /\ r.owner = "stamped" => app[r.pid].gen = r.gen

-------------------------------------------------------------------------------
\* load_routes: entries of dead pids are dropped on every load.
LoadedRoutes(file, user, app) == {r \in file : IsProcessAlive(r.pid, user, app)}

\* Variants with a fault: prefixes compared as they are spelled, and a
\* clean-up that forgets whose entry it removes.
SameKeyAsSpelled(r, host, prefix) == r.host = host /\ r.prefix = prefix

InScopeAsSpelled(r, host, prefix) ==
  r.host = host /\ (prefix = AllPrefixes \/ r.prefix = prefix)

SameKey(r, host, prefix) ==
  /\ r.host = host
  /\ NormalizePathPrefix(r.prefix) = NormalizePathPrefix(prefix)

InScope(r, host, prefix) ==
  /\ r.host = host
  /\ \/ prefix = AllPrefixes
     \/ NormalizePathPrefix(r.prefix) = NormalizePathPrefix(prefix)

NewRoute(o) == [host |-> o.host, prefix |-> NormalizePathPrefix(o.prefix),
                pid |-> o.pid, gen |-> o.gen, owner |-> o.owner]

\* Normalising pops one trailing slash: `/api//` is stored as `/api/`, which is
\* not its own normal form, and add, remove and find compare normal forms.
Plain(prefix) == NormalizePathPrefix(prefix) = prefix

Holders(routes, o) == {r \in routes : SameKey(r, o.host, o.prefix)}

\* The entries an operation deletes on purpose.
Targets(o, r) ==
  \/ o.kind = "add" /\ SameKey(r, o.host, o.prefix)
  \/ o.kind = "remove" /\ InScope(r, o.host, o.prefix)
  \/ o.kind = "removeForPid" /\ InScope(r, o.host, o.prefix) /\ r.pid = o.pid

Evicted(routes, o) == {r \in routes : Targets(o, r)}

Inserted(o) == IF o.kind = "add" THEN {NewRoute(o)} ELSE {}

Updated(routes, o) == (routes \ Evicted(routes, o)) \cup Inserted(o)
===============================================================================
