------------------------------ MODULE RouteStore ------------------------------
(***************************************************************************)
(* Concurrent commands on one routes.json (crates/nsl/src/routes.rs).      *)
(*                                                                         *)
(* Every command that writes the table takes the lock directory            *)
(* routes.lock with create_dir, loads the file, decides, writes the file   *)
(* with fs::write (truncate, then write) and removes the lock directory    *)
(* when the guard is dropped, on every return path.  A waiter that finds   *)
(* the directory older than STALE_LOCK_THRESHOLD removes it, whoever made  *)
(* it.  Nothing on disk says who holds the lock.                           *)
(***************************************************************************)
EXTENDS RouteTable, FiniteSets

CONSTANTS Procs,     \* processes running nsl commands
          NoOp,      \* a process that runs no command
          NoRoute,   \* a command that is not replacing an entry by force
          MaxTries   \* LOCK_MAX_RETRIES

ASSUME NoOpAssumption == NoOp \notin Op
ASSUME MaxTriesAssumption == MaxTries \in Nat \ {0}

VARIABLES
  file,       \* the entries of routes.json; an absent file reads as empty
  torn,       \* the file is truncated and does not parse
  failed,     \* a write of the truncated file returned an error (history)
  lock,       \* routes.lock: absent, or present and young or over-age
  app,        \* the processes the routes point to
  signalled,  \* incarnations that were sent SIGTERM by a forced replacement
  pc,         \* where each command is
  op,         \* what each command does
  routes,     \* the vector a command has in memory
  existing,   \* the entry whose process a command is about to signal
  seen,       \* which incarnation of it the command has checked (history)
  tries       \* attempts of acquire_lock that a command has used

text  == <<file, torn, failed>>
store == <<file, torn, failed, lock>>
world == <<app, signalled>>
chosen == <<existing, seen>>
local == <<pc, op, routes, existing, seen, tries>>
vars  == <<file, torn, failed, lock, app, signalled, pc, op, routes, existing, seen,
           tries>>

Locks == {"absent", "fresh", "stale"}

\* Inside these the command owns a LockGuard.
Critical == {"load", "check", "kill", "truncate", "write", "release", "abort"}
Waiting  == {"mkdir", "stat", "reclaim"}

Holding(p) == pc[p] \in Critical

Goto(p, label) == pc' = [pc EXCEPT ![p] = label]

-------------------------------------------------------------------------------
(* A table written by an older nsl may hold one entry without an owner.     *)
LegacyRoute == [host: Hosts, prefix: StoredPrefixes, pid: Pids, gen: {0},
                owner: {"none"}]

Init ==
  /\ file \in {{}} \cup {{r} : r \in LegacyRoute}
  /\ torn = FALSE
  /\ failed = FALSE
  /\ lock = "absent"
  /\ app \in [Pids -> [alive: BOOLEAN, gen: {0}, user: Users]]
  /\ signalled = {}
  /\ pc = [p \in Procs |-> "idle"]
  /\ op = [p \in Procs |-> NoOp]
  /\ routes = [p \in Procs |-> {}]
  /\ existing = [p \in Procs |-> NoRoute]
  /\ seen = [p \in Procs |-> 0]
  /\ tries = [p \in Procs |-> 0]

\* What the commands of nsl ask for: `nsl route` adds entries of pid 0
\* without an owner; `nsl run` and `nsl serve` register a process they have
\* just seen alive, their own child, with its owner; any of the removals.
Requested(o) ==
  \/ /\ o \in AddOp
     /\ \/ o.pid = NoPid /\ o.gen = 0 /\ o.owner = "none"
        \/ /\ o.pid # NoPid
           /\ o.owner # "none"
           /\ app[o.pid] = [alive |-> TRUE, gen |-> o.gen, user |-> o.user]
  \/ o \in RemoveOp \cup RemoveForPidOp

Begin(p) ==
  /\ pc[p] = "idle"
  /\ \E o \in Requests : Requested(o) /\ op' = [op EXCEPT ![p] = o]
  /\ Goto(p, "mkdir")
  /\ UNCHANGED <<store, world, routes, chosen, tries>>

\* Back to the caller; the locals of the command are gone.
Return(p) ==
  /\ Goto(p, "idle")
  /\ op' = [op EXCEPT ![p] = NoOp]
  /\ routes' = [routes EXCEPT ![p] = {}]
  /\ existing' = [existing EXCEPT ![p] = NoRoute]
  /\ seen' = [seen EXCEPT ![p] = 0]
  /\ tries' = [tries EXCEPT ![p] = 0]

\* An error return: what the command has in memory is of no more use.
Abort(p) ==
  /\ Goto(p, "abort")
  /\ routes' = [routes EXCEPT ![p] = {}]

-------------------------------------------------------------------------------
(* Variants with a fault such as an edit of the code might introduce: each  *)
(* breaks one of the properties below.                                      *)

\* Any directory in the way is taken for a stale one.
StatLockDirIgnoringAge(p) ==
  /\ pc[p] = "stat"
  /\ Goto(p, "reclaim")
  /\ UNCHANGED <<store, world, op, routes, chosen, tries>>

\* A short write goes unnoticed.
WriteFileShort(p) ==
  /\ pc[p] = "write"
  /\ UNCHANGED text
  /\ Goto(p, "release")
  /\ UNCHANGED <<lock, world, op, routes, chosen, tries>>

-------------------------------------------------------------------------------
(* acquire_lock                                                             *)

\* create_dir succeeds, finds the directory there, or fails for good.
CreateLockDir(p) ==
  /\ pc[p] = "mkdir"
  /\ \/ /\ lock = "absent"
        /\ lock' = "fresh"
        /\ Goto(p, "load")
        /\ UNCHANGED <<op, routes, chosen, tries>>
     \/ /\ lock # "absent"
        /\ lock' = lock
        /\ Goto(p, "stat")
        /\ UNCHANGED <<op, routes, chosen, tries>>
     \/ /\ lock' = lock
        /\ Return(p)
  /\ UNCHANGED <<text, world>>

\* The end of one round of the loop: sleep or `continue`, or LockFailed.
NextRound(p) ==
  \/ /\ tries[p] + 1 < MaxTries
     /\ tries' = [tries EXCEPT ![p] = @ + 1]
     /\ Goto(p, "mkdir")
     /\ UNCHANGED <<op, routes, chosen>>
  \/ /\ tries[p] + 1 = MaxTries
     /\ Return(p)

\* Variant with a fault: a stale directory is looked at again and again.
StatLockDirSpinning(p) ==
  /\ pc[p] = "stat"
  /\ \/ /\ lock = "stale"
        /\ Goto(p, "mkdir")
        /\ UNCHANGED <<op, routes, chosen, tries>>
     \/ /\ lock # "stale"
        /\ NextRound(p)
  /\ UNCHANGED <<store, world>>

\* The age of the directory; a directory that is gone counts as young.
StatLockDir(p) ==
  /\ pc[p] = "stat"
  /\ \/ /\ lock = "stale"
        /\ Goto(p, "reclaim")
        /\ UNCHANGED <<op, routes, chosen, tries>>
     \/ /\ lock # "stale"
        /\ NextRound(p)
  /\ UNCHANGED <<store, world>>

\* remove_dir_all deletes whatever directory is there by now.
ReclaimLockDir(p) ==
  /\ pc[p] = "reclaim"
  /\ lock' = "absent"
  /\ NextRound(p)
  /\ UNCHANGED <<text, world>>

-------------------------------------------------------------------------------
(* The critical section                                                     *)

\* load_routes; a file that cannot be read, or does not parse, makes the
\* command fail.
LoadRoutes(p) ==
  /\ pc[p] = "load"
  /\ \/ Abort(p)
     \/ /\ ~torn
        /\ op[p].kind = "add"
        /\ routes' = [routes EXCEPT ![p] = LoadedRoutes(file, op[p].user, app)]
        /\ Goto(p, "check")
     \/ /\ ~torn
        /\ op[p].kind # "add"
        /\ routes' = [routes EXCEPT ![p] = Updated(LoadedRoutes(file, op[p].user, app), op[p])]
        /\ Goto(p, "truncate")
  /\ UNCHANGED <<store, world, op, chosen, tries>>

\* Variant with a fault: the test of the holder's process is inverted.
OccupiedByTheDead(r, o) == r.pid # o.pid /\ ~IsProcessAlive(r.pid, o.user, app)

Occupied(r, o) == r.pid # o.pid /\ IsProcessAlive(r.pid, o.user, app)

Replace(p) ==
  /\ routes' = [routes EXCEPT ![p] = Updated(@, op[p])]
  /\ Goto(p, "truncate")

\* Nobody live holds the key: dead entries, the caller's own, or none.
CheckFree(p) ==
  /\ \/ Holders(routes[p], op[p]) = {}
     \/ \E r \in Holders(routes[p], op[p]) : ~Occupied(r, op[p])
  /\ Replace(p)
  /\ UNCHANGED chosen

\* RouteConflict.
CheckConflict(p) ==
  /\ ~op[p].force
  /\ \E r \in Holders(routes[p], op[p]) : Occupied(r, op[p])
  /\ Abort(p)
  /\ UNCHANGED chosen

\* A forced replacement: a static entry is just replaced; of a process the
\* owner is checked, with UnsafeRouteReplacement if it is not the recorded one.
CheckForced(p) ==
  /\ op[p].force
  /\ \E r \in Holders(routes[p], op[p]) :
       /\ Occupied(r, op[p])
       /\ \/ /\ r.pid = NoPid
             /\ Replace(p)
             /\ UNCHANGED chosen
          \/ /\ r.pid # NoPid
             /\ OwnerIsCurrent(r, op[p].user, app)
             /\ existing' = [existing EXCEPT ![p] = r]
             /\ seen' = [seen EXCEPT ![p] = app[r.pid].gen]
             /\ Goto(p, "kill")
             /\ UNCHANGED routes
          \/ /\ r.pid # NoPid
             /\ Abort(p)
             /\ UNCHANGED chosen

CheckConflicts(p) ==
  /\ pc[p] = "check"
  /\ CheckFree(p) \/ CheckConflict(p) \/ CheckForced(p)
  /\ UNCHANGED <<store, world, op, tries>>

\* kill or killpg: whoever has the pid by now gets the SIGTERM; a process group
\* outlives its leader, and then only the rest of it is signalled; or there is
\* nobody to signal, or it is not allowed, and the command fails.
KillOwner(p) ==
  /\ pc[p] = "kill"
  /\ LET a == existing[p].pid IN
     \/ /\ IsProcessAlive(a, op[p].user, app)
        /\ signalled' = signalled \cup {<<a, app[a].gen>>}
        /\ Replace(p)
     \/ /\ ~app[a].alive
        /\ Replace(p)
        /\ UNCHANGED signalled
     \/ /\ Abort(p)
        /\ UNCHANGED signalled
  /\ existing' = [existing EXCEPT ![p] = NoRoute]
  /\ seen' = [seen EXCEPT ![p] = 0]
  /\ UNCHANGED <<store, app, op, tries>>

\* save_routes may find that it cannot open the file for writing: the table is
\* as it was, and a holder that was signalled stays signalled.
OpenFails(p) ==
  /\ pc[p] = "truncate"
  /\ Abort(p)
  /\ UNCHANGED <<store, world, op, chosen, tries>>

\* fs::write opens the file with O_TRUNC ...
TruncateFile(p) ==
  /\ pc[p] = "truncate"
  /\ torn' = TRUE
  /\ file' = {}
  /\ Goto(p, "write")
  /\ UNCHANGED <<failed, lock, world, op, routes, chosen, tries>>

\* ... and writes the new text.
WriteFile(p) ==
  /\ pc[p] = "write"
  /\ torn' = FALSE
  /\ file' = routes[p]
  /\ Goto(p, "release")
  /\ UNCHANGED <<failed, lock, world, op, routes, chosen, tries>>

\* The write returns an error, on a full disk for instance: the file stays as
\* truncated, or with a part of the text that does not parse either.
WriteFails(p) ==
  /\ pc[p] = "write"
  /\ failed' = TRUE
  /\ Abort(p)
  /\ UNCHANGED <<file, torn, lock, world, op, chosen, tries>>

\* LockGuard::drop, on success and on error.
DropLockGuard(p) ==
  /\ pc[p] \in {"release", "abort"}
  /\ lock' = "absent"
  /\ Return(p)
  /\ UNCHANGED <<text, world>>

-------------------------------------------------------------------------------
(* The world around the commands                                            *)

AppExit(a) ==
  /\ app[a].alive
  /\ app' = [app EXCEPT ![a].alive = FALSE]
  /\ UNCHANGED <<store, signalled, local>>

\* A new process gets the pid.
AppStart(a) ==
  /\ ~app[a].alive
  /\ app[a].gen < MaxGen
  /\ \E u \in Users :
       app' = [app EXCEPT ![a] = [alive |-> TRUE, gen |-> @.gen + 1, user |-> u]]
  /\ UNCHANGED <<store, signalled, local>>

\* A command is killed: no destructor runs, the files stay as they are.
Crash(p) ==
  /\ pc[p] # "idle"
  /\ Return(p)
  /\ UNCHANGED <<store, world>>

Orphaned == lock # "absent" /\ ~ \E p \in Procs : Holding(p)

\* Ten seconds pass.  A command is far faster than that, so only a directory
\* whose maker died grows over-age.
AgeLockDir ==
  /\ lock = "fresh"
  /\ Orphaned
  /\ lock' = "stale"
  /\ UNCHANGED <<text, world, local>>

-------------------------------------------------------------------------------
Step(p) ==
  \/ CreateLockDir(p) \/ StatLockDir(p) \/ ReclaimLockDir(p)
  \/ LoadRoutes(p) \/ CheckConflicts(p) \/ KillOwner(p) \/ OpenFails(p)
  \/ TruncateFile(p) \/ WriteFile(p) \/ WriteFails(p) \/ DropLockGuard(p)

Next ==
  \/ \E p \in Procs : Begin(p) \/ Step(p)
  \/ \E a \in Pids : AppExit(a) \/ AppStart(a)

Spec == Init /\ [][Next]_vars

CrashNext == Next \/ (\E p \in Procs : Crash(p)) \/ AgeLockDir

CrashSpec == Init /\ [][CrashNext]_vars

\* The operating system schedules the commands that run and the clock goes on;
\* nothing makes a user start a command.
LiveCrashSpec ==
  CrashSpec /\ (\A p \in Procs : WF_vars(Step(p))) /\ WF_vars(AgeLockDir)

-------------------------------------------------------------------------------
(* Correctness                                                              *)

Writers == {p \in Procs : pc[p] = "write"}

\* The table as readers are meant to see it: the file, and while the file is
\* truncated, what its writer is about to put in it, if it has one.
Table == IF ~torn THEN file
         ELSE IF Writers = {} THEN {}
         ELSE routes[CHOOSE p \in Procs : pc[p] = "write"]

Atomic == INSTANCE AtomicRoutes WITH table <- Table, lost <- failed

\* While no command dies, the lock makes every command take effect at once:
\* no update is lost and no live entry goes away except by a removal that
\* names it, by its own process, by force after its process was signalled, by
\* a user who cannot see its process, or with the whole table when a write of
\* save_routes fails.
ImplementsAtomicRoutes == Atomic!Spec

TypeOK ==
  /\ file \in SUBSET Route
  /\ torn \in BOOLEAN
  /\ failed \in BOOLEAN
  /\ lock \in Locks
  /\ app \in AppState
  /\ signalled \in SUBSET (Pids \X Gens)
  /\ pc \in [Procs -> {"idle"} \cup Waiting \cup Critical]
  /\ op \in [Procs -> Op \cup {NoOp}]
  /\ routes \in [Procs -> SUBSET Route]
  /\ existing \in [Procs -> Route \cup {NoRoute}]
  /\ seen \in [Procs -> Gens]
  /\ tries \in [Procs -> 0..(MaxTries - 1)]

\* While no command dies, at most one command is between taking and dropping
\* routes.lock (routes.rs acquire_lock, LockGuard), whatever the interleaving
\* of create_dir, stat and remove_dir_all.
MutualExclusion ==
  \A p, q \in Procs : Holding(p) /\ Holding(q) => p = q

\* A reader without the lock (the proxy, list, status) meets a file that does
\* not parse only while a command is between truncating and writing it, or
\* after such a write returned an error (save_routes); then it is so for good,
\* as no later command gets past its load.
TornOnlyWhileWriting ==
  /\ torn => failed \/ Writers # {}
  /\ failed => torn /\ \A p \in Procs : pc[p] \in {"load", "abort"} \/ ~Holding(p)

\* When an add returns Ok, the table holds the new entry and no other one that
\* answers to the name and path it was given, spelled as they may be, whatever
\* other commands did since it was started.
AddedRouteIsSole ==
  \A p \in Procs :
    (pc[p] = "release" /\ op[p].kind = "add") =>
      /\ NewRoute(op[p]) \in file
      /\ \A r \in file \ {NewRoute(op[p])} :
           ~(/\ r.host = op[p].host
             /\ NormalizePathPrefix(r.prefix) = NormalizePathPrefix(op[p].prefix))

\* When `nsl route --remove name:path` returns Ok, no entry is left that an
\* add with the same name and path would have stored.  This is not so of a path
\* with two slashes at its end: its own entry does not answer to it.
RemovedRouteIsGone ==
  \A p \in Procs :
    (/\ pc[p] = "release" /\ op[p].kind = "remove" /\ op[p].prefix # AllPrefixes
     /\ Plain(NormalizePathPrefix(op[p].prefix))) =>
      ~ \E r \in file : /\ r.host = op[p].host
                        /\ r.prefix = NormalizePathPrefix(op[p].prefix)

\* A forced replacement signals a process only for an entry with an owner that
\* it is about to replace.  If the start time was recorded, it signals the very
\* process that registered the entry, unless another one got the pid between
\* the check and the kill (validate_app_owner, kill_app_process).
KillsOnlyTheRecordedOwner ==
  [][\A s \in signalled' \ signalled :
       \E p \in Procs, r \in file :
         /\ pc[p] = "kill" /\ r = existing[p]
         /\ SameKey(r, op[p].host, op[p].prefix) /\ op[p].force
         /\ r.owner # "none" /\ s[1] = r.pid
         /\ r.owner = "stamped" => s[2] = r.gen \/ s[2] # seen[p]]_vars

\* A lock directory left behind by a command that died does not stay for ever:
\* as long as commands keep looking at it, and do not all die while they
\* remove it or after, one of them reclaims it (acquire_lock's stale check).
OrphanIsReclaimed ==
  /\ <>[][\A p \in Procs : Crash(p) =>
            pc[p] = "mkdir" \/ (pc[p] = "stat" /\ lock # "stale")]_vars
  /\ []<> \E p \in Procs : pc[p] = "stat"
  => []<> ~Orphaned

-------------------------------------------------------------------------------
(* The inductive strengthening behind the safety properties of Spec; the    *)
(* proofs are in RouteStoreProofs.                                          *)

\* Plain keys are held once.  Two entries may have the key `/api/`.
UniqueKeys(S) ==
  \A r, s \in S :
    r.host = s.host /\ r.prefix = s.prefix /\ Plain(r.prefix) => r = s

\* An incarnation is registered after it came into being.
Known(r) == r.pid \in Pids => r.gen <= app[r.pid].gen

\* The directory exists exactly while some command holds it, and it never
\* grows over-age, so nobody removes it but its holder.
LockInv ==
  /\ lock # "stale"
  /\ \A p \in Procs : pc[p] # "reclaim"
  /\ lock = "absent" <=> ~ \E p \in Procs : Holding(p)
  /\ MutualExclusion

OpInv ==
  \A p \in Procs :
    /\ pc[p] # "idle" => op[p] \in Op \cap Requests
    /\ pc[p] \in {"check", "kill"} => op[p] \in AddOp
    /\ op[p] \in AddOp /\ op[p].pid \in Pids => op[p].gen <= app[op[p].pid].gen

FileInv ==
  /\ torn <=> failed \/ Writers # {}
  /\ failed => \A p \in Procs : pc[p] \in {"load", "abort"} \/ ~Holding(p)
  /\ torn => file = {}
  /\ \A r \in file : Known(r)
  /\ UniqueKeys(file)

\* The vector in memory is the file without some entries of processes that are
\* dead to the command...
Current(p) ==
  /\ routes[p] \subseteq file
  /\ \A r \in file \ routes[p] : Gone(r, op[p].user, app)

\* ... of which one that stands in the way was checked and is signalled next ...
Chosen(p) ==
  /\ existing[p] \in Holders(routes[p], op[p])
  /\ existing[p].pid # NoPid
  /\ existing[p].owner # "none"
  /\ existing[p].owner = "stamped" => seen[p] = existing[p].gen
  /\ op[p].force

\* ... and then that vector with the command applied to it.
Prepared(p) ==
  /\ op[p].kind = "add" => Atomic!MayReplace(Holders(file, op[p]), op[p])
  /\ routes[p] \subseteq Updated(file, op[p])
  /\ Inserted(op[p]) \subseteq routes[p]
  /\ \A r \in Updated(file, op[p]) \ routes[p] : Gone(r, op[p].user, app)

\* What an add leaves in memory holds one entry under its key, its own.
Sole(p) ==
  op[p].kind = "add" =>
    /\ NewRoute(op[p]) \in routes[p]
    /\ \A r \in routes[p] : SameKey(r, op[p].host, op[p].prefix) => r = NewRoute(op[p])

\* What a removal leaves in memory holds nothing it was asked to remove.
Cleared(p) ==
  op[p].kind # "add" => \A r \in routes[p] : ~Targets(op[p], r)

MemoryInv ==
  \A p \in Procs :
    /\ pc[p] \in {"check", "kill"} => Current(p)
    /\ pc[p] = "kill" => Chosen(p)
    /\ pc[p] = "truncate" => Prepared(p)
    /\ pc[p] \in {"truncate", "write", "release"} => Sole(p) /\ Cleared(p)
    /\ UniqueKeys(routes[p])
    /\ \A r \in routes[p] : Known(r)
    /\ pc[p] = "release" => file = routes[p]

IInv == TypeOK /\ LockInv /\ OpInv /\ FileInv /\ MemoryInv
===============================================================================
