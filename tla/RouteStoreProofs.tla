--------------------------- MODULE RouteStoreProofs ---------------------------
(***************************************************************************)
(* Proofs about RouteStore, for every set of commands, hosts, prefixes and *)
(* processes.                                                              *)
(***************************************************************************)
EXTENDS RouteStore, TLAPS

-------------------------------------------------------------------------------
(* Lemmas about the operators of RouteTable                                 *)

\* An add, and only an add, has the fields of an add.
LEMMA OpKinds ==
  ASSUME NEW o \in Op
  PROVE  /\ o.kind \in {"add", "remove", "removeForPid"}
         /\ o.kind = "add" <=> o \in AddOp
BY DEF Op, AddOp, RemoveOp, RemoveForPidOp

\* The entry an add stores is a well-formed entry.
LEMMA NewRouteType ==
  ASSUME NEW o \in AddOp
  PROVE  NewRoute(o) \in Route
<1>1. NormalizePathPrefix(o.prefix) \in StoredPrefixes
  BY DEF AddOp, StoredPrefixes
<1> QED
  BY <1>1 DEF AddOp, NewRoute, Route

\* A command keeps the table well-formed.
LEMMA UpdatedType ==
  ASSUME NEW S \in SUBSET Route, NEW o \in Op
  PROVE  Updated(S, o) \in SUBSET Route
BY OpKinds, NewRouteType DEF Updated, Inserted

\* A command adds at most its own entry and otherwise only deletes.
LEMMA UpdatedBounds ==
  ASSUME NEW S, NEW o
  PROVE  /\ Updated(S, o) \subseteq S \cup Inserted(o)
         /\ Inserted(o) \subseteq Updated(S, o)
BY DEF Updated

LEMMA LoadedBounds ==
  ASSUME NEW S, NEW u, NEW a
  PROVE  LoadedRoutes(S, u, a) \subseteq S
BY DEF LoadedRoutes

-------------------------------------------------------------------------------
(* Types                                                                    *)

LEMMA InitType == Init => TypeOK
<1> SUFFICES ASSUME Init PROVE TypeOK
  OBVIOUS
<1>1. 0 \in Gens /\ {0} \subseteq Gens
  BY MaxGenAssumption DEF Gens
<1>2. \A r \in LegacyRoute : r \in Route
  BY <1>1 DEF LegacyRoute, Route, Owners
<1>3. file \in SUBSET Route
  BY <1>2 DEF Init
<1>4. \A s \in [alive: BOOLEAN, gen: {0}, user: Users] :
         s \in [alive: BOOLEAN, gen: Gens, user: Users]
  BY <1>1
<1>5. app \in AppState
  BY <1>4 DEF Init, AppState
<1>6. 0 \in 0..(MaxTries - 1)
  BY MaxTriesAssumption
<1> QED
  BY <1>1, <1>3, <1>5, <1>6 DEF Init, TypeOK, Locks

LEMMA TypeStep == TypeOK /\ OpInv /\ MemoryInv /\ [Next]_vars => TypeOK'
<1> SUFFICES ASSUME TypeOK, OpInv, MemoryInv, [Next]_vars PROVE TypeOK'
  OBVIOUS
<1> USE DEF Goto, Abort, Critical, Waiting, Locks, text, store, world, chosen, local
<1>0. 0 \in Gens
  BY MaxGenAssumption DEF Gens
<1>1. ASSUME NEW p \in Procs, Begin(p) PROVE TypeOK'
  BY <1>1, RequestsAssumption DEF TypeOK, Begin
<1>2. ASSUME NEW p \in Procs, CreateLockDir(p) PROVE TypeOK'
  BY <1>2, <1>0, MaxTriesAssumption DEF TypeOK, CreateLockDir, Return
<1>3. ASSUME NEW p \in Procs, StatLockDir(p) PROVE TypeOK'
  BY <1>3, <1>0, MaxTriesAssumption DEF TypeOK, StatLockDir, NextRound, Return
<1>4. ASSUME NEW p \in Procs, ReclaimLockDir(p) PROVE TypeOK'
  BY <1>4, <1>0, MaxTriesAssumption DEF TypeOK, ReclaimLockDir, NextRound, Return
<1>5. ASSUME NEW p \in Procs, LoadRoutes(p) PROVE TypeOK'
  <2>1. op[p] \in Op
    BY <1>5 DEF OpInv, LoadRoutes
  <2>2. LoadedRoutes(file, op[p].user, app) \in SUBSET Route
    BY LoadedBounds DEF TypeOK
  <2>3. Updated(LoadedRoutes(file, op[p].user, app), op[p]) \in SUBSET Route
    BY <2>1, <2>2, UpdatedType
  <2> QED
    BY <1>5, <2>2, <2>3 DEF TypeOK, LoadRoutes
<1>6. ASSUME NEW p \in Procs, CheckConflicts(p) PROVE TypeOK'
  <2>1. op[p] \in Op
    BY <1>6 DEF OpInv, CheckConflicts
  <2>2. Updated(routes[p], op[p]) \in SUBSET Route
    BY <2>1, UpdatedType DEF TypeOK
  <2>3. \A r \in Holders(routes[p], op[p]) :
          r \in Route /\ (r.pid # NoPid => app[r.pid].gen \in Gens)
    BY DEF TypeOK, AppState, Route, Holders
  <2> QED
    BY <1>6, <2>2, <2>3 DEF TypeOK, CheckConflicts, CheckFree, CheckConflict,
                            CheckForced, Replace
<1>14. ASSUME NEW p \in Procs, KillOwner(p) PROVE TypeOK'
  <2>1. op[p] \in Op /\ existing[p] \in Route /\ existing[p].pid # NoPid
    BY <1>14 DEF OpInv, MemoryInv, Chosen, Current, Holders, KillOwner, TypeOK
  <2>2. Updated(routes[p], op[p]) \in SUBSET Route
    BY <2>1, UpdatedType DEF TypeOK
  <2>3. <<existing[p].pid, app[existing[p].pid].gen>> \in Pids \X Gens
    BY <2>1 DEF TypeOK, AppState, Route
  <2> QED
    BY <1>14, <1>0, <2>2, <2>3 DEF TypeOK, KillOwner, Replace
<1>13. ASSUME NEW p \in Procs, OpenFails(p) PROVE TypeOK'
  BY <1>13 DEF TypeOK, OpenFails
<1>15. ASSUME NEW p \in Procs, WriteFails(p) PROVE TypeOK'
  BY <1>15 DEF TypeOK, WriteFails
<1>7. ASSUME NEW p \in Procs, TruncateFile(p) PROVE TypeOK'
  BY <1>7 DEF TypeOK, TruncateFile
<1>8. ASSUME NEW p \in Procs, WriteFile(p) PROVE TypeOK'
  BY <1>8 DEF TypeOK, WriteFile
<1>9. ASSUME NEW p \in Procs, DropLockGuard(p) PROVE TypeOK'
  BY <1>9, <1>0, MaxTriesAssumption DEF TypeOK, DropLockGuard, Return
<1>10. ASSUME NEW a \in Pids, AppExit(a) PROVE TypeOK'
  BY <1>10 DEF TypeOK, AppExit, AppState
<1>11. ASSUME NEW a \in Pids, AppStart(a) PROVE TypeOK'
  BY <1>11, MaxGenAssumption DEF TypeOK, AppStart, AppState, Gens
<1>12. CASE UNCHANGED vars
  BY <1>12 DEF TypeOK, vars
<1> QED
  BY <1>1, <1>2, <1>3, <1>4, <1>5, <1>6, <1>7, <1>8, <1>9, <1>10, <1>11, <1>12, <1>13,
     <1>14, <1>15 DEF Next, Step

-------------------------------------------------------------------------------
(* The lock                                                                 *)

LEMMA InitLock == Init => LockInv
BY DEF Init, LockInv, MutualExclusion, Holding, Critical

LEMMA LockStep == TypeOK /\ LockInv /\ [Next]_vars => LockInv'
<1> SUFFICES ASSUME TypeOK, LockInv, [Next]_vars PROVE LockInv'
  OBVIOUS
<1> USE DEF Goto, Abort, Critical, Holding, MutualExclusion, LockInv, text, store, world,
            chosen, local
<1>t. pc \in [Procs -> {"idle"} \cup Waiting \cup Critical]
  BY DEF TypeOK
<1>1. ASSUME NEW p \in Procs, Begin(p) PROVE LockInv'
  BY <1>1, <1>t DEF Begin
<1>2. ASSUME NEW p \in Procs, CreateLockDir(p) PROVE LockInv'
  <2>1. CASE lock = "absent" /\ lock' = "fresh" /\ Goto(p, "load")
    BY <1>2, <1>t, <2>1 DEF CreateLockDir
  <2>2. CASE lock # "absent" /\ lock' = lock /\ Goto(p, "stat")
    BY <1>2, <1>t, <2>2 DEF CreateLockDir
  <2>3. CASE lock' = lock /\ Return(p)
    BY <1>2, <1>t, <2>3 DEF CreateLockDir, Return
  <2> QED
    BY <1>2, <2>1, <2>2, <2>3 DEF CreateLockDir
<1>3. ASSUME NEW p \in Procs, StatLockDir(p) PROVE LockInv'
  <2>1. NextRound(p)
    BY <1>3 DEF StatLockDir
  <2>2. Goto(p, "mkdir") \/ Goto(p, "idle")
    BY <2>1 DEF NextRound, Return
  <2> QED
    BY <1>3, <1>t, <2>2 DEF StatLockDir
<1>4. ASSUME NEW p \in Procs, ReclaimLockDir(p) PROVE LockInv'
  BY <1>4 DEF ReclaimLockDir
<1>5. ASSUME NEW p \in Procs, LoadRoutes(p) PROVE LockInv'
  <2>1. Goto(p, "abort") \/ Goto(p, "check") \/ Goto(p, "truncate")
    BY <1>5 DEF LoadRoutes
  <2> QED
    BY <1>5, <1>t, <2>1 DEF LoadRoutes
<1>6. ASSUME NEW p \in Procs, CheckConflicts(p) PROVE LockInv'
  <2>1. Goto(p, "abort") \/ Goto(p, "kill") \/ Goto(p, "truncate")
    BY <1>6 DEF CheckConflicts, CheckFree, CheckConflict, CheckForced, Replace
  <2> QED
    BY <1>6, <1>t, <2>1 DEF CheckConflicts
<1>14. ASSUME NEW p \in Procs, KillOwner(p) PROVE LockInv'
  <2>1. Goto(p, "abort") \/ Goto(p, "truncate")
    BY <1>14 DEF KillOwner, Replace
  <2> QED
    BY <1>14, <1>t, <2>1 DEF KillOwner
<1>13. ASSUME NEW p \in Procs, OpenFails(p) PROVE LockInv'
  BY <1>13, <1>t DEF OpenFails
<1>15. ASSUME NEW p \in Procs, WriteFails(p) PROVE LockInv'
  BY <1>15, <1>t DEF WriteFails
<1>7. ASSUME NEW p \in Procs, TruncateFile(p) PROVE LockInv'
  BY <1>7, <1>t DEF TruncateFile
<1>8. ASSUME NEW p \in Procs, WriteFile(p) PROVE LockInv'
  BY <1>8, <1>t DEF WriteFile
<1>9. ASSUME NEW p \in Procs, DropLockGuard(p) PROVE LockInv'
  BY <1>9, <1>t DEF DropLockGuard, Return
<1>10. ASSUME NEW a \in Pids, AppExit(a) PROVE LockInv'
  BY <1>10 DEF AppExit
<1>11. ASSUME NEW a \in Pids, AppStart(a) PROVE LockInv'
  BY <1>11 DEF AppStart
<1>12. CASE UNCHANGED vars
  BY <1>12 DEF vars
<1> QED
  BY <1>1, <1>2, <1>3, <1>4, <1>5, <1>6, <1>7, <1>8, <1>9, <1>10, <1>11, <1>12, <1>13,
     <1>14, <1>15 DEF Next, Step

-------------------------------------------------------------------------------
(* The commands                                                             *)

LEMMA InitOp == Init => OpInv
BY NoOpAssumption DEF Init, OpInv, Op

\* Known and the bound on op[p].gen survive every step of the processes.
LEMMA GenGrows ==
  ASSUME TypeOK, [Next]_vars, NEW a \in Pids
  PROVE  app[a].gen \in Nat /\ app'[a].gen \in Nat /\ app[a].gen <= app'[a].gen
<1>1. app[a].gen \in Nat
  BY MaxGenAssumption DEF TypeOK, AppState, Gens
<1>2. CASE app' = app
  BY <1>1, <1>2
<1>3. ASSUME NEW b \in Pids, AppExit(b) PROVE app'[a].gen = app[a].gen
  BY <1>3 DEF AppExit, TypeOK, AppState
<1>4. ASSUME NEW b \in Pids, AppStart(b)
      PROVE  app'[a].gen = app[a].gen \/ app'[a].gen = app[a].gen + 1
  BY <1>4 DEF AppStart, TypeOK, AppState
<1>5. app' = app \/ \E b \in Pids : AppExit(b) \/ AppStart(b)
  BY DEF Next, Step, vars, world, Begin, CreateLockDir, StatLockDir,
         ReclaimLockDir, LoadRoutes, CheckConflicts, KillOwner, OpenFails, TruncateFile, WriteFile, WriteFails,
         DropLockGuard
<1> QED
  BY <1>1, <1>2, <1>3, <1>4, <1>5

LEMMA OpStep == TypeOK /\ OpInv /\ [Next]_vars => OpInv'
<1> SUFFICES ASSUME TypeOK, OpInv, [Next]_vars, NEW q \in Procs
             PROVE  /\ pc'[q] # "idle" => op'[q] \in Op \cap Requests
                    /\ pc'[q] \in {"check", "kill"} => op'[q] \in AddOp
                    /\ op'[q] \in AddOp /\ op'[q].pid \in Pids =>
                         op'[q].gen <= app'[op'[q].pid].gen
  BY DEF OpInv
<1>t. /\ pc \in [Procs -> {"idle"} \cup Waiting \cup Critical]
      /\ op \in [Procs -> Op \cup {NoOp}]
      /\ NoOp \notin AddOp
  BY NoOpAssumption DEF TypeOK, Op
<1>g. \A o \in AddOp : o.pid \in Pids => o.gen \in Int
  BY DEF AddOp, Gens
<1>1. CASE UNCHANGED <<pc, op>>
  <2>1. ASSUME op[q] \in AddOp, op[q].pid \in Pids
        PROVE  op[q].gen <= app'[op[q].pid].gen
    BY <1>g, <2>1, GenGrows DEF OpInv
  <2> QED
    BY <1>1, <2>1 DEF OpInv
<1>2. ASSUME NEW p \in Procs, Begin(p), ~ UNCHANGED <<pc, op>>
      PROVE  /\ pc'[q] # "idle" => op'[q] \in Op \cap Requests
             /\ pc'[q] \in {"check", "kill"} => op'[q] \in AddOp
             /\ op'[q] \in AddOp /\ op'[q].pid \in Pids =>
                  op'[q].gen <= app'[op'[q].pid].gen
  <2>1. PICK o \in Op \cap Requests : Requested(o) /\ op' = [op EXCEPT ![p] = o]
    BY <1>2, RequestsAssumption DEF Begin
  <2>2. o \in AddOp /\ o.pid \in Pids => o.gen <= app[o.pid].gen
    <3> SUFFICES ASSUME o \in AddOp, o.pid \in Pids
                 PROVE  o.gen <= app[o.pid].gen
      OBVIOUS
    <3>1. o.kind = "add"
      BY DEF AddOp
    <3>2. app[o.pid] = [alive |-> TRUE, gen |-> o.gen, user |-> o.user]
      BY <2>1, <3>1, NoPidAssumption DEF Requested, RemoveOp, RemoveForPidOp
    <3> QED
      BY <3>2, <1>g
  <2> QED
    BY <1>2, <1>t, <2>1, <2>2 DEF Begin, Goto, OpInv, world
<1>3. ASSUME NEW p \in Procs, Step(p), ~ UNCHANGED <<pc, op>>
      PROVE  /\ pc'[q] # "idle" => op'[q] \in Op \cap Requests
             /\ pc'[q] \in {"check", "kill"} => op'[q] \in AddOp
             /\ op'[q] \in AddOp /\ op'[q].pid \in Pids =>
                  op'[q].gen <= app'[op'[q].pid].gen
  <2>1. app' = app
    BY <1>3 DEF Step, world, CreateLockDir, StatLockDir, ReclaimLockDir, LoadRoutes,
                CheckConflicts, KillOwner, OpenFails, TruncateFile, WriteFile, WriteFails, DropLockGuard
  <2>2. pc[p] # "idle"
    BY <1>3 DEF Step, CreateLockDir, StatLockDir, ReclaimLockDir, LoadRoutes,
                CheckConflicts, KillOwner, OpenFails, TruncateFile, WriteFile, WriteFails, DropLockGuard
  <2>3. CASE Return(p)
    BY <2>1, <2>3, <1>t DEF Return, Goto, OpInv
  <2>4. CASE op' = op /\ \E l \in {"load", "stat", "mkdir", "reclaim", "abort",
                                  "truncate", "write", "release"} : Goto(p, l)
    BY <2>1, <2>2, <2>4, <1>t DEF Goto, OpInv
  <2>5. CASE op' = op /\ Goto(p, "check") /\ op[p].kind = "add"
    BY <2>1, <2>2, <2>5, <1>t, OpKinds DEF Goto, OpInv
  <2>6. CASE op' = op /\ Goto(p, "kill") /\ pc[p] = "check"
    BY <2>1, <2>2, <2>6, <1>t DEF Goto, OpInv
  <2> QED
    BY <1>3, <2>3, <2>4, <2>5, <2>6
       DEF Step, Abort, CreateLockDir, StatLockDir, ReclaimLockDir, NextRound, LoadRoutes,
           CheckConflicts, CheckFree, CheckConflict, CheckForced, KillOwner, Replace,
           OpenFails, TruncateFile, WriteFile, WriteFails, DropLockGuard
<1>4. ASSUME NEW a \in Pids, AppExit(a) \/ AppStart(a) PROVE UNCHANGED <<pc, op>>
  BY <1>4 DEF AppExit, AppStart, local
<1>5. CASE UNCHANGED vars
  BY <1>1, <1>5 DEF vars
<1> QED
  BY <1>1, <1>2, <1>3, <1>4, <1>5 DEF Next

-------------------------------------------------------------------------------
(* The table: what Updated does to keys, and what time does to entries      *)

\* A smaller table stays smaller, and a command adds nothing to the difference.
LEMMA UpdatedMonotone ==
  ASSUME NEW S, NEW T, S \subseteq T, NEW o \in Op
  PROVE  /\ Updated(S, o) \subseteq Updated(T, o)
         /\ Updated(T, o) \ Updated(S, o) \subseteq T \ S
<1>1. Evicted(S, o) = Evicted(T, o) \cap S
  BY DEF Evicted
<1> QED
  BY <1>1 DEF Updated

\* After an add, its entry is the only one that answers to its key.
LEMMA AddIsSole ==
  ASSUME NEW S, NEW o \in AddOp,
         NEW r \in Updated(S, o), SameKey(r, o.host, o.prefix)
  PROVE  r = NewRoute(o)
<1>1. o.kind = "add"
  BY DEF AddOp
<1>2. CASE r \in S
  <2>1. r \in Evicted(S, o)
    BY <1>1, <1>2 DEF Evicted, Targets
  <2> QED
    BY <1>1, <2>1 DEF Updated, Inserted
<1> QED
  BY <1>1, <1>2 DEF Updated, Inserted

LEMMA UpdatedUnique ==
  ASSUME NEW S, NEW o \in Op, UniqueKeys(S)
  PROVE  UniqueKeys(Updated(S, o))
<1> SUFFICES ASSUME NEW r \in Updated(S, o), NEW s \in Updated(S, o),
                    r.host = s.host, r.prefix = s.prefix, Plain(r.prefix)
             PROVE  r = s
  BY DEF UniqueKeys
<1>1. CASE r \in S /\ s \in S
  BY <1>1 DEF UniqueKeys
<1>2. CASE o.kind = "add" /\ (r = NewRoute(o) \/ s = NewRoute(o))
  <2>1. o \in AddOp
    BY <1>2, OpKinds
  <2>2. r.host = o.host /\ r.prefix = NormalizePathPrefix(o.prefix)
    BY <1>2 DEF NewRoute
  <2>3. SameKey(r, o.host, o.prefix) /\ SameKey(s, o.host, o.prefix)
    BY <2>2 DEF SameKey, Plain
  <2> QED
    BY <2>1, <2>3, AddIsSole
<1> QED
  BY <1>1, <1>2 DEF Updated, Inserted

\* A process that is gone stays gone, also when its pid is used again.
LEMMA EndedStable ==
  ASSUME TypeOK, [Next]_vars, NEW r \in Route, Known(r), Ended(r, app)
  PROVE  Ended(r, app')
<1>1. r.pid \in Pids /\ r.gen \in Int
  BY DEF Ended, Route, Gens
<1>2. app[r.pid].gen \in Int
  BY <1>1 DEF TypeOK, AppState, Gens
<1>3. CASE app' = app
  BY <1>3
<1>4. ASSUME NEW b \in Pids, AppExit(b) PROVE Ended(r, app')
  BY <1>1, <1>4 DEF AppExit, Ended, TypeOK, AppState
<1>5. ASSUME NEW b \in Pids, AppStart(b) PROVE Ended(r, app')
  BY <1>1, <1>2, <1>5 DEF AppStart, Ended, TypeOK, AppState, Known
<1>6. app' = app \/ \E b \in Pids : AppExit(b) \/ AppStart(b)
  BY DEF Next, Step, vars, world, Begin, CreateLockDir, StatLockDir,
         ReclaimLockDir, LoadRoutes, CheckConflicts, KillOwner, OpenFails, TruncateFile, WriteFile, WriteFails,
         DropLockGuard
<1> QED
  BY <1>3, <1>4, <1>5, <1>6

\* A process that is gone for a user, or another's, does not become visible:
\* its pid only passes to another process after it has ended.
LEMMA GoneStable ==
  ASSUME TypeOK, [Next]_vars, NEW r \in Route, Known(r), NEW u, Gone(r, u, app)
  PROVE  Gone(r, u, app')
<1>1. CASE Ended(r, app)
  BY <1>1, EndedStable DEF Gone
<1>2. CASE ~Ended(r, app)
  <2>1. /\ r.pid \in Pids /\ ~MaySignal(u, app[r.pid].user)
        /\ app[r.pid].alive
    BY <1>2 DEF Gone, Ended, Route
  <2>2. CASE app' = app
    BY <2>1, <2>2 DEF Gone
  <2>3. ASSUME NEW b \in Pids, AppExit(b) PROVE app'[r.pid].user = app[r.pid].user
    BY <2>1, <2>3 DEF AppExit, TypeOK, AppState
  <2>4. ASSUME NEW b \in Pids, AppStart(b) PROVE app'[r.pid] = app[r.pid]
    BY <2>1, <2>4 DEF AppStart, TypeOK, AppState
  <2>5. app' = app \/ \E b \in Pids : AppExit(b) \/ AppStart(b)
    BY DEF Next, Step, vars, world, Begin, CreateLockDir, StatLockDir,
           ReclaimLockDir, LoadRoutes, CheckConflicts, KillOwner, OpenFails,
           TruncateFile, WriteFile, WriteFails, DropLockGuard
  <2> QED
    BY <2>1, <2>2, <2>3, <2>4, <2>5, NoPidAssumption DEF Gone
<1> QED
  BY <1>1, <1>2

LEMMA KnownStable ==
  ASSUME TypeOK, [Next]_vars, NEW r \in Route, Known(r)
  PROVE  Known(r)'
<1>1. r.pid \in Pids => r.gen \in Int
  BY DEF Route, Gens
<1> QED
  BY <1>1, GenGrows DEF Known

LEMMA SignalledGrows == [Next]_vars => signalled \subseteq signalled'
BY DEF Next, Step, vars, world, Begin, CreateLockDir, StatLockDir,
       ReclaimLockDir, LoadRoutes, CheckConflicts, KillOwner, OpenFails,
       TruncateFile, WriteFile, WriteFails, DropLockGuard, AppExit, AppStart

LEMMA SameGone == \A r, u, a : Atomic!Gone(r, u, a) <=> Gone(r, u, a)
BY DEF Gone, Atomic!Gone, Ended, Atomic!Ended, MaySignal, Atomic!MaySignal

LEMMA SamePlain == \A x : Atomic!Plain(x) <=> Plain(x)
BY DEF Plain, Atomic!Plain, NormalizePathPrefix, Atomic!NormalizePathPrefix, Root,
       Atomic!Root, Slash, Atomic!Slash, StartsWithSlash, Atomic!StartsWithSlash,
       EndsWithSlash, Atomic!EndsWithSlash

LEMMA ReplaceableStable ==
  ASSUME TypeOK, [Next]_vars, NEW r \in Route, Known(r), NEW o,
         Atomic!Replaceable(r, o)
  PROVE  Atomic!Replaceable(r, o)'
<1>1. Gone(r, o.user, app) => Gone(r, o.user, app')
  BY GoneStable
<1>2. Atomic!Gone(r, o.user, app) => Atomic!Gone(r, o.user, app')
  BY <1>1, SameGone
<1> QED
  BY <1>2, SignalledGrows DEF Atomic!Replaceable

\* The argument of the code: it looks at one holder of the key.  If they are all
\* spelled plainly there is no other; if not, others go unseen.
LEMMA OneReplaceable ==
  ASSUME NEW H \in SUBSET Route, UniqueKeys(H), NEW o \in AddOp,
         \A r \in H : SameKey(r, o.host, o.prefix),
         NEW K \in SUBSET H, \A r \in H \ K : Atomic!Replaceable(r, o),
         K = {} \/ \E r \in K : Atomic!Replaceable(r, o)
  PROVE  Atomic!MayReplace(H, o)
<1>1. CASE K = {}
  BY <1>1 DEF Atomic!MayReplace
<1>2. CASE \E r \in H : ~Plain(r.prefix)
  BY <1>1, <1>2, SamePlain DEF Atomic!MayReplace
<1>3. CASE K # {} /\ \A r \in H : Plain(r.prefix)
  <2>1. PICK r \in K : Atomic!Replaceable(r, o)
    BY <1>3
  <2>2. ASSUME NEW s \in H PROVE s = r
    BY <1>3, <2>2, <2>1 DEF SameKey, Plain, UniqueKeys
  <2> QED
    BY <2>1, <2>2 DEF Atomic!MayReplace
<1> QED
  BY <1>1, <1>2, <1>3

-------------------------------------------------------------------------------
(* The file and the vectors in memory                                       *)

LEMMA InitFile == Init => FileInv
<1> SUFFICES ASSUME Init PROVE FileInv
  OBVIOUS
<1>1. \A r \in file : r.gen = 0 /\ r.pid \in Pids
  BY DEF Init, LegacyRoute
<1>2. \A a \in Pids : app[a].gen = 0
  BY DEF Init
<1>3. \A r \in file : Known(r)
  BY <1>1, <1>2 DEF Known
<1>4. UniqueKeys(file)
  BY DEF Init, UniqueKeys
<1>5. Writers = {}
  BY DEF Init, Writers
<1> QED
  BY <1>3, <1>4, <1>5 DEF Init, FileInv, Holding, Critical

LEMMA InitMemory == Init => MemoryInv
BY DEF Init, MemoryInv, UniqueKeys

\* Only TruncateFile and WriteFile touch the file, each inside the lock, and a
\* write that fails leaves it as it is.
LEMMA FileSteps ==
  ASSUME [Next]_vars
  PROVE  \/ /\ UNCHANGED text
            /\ ~ \E p \in Procs : TruncateFile(p) \/ WriteFile(p) \/ WriteFails(p)
         \/ \E p \in Procs : TruncateFile(p) \/ WriteFile(p) \/ WriteFails(p)
BY DEF Next, Step, vars, store, text, Begin, CreateLockDir, StatLockDir,
       ReclaimLockDir, LoadRoutes, CheckConflicts, KillOwner, OpenFails, TruncateFile,
       WriteFile, WriteFails, DropLockGuard, AppExit, AppStart

\* A step of another command leaves the locals of q alone.
LEMMA OtherSteps ==
  ASSUME TypeOK, [Next]_vars, NEW q \in Procs
  PROVE  \/ Begin(q) \/ Step(q)
         \/ UNCHANGED <<pc[q], op[q], routes[q], existing[q], seen[q]>>
<1> USE DEF TypeOK, Goto
<1>1. ASSUME NEW p \in Procs, p # q, Begin(p)
      PROVE  UNCHANGED <<pc[q], op[q], routes[q], existing[q], seen[q]>>
  BY <1>1 DEF Begin, chosen
<1>2. ASSUME NEW p \in Procs, p # q, Step(p)
      PROVE  UNCHANGED <<pc[q], op[q], routes[q], existing[q], seen[q]>>
  BY <1>2 DEF Step, CreateLockDir, StatLockDir, ReclaimLockDir, NextRound, Return,
              LoadRoutes, CheckConflicts, CheckFree, CheckConflict, CheckForced,
              KillOwner, Replace, Abort, OpenFails, TruncateFile, WriteFile,
              WriteFails, DropLockGuard, chosen
<1>3. ASSUME NEW a \in Pids, AppExit(a) \/ AppStart(a)
      PROVE  UNCHANGED <<pc, op, routes, existing, seen>>
  BY <1>3 DEF AppExit, AppStart, local
<1> QED
  BY <1>1, <1>2, <1>3 DEF Next, vars

LEMMA FileStep == IInv /\ [Next]_vars => FileInv'
<1> SUFFICES ASSUME IInv, [Next]_vars PROVE FileInv'
  OBVIOUS
<1> USE DEF IInv
<1>t. /\ pc \in [Procs -> {"idle"} \cup Waiting \cup Critical]
      /\ routes \in [Procs -> SUBSET Route]
      /\ file \in SUBSET Route
      /\ torn \in BOOLEAN /\ failed \in BOOLEAN
  BY DEF TypeOK
<1>f. \A p \in Procs : pc[p] \in {"truncate", "write"} => ~failed
  BY DEF FileInv, Holding, Critical
<1>o. \A p, q \in Procs : pc[p] \in {"truncate", "write"} /\ q # p =>
                            pc[q] \notin Critical
  BY DEF LockInv, MutualExclusion, Holding, Critical
<1>1. ASSUME NEW p \in Procs, TruncateFile(p) PROVE FileInv'
  <2>1. /\ pc[p] = "truncate" /\ pc'[p] = "write"
        /\ file' = {} /\ torn' = TRUE /\ failed' = failed
    BY <1>1, <1>t DEF TruncateFile, Goto
  <2> QED
    BY <1>f, <2>1 DEF FileInv, UniqueKeys, Writers
<1>2. ASSUME NEW p \in Procs, WriteFile(p) PROVE FileInv'
  <2>1. /\ pc[p] = "write" /\ pc' = [pc EXCEPT ![p] = "release"]
        /\ file' = routes[p] /\ torn' = FALSE /\ failed' = failed
    BY <1>2 DEF WriteFile, Goto
  <2>2. Writers' = {}
    BY <2>1, <1>t, <1>o DEF Writers, Critical
  <2>3. UniqueKeys(file') /\ \A r \in file' : Known(r)
    BY <2>1 DEF MemoryInv
  <2>4. \A r \in file' : Known(r)'
    BY <2>1, <2>3, <1>t, KnownStable
  <2> QED
    BY <1>f, <2>1, <2>2, <2>3, <2>4 DEF FileInv, UniqueKeys
<1>4. ASSUME NEW p \in Procs, WriteFails(p) PROVE FileInv'
  <2>1. /\ pc[p] = "write" /\ pc' = [pc EXCEPT ![p] = "abort"]
        /\ file' = file /\ torn' = torn /\ failed' = TRUE
    BY <1>4 DEF WriteFails, Abort, Goto
  <2>2. torn /\ file = {}
    BY <2>1 DEF FileInv, Writers
  <2>3. \A q \in Procs : pc'[q] = "abort" \/ ~Holding(q)'
    BY <2>1, <1>t, <1>o DEF Holding
  <2> QED
    BY <2>1, <2>2, <2>3 DEF FileInv, UniqueKeys
<1>3. CASE /\ UNCHANGED text
           /\ ~ \E p \in Procs : TruncateFile(p) \/ WriteFile(p) \/ WriteFails(p)
  <2>1. \A r \in file' : Known(r)'
    BY <1>3, <1>t, KnownStable DEF FileInv, text
  <2>2. ASSUME NEW q \in Procs
        PROVE  /\ pc'[q] = "write" <=> pc[q] = "write"
               /\ torn /\ (pc[q] \in {"load", "abort"} \/ ~Holding(q)) =>
                    pc'[q] \in {"load", "abort"} \/ ~Holding(q)'
    <3>1. CASE Begin(q)
      BY <3>1, <1>t DEF Begin, Goto, Holding, Critical
    <3>2. CASE Step(q)
      <4>1. CASE CreateLockDir(q) \/ StatLockDir(q) \/ ReclaimLockDir(q) \/ DropLockGuard(q)
        BY <4>1, <1>t
           DEF Goto, Return, CreateLockDir, StatLockDir, ReclaimLockDir, NextRound,
               DropLockGuard, Holding, Critical
      <4>2. CASE LoadRoutes(q)
        BY <4>2, <1>t DEF Goto, Abort, LoadRoutes, Holding, Critical
      <4>3. CASE CheckConflicts(q) \/ KillOwner(q) \/ OpenFails(q)
        BY <4>3, <1>t
           DEF Goto, Abort, CheckConflicts, CheckFree, CheckConflict, CheckForced,
               KillOwner, Replace, OpenFails, Holding, Critical
      <4> QED
        BY <3>2, <1>3, <4>1, <4>2, <4>3 DEF Step
    <3>3. CASE pc'[q] = pc[q]
      BY <3>3 DEF Holding
    <3> QED
      BY <3>1, <3>2, <3>3, OtherSteps
  <2>3. Writers' = Writers
    BY <2>2 DEF Writers
  <2>4. failed' => \A q \in Procs : pc'[q] \in {"load", "abort"} \/ ~Holding(q)'
    BY <1>3, <2>2 DEF FileInv, text
  <2> QED
    BY <1>3, <2>1, <2>3, <2>4 DEF FileInv, UniqueKeys, text
<1> QED
  BY <1>1, <1>2, <1>3, <1>4, FileSteps

\* What MemoryInv says of one command.
MemoryOf(q) ==
  /\ pc[q] \in {"check", "kill"} => Current(q)
  /\ pc[q] = "kill" => Chosen(q)
  /\ pc[q] = "truncate" => Prepared(q)
  /\ pc[q] \in {"truncate", "write", "release"} => Sole(q) /\ Cleared(q)
  /\ UniqueKeys(routes[q])
  /\ \A r \in routes[q] : Known(r)
  /\ pc[q] = "release" => file = routes[q]

\* A vector that is the file without entries of dead processes becomes, with
\* the command applied, what the command is about to write.
LEMMA Prepare ==
  ASSUME IInv, NEW q \in Procs, op[q] \in Op,
         NEW S, S \subseteq file, \A r \in file \ S : Gone(r, op[q].user, app),
         op[q].kind = "add" => Atomic!MayReplace(Holders(file, op[q]), op[q])',
         routes'[q] = Updated(S, op[q]), op'[q] = op[q],
         file' = file, app' = app
  PROVE  Prepared(q)' /\ Sole(q)' /\ Cleared(q)' /\ UniqueKeys(routes[q])'
         /\ \A r \in routes'[q] : Known(r)'
<1> USE DEF IInv
<1>1. Prepared(q)'
  <2>1. Updated(S, op[q]) \subseteq Updated(file, op[q])
    BY UpdatedMonotone
  <2>2. \A r \in Updated(file, op[q]) \ Updated(S, op[q]) : Gone(r, op[q].user, app)
    BY UpdatedMonotone
  <2> QED
    BY <2>1, <2>2, UpdatedBounds DEF Prepared
<1>2. Sole(q)'
  <2>1. op[q].kind = "add" => op[q] \in AddOp /\ NewRoute(op[q]) \in routes'[q]
    BY OpKinds, UpdatedBounds DEF Inserted
  <2> QED
    BY <2>1, AddIsSole DEF Sole
<1>3. UniqueKeys(routes[q])'
  <2>1. UniqueKeys(S)
    BY DEF FileInv, UniqueKeys
  <2>2. UniqueKeys(Updated(S, op[q]))
    BY <2>1, UpdatedUnique
  <2> QED
    BY <2>2 DEF UniqueKeys
<1>4. \A r \in routes'[q] : Known(r)'
  <2> SUFFICES ASSUME NEW r \in routes'[q] PROVE Known(r)'
    OBVIOUS
  <2>1. CASE r \in S
    BY <2>1 DEF FileInv, Known
  <2>2. CASE r \in Inserted(op[q])
    <3>1. op[q] \in AddOp /\ r = NewRoute(op[q])
      BY <2>2, OpKinds DEF Inserted
    <3> QED
      BY <3>1 DEF OpInv, Known, NewRoute
  <2> QED
    BY <2>1, <2>2, UpdatedBounds
<1>5. Cleared(q)'
  BY OpKinds DEF Cleared, Updated, Evicted, Inserted
<1> QED
  BY <1>1, <1>2, <1>3, <1>4, <1>5

\* The holders of a key in the file, once the one in memory that was looked at
\* is known to be out of the way.
LEMMA OneHolder ==
  ASSUME IInv, NEW q \in Procs, op[q] \in AddOp, Current(q),
         \/ Holders(routes[q], op[q]) = {}
         \/ \E r \in Holders(routes[q], op[q]) : Atomic!Replaceable(r, op[q])
  PROVE  Atomic!MayReplace(Holders(file, op[q]), op[q])
<1> DEFINE H == Holders(file, op[q])
           K == Holders(routes[q], op[q])
<1>1. H \in SUBSET Route /\ UniqueKeys(H)
  BY DEF IInv, TypeOK, FileInv, Holders, UniqueKeys
<1>2. K \in SUBSET H
  BY DEF Current, Holders
<1>3. \A r \in H \ K : Atomic!Replaceable(r, op[q])
  BY SameGone DEF Current, Holders, Atomic!Replaceable
<1>4. \A r \in H : SameKey(r, op[q].host, op[q].prefix)
  BY DEF Holders
<1> HIDE DEF H, K
<1>5. K = {} \/ \E r \in K : Atomic!Replaceable(r, op[q])
  BY DEF K
<1>6. Atomic!MayReplace(H, op[q])
  BY <1>1, <1>2, <1>3, <1>4, <1>5, OneReplaceable
<1> QED
  BY <1>6 DEF H

\* A command that is not stepping keeps what it knows: only the holder of the
\* lock touches the file, and time only ends processes.
LEMMA MemoryKept ==
  ASSUME IInv, [Next]_vars, NEW q \in Procs, MemoryOf(q),
         UNCHANGED <<pc[q], op[q], routes[q], existing[q], seen[q]>>,
         Holding(q) => file' = file
  PROVE  MemoryOf(q)'
<1> USE DEF IInv
<1>1. /\ file \in SUBSET Route
      /\ routes[q] \in SUBSET Route
  BY DEF TypeOK
<1>2. \A r \in file : Known(r)
  BY DEF FileInv
<1>3. \A r \in file : Gone(r, op[q].user, app) => Gone(r, op[q].user, app')
  BY <1>1, <1>2, GoneStable
<1>4. \A r \in routes[q] : Known(r)'
  BY <1>1, KnownStable DEF MemoryOf
<1>5. CASE pc[q] \in {"check", "kill"}
  <2>1. file' = file
    BY <1>5 DEF Holding, Critical
  <2>2. Current(q)'
    BY <1>3, <1>5, <2>1 DEF MemoryOf, Current
  <2>3. pc[q] = "kill" => Chosen(q)'
    BY DEF MemoryOf, Chosen
  <2> QED
    BY <1>4, <1>5, <2>2, <2>3 DEF MemoryOf, UniqueKeys
<1>6. CASE pc[q] = "truncate"
  <2>1. file' = file
    BY <1>6 DEF Holding, Critical
  <2>2. op[q].kind = "add" => Atomic!MayReplace(Holders(file, op[q]), op[q])'
    <3>1. \A r \in Holders(file, op[q]) :
            Atomic!Replaceable(r, op[q]) => Atomic!Replaceable(r, op[q])'
      BY <1>1, <1>2, ReplaceableStable DEF Holders
    <3> QED
      BY <1>6, <2>1, <3>1 DEF MemoryOf, Prepared, Atomic!MayReplace
  <2>3. \A r \in Updated(file, op[q]) \ routes[q] : Gone(r, op[q].user, app')
    BY <1>3, <1>6, UpdatedBounds DEF MemoryOf, Prepared
  <2>4. Prepared(q)'
    BY <1>6, <2>1, <2>2, <2>3 DEF MemoryOf, Prepared
  <2> QED
    BY <1>4, <1>6, <2>4 DEF MemoryOf, Sole, Cleared, UniqueKeys
<1>7. CASE pc[q] = "release"
  <2>1. file' = file
    BY <1>7 DEF Holding, Critical
  <2> QED
    BY <1>4, <1>7, <2>1 DEF MemoryOf, Sole, Cleared, UniqueKeys
<1>8. CASE pc[q] \notin {"check", "kill", "truncate", "release"}
  BY <1>4, <1>8 DEF MemoryOf, Sole, Cleared, UniqueKeys
<1> QED
  BY <1>5, <1>6, <1>7, <1>8

LEMMA MemoryStep == IInv /\ [Next]_vars => MemoryInv'
<1> SUFFICES ASSUME IInv, [Next]_vars, NEW q \in Procs
             PROVE  MemoryOf(q)'
  BY DEF MemoryInv, MemoryOf
<1> USE DEF Goto
<1>t. /\ pc \in [Procs -> {"idle"} \cup Waiting \cup Critical]
      /\ op \in [Procs -> Op \cup {NoOp}]
      /\ routes \in [Procs -> SUBSET Route]
      /\ existing \in [Procs -> Route \cup {NoRoute}]
      /\ seen \in [Procs -> Gens]
      /\ file \in SUBSET Route
  BY DEF IInv, TypeOK
<1>m. MemoryOf(q)
  BY DEF IInv, MemoryInv, MemoryOf
<1>k. \A r \in routes[q] : Known(r)'
  BY <1>m, <1>t, KnownStable DEF MemoryOf, IInv
<1>1. CASE UNCHANGED <<pc[q], op[q], routes[q], existing[q], seen[q]>>
  <2>1. Holding(q) => file' = file
    <3> SUFFICES ASSUME Holding(q), NEW p \in Procs,
                        TruncateFile(p) \/ WriteFile(p) \/ WriteFails(p)
                 PROVE  FALSE
      BY FileSteps DEF text
    <3>1. pc[p] \in {"truncate", "write"} /\ pc'[p] # pc[p]
      BY <1>t DEF TruncateFile, WriteFile, WriteFails, Abort
    <3>2. p = q
      BY <3>1 DEF IInv, LockInv, MutualExclusion, Holding, Critical
    <3> QED
      BY <1>1, <3>1, <3>2
  <2> QED
    BY <1>1, <1>m, <2>1, MemoryKept
<1>2. CASE Begin(q)
  BY <1>2, <1>t, <1>k, <1>m DEF Begin, MemoryOf, UniqueKeys
<1>3. CASE Return(q)
  BY <1>3, <1>t DEF Return, MemoryOf, UniqueKeys
<1>a. CASE Abort(q)
  BY <1>a, <1>t DEF Abort, MemoryOf, UniqueKeys
<1>4. CASE CreateLockDir(q) /\ ~Return(q)
  BY <1>4, <1>t, <1>k, <1>m DEF CreateLockDir, MemoryOf, UniqueKeys
<1>5. CASE (StatLockDir(q) \/ ReclaimLockDir(q)) /\ ~Return(q)
  <2>1. pc'[q] \in {"mkdir", "reclaim"} /\ routes'[q] = routes[q]
    BY <1>5, <1>t DEF StatLockDir, ReclaimLockDir, NextRound
  <2> QED
    BY <2>1, <1>k, <1>m DEF MemoryOf, UniqueKeys
<1>6. CASE LoadRoutes(q) /\ ~Abort(q)
  <2> DEFINE S == LoadedRoutes(file, op[q].user, app)
  <2>0. op[q] \in Op
    BY <1>6 DEF LoadRoutes, IInv, OpInv
  <2>w. UNCHANGED <<file, app, op>>
    BY <1>6 DEF LoadRoutes, store, world
  <2>1. S \subseteq file
    BY LoadedBounds
  <2>2. \A r \in file \ S : Gone(r, op[q].user, app)
    BY DEF LoadedRoutes, IsProcessAlive, Gone, Ended
  <2> HIDE DEF S
  <2>4. CASE /\ op[q].kind = "add"
             /\ routes' = [routes EXCEPT ![q] = S]
             /\ pc' = [pc EXCEPT ![q] = "check"]
    <3>1. routes'[q] = S /\ pc'[q] = "check"
      BY <2>4, <1>t
    <3>2. Current(q)'
      BY <2>1, <2>2, <2>w, <3>1 DEF Current
    <3>3. UniqueKeys(routes[q])' /\ \A r \in routes'[q] : Known(r)'
      BY <2>1, <2>w, <3>1 DEF IInv, FileInv, UniqueKeys, Known
    <3> QED
      BY <3>1, <3>2, <3>3 DEF MemoryOf
  <2>5. CASE /\ op[q].kind # "add"
             /\ routes' = [routes EXCEPT ![q] = Updated(S, op[q])]
             /\ pc' = [pc EXCEPT ![q] = "truncate"]
    <3>1. /\ routes'[q] = Updated(S, op[q])
          /\ pc'[q] = "truncate"
      BY <2>5, <1>t
    <3>2. Prepared(q)' /\ Sole(q)' /\ Cleared(q)' /\ UniqueKeys(routes[q])'
          /\ \A r \in routes'[q] : Known(r)'
      BY <2>0, <2>1, <2>2, <2>5, <2>w, <3>1, Prepare
    <3> QED
      BY <3>1, <3>2 DEF MemoryOf
  <2> QED
    BY <1>6, <2>4, <2>5 DEF LoadRoutes, S
<1>r. ASSUME Replace(q), op[q] \in AddOp, Current(q), UNCHANGED <<file, app, op>>,
             Atomic!MayReplace(Holders(file, op[q]), op[q])'
      PROVE  MemoryOf(q)'
  <2>1. routes'[q] = Updated(routes[q], op[q]) /\ pc'[q] = "truncate"
    BY <1>r, <1>t DEF Replace
  <2>2. Prepared(q)' /\ Sole(q)' /\ Cleared(q)' /\ UniqueKeys(routes[q])'
        /\ \A r \in routes'[q] : Known(r)'
    <3>1. op[q] \in Op
      BY <1>r DEF Op
    <3> QED
      BY <1>r, <2>1, <3>1, Prepare DEF Current
  <2> QED
    BY <2>1, <2>2 DEF MemoryOf
<1>7. CASE CheckConflicts(q) /\ ~Abort(q)
  <2>0. op[q] \in AddOp /\ Current(q) /\ pc[q] = "check"
    BY <1>7, <1>m DEF CheckConflicts, IInv, OpInv, MemoryOf
  <2>w. UNCHANGED <<file, app, signalled, op>>
    BY <1>7 DEF CheckConflicts, store, text, world
  <2>s. Atomic!MayReplace(Holders(file, op[q]), op[q]) =>
          Atomic!MayReplace(Holders(file, op[q]), op[q])'
    BY <2>w DEF Atomic!MayReplace, Atomic!Replaceable
  <2>3. CASE CheckFree(q)
    <3>1. ASSUME NEW r \in Holders(routes[q], op[q]), ~Occupied(r, op[q])
          PROVE  Atomic!Replaceable(r, op[q])
      <4>1. r.pid = op[q].pid \/ Gone(r, op[q].user, app)
        BY <3>1 DEF Occupied, IsProcessAlive, Gone, Ended
      <4> QED
        BY <4>1, SameGone DEF Atomic!Replaceable
    <3>2. Atomic!MayReplace(Holders(file, op[q]), op[q])
      BY <2>0, <2>3, <3>1, OneHolder DEF CheckFree
    <3> QED
      BY <1>r, <2>0, <2>3, <2>s, <2>w, <3>2 DEF CheckFree
  <2>4. CASE CheckForced(q)
    <3>1. PICK r \in Holders(routes[q], op[q]) :
            \/ /\ r.pid = NoPid
               /\ Replace(q)
            \/ /\ r.pid # NoPid
               /\ OwnerIsCurrent(r, op[q].user, app)
               /\ existing' = [existing EXCEPT ![q] = r]
               /\ seen' = [seen EXCEPT ![q] = app[r.pid].gen]
               /\ Goto(q, "kill")
               /\ UNCHANGED routes
      BY <1>7, <2>4 DEF CheckForced
    <3>2. CASE r.pid = NoPid /\ Replace(q)
      <4>1. Atomic!Replaceable(r, op[q])
        BY <2>4, <3>2 DEF CheckForced, Atomic!Replaceable
      <4>2. Atomic!MayReplace(Holders(file, op[q]), op[q])
        BY <2>0, <4>1, OneHolder
      <4> QED
        BY <1>r, <2>0, <2>s, <2>w, <3>2, <4>2
    <3>3. CASE /\ r.pid # NoPid
               /\ OwnerIsCurrent(r, op[q].user, app)
               /\ existing' = [existing EXCEPT ![q] = r]
               /\ seen' = [seen EXCEPT ![q] = app[r.pid].gen]
               /\ Goto(q, "kill")
               /\ UNCHANGED routes
      <4>1. /\ pc'[q] = "kill" /\ existing'[q] = r /\ seen'[q] = app[r.pid].gen
            /\ routes'[q] = routes[q] /\ op'[q] = op[q]
        BY <3>3, <1>t, <2>w
      <4>2. Chosen(q)'
        BY <2>4, <3>3, <4>1 DEF Chosen, OwnerIsCurrent, CheckForced
      <4>3. Current(q)'
        BY <2>0, <2>w, <4>1 DEF Current
      <4> QED
        BY <1>k, <1>m, <4>1, <4>2, <4>3 DEF MemoryOf, UniqueKeys
    <3> QED
      BY <3>1, <3>2, <3>3
  <2> QED
    BY <1>7, <2>3, <2>4 DEF CheckConflicts, CheckConflict
<1>11. CASE KillOwner(q) /\ ~Abort(q)
  <2>0. op[q] \in AddOp /\ Current(q) /\ Chosen(q) /\ pc[q] = "kill"
    BY <1>11, <1>m DEF KillOwner, IInv, OpInv, MemoryOf
  <2>w. UNCHANGED <<file, app, op>> /\ Replace(q)
    BY <1>11 DEF KillOwner, store, text
  <2>r. PICK r \in Route : r = existing[q]
    BY <2>0, <1>t DEF Chosen, Holders
  <2>1. r.pid \in Pids /\ r \in Holders(routes[q], op[q]) /\ op[q].force
    BY <2>0, <2>r DEF Chosen, Route
  <2>2. Ended(r, app) \/ <<r.pid, r.gen>> \in signalled'
    BY <1>11, <2>1, <2>r, NoPidAssumption DEF KillOwner, Ended
  <2>3. Atomic!Replaceable(r, op[q])'
    <3>1. Gone(r, op[q].user, app)' \/ <<r.pid, r.gen>> \in signalled'
      BY <2>2, <2>w DEF Gone
    <3>2. Atomic!Gone(r, op[q].user, app') \/ <<r.pid, r.gen>> \in signalled'
      BY <3>1, <2>w, SameGone DEF Gone, Ended
    <3> QED
      BY <2>1, <2>w, <3>2 DEF Atomic!Replaceable
  <2>4. Atomic!MayReplace(Holders(file, op[q]), op[q])'
    <3>1. \A s \in Holders(file, op[q]) \ Holders(routes[q], op[q]) :
            Atomic!Replaceable(s, op[q])'
      BY <2>0, <2>w, SameGone DEF Current, Holders, Atomic!Replaceable
    <3>2. r \in Holders(file, op[q])
      BY <2>0, <2>1 DEF Current, Holders
    <3>3. CASE \E s \in Holders(file, op[q]) : ~Plain(s.prefix)
      BY <2>3, <2>w, <3>2, <3>3, SamePlain DEF Atomic!MayReplace
    <3>4. CASE \A s \in Holders(file, op[q]) : Plain(s.prefix)
      <4>1. ASSUME NEW s \in Holders(file, op[q]) PROVE s = r
        <5>1. r \in file /\ s \in file /\ r.host = s.host /\ r.prefix = s.prefix
          BY <3>2, <3>4, <4>1 DEF Holders, SameKey, Plain
        <5> QED
          BY <3>2, <3>4, <5>1 DEF IInv, FileInv, UniqueKeys
      <4> QED
        BY <2>3, <2>w, <4>1 DEF Atomic!MayReplace
    <3> QED
      BY <3>3, <3>4
  <2> QED
    BY <1>r, <2>0, <2>w, <2>4
<1>8. CASE TruncateFile(q)
  <2>1. pc[q] = "truncate" /\ pc'[q] = "write" /\ UNCHANGED <<op, routes>>
    BY <1>8, <1>t DEF TruncateFile
  <2> QED
    BY <2>1, <1>k, <1>m DEF MemoryOf, Sole, Cleared, UniqueKeys
<1>9. CASE WriteFile(q)
  <2>1. /\ pc[q] = "write" /\ pc'[q] = "release"
        /\ UNCHANGED <<op, routes>> /\ file' = routes[q]
    BY <1>9, <1>t DEF WriteFile
  <2> QED
    BY <2>1, <1>k, <1>m DEF MemoryOf, Sole, Cleared, UniqueKeys
<1>10. OpenFails(q) \/ WriteFails(q) => Abort(q)
  BY DEF OpenFails, WriteFails
<1> QED
  BY <1>1, <1>2, <1>3, <1>a, <1>4, <1>5, <1>6, <1>7, <1>8, <1>9, <1>10, <1>11,
     OtherSteps DEF Step, DropLockGuard, IInv

-------------------------------------------------------------------------------
(* Theorems                                                                 *)

LEMMA InitIInv == Init => IInv
BY InitType, InitLock, InitOp, InitFile, InitMemory DEF IInv

LEMMA StepIInv == IInv /\ [Next]_vars => IInv'
BY TypeStep, LockStep, OpStep, FileStep, MemoryStep DEF IInv

\* Every reachable state is well-typed, for any number of commands.
THEOREM TypeCorrect == Spec => []TypeOK
<1>1. IInv => TypeOK
  BY DEF IInv
<1> QED
  BY <1>1, InitIInv, StepIInv, PTL DEF Spec

\* Commands that do not die never overlap inside routes.lock (acquire_lock and
\* LockGuard), whoever runs them and whatever spellings of prefixes are in use.
THEOREM LockExcludes == Spec => []MutualExclusion
<1>1. IInv => MutualExclusion
  BY DEF IInv, LockInv
<1> QED
  BY <1>1, InitIInv, StepIInv, PTL DEF Spec

\* Where the table is while the file is truncated.
LEMMA WriterTable ==
  ASSUME IInv, NEW p \in Procs, pc[p] = "write"
  PROVE  Table = routes[p]
<1>1. torn /\ Writers # {}
  BY DEF IInv, FileInv, Writers
<1>2. \A q \in Procs : pc[q] = "write" => q = p
  BY DEF IInv, LockInv, MutualExclusion, Holding, Critical
<1> QED
  BY <1>1, <1>2 DEF Table

LEMMA SettledTable ==
  ASSUME IInv, NEW p \in Procs, pc[p] \in {"check", "kill", "truncate"}
  PROVE  ~torn /\ ~failed /\ Table = file
<1>1. \A q \in Procs : pc[q] # "write"
  BY DEF IInv, LockInv, MutualExclusion, Holding, Critical
<1>2. ~failed
  BY DEF IInv, FileInv, Holding, Critical
<1> QED
  BY <1>1, <1>2 DEF IInv, FileInv, Table, Writers

\* The initial table of the store is an initial table of the abstraction.
LEMMA InitRefines == Init => Atomic!Init
<1> SUFFICES ASSUME Init PROVE Atomic!Init
  OBVIOUS
<1>1. Table = file
  BY DEF Init, Table
<1>2. file \in SUBSET Atomic!Route /\ app \in Atomic!AppState
  BY InitType DEF TypeOK, Route, Atomic!Route, StoredPrefixes, Atomic!StoredPrefixes,
                  NormalizePathPrefix, Atomic!NormalizePathPrefix, AppState, Owners,
                  Atomic!AppState, Atomic!Owners, Gens, Atomic!Gens, Root, Atomic!Root, Slash,
                  Atomic!Slash, StartsWithSlash, Atomic!StartsWithSlash,
                  EndsWithSlash, Atomic!EndsWithSlash
<1> QED
  BY <1>1, <1>2 DEF Init, Atomic!Init

\* The instance brings its own copy of RouteTable; both say the same.
LEMMA SameOperators ==
  /\ \A S, o : Updated(S, o) = Atomic!Updated(S, o)
  /\ \A S, o : Holders(S, o) = Atomic!Holders(S, o)
<1> USE DEF NormalizePathPrefix, Atomic!NormalizePathPrefix, Root, Atomic!Root,
            Slash, Atomic!Slash, StartsWithSlash, Atomic!StartsWithSlash,
            EndsWithSlash, Atomic!EndsWithSlash, SameKey, Atomic!SameKey
<1>2. \A S, o : Updated(S, o) = Atomic!Updated(S, o)
  BY DEF Updated, Evicted, Targets, InScope, Inserted, NewRoute, Atomic!Updated,
         Atomic!Evicted, Atomic!Targets, Atomic!InScope, Atomic!Inserted,
         Atomic!NewRoute
<1>3. \A S, o : Holders(S, o) = Atomic!Holders(S, o)
  BY DEF Holders, Atomic!Holders
<1> QED
  BY <1>2, <1>3

\* Truncating the file is the step at which a command takes effect.
LEMMA TruncatePerforms ==
  ASSUME IInv, IInv', NEW p \in Procs, TruncateFile(p)
  PROVE  Atomic!Perform(op[p])
<1> DEFINE dropped == {r \in file : Gone(r, op[p].user, app) /\ r \notin routes[p]}
<1>1. /\ pc[p] = "truncate" /\ pc'[p] = "write"
      /\ UNCHANGED <<op, routes, app, signalled, failed>>
  BY DEF TruncateFile, Goto, world, IInv, TypeOK
<1>2. Table = file
  BY <1>1, SettledTable
<1>3. Table' = routes[p]
  <2>1. \A q \in Procs : pc'[q] = "write" => q = p
    BY <1>1 DEF IInv, LockInv, MutualExclusion, Holding, Critical
  <2>2. torn'
    BY DEF TruncateFile
  <2> QED
    BY <1>1, <2>1, <2>2 DEF Table, Writers
<1>4. Prepared(p)
  BY <1>1 DEF IInv, MemoryInv
<1>5. routes[p] = Updated(file \ dropped, op[p])
  <2>1. Updated(file, op[p]) \ routes[p] \subseteq dropped
    BY <1>4 DEF Prepared, Updated
  <2>2. Evicted(file \ dropped, op[p]) = Evicted(file, op[p]) \ dropped
    BY DEF Evicted
  <2>3. routes[p] \subseteq Updated(file \ dropped, op[p])
    BY <1>4, <2>2 DEF Prepared, Updated
  <2>4. Updated(file \ dropped, op[p]) \subseteq routes[p]
    BY <1>4, <2>1, <2>2 DEF Prepared, Updated
  <2> QED
    BY <2>3, <2>4
<1>6. dropped \in SUBSET {r \in Table : Atomic!Gone(r, op[p].user, app)}
  BY <1>2, SameGone
<1>7. Table' = Atomic!Updated(Table \ dropped, op[p])
  BY <1>2, <1>3, <1>5, SameOperators
<1>8. op[p].kind = "add" =>
        Atomic!MayReplace(Atomic!Holders(Table, op[p]), op[p])
  BY <1>2, <1>4, SameOperators DEF Prepared
<1>9. ~failed
  BY <1>1, SettledTable
<1> QED
  BY <1>1, <1>6, <1>7, <1>8, <1>9 DEF Atomic!Perform

\* Every step of the store is a step of the abstraction or none.
LEMMA StepRefines ==
  IInv /\ IInv' /\ [Next]_vars => [Atomic!Next]_(Atomic!avars)
<1> SUFFICES ASSUME IInv, IInv', [Next]_vars
             PROVE  Atomic!Next \/ UNCHANGED <<Table, failed, app, signalled>>
  BY DEF Atomic!avars
<1>t. /\ pc \in [Procs -> {"idle"} \cup Waiting \cup Critical]
      /\ routes \in [Procs -> SUBSET Route]
  BY DEF IInv, TypeOK
<1>1. ASSUME NEW p \in Procs, TruncateFile(p) PROVE Atomic!Next
  <2>1. op[p] \in Requests
    BY <1>1 DEF TruncateFile, IInv, OpInv
  <2> QED
    BY <1>1, <2>1, TruncatePerforms DEF Atomic!Next
<1>2. ASSUME NEW p \in Procs, WriteFile(p)
      PROVE  UNCHANGED <<Table, failed, app, signalled>>
  <2>1. pc[p] = "write" /\ ~torn' /\ file' = routes[p] /\ failed' = failed
    BY <1>2 DEF WriteFile
  <2> QED
    BY <1>2, <2>1, WriterTable DEF WriteFile, Table, world
<1>4. ASSUME NEW p \in Procs, WriteFails(p) PROVE Atomic!Next
  <2>1. torn' /\ failed' = TRUE /\ UNCHANGED <<app, signalled>>
    BY <1>4 DEF WriteFails, IInv, FileInv, TypeOK, Writers, world
  <2>2. Writers' = {}
    BY <2>1 DEF IInv, FileInv, Writers, Holding, Critical
  <2>3. Table' = {}
    BY <2>1, <2>2 DEF Table
  <2> QED
    BY <2>1, <2>3 DEF Atomic!Next, Atomic!Lose
<1>3. CASE /\ UNCHANGED text
           /\ ~ \E p \in Procs : TruncateFile(p) \/ WriteFile(p) \/ WriteFails(p)
  <2>0. UNCHANGED <<file, torn, failed>>
    BY <1>3 DEF text
  <2>1. Table' = Table
    <3>1. CASE ~torn
      BY <2>0, <3>1 DEF Table
    <3>2. CASE torn /\ Writers' = {}
      <4>1. failed
        BY <2>0, <3>2 DEF IInv, FileInv
      <4>2. Writers = {}
        BY <4>1 DEF IInv, FileInv, Writers, Holding, Critical
      <4> QED
        BY <2>0, <3>2, <4>2 DEF Table
    <3>3. CASE torn /\ Writers' # {}
      <4>1. PICK p \in Procs : pc'[p] = "write"
        BY <3>3 DEF Writers
      <4>2. pc[p] = "write" /\ routes'[p] = routes[p]
        <5>1. CASE Begin(p)
          BY <4>1, <5>1, <1>t DEF Begin, Goto
        <5>2. CASE Step(p)
          BY <1>3, <4>1, <5>2, <1>t
             DEF Step, Goto, Return, Abort, CreateLockDir, StatLockDir, ReclaimLockDir,
                 NextRound, LoadRoutes, CheckConflicts, CheckFree, CheckConflict,
                 CheckForced, KillOwner, Replace, OpenFails, DropLockGuard
        <5> QED
          BY <4>1, <5>1, <5>2, OtherSteps DEF IInv
      <4>3. \A q \in Procs : pc'[q] = "write" => q = p
        BY <4>1 DEF IInv, LockInv, MutualExclusion, Holding, Critical
      <4>4. Table' = routes'[p]
        BY <2>0, <3>3, <4>1, <4>3 DEF Table
      <4> QED
        BY <4>2, <4>4, WriterTable
    <3> QED
      BY <3>1, <3>2, <3>3
  <2>2. ASSUME NEW p \in Procs, KillOwner(p), signalled' # signalled
        PROVE  Atomic!Next
    <3> DEFINE r == existing[p]
    <3>1. /\ pc[p] = "kill" /\ app' = app
          /\ IsProcessAlive(r.pid, op[p].user, app)
          /\ signalled' = signalled \cup {<<r.pid, app[r.pid].gen>>}
      BY <2>2 DEF KillOwner
    <3>2. r \in routes[p] /\ r \in file /\ r.pid # NoPid /\ r.owner # "none"
      BY <3>1 DEF IInv, MemoryInv, Current, Chosen, Holders
    <3>3. r \in Table
      BY <3>1, <3>2, SettledTable
    <3>4. Atomic!StopOwner(r)
      BY <2>0, <2>1, <3>1, <3>2 DEF Atomic!StopOwner, IsProcessAlive
    <3> QED
      BY <3>3, <3>4 DEF Atomic!Next
  <2>3. ASSUME NEW a \in Pids, AppExit(a) PROVE Atomic!Next
    BY <2>0, <2>1, <2>3 DEF AppExit, Atomic!AppExit, Atomic!Next
  <2>4. ASSUME NEW a \in Pids, AppStart(a) PROVE Atomic!Next
    BY <2>0, <2>1, <2>4 DEF AppStart, Atomic!AppStart, Atomic!Next
  <2>5. \/ app' = app /\ signalled' = signalled
        \/ \E p \in Procs : KillOwner(p) /\ app' = app
        \/ \E a \in Pids : AppExit(a) \/ AppStart(a)
    BY DEF Next, Step, vars, world, Begin, CreateLockDir, StatLockDir,
           ReclaimLockDir, LoadRoutes, CheckConflicts, KillOwner, OpenFails,
           TruncateFile, WriteFile, WriteFails, DropLockGuard
  <2> QED
    BY <2>0, <2>1, <2>2, <2>3, <2>4, <2>5
<1> QED
  BY <1>1, <1>2, <1>3, <1>4, FileSteps

\* The store implements the atomic table, whatever the number of commands and
\* users and however paths are spelled: no update is lost but with the whole
\* table, and a live entry leaves only as AtomicRoutes allows.
THEOREM StoreIsAtomic == Spec => ImplementsAtomicRoutes
<1>1. Init => IInv
  BY InitIInv
<1>2. IInv /\ [Next]_vars => IInv'
  BY StepIInv
<1>3. Init => Atomic!Init
  BY InitRefines
<1>4. IInv /\ IInv' /\ [Next]_vars => [Atomic!Next]_(Atomic!avars)
  BY StepRefines
<1> QED
  BY <1>1, <1>2, <1>3, <1>4, PTL DEF Spec, Atomic!Spec, ImplementsAtomicRoutes

\* The file fails to parse only under a writer, or for good once a write of
\* save_routes returned an error after the truncation.
THEOREM TornUnderWriter == Spec => []TornOnlyWhileWriting
<1>1. IInv => TornOnlyWhileWriting
  BY DEF IInv, FileInv, TornOnlyWhileWriting
<1> QED
  BY <1>1, InitIInv, StepIInv, PTL DEF Spec

\* An add that returned Ok is in the table, and no other entry answers to the
\* name and path it was given, with any spelling of any path in the table.
THEOREM AddsTakeEffect == Spec => []AddedRouteIsSole
<1>1. IInv => AddedRouteIsSole
  <2> SUFFICES ASSUME IInv, NEW p \in Procs, pc[p] = "release", op[p].kind = "add"
               PROVE  /\ NewRoute(op[p]) \in file
                      /\ \A r \in file \ {NewRoute(op[p])} :
                           ~(/\ r.host = op[p].host
                             /\ NormalizePathPrefix(r.prefix)
                                  = NormalizePathPrefix(op[p].prefix))
    BY DEF AddedRouteIsSole
  <2>1. file = routes[p] /\ Sole(p)
    BY DEF IInv, MemoryInv
  <2> QED
    BY <2>1 DEF Sole, SameKey
<1> QED
  BY <1>1, InitIInv, StepIInv, PTL DEF Spec

\* A removal that returned Ok left nothing that its name and path would have
\* stored, whatever else is in the table, unless its own path was typed with two
\* slashes at the end.
THEOREM RemovalsTakeEffect == Spec => []RemovedRouteIsGone
<1>1. ASSUME IInv PROVE RemovedRouteIsGone
  <2> SUFFICES ASSUME NEW p \in Procs, pc[p] = "release", op[p].kind = "remove",
                      Plain(NormalizePathPrefix(op[p].prefix)),
                      NEW r \in file, r.host = op[p].host,
                      r.prefix = NormalizePathPrefix(op[p].prefix)
               PROVE  FALSE
    BY DEF RemovedRouteIsGone
  <2>1. file = routes[p] /\ Cleared(p)
    BY <1>1 DEF IInv, MemoryInv
  <2>2. NormalizePathPrefix(r.prefix) = NormalizePathPrefix(op[p].prefix)
    BY DEF Plain
  <2> QED
    BY <2>1, <2>2 DEF Cleared, Targets, InScope
<1> QED
  BY <1>1, InitIInv, StepIInv, PTL DEF Spec

\* A forced replacement signals the process that registered the entry it
\* replaces, if its start time was recorded and nobody got the pid in between.
THEOREM ForceSignalsOwner == Spec => KillsOnlyTheRecordedOwner
<1> DEFINE A == \A s \in signalled' \ signalled :
                  \E p \in Procs, r \in file :
                    /\ pc[p] = "kill" /\ r = existing[p]
                    /\ SameKey(r, op[p].host, op[p].prefix) /\ op[p].force
                    /\ r.owner # "none" /\ s[1] = r.pid
                    /\ r.owner = "stamped" => s[2] = r.gen \/ s[2] # seen[p]
<1>1. IInv /\ [Next]_vars => [A]_vars
  <2> SUFFICES ASSUME IInv, [Next]_vars, NEW s \in signalled' \ signalled
               PROVE  \E p \in Procs, r \in file :
                        /\ pc[p] = "kill" /\ r = existing[p]
                        /\ SameKey(r, op[p].host, op[p].prefix) /\ op[p].force
                        /\ r.owner # "none" /\ s[1] = r.pid
                        /\ r.owner = "stamped" => s[2] = r.gen \/ s[2] # seen[p]
    OBVIOUS
  <2>1. PICK p \in Procs : KillOwner(p) /\ ~ UNCHANGED signalled
    BY DEF Next, Step, vars, world, Begin, CreateLockDir, StatLockDir,
           ReclaimLockDir, LoadRoutes, CheckConflicts, OpenFails, TruncateFile,
           WriteFile, WriteFails, DropLockGuard, AppExit, AppStart
  <2>2. /\ pc[p] = "kill"
        /\ s = <<existing[p].pid, app[existing[p].pid].gen>>
    BY <2>1 DEF KillOwner
  <2>3. Chosen(p) /\ Current(p)
    BY <2>2 DEF IInv, MemoryInv
  <2>4. /\ existing[p] \in file
        /\ SameKey(existing[p], op[p].host, op[p].prefix) /\ op[p].force
        /\ existing[p].owner # "none"
        /\ existing[p].owner = "stamped" => seen[p] = existing[p].gen
    BY <2>3 DEF Chosen, Current, Holders
  <2>5. s[1] = existing[p].pid
    BY <2>2
  <2> QED
    BY <2>2, <2>4, <2>5
<1> QED
  BY <1>1, InitIInv, StepIInv, PTL DEF Spec, KillsOnlyTheRecordedOwner
===============================================================================
