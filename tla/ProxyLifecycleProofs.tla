------------------------- MODULE ProxyLifecycleProofs -------------------------
(***************************************************************************)
(* The pid file of the proxy: for any number of commands and daemons, with *)
(* nothing but starts, it names the proxy that serves.                     *)
(***************************************************************************)
EXTENDS ProxyLifecycle, TLAPS

-------------------------------------------------------------------------------
(* Types                                                                    *)

LEMMA InitInv == Init => IInv
BY DEF Init, IInv, TypeOK, StartsInv, LockInv, AliveInv, PortInv, PidInv, Alive,
       DaemonStates, Starting, Stopping, Holding, Ops, NoOp, Histories

LEMMA LaunchType ==
  ASSUME TypeOK, NEW p \in Procs, NEW how \in {"no", "daemon", "foreground"}, Launch(p, how)
  PROVE  /\ daemon' \in [Daemons -> DaemonStates]
         /\ pc' \in [Procs -> {"idle"} \cup Starting \cup Stopping]
         /\ op' \in [Procs -> Ops]
         /\ target' \in [Procs -> Daemons \cup {None}]
         /\ pc'[p] \in {"idle", "mkdir"}
         /\ \A q \in Procs \ {p} : pc'[q] = pc[q] /\ target'[q] = target[q]
<1> USE DEF TypeOK, Starting, Stopping, DaemonStates, Goto, Return
<1>1. NoOp \in Ops /\ [stop |-> FALSE, start |-> "daemon"] \in Ops
  BY DEF NoOp, Ops
<1>2. CASE Goto(p, "mkdir") /\ op' = [op EXCEPT ![p] = [stop |-> FALSE, start |-> "daemon"]]
           /\ target' = [target EXCEPT ![p] = None] /\ UNCHANGED daemon
  BY <1>1, <1>2
<1>3. CASE /\ Return(p)
           /\ \/ UNCHANGED daemon
              \/ \E d \in Daemons : daemon' = [daemon EXCEPT ![d] = "detached"]
  BY <1>1, <1>3
<1> QED
  BY <1>2, <1>3 DEF Launch, Unborn

LEMMA TypeStep == TypeOK /\ [Next]_vars => TypeOK'
<1> SUFFICES ASSUME TypeOK, [Next]_vars PROVE TypeOK'
  OBVIOUS
<1> USE DEF Starting, Stopping
<1>1. ASSUME NEW p \in Procs PROVE op[p].start \in {"no", "daemon", "foreground"}
  BY DEF TypeOK, Ops
<1>2. ASSUME NEW p \in Procs, Begin(p) PROVE TypeOK'
  <2>1. PICK o \in Ops \ {NoOp} :
          /\ \/ /\ o.stop
                /\ Goto(p, "readPid")
                /\ op' = [op EXCEPT ![p] = o]
                /\ UNCHANGED <<target, daemon>>
             \/ ~o.stop /\ Launch(p, o.start)
          /\ happened' = IF o.stop \/ o.start = "foreground" THEN "upset" ELSE happened
    BY <1>2 DEF Begin
  <2>2. happened' \in Histories /\ o.start \in {"no", "daemon", "foreground"}
    BY <2>1 DEF TypeOK, Histories, Ops
  <2>3. UNCHANGED <<lock, pidFile, pidLock, port>>
    BY <1>2 DEF Begin
  <2>4. CASE Launch(p, o.start)
    BY <2>2, <2>3, <2>4, LaunchType DEF TypeOK
  <2>5. CASE Goto(p, "readPid") /\ op' = [op EXCEPT ![p] = o] /\ UNCHANGED <<target, daemon>>
    BY <2>2, <2>3, <2>5 DEF TypeOK, Goto
  <2> QED
    BY <2>1, <2>4, <2>5
<1>3. ASSUME NEW p \in Procs, Step(p) PROVE TypeOK'
  <2>1. CASE CreateLockDir(p) \/ LockIsStale(p) \/ LockIsFresh(p)
    BY <2>1 DEF TypeOK, CreateLockDir, LockIsStale, LockIsFresh, Goto
  <2>2. CASE ReclaimLockDir(p)
    BY <2>2 DEF TypeOK, ReclaimLockDir, RemoveLockDir, Goto, Histories
  <2>3. CASE Probe(p) \/ ProxyIsUp(p)
    BY <2>3 DEF TypeOK, Probe, ProxyIsUp, Goto
  <2>4. CASE Spawn(p)
    BY <2>4 DEF TypeOK, Spawn, Unborn, Goto, DaemonStates
  <2>5. CASE DropStartupLock(p)
    BY <2>5 DEF TypeOK, DropStartupLock, Return, Goto, NoOp, Ops
  <2>6. CASE ReadPid(p)
    <3>1. CASE StopReturns(p)
      BY <1>1, <2>6, <3>1, LaunchType DEF TypeOK, ReadPid, StopReturns
    <3>2. CASE /\ pidFile # None /\ target' = [target EXCEPT ![p] = pidFile]
               /\ Goto(p, "checkAlive") /\ UNCHANGED <<op, daemon>>
      BY <2>6, <3>2 DEF TypeOK, ReadPid, Goto
    <3> QED
      BY <2>6, <3>1, <3>2 DEF ReadPid
  <2>7. CASE CheckAlive(p)
    <3>1. CASE CleanupLifecycleFiles /\ StopReturns(p)
      BY <1>1, <2>7, <3>1, LaunchType DEF TypeOK, CheckAlive, StopReturns, CleanupLifecycleFiles
    <3>2. CASE Goto(p, "kill") /\ UNCHANGED <<pidFile, pidLock, daemon, op, target>>
      BY <2>7, <3>2 DEF TypeOK, CheckAlive, Goto
    <3> QED
      BY <2>7, <3>1, <3>2 DEF CheckAlive
  <2>8. CASE KillProxy(p)
    <3>1. CASE StopReturns(p) /\ UNCHANGED <<port, pidLock>>
      BY <1>1, <2>8, <3>1, LaunchType DEF TypeOK, KillProxy, StopReturns
    <3>2. CASE Signalled(target[p]) /\ Goto(p, "await") /\ UNCHANGED <<op, target>>
      BY <2>8, <3>2 DEF TypeOK, KillProxy, Signalled, Goto, DaemonStates, Booting
    <3> QED
      BY <2>8, <3>1, <3>2 DEF KillProxy
  <2>9. CASE AwaitExit(p)
    BY <2>9 DEF TypeOK, AwaitExit, Goto
  <2>10. CASE StopCleanup(p)
    BY <1>1, <2>10, LaunchType DEF TypeOK, StopCleanup, StopReturns, CleanupLifecycleFiles
  <2> QED
    BY <1>3, <2>1, <2>2, <2>3, <2>4, <2>5, <2>6, <2>7, <2>8, <2>9, <2>10 DEF Step
<1>4. ASSUME NEW p \in Procs, LockTimesOut(p) \/ ProxyTimesOut(p) \/ CrashCommand(p) PROVE TypeOK'
  <2>1. NoOp \in Ops
    BY DEF NoOp, Ops
  <2> USE DEF TypeOK, Return, Goto, Histories
  <2>2. CASE LockTimesOut(p)
    BY <2>1, <2>2 DEF LockTimesOut, RemoveLockDir
  <2>3. CASE ProxyTimesOut(p)
    BY <2>3 DEF ProxyTimesOut
  <2>4. CASE CrashCommand(p)
    BY <2>1, <2>4 DEF CrashCommand
  <2> QED
    BY <1>4, <2>2, <2>3, <2>4
<1>5. ASSUME NEW d \in Daemons, DaemonStep(d) \/ Term(d) \/ KillDaemon(d) PROVE TypeOK'
  <2> USE DEF TypeOK, DaemonStates, cmds
  <2>1. CASE DaemonizeSelf(d)
    BY <2>1 DEF DaemonizeSelf
  <2>2. CASE Bind(d)
    BY <2>2 DEF Bind, Ends
  <2>3. CASE WriteLifecycleFiles(d) \/ Serve(d)
    BY <2>3 DEF WriteLifecycleFiles, Serve
  <2>4. CASE ShutDown(d) \/ CleanupOnExit(d)
    BY <2>4 DEF ShutDown, CleanupOnExit, CleanupLifecycleFiles
  <2>5. CASE Exit(d) \/ KillDaemon(d)
    BY <2>5 DEF Exit, KillDaemon, Ends
  <2>6. CASE Term(d)
    BY <2>6 DEF Term, Signalled, Booting
  <2> QED
    BY <1>5, <2>1, <2>2, <2>3, <2>4, <2>5, <2>6 DEF DaemonStep
<1>6. CASE AgeLockDir
  BY <1>6 DEF AgeLockDir, TypeOK, cmds
<1>7. CASE StrangerComes \/ StrangerGoes
  BY <1>7 DEF StrangerComes, StrangerGoes, TypeOK, cmds
<1>8. CASE UNCHANGED vars
  BY <1>8 DEF vars, TypeOK, cmds
<1> QED
  BY <1>2, <1>3, <1>4, <1>5, <1>6, <1>7, <1>8 DEF Next

-------------------------------------------------------------------------------
(* Nothing but starts                                                       *)

\* A command that does not change what the lock protects.
LEMMA CommandMoves ==
  ASSUME TypeOK, LockInv, AliveInv, PortInv, PidInv, NEW p \in Procs,
         ~Holding(p) \/ pc[p] = "unlock", pc'[p] \in {"idle", "mkdir", "stat", "reclaim"},
         \A q \in Procs \ {p} : pc'[q] = pc[q] /\ target'[q] = target[q],
         lock' = lock \/ \A q \in Procs \ {p} : ~Holding(q),
         UNCHANGED <<pidFile, port, daemon>>
  PROVE  LockInv' /\ AliveInv' /\ PortInv' /\ PidInv'
<1>1. LockInv'
  BY DEF LockInv, Holding, Stopping
<1>2. AliveInv'
  <2> SUFFICES ASSUME NEW d \in Daemons, daemon[d] \in {"forked", "detached"}, Alive(d)
               PROVE  \E q \in Procs : pc'[q] = "wait" /\ target'[q] = d
    BY DEF AliveInv, Alive
  <2>1. PICK q \in Procs : pc[q] = "wait" /\ target[q] = d
    BY DEF AliveInv
  <2> QED
    BY <2>1 DEF Holding
<1>3. PortInv'
  BY DEF PortInv, Holding
<1>4. PidInv'
  BY DEF PidInv
<1> QED
  BY <1>1, <1>2, <1>3, <1>4

\* The lock's holder goes on.
LEMMA HolderMoves ==
  ASSUME TypeOK, LockInv, NEW p \in Procs, lock' # "absent",
         Holding(p) \/ \A q \in Procs : ~Holding(q),
         pc'[p] \in {"probe", "spawn", "wait", "unlock"},
         \A q \in Procs \ {p} : pc'[q] = pc[q]
  PROVE  /\ LockInv'
         /\ \A q \in Procs \ {p} : pc'[q] \notin {"probe", "spawn", "wait", "unlock"}
BY DEF LockInv, Holding, Stopping

LEMMA StartsStep == IInv /\ [Next]_vars => StartsInv'
<1> SUFFICES ASSUME IInv, [Next]_vars, happened' = "starts"
             PROVE  LockInv' /\ AliveInv' /\ PortInv' /\ PidInv'
  BY DEF StartsInv
<1> DEFINE Goal == LockInv' /\ AliveInv' /\ PortInv' /\ PidInv'
<1>1. happened = "starts"
  <2>1. \A p \in Procs : Begin(p) => happened = "starts"
    BY DEF Begin
  <2>2. \A p \in Procs : Step(p) \/ LockTimesOut(p) \/ ProxyTimesOut(p) \/ CrashCommand(p)
          => happened = "starts"
    BY DEF Step, CreateLockDir, LockIsStale, LockIsFresh, ReclaimLockDir, RemoveLockDir, Probe,
           Spawn, ProxyIsUp, DropStartupLock, ReadPid, CheckAlive, KillProxy, AwaitExit,
           StopCleanup, LockTimesOut, ProxyTimesOut, CrashCommand
  <2>3. \A d \in Daemons : DaemonStep(d) \/ Term(d) \/ KillDaemon(d) => happened = "starts"
    BY DEF DaemonStep, DaemonizeSelf, Bind, WriteLifecycleFiles, Serve, ShutDown, CleanupOnExit,
           Exit, Term, KillDaemon
  <2> QED
    BY <2>1, <2>2, <2>3 DEF Next, AgeLockDir, StrangerComes, StrangerGoes, vars
<1>2. TypeOK /\ LockInv /\ AliveInv /\ PortInv /\ PidInv
  BY <1>1 DEF IInv, StartsInv
<1>3. ASSUME NEW p \in Procs, Begin(p) PROVE Goal
  <2>1. /\ ~Holding(p) /\ Launch(p, "daemon") /\ UNCHANGED <<lock, pidFile, port>>
    <3>1. PICK o \in Ops \ {NoOp} :
            /\ ~o.stop /\ o.start # "foreground" /\ Launch(p, o.start)
      BY <1>3 DEF Begin
    <3>2. o.start = "daemon"
      BY <3>1 DEF Ops, NoOp
    <3> QED
      BY <1>3, <3>1, <3>2 DEF Begin, Holding
  <2>2. /\ pc'[p] = "mkdir" /\ UNCHANGED daemon
        /\ \A q \in Procs \ {p} : pc'[q] = pc[q] /\ target'[q] = target[q]
    BY <1>2, <2>1 DEF Launch, Goto, TypeOK
  <2> QED
    BY <1>2, <2>1, <2>2, CommandMoves
<1>4. ASSUME NEW p \in Procs, CreateLockDir(p) PROVE Goal
  <2>1. /\ UNCHANGED <<pidFile, port, daemon, target>> /\ ~Holding(p)
        /\ \A q \in Procs \ {p} : pc'[q] = pc[q]
    BY <1>2, <1>4 DEF CreateLockDir, Goto, Holding, TypeOK
  <2>2. CASE lock # "absent"
    <3>1. pc'[p] = "stat" /\ lock' = lock
      BY <1>2, <1>4, <2>2 DEF CreateLockDir, Goto, TypeOK
    <3> QED
      BY <1>2, <2>1, <3>1, CommandMoves
  <2>3. CASE lock = "absent"
    <3>1. pc'[p] = "probe" /\ lock' # "absent"
      BY <1>2, <1>4, <2>3 DEF CreateLockDir, Goto, TypeOK
    <3>2. \A q \in Procs : ~Holding(q)
      BY <1>2, <2>3 DEF LockInv
    <3>3. LockInv'
      BY <1>2, <2>1, <3>1, <3>2, HolderMoves
    <3>4. AliveInv' /\ PortInv' /\ PidInv'
      BY <1>2, <2>1, <3>1, <3>2 DEF AliveInv, PortInv, PidInv, Alive, Holding
    <3> QED
      BY <3>3, <3>4
  <2> QED
    BY <2>2, <2>3
<1>5. ASSUME NEW p \in Procs, LockIsStale(p) \/ LockIsFresh(p) PROVE Goal
  <2>1. /\ pc'[p] \in {"reclaim", "mkdir"} /\ ~Holding(p)
        /\ \A q \in Procs \ {p} : pc'[q] = pc[q]
        /\ UNCHANGED <<lock, pidFile, port, daemon, target>>
    BY <1>2, <1>5 DEF LockIsStale, LockIsFresh, Goto, Holding, TypeOK
  <2> QED
    BY <1>2, <2>1, CommandMoves
<1>6. ASSUME NEW p \in Procs, ReclaimLockDir(p) PROVE Goal
  <2>1. /\ pc'[p] = "mkdir" /\ \A q \in Procs : ~Holding(q)
        /\ \A q \in Procs \ {p} : pc'[q] = pc[q]
        /\ UNCHANGED <<pidFile, port, daemon, target>>
    BY <1>2, <1>6 DEF ReclaimLockDir, RemoveLockDir, Goto, TypeOK
  <2> QED
    BY <1>2, <2>1, CommandMoves
<1>7. ASSUME NEW p \in Procs, LockTimesOut(p) PROVE Goal
  <2>1. /\ pc'[p] = "idle" /\ ~Holding(p)
        /\ lock' = lock \/ \A q \in Procs : ~Holding(q)
        /\ \A q \in Procs \ {p} : pc'[q] = pc[q] /\ target'[q] = target[q]
        /\ UNCHANGED <<pidFile, port, daemon>>
    BY <1>2, <1>7 DEF LockTimesOut, RemoveLockDir, Return, Goto, Holding, TypeOK
  <2> QED
    BY <1>2, <2>1, CommandMoves
<1>8. ASSUME NEW p \in Procs, CrashCommand(p) PROVE Goal
  <2>1. /\ pc'[p] = "idle" /\ ~Holding(p) /\ lock' = lock
        /\ \A q \in Procs \ {p} : pc'[q] = pc[q] /\ target'[q] = target[q]
        /\ UNCHANGED <<pidFile, port, daemon>>
    BY <1>2, <1>8 DEF CrashCommand, Return, Goto, TypeOK
  <2> QED
    BY <1>2, <2>1, CommandMoves
<1>9. ASSUME NEW p \in Procs, DropStartupLock(p) PROVE Goal
  <2>1. /\ pc'[p] = "idle" /\ pc[p] = "unlock" /\ Holding(p)
        /\ \A q \in Procs \ {p} : pc'[q] = pc[q] /\ target'[q] = target[q]
        /\ UNCHANGED <<pidFile, port, daemon>>
    BY <1>2, <1>9 DEF DropStartupLock, Return, Goto, Holding, TypeOK
  <2>2. \A q \in Procs \ {p} : ~Holding(q)
    BY <1>2, <2>1 DEF LockInv
  <2> QED
    BY <1>2, <2>1, <2>2, CommandMoves
\* Whoever holds the lock and waits for no daemon knows of all that are alive.
<1>10. ASSUME NEW p \in Procs, Holding(p), pc[p] # "wait"
       PROVE  /\ \A q \in Procs : pc[q] # "wait"
              /\ \A d \in Daemons : Alive(d) => port = d /\ daemon[d] \notin {"forked", "detached"}
  <2>1. \A q \in Procs : pc[q] # "wait"
    BY <1>2, <1>10 DEF LockInv, Holding
  <2> QED
    BY <1>2, <2>1 DEF AliveInv
<1>11. ASSUME NEW p \in Procs, Probe(p) PROVE Goal
  <2>1. /\ pc'[p] \in {"unlock", "spawn"}
        /\ pc'[p] = "spawn" => port \notin Daemons
        /\ Holding(p) /\ pc[p] # "wait"
        /\ \A q \in Procs \ {p} : pc'[q] = pc[q]
        /\ UNCHANGED <<lock, pidFile, port, daemon, target>>
    BY <1>2, <1>11, NoneAssumption, StrangersAssumption DEF Probe, NotRunning, Goto, Holding, TypeOK
  <2>2. /\ LockInv'
        /\ \A q \in Procs \ {p} : pc'[q] \notin {"probe", "spawn", "wait", "unlock"}
    BY <1>2, <2>1, HolderMoves DEF LockInv
  <2>3. AliveInv'
    BY <1>10, <2>1 DEF AliveInv, Alive
  <2>4. PortInv' /\ PidInv'
    BY <1>2, <2>1, <2>2 DEF PortInv, PidInv
  <2> QED
    BY <2>2, <2>3, <2>4
<1>12. ASSUME NEW p \in Procs, Spawn(p) PROVE Goal
  <2>1. /\ Holding(p) /\ pc[p] # "wait" /\ port \notin Daemons
        /\ \A d \in Daemons : ~Alive(d)
        /\ UNCHANGED <<lock, pidFile, port>>
    BY <1>2, <1>10, <1>12 DEF Spawn, Holding, PortInv
  <2>2. CASE pc'[p] = "unlock" /\ UNCHANGED <<daemon, target>>
    <3>1. \A q \in Procs \ {p} : pc'[q] = pc[q]
      BY <1>2, <1>12 DEF Spawn, Goto, TypeOK
    <3>2. /\ LockInv'
          /\ \A q \in Procs \ {p} : pc'[q] \notin {"probe", "spawn", "wait", "unlock"}
      BY <1>2, <2>1, <2>2, <3>1, HolderMoves DEF LockInv
    <3>3. AliveInv' /\ PortInv' /\ PidInv'
      BY <1>2, <2>1, <2>2, <3>2 DEF AliveInv, PortInv, PidInv, Alive
    <3> QED
      BY <3>2, <3>3
  <2>3. ASSUME NEW d \in Daemons, daemon[d] = "unborn", daemon' = [daemon EXCEPT ![d] = "forked"],
               target' = [target EXCEPT ![p] = d], Goto(p, "wait")
        PROVE  Goal
    <3>1. /\ pc'[p] = "wait" /\ target'[p] = d /\ \A q \in Procs \ {p} : pc'[q] = pc[q]
          /\ daemon'[d] = "forked" /\ \A e \in Daemons \ {d} : daemon'[e] = daemon[e]
      BY <1>2, <2>3 DEF Goto, TypeOK
    <3>2. /\ LockInv'
          /\ \A q \in Procs \ {p} : pc'[q] \notin {"probe", "spawn", "wait", "unlock"}
      BY <1>2, <2>1, <3>1, HolderMoves DEF LockInv
    <3>3. AliveInv'
      BY <2>1, <3>1 DEF AliveInv, Alive
    <3>4. PortInv' /\ PidInv'
      BY <1>2, <2>1, <3>1, <3>2 DEF PortInv, PidInv
    <3> QED
      BY <3>2, <3>3, <3>4
  <2>4. CASE Goto(p, "unlock") /\ UNCHANGED <<daemon, target>>
    <3>1. pc'[p] = "unlock"
      BY <1>2, <2>4 DEF Goto, TypeOK
    <3> QED
      BY <2>2, <2>4, <3>1
  <2> QED
    BY <1>12, <2>3, <2>4 DEF Spawn, Unborn
\* While it waits, its daemon and whoever has the port are all that are alive.
<1>13. ASSUME NEW p \in Procs, pc[p] = "wait"
       PROVE  /\ \A q \in Procs : pc[q] = "wait" => q = p
              /\ \A d \in Daemons : Alive(d) => d = target[p]
              /\ Holding(p) /\ target[p] \in Daemons
  <2>1. Holding(p) /\ \A q \in Procs : pc[q] = "wait" => q = p
    BY <1>2, <1>13 DEF LockInv, Holding
  <2>2. target[p] \in Daemons /\ (port \in Daemons => port = target[p])
    BY <1>2, <1>13 DEF TypeOK, PortInv
  <2>3. ASSUME NEW d \in Daemons, Alive(d) PROVE d = target[p]
    BY <1>2, <2>1, <2>2, <2>3, NoneAssumption DEF AliveInv
  <2> QED
    BY <2>1, <2>2, <2>3
<1>14. ASSUME NEW p \in Procs, ProxyIsUp(p) \/ ProxyTimesOut(p) PROVE Goal
  <2>1. /\ pc[p] = "wait" /\ pc'[p] = "unlock"
        /\ \A q \in Procs \ {p} : pc'[q] = pc[q]
        /\ UNCHANGED <<lock, pidFile, port, daemon>>
    BY <1>2, <1>14 DEF ProxyIsUp, ProxyTimesOut, Goto, TypeOK
  <2>2. /\ \A d \in Daemons : Alive(d) => d = target[p]
        /\ Holding(p) /\ target[p] \in Daemons
    BY <1>13, <2>1
  <2>3. ~Alive(target[p]) \/ (port = target[p] /\ daemon[port] \in {"serving", "term"})
    <3>1. CASE ProxyTimesOut(p)
      BY <1>1, <3>1 DEF ProxyTimesOut
    <3>2. CASE ProxyIsUp(p)
      <4>1. port \in Daemons /\ daemon[port] \in {"serving", "term"}
        BY <3>2 DEF ProxyIsUp, Running
      <4> QED
        BY <1>2, <2>1, <4>1 DEF PortInv
    <3> QED
      BY <1>14, <3>1, <3>2
  <2>4. /\ LockInv'
        /\ \A q \in Procs \ {p} : pc'[q] \notin {"probe", "spawn", "wait", "unlock"}
    BY <1>2, <2>1, <2>2, HolderMoves DEF LockInv
  <2>5. AliveInv'
    BY <2>1, <2>2, <2>3 DEF AliveInv, Alive
  <2>6. PortInv' /\ PidInv'
    BY <1>2, <2>1, <2>4 DEF PortInv, PidInv
  <2> QED
    BY <2>4, <2>5, <2>6
<1>15. ASSUME NEW p \in Procs, ReadPid(p) \/ CheckAlive(p) \/ KillProxy(p) \/ AwaitExit(p) \/ StopCleanup(p)
       PROVE  Goal
  BY <1>2, <1>15 DEF ReadPid, CheckAlive, KillProxy, AwaitExit, StopCleanup, LockInv, Stopping
\* So there is one daemon alive at the most, ...
<1>16. ASSUME NEW d \in Daemons, Alive(d)
       PROVE  /\ \A e \in Daemons \ {d} : ~Alive(e)
              /\ \A p \in Procs : pc[p] # "spawn" /\ (pc[p] = "wait" => target[p] = d)
              /\ port \in Daemons => port = d
  <2>1. CASE \E p \in Procs : pc[p] = "wait"
    <3>1. PICK p \in Procs : pc[p] = "wait"
      BY <2>1
    <3>2. d = target[p] /\ \A e \in Daemons : Alive(e) => e = target[p]
      BY <1>13, <1>16, <3>1
    <3>3. \A q \in Procs : (pc[q] = "wait" => q = p) /\ pc[q] # "spawn"
      BY <1>2, <1>13, <3>1 DEF LockInv, Holding
    <3> QED
      BY <1>2, <3>1, <3>2, <3>3 DEF PortInv
  <2>2. CASE \A p \in Procs : pc[p] # "wait"
    <3>1. port = d /\ \A e \in Daemons : Alive(e) => port = e
      BY <1>2, <1>16, <2>2 DEF AliveInv
    <3> QED
      BY <1>2, <2>2, <3>1, NoneAssumption DEF PortInv
  <2> QED
    BY <2>1, <2>2
\* ... and what it does to itself, to the port and to the files bothers nobody.
<1>17. ASSUME NEW d \in Daemons, Alive(d), NEW state \in DaemonStates,
              daemon' = [daemon EXCEPT ![d] = state], UNCHANGED <<lock, cmds>>,
              port' \in Daemons => port' = d,
              state \in {"forked", "detached"} => daemon[d] \in {"forked", "detached"},
              state \notin {"unborn", "forked", "detached", "gone"} => port' = d,
              state \in {"detached", "bound", "written", "serving"} => pidFile' = d
       PROVE  Goal
  <2>1. /\ daemon'[d] = state /\ \A e \in Daemons \ {d} : daemon'[e] = daemon[e]
        /\ UNCHANGED <<lock, pc, target>>
    BY <1>2, <1>17 DEF TypeOK, cmds
  <2>2. /\ \A e \in Daemons \ {d} : ~Alive(e)
        /\ \A p \in Procs : pc[p] # "spawn" /\ (pc[p] = "wait" => target[p] = d)
    BY <1>16, <1>17
  <2>3. LockInv'
    BY <1>2, <2>1 DEF LockInv, Holding
  <2>4. AliveInv'
    <3>1. ASSUME NEW e \in Daemons, e # d PROVE ~Alive(e)'
      BY <2>1, <2>2, <3>1 DEF Alive
    <3>2. CASE state \in {"forked", "detached"}
      <4>1. \E p \in Procs : pc[p] = "wait" /\ target[p] = d
        BY <1>2, <1>17, <3>2 DEF AliveInv
      <4> QED
        BY <2>1, <3>1, <3>2, <4>1 DEF AliveInv
    <3>3. CASE state \notin {"forked", "detached"}
      BY <1>17, <2>1, <3>1, <3>3 DEF AliveInv, Alive
    <3> QED
      BY <3>2, <3>3
  <2>5. PortInv'
    BY <1>17, <2>1, <2>2 DEF PortInv
  <2>6. PidInv'
    BY <1>17, <2>1, <2>2 DEF PidInv, Alive
  <2> QED
    BY <2>3, <2>4, <2>5, <2>6
<1>18. ASSUME NEW d \in Daemons, DaemonStep(d) \/ Term(d) \/ KillDaemon(d) PROVE Goal
  <2>1. Alive(d)
    BY <1>18 DEF DaemonStep, DaemonizeSelf, Bind, WriteLifecycleFiles, Serve, ShutDown,
                 CleanupOnExit, Exit, Term, KillDaemon, Booting, Alive
  <2>2. (port \in Daemons => port = d) /\ (daemon[d] \notin {"forked", "detached"} => port = d)
    BY <1>2, <1>16, <2>1 DEF AliveInv
  <2>3. daemon[d] \in {"detached", "bound", "written", "serving"} => pidFile = d
    BY <1>2 DEF PidInv
  <2> USE DEF DaemonStates
  <2>4. CASE DaemonizeSelf(d)
    BY <1>17, <2>1, <2>2, <2>4 DEF DaemonizeSelf
  <2>5. CASE Bind(d)
    BY <1>17, <2>1, <2>2, <2>3, <2>5, NoneAssumption DEF Bind, Ends
  <2>6. CASE WriteLifecycleFiles(d)
    BY <1>17, <2>1, <2>2, <2>6 DEF WriteLifecycleFiles
  <2>7. CASE Serve(d)
    BY <1>17, <2>1, <2>2, <2>3, <2>7 DEF Serve
  <2>8. CASE ShutDown(d)
    BY <1>17, <2>1, <2>2, <2>8 DEF ShutDown
  <2>9. CASE CleanupOnExit(d)
    BY <1>17, <2>1, <2>2, <2>9 DEF CleanupOnExit
  <2>10. CASE Exit(d) \/ KillDaemon(d)
    BY <1>17, <2>1, <2>2, <2>10, NoneAssumption DEF Exit, KillDaemon, Ends
  <2>11. CASE Term(d)
    <3>1. CASE daemon[d] \in Booting
      BY <1>17, <2>1, <2>2, <2>11, <3>1, NoneAssumption DEF Term, Signalled, Booting
    <3>2. CASE daemon[d] = "serving"
      BY <1>17, <2>1, <2>2, <2>11, <3>2 DEF Term, Signalled, Booting
    <3> QED
      BY <2>11, <3>1, <3>2 DEF Term
  <2> QED
    BY <1>18, <2>4, <2>5, <2>6, <2>7, <2>8, <2>9, <2>10, <2>11 DEF DaemonStep
<1>19. CASE AgeLockDir
  BY <1>2, <1>19 DEF AgeLockDir, cmds, LockInv, AliveInv, PortInv, PidInv, Holding, Alive
<1>21. CASE StrangerComes \/ StrangerGoes
  <2>1. /\ port \notin Daemons /\ port' \notin Daemons
        /\ UNCHANGED <<lock, pidFile, daemon, cmds>>
    BY <1>21, NoneAssumption, StrangersAssumption DEF StrangerComes, StrangerGoes
  <2> QED
    BY <1>2, <2>1 DEF cmds, LockInv, AliveInv, PortInv, PidInv, Holding, Alive
<1>20. CASE UNCHANGED vars
  BY <1>2, <1>20 DEF vars, cmds, LockInv, AliveInv, PortInv, PidInv, Holding, Alive
<1> QED
  BY <1>3, <1>4, <1>5, <1>6, <1>7, <1>8, <1>9, <1>11, <1>12, <1>14, <1>15, <1>18, <1>19, <1>20, <1>21
  DEF Next, Step

LEMMA Invariant == Spec => []IInv
<1>1. IInv /\ [Next]_vars => IInv'
  BY TypeStep, StartsStep DEF IInv
<1> QED
  BY InitInv, <1>1, PTL DEF Spec

-------------------------------------------------------------------------------
\* The types of the lock, the files, the commands and the daemons, for any
\* number of them.
THEOREM TypeCorrect == Spec => []TypeOK
<1>1. IInv => TypeOK
  BY DEF IInv
<1> QED
  BY Invariant, <1>1, PTL

\* While proxies are only started by ensure_proxy_running under its lock, the
\* proxy that serves is the one proxy.pid names, for any number of commands and
\* daemons, whichever of them die.
THEOREM PidFileIsTheProxys == Spec => []PidFileNamesTheProxy
<1>1. IInv => PidFileNamesTheProxy
  BY DEF IInv, StartsInv, PidInv, PidFileNamesTheProxy, PidFileIsRight
<1> QED
  BY Invariant, <1>1, PTL
===============================================================================
