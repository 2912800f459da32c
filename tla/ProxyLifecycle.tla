---------------------------- MODULE ProxyLifecycle ----------------------------
(***************************************************************************)
(* Starting and stopping the proxy daemon of one state directory and one   *)
(* port (crates/nsl/src/proxy/daemon.rs, proxy/server.rs): the commands    *)
(* that ensure it runs, stop it or reload it, the daemons they spawn, the  *)
(* lock directory proxy.start.lock and the file proxy.pid.                 *)
(*                                                                         *)
(* proxy.port and proxy.tls are written and removed together with          *)
(* proxy.pid and share its fate; they are left out.  The loops that give   *)
(* up after a number of rounds may give up in any round.                   *)
(***************************************************************************)
EXTENDS FiniteSets

CONSTANTS Procs,    \* processes running nsl commands
          Daemons,  \* proxy processes, each used once
          Users,
          Superuser,  \* the user who may signal every process
          UserOf,     \* who runs each command, and whose proxy each daemon is
          Stranger,   \* another program on the port, which answers requests,
          Mute,       \* and one that accepts connections and does not answer
          None

ASSUME NoneAssumption == None \notin Daemons
ASSUME StrangersAssumption == Stranger \notin Daemons /\ Mute \notin Daemons
ASSUME UserOfAssumption == UserOf \in [Procs \cup Daemons -> Users]

VARIABLES
  lock,      \* proxy.start.lock: absent, fresh or stale
  pidFile,   \* the process proxy.pid names
  pidLock,   \* the daemon that holds the flock on that very file
  port,      \* who is bound to the port: a daemon, another program, nobody
  daemon,    \* where each daemon is
  pc,        \* where each command is
  op,        \* what is left of each command: a stop, then a start
  target,    \* the pid a stop has read, or the daemon a start has spawned
  happened   \* history: only starts so far, or more

cmds == <<pc, op, target>>
vars == <<lock, pidFile, pidLock, port, daemon, pc, op, target, happened>>

DaemonStates == {"unborn", "forked", "detached", "bound", "written", "serving",
                 "term", "cleaned", "closing", "gone"}
Booting == {"forked", "detached", "bound", "written"}

Starting == {"mkdir", "stat", "reclaim", "probe", "spawn", "wait", "unlock"}
Stopping == {"readPid", "checkAlive", "kill", "await", "cleanup"}
Holding(p) == pc[p] \in {"probe", "spawn", "wait", "unlock"}

\* What the properties make allowance for.  "upset": a foreground proxy was
\* asked for, a command was killed while it held the lock, a lock that was held
\* was taken for stale, or a start gave up on a daemon that still booted.
Histories == {"starts", "upset"}

\* The commands: start, start --foreground, stop, and the two of reload.
Ops == [stop: BOOLEAN, start: {"no", "daemon", "foreground"}]
NoOp == [stop |-> FALSE, start |-> "no"]

Alive(d) == daemon[d] \notin {"unborn", "gone"}

\* is_process_alive, as p is told of d: a process that its user may not signal
\* (EPERM) counts as dead.
IsProcessAlive(p, d) == Alive(d) /\ UserOf[p] \in {Superuser, UserOf[d]}

Init ==
  /\ lock = "absent" /\ pidFile = None /\ pidLock = None /\ port = None
  /\ daemon = [d \in Daemons |-> "unborn"]
  /\ pc = [p \in Procs |-> "idle"]
  /\ op = [p \in Procs |-> NoOp]
  /\ target = [p \in Procs |-> None]
  /\ happened = "starts"

Goto(p, label) == pc' = [pc EXCEPT ![p] = label]

\* remove_file works on whatever file is there.
CleanupLifecycleFiles == pidFile' = None /\ pidLock' = None

Return(p) ==
  /\ Goto(p, "idle")
  /\ op' = [op EXCEPT ![p] = NoOp]
  /\ target' = [target EXCEPT ![p] = None]

\* The processes that p can still start as a proxy: those of its user.
Unborn(p) == {d \in Daemons : daemon[d] = "unborn" /\ UserOf[d] = UserOf[p]}

\* The start half of a command: ensure_proxy_running, or start_proxy in the
\* command's own process (modelled as a daemon of its own).
Launch(p, how) ==
  \/ /\ how = "daemon"
     /\ Goto(p, "mkdir")
     /\ op' = [op EXCEPT ![p] = [stop |-> FALSE, start |-> "daemon"]]
     /\ target' = [target EXCEPT ![p] = None]
     /\ UNCHANGED daemon
  \/ /\ how = "foreground"
     /\ \E d \in Unborn(p) : daemon' = [daemon EXCEPT ![d] = "detached"]
     /\ Return(p)
  \/ /\ how = "no" \/ (how = "foreground" /\ Unborn(p) = {})
     /\ Return(p)
     /\ UNCHANGED daemon

Begin(p) ==
  /\ pc[p] = "idle"
  /\ \E o \in Ops \ {NoOp} :
       /\ \/ /\ o.stop
             /\ Goto(p, "readPid")
             /\ op' = [op EXCEPT ![p] = o]
             /\ UNCHANGED <<target, daemon>>
          \/ ~o.stop /\ Launch(p, o.start)
       /\ happened' = IF o.stop \/ o.start = "foreground" THEN "upset" ELSE happened
  /\ UNCHANGED <<lock, pidFile, pidLock, port>>

-------------------------------------------------------------------------------
(* acquire_startup_lock                                                     *)

CreateLockDir(p) ==
  /\ pc[p] = "mkdir"
  /\ \/ lock = "absent" /\ lock' = "fresh" /\ Goto(p, "probe")
     \/ lock # "absent" /\ lock' = lock /\ Goto(p, "stat")
  /\ UNCHANGED <<pidFile, pidLock, port, daemon, op, target, happened>>

LockIsStale(p) ==
  /\ pc[p] = "stat"
  /\ lock = "stale"
  /\ Goto(p, "reclaim")
  /\ UNCHANGED <<lock, pidFile, pidLock, port, daemon, op, target, happened>>

LockIsFresh(p) ==
  /\ pc[p] = "stat"
  /\ lock # "stale"
  /\ Goto(p, "mkdir")
  /\ UNCHANGED <<lock, pidFile, pidLock, port, daemon, op, target, happened>>

\* remove_dir_all deletes whatever directory is there by now.
RemoveLockDir ==
  /\ lock' = "absent"
  /\ happened' = IF \E q \in Procs : Holding(q) THEN "upset" ELSE happened

ReclaimLockDir(p) ==
  /\ pc[p] = "reclaim"
  /\ RemoveLockDir
  /\ Goto(p, "mkdir")
  /\ UNCHANGED <<pidFile, pidLock, port, daemon, op, target>>

\* Variant with a fault: the loop has no last round.
LockNeverTimesOut(p) ==
  /\ pc[p] = "stat" /\ lock # "stale"
  /\ Goto(p, "mkdir")
  /\ UNCHANGED <<lock, pidFile, pidLock, port, daemon, op, target, happened>>

\* "timed out waiting for proxy startup lock": that was the last round.
LockTimesOut(p) ==
  /\ \/ pc[p] = "stat" /\ lock # "stale" /\ UNCHANGED <<lock, happened>>
     \/ pc[p] = "reclaim" /\ RemoveLockDir
  /\ Return(p)
  /\ UNCHANGED <<pidFile, pidLock, port, daemon>>

-------------------------------------------------------------------------------
(* ensure_proxy_running, with the lock held                                 *)

\* is_proxy_running: a HEAD request, with no limit on its time.  Nobody listens,
\* another program answers without nsl's header, or a proxy answers; a listener
\* that stays silent, or a proxy that does not accept yet or any more, keeps the
\* request waiting.
NotRunning == port \in {None, Stranger}
Running    == port \in Daemons /\ daemon[port] \in {"serving", "term"}

Probe(p) ==
  /\ pc[p] = "probe"
  /\ \/ Running /\ Goto(p, "unlock")
     \/ NotRunning /\ Goto(p, "spawn")
  /\ UNCHANGED <<lock, pidFile, pidLock, port, daemon, op, target, happened>>

Spawn(p) ==
  /\ pc[p] = "spawn"
  /\ \/ \E d \in Unborn(p) :
          /\ daemon' = [daemon EXCEPT ![d] = "forked"]
          /\ target' = [target EXCEPT ![p] = d]
          /\ Goto(p, "wait")
     \/ /\ Unborn(p) = {}
        /\ Goto(p, "unlock")
        /\ UNCHANGED <<daemon, target>>
  /\ UNCHANGED <<lock, pidFile, pidLock, port, op, happened>>

ProxyIsUp(p) ==
  /\ pc[p] = "wait"
  /\ Running
  /\ Goto(p, "unlock")
  /\ target' = [target EXCEPT ![p] = None]
  /\ UNCHANGED <<lock, pidFile, pidLock, port, daemon, op, happened>>

\* "proxy failed to start": the daemon may still be on its way.
ProxyTimesOut(p) ==
  /\ pc[p] = "wait"
  /\ NotRunning
  /\ happened' = IF Alive(target[p]) THEN "upset" ELSE happened
  /\ Goto(p, "unlock")
  /\ target' = [target EXCEPT ![p] = None]
  /\ UNCHANGED <<lock, pidFile, pidLock, port, daemon, op>>

\* StartupLock::drop.
DropStartupLock(p) ==
  /\ pc[p] = "unlock"
  /\ lock' = "absent"
  /\ Return(p)
  /\ UNCHANGED <<pidFile, pidLock, port, daemon, happened>>

-------------------------------------------------------------------------------
(* stop_proxy; reload goes on to its start whatever comes of the stop       *)

StopReturns(p) == Launch(p, op[p].start)

\* Variant with a fault: the file is taken to be there.
ReadPidUnchecked(p) ==
  /\ pc[p] = "readPid"
  /\ target' = [target EXCEPT ![p] = pidFile]
  /\ Goto(p, "checkAlive")
  /\ UNCHANGED <<lock, pidFile, pidLock, port, daemon, op, happened>>

ReadPid(p) ==
  /\ pc[p] = "readPid"
  /\ \/ /\ pidFile = None
        /\ StopReturns(p)
     \/ /\ pidFile # None
        /\ target' = [target EXCEPT ![p] = pidFile]
        /\ Goto(p, "checkAlive")
        /\ UNCHANGED <<op, daemon>>
  /\ UNCHANGED <<lock, pidFile, pidLock, port, happened>>

CheckAlive(p) ==
  /\ pc[p] = "checkAlive"
  /\ \/ /\ IsProcessAlive(p, target[p])
        /\ Goto(p, "kill")
        /\ UNCHANGED <<pidFile, pidLock, daemon, op, target>>
     \/ /\ ~IsProcessAlive(p, target[p])
        /\ CleanupLifecycleFiles
        /\ StopReturns(p)
  /\ UNCHANGED <<lock, port, happened>>

\* SIGTERM to a proxy that has no handler yet ends it on the spot.
Signalled(d) ==
  /\ daemon' = [daemon EXCEPT ![d] = IF @ \in Booting THEN "gone"
                                     ELSE IF @ = "serving" THEN "term" ELSE @]
  /\ port' = IF daemon[d] \in Booting /\ port = d THEN None ELSE port
  /\ pidLock' = IF daemon[d] \in Booting /\ pidLock = d THEN None ELSE pidLock

\* terminate_process; an error (the process is gone by now) ends the stop.
KillProxy(p) ==
  /\ pc[p] = "kill"
  /\ \/ /\ Alive(target[p])
        /\ Signalled(target[p])
        /\ Goto(p, "await")
        /\ UNCHANGED <<op, target>>
     \/ /\ ~Alive(target[p])
        /\ StopReturns(p)
        /\ UNCHANGED <<port, pidLock>>
  /\ UNCHANGED <<lock, pidFile, happened>>

\* The process has ended, or it has had its two seconds.
AwaitExit(p) ==
  /\ pc[p] = "await"
  /\ Goto(p, "cleanup")
  /\ target' = [target EXCEPT ![p] = None]
  /\ UNCHANGED <<lock, pidFile, pidLock, port, daemon, op, happened>>

StopCleanup(p) ==
  /\ pc[p] = "cleanup"
  /\ CleanupLifecycleFiles
  /\ StopReturns(p)
  /\ UNCHANGED <<lock, port, happened>>

-------------------------------------------------------------------------------
(* The daemon                                                               *)

\* daemonize_self: the pid file is opened, locked without waiting and written.
DaemonizeSelf(d) ==
  /\ daemon[d] = "forked"
  /\ \/ /\ pidLock = None
        /\ pidFile' = d /\ pidLock' = d
        /\ daemon' = [daemon EXCEPT ![d] = "detached"]
     \/ /\ pidLock # None
        /\ daemon' = [daemon EXCEPT ![d] = "gone"]
        /\ UNCHANGED <<pidFile, pidLock>>
  /\ UNCHANGED <<lock, port, cmds, happened>>

\* A process that ends lets go of the port and of its lock on the pid file.
Ends(d) ==
  /\ daemon' = [daemon EXCEPT ![d] = "gone"]
  /\ port' = IF port = d THEN None ELSE port
  /\ pidLock' = IF pidLock = d THEN None ELSE pidLock

\* TcpListener::bind; a proxy that cannot bind leaves the files as they are.
Bind(d) ==
  /\ daemon[d] = "detached"
  /\ \/ /\ port = None
        /\ port' = d
        /\ daemon' = [daemon EXCEPT ![d] = "bound"]
        /\ UNCHANGED pidLock
     \/ /\ port # None
        /\ Ends(d)
  /\ UNCHANGED <<lock, pidFile, cmds, happened>>

\* Over a file that is there, fs::write keeps the lock somebody has on it.
WriteLifecycleFiles(d) ==
  /\ daemon[d] = "bound"
  /\ pidFile' = d
  /\ daemon' = [daemon EXCEPT ![d] = "written"]
  /\ UNCHANGED <<lock, pidLock, port, cmds, happened>>

\* The routes are loaded, the signal handlers are installed.
Serve(d) ==
  /\ daemon[d] = "written"
  /\ daemon' = [daemon EXCEPT ![d] = "serving"]
  /\ UNCHANGED <<lock, pidFile, pidLock, port, cmds, happened>>

\* Variant with a fault: the listener is dropped before the last cleanup.
ShutDownPortFirst(d) ==
  /\ daemon[d] = "term"
  /\ CleanupLifecycleFiles
  /\ daemon' = [daemon EXCEPT ![d] = "cleaned"]
  /\ port' = IF port = d THEN None ELSE port
  /\ UNCHANGED <<lock, cmds, happened>>

\* The shutdown future cleans up ...
ShutDown(d) ==
  /\ daemon[d] = "term"
  /\ CleanupLifecycleFiles
  /\ daemon' = [daemon EXCEPT ![d] = "cleaned"]
  /\ UNCHANGED <<lock, port, cmds, happened>>

\* ... and start_proxy cleans up once more, with the listener still open.
CleanupOnExit(d) ==
  /\ daemon[d] = "cleaned"
  /\ CleanupLifecycleFiles
  /\ daemon' = [daemon EXCEPT ![d] = "closing"]
  /\ UNCHANGED <<lock, port, cmds, happened>>

Exit(d) ==
  /\ daemon[d] = "closing"
  /\ Ends(d)
  /\ UNCHANGED <<lock, pidFile, cmds, happened>>

-------------------------------------------------------------------------------
(* The world around them                                                    *)

\* Somebody else's SIGTERM, or Ctrl+C in the foreground.
Term(d) ==
  /\ daemon[d] \in Booting \cup {"serving"}
  /\ Signalled(d)
  /\ UNCHANGED <<lock, pidFile, cmds, happened>>

\* SIGKILL, a reboot, a panic.
KillDaemon(d) ==
  /\ Alive(d)
  /\ Ends(d)
  /\ UNCHANGED <<lock, pidFile, cmds, happened>>

\* Another program binds the port, answers at last, or lets go of it.
StrangerComes ==
  /\ port = None
  /\ port' \in {Stranger, Mute}
  /\ UNCHANGED <<lock, pidFile, pidLock, daemon, cmds, happened>>

StrangerGoes ==
  /\ port \in {Stranger, Mute}
  /\ port' \in {None, Stranger} \ {port}
  /\ UNCHANGED <<lock, pidFile, pidLock, daemon, cmds, happened>>

\* A command is interrupted: no destructor runs.
CrashCommand(p) ==
  /\ pc[p] # "idle"
  /\ happened' = IF Holding(p) THEN "upset" ELSE happened
  /\ Return(p)
  /\ UNCHANGED <<lock, pidFile, pidLock, port, daemon>>

\* Fifteen seconds pass.  Nothing bounds the time a HEAD request may take, so
\* the lock of a command that is alive may be over-age as well.
AgeLockDir ==
  /\ lock = "fresh"
  /\ lock' = "stale"
  /\ UNCHANGED <<pidFile, pidLock, port, daemon, cmds, happened>>

-------------------------------------------------------------------------------
Step(p) ==
  \/ CreateLockDir(p) \/ LockIsStale(p) \/ LockIsFresh(p) \/ ReclaimLockDir(p)
  \/ Probe(p) \/ Spawn(p) \/ ProxyIsUp(p) \/ DropStartupLock(p)
  \/ ReadPid(p) \/ CheckAlive(p) \/ KillProxy(p) \/ AwaitExit(p) \/ StopCleanup(p)

DaemonStep(d) ==
  \/ DaemonizeSelf(d) \/ Bind(d) \/ WriteLifecycleFiles(d) \/ Serve(d)
  \/ ShutDown(d) \/ CleanupOnExit(d) \/ Exit(d)

Next ==
  \/ \E p \in Procs :
       Begin(p) \/ Step(p) \/ LockTimesOut(p) \/ ProxyTimesOut(p) \/ CrashCommand(p)
  \/ \E d \in Daemons : DaemonStep(d) \/ Term(d) \/ KillDaemon(d)
  \/ StrangerComes \/ StrangerGoes
  \/ AgeLockDir

Spec == Init /\ [][Next]_vars

\* What ends a command's waiting: for the lock, and for answers to its requests.
Awaited(p) == LockTimesOut(p) \/ Probe(p) \/ ProxyIsUp(p) \/ ProxyTimesOut(p)

\* The command that CommandsReturn is about: one of root's, which may do all.
Observed == CHOOSE p \in Procs : UserOf[p] = Superuser

\* That command and the daemons are scheduled; the others may stop anywhere.  The
\* loops are bounded, so a loop that may give up again and again gives up in the
\* end.  A request that waits is answered or refused when whoever keeps it waiting
\* speaks or goes away, even if the next one on the port is silent again.
LiveSpec ==
  /\ Spec
  /\ WF_vars(Step(Observed)) /\ SF_vars(Awaited(Observed))
  /\ \A d \in Daemons : WF_vars(DaemonStep(d))

-------------------------------------------------------------------------------
TypeOK ==
  /\ lock \in {"absent", "fresh", "stale"}
  /\ pidFile \in Daemons \cup {None}
  /\ pidLock \in Daemons \cup {None}
  /\ port \in Daemons \cup {Stranger, Mute, None}
  /\ daemon \in [Daemons -> DaemonStates]
  /\ pc \in [Procs -> {"idle"} \cup Starting \cup Stopping]
  /\ op \in [Procs -> Ops]
  /\ target \in [Procs -> Daemons \cup {None}]
  /\ \A p \in Procs :
       pc[p] \in {"wait", "checkAlive", "kill", "await"} => target[p] \in Daemons
  /\ happened \in Histories

PidFileIsRight == \A d \in Daemons : daemon[d] = "serving" => pidFile = d

\* While proxies are only started by ensure_proxy_running, its lock is not
\* taken away from it and it does not give up on a slow daemon, the proxy that
\* serves is the one proxy.pid names, whatever signals end its predecessors:
\* the old proxy has removed its files for good before a new one can start.
PidFileNamesTheProxy == happened = "starts" => PidFileIsRight

\* Every start, stop and reload comes to an end, whatever the daemons and the
\* other commands do, and whoever died with the lock -- as long as no program
\* stays on the port for ever that accepts connections and does not answer: of
\* is_proxy_running's request nothing else bounds the time (daemon.rs:190), with
\* the startup lock held.
CommandsReturn ==
  ([]<>(port # Mute)) => ((pc[Observed] # "idle") ~> (pc[Observed] = "idle"))

-------------------------------------------------------------------------------
(* The inductive strengthening of PidFileNamesTheProxy: what holds as long  *)
(* as there were only starts.                                               *)

LockInv ==
  /\ \A p \in Procs : pc[p] \notin Stopping /\ (Holding(p) => lock # "absent")
  /\ \A p, q \in Procs : Holding(p) /\ Holding(q) => p = q

\* A daemon without the port is the one that the lock's holder waits for.
AliveInv ==
  \A d \in Daemons : Alive(d) =>
    IF daemon[d] \in {"forked", "detached"}
      THEN \E p \in Procs : pc[p] = "wait" /\ target[p] = d
      ELSE port = d

\* No other daemon than that comes up meanwhile.
PortInv ==
  \A p \in Procs :
    /\ pc[p] = "spawn" => port \notin Daemons
    /\ pc[p] = "wait" /\ port \in Daemons => port = target[p]

PidInv ==
  \A d \in Daemons :
    daemon[d] \in {"detached", "bound", "written", "serving"} => pidFile = d

StartsInv == happened = "starts" => LockInv /\ AliveInv /\ PortInv /\ PidInv

IInv == TypeOK /\ StartsInv
===============================================================================
