-------------------------------- MODULE AppRun --------------------------------
(***************************************************************************)
(* The life of `nsl run` and `nsl serve` (crates/nsl/src/run/mod.rs,       *)
(* serve/mod.rs): a command spawns its child (or serves itself), registers *)
(* the route under the child's pid, supervises the child and removes the   *)
(* route, while other commands take the route over and signals arrive.     *)
(*                                                                         *)
(* The operations on the route table are atomic here; that RouteStore      *)
(* makes them so is its theorem StoreIsAtomic.  There is one entry for a   *)
(* key at most, so the table maps keys to the command that owns the entry. *)
(* A pid is not used again within the model.  A command sees the processes *)
(* its user may signal: to `kill(pid, 0)` every other one is dead.         *)
(***************************************************************************)
EXTENDS FiniteSets

CONSTANTS Runs,  \* commands, each run once, with the pid of its app
          Keys,  \* (hostname, path prefix)
          Users,
          Commands,  \* the command lines given
          Superuser, \* the user who may signal every process
          Nobody

ASSUME NobodyAssumption == Nobody \notin Runs

\* A command line; `tty`: stdin is a terminal, so the child of `nsl run` gets
\* a process group of its own.
Lines == [kind: {"run", "serve"}, key: Keys, force: BOOLEAN, tty: BOOLEAN, user: Users]
NoLine == [kind |-> "none"]

ASSUME CommandsAssumption == Commands \subseteq Lines

VARIABLES
  table,     \* routes.json: who holds each key
  app,       \* the app: unborn, up, told (has SIGTERM), dead
  pc,        \* where the command is
  what,      \* the command line
  listed,    \* registered_child_pid is set
  ctrlC,     \* history: Ctrl+C was pressed in the command's terminal
  bailed     \* history: an error of the system ended the supervision (a `?`)

vars == <<table, app, pc, what, listed, ctrlC, bailed>>

Phases == {"idle", "spawn", "register", "wait", "supervise", "reap", "listen",
           "accept", "cleanup", "done", "left", "interrupted", "killed"}
Over == {"done", "left", "interrupted", "killed"}

Init ==
  /\ table = [k \in Keys |-> Nobody]
  /\ app = [r \in Runs |-> "unborn"]
  /\ pc = [r \in Runs |-> "idle"]
  /\ what = [r \in Runs |-> NoLine]
  /\ listed = [r \in Runs |-> FALSE]
  /\ ctrlC = [r \in Runs |-> FALSE]
  /\ bailed = [r \in Runs |-> FALSE]

Goto(r, label) == pc' = [pc EXCEPT ![r] = label]

\* Command c may signal the app of r.
MaySignal(c, r) == what[c].user \in {Superuser, what[r].user}

\* is_process_alive, as command c is told of the app of r.
Alive(c, r) == r # Nobody /\ app[r] \in {"up", "told"} /\ MaySignal(c, r)

\* Every write of the table by c drops the entries it takes for dead.
Pruned(c) == [k \in Keys |-> IF Alive(c, table[k]) THEN table[k] ELSE Nobody]

\* What SIGTERM makes of an app: `nsl serve` dies of it unless it is in its
\* accept loop; a child of `nsl run` takes its time.
Told(r) == IF app[r] # "up" THEN app[r]
           ELSE IF what[r].kind = "serve" /\ pc[r] \notin {"accept", "cleanup"}
             THEN "dead" ELSE "told"

-------------------------------------------------------------------------------
Start(r) ==
  /\ pc[r] = "idle"
  /\ \E l \in Commands :
       /\ what' = [what EXCEPT ![r] = l]
       /\ IF l.kind = "run"
            THEN Goto(r, "spawn") /\ UNCHANGED app
            ELSE Goto(r, "register") /\ app' = [app EXCEPT ![r] = "up"]
  /\ UNCHANGED <<table, listed, ctrlC, bailed>>

\* spawn_wrapped
Spawn(r) ==
  /\ pc[r] = "spawn"
  /\ app' = [app EXCEPT ![r] = "up"]
  /\ Goto(r, "register")
  /\ UNCHANGED <<table, what, listed, ctrlC, bailed>>

Registered(r) ==
  /\ table' = [Pruned(r) EXCEPT ![what[r].key] = r]
  /\ listed' = [listed EXCEPT ![r] = TRUE]
  /\ Goto(r, IF what[r].kind = "run" THEN "wait" ELSE "listen")

Holder(r) == table[what[r].key]

RegisterFree(r) ==
  /\ ~Alive(r, Holder(r))
  /\ Registered(r)
  /\ UNCHANGED app

\* kill_app_process, then the entry changes hands.
RegisterForced(r) ==
  /\ Alive(r, Holder(r))
  /\ what[r].force
  /\ app' = [app EXCEPT ![Holder(r)] = Told(Holder(r))]
  /\ Registered(r)

FailedApp(r) == IF what[r].kind = "run" THEN Told(r) ELSE "dead"

\* Variant with a fault: the child is left alone when it cannot be registered.
RegisterFailedSilently(r) ==
  /\ Goto(r, IF what[r].kind = "run" THEN "cleanup" ELSE "done")
  /\ app' = [app EXCEPT ![r] = IF what[r].kind = "run" THEN @ ELSE "dead"]
  /\ UNCHANGED <<table, listed>>

\* A conflict, or routes.lock or routes.json not to be had (the write comes
\* after the holder was signalled): the child is told to stop, `nsl serve`
\* just ends.
RegisterFailed(r) ==
  /\ Goto(r, IF what[r].kind = "run" THEN "cleanup" ELSE "done")
  /\ \E told \in SUBSET {Holder(r)} :
       /\ told # {} => Alive(r, Holder(r)) /\ what[r].force
       /\ app' = [a \in Runs |-> IF a = r THEN FailedApp(r)
                                 ELSE IF a \in told THEN Told(a) ELSE app[a]]
  /\ UNCHANGED <<table, listed>>

Register(r) ==
  /\ pc[r] = "register"
  /\ RegisterFree(r) \/ RegisterForced(r) \/ RegisterFailed(r)
  /\ UNCHANGED <<what, ctrlC, bailed>>

-------------------------------------------------------------------------------
(* nsl run: supervision                                                     *)

\* wait_for_app_wrapped: the child exited, or it cannot be checked ...
NotReady(r) ==
  /\ pc[r] = "wait"
  /\ app' = [app EXCEPT ![r] = Told(r)]
  /\ Goto(r, "cleanup")
  /\ UNCHANGED <<table, what, listed, ctrlC, bailed>>

\* ... or its port accepts connections, or the time is up.  The signal handlers
\* are installed only now ...
Ready(r) ==
  /\ pc[r] = "wait"
  /\ Goto(r, "supervise")
  /\ UNCHANGED <<table, app, what, listed, ctrlC, bailed>>

\* ... and `signal(..)?` may fail: the command returns to its clean-up at once,
\* and nobody tells the child.
NoHandlers(r) ==
  /\ pc[r] = "wait"
  /\ bailed' = [bailed EXCEPT ![r] = TRUE]
  /\ Goto(r, "cleanup")
  /\ UNCHANGED <<table, app, what, listed, ctrlC>>

ChildExited(r) ==
  /\ pc[r] \in {"supervise", "reap"}
  /\ app[r] = "dead"
  /\ Goto(r, "cleanup")
  /\ UNCHANGED <<table, app, what, listed, ctrlC, bailed>>

\* An error of child.wait(): `status?` in the first arm returns with the child
\* untold; in the arms of the signals it was told before.
WaitFailed(r) ==
  /\ pc[r] \in {"supervise", "reap"}
  /\ bailed' = [bailed EXCEPT ![r] = @ \/ pc[r] = "supervise"]
  /\ Goto(r, "cleanup")
  /\ UNCHANGED <<table, app, what, listed, ctrlC>>

-------------------------------------------------------------------------------
(* nsl serve                                                                *)

\* The accept loop is entered: its signal handlers are installed.
Listen(r) ==
  /\ pc[r] = "listen"
  /\ app[r] = "up"
  /\ Goto(r, "accept")
  /\ UNCHANGED <<table, app, what, listed, ctrlC, bailed>>

ShutDown(r) ==
  /\ pc[r] = "accept"
  /\ app[r] = "told"
  /\ Goto(r, "cleanup")
  /\ UNCHANGED <<table, app, what, listed, ctrlC, bailed>>

-------------------------------------------------------------------------------
(* The end                                                                  *)

\* `nsl serve` is its own app, and ends with its clean-up.
AppAtEnd(r) == IF what[r].kind = "serve" THEN "dead" ELSE app[r]

\* Variant with a fault: remove_route instead of remove_route_for_pid.
CleanupWhoeverHoldsIt(r) ==
  /\ pc[r] = "cleanup"
  /\ \/ /\ table' = IF listed[r] THEN [Pruned(r) EXCEPT ![what[r].key] = Nobody] ELSE table
        /\ Goto(r, "done")
     \/ /\ listed[r]
        /\ UNCHANGED table
        /\ Goto(r, "left")
  /\ app' = [app EXCEPT ![r] = AppAtEnd(r)]
  /\ UNCHANGED <<what, listed, ctrlC, bailed>>

\* Variant with a fault: the early returns skip the clean-up.
CleanupOfRegistered(r) ==
  /\ pc[r] = "cleanup"
  /\ table' = table
  /\ Goto(r, "done")
  /\ app' = [app EXCEPT ![r] = AppAtEnd(r)]
  /\ UNCHANGED <<what, listed, ctrlC, bailed>>

\* remove_route_for_pid, if the route was registered; its failure is ignored.
Cleanup(r) ==
  /\ pc[r] = "cleanup"
  /\ \/ /\ table' = IF listed[r]
                      THEN [k \in Keys |-> IF Pruned(r)[k] = r THEN Nobody ELSE Pruned(r)[k]]
                      ELSE table
        /\ Goto(r, "done")
     \/ /\ listed[r]
        /\ UNCHANGED table
        /\ Goto(r, "left")
  /\ app' = [app EXCEPT ![r] = AppAtEnd(r)]
  /\ UNCHANGED <<what, listed, ctrlC, bailed>>

-------------------------------------------------------------------------------
(* Signals and processes                                                    *)

\* What a signal to the command itself does: without a handler it is killed,
\* the first one with a handler is forwarded, later ones are swallowed.
Signal(r, childToo) ==
  \/ /\ pc[r] \in {"spawn", "register", "wait"} /\ what[r].kind = "run"
     /\ Goto(r, "interrupted")
     /\ app' = [app EXCEPT ![r] = IF childToo THEN Told(r) ELSE @]
  \/ /\ pc[r] = "supervise"
     /\ app' = [app EXCEPT ![r] = Told(r)]
     /\ Goto(r, "reap")
  \/ /\ pc[r] = "accept"
     /\ app' = [app EXCEPT ![r] = Told(r)]
     /\ UNCHANGED pc
  \/ /\ pc[r] \in {"register", "listen"} /\ what[r].kind = "serve"
     /\ app' = [app EXCEPT ![r] = "dead"]
     /\ Goto(r, "interrupted")

\* The terminal sends SIGINT to its foreground process group: with a tty the
\* child of `nsl run` is in another one.
CtrlC(r) ==
  /\ Signal(r, ~what[r].tty)
  /\ ctrlC' = [ctrlC EXCEPT ![r] = TRUE]
  /\ UNCHANGED <<table, what, listed, bailed>>

Terminate(r) ==
  /\ Signal(r, FALSE)
  /\ UNCHANGED <<table, what, listed, ctrlC, bailed>>

\* SIGKILL to the command.
KillCommand(r) ==
  /\ pc[r] \notin {"idle"} \cup Over
  /\ Goto(r, "killed")
  /\ app' = [app EXCEPT ![r] = IF what[r].kind = "serve" THEN "dead" ELSE @]
  /\ UNCHANGED <<table, what, listed, ctrlC, bailed>>

\* A `nsl serve` that SIGTERM has killed outright.
ServeDied(r) ==
  /\ what[r].kind = "serve" /\ app[r] = "dead"
  /\ pc[r] \notin {"idle"} \cup Over
  /\ Goto(r, "killed")
  /\ UNCHANGED <<table, app, what, listed, ctrlC, bailed>>

ChildExit(r) ==
  /\ what[r].kind = "run"
  /\ app[r] \in {"up", "told"}
  /\ app' = [app EXCEPT ![r] = "dead"]
  /\ UNCHANGED <<table, pc, what, listed, ctrlC, bailed>>

-------------------------------------------------------------------------------
Step(r) ==
  \/ Spawn(r) \/ Register(r) \/ NotReady(r) \/ Ready(r)
  \/ NoHandlers(r) \/ ChildExited(r) \/ WaitFailed(r)
  \/ Listen(r) \/ ShutDown(r) \/ Cleanup(r) \/ ServeDied(r)

Next ==
  \E r \in Runs :
    \/ Start(r) \/ Step(r)
    \/ CtrlC(r) \/ Terminate(r) \/ KillCommand(r) \/ ChildExit(r)

Spec == Init /\ [][Next]_vars

\* Commands are scheduled, and a child that is told to stop does so.
LiveSpec ==
  /\ Spec
  /\ \A r \in Runs : WF_vars(Step(r)) /\ WF_vars(app[r] = "told" /\ ChildExit(r))

-------------------------------------------------------------------------------
TypeOK ==
  /\ table \in [Keys -> Runs \cup {Nobody}]
  /\ app \in [Runs -> {"unborn", "up", "told", "dead"}]
  /\ pc \in [Runs -> Phases]
  /\ what \in [Runs -> Commands \cup {NoLine}]
  /\ listed \in [Runs -> BOOLEAN]
  /\ ctrlC \in [Runs -> BOOLEAN]
  /\ bailed \in [Runs -> BOOLEAN]
  /\ \A k \in Keys : table[k] \in Runs =>
       listed[table[k]] /\ what[table[k]] # NoLine /\ what[table[k]].key = k

\* An entry of an app that runs and was not told to stop stays until the
\* clean-up of its own command, whatever commands are taken over, conflict,
\* fail, are interrupted or clean up around it -- among users who may signal
\* each other's apps: the table written by another one loses the entry.
EntriesOfOthersStay ==
  [][\A k \in Keys :
       LET r == table[k]
       IN  (r # Nobody /\ app[r] = "up" /\ table'[k] # r) =>
             \/ app'[r] # "up"
             \/ pc[r] = "cleanup" /\ pc'[r] = "done"
             \/ \E c \in Runs : pc'[c] # pc[c] /\ ~MaySignal(c, r)]_vars

\* A `nsl run` that ends by itself leaves no child behind that was not told to
\* stop: not on a conflict, nor when the child is not ready in time, nor on
\* Ctrl+C (terminate_child at run/mod.rs:359, 366, 385, 390) -- unless a `?`
\* ended its supervision, at 374 or 375 (the signal handlers) or at 381 (the
\* wait): on these paths nobody signals the child, while its route goes.
ExitStopsTheChild ==
  \A r \in Runs : pc[r] \in {"done", "left"} => app[r] # "up" \/ bailed[r]

\* What makes it inductive: a run on its way out has told its child, or the
\* child is gone.
ExitInv ==
  \A r \in Runs :
    \/ pc[r] \in {"done", "left"}
    \/ pc[r] = "cleanup" /\ what[r].kind = "run"
    \/ pc[r] = "reap"
    => app[r] # "up" \/ bailed[r]

\* Once the app is gone or told to stop, its entry goes away, unless the
\* command was killed or could not write the table.
EntryGoesWithTheApp ==
  \A r \in Runs :
    app[r] \in {"told", "dead"} ~>
      \/ pc[r] \in {"interrupted", "killed", "left"}
      \/ \A k \in Keys : table[k] # r

\* README, application lifecycle: nsl "Streams output until the child exits or
\* you press Ctrl-C, then removes the route" (where it could write the table
\* and was not killed on its way).
CtrlCRemovesTheRoute ==
  \A r \in Runs :
    ctrlC[r] ~> (pc[r] \in {"killed", "left"} \/ \A k \in Keys : table[k] # r)
===============================================================================
