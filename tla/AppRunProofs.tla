----------------------------- MODULE AppRunProofs -----------------------------
(***************************************************************************)
(* The safety properties of AppRun for any number of commands and keys.    *)
(***************************************************************************)
EXTENDS AppRun, TLAPS

LEMMA ToldType == ASSUME TypeOK, NEW r \in Runs PROVE Told(r) \in {"up", "told", "dead", "unborn"}
  BY DEF TypeOK, Told

LEMMA ToldIsNotUp == ASSUME NEW r \in Runs PROVE Told(r) # "up"
  BY DEF Told

LEMMA PrunedType == TypeOK => \A c : Pruned(c) \in [Keys -> Runs \cup {Nobody}]
  BY DEF TypeOK, Pruned

\* A command line is a record and not the absence of one.
LEMMA LineKey ==
  ASSUME TypeOK, NEW r \in Runs, what[r] # NoLine
  PROVE  what[r] \in Lines /\ what[r].key \in Keys /\ what[r].kind \in {"run", "serve"}
  BY CommandsAssumption DEF TypeOK, Lines

-------------------------------------------------------------------------------
(* The entry of an app that runs stays.                                     *)

LEMMA RegisteredKeeps ==
  ASSUME TypeOK, NEW r \in Runs, pc[r] = "register", Registered(r),
         NEW k \in Keys, table[k] # Nobody, app[table[k]] = "up", table'[k] # table[k]
  PROVE  \/ pc'[r] # pc[r] /\ ~MaySignal(r, table[k])
         \/ k = what[r].key /\ Holder(r) = table[k] /\ Alive(r, Holder(r))
<1>1. CASE ~MaySignal(r, table[k])
  <2>1. pc'[r] \in {"wait", "listen"}
    BY DEF Registered, Goto, TypeOK
  <2> QED
    BY <1>1, <2>1
<1>2. CASE MaySignal(r, table[k])
  BY <1>2 DEF Registered, Pruned, Alive, Holder, TypeOK
<1> QED
  BY <1>1, <1>2

LEMMA EntriesStep ==
  ASSUME TypeOK, [Next]_vars,
         NEW k \in Keys, table[k] # Nobody, app[table[k]] = "up", table'[k] # table[k]
  PROVE  \/ app'[table[k]] # "up"
         \/ pc[table[k]] = "cleanup" /\ pc'[table[k]] = "done"
         \/ \E c \in Runs : pc'[c] # pc[c] /\ ~MaySignal(c, table[k])
<1>0. table[k] \in Runs
  BY DEF TypeOK
<1>1. table' # table
  OBVIOUS
<1>2. PICK r \in Runs : Register(r) \/ Cleanup(r)
  BY <1>1 DEF Next, Step, Start, Spawn, NotReady, Ready, NoHandlers, ChildExited, WaitFailed, Listen,
              ShutDown, ServeDied, CtrlC, Terminate, KillCommand, ChildExit, vars
<1>3. CASE Register(r)
  <2>1. CASE RegisterFree(r)
    BY <1>3, <2>1, RegisteredKeeps DEF Register, RegisterFree
  <2>2. CASE RegisterForced(r)
    <3>1. \/ pc'[r] # pc[r] /\ ~MaySignal(r, table[k])
          \/ Holder(r) = table[k]
      BY <1>3, <2>2, RegisteredKeeps DEF Register, RegisterForced
    <3>2. CASE Holder(r) # table[k]
      BY <3>1, <3>2
    <3>3. CASE Holder(r) = table[k]
      <4>1. app'[table[k]] = Told(table[k])
        BY <2>2, <3>3, <1>0 DEF RegisterForced, TypeOK
      <4> QED
        BY <4>1, <1>0, ToldIsNotUp
    <3> QED
      BY <3>2, <3>3
  <2>3. CASE RegisterFailed(r)
    BY <2>3, <1>1 DEF RegisterFailed
  <2> QED
    BY <1>3, <2>1, <2>2, <2>3 DEF Register
<1>4. CASE Cleanup(r)
  <2>1. table' = [j \in Keys |-> IF Pruned(r)[j] = r THEN Nobody ELSE Pruned(r)[j]]
    BY <1>4, <1>1 DEF Cleanup
  <2>2. pc[r] = "cleanup" /\ pc'[r] = "done"
    BY <1>4, <1>1 DEF Cleanup, Goto, TypeOK
  <2>3. CASE ~MaySignal(r, table[k])
    BY <2>2, <2>3
  <2>4. CASE MaySignal(r, table[k])
    <3>1. Pruned(r)[k] = table[k]
      BY <1>0, <2>4 DEF Pruned, Alive
    <3>2. table[k] = r
      BY <2>1, <3>1
    <3> QED
      BY <2>2, <3>2
  <2> QED
    BY <2>3, <2>4
<1> QED
  BY <1>2, <1>3, <1>4

-------------------------------------------------------------------------------
(* Types                                                                    *)

LEMMA InitType == Init => TypeOK
  BY NobodyAssumption DEF Init, TypeOK, Phases, NoLine

\* The part of TypeOK that says whose entries there are.
Entries == \A k \in Keys : table[k] \in Runs =>
             listed[table[k]] /\ what[table[k]] # NoLine /\ what[table[k]].key = k

\* A command has a command line from its beginning on.
Begun == \A r \in Runs : pc[r] = "idle" <=> what[r] = NoLine

LEMMA LineIsNotNone == \A l \in Lines : l # NoLine
<1> SUFFICES ASSUME NEW l \in Lines PROVE l # NoLine
  OBVIOUS
<1>1. l.kind \in {"run", "serve"}
  BY DEF Lines
<1>2. NoLine.kind = "none"
  BY DEF NoLine
<1> QED
  BY <1>1, <1>2

LEMMA TypeStep == ASSUME TypeOK, Begun, [Next]_vars PROVE TypeOK' /\ Begun'
<1> USE DEF TypeOK, Begun, Goto, Phases
<1>1. ASSUME NEW r \in Runs, Start(r) PROVE TypeOK' /\ Begun'
  <2>1. PICK l \in Commands :
          /\ what' = [what EXCEPT ![r] = l]
          /\ IF l.kind = "run"
               THEN Goto(r, "spawn") /\ UNCHANGED app
               ELSE Goto(r, "register") /\ app' = [app EXCEPT ![r] = "up"]
    BY <1>1 DEF Start
  <2>2. l # NoLine
    BY LineIsNotNone, CommandsAssumption
  <2>3. UNCHANGED <<table, listed, ctrlC, bailed>> /\ pc[r] = "idle"
    BY <1>1 DEF Start
  <2>4. what' \in [Runs -> Commands \cup {NoLine}] /\ pc' \in [Runs -> Phases]
        /\ app' \in [Runs -> {"unborn", "up", "told", "dead"}]
    BY <2>1
  <2>5. Begun'
    BY <2>1, <2>2
  <2>6. ASSUME NEW k \in Keys, table[k] \in Runs PROVE what'[table[k]] = what[table[k]]
    <3>1. table[k] # r
      BY <2>3, <2>6
    <3> QED
      BY <2>1, <2>6, <3>1
  <2>7. Entries'
    BY <2>3, <2>6 DEF Entries
  <2> QED
    BY <2>3, <2>4, <2>5, <2>7 DEF Entries
<1>2. ASSUME NEW r \in Runs, Register(r) PROVE TypeOK' /\ Begun'
  <2>0. what[r] \in Lines /\ what[r].key \in Keys /\ UNCHANGED <<what, ctrlC, bailed>>
    BY <1>2, LineKey DEF Register
  <2>1. ASSUME Registered(r) PROVE /\ table' \in [Keys -> Runs \cup {Nobody}]
                                   /\ listed' \in [Runs -> BOOLEAN]
                                   /\ pc' \in [Runs -> Phases]
                                   /\ Entries' /\ Begun'
    <3>1. table' = [Pruned(r) EXCEPT ![what[r].key] = r]
          /\ listed' = [listed EXCEPT ![r] = TRUE]
      BY <2>1 DEF Registered
    <3>2. what[r] # NoLine
      BY <2>0, LineIsNotNone
    <3>3. ASSUME NEW k \in Keys, table'[k] \in Runs
          PROVE  listed'[table'[k]] /\ what[table'[k]] # NoLine /\ what[table'[k]].key = k
      <4>1. CASE k = what[r].key
        <5>1. table'[k] = r
          BY <3>1, <4>1, PrunedType
        <5> QED
          BY <3>1, <3>2, <4>1, <5>1
      <4>2. CASE k # what[r].key
        <5>1. table'[k] = table[k]
          BY <3>1, <3>3, <4>2, NobodyAssumption, PrunedType DEF Pruned
        <5> QED
          BY <3>1, <3>3, <5>1
      <4> QED
        BY <4>1, <4>2
    <3>4. Entries'
      BY <2>0, <3>3 DEF Entries
    <3> QED
      BY <2>0, <2>1, <3>1, <3>4, PrunedType, <1>2 DEF Registered, Register
  <2>2. Holder(r) \in Runs \cup {Nobody}
    BY <2>0 DEF Holder
  <2>3. CASE RegisterFree(r)
    BY <2>0, <2>1, <2>3 DEF RegisterFree, Entries
  <2>4. CASE RegisterForced(r)
    <3>1. Holder(r) \in Runs
      BY <2>2, <2>4 DEF RegisterForced, Alive
    <3>2. app' \in [Runs -> {"unborn", "up", "told", "dead"}]
      BY <2>4, <3>1, ToldType DEF RegisterForced
    <3> QED
      BY <2>0, <2>1, <2>4, <3>2 DEF RegisterForced, Entries
  <2>5. CASE RegisterFailed(r)
    <3>1. app' \in [Runs -> {"unborn", "up", "told", "dead"}]
      BY <2>5, ToldType DEF RegisterFailed, FailedApp
    <3>2. Begun' /\ pc' \in [Runs -> Phases]
      BY <2>5, <1>2, <2>0 DEF RegisterFailed, Register
    <3> QED
      BY <2>0, <2>5, <3>1, <3>2 DEF RegisterFailed
  <2> QED
    BY <1>2, <2>3, <2>4, <2>5 DEF Register
<1>3. ASSUME NEW r \in Runs, Cleanup(r) PROVE TypeOK' /\ Begun'
  <2>1. app' \in [Runs -> {"unborn", "up", "told", "dead"}]
    BY <1>3 DEF Cleanup, AppAtEnd
  <2>2. UNCHANGED <<what, listed, ctrlC, bailed>> /\ pc' \in [Runs -> Phases] /\ Begun'
    BY <1>3 DEF Cleanup
  <2>3. table' \in [Keys -> Runs \cup {Nobody}] /\ Entries'
    BY <1>3, <2>2, PrunedType, NobodyAssumption DEF Cleanup, Entries, Pruned
  <2> QED
    BY <2>1, <2>2, <2>3 DEF Entries
<1>4. ASSUME NEW r \in Runs,
             \/ Spawn(r) \/ NotReady(r) \/ Ready(r) \/ NoHandlers(r)
             \/ ChildExited(r) \/ WaitFailed(r) \/ Listen(r)
             \/ ShutDown(r) \/ ServeDied(r) \/ CtrlC(r) \/ Terminate(r)
             \/ KillCommand(r) \/ ChildExit(r)
      PROVE  TypeOK' /\ Begun'
  <2>1. UNCHANGED <<table, what, listed>>
    BY <1>4 DEF Spawn, NotReady, Ready, NoHandlers, ChildExited, WaitFailed, Listen, ShutDown, ServeDied,
                CtrlC, Terminate, KillCommand, ChildExit
  <2>2. Told(r) \in {"unborn", "up", "told", "dead"}
    BY ToldType
  <2>3. app' \in [Runs -> {"unborn", "up", "told", "dead"}]
    BY <1>4, <2>2 DEF Spawn, NotReady, Ready, NoHandlers, ChildExited, WaitFailed, Listen, ShutDown, ServeDied,
                CtrlC, Terminate, KillCommand, ChildExit, Signal
  <2>4. ctrlC' \in [Runs -> BOOLEAN] /\ bailed' \in [Runs -> BOOLEAN]
    BY ZenonT(30), <1>4 DEF Spawn, NotReady, Ready, NoHandlers, ChildExited, WaitFailed, Listen, ShutDown, ServeDied,
                CtrlC, Terminate, KillCommand, ChildExit
  <2>5. CASE CtrlC(r) \/ Terminate(r)
    <3>1. \/ pc' = pc
          \/ pc[r] # "idle" /\ pc' = [pc EXCEPT ![r] = "interrupted"]
          \/ pc[r] # "idle" /\ pc' = [pc EXCEPT ![r] = "reap"]
      BY <2>5 DEF CtrlC, Terminate, Signal
    <3> QED
      BY <2>1, <2>3, <2>4, <3>1
  <2>6. CASE ~(CtrlC(r) \/ Terminate(r))
    <3>1. \/ pc' = pc
          \/ pc[r] # "idle" /\ \E l \in Phases \ {"idle"} : pc' = [pc EXCEPT ![r] = l]
      BY <1>4, <2>6 DEF Spawn, NotReady, Ready, NoHandlers, ChildExited, WaitFailed, Listen, ShutDown, ServeDied,
                CtrlC, Terminate, KillCommand, ChildExit
    <3> QED
      BY <2>1, <2>3, <2>4, <3>1
  <2> QED
    BY <2>5, <2>6
<1>5. CASE UNCHANGED vars
  BY <1>5 DEF vars
<1> QED
  BY <1>1, <1>2, <1>3, <1>4, <1>5 DEF Next, Step

LEMMA Typed == Spec => [](TypeOK /\ Begun)
<1>1. Init => TypeOK /\ Begun
  BY InitType DEF Init, Begun
<1>2. TypeOK /\ Begun /\ [Next]_vars => (TypeOK /\ Begun)'
  BY TypeStep
<1> QED
  BY <1>1, <1>2, PTL DEF Spec

\* Whatever commands are taken over, fail, are interrupted or clean up, the
\* entry of an app that runs and was not told to stop goes only by the
\* clean-up of its own command (run_app, serve_app, remove_route_for_pid), or
\* by a command to which the app counts as dead because its user may not signal
\* it (is_process_alive).
THEOREM EntriesAreSafe == Spec => EntriesOfOthersStay
<1>1. TypeOK /\ [Next]_vars =>
        [\A k \in Keys :
           LET r == table[k]
           IN  (r # Nobody /\ app[r] = "up" /\ table'[k] # r) =>
                 \/ app'[r] # "up"
                 \/ pc[r] = "cleanup" /\ pc'[r] = "done"
                 \/ \E c \in Runs : pc'[c] # pc[c] /\ ~MaySignal(c, r)]_vars
  BY EntriesStep
<1> QED
  BY <1>1, Typed, PTL DEF Spec, EntriesOfOthersStay

-------------------------------------------------------------------------------
LEMMA ExitStep == ASSUME TypeOK, Begun, ExitInv, [Next]_vars PROVE ExitInv'
<1> USE DEF TypeOK, Begun, ExitInv, Goto
<1>1. ASSUME NEW r \in Runs, Start(r) \/ Spawn(r) PROVE ExitInv'
  BY <1>1 DEF Start, Spawn
<1>2. ASSUME NEW r \in Runs, Register(r) PROVE ExitInv'
  <2>1. CASE RegisterFree(r)
    BY <1>2, <2>1 DEF Register, RegisterFree, Registered
  <2>2. CASE RegisterForced(r)
    <3>1. \A q \in Runs : app'[q] = app[q] \/ app'[q] # "up"
      BY <2>2, ToldIsNotUp DEF RegisterForced
    <3>2. \A q \in Runs \ {r} : pc'[q] = pc[q]
      BY <2>2 DEF RegisterForced, Registered
    <3>3. pc'[r] \in {"wait", "listen"}
      BY <2>2 DEF RegisterForced, Registered
    <3> QED
      BY <1>2, <3>1, <3>2, <3>3 DEF Register
  <2>3. CASE RegisterFailed(r)
    <3>1. app'[r] # "up"
      BY <2>3, ToldIsNotUp DEF RegisterFailed, FailedApp
    <3>2. \A q \in Runs \ {r} : app'[q] = app[q] \/ app'[q] # "up"
      BY <2>3, ToldIsNotUp DEF RegisterFailed
    <3>3. \A q \in Runs \ {r} : pc'[q] = pc[q]
      BY <2>3 DEF RegisterFailed
    <3> QED
      BY <1>2, <3>1, <3>2, <3>3 DEF Register
  <2> QED
    BY <1>2, <2>1, <2>2, <2>3 DEF Register
<1>3. ASSUME NEW r \in Runs, Cleanup(r) PROVE ExitInv'
  <2>1. what[r].kind = "run" \/ what[r].kind = "serve"
    BY <1>3, LineKey DEF Cleanup
  <2>2. app'[r] # "up" \/ bailed'[r]
    BY <1>3, <2>1 DEF Cleanup, AppAtEnd
  <2>3. \A q \in Runs \ {r} : app'[q] = app[q] /\ pc'[q] = pc[q]
    BY <1>3 DEF Cleanup
  <2> QED
    BY <1>3, <2>2, <2>3 DEF Cleanup
<1>4. ASSUME NEW r \in Runs, NotReady(r) PROVE ExitInv'
  BY <1>4, ToldIsNotUp DEF NotReady
<1>5. ASSUME NEW r \in Runs,
             \/ Ready(r) \/ NoHandlers(r) \/ ChildExited(r) \/ WaitFailed(r)
             \/ Listen(r) \/ ShutDown(r) \/ ServeDied(r)
      PROVE  ExitInv'
  <2>1. UNCHANGED <<app, what>>
    BY <1>5 DEF Ready, NoHandlers, ChildExited, WaitFailed, Listen, ShutDown, ServeDied
  <2>2. \A q \in Runs \ {r} : pc'[q] = pc[q] /\ bailed'[q] = bailed[q]
    BY <1>5 DEF Ready, NoHandlers, ChildExited, WaitFailed, Listen, ShutDown, ServeDied
  <2>3. \/ pc'[r] \in {"supervise", "accept", "killed"}
        \/ pc'[r] = "cleanup" /\ (app[r] # "up" \/ bailed'[r])
    <3>1. CASE Ready(r) \/ Listen(r) \/ ServeDied(r)
      BY <3>1 DEF Ready, Listen, ServeDied
    <3>2. CASE NoHandlers(r)
      BY <3>2 DEF NoHandlers
    <3>3. CASE ChildExited(r) \/ ShutDown(r)
      BY <3>3 DEF ChildExited, ShutDown
    <3>4. CASE WaitFailed(r)
      BY <3>4 DEF WaitFailed
    <3> QED
      BY <1>5, <3>1, <3>2, <3>3, <3>4
  <2> QED
    BY <2>1, <2>2, <2>3
<1>6. ASSUME NEW r \in Runs,
             CtrlC(r) \/ Terminate(r) \/ KillCommand(r) \/ ChildExit(r)
      PROVE  ExitInv'
  <2>1. UNCHANGED <<what, bailed>>
    BY <1>6 DEF CtrlC, Terminate, KillCommand, ChildExit
  <2>2. \A q \in Runs : app'[q] = app[q] \/ app'[q] # "up"
    BY <1>6, ToldIsNotUp DEF CtrlC, Terminate, KillCommand, ChildExit, Signal
  <2>3. \A q \in Runs \ {r} : pc'[q] = pc[q]
    BY <1>6 DEF CtrlC, Terminate, KillCommand, ChildExit, Signal
  <2>4. \/ pc'[r] = pc[r]
        \/ pc'[r] \in {"interrupted", "killed"}
        \/ pc'[r] = "reap" /\ app'[r] # "up"
    <3>1. CASE CtrlC(r) \/ Terminate(r)
      <4>1. PICK both \in BOOLEAN : Signal(r, both)
        BY <3>1 DEF CtrlC, Terminate
      <4> QED
        BY <4>1, ToldIsNotUp DEF Signal
    <3>2. CASE KillCommand(r) \/ ChildExit(r)
      BY <3>2 DEF KillCommand, ChildExit
    <3> QED
      BY <1>6, <3>1, <3>2
  <2> QED
    BY <2>1, <2>2, <2>3, <2>4
<1>7. CASE UNCHANGED vars
  BY <1>7 DEF vars
<1> QED
  BY <1>1, <1>2, <1>3, <1>4, <1>5, <1>6, <1>7 DEF Next, Step

\* `nsl run` never ends by itself with its child left untold (terminate_child),
\* unless a `?` of spawn_command ended its supervision (run/mod.rs:374, 375, 381).
THEOREM NoChildLeftBehind == Spec => []ExitStopsTheChild
<1>1. Init => ExitInv
  BY DEF Init, ExitInv
<1>2. TypeOK /\ Begun /\ ExitInv /\ [Next]_vars => ExitInv'
  BY ExitStep
<1>3. ExitInv => ExitStopsTheChild
  BY DEF ExitInv, ExitStopsTheChild
<1> QED
  BY <1>1, <1>2, <1>3, Typed, PTL DEF Spec
===============================================================================
