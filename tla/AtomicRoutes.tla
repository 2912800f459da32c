----------------------------- MODULE AtomicRoutes -----------------------------
(***************************************************************************)
(* What RouteStore promises its callers: a table of routes on which every  *)
(* command takes effect in one step.  An entry whose process is still the  *)
(* one that registered it leaves the table only                            *)
(*   - by an explicit removal that names it,                               *)
(*   - when its own process registers the key again,                       *)
(*   - by a forced replacement, and then its process was told to stop,     *)
(*   - by a command of a user who may not signal its process, or           *)
(*   - when the whole table is lost, for good, by a write that failed.     *)
(* Entries of processes that are gone may be dropped by any command.       *)
(* Among several entries that an add replaces at once, which needs a path  *)
(* spelled with two slashes at its end, only one is looked at.             *)
(***************************************************************************)
EXTENDS RouteTable

VARIABLES table,     \* the entries
          lost,      \* the table was destroyed by a failed write
          app,       \* the processes the entries point to
          signalled  \* incarnations told to stop

avars == <<table, lost, app, signalled>>

Init ==
  /\ table \in SUBSET Route
  /\ lost = FALSE
  /\ app \in AppState
  /\ signalled = {}

Replaceable(r, o) ==
  \/ r.pid = o.pid
  \/ Gone(r, o.user, app)
  \/ o.force /\ (r.pid = NoPid \/ <<r.pid, r.gen>> \in signalled)

\* The entries of H may make way for the one o adds.
MayReplace(H, o) ==
  \/ \A r \in H : Replaceable(r, o)
  \/ (\E r \in H : ~Plain(r.prefix)) /\ (\E r \in H : Replaceable(r, o))

\* A command that fails leaves the entries as they were; a holder it has
\* already told to stop stays told (StopOwner).
Fail == UNCHANGED avars

Perform(o) ==
  /\ ~lost
  /\ UNCHANGED <<lost, app, signalled>>
  /\ o.kind = "add" => MayReplace(Holders(table, o), o)
  /\ \E dropped \in SUBSET {r \in table : Gone(r, o.user, app)} :
       table' = Updated(table \ dropped, o)

\* A forced replacement stops the process of an entry before replacing it.
\* Which process that is, KillsOnlyTheRecordedOwner says.
StopOwner(r) ==
  /\ r.pid # NoPid /\ r.owner # "none"
  /\ app[r.pid].alive
  /\ signalled' = signalled \cup {<<r.pid, app[r.pid].gen>>}
  /\ UNCHANGED <<table, lost, app>>

\* A write fails when the file is already truncated.
Lose ==
  /\ table' = {}
  /\ lost' = TRUE
  /\ UNCHANGED <<app, signalled>>

AppExit(a) ==
  /\ app[a].alive
  /\ app' = [app EXCEPT ![a].alive = FALSE]
  /\ UNCHANGED <<table, lost, signalled>>

AppStart(a) ==
  /\ ~app[a].alive
  /\ app[a].gen < MaxGen
  /\ \E u \in Users :
       app' = [app EXCEPT ![a] = [alive |-> TRUE, gen |-> @.gen + 1, user |-> u]]
  /\ UNCHANGED <<table, lost, signalled>>

Next ==
  \/ Fail
  \/ \E a \in Pids : AppExit(a) \/ AppStart(a)
  \/ \E r \in table : StopOwner(r)
  \/ Lose
  \/ \E o \in Requests : Perform(o)

Spec == Init /\ [][Next]_avars
===============================================================================
