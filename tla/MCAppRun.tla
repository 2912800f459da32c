------------------------------- MODULE MCAppRun -------------------------------
(***************************************************************************)
(* AppRun for TLC.                                                         *)
(***************************************************************************)
EXTENDS AppRun

\* The terminal matters to the child of `nsl run` only, and root has none.
SomeCommands == {l \in Lines : l.tty => l.kind = "run" /\ l.user # Superuser}

\* `nsl run` from a terminal or from a task runner.
RunCommands == {l \in Lines : l.kind = "run"}
===============================================================================
