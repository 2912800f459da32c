------------------------------ MODULE MCHostsFile ------------------------------
(* A small instance of HostsFile for TLC. *)
EXTENDS HostsFile, TLC

CONSTANTS f1, f2, h1

\* No file; one that nsl has not touched, with blank lines within and at its end;
\* one with a block in the middle that was edited.
SomeFiles ==
  { NoFile,
    <<f1, "blank", f2, "blank">>,
    <<f1, "# nsl-start", "blank", h1, "# nsl-end", "blank", f2>> }

Symmetry == Permutations(Commands)
===============================================================================
