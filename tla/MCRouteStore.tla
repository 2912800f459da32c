----------------------------- MODULE MCRouteStore -----------------------------
(* Small instances of RouteStore for TLC. *)
EXTENDS RouteStore, TLC

Api == Root \o <<"api">>

\* A path typed with one slash at its end and with two, stored as `/api` and as
\* `/api/`, which a search for `/api` finds as well.
TwoSpellings == {Api \o Root, Api \o Root \o Root}

OnePrefix == {Api}

Slash1 == Api \o Root
Slash2 == Api \o Root \o Root

\* Enough commands for two users, owners with and without a start time, forced
\* and refused replacements and the two spellings to meet.
SomeRequests ==
  {o \in Op :
     \/ /\ o.kind = "add" /\ o.pid = NoPid
        /\ o.user # Superuser
        /\ o.force \/ o.prefix = Slash1
     \/ /\ o.kind = "add" /\ o.pid # NoPid
        /\ <<o.prefix, o.owner, o.force>> \in {<<Slash1, "stamped", TRUE>>,
             <<Slash1, "unstamped", FALSE>>, <<Slash2, "stamped", FALSE>>}
     \/ o.kind = "remove" /\ o.user # Superuser /\ o.prefix = Slash1
     \/ o.kind = "removeForPid" /\ o.user = Superuser /\ o.prefix = AllPrefixes}

\* For the crashes the lock matters, and not what is done under it.
LockRequests ==
  {o \in Op : /\ o.kind \in {"add", "remove"} /\ o.prefix = Api
              /\ o.kind = "add" => o.owner # "unstamped" /\ ~o.force}

\* Commands are interchangeable.
Symmetry == Permutations(Procs)
===============================================================================
