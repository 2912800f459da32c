\* Two commands at a time on one hostname; a process whose pid is used again;
\* a path with two spellings.  No command dies.
SPECIFICATION Spec
CONSTANTS
  Hosts = {app}
  Prefixes <- TwoSpellings
  AllPrefixes = AllPrefixes
  Pids = {p1}
  NoPid = NoPid
  Users = {user, root}
  Superuser = root
  NoRoute = NoRoute
  NoOp = NoOp
  MaxGen = 1
  Procs = {c1, c2}
  MaxTries = 1
  Requests <- SomeRequests
SYMMETRY Symmetry
INVARIANTS MutualExclusion TornOnlyWhileWriting AddedRouteIsSole RemovedRouteIsGone
PROPERTIES ImplementsAtomicRoutes KillsOnlyTheRecordedOwner
