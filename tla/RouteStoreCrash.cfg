\* Commands die anywhere; the lock they leave is reclaimed.
SPECIFICATION LiveCrashSpec
CONSTANTS
  Hosts = {app}
  Prefixes <- OnePrefix
  AllPrefixes = AllPrefixes
  Pids = {p1}
  NoPid = NoPid
  Users = {user}
  Superuser = root
  NoRoute = NoRoute
  NoOp = NoOp
  MaxGen = 0
  Procs = {c1, c2}
  MaxTries = 2
  Requests <- LockRequests
PROPERTIES OrphanIsReclaimed
