\* A user's command and root's, and two proxies, one after the other or side by side.
SPECIFICATION LiveSpec
CONSTANTS
  c1 = c1
  c2 = c2
  user1 = user1
  root = root
  Procs <- Commands
  UserOf <- TheirUsers
  Users = {user1, root}
  Superuser = root
  d1 = d1
  d2 = d2
  Daemons <- Proxies
  Stranger = Stranger
  Mute = Mute
  None = None
INVARIANTS TypeOK PidFileNamesTheProxy
PROPERTIES CommandsReturn
CHECK_DEADLOCK FALSE
