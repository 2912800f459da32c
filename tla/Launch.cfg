SPECIFICATION Spec
CONSTANTS
  Procs = {p1, p2}
  Pids = {x1, x2}
  Unset = Unset
  None = None
  d1 = d1
  d2 = d2
  usr = usr
  Superuser = root
  Users = {usr, root}
  Setups <- SomeSetups
  Labels <- SomeLabels
  Commands <- SomeCommands
SYMMETRY Symmetry
INVARIANTS
  TypeOK
  RouteReachesItsProxy
  ChildListensWhereRoutePoints
  ServeOwnsItsPort
  StatusSeesTheProxy
