\* Two commands that want one of two keys, run by a user or by root.
SPECIFICATION LiveSpec
CONSTANTS
  Runs = {r1, r2}
  Keys = {k1, k2}
  Commands <- SomeCommands
  Users = {user, root}
  Superuser = root
  Nobody = Nobody
INVARIANTS ExitStopsTheChild
PROPERTIES EntriesOfOthersStay EntryGoesWithTheApp
CHECK_DEADLOCK FALSE
