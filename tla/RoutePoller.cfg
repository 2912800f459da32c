\* One static route and one with a process; three ticks of the file's clock.
SPECIFICATION PollerLiveSpec
CONSTANTS
  Static = {s1}
  Dynamic = {d1}
  MaxClock = 2
INVARIANTS CacheIsCurrent
PROPERTIES CacheCatchesUp
CHECK_DEADLOCK FALSE
