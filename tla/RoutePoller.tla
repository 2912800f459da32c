----------------------------- MODULE RoutePoller -----------------------------
(***************************************************************************)
(* How the proxy follows routes.json (crates/nsl/src/proxy/server.rs).     *)
(*                                                                         *)
(* start_proxy loads the file once and spawns a task that remembers the    *)
(* file's mtime, looks at it every ROUTE_POLL_INTERVAL_SECS and reloads    *)
(* the cache when it is not the remembered one.  The proxy takes no lock;  *)
(* commands write the file in two steps, truncate and write, one command   *)
(* at a time (RouteStore!MutualExclusion).                                 *)
(*                                                                         *)
(* The clock that stamps the file is coarse: any number of writes may fall *)
(* in one tick.  The variable `missed` is not in the code.  It records     *)
(* that the file was written when the poller could no longer tell: between *)
(* the first load and the first look at the mtime, or in the very tick     *)
(* whose stamp the poller has already read.                                *)
(***************************************************************************)
EXTENDS Naturals

CONSTANTS Static,   \* routes without a process
          Dynamic,  \* routes of a process; each has its own
          MaxClock  \* bound: ticks of the file system's clock

ASSUME MaxClockAssumption == MaxClock \in Nat

VARIABLES
  text,     \* what routes.json is: absent, torn (truncated) or json
  table,    \* the routes in it
  mtime,    \* its stamp, Absent when there is no file
  clock,    \* the clock that stamps files
  pending,  \* what the command that truncated the file will write
  alive,    \* routes whose process runs
  pc,       \* where the proxy is
  cached,   \* the routes requests are matched against
  last,     \* last_mtime
  seen,     \* current_mtime
  buffer,   \* new_routes
  missed    \* a write the poller cannot notice

disk       == <<text, table, mtime, pending>>
poller     == <<pc, cached, last, seen, buffer>>
pollerVars == <<text, table, mtime, clock, pending, alive, pc, cached, last, seen,
                buffer, missed>>

Routes == Static \cup Dynamic
Absent == 0
Stamps == 0..(MaxClock + 1)

PollerInit ==
  /\ text = "absent" /\ table = {} /\ mtime = Absent /\ clock = 1
  /\ pending = {}
  /\ alive = Dynamic
  /\ pc = "boot"
  /\ cached = {} /\ last = Absent /\ seen = Absent /\ buffer = {}
  /\ missed = FALSE

Dead == Dynamic \ alive

\* load_routes_from_disk: no file and a file that does not parse read as empty.
Loaded == IF text = "json" THEN table \ Dead ELSE {}

-------------------------------------------------------------------------------
\* The poller cannot tell this write from none.
Unnoticed == pc = "baseline" \/ (pc # "boot" /\ seen = clock)

Stamp ==
  /\ mtime' = clock
  /\ missed' = (missed \/ Unnoticed)

Truncate ==
  /\ text # "torn"
  /\ text' = "torn" /\ table' = {}
  /\ pending' \in SUBSET Routes
  /\ Stamp
  /\ UNCHANGED <<clock, alive, poller>>

Write ==
  /\ text = "torn"
  /\ text' = "json" /\ table' = pending /\ pending' = {}
  /\ Stamp
  /\ UNCHANGED <<clock, alive, poller>>

Tick ==
  /\ clock <= MaxClock
  /\ clock' = clock + 1
  /\ UNCHANGED <<disk, alive, poller, missed>>

AppExit(r) ==
  /\ r \in alive
  /\ alive' = alive \ {r}
  /\ UNCHANGED <<disk, clock, poller, missed>>

-------------------------------------------------------------------------------
\* start_proxy fills the cache, then the spawned task takes its first stamp.
InitialLoad ==
  /\ pc = "boot"
  /\ cached' = Loaded
  /\ pc' = "baseline"
  /\ UNCHANGED <<disk, clock, alive, last, seen, buffer, missed>>

TakeBaseline ==
  /\ pc = "baseline"
  /\ last' = mtime /\ seen' = mtime
  /\ pc' = "sleep"
  /\ UNCHANGED <<disk, clock, alive, cached, buffer, missed>>

\* Variant with a fault: a file that appears is not a file that changed.
LookIfKnown ==
  /\ pc = "sleep"
  /\ seen' = mtime
  /\ \/ mtime # last /\ last # Absent /\ pc' = "load" /\ missed' = FALSE
     \/ (mtime = last \/ last = Absent) /\ pc' = "sleep" /\ UNCHANGED missed
  /\ UNCHANGED <<disk, clock, alive, cached, last, buffer>>

\* After the sleep: is the stamp another one?  A reload forgets what was missed.
Look ==
  /\ pc = "sleep"
  /\ seen' = mtime
  /\ \/ mtime # last /\ pc' = "load" /\ missed' = FALSE
     \/ mtime = last /\ pc' = "sleep" /\ UNCHANGED missed
  /\ UNCHANGED <<disk, clock, alive, cached, last, buffer>>

Load ==
  /\ pc = "load"
  /\ buffer' = Loaded
  /\ pc' = "store"
  /\ UNCHANGED <<disk, clock, alive, cached, last, seen, missed>>

\* Variant with a fault: the stamp is taken after the load.
StoreCacheWithLaterStamp ==
  /\ pc = "store"
  /\ cached' = buffer
  /\ last' = mtime /\ seen' = mtime
  /\ buffer' = {}
  /\ pc' = "sleep"
  /\ UNCHANGED <<disk, clock, alive, missed>>

\* cache.write().await may wait for readers; the stamp is the one of Look.
StoreCache ==
  /\ pc = "store"
  /\ cached' = buffer
  /\ last' = seen
  /\ buffer' = {}
  /\ pc' = "sleep"
  /\ UNCHANGED <<disk, clock, alive, seen, missed>>

PollerStep == InitialLoad \/ TakeBaseline \/ Look \/ Load \/ StoreCache

PollerNext ==
  \/ Truncate \/ Write \/ Tick
  \/ \E r \in Dynamic : AppExit(r)
  \/ PollerStep

PollerSpec == PollerInit /\ [][PollerNext]_pollerVars

\* The runtime schedules the poller, and a command that truncated the file
\* goes on to write it.
PollerLiveSpec == PollerSpec /\ WF_pollerVars(PollerStep) /\ WF_pollerVars(Write)

-------------------------------------------------------------------------------
PollerTypeOK ==
  /\ text \in {"absent", "torn", "json"}
  /\ table \in SUBSET Routes /\ pending \in SUBSET Routes
  /\ mtime \in Stamps /\ clock \in Stamps /\ last \in Stamps /\ seen \in Stamps
  /\ alive \in SUBSET Dynamic
  /\ pc \in {"boot", "baseline", "sleep", "load", "store"}
  /\ cached \in SUBSET Routes /\ buffer \in SUBSET Routes
  /\ missed \in BOOLEAN

\* S is the table, but for routes whose process has ended.
IsTable(S) == S \subseteq table /\ table \ S \subseteq Dead

\* Once the poller has stored a table under the stamp the file still has, that
\* table is the file's: a change made while the poller reads is seen at the
\* next look, because the stamp is read before the file.  The two windows of
\* `missed` are the only way to lose a change.
CacheIsCurrent ==
  (pc = "sleep" /\ last = mtime /\ ~missed /\ text # "torn") => IsTable(cached)

\* A table that is written no more reaches the requests, whatever the poller
\* was doing when it was written; a reload of a truncated file is repaired.
CacheCatchesUp ==
  (<>[][UNCHANGED disk]_pollerVars /\ <>[](~missed)) => <>[]IsTable(cached)

-------------------------------------------------------------------------------
(* The inductive strengthening of CacheIsCurrent.                           *)

StampInv ==
  /\ mtime <= clock /\ last <= clock /\ seen <= clock
  /\ text = "absent" => mtime = Absent /\ table = {}
  /\ text # "absent" => mtime # Absent
  /\ pc \in {"boot", "baseline", "sleep"} => last = seen
  /\ clock # Absent

\* What the poller holds is the table unless the file's stamp has moved on.
HoldInv ==
  ~missed /\ text # "torn" =>
    /\ pc = "baseline" => IsTable(cached)
    /\ pc = "sleep" /\ seen = mtime => IsTable(cached)
    /\ pc = "store" /\ seen = mtime => IsTable(buffer)

PollerInv == PollerTypeOK /\ StampInv /\ HoldInv
===============================================================================
