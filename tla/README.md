# nsl in TLA+

`nsl` gives development servers names: `nsl run -n shop -- npm run dev` starts a
command on a free port, registers `shop.localhost` for it in a table on disk,
and a proxy daemon shared by all commands forwards requests for that name to
the port. This directory holds TLA+ models of the parts where order and failure
matter, the TLC configurations that check them and proofs of their main
properties. Paths below are relative to `crates/nsl/src/` of the repository.

    tlc -workers 2 -config RouteStore.cfg MCRouteStore.tla
    tlapm RouteStoreProofs.tla

## The system

| part | state it keeps | operations | talks to |
| --- | --- | --- | --- |
| route store (`routes.rs`) | `routes.json`, lock directory `routes.lock` | add (with and without force), remove, remove for a pid, load | every command; read without the lock by the proxy, `list`, `status` |
| route poller (`proxy/server.rs`) | route cache, last mtime | first load, look, reload | reads what the store writes |
| request path (`proxy/handler.rs`, `proxy/mod.rs`) | per request only | host and hop checks, route lookup, forwarding, answers | reads the cache; apps; itself, over loops |
| upgrade (`proxy/websocket.rs`) | per connection: buffer, two half-connections | handshake, flush, copy both ways, decline | app and client |
| proxy lifecycle (`proxy/daemon.rs`, `proxy/server.rs`) | `proxy.pid`/`port`/`tls`, lock directory `proxy.start.lock`, the bound port | start, stop, reload, shutdown | commands spawn and signal the daemon |
| app supervision (`run/mod.rs`, `run/framework.rs`, `serve/mod.rs`) | the child, the pid it registered | spawn, register, wait for readiness, forward signals, clean up | route store; signals from users and from forced replacements |
| port allocation, flags (`run/framework.rs`) | none | find a free port, rewrite a command line | app supervision |
| certificates (`certs/mod.rs`, `generate.rs`, `sni.rs`) | CA, server and host certificates on disk, SNI cache | ensure, generate, resolve | proxy start, `nsl trust`, TLS handshakes |
| trust store (`certs/trust.rs`) | a copy of the CA among the system's anchors | check, copy, update the bundle | `nsl trust`; the system's programs |
| hosts file (`hosts/mod.rs`) | a block of `/etc/hosts`, a temporary file | sync, clean | route store |
| configuration and names (`config/`, `cli/`, `utils/`) | none after loading | merge layers, parse listen addresses and hostnames | everything |
| status (`status.rs`) | none | find the proxy's state directory, list | lifecycle files, route store |
| platform (`platform/`) | none | liveness, owner checks, signals, daemonize | store, lifecycle, supervision |
| others: `discover/`, `pages/`, `npx_guard.rs`, `npm/`, `install.sh` | none | infer, render, install | |

What makes it hard: there is no server that owns the table. Short-lived
commands share files with each other and with a daemon, guarded by directories
whose makers may die; the daemon learns of changes by polling a time stamp; pids
stand for processes that may be gone, or be somebody else's; and signals may
arrive at every step. What makes each part correct:

- **Store.** Commands take effect one at a time; no entry is lost, doubled or
  removed by somebody it does not belong to; a forced replacement signals the
  process that registered the entry, as far as that can be told; a lock whose
  maker died is recovered.
- **Poller.** The cache is the table the file has, or is about to be.
- **Request path.** A client is answered whatever routes and apps do meanwhile;
  a mount is reached under its address; domains are interchangeable; what is
  answered as a loop is one.
- **Upgrade.** No byte is lost, doubled or reordered where the handshake ends
  and the pipe begins; ends of streams reach the other side; nothing stays open.
- **Lifecycle.** Commands come to an end, and `proxy.pid` names the proxy.
- **Supervision.** No child and no entry is left behind, and nobody else's entry
  is taken along.
- **Certificates.** Key and certificate belong together, every certificate a
  client is shown is signed by the CA on disk, and that is the one the system
  trusts, whatever was removed, cut off or has expired.
- **Hosts file.** The lines of others stay; a reader never finds half a file.
- **Settings.** Commands that work out port, directory, domains and scheme each
  for themselves meet at one proxy; the child listens where its route points.

## Modules

**`PathPrefix`, `RouteTable`** are pure operators. A path is the sequence of its
tokens, slashes included, because everything the code does to paths is about
slashes. `RouteTable` has the operations a command may ask for, what an entry
is, and what an operation does to a table (`Updated`). A pid has a generation: a
process that gets an old pid again has another one. An entry's `owner` says
whether the code can tell: with a start time recorded ("stamped", Linux) it can,
without one ("unstamped", where `/proc` is missing: `platform/unix.rs:34`) it
cannot, and an entry of an older version has no owner at all.

Processes and commands have users here, as in the modules below that signal.
`is_process_alive` is `kill(pid, 0)`, and an error of it counts as dead, EPERM
too (`platform/unix.rs:14`): to a user's command root's processes are dead
(`MaySignal`). So a user's command drops root's entries when it writes the table,
`nsl stop` takes root's proxy for a stale file, and `nsl status` does not see it.

**`AtomicRoutes`** is what the store promises: a table on which each command
takes effect in one step. The entry of a process that still runs goes away only
by a removal that names it, by its own process, by force after the process was
told to stop, by a command of a user who may not signal the process, or with the
whole table, for good, when a write fails (`Lose`).

**`RouteStore`** is the store as written. `CreateLockDir`, `StatLockDir` and
`ReclaimLockDir` are the rounds of `acquire_lock`, each a system call, so that
other commands come in between; `LoadRoutes`, `CheckConflicts`, `KillOwner`,
`TruncateFile` and `WriteFile` are the critical section, with the check of an
owner and the signal to it apart, and the two halves of `fs::write`; `OpenFails`,
`WriteFails` and the failing branches of the others are its error returns
(`Abort`), and `DropLockGuard` is the destructor that ends all of them. A write
that fails leaves the file as truncated, and the history variable `failed` says
so: from then on every command ends at its load. `Next` has no crashes;
`CrashNext` adds a command that is killed at any step and a clock that makes an
orphaned lock over-age.

**`RoutePoller`** has the daemon's side: `InitialLoad` and `TakeBaseline` at
start, then `Look` (mtime), `Load` (file) and `StoreCache` as separate steps,
against `Truncate` and `Write` of one command at a time and a file clock that
ticks when it likes. The history variable `missed` records the two windows in
which no poller of this kind could notice a write.

**`HostRouting`, `RequestPath`.** The first has `hostname_matches`, `find_route`
and the path rewriting as operators over label sequences. The second follows a
client's request through `handle_request`, to an app, and back; the app may be a
dev server that sends it on to `nsl`, or the route may lead to the proxy's own
port, so `calls` is a chain of requests in flight. Meanwhile the poller puts any
other table in the cache and apps start and stop.

**`Upgrade`** is one run of `handle_upgrade`. Upstream's bytes are numbered
pieces, read in any portions; either end may end its half or break at any time.
A body that declines the upgrade may be `endless`: behind the pieces that are
counted it goes on without a pause of 100 ms, and the drain
(`proxy/websocket.rs:238`) lasts as long as it does.

**`ProxyLifecycle`** has two kinds of processes: commands, whose program counter
goes through `ensure_proxy_running` and `stop_proxy`, and daemons, from fork to
exit. Files are modelled with what Unix makes of them: the flock that
`daemonize` takes is on the file, not on its name, so a new file under the same
name is not locked (`pidLock`). The port may be bound by another program, one
that answers requests (`Stranger`) or one that accepts them and stays silent
(`Mute`): `is_proxy_running` sets its request no limit (`proxy/daemon.rs:190`), so
`NotRunning` and `Running` both wait for an answer, with the startup lock held.

**`AppRun`** is `nsl run` and `nsl serve` from start to clean-up over an atomic
table, which is what `StoreIsAtomic` justifies. A registration may fail before
or after the holder of the key was signalled. Each `?` of `spawn_command` is an
action: those of `signal(..)` (`NoHandlers`, `run/mod.rs:374` and 375) and those
of the waits (`WaitFailed`, 381, 386, 391). `terminate_child` is called before the
last two and not before the others; `bailed` records these.

**`Certificates`** has two commands, `nsl trust` and the proxy, in
`ensure_certs` (`CheckCa`, `CheckServer`) and what follows it: `TrustCa` and
`UpdateBundle` for the one, `StartServing` and the SNI resolver for the other
(`ServeDefault`, `ServeCached`, `ServeFromDisk`, `GenerateHostCert`,
`LoadHostCert`). Every write is a truncation and a write (`Truncate`,
`WriteFile`); `Kill`, `WriteFails`, `RemoveFile` and `Expire` come in between. A
certificate is the key it is for and the key that signed it; keys that nothing
mentions any more are used again, so that the proxy can run for ever with seven.

**`HostsFile`** has the managed block as operators over lines and
`write_hosts_atomic` as system calls. Two commands share one temporary file, so
names lead to inodes, and a command writes to the inode it opened. The history
variables say how many commands overlapped, and whether one was killed or a
rename refused; the properties name them in their premises.

**`Settings`, `Names`, `ChildArgs`** are pure operators: layers of files,
environment and flags and the state directory; hostnames as sequences of labels
and the URLs printed for them; the command line that `nsl run` makes of the one
it is given, and, marked external, what package managers and frameworks do with
that. **`Launch`** composes them: `nsl start`, `run` and `serve` in several
directories and environments, with proxies and routes that result, and
`nsl status`. A start of the proxy, a search for a port and a change of the
table are one step each there; `ProxyLifecycle` and `RouteStore` have them in
detail. A place is a user, an environment and a directory; a setup has one HOME,
so its places share the files in it. `StaleRemoved` is a stop by a user to whom
the proxy is dead; `unsettled` records that this, or a second proxy in one
directory, made the lifecycle files unreliable. A proxy that died leaves a pid
that no other process takes.

**`MCRouteStore`, `MCProxyLifecycle`, `MCAppRun`, `MCRequestPath`,
`MCHostsFile`, `MCLaunch`** give small
instances where a configuration cannot. The other modules are checked as they
are.

The modules meet as follows: `RouteStore` refines `AtomicRoutes` and `AppRun`
assumes it; `RoutePoller` assumes of the writers what `MutualExclusion` and
`TornOnlyWhileWriting` say; `RequestPath` lets the cache change at any time and
so covers every poller. `HostRouting`'s matching decides in `Launch` whether a
printed URL is served.

Operators with "Variant with a fault" in their comment are not part of any
model; each is an edit that the property next to it would catch.

## Runs

| run | question | bounds |
| --- | --- | --- |
| `route_store` | Is the store atomic, exclusive and exact, without crashes? | two commands at a time, repeated at will, of a user or of root, from the requests in `SomeRequests`; one hostname; a path with one slash at its end and with two; one pid used by two processes; one round for the lock |
| `route_store_crash` | Is the lock of a dead command recovered? | two commands that die anywhere; one path; two rounds for the lock |
| `route_poller` | Is the cache current, and does it catch up? | one route with a process, one without; three ticks |
| `proxy_lifecycle` | Does the pid file name the proxy while only starts happen, and do commands return? | a user's command and root's, repeated at will; a daemon of each; other programs on the port |
| `app_run` | Entries and children over conflicts, takeovers, failures, signals | two commands, of a user or of root; two keys |
| `app_run_ctrl_c` | *violated*: does Ctrl-C always remove the route? | one command |
| `request_path` | Routing, loops with `max_hops = 1`, answers | tables of up to two of seven routes, one named for a domain and one stored with a slash at its end; three domains, one below another; three requests in a chain |
| `request_path_loop` | *violated*: are loops cut with `max_hops = 2`? | a route to the proxy's own port, plain requests, six in a chain |
| `upgrade` | The stream and its ends | head of up to three pieces with a limit of one, body of two, with or without an end, client of two |
| `certificates` | Do certificates fit their keys, the CA and the system's trust? | one hostname and a cache of one, seven keys, two mishaps |
| `hosts_file` | Is `/etc/hosts` replaced whole, and does it keep what is not nsl's? | two commands at a time, three in all, two names, three initial files |
| `launch` | Do commands, proxy, child and status fit together? | two commands, two proxies, a user and root, three sets of files, twenty-one command lines |

Why the bounds are enough to show something: two commands are enough for every
race on a lock or a key, since a command may be followed by another one in the
same slot; a third waiter adds another waiter. A user and root are the two sides of
EPERM; two plain users would each be what root is to the other. One pid with two
generations has the reuse; the two spellings have the one that normalising does
not bring to its normal form. `SomeRequests` is the bound on what commands ask
for (`Requests`); each pair of adds, forced or not, by pid or static, that can
conflict is among them. With `MaxTries = 1` every round for the lock is the first
and the last; `MaxTries = 2` in `route_store_crash` has both, and the proofs are
for any number. Three ticks let a writer and the
poller fall in the same tick and in different ones. Two daemons are an old proxy
and a new one. `MaxHead = 3` over `MaxBuffer = 1` lets a head be within the
limit, at it and over it. `MaxHops = 1` is the one value above 0 for which the
code cuts loops; that it cuts none at any higher value is the other half of
`LoopIsCutAtOne`, which is proved, and the subject of `request_path_loop`.

In `certificates` a mishap is a kill, a failed write, a removed or expired
certificate or an overlap: two of them let a repair be cut short and a second
command find what is left. Two hostnames would differ in nothing but the cache,
which one entry fills. In `hosts_file` two commands at once and a third after
them are enough to lose the lines of others where the code does lose them; the
premise of `TwoAtOnceKeepForeignLines` says which of these cases it leaves out.
The three setups of `launch` have each layer decide each key once, with addresses
above and below port 1024, at 80 and 443, on all interfaces and on one that
127.0.0.1 does not reach, with a `listen` and a deprecated `bind` that do not
parse, and with a domain below another. A user and root start proxies in them.

The violated properties each state a sentence of the README or a comment, quoted
where the property is defined and in `PROJECT.json` under `findings`.

Fairness. `RouteStore` has it for the steps of running commands and for the
clock, not for starting a command, and the property assumes that somebody keeps
trying. `RoutePoller`: the runtime schedules the poller, and a writer that
truncated goes on to write. `ProxyLifecycle`: one command, `Observed`, and the
daemons are scheduled, while the other command may stop anywhere. The lock loop is
bounded by a count, which the model does not keep, so what ends a wait
(`Awaited`: giving up, or an answer to a request) has strong fairness. That is no
promise that a request is answered: while a `Mute` program has the port no probe
has a step to take, and `CommandsReturn` has as its premise that this is not so
for ever. `AppRun`: commands are scheduled and a child
that was told to stop does. `RequestPath`: an app that has a request answers it
or closes the connection; the proxy sets no limit, so this is an assumption on
apps, and `ClientIsAnswered` holds under it. `Upgrade`: the proxy's task is
scheduled, upstream goes on with what it has to say; `UpgradeIsAnswered` lists the
upstreams from which an answer comes, and an endless body that declines is not
among them. Users, signals, crashes and
ends of connections are never fair.

## Proofs

`RouteStoreProofs`, for any hosts, prefixes in any spelling, pids, users, owners,
commands and retries, writes that fail included:

- `TypeCorrect`, `LockExcludes`: `MutualExclusion` is inductive together with
  what `LockInv` adds, that the directory exists exactly while somebody is in
  the critical section and never grows over-age, so that nobody removes it but
  its holder.
- `StoreIsAtomic`, `TornUnderWriter`, `AddsTakeEffect`, `RemovalsTakeEffect`,
  `ForceSignalsOwner` rest on the inductive `IInv`. Its parts say that the vector in
  memory is the file less entries of dead processes (`Current`), then that with
  the operation applied (`Prepared`), which holds on because only the lock's
  holder writes the file. The table that the refinement shows changes at
  `TruncateFile`: while the file is truncated, the table is what its writer will
  write.

What the code does not do is in the properties, not in assumptions of the
theorems. `normalize_path_prefix` takes one slash off, so `name:/api//` is stored
as `/api/`, which does not answer to its own spelling: `RemovedRouteIsGone` leaves
that one spelling out, and `AtomicRoutes` allows that an add which replaces two
such entries looks at the process of one. `KillsOnlyTheRecordedOwner` promises the
very process that registered the entry where a start time was recorded and the
pid did not change hands between check and kill; otherwise the pid alone.
`TornOnlyWhileWriting` names the write that failed.

`RoutingProofs`, on how a change of the table comes to a request. Of `RoutePoller`,
`PollerIsCurrent`, by `StampInv` (stamps only grow) and `HoldInv` (what the poller
holds in each phase is the table, unless the file's stamp has moved on since it
looked). Of `RequestPath`, for any routes, apps, requests and length of the chain:

- `FalseLoopsAreNotReported`, an action property, and `LoopsAreCutAtOne`, both for
  every `max_hops`. Both need `HopsInv`: the first value of the header, the one that
  is read, is 1 from the first forwarding on, whatever is appended to it. So a limit
  of 0 or 1 is kept, and with any other one, the default of 5 included, no loop is
  ever answered with 508 (`request_path_loop`).
- `MountPointsAreStripped` by `PathInv`, which relates each call's path to that of
  the call before it; `StripOfMatch` is what stripping does to a path that lies
  under a prefix, token by token, slashes at the end of either included.
- `MountsAreServed`: nothing in the table is longer and matches, and no other route
  has this name and prefix. `MountIsServed` excepts, route by route, a hostname that
  a route of another name matches and a prefix stored with a slash at its end.
- `AliasesLeadTheSameWay`, for any domains, also where one lies below another, as
  `ensure_localhost` makes of `dev.localhost` (`config/mod.rs:306`), and for any
  routes. The first configured domain that fits is taken off, so an alias is another
  way to spell a name if it leaves that name; then what is before the domain decides
  alone (`MatchesByName`). A route named for a domain itself
  (`HoldsDomain`) matches by its ending and not by its name: the property leaves
  out the requests that such a route answers to.

What is chosen by `CHOOSE` (the first domain, the longest prefix) exists by
`Least` and `Greatest`, from the library's theorem on well-founded relations.

`AppRunProofs`: `EntriesAreSafe`, an action property, needs of `TypeOK` that an
entry's key is the one its command asked for; `NoChildLeftBehind`
needs `ExitInv`: a run on its way to its clean-up has told its child, or came
there by one of the returns that do not (`bailed`). `EntriesOfOthersStay` excepts
the commands of users who may not signal the app.

`UpgradeProofs`, for heads, bodies, clients and buffers of any size:
`ClientStream` and `UpstreamStream` by `StreamInv`, which says in every phase of
`handle_upgrade` what is on its way: behind the head and read, but not yet handed
on (`extra`), or handed on up to what was read. `PiecesJoin`, that a read continues
what was read before, is the lemma both rest on; `TypeCorrect` is the third theorem.

`ProxyLifecycleProofs`, for any commands and daemons: `PidFileIsTheProxys` by
`StartsInv`, for as long as nothing but starts happens. The startup lock's holders exclude
each other (`LockInv`); the only live daemon that does not have the port yet is
the one that the lock's holder waits for (`AliveInv`); so there is at most one,
it has the port (`PortInv`), and nobody else writes or removes `proxy.pid`
(`PidInv`). `TypeCorrect` is the second theorem.

`CertificatesProofs`, for any hostnames, keys, size of the cache and number of
mishaps: `CertInv` has three layers. While no two commands ensure certificates
at once (`Sound`), nobody else writes the pair of files that a command is at,
and the bundle has the CA among the anchors; that proves `InstalledWhenTrusted`.
While moreover nothing was cut short (`ChainInv`), files that are there are a
chain, or somebody is about to make them one. And while no file was removed and
no CA reached its date (`Strong`), whatever was cut short: a CA, once complete, stays, and a
certificate on disk is signed by it and fits its key or is due, because a key is
only written over while its certificate does not count; that proves
`ServedIsTrusted`. `ChainIsEnsured` takes the second layer or the third, as its
premise has it. `TypeCorrect` rests on `TypeInv`: what a command is about to write
is a key or a certificate according to its place in `ensure_certs`.

`LaunchProofs`, for any configuration files, environments, directories, flags and
names, and any number of commands and proxies, by `LaunchInv`. Its parts: a job's
configuration is what its environment, directory and flags say, also later
(`JobOk`); a server has its port from before its route is there (`ServeOk`); a
route is its command's (`TableOk`); a proxy has the domains and the directory that
its starter's place says, and the port it was given (`ProxyOk`); and until two
proxies share a directory or the files of one are removed as stale, a directory
has the files of the one that runs in it, or ones that name a process that is gone
(`Settled`). From these:

- `RoutesReachTheirProxies`: command and daemon load the same layers each for
  itself (`LoadedType`, `OverridesType`), so they agree on directory and domains; a
  hostname that `parse_hostname` takes has a prefix that matches under every domain
  (`ParsedHost`, `PrefixIsName`, `NameUnderDomain`). Its hypothesis `PortsAreNamed`
  leaves out `listen = ":0"`, which `parse_listen` takes (`config/mod.rs:284`) and
  for which no URL can name the port.
- `ServersOwnTheirPorts`: with ends in order `find_free_port`'s arithmetic in 16 bits
  stays within the range (`PortsOfRange`), and it yields ports in any case
  (`PortsOfType`).
- `StatusIsRight`: by `Settled` no directory but the proxy's looks alive, and to
  those who may not signal the proxy none does.
- `ChildrenListen`, for any command lines and any scripts: what
  `inject_framework_flags` adds is single words, the last port flag among them, with
  a `--` before it where a package manager wants one and the user gave none
  (`Added`, `Injected`); every flag that counts comes behind what the manager keeps
  for itself (`NothingIsKept`); the last one decides (`LastFlagCounts`), and it is
  for the allocated port; and a program that reads its port from flags alone is one
  that nsl knows (`FlagTakersAreKnown`). `plain` leaves out what the code does not
  cater for: a port of the user's own or named where npm keeps it (`OwnPort`), a
  quoted command (`Quoted`), a script called without `run` by npm or pnpm
  (`Hidden`), and a program that takes its port in a way nsl does not know (`Unknown`).
- `TypeCorrect`.

The constants of `Launch` carry the types of the Rust structures they stand for
(`SetupsAssumption`): ports are `u16`, flags are Booleans, an address has a port,
a domain is a sequence of labels. `CommandsAssumption` says of a command line that it
has arguments of one or more words, that a package manager is given a script that
exists and `npx` a program, and that nobody can know the port before it is
allocated. The instance `MCLaunch` satisfies all of it.

`HostsFileProofs`, for any files found, names, lines of others and number of
commands. The first half is about the operators: the loop of `remove_block` keeps
exactly what is outside blocks (`RemovesTheBlock`, with the state of the loop as
a function of the lines it has read, and induction over the set of places up to a
bound, `UpTo`); what is written has one block, and outside it what was there
(`SyncedHasOneBlock`, `OutsideSynced`); a free inode exists, by counting
(`FreeInodeThere`); and what two writings to one inode leave (`WrittenStarts`,
`TornLine`). Then:

- `HostsFileTyped`: no command holds a file open but between its opening and its
  writing, so there is always an inode for the next one.
- `HostsFileAtomic`, by `AtomicInv`: a command that runs alone works on a file of
  its own, with the lines of others as they were found, and gives it the name once
  it is complete.
- `HostsFileSyncTakesEffect`, an action property, by `SoloInv`, which is about the
  commands in `alone` only and asks nothing of the file they found.
- `HostsFileTwoAtOnce`, by `TwoInv`: while one or two are at work there is a text, with
  the lines of others in their order, with which everything they write begins. A file
  that one of them writes over the other's begins with it too, since both have it in
  common (`WrittenOver`), and what follows it has no line of others.

`LinesAssumption` keeps apart the lines of others and those that nsl writes, and
`InitialAssumption` says that a file that nsl finds has one block at most.

`TypeOK` of `RouteStore` and `AppRun` and the strengthened invariants (`IInv`,
`PathInv`, `TypeInv`, `LaunchInv` and the like) are proved and so no longer checked by
a run. Each was an invariant of a run before it was proved, but for `TwoInv`, whose
text `B` is not from a set that TLC could enumerate.

Every safety invariant and action property that a passing run checks is a theorem,
from the named assumptions on the constants, and `RoutesReachTheirProxies` from
`PortsAreNamed` besides. Model-checked only are the properties about liveness (`OrphanIsReclaimed`,
`CacheCatchesUp`, `CommandsReturn`, `EntryGoesWithTheApp`, `ClientIsAnswered`,
`EverythingArrives`, `UpgradeIsAnswered`, `NoPipeIsLeft`), which the prover does not
do, since it has no ENABLED and so no fairness.

## Not modelled

Crashes and exclusion do not go together in `RouteStore`: a lock without an owner
on disk can be removed under its second holder by a waiter that looked at the
first, so with crashes only recovery is claimed.

What the code does not promise, and where it differs from what a reader may
expect, without a run of its own:

- A proxy keeps the route of a process that died until somebody writes the table
  (`proxy/server.rs:90`), although a comment at `serve/mod.rs:122` expects it to
  prune it.
- A write of `routes.json` that fails leaves a file that no later command can read
  (`routes.rs:264`).
- Processes of other users count as dead (`platform/unix.rs:14`): a user's command
  drops the entries of root's apps, `nsl status` shows root's proxy as stopped, and
  `nsl stop` removes its files as stale instead of asking for `sudo`.
- Where no start time is recorded, a forced replacement may signal a process that
  got the pid of the owner and leads a process group as that one did.
- `nsl run` may end with its child running and its route gone, when the signal
  handlers cannot be installed or the wait fails (`run/mod.rs:374`, 375, 381).
- A program on the proxy's port that accepts connections and stays silent keeps
  every `nsl start`, `run` and `serve` waiting (`proxy/daemon.rs:190`).
- A declined upgrade with a body that never pauses is collected for as long as it
  lasts, and the client waits for it (`proxy/websocket.rs:238`).
- `nsl stop` may remove the pid file of a newer proxy (`proxy/daemon.rs:234`).
- A service named below another one that was registered earlier is not reached
  under its own name (`proxy/handler.rs:94`).
- Two commands that generate certificates at once may leave a key and a
  certificate of two pairs; host certificates are not renewed with their CA; an
  update of the system's bundle that failed is not tried again, since the copy
  among the anchors is all that is looked at.
- Three commands that overlap, or two whose rename is refused, may lose lines of
  `/etc/hosts`.
- `nsl run "vite dev"` and `pnpm dev` do not get the port to the framework; a
  proxy at an address that 127.0.0.1 does not reach is reported as failed.

Left out: Windows (`platform/windows.rs`), which has other signals and no process
groups; macOS and Arch in `certs/trust.rs`, and the choice by
`/etc/os-release`; display overrides of URLs, keys of the configuration that are
only passed on, argument parsing and printing; the sanitising of names that
`discover/` infers. Static files, error pages, the listing of routes and installers
keep no state that several steps share. Header contents beyond Host and the hop
count, bodies, chunking and TLS records belong to the libraries.

## Plan

In this order; the first seven are done.

1. The store: `PathPrefix`, `RouteTable`, `AtomicRoutes`, `RouteStore`, proofs.
2. `RoutePoller`, proofs.
3. `ProxyLifecycle`, proofs.
4. `AppRun` over the atomic table, proofs.
5. `HostRouting`, `RequestPath`, `Upgrade`, proofs.
6. `Certificates`, with the trust store; `HostsFile`; proofs.
7. `Settings`, `Names`, `ChildArgs` and their composition `Launch`, proofs.
8. `RoutePoller` composed with `AtomicRoutes`, so that the cache is shown to
   follow commands and not only writes.
