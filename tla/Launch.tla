-------------------------------- MODULE Launch --------------------------------
(***************************************************************************)
(* `nsl start`, `nsl run`, `nsl serve` and `nsl status` over several       *)
(* configurations (crates/nsl/src/config, cli, run, serve, status.rs): how *)
(* commands that load their settings each for themselves come to the same  *)
(* proxy, state directory, hostname and port, or do not.                   *)
(*                                                                         *)
(* A start of the proxy, which ProxyLifecycle has in detail, and a search  *)
(* for a port are one step each here; so is a change of the route table,   *)
(* which RouteStore has.  Routes are mounted at "/".                       *)
(***************************************************************************)
EXTENDS Settings, Names, ChildArgs

CONSTANTS Procs, Pids,  \* commands; the pids of proxies
          Users, Superuser,
          Setups, Commands,
          Labels,       \* of hostnames
          None

\* A setup is what the configuration files say, and the commands that are given
\* there: by whom, in which environment and directory (places), with which --listen,
\* or Unset, and --https for `nsl start` (flags), and for which applications (names).
\* The places of a setup have one HOME.
Layers(f) == {f.etc, f.home} \cup {f.projects[d] : d \in DOMAIN f.projects}
                            \cup {at.env : at \in f.places}

Ports  == 0..(Word - 1)
IsSeq(s) == s \in Seq({s[i] : i \in DOMAIN s})

AddressType(a) == DOMAIN a = {"ip", "port"} /\ a.port \in Ports

\* RawConfig: the type of each key.
LayerType(layer) ==
  /\ layer.listen = Unset \/ AddressType(layer.listen)
  /\ {layer.port, layer.app_port, layer.port_range_start, layer.port_range_end}
       \subseteq Ports \cup {Unset}
  /\ layer.https \in BOOLEAN \cup {Unset}
  /\ layer.domains = Unset \/ layer.domains \in Seq(Seq(Labels))

ASSUME SetupsAssumption ==
  \A f \in Setups :
    /\ DOMAIN f = {"etc", "home", "projects", "places", "flags", "names"}
    /\ \A layer \in Layers(f) : LayerType(layer)
    /\ \A d \in DOMAIN f.projects : IsSeq(d)
    /\ \A at \in f.places : at.user \in Users /\ IsSeq(at.cwd)
    /\ \A flags \in f.flags : /\ flags.listen = Unset \/ AddressType(flags.listen)
                            /\ flags.https \in BOOLEAN
    /\ f.names \subseteq Seq(Labels)
\* A command is one or more arguments of one or more words; a package manager
\* is given a script that exists, npx a program, and nobody knows the port before.
ASSUME CommandsAssumption ==
  \A cmd \in Commands :
    /\ IsSeq(cmd.args) /\ cmd.args # <<>> /\ IsSeq(cmd.script)
    /\ \A i \in DOMAIN cmd.args : IsSeq(cmd.args[i]) /\ cmd.args[i] # <<>>
    /\ cmd.args[1] \in Managers => cmd.script # <<>>
    /\ cmd.args[1] = <<"npx">> => Len(cmd.args) > 1 /\ Len(cmd.args[2]) = 1
    /\ ~Mentions(cmd.args \o Line(cmd.script), "--port=PORT")
ASSUME LabelsAssumption == "localhost" \in Labels

VARIABLES
  files,      \* the setup
  proxies,    \* the proxies that run
  lifecycle,  \* of each state directory: proxy.pid, proxy.port and proxy.tls
  unsettled,  \* history: two proxies ran in one state directory at a time, or the
              \* files of one that runs were removed as stale
  table,      \* the routes, each with its state directory
  bound,      \* who listens on which port of 127.0.0.1, the proxies aside
  pc, job     \* of each command: where it is, what it does

vars == <<files, proxies, lifecycle, unsettled, table, bound, pc, job>>

\* nsl start ends once the proxy is up.
Ops   == {"start", "run", "serve"}
NoJob == [op |-> None]
DirsOf(f) == {layer.state_dir : layer \in Layers(f)}
Dirs  == ({UserDir, PrivilegedDir} \cup UNION {DirsOf(f) : f \in Setups}) \ {Unset}
LifecycleFiles == [pid: Pids \cup {None}, port: Ports, tls: BOOLEAN]

ASSUME MarksAssumption ==
  /\ Unset \notin {UserDir, PrivilegedDir}
  /\ None \notin Ops \cup Pids /\ None \notin LifecycleFiles

Init ==
  /\ files \in Setups
  /\ proxies = {} /\ table = {} /\ bound = {} /\ unsettled = FALSE
  /\ lifecycle = [d \in Dirs |-> None]
  /\ pc = [p \in Procs |-> "idle"]
  /\ job = [p \in Procs |-> NoJob]

\* The port and what the child makes of it come later.
NewJob(op, at, host, config) ==
  [ op |-> op, at |-> at, host |-> host, config |-> config,
    port |-> None, plain |-> FALSE, listens |-> FALSE ]

Goto(p, label) == pc' = [pc EXCEPT ![p] = label]
Finish(p)      == Goto(p, "idle") /\ job' = [job EXCEPT ![p] = NoJob]

-------------------------------------------------------------------------------
(* Beginning: the settings and the hostname                                 *)

Configured(at) == LoadConfig(files, at.env, at.cwd)

BeginStart(p, at, flags) ==
  /\ pc[p] = "idle"
  /\ flags.listen # Unset => ParsesAsListen(flags.listen)
  /\ job' = [job EXCEPT ![p] =
       NewJob("start", at, NotAHostname,
              ApplyCliOverrides(Configured(at), flags.listen, flags.https))]
  /\ Goto(p, "ensure")
  /\ UNCHANGED <<files, proxies, lifecycle, unsettled, table, bound>>

BeginApp(p, op, at, name) ==
  LET config == Configured(at)
      host   == ParseHostname(name, config.domains)
  IN  /\ pc[p] = "idle"
      /\ host # NotAHostname
      /\ job' = [job EXCEPT ![p] = NewJob(op, at, host, config)]
      /\ Goto(p, "ensure")
      /\ UNCHANGED <<files, proxies, lifecycle, unsettled, table, bound>>

-------------------------------------------------------------------------------
(* ensure_proxy_running                                                     *)

AcceptsLocally(q) == q.listen.ip \in {AnyIp, LocalIp}

\* is_proxy_running: whoever's proxy it is.
IsProxyRunning(port) == \E q \in proxies : q.listen.port = port /\ AcceptsLocally(q)

\* bind refuses an address that is in use.
CanBind(listen) ==
  /\ \A q \in proxies : q.listen.port = listen.port =>
       /\ AnyIp \notin {q.listen.ip, listen.ip}
       /\ q.listen.ip # listen.ip
  /\ \A b \in bound : b.port = listen.port => listen.ip \notin {AnyIp, LocalIp}

ProxyFound(p) ==
  /\ pc[p] = "ensure"
  /\ IsProxyRunning(job[p].config.listen.port)
  /\ IF job[p].op = "start" THEN Finish(p) ELSE Goto(p, "find") /\ UNCHANGED job
  /\ UNCHANGED <<files, proxies, lifecycle, unsettled, table, bound>>

\* The daemon's own view of its settings and of its state directory.
NewProxy(p, pid) ==
  LET config == DaemonConfig(files, job[p].at.env, job[p].at.cwd, job[p].config)
  IN  [ pid |-> pid, at |-> job[p].at,
        listen |-> config.listen, https |-> config.https,
        domains |-> config.domains, dir |-> ResolveStateDir(config) ]

FilesOf(q) == [pid |-> q.pid, port |-> q.listen.port, tls |-> q.https]

UnusedPids == Pids \ {q.pid : q \in proxies}

\* kill(pid, 0) succeeds for the owner of a process and for root.
MaySignal(user, owner) == user \in {owner, Superuser}

\* What a user's command takes for alive: EPERM counts as dead.
IsAlive(user, pid) == \E q \in proxies : q.pid = pid /\ MaySignal(user, q.at.user)

\* A proxy on an address that 127.0.0.1 does not reach comes up, but the command
\* that waits for it there gives up.
ProxySpawned(p) ==
  /\ pc[p] = "ensure"
  /\ ~IsProxyRunning(job[p].config.listen.port)
  /\ \E pid \in UnusedPids :
       LET q == NewProxy(p, pid)
       IN  /\ CanBind(q.listen)
           /\ proxies' = proxies \cup {q}
           /\ lifecycle' = [lifecycle EXCEPT ![q.dir] = FilesOf(q)]
           /\ unsettled' = (unsettled \/ \E r \in proxies : r.dir = q.dir)
           /\ IF AcceptsLocally(q) /\ job[p].op # "start"
                THEN Goto(p, "find") /\ UNCHANGED job ELSE Finish(p)
  /\ UNCHANGED <<files, table, bound>>

\* Below 1024 some systems let nobody but root bind.
ProxyFailsToStart(p) ==
  /\ pc[p] = "ensure"
  /\ ~IsProxyRunning(job[p].config.listen.port)
  /\ \/ ~CanBind(job[p].config.listen)
     \/ /\ job[p].config.listen.port < PrivilegedPortThreshold
        /\ job[p].at.user # Superuser
  /\ Finish(p)
  /\ UNCHANGED <<files, proxies, lifecycle, unsettled, table, bound>>

\* A stop removes the files of its directory, whosever they are by now.
ProxyStops(q) ==
  /\ proxies' = proxies \ {q}
  /\ lifecycle' = [lifecycle EXCEPT ![q.dir] = None]
  /\ UNCHANGED <<files, unsettled, table, bound, pc, job>>

\* Its files stay, with a pid that no process has.
ProxyDies(q) ==
  /\ proxies' = proxies \ {q}
  /\ lifecycle' = [d \in Dirs |->
       IF lifecycle[d] # None /\ lifecycle[d].pid = q.pid
         THEN [lifecycle[d] EXCEPT !.pid = None] ELSE lifecycle[d]]
  /\ UNCHANGED <<files, unsettled, table, bound, pc, job>>

\* A stop by a user who finds no such process: the files are stale to him.
StaleRemoved(user, d) ==
  /\ lifecycle[d] # None
  /\ ~IsAlive(user, lifecycle[d].pid)
  /\ lifecycle' = [lifecycle EXCEPT ![d] = None]
  /\ unsettled' = (unsettled \/ \E q \in proxies : q.dir = d)
  /\ UNCHANGED <<files, proxies, table, bound, pc, job>>

-------------------------------------------------------------------------------
(* The application's port                                                   *)

Free(port) ==
  /\ \A b \in bound : b.port # port
  /\ \A q \in proxies : AcceptsLocally(q) => q.listen.port # port

\* Variant with a fault: one port too many.
PortsOnePastTheEnd(range) ==
  LET span == ((range[2] - range[1] + 2) + Word) % Word
  IN  {(range[1] + n) % Word : n \in 0..(span - 1)}

\* Ten are tried at random, then all in turn; in u16, so that a range that ends
\* before it starts wraps, and the whole of u16 has no length at all.
PortsOf(range) ==
  LET span == ((range[2] - range[1] + 1) + Word) % Word
  IN  {(range[1] + n) % Word : n \in 0..(span - 1)}

\* The port is bound and let go.
FindFreePort(p) ==
  /\ pc[p] = "find"
  /\ LET config == job[p].config
         pinned == job[p].op = "run" /\ config.app_port # Unset
         found  == IF pinned THEN {config.app_port} ELSE {n \in PortsOf(config.range) : Free(n)}
     IN  \/ \E port \in found :
              /\ job' = [job EXCEPT ![p] = [@ EXCEPT !.port = port]]
              /\ Goto(p, IF job[p].op = "run" THEN "spawn" ELSE "bind")
         \/ found = {} /\ Finish(p)
  /\ UNCHANGED <<files, proxies, lifecycle, unsettled, table, bound>>

-------------------------------------------------------------------------------
(* run_app and serve_app                                                    *)

\* The user gives a port of his own, or names it where npm keeps it to itself; he
\* quotes the whole command, or calls a script in a way that hides its framework;
\* or the program takes its port in a way that nsl does not know.
FlagsIn(args) == {i \in DOMAIN args : Word1(args[i]) \in PortFlags}
OwnPort(cmd)  ==
  \/ HasFlag(Line(cmd.script), PortFlags)
  \/ /\ HasFlag(cmd.args, PortFlags)
     /\ LET last == LastOf(FlagsIn(cmd.args))
        IN  \/ ~IsFor(cmd.args, last, "--port=NSL_PORT", "NSL_PORT")
            \/ cmd.args[1] \in Managers /\ last <= HandedFrom(cmd.args)
Quoted(cmd)   == Len(cmd.args[1]) > 1
Hidden(cmd)   == cmd.script # <<>> /\ ~RunsScript(cmd.args)
Unknown(cmd)  ==
  LET program == IF cmd.script # <<>> THEN Line(cmd.script) ELSE Started(cmd.args, <<>>)
  IN  /\ ~HasFlag(cmd.args, PortFlags)
      /\ \/ Arg(program, 1) = <<"./tool">>
         \/ Arg(program, 1) = <<"wrangler">> /\ ~Mentions(program, "dev")

Spawn(p, cmd) ==
  /\ pc[p] = "spawn"
  /\ LET line == Started(ShellArgs(FinalArgs(cmd.args, cmd.script)), cmd.script)
     IN  job' = [job EXCEPT ![p] =
                   [@ EXCEPT !.plain   = ~(OwnPort(cmd) \/ Quoted(cmd) \/ Hidden(cmd)
                                           \/ Unknown(cmd)),
                             !.listens = ListensOnAllocated(line)]]
  /\ Goto(p, "register")
  /\ UNCHANGED <<files, proxies, lifecycle, unsettled, table, bound>>

BindListener(p) ==
  /\ pc[p] = "bind"
  /\ LET port == job[p].port
     IN  \/ /\ Free(port)
            /\ bound' = bound \cup {[port |-> port, by |-> p]}
            /\ Goto(p, "register") /\ UNCHANGED job
         \/ ~Free(port) /\ Finish(p) /\ UNCHANGED bound
  /\ UNCHANGED <<files, proxies, lifecycle, unsettled, table>>

\* Variant with a fault: the port is kept.
LetGoNothing(p) == bound' = bound

LetGo(p)  == bound' = {b \in bound : b.by # p}
Dir(p)    == ResolveStateDir(job[p].config)
Entry(p)  == [dir |-> Dir(p), host |-> job[p].host, port |-> job[p].port, by |-> p]

Register(p) ==
  /\ pc[p] = "register"
  /\ \/ /\ \A e \in table : ~(e.dir = Dir(p) /\ e.host = job[p].host)
        /\ table' = table \cup {Entry(p)}
        /\ Goto(p, "running")
        /\ UNCHANGED <<bound, job>>
     \/ /\ \E e \in table : e.dir = Dir(p) /\ e.host = job[p].host
        /\ Finish(p) /\ LetGo(p) /\ UNCHANGED table
  /\ UNCHANGED <<files, proxies, lifecycle, unsettled>>

\* External: the child comes to listen, or finds its port taken.
ChildBinds(p) ==
  /\ pc[p] = "running" /\ job[p].op = "run" /\ job[p].listens
  /\ \A b \in bound : b.by # p
  /\ Free(job[p].port)
  /\ bound' = bound \cup {[port |-> job[p].port, by |-> p]}
  /\ UNCHANGED <<files, proxies, lifecycle, unsettled, table, pc, job>>

\* The child has ended, or the server has dropped its listener.
Ends(p) ==
  /\ pc[p] = "running"
  /\ LetGo(p)
  /\ Goto(p, "unregister")
  /\ UNCHANGED <<files, proxies, lifecycle, unsettled, table, job>>

Unregister(p) ==
  /\ pc[p] = "unregister"
  /\ table' = {e \in table : e.by # p}
  /\ Finish(p)
  /\ UNCHANGED <<files, proxies, lifecycle, unsettled, bound>>

-------------------------------------------------------------------------------
(* get_proxy_status                                                         *)

\* Variant with a fault: a pid file is enough.
ActiveByFile(user, dir) == lifecycle[dir] # None

Active(user, dir) == lifecycle[dir] # None /\ IsAlive(user, lifecycle[dir].pid)

\* The user's directory comes first.
DiscoverActiveStateDir(user, env) ==
  LET home == ResolveStateDirFromEnv(env, DefaultPort)
      sys  == ResolveStateDirFromEnv(env, 80)
  IN  IF env.state_dir # Unset THEN env.state_dir
      ELSE IF ~Active(user, home) /\ Active(user, sys) THEN sys ELSE home

ProxyStatus(user, env) ==
  LET dir  == DiscoverActiveStateDir(user, env)
      file == lifecycle[dir]
  IN  [ dir     |-> dir,
        running |-> Active(user, dir),
        port    |-> IF file = None \/ (env.state_dir = Unset /\ ~Active(user, dir))
                      THEN DefaultPort ELSE file.port,
        tls     |-> file # None /\ file.tls ]

-------------------------------------------------------------------------------

Next ==
  \/ \E p \in Procs, at \in files.places :
       \/ \E flags \in files.flags : BeginStart(p, at, flags)
       \/ \E op \in {"run", "serve"}, name \in files.names : BeginApp(p, op, at, name)
  \/ \E p \in Procs :
       \/ ProxyFound(p) \/ ProxySpawned(p) \/ ProxyFailsToStart(p)
       \/ FindFreePort(p) \/ \E cmd \in Commands : Spawn(p, cmd)
       \/ BindListener(p) \/ Register(p) \/ ChildBinds(p) \/ Ends(p) \/ Unregister(p)
  \/ \E q \in proxies : ProxyStops(q) \/ ProxyDies(q)
  \/ \E user \in Users, d \in Dirs : StaleRemoved(user, d)

Spec == Init /\ [][Next]_vars

-------------------------------------------------------------------------------
(* Properties                                                               *)

\* Every variable has its type; each state directory, port and hostname is used
\* as its owner's state says.
TypeOK ==
  /\ files \in Setups /\ unsettled \in BOOLEAN
  /\ \A p \in Procs :
       /\ pc[p] \in {"idle", "ensure", "find", "spawn", "bind", "register",
                     "running", "unregister"}
       /\ (pc[p] = "idle") <=> (job[p] = NoJob)
       /\ pc[p] # "idle" => job[p].op \in Ops
       /\ pc[p] \in {"spawn", "bind", "register", "running", "unregister"} =>
            job[p].port \in 0..(Word - 1)
  /\ \A q \in proxies : q.dir \in Dirs /\ q.pid \in Pids /\ q.https \in BOOLEAN
  /\ \A q, r \in proxies : q.pid = r.pid => q = r
  /\ \A d \in Dirs : lifecycle[d] # None => lifecycle[d].pid \in Pids \cup {None}
  /\ \A e \in table : e.dir \in Dirs /\ pc[e.by] \in {"running", "unregister"}
  /\ \A a, b \in bound : a.port = b.port => a = b
  /\ \A b \in bound : pc[b.by] \in {"register", "running"}

\* The routes that `nsl run` and `nsl serve` add are in the directory of the
\* proxy at their port, and every URL they print leads to that proxy, which
\* speaks its scheme and finds the route for it, whatever --listen and --https
\* the proxy was started with and whoever started it, in the same project and
\* environment and with no domain below another.
RouteReachesItsProxy ==
  \A p \in Procs, q \in proxies :
    LET config == job[p].config
        urls   == FormatUrls(ExtractHostnamePrefix(job[p].host, config.domains),
                             config.domains, config.listen.port, config.https)
    IN  /\ pc[p] = "running" /\ Apart(q.domains)
        /\ q.at = job[p].at
        /\ q.listen.port = config.listen.port
        => \A url \in urls :
             /\ q.dir = Dir(p)
             /\ ConnectsTo(url) = q.listen.port
             /\ url.https => q.https
             /\ \E e \in table : /\ e.by = p /\ e.dir = q.dir
                                 /\ HostnameMatches(e.host, url.host, q.domains)

\* The child comes to listen on the port that its route points to: a framework
\* gets the port past its package manager, a placeholder is filled in, and any
\* other program reads PORT.  Not so where the user gives a port of his own, quotes
\* the whole command or hides the framework, nor for a program that reads neither.
ChildListensWhereRoutePoints ==
  \A p \in Procs :
    pc[p] \in {"register", "running"} /\ job[p].op = "run" /\ job[p].plain =>
      job[p].listens

\* A route of `nsl serve` points, as long as it serves, to a port that it listens
\* on itself and that lies in its range; the listener is there before the route.
ServeOwnsItsPort ==
  \A e \in table :
    LET config == job[e.by].config
    IN  job[e.by].op = "serve" /\ pc[e.by] = "running" /\ config.range[1] <= config.range[2] =>
          /\ [port |-> e.port, by |-> e.by] \in bound
          /\ e.port \in config.range[1]..config.range[2]

\* Where no configuration file sets a state directory, no two proxies have shared
\* one and nobody has removed the files of one that runs, `nsl status` of its owner
\* or of root finds the only proxy that runs, with its directory, port and scheme,
\* whatever files a proxy that died has left in either directory.  To any other user
\* (one without sudo, say, of a proxy below port 1024) nothing runs anywhere.
StatusSeesTheProxy ==
  \A q \in proxies, user \in Users :
    proxies = {q} /\ ~unsettled /\ FileLayers(files, q.at.cwd).state_dir = Unset =>
      LET status == ProxyStatus(user, q.at.env)
      IN  IF MaySignal(user, q.at.user)
            THEN status = [ dir |-> q.dir, running |-> TRUE,
                            port |-> q.listen.port, tls |-> q.https ]
            ELSE ~status.running /\ status.dir = Or(q.at.env.state_dir, UserDir)

-------------------------------------------------------------------------------
(* Their inductive strengthening                                            *)

Phases  == {"idle", "ensure", "find", "spawn", "bind", "register", "running", "unregister"}
JobKeys == {"op", "at", "host", "config", "port", "plain", "listens"}

\* What a command is about, and how far it is with it.
JobOk(p) ==
  LET j == job[p]
  IN  /\ pc[p] \in Phases
      /\ (pc[p] = "idle") <=> (j = NoJob)
      /\ pc[p] # "idle" => DOMAIN j = JobKeys /\ j.op \in Ops /\ j.at \in files.places
      /\ pc[p] \notin {"idle", "ensure"} => j.op # "start"
      /\ pc[p] # "idle" /\ j.op = "start" =>
           \E flags \in files.flags :
             j.config = ApplyCliOverrides(Configured(j.at), flags.listen, flags.https)
      /\ pc[p] # "idle" /\ j.op # "start" =>
           /\ j.config = Configured(j.at)
           /\ \E name \in files.names : j.host = ParseHostname(name, j.config.domains)
           /\ j.host # NotAHostname
      /\ pc[p] = "spawn" => j.op = "run"
      /\ pc[p] \in {"spawn", "bind", "register", "running", "unregister"} => j.port \in Ports

\* `nsl serve` has its port before it adds its route.
ServeOk(p) ==
  LET j == job[p]
  IN  j.op = "serve" =>
        /\ pc[p] \in {"bind", "register", "running"} => j.port \in PortsOf(j.config.range)
        /\ pc[p] \in {"register", "running"} => [port |-> j.port, by |-> p] \in bound

TableOk ==
  /\ \A e \in table :
       e.by \in Procs /\ e = Entry(e.by) /\ pc[e.by] \in {"running", "unregister"}
  /\ \A p \in Procs : pc[p] = "running" => Entry(p) \in table

BoundOk ==
  /\ \A b \in bound : b.by \in Procs /\ pc[b.by] \in {"register", "running"}
  /\ \A a, b \in bound : a.port = b.port => a = b

\* A proxy has what its own environment and directory say, and what it was given.
ProxyOk(q) ==
  LET config == Configured(q.at)
  IN  /\ q.at \in files.places
      /\ q.pid \in Pids /\ q.https \in BOOLEAN /\ q.listen.port \in Ports
      /\ q.domains = config.domains
      /\ config.https => q.https
      /\ q.dir = Or(config.state_dir, DefaultStateDir(q.listen.port))

LifecycleOk ==
  /\ lifecycle \in [Dirs -> LifecycleFiles \cup {None}]
  /\ \A q, r \in proxies : q.pid = r.pid => q = r

\* Until two proxies share a directory, or the files of one are removed, a directory
\* has those of the one that runs in it, or of none.
Settled ==
  /\ \A q, r \in proxies : q.dir = r.dir => q = r
  /\ \A q \in proxies : lifecycle[q.dir] = FilesOf(q)
  /\ \A d \in Dirs : lifecycle[d] # None /\ lifecycle[d].pid # None =>
       \E q \in proxies : q.dir = d /\ q.pid = lifecycle[d].pid

LaunchInv ==
  /\ files \in Setups /\ unsettled \in BOOLEAN
  /\ DOMAIN pc = Procs /\ DOMAIN job = Procs
  /\ \A p \in Procs : JobOk(p) /\ ServeOk(p)
  /\ TableOk /\ BoundOk
  /\ \A q \in proxies : ProxyOk(q)
  /\ LifecycleOk
  /\ ~unsettled => Settled

\* Port 0, which lets the system choose one, is not configured.
PortsAreNamed(f) == \A at \in f.places : LoadConfig(f, at.env, at.cwd).listen.port # 0
===============================================================================
