------------------------------ MODULE LaunchProofs ------------------------------
(***************************************************************************)
(* What commands that load their settings each for themselves agree on,    *)
(* for any configuration files, environments, directories, flags and       *)
(* applications, and any number of commands and proxies.                   *)
(***************************************************************************)
EXTENDS Launch, SequenceTheorems, WellFoundedInduction, TLAPS

-------------------------------------------------------------------------------
(* Numbers                                                                  *)

LEMMA Least ==
  ASSUME NEW T \in SUBSET Nat, T # {}
  PROVE  \E i \in T : \A j \in T : i <= j
<1> DEFINE Below == {ss \in Nat \X Nat : ss[1] < ss[2]}
<1>1. IsWellFoundedOn(Below, Nat)
  BY NatLessThanWellFounded DEF OpToRel
<1>2. \A j, i \in Nat : i <= j \/ <<j, i>> \in Below
  OBVIOUS
<1> HIDE DEF Below
<1>3. PICK i \in T : \A j \in T : ~(<<j, i>> \in Below)
  BY <1>1, WFMin
<1>4. \A j \in T : i <= j
  BY <1>2, <1>3
<1> QED
  BY <1>4

\* Of things that have a size below some bound there is a largest.
LEMMA Largest ==
  ASSUME NEW m \in Nat, NEW F, F # {}, NEW size, \A d \in F : size[d] \in 0..m
  PROVE  \E d \in F : \A e \in F : size[e] <= size[d]
<1> DEFINE T == {m - size[d] : d \in F}
<1>1. T \in SUBSET Nat /\ T # {}
  OBVIOUS
<1> HIDE DEF T
<1>2. PICK t \in T : \A u \in T : t <= u
  BY <1>1, Least
<1>3. PICK d \in F : t = m - size[d]
  BY DEF T
<1>4. ASSUME NEW e \in F PROVE size[e] <= size[d]
  <2>1. m - size[e] \in T /\ m - size[d] <= m - size[e]
    BY <1>2, <1>3 DEF T
  <2> QED
    BY <2>1
<1> QED
  BY <1>4

-------------------------------------------------------------------------------
(* Settings                                                                 *)

LEMMA MergeType ==
  ASSUME NEW a, NEW b, LayerType(a), LayerType(b)
  PROVE  /\ LayerType(Merge(a, b))
         /\ Merge(a, b).state_dir = IF b.state_dir # Unset THEN b.state_dir ELSE a.state_dir
BY DEF LayerType, Merge, Keys

LEMMA NoLayerType == LayerType(NoLayer) /\ NoLayer.state_dir = Unset
BY DEF LayerType, NoLayer, Keys

\* The nearest project above a directory, or none.
LEMMA ProjectType ==
  ASSUME NEW f \in Setups, NEW at \in f.places
  PROVE  LET layer == FindProjectConfig(at.cwd, f.projects)
         IN  LayerType(layer) /\ layer.state_dir \in DirsOf(f) \cup {Unset}
<1> DEFINE above == {d \in DOMAIN f.projects : StartsWith(at.cwd, d)}
           size  == [d \in above |-> Len(d)]
<1>1. CASE above = {}
  BY <1>1, NoLayerType DEF FindProjectConfig
<1>2. CASE above # {}
  <2>1. Len(at.cwd) \in Nat
    <3>1. at.cwd \in Seq({at.cwd[i] : i \in DOMAIN at.cwd})
      BY SetupsAssumption DEF IsSeq
    <3> QED
      BY <3>1, LenProperties
  <2>2. \A d \in above : size[d] = Len(d) /\ size[d] \in 0..Len(at.cwd)
    <3> SUFFICES ASSUME NEW d \in above PROVE Len(d) \in 0..Len(at.cwd)
      OBVIOUS
    <3>1. d \in Seq({d[i] : i \in DOMAIN d})
      BY SetupsAssumption DEF IsSeq
    <3>2. Len(d) \in Nat
      BY <3>1, LenProperties
    <3> QED
      BY <2>1, <3>2 DEF StartsWith
  <2> HIDE DEF above, size
  <2>3. PICK d \in above : \A e \in above : size[e] <= size[d]
    BY <1>2, <2>1, <2>2, Largest
  <2>4. \A e \in above : Len(e) <= Len(d)
    BY <2>2, <2>3
  <2>5. PICK n \in above : n = CHOOSE x \in above : \A e \in above : Len(e) <= Len(x)
    BY <2>3, <2>4
  <2>6. FindProjectConfig(at.cwd, f.projects) = f.projects[n] /\ n \in DOMAIN f.projects
    BY <1>2, <2>5 DEF FindProjectConfig, above
  <2>7. f.projects[n] \in Layers(f)
    BY <2>6 DEF Layers
  <2> QED
    BY <2>6, <2>7, SetupsAssumption DEF DirsOf
<1> QED
  BY <1>1, <1>2

LEMMA ParsedType ==
  ASSUME NEW a, AddressType(a)
  PROVE  AddressType(ParseListen(a))
<1>1. DOMAIN [a EXCEPT !.ip = AnyIp] = {"ip", "port"} /\ [a EXCEPT !.ip = AnyIp].port = a.port
  BY DEF AddressType
<1> QED
  BY <1>1 DEF AddressType, ParseListen

ConfigType(c) ==
  /\ AddressType(c.listen) /\ c.https \in BOOLEAN
  /\ c.domains \in Seq(Seq(Labels)) /\ c.domains # <<>>
  /\ c.app_port \in Ports \cup {Unset}
  /\ c.range[1] \in Ports /\ c.range[2] \in Ports

LEMMA ResolveType ==
  ASSUME NEW raw, LayerType(raw)
  PROVE  ConfigType(Resolve(raw)) /\ Resolve(raw).state_dir = raw.state_dir
<1> DEFINE c == Resolve(raw)
<1>1. /\ c.listen = ResolveProxyListen(raw) /\ c.https = Or(raw.https, FALSE)
      /\ c.domains = EnsureLocalhost(Or(raw.domains, <<Localhost>>))
      /\ c.app_port = raw.app_port /\ c.state_dir = raw.state_dir
      /\ c.range = <<Or(raw.port_range_start, 20000), Or(raw.port_range_end, 29999)>>
  BY DEF Resolve
<1> HIDE DEF c
<1>2. {80, DefaultPort, 20000, 29999} \subseteq Ports
  BY DEF Ports, Word, DefaultPort
<1>3. AddressType(c.listen)
  <2>1. CASE raw.listen = Unset
    <3>1. PICK ip : ip = IF raw.bind = "?" THEN LocalIp ELSE Or(raw.bind, LocalIp)
      OBVIOUS
    <3>2. PICK port : port = Or(raw.port, DefaultPort)
      OBVIOUS
    <3>3. c.listen = [ip |-> ip, port |-> port]
      BY <1>1, <2>1, <3>1, <3>2 DEF ResolveProxyListen
    <3>4. Or(raw.port, DefaultPort) \in Ports
      BY <1>2 DEF LayerType, Or
    <3> QED
      BY <3>2, <3>3, <3>4 DEF AddressType
  <2>2. CASE raw.listen # Unset /\ ParsesAsListen(raw.listen)
    <3>1. AddressType(raw.listen)
      BY <2>2 DEF LayerType
    <3>2. c.listen = ParseListen(raw.listen)
      BY <1>1, <2>2 DEF ResolveProxyListen
    <3> QED
      BY <3>1, <3>2, ParsedType
  <2>3. CASE raw.listen # Unset /\ ~ParsesAsListen(raw.listen)
    <3>1. c.listen = [ip |-> LocalIp, port |-> DefaultPort]
      BY <1>1, <2>3 DEF ResolveProxyListen
    <3> QED
      BY <1>2, <3>1 DEF AddressType
  <2> QED
    BY <2>1, <2>2, <2>3
<1>4. c.https \in BOOLEAN
  <2>1. PICK h : h = raw.https
    OBVIOUS
  <2>2. h = Unset \/ h \in BOOLEAN
    BY <2>1 DEF LayerType
  <2>3. c.https = Or(h, FALSE)
    BY <1>1, <2>1
  <2>4. Or(h, FALSE) \in BOOLEAN
    BY <2>2, Zenon DEF Or
  <2> QED
    BY <2>3, <2>4
<1>5. c.domains \in Seq(Seq(Labels)) /\ c.domains # <<>>
  <2>1. Localhost \in Seq(Labels)
    BY LabelsAssumption DEF Localhost
  <2>2. <<Localhost>> \in Seq(Seq(Labels)) /\ Len(<<Localhost>>) = 1
    BY <2>1
  <2>3. PICK d : d = Or(raw.domains, <<Localhost>>)
    OBVIOUS
  <2>4. d \in Seq(Seq(Labels))
    BY <2>2, <2>3 DEF Or, LayerType
  <2>5. CASE \E i \in DOMAIN d : d[i] = Localhost
    BY <1>1, <2>3, <2>4, <2>5 DEF EnsureLocalhost
  <2>6. CASE ~ \E i \in DOMAIN d : d[i] = Localhost
    <3>1. <<Localhost>> \o d \in Seq(Seq(Labels)) /\ Len(<<Localhost>> \o d) = 1 + Len(d)
      BY <2>2, <2>4, ConcatProperties
    <3>2. Len(d) \in Nat
      BY <2>4, LenProperties
    <3>3. c.domains = <<Localhost>> \o d
      BY <1>1, <2>3, <2>6 DEF EnsureLocalhost
    <3> QED
      BY <3>1, <3>2, <3>3
  <2> QED
    BY <2>5, <2>6
<1>6. c.range[1] \in Ports /\ c.range[2] \in Ports
  BY <1>1, <1>2 DEF Or, LayerType
<1>7. c.app_port \in Ports \cup {Unset}
  BY <1>1 DEF LayerType
<1>8. ConfigType(c) /\ c.state_dir = raw.state_dir
  <2>1. c.state_dir = raw.state_dir
    BY <1>1
  <2> QED
    BY <1>3, <1>4, <1>5, <1>6, <1>7, <2>1 DEF ConfigType
<1> QED
  BY <1>8 DEF c

\* What every command and daemon loads.
LEMMA LoadedType ==
  ASSUME NEW f \in Setups, NEW at \in f.places
  PROVE  LET config == LoadConfig(f, at.env, at.cwd)
             below  == FileLayers(f, at.cwd)
         IN  /\ ConfigType(config)
             /\ config.state_dir \in DirsOf(f) \cup {Unset}
             /\ config.state_dir = IF at.env.state_dir # Unset THEN at.env.state_dir
                                                               ELSE below.state_dir
<1> DEFINE config == LoadConfig(f, at.env, at.cwd)
           below  == FileLayers(f, at.cwd)
           known  == {"listen", "https", "domains", "state_dir"}
           upper  == [k \in Keys |-> IF k \in known THEN at.env[k] ELSE Unset]
           raw    == Merge(below, upper)
<1>1. f.etc \in Layers(f) /\ f.home \in Layers(f) /\ at.env \in Layers(f)
  BY DEF Layers
<1>2. LayerType(f.etc) /\ LayerType(f.home) /\ LayerType(at.env)
  BY <1>1, SetupsAssumption
<1>3. LayerType(below) /\ below.state_dir \in DirsOf(f) \cup {Unset}
  <2>1. PICK a : a = Merge(f.etc, f.home)
    OBVIOUS
  <2>2. PICK b : b = FindProjectConfig(at.cwd, f.projects)
    OBVIOUS
  <2>3. LayerType(a) /\ a.state_dir \in DirsOf(f) \cup {Unset}
    BY <1>1, <1>2, <2>1, MergeType DEF DirsOf
  <2>4. LayerType(b) /\ b.state_dir \in DirsOf(f) \cup {Unset}
    BY <2>2, ProjectType
  <2> QED
    BY <2>1, <2>2, <2>3, <2>4, MergeType DEF FileLayers
<1> HIDE DEF below
<1>4. LayerType(upper) /\ upper.state_dir = at.env.state_dir
  BY <1>2 DEF LayerType, Keys
<1> HIDE DEF upper
<1>5. LayerType(raw) /\ raw.state_dir = IF at.env.state_dir # Unset THEN at.env.state_dir
                                                                    ELSE below.state_dir
  BY <1>3, <1>4, MergeType
<1>6. config = Resolve(raw)
  BY DEF LoadConfig, WithEnvOverrides, raw, upper, below
<1> HIDE DEF raw, config
<1>7. ConfigType(config) /\ config.state_dir = raw.state_dir
  BY <1>5, <1>6, ResolveType
<1> QED
  BY <1>1, <1>3, <1>5, <1>7 DEF DirsOf, config, below

\* --listen and --https leave the rest as it was.
LEMMA OverridesType ==
  ASSUME NEW f \in Setups, NEW at \in f.places, NEW listen, NEW https \in BOOLEAN,
         listen = Unset \/ AddressType(listen)
  PROVE  LET config == LoadConfig(f, at.env, at.cwd)
             c      == ApplyCliOverrides(config, listen, https)
         IN  /\ ConfigType(c)
             /\ c.state_dir = config.state_dir /\ c.domains = config.domains
             /\ config.https => c.https
<1> DEFINE config == LoadConfig(f, at.env, at.cwd)
           c      == ApplyCliOverrides(config, listen, https)
<1>1. PICK raw : config = Resolve(raw)
  BY DEF LoadConfig
<1>2. ConfigType(config)
  BY LoadedType
<1>3. /\ c.listen = IF listen = Unset THEN config.listen ELSE ParseListen(listen)
      /\ c.https = (config.https \/ https)
      /\ c.domains = config.domains /\ c.app_port = config.app_port
      /\ c.range = config.range /\ c.state_dir = config.state_dir
  BY <1>1 DEF ApplyCliOverrides, Resolve
<1> HIDE DEF c, config
<1>4. AddressType(c.listen)
  BY <1>2, <1>3, ParsedType DEF ConfigType
<1>5. c.https \in BOOLEAN /\ (config.https => c.https)
  BY <1>3
<1>6. ConfigType(c)
  BY <1>2, <1>3, <1>4, <1>5 DEF ConfigType
<1> QED
  BY <1>3, <1>5, <1>6 DEF c, config

-------------------------------------------------------------------------------
(* What one command's step leaves to the others                             *)

LEMMA Initially == Init => LaunchInv
<1> SUFFICES ASSUME Init PROVE LaunchInv
  OBVIOUS
<1> USE DEF Init
<1>1. DOMAIN pc = Procs /\ DOMAIN job = Procs /\ files \in Setups /\ unsettled \in BOOLEAN
  OBVIOUS
<1>2. ASSUME NEW p \in Procs PROVE JobOk(p) /\ ServeOk(p)
  BY DEF JobOk, ServeOk, Phases
<1>3. TableOk /\ BoundOk /\ \A q \in proxies : ProxyOk(q)
  BY DEF TableOk, BoundOk
<1>4. LifecycleOk /\ Settled
  BY DEF LifecycleOk, Settled
<1> QED
  BY <1>1, <1>2, <1>3, <1>4 DEF LaunchInv

\* A command goes to its next place, or is done.
LEMMA Moved ==
  ASSUME LaunchInv, NEW p \in Procs, NEW label, Goto(p, label)
  PROVE  /\ DOMAIN pc' = Procs /\ pc'[p] = label
         /\ \A r \in Procs \ {p} : pc'[r] = pc[r]
BY DEF LaunchInv, Goto

LEMMA Finished ==
  ASSUME LaunchInv, NEW p \in Procs, Finish(p)
  PROVE  /\ DOMAIN pc' = Procs /\ pc'[p] = "idle"
         /\ DOMAIN job' = Procs /\ job'[p] = NoJob
         /\ \A r \in Procs \ {p} : pc'[r] = pc[r] /\ job'[r] = job[r]
BY DEF LaunchInv, Finish, Goto

LEMMA IdleOk ==
  ASSUME NEW p \in Procs, pc'[p] = "idle", job'[p] = NoJob
  PROVE  JobOk(p)' /\ ServeOk(p)'
BY DEF JobOk, ServeOk, Phases

LEMMA OthersOk ==
  ASSUME LaunchInv, NEW p \in Procs, files' = files,
         \A r \in Procs \ {p} : pc'[r] = pc[r] /\ job'[r] = job[r],
         \A b \in bound : b.by # p => b \in bound'
  PROVE  \A r \in Procs \ {p} : JobOk(r)' /\ ServeOk(r)'
<1> SUFFICES ASSUME NEW r \in Procs \ {p} PROVE JobOk(r)' /\ ServeOk(r)'
  OBVIOUS
<1>1. JobOk(r) /\ ServeOk(r) /\ pc'[r] = pc[r] /\ job'[r] = job[r]
  BY DEF LaunchInv
<1>2. JobOk(r)'
  BY <1>1 DEF JobOk, Configured
<1>3. ServeOk(r)'
  <2>1. [port |-> job[r].port, by |-> r].by # p
    OBVIOUS
  <2> QED
    BY <1>1, <2>1 DEF ServeOk
<1> QED
  BY <1>2, <1>3

\* No route is of a command that neither runs nor takes its route away.
LEMMA TableStays ==
  ASSUME LaunchInv, NEW p \in Procs, table' = table,
         pc[p] \notin {"running", "unregister"}, pc'[p] # "running",
         \A r \in Procs \ {p} : pc'[r] = pc[r] /\ job'[r] = job[r]
  PROVE  TableOk'
<1>1. TableOk
  BY DEF LaunchInv
<1>2. ASSUME NEW r \in Procs \ {p} PROVE Entry(r)' = Entry(r)
  BY DEF Entry, Dir
<1>3. ASSUME NEW e \in table
      PROVE  e.by \in Procs /\ (e = Entry(e.by))' /\ pc'[e.by] \in {"running", "unregister"}
  <2>1. e.by \in Procs \ {p} /\ e = Entry(e.by) /\ pc[e.by] \in {"running", "unregister"}
    BY <1>1 DEF TableOk
  <2>2. Entry(e.by)' = Entry(e.by)
    BY <1>2, <2>1
  <2> QED
    BY <2>1, <2>2
<1>4. ASSUME NEW r \in Procs, pc'[r] = "running" PROVE Entry(r)' \in table
  <2>1. r \in Procs \ {p} /\ pc[r] = "running"
    BY <1>4
  <2> QED
    BY <1>1, <1>2, <2>1 DEF TableOk
<1> QED
  BY <1>3, <1>4 DEF TableOk

LEMMA BoundStays ==
  ASSUME LaunchInv, NEW p \in Procs, bound' = bound, pc[p] \notin {"register", "running"},
         \A r \in Procs \ {p} : pc'[r] = pc[r]
  PROVE  BoundOk'
BY DEF LaunchInv, BoundOk

LEMMA ProxiesStay ==
  ASSUME LaunchInv, files' = files, proxies' = proxies, lifecycle' = lifecycle, unsettled' = unsettled
  PROVE  /\ files' \in Setups /\ unsettled' \in BOOLEAN
         /\ \A q \in proxies' : ProxyOk(q)'
         /\ LifecycleOk' /\ (~unsettled => Settled)'
<1>1. \A q \in proxies' : ProxyOk(q)'
  BY DEF LaunchInv, ProxyOk, Configured
<1>2. LifecycleOk'
  BY DEF LaunchInv, LifecycleOk
<1>3. (~unsettled => Settled)'
  BY DEF LaunchInv, Settled
<1> QED
  BY <1>1, <1>2, <1>3 DEF LaunchInv

-------------------------------------------------------------------------------
(* Steps of a command that leave the proxies alone                          *)

\* One of the commands has changed its place and its job, and nothing else.
LEMMA JobChanges ==
  ASSUME LaunchInv, NEW p \in Procs, UNCHANGED <<files, proxies, lifecycle, unsettled, table, bound>>,
         DOMAIN pc' = Procs, DOMAIN job' = Procs,
         \A r \in Procs \ {p} : pc'[r] = pc[r] /\ job'[r] = job[r],
         pc[p] \notin {"register", "running", "unregister"}, pc'[p] # "running",
         JobOk(p)', ServeOk(p)'
  PROVE  LaunchInv'
<1>1. \A r \in Procs : JobOk(r)' /\ ServeOk(r)'
  BY OthersOk
<1>2. TableOk'
  BY TableStays
<1>3. BoundOk'
  BY BoundStays
<1>4. /\ files' \in Setups /\ unsettled' \in BOOLEAN
      /\ \A q \in proxies' : ProxyOk(q)'
      /\ LifecycleOk' /\ (~unsettled => Settled)'
  BY ProxiesStay
<1> QED
  BY <1>1, <1>2, <1>3, <1>4 DEF LaunchInv

LEMMA NewJobType ==
  ASSUME NEW op, NEW at, NEW host, NEW config
  PROVE  LET j == NewJob(op, at, host, config)
         IN  /\ DOMAIN j = JobKeys
             /\ j.op = op /\ j.at = at /\ j.host = host /\ j.config = config
             /\ op # None => j # NoJob
BY DEF NewJob, JobKeys, NoJob

LEMMA BeginStartStep ==
  ASSUME LaunchInv, NEW p \in Procs, NEW at \in files.places, NEW flags \in files.flags,
         BeginStart(p, at, flags)
  PROVE  LaunchInv'
<1> DEFINE config == ApplyCliOverrides(Configured(at), flags.listen, flags.https)
           j == NewJob("start", at, NotAHostname, config)
<1>1. /\ pc[p] = "idle" /\ job' = [job EXCEPT ![p] = j] /\ Goto(p, "ensure")
      /\ UNCHANGED <<files, proxies, lifecycle, unsettled, table, bound>>
  BY DEF BeginStart
<1>2. /\ DOMAIN j = JobKeys /\ j.op = "start" /\ j.at = at /\ j.config = config /\ j # NoJob
  BY NewJobType, MarksAssumption DEF Ops
<1> HIDE DEF j
<1>3. /\ DOMAIN pc' = Procs /\ DOMAIN job' = Procs /\ pc'[p] = "ensure" /\ job'[p] = j
      /\ \A r \in Procs \ {p} : pc'[r] = pc[r] /\ job'[r] = job[r]
  BY <1>1, Moved DEF LaunchInv
<1>4. JobOk(p)'
  <2>1. config = ApplyCliOverrides(Configured(at)', flags.listen, flags.https)
    BY <1>1 DEF Configured
  <2> HIDE DEF config
  <2> QED
    BY <1>1, <1>2, <1>3, <2>1 DEF JobOk, Phases, Ops
<1>5. ServeOk(p)'
  BY <1>2, <1>3 DEF ServeOk
<1> QED
  BY <1>1, <1>3, <1>4, <1>5, JobChanges

LEMMA BeginAppStep ==
  ASSUME LaunchInv, NEW p \in Procs, NEW at \in files.places, NEW op \in {"run", "serve"},
         NEW name \in files.names, BeginApp(p, op, at, name)
  PROVE  LaunchInv'
<1> DEFINE config == Configured(at)
           host == ParseHostname(name, config.domains)
           j == NewJob(op, at, host, config)
<1>1. /\ pc[p] = "idle" /\ host # NotAHostname
      /\ job' = [job EXCEPT ![p] = j] /\ Goto(p, "ensure")
      /\ UNCHANGED <<files, proxies, lifecycle, unsettled, table, bound>>
  BY DEF BeginApp
<1>2. /\ DOMAIN j = JobKeys /\ j.op = op /\ j.at = at /\ j.host = host /\ j.config = config
      /\ j # NoJob
  BY NewJobType, MarksAssumption DEF Ops
<1> HIDE DEF j
<1>3. /\ DOMAIN pc' = Procs /\ DOMAIN job' = Procs /\ pc'[p] = "ensure" /\ job'[p] = j
      /\ \A r \in Procs \ {p} : pc'[r] = pc[r] /\ job'[r] = job[r]
  BY <1>1, Moved DEF LaunchInv
<1>4. JobOk(p)'
  <2>1. config = Configured(at)'
    BY <1>1 DEF Configured
  <2> HIDE DEF config
  <2> QED
    BY <1>1, <1>2, <1>3, <2>1 DEF JobOk, Phases, Ops
<1>5. ServeOk(p)'
  BY <1>2, <1>3 DEF ServeOk
<1> QED
  BY <1>1, <1>3, <1>4, <1>5, JobChanges

LEMMA GivesUp ==
  ASSUME LaunchInv, NEW p \in Procs, Finish(p),
         UNCHANGED <<files, proxies, lifecycle, unsettled, table, bound>>,
         pc[p] \notin {"register", "running", "unregister"}
  PROVE  LaunchInv'
<1>1. /\ DOMAIN pc' = Procs /\ pc'[p] = "idle"
      /\ DOMAIN job' = Procs /\ job'[p] = NoJob
      /\ \A r \in Procs \ {p} : pc'[r] = pc[r] /\ job'[r] = job[r]
  BY Finished
<1>2. JobOk(p)' /\ ServeOk(p)'
  BY <1>1, IdleOk
<1> QED
  BY <1>1, <1>2, JobChanges

\* What ensure_proxy_running leads to.
LEMMA ToFind ==
  ASSUME LaunchInv, NEW p \in Procs, files' = files, pc[p] = "ensure", job[p].op # "start",
         Goto(p, "find"), job' = job
  PROVE  JobOk(p)' /\ ServeOk(p)'
<1>1. pc'[p] = "find" /\ job'[p] = job[p]
  BY Moved
<1>2. JobOk(p)
  BY DEF LaunchInv
<1>3. JobOk(p)'
  BY <1>1, <1>2 DEF JobOk, Phases, Configured
<1>4. ServeOk(p)'
  BY <1>1 DEF ServeOk
<1> QED
  BY <1>3, <1>4

LEMMA ProxyFoundStep == ASSUME LaunchInv, NEW p \in Procs, ProxyFound(p) PROVE LaunchInv'
<1>1. pc[p] = "ensure" /\ UNCHANGED <<files, proxies, lifecycle, unsettled, table, bound>>
  BY DEF ProxyFound
<1>2. CASE job[p].op = "start"
  BY <1>1, <1>2, GivesUp DEF ProxyFound
<1>3. CASE job[p].op # "start"
  <2>1. Goto(p, "find") /\ job' = job
    BY <1>3 DEF ProxyFound
  <2>2. /\ DOMAIN pc' = Procs /\ pc'[p] = "find"
        /\ \A r \in Procs \ {p} : pc'[r] = pc[r]
    BY <2>1, Moved
  <2>3. DOMAIN job' = Procs /\ \A r \in Procs \ {p} : job'[r] = job[r]
    BY <2>1 DEF LaunchInv
  <2>4. JobOk(p)' /\ ServeOk(p)'
    BY <1>1, <1>3, <2>1, ToFind
  <2> QED
    BY <1>1, <2>2, <2>3, <2>4, JobChanges
<1> QED
  BY <1>2, <1>3

LEMMA ProxyFailsStep == ASSUME LaunchInv, NEW p \in Procs, ProxyFailsToStart(p) PROVE LaunchInv'
BY GivesUp DEF ProxyFailsToStart

-------------------------------------------------------------------------------
(* Ports                                                                    *)

LEMMA PortBounds == Word \in Nat /\ Word > 0 /\ \A n : n \in Ports <=> n \in Nat /\ n < Word
<1>1. Word \in Nat /\ Word > 0
  BY DEF Word
<1>2. \A n : n \in 0..(Word - 1) <=> n \in Nat /\ n < Word
  BY <1>1
<1> QED
  BY <1>1, <1>2 DEF Ports

LEMMA InTheWord ==
  ASSUME NEW x \in Int, NEW w \in Nat, w > 0
  PROVE  /\ x % w \in Nat /\ x % w < w
         /\ 0 <= x /\ x < w => x % w = x /\ (x + w) % w = x
         /\ (w + w) % w = 0
OBVIOUS

\* Whatever the ends of a range are.
LEMMA PortsOfType ==
  ASSUME NEW range, range[1] \in Ports, range[2] \in Ports
  PROVE  PortsOf(range) \subseteq Ports
<1> DEFINE span == ((range[2] - range[1] + 1) + Word) % Word
<1>1. PICK a \in Ports : a = range[1]
  OBVIOUS
<1>2. a \in Int /\ span \in Int
  BY PortBounds, InTheWord
<1>3. \A n \in 0..(span - 1) : (a + n) % Word \in Ports
  BY <1>2, PortBounds, InTheWord
<1> QED
  BY <1>1, <1>3 DEF PortsOf

\* A range that does not wrap.
LEMMA PortsOfRange ==
  ASSUME NEW range, range[1] \in Ports, range[2] \in Ports, range[1] <= range[2]
  PROVE  PortsOf(range) \subseteq range[1]..range[2]
<1> DEFINE length == range[2] - range[1] + 1
           span == (length + Word) % Word
<1>1. PICK a \in Ports : a = range[1]
  OBVIOUS
<1>2. PICK b \in Ports : b = range[2]
  OBVIOUS
<1>3. /\ a \in Nat /\ b \in Nat /\ a <= b /\ b < Word /\ Word \in Nat
      /\ length = b - a + 1
  BY <1>1, <1>2, PortBounds
<1>4. length \in Int /\ 0 <= length /\ length <= Word
  BY <1>3
<1> HIDE DEF length
<1>5. span \in Nat /\ span <= length
  <2>1. CASE length = Word
    BY <1>3, <1>4, <2>1, InTheWord, PortBounds
  <2>2. CASE length # Word
    BY <1>3, <1>4, <2>2, InTheWord, PortBounds
  <2> QED
    BY <2>1, <2>2
<1> HIDE DEF span
<1>6. ASSUME NEW n \in 0..(span - 1) PROVE (a + n) % Word \in a..b
  <2>1. a + n \in Nat /\ a + n <= b /\ a <= a + n
    BY <1>3, <1>5
  <2>2. (a + n) % Word = a + n
    BY <1>3, <2>1, InTheWord, PortBounds
  <2> QED
    BY <1>3, <2>1, <2>2
<1> QED
  BY <1>1, <1>2, <1>6 DEF PortsOf, span, length

\* Of a command that is going.
LEMMA JobConfig ==
  ASSUME LaunchInv, NEW p \in Procs, pc[p] # "idle"
  PROVE  ConfigType(job[p].config)
<1>1. JobOk(p) /\ files \in Setups
  BY DEF LaunchInv
<1>2. job[p].at \in files.places
  BY <1>1 DEF JobOk
<1>3. CASE job[p].op = "start"
  <2>1. PICK flags \in files.flags :
          job[p].config = ApplyCliOverrides(Configured(job[p].at), flags.listen, flags.https)
    BY <1>1, <1>3 DEF JobOk
  <2>2. (flags.listen = Unset \/ AddressType(flags.listen)) /\ flags.https \in BOOLEAN
    BY <1>1, SetupsAssumption
  <2> QED
    BY <1>1, <1>2, <2>1, <2>2, OverridesType DEF Configured
<1>4. CASE job[p].op # "start"
  <2>1. job[p].config = Configured(job[p].at)
    BY <1>1, <1>4 DEF JobOk
  <2> QED
    BY <1>1, <1>2, <2>1, LoadedType DEF Configured
<1> QED
  BY <1>3, <1>4

LEMMA FindFreePortStep == ASSUME LaunchInv, NEW p \in Procs, FindFreePort(p) PROVE LaunchInv'
<1> DEFINE config == job[p].config
           pinned == job[p].op = "run" /\ config.app_port # Unset
           found  == IF pinned THEN {config.app_port} ELSE {n \in PortsOf(config.range) : Free(n)}
           next   == IF job[p].op = "run" THEN "spawn" ELSE "bind"
<1>1. pc[p] = "find" /\ UNCHANGED <<files, proxies, lifecycle, unsettled, table, bound>>
  BY DEF FindFreePort
<1>2. CASE found = {} /\ Finish(p)
  BY <1>1, <1>2, GivesUp
<1>3. ASSUME NEW port \in found, job' = [job EXCEPT ![p] = [@ EXCEPT !.port = port]],
             Goto(p, next)
      PROVE  LaunchInv'
  <2>1. JobOk(p) /\ DOMAIN job = Procs
    BY DEF LaunchInv
  <2>2. DOMAIN job[p] = JobKeys /\ job[p].op \in {"run", "serve"}
    BY <1>1, <2>1 DEF JobOk, Ops
  <2>3. job' = [job EXCEPT ![p] = [job[p] EXCEPT !.port = port]]
    BY <1>3
  <2>4. PICK j : j = [job[p] EXCEPT !.port = port]
    OBVIOUS
  <2>5. /\ DOMAIN j = JobKeys /\ j.op = job[p].op /\ j.at = job[p].at /\ j.host = job[p].host
        /\ j.config = job[p].config /\ j.port = port
    BY <2>2, <2>4 DEF JobKeys
  <2>6. j # NoJob
    BY <2>5 DEF NoJob, JobKeys
  <2>7. DOMAIN job' = Procs /\ job'[p] = j /\ \A r \in Procs \ {p} : job'[r] = job[r]
    BY <2>1, <2>3, <2>4
  <2>8. DOMAIN pc' = Procs /\ pc'[p] = next /\ \A r \in Procs \ {p} : pc'[r] = pc[r]
    BY <1>3, Moved
  <2>9. port \in Ports /\ (job[p].op = "serve" => port \in PortsOf(config.range))
    <3>1. ConfigType(config)
      BY <1>1, JobConfig
    <3>2. CASE pinned
      BY <3>1, <3>2 DEF ConfigType
    <3>3. CASE ~pinned
      <4>1. port \in PortsOf(config.range)
        BY <3>3
      <4> QED
        BY <3>1, <4>1, PortsOfType DEF ConfigType
    <3> QED
      BY <3>2, <3>3
  <2>10. JobOk(p)'
    BY <1>1, <2>1, <2>2, <2>5, <2>6, <2>7, <2>8, <2>9 DEF JobOk, Phases, Configured
  <2>11. ServeOk(p)'
    BY <2>2, <2>5, <2>7, <2>8, <2>9 DEF ServeOk
  <2> QED
    BY <1>1, <2>7, <2>8, <2>10, <2>11, JobChanges
<1> QED
  BY <1>2, <1>3 DEF FindFreePort

LEMMA SpawnStep == ASSUME LaunchInv, NEW p \in Procs, NEW cmd, Spawn(p, cmd) PROVE LaunchInv'
<1>1. /\ pc[p] = "spawn" /\ Goto(p, "register")
      /\ UNCHANGED <<files, proxies, lifecycle, unsettled, table, bound>>
  BY DEF Spawn
<1>2. PICK plain, listens :
        job' = [job EXCEPT ![p] = [@ EXCEPT !.plain = plain, !.listens = listens]]
  BY DEF Spawn
<1>3. JobOk(p) /\ DOMAIN job = Procs
  BY DEF LaunchInv
<1>4. DOMAIN job[p] = JobKeys /\ job[p].op = "run" /\ job[p] # NoJob
  BY <1>1, <1>3 DEF JobOk
<1>5. PICK j : j = [job[p] EXCEPT !.plain = plain, !.listens = listens]
  OBVIOUS
<1>6. /\ DOMAIN j = JobKeys /\ j.op = job[p].op /\ j.at = job[p].at /\ j.host = job[p].host
      /\ j.config = job[p].config /\ j.port = job[p].port
  BY <1>4, <1>5 DEF JobKeys
<1>7. j # NoJob
  BY <1>6 DEF NoJob, JobKeys
<1>8. DOMAIN job' = Procs /\ job'[p] = j /\ \A r \in Procs \ {p} : job'[r] = job[r]
  BY <1>2, <1>3, <1>5
<1>9. DOMAIN pc' = Procs /\ pc'[p] = "register" /\ \A r \in Procs \ {p} : pc'[r] = pc[r]
  BY <1>1, Moved
<1>10. JobOk(p)'
  BY <1>1, <1>3, <1>4, <1>6, <1>7, <1>8, <1>9 DEF JobOk, Phases, Configured
<1>11. ServeOk(p)'
  BY <1>4, <1>6, <1>8 DEF ServeOk
<1> QED
  BY <1>1, <1>8, <1>9, <1>10, <1>11, JobChanges

\* A command goes on with its job.
LEMMA SameJobOk ==
  ASSUME LaunchInv, NEW p \in Procs, files' = files, job' = job,
         pc[p] \notin {"idle", "ensure", "find"},
         pc'[p] \in {"register", "running", "unregister"}
  PROVE  JobOk(p)'
<1>1. JobOk(p)
  BY DEF LaunchInv
<1>2. pc[p] \in {"spawn", "bind", "register", "running", "unregister"}
  BY <1>1 DEF JobOk, Phases
<1> QED
  BY <1>1, <1>2 DEF JobOk, Phases, Configured

LEMMA BindListenerStep == ASSUME LaunchInv, NEW p \in Procs, BindListener(p) PROVE LaunchInv'
<1> DEFINE port == job[p].port
           b == [port |-> port, by |-> p]
<1>1. pc[p] = "bind" /\ UNCHANGED <<files, proxies, lifecycle, unsettled, table>>
  BY DEF BindListener
<1>2. CASE Finish(p) /\ bound' = bound
  BY <1>1, <1>2, GivesUp
<1>3. CASE Free(port) /\ bound' = bound \cup {b} /\ Goto(p, "register") /\ job' = job
  <2>1. /\ DOMAIN pc' = Procs /\ pc'[p] = "register"
        /\ \A r \in Procs \ {p} : pc'[r] = pc[r] /\ job'[r] = job[r]
    BY <1>3, Moved
  <2>2. JobOk(p)'
    BY <1>1, <1>3, <2>1, SameJobOk
  <2>3. ServeOk(p)'
    BY <1>1, <1>3, <2>1 DEF LaunchInv, ServeOk
  <2>4. \A r \in Procs : JobOk(r)' /\ ServeOk(r)'
    BY <1>1, <1>3, <2>1, <2>2, <2>3, OthersOk
  <2>5. TableOk'
    BY <1>1, <2>1, TableStays
  <2>6. BoundOk'
    <3>1. \A a \in bound : a.by \in Procs \ {p} /\ pc[a.by] \in {"register", "running"}
      BY <1>1 DEF LaunchInv, BoundOk
    <3>2. \A a \in bound : a.port # port
      BY <1>3 DEF Free
    <3>3. b.port = port /\ b.by = p
      OBVIOUS
    <3> HIDE DEF b
    <3> QED
      BY <1>3, <2>1, <3>1, <3>2, <3>3 DEF LaunchInv, BoundOk
  <2>7. /\ files' \in Setups /\ unsettled' \in BOOLEAN
        /\ \A q \in proxies' : ProxyOk(q)'
        /\ LifecycleOk' /\ (~unsettled => Settled)'
    BY <1>1, ProxiesStay
  <2>8. DOMAIN pc' = Procs /\ DOMAIN job' = Procs
    BY <1>3, <2>1 DEF LaunchInv
  <2> QED
    BY <2>4, <2>5, <2>6, <2>7, <2>8 DEF LaunchInv
<1> QED
  BY <1>2, <1>3 DEF BindListener

LEMMA LetGoOk ==
  ASSUME LaunchInv, NEW p \in Procs, LetGo(p),
         \A r \in Procs \ {p} : pc'[r] = pc[r]
  PROVE  BoundOk' /\ \A b \in bound : b.by # p => b \in bound'
BY DEF LaunchInv, BoundOk, LetGo

LEMMA RegisterStep == ASSUME LaunchInv, NEW p \in Procs, Register(p) PROVE LaunchInv'
<1>1. pc[p] = "register" /\ UNCHANGED <<files, proxies, lifecycle, unsettled>>
  BY DEF Register
<1>2. /\ files' \in Setups /\ unsettled' \in BOOLEAN
      /\ \A q \in proxies' : ProxyOk(q)'
      /\ LifecycleOk' /\ (~unsettled => Settled)'
  BY <1>1, ProxiesStay
<1>3. CASE table' = table \cup {Entry(p)} /\ Goto(p, "running") /\ bound' = bound /\ job' = job
  <2>1. /\ DOMAIN pc' = Procs /\ pc'[p] = "running" /\ DOMAIN job' = Procs
        /\ \A r \in Procs \ {p} : pc'[r] = pc[r] /\ job'[r] = job[r]
    BY <1>3, Moved DEF LaunchInv
  <2>2. JobOk(p)'
    BY <1>1, <1>3, <2>1, SameJobOk
  <2>3. ServeOk(p)'
    BY <1>1, <1>3, <2>1 DEF LaunchInv, ServeOk
  <2>4. \A r \in Procs : JobOk(r)' /\ ServeOk(r)'
    BY <1>1, <1>3, <2>1, <2>2, <2>3, OthersOk
  <2>5. \A r \in Procs : Entry(r)' = Entry(r) /\ Entry(r).by = r
    BY <1>3 DEF Entry, Dir
  <2>6. TableOk'
    <3>1. TableOk
      BY DEF LaunchInv
    <3>2. ASSUME NEW e \in table'
          PROVE  e.by \in Procs /\ (e = Entry(e.by))' /\ pc'[e.by] \in {"running", "unregister"}
      <4>1. CASE e \in table
        BY <1>1, <2>1, <2>5, <3>1, <4>1 DEF TableOk
      <4>2. CASE e = Entry(p)
        BY <2>1, <2>5, <4>2
      <4> QED
        BY <1>3, <4>1, <4>2
    <3>3. ASSUME NEW r \in Procs, pc'[r] = "running" PROVE Entry(r)' \in table'
      BY <1>3, <2>1, <2>5, <3>1, <3>3 DEF TableOk
    <3> QED
      BY <3>2, <3>3 DEF TableOk
  <2>7. BoundOk'
    <3>1. \A r \in Procs : pc[r] \in {"register", "running"} => pc'[r] \in {"register", "running"}
      BY <2>1
    <3> QED
      BY <1>3, <3>1 DEF LaunchInv, BoundOk
  <2> QED
    BY <1>2, <2>1, <2>4, <2>6, <2>7 DEF LaunchInv
<1>4. CASE Finish(p) /\ LetGo(p) /\ table' = table
  <2>1. /\ DOMAIN pc' = Procs /\ pc'[p] = "idle" /\ DOMAIN job' = Procs /\ job'[p] = NoJob
        /\ \A r \in Procs \ {p} : pc'[r] = pc[r] /\ job'[r] = job[r]
    BY <1>4, Finished
  <2>2. BoundOk' /\ \A b \in bound : b.by # p => b \in bound'
    BY <1>4, <2>1, LetGoOk
  <2>3. \A r \in Procs : JobOk(r)' /\ ServeOk(r)'
    BY <1>1, <2>1, <2>2, OthersOk, IdleOk
  <2>4. TableOk'
    BY <1>1, <1>4, <2>1, TableStays
  <2> QED
    BY <1>2, <2>1, <2>2, <2>3, <2>4 DEF LaunchInv
<1> QED
  BY <1>3, <1>4 DEF Register

LEMMA ChildBindsStep == ASSUME LaunchInv, NEW p \in Procs, ChildBinds(p) PROVE LaunchInv'
<1> DEFINE b == [port |-> job[p].port, by |-> p]
<1>1. /\ pc[p] = "running" /\ Free(job[p].port) /\ bound' = bound \cup {b}
      /\ UNCHANGED <<files, proxies, lifecycle, unsettled, table, pc, job>>
  BY DEF ChildBinds
<1>2. ASSUME NEW r \in Procs PROVE JobOk(r)' /\ ServeOk(r)'
  <2>1. JobOk(r) /\ ServeOk(r)
    BY DEF LaunchInv
  <2> QED
    BY <1>1, <2>1 DEF JobOk, ServeOk, Configured
<1>3. TableOk'
  <2>1. TableOk /\ \A r \in Procs : Entry(r)' = Entry(r)
    BY <1>1 DEF LaunchInv, Entry, Dir
  <2> QED
    BY <1>1, <2>1 DEF TableOk
<1>4. BoundOk'
  <2>1. \A a \in bound : a.port # job[p].port
    BY <1>1 DEF Free
  <2>2. b.port = job[p].port /\ b.by = p
    OBVIOUS
  <2> HIDE DEF b
  <2> QED
    BY <1>1, <2>1, <2>2 DEF LaunchInv, BoundOk
<1>5. /\ files' \in Setups /\ unsettled' \in BOOLEAN
      /\ \A q \in proxies' : ProxyOk(q)'
      /\ LifecycleOk' /\ (~unsettled => Settled)'
  BY <1>1, ProxiesStay
<1>6. DOMAIN pc' = Procs /\ DOMAIN job' = Procs
  BY <1>1 DEF LaunchInv
<1> QED
  BY <1>2, <1>3, <1>4, <1>5, <1>6 DEF LaunchInv

LEMMA EndsStep == ASSUME LaunchInv, NEW p \in Procs, Ends(p) PROVE LaunchInv'
<1>1. /\ pc[p] = "running" /\ LetGo(p) /\ Goto(p, "unregister")
      /\ UNCHANGED <<files, proxies, lifecycle, unsettled, table, job>>
  BY DEF Ends
<1>2. /\ DOMAIN pc' = Procs /\ pc'[p] = "unregister" /\ DOMAIN job' = Procs
      /\ \A r \in Procs \ {p} : pc'[r] = pc[r] /\ job'[r] = job[r]
  BY <1>1, Moved DEF LaunchInv
<1>3. BoundOk' /\ \A b \in bound : b.by # p => b \in bound'
  BY <1>1, <1>2, LetGoOk
<1>4. JobOk(p)'
  BY <1>1, <1>2, SameJobOk
<1>5. ServeOk(p)'
  BY <1>2 DEF ServeOk
<1>6. \A r \in Procs : JobOk(r)' /\ ServeOk(r)'
  BY <1>1, <1>2, <1>3, <1>4, <1>5, OthersOk
<1>7. TableOk'
  <2>1. TableOk /\ \A r \in Procs : Entry(r)' = Entry(r)
    BY <1>1 DEF LaunchInv, Entry, Dir
  <2> QED
    BY <1>1, <1>2, <2>1 DEF TableOk
<1>8. /\ files' \in Setups /\ unsettled' \in BOOLEAN
      /\ \A q \in proxies' : ProxyOk(q)'
      /\ LifecycleOk' /\ (~unsettled => Settled)'
  BY <1>1, ProxiesStay
<1> QED
  BY <1>2, <1>3, <1>6, <1>7, <1>8 DEF LaunchInv

LEMMA UnregisterStep == ASSUME LaunchInv, NEW p \in Procs, Unregister(p) PROVE LaunchInv'
<1>1. /\ pc[p] = "unregister" /\ table' = {e \in table : e.by # p} /\ Finish(p)
      /\ UNCHANGED <<files, proxies, lifecycle, unsettled, bound>>
  BY DEF Unregister
<1>2. /\ DOMAIN pc' = Procs /\ pc'[p] = "idle" /\ DOMAIN job' = Procs /\ job'[p] = NoJob
      /\ \A r \in Procs \ {p} : pc'[r] = pc[r] /\ job'[r] = job[r]
  BY <1>1, Finished
<1>3. \A r \in Procs : JobOk(r)' /\ ServeOk(r)'
  BY <1>1, <1>2, OthersOk, IdleOk
<1>4. BoundOk'
  BY <1>1, <1>2, BoundStays
<1>5. TableOk'
  <2>1. TableOk /\ \A r \in Procs : Entry(r).by = r
    BY DEF LaunchInv, Entry
  <2>2. \A r \in Procs \ {p} : Entry(r)' = Entry(r)
    BY <1>2 DEF Entry, Dir
  <2> QED
    BY <1>1, <1>2, <2>1, <2>2 DEF TableOk
<1>6. /\ files' \in Setups /\ unsettled' \in BOOLEAN
      /\ \A q \in proxies' : ProxyOk(q)'
      /\ LifecycleOk' /\ (~unsettled => Settled)'
  BY <1>1, ProxiesStay
<1> QED
  BY <1>2, <1>3, <1>4, <1>5, <1>6 DEF LaunchInv

-------------------------------------------------------------------------------
(* Steps of a proxy                                                         *)

\* The commands, their routes and their ports while proxies come and go.
LEMMA CommandsStay ==
  ASSUME LaunchInv, UNCHANGED <<files, table, bound, pc, job>>
  PROVE  /\ files' \in Setups /\ DOMAIN pc' = Procs /\ DOMAIN job' = Procs
         /\ \A r \in Procs : JobOk(r)' /\ ServeOk(r)'
         /\ TableOk' /\ BoundOk'
<1>1. ASSUME NEW r \in Procs PROVE JobOk(r)' /\ ServeOk(r)'
  <2>1. JobOk(r) /\ ServeOk(r)
    BY DEF LaunchInv
  <2> QED
    BY <2>1 DEF JobOk, ServeOk, Configured
<1>2. TableOk'
  <2>1. TableOk /\ \A r \in Procs : Entry(r)' = Entry(r)
    BY DEF LaunchInv, Entry, Dir
  <2> QED
    BY <2>1 DEF TableOk
<1>3. BoundOk'
  BY DEF LaunchInv, BoundOk
<1> QED
  BY <1>1, <1>2, <1>3 DEF LaunchInv

\* A proxy's directory is one of those there are.
LEMMA DirType ==
  ASSUME LaunchInv, NEW q, ProxyOk(q)
  PROVE  q.dir \in Dirs
<1>1. PICK dir : dir = Configured(q.at).state_dir
  OBVIOUS
<1>2. dir \in DirsOf(files) \cup {Unset}
  BY <1>1, LoadedType DEF LaunchInv, ProxyOk, Configured
<1>3. q.dir = Or(dir, DefaultStateDir(q.listen.port))
  BY <1>1 DEF ProxyOk
<1>4. {UserDir, PrivilegedDir} \subseteq Dirs
  BY MarksAssumption DEF Dirs
<1>5. CASE dir = Unset
  BY <1>3, <1>4, <1>5 DEF Or, DefaultStateDir
<1>6. CASE dir # Unset
  BY <1>2, <1>3, <1>6 DEF Or, Dirs, LaunchInv
<1> QED
  BY <1>5, <1>6

LEMMA ProxyStopsStep == ASSUME LaunchInv, NEW q \in proxies, ProxyStops(q) PROVE LaunchInv'
<1>1. /\ proxies' = proxies \ {q} /\ lifecycle' = [lifecycle EXCEPT ![q.dir] = None]
      /\ UNCHANGED <<files, unsettled, table, bound, pc, job>>
  BY DEF ProxyStops
<1>2. \A r \in proxies' : ProxyOk(r)'
  BY <1>1 DEF LaunchInv, ProxyOk, Configured
<1>3. q.dir \in Dirs
  BY DirType DEF LaunchInv
<1>4. LifecycleOk'
  BY <1>1, <1>3 DEF LaunchInv, LifecycleOk
<1>5. \A d \in Dirs : lifecycle'[d] = IF d = q.dir THEN None ELSE lifecycle[d]
  BY <1>1 DEF LaunchInv, LifecycleOk
<1>6. ASSUME ~unsettled PROVE Settled'
  <2>1. Settled
    BY <1>6 DEF LaunchInv
  <2>2. \A r \in proxies' : r.dir \in Dirs /\ r.dir # q.dir
    BY <1>1, <2>1, DirType DEF LaunchInv, Settled
  <2>3. \A r \in proxies' : lifecycle'[r.dir] = FilesOf(r)
    BY <1>1, <1>5, <2>1, <2>2 DEF Settled
  <2>4. ASSUME NEW d \in Dirs, lifecycle'[d] # None, lifecycle'[d].pid # None
        PROVE  \E r \in proxies' : r.dir = d /\ r.pid = lifecycle'[d].pid
    BY <1>1, <1>5, <2>1, <2>4 DEF Settled
  <2> QED
    BY <1>1, <2>1, <2>3, <2>4 DEF Settled
<1> QED
  BY <1>1, <1>2, <1>4, <1>6, CommandsStay DEF LaunchInv

LEMMA StaleRemovedStep ==
  ASSUME LaunchInv, NEW user \in Users, NEW d \in Dirs, StaleRemoved(user, d)
  PROVE  LaunchInv'
<1>1. /\ lifecycle' = [lifecycle EXCEPT ![d] = None]
      /\ unsettled' = (unsettled \/ \E q \in proxies : q.dir = d)
      /\ UNCHANGED <<files, proxies, table, bound, pc, job>>
  BY DEF StaleRemoved
<1>2. \A r \in proxies' : ProxyOk(r)'
  BY <1>1 DEF LaunchInv, ProxyOk, Configured
<1>3. LifecycleOk' /\ unsettled' \in BOOLEAN
  BY <1>1 DEF LaunchInv, LifecycleOk
<1>4. \A c \in Dirs : lifecycle'[c] = IF c = d THEN None ELSE lifecycle[c]
  BY <1>1 DEF LaunchInv, LifecycleOk
<1>5. ASSUME ~unsettled' PROVE Settled'
  <2>1. Settled /\ \A q \in proxies : q.dir \in Dirs /\ q.dir # d
    BY <1>1, <1>5, DirType DEF LaunchInv
  <2>2. \A q \in proxies' : lifecycle'[q.dir] = FilesOf(q)
    BY <1>1, <1>4, <2>1 DEF Settled
  <2>3. ASSUME NEW c \in Dirs, lifecycle'[c] # None, lifecycle'[c].pid # None
        PROVE  \E q \in proxies' : q.dir = c /\ q.pid = lifecycle'[c].pid
    BY <1>1, <1>4, <2>1, <2>3 DEF Settled
  <2> QED
    BY <1>1, <2>1, <2>2, <2>3 DEF Settled
<1> QED
  BY <1>1, <1>2, <1>3, <1>5, CommandsStay DEF LaunchInv

LEMMA ProxyDiesStep == ASSUME LaunchInv, NEW q \in proxies, ProxyDies(q) PROVE LaunchInv'
<1> DEFINE Of(d) == lifecycle[d] # None /\ lifecycle[d].pid = q.pid
<1>1. /\ proxies' = proxies \ {q}
      /\ lifecycle' = [d \in Dirs |-> IF Of(d) THEN [lifecycle[d] EXCEPT !.pid = None] ELSE lifecycle[d]]
      /\ UNCHANGED <<files, unsettled, table, bound, pc, job>>
  BY DEF ProxyDies
<1>2. \A r \in proxies' : ProxyOk(r)'
  BY <1>1 DEF LaunchInv, ProxyOk, Configured
<1>3. ASSUME NEW d \in Dirs, Of(d)
      PROVE  /\ lifecycle'[d] = [lifecycle[d] EXCEPT !.pid = None]
             /\ lifecycle'[d] \in LifecycleFiles /\ lifecycle'[d].pid = None
  <2>1. lifecycle[d] \in LifecycleFiles
    BY <1>3 DEF LaunchInv, LifecycleOk
  <2>2. lifecycle'[d] = [lifecycle[d] EXCEPT !.pid = None]
    BY <1>1, <1>3
  <2> QED
    BY <2>1, <2>2 DEF LifecycleFiles
<1>4. \A d \in Dirs : ~Of(d) => lifecycle'[d] = lifecycle[d]
  BY <1>1
<1>5. LifecycleOk'
  <2>1. \A d \in Dirs : lifecycle'[d] \in LifecycleFiles \cup {None}
    BY <1>3, <1>4 DEF LaunchInv, LifecycleOk
  <2>2. lifecycle' \in [Dirs -> LifecycleFiles \cup {None}]
    BY <1>1, <2>1
  <2> QED
    BY <1>1, <2>2 DEF LaunchInv, LifecycleOk
<1>6. ASSUME ~unsettled PROVE Settled'
  <2>1. Settled
    BY <1>6 DEF LaunchInv
  <2>2. ASSUME NEW r \in proxies' PROVE r \in proxies /\ r.dir \in Dirs /\ ~Of(r.dir)
    <3>1. r \in proxies /\ r # q /\ r.dir \in Dirs
      BY <1>1, DirType DEF LaunchInv
    <3>2. r.pid # q.pid
      BY <3>1 DEF LaunchInv, LifecycleOk
    <3>3. lifecycle[r.dir].pid = r.pid
      <4>1. FilesOf(r).pid = r.pid
        BY DEF FilesOf
      <4>2. lifecycle[r.dir] = FilesOf(r)
        BY <2>1, <3>1 DEF Settled
      <4> QED
        BY <4>1, <4>2
    <3> QED
      BY <3>1, <3>2, <3>3
  <2>3. \A r \in proxies' : lifecycle'[r.dir] = FilesOf(r)
    BY <1>4, <2>1, <2>2 DEF Settled
  <2>4. ASSUME NEW d \in Dirs, lifecycle'[d] # None, lifecycle'[d].pid # None
        PROVE  \E r \in proxies' : r.dir = d /\ r.pid = lifecycle'[d].pid
    <3>1. ~Of(d)
      BY <1>3, <2>4
    <3>2. lifecycle'[d] = lifecycle[d]
      BY <1>4, <3>1
    <3>3. PICK r \in proxies : r.dir = d /\ r.pid = lifecycle[d].pid
      BY <2>1, <2>4, <3>2 DEF Settled
    <3>4. r # q
      BY <2>4, <3>1, <3>2, <3>3
    <3> QED
      BY <1>1, <3>2, <3>3, <3>4
  <2> QED
    BY <1>1, <2>1, <2>3, <2>4 DEF Settled
<1> QED
  BY <1>1, <1>2, <1>5, <1>6, CommandsStay DEF LaunchInv

\* What a proxy comes up with.
LEMMA NewProxyOk ==
  ASSUME LaunchInv, NEW p \in Procs, pc[p] # "idle", NEW pid \in Pids
  PROVE  LET q == NewProxy(p, pid)
         IN  ProxyOk(q) /\ q.pid = pid
<1> DEFINE at == job[p].at
           given  == job[p].config
           config == DaemonConfig(files, at.env, at.cwd, given)
           own    == Configured(at)
           q      == NewProxy(p, pid)
<1>1. at \in files.places /\ files \in Setups
  BY DEF LaunchInv, JobOk
<1>2. AddressType(given.listen) /\ given.https \in BOOLEAN
  BY JobConfig DEF ConfigType
<1>3. PICK l : l = given.listen
  OBVIOUS
<1>4. PICK h \in BOOLEAN : h = given.https
  BY <1>2
<1>5. config = ApplyCliOverrides(LoadConfig(files, at.env, at.cwd), l, h)
  BY <1>3, <1>4 DEF DaemonConfig
<1>6. /\ ConfigType(config)
      /\ config.state_dir = own.state_dir /\ config.domains = own.domains
      /\ own.https => config.https
  BY <1>1, <1>2, <1>3, <1>5, OverridesType DEF Configured
<1>7. /\ q.pid = pid /\ q.at = at /\ q.listen = config.listen /\ q.https = config.https
      /\ q.domains = config.domains /\ q.dir = ResolveStateDir(config)
  BY DEF NewProxy
<1> HIDE DEF q, config, own
<1>8. q.listen.port \in Ports /\ q.https \in BOOLEAN
  BY <1>6, <1>7 DEF ConfigType, AddressType
<1>9. q.dir = Or(own.state_dir, DefaultStateDir(q.listen.port))
  BY <1>6, <1>7 DEF ResolveStateDir
<1>10. own.https => q.https
  BY <1>6, <1>7
<1>11. ProxyOk(q)
  BY <1>1, <1>6, <1>7, <1>8, <1>9, <1>10 DEF ProxyOk, own
<1> QED
  BY <1>7, <1>11 DEF q

LEMMA SpawnedLifecycle ==
  ASSUME LaunchInv, NEW pid \in UnusedPids, NEW q, ProxyOk(q), q.pid = pid,
         UNCHANGED <<files, table, bound>>,
         proxies' = proxies \cup {q},
         lifecycle' = [lifecycle EXCEPT ![q.dir] = FilesOf(q)],
         unsettled' = (unsettled \/ \E r \in proxies : r.dir = q.dir)
  PROVE  /\ unsettled' \in BOOLEAN
         /\ \A r \in proxies' : ProxyOk(r)'
         /\ LifecycleOk' /\ (~unsettled => Settled)'
<1>1. unsettled' \in BOOLEAN
  OBVIOUS
<1>2. \A r \in proxies' : ProxyOk(r)'
  BY DEF LaunchInv, ProxyOk, Configured
<1>3. q.dir \in Dirs
  BY DirType
<1>4. FilesOf(q) \in LifecycleFiles
  BY DEF FilesOf, LifecycleFiles, ProxyOk
<1>5. FilesOf(q).pid = q.pid
  BY DEF FilesOf
<1>6. \A r \in proxies : r.pid # q.pid
  BY DEF UnusedPids
<1>7. LifecycleOk'
  BY <1>3, <1>4, <1>6 DEF LaunchInv, LifecycleOk
<1>8. \A d \in Dirs : lifecycle'[d] = IF d = q.dir THEN FilesOf(q) ELSE lifecycle[d]
  BY DEF LaunchInv, LifecycleOk
<1>9. ASSUME ~unsettled' PROVE Settled'
  <2>1. Settled /\ \A r \in proxies : r.dir # q.dir
    BY <1>9 DEF LaunchInv
  <2>2. \A r \in proxies : r.dir \in Dirs
    BY DirType DEF LaunchInv
  <2>3. \A r \in proxies' : lifecycle'[r.dir] = FilesOf(r)
    BY <1>3, <1>8, <2>1, <2>2 DEF Settled
  <2>4. ASSUME NEW d \in Dirs, lifecycle'[d] # None, lifecycle'[d].pid # None
        PROVE  \E r \in proxies' : r.dir = d /\ r.pid = lifecycle'[d].pid
    <3>1. CASE d = q.dir
      BY <1>5, <1>8, <3>1
    <3>2. CASE d # q.dir
      <4>1. lifecycle'[d] = lifecycle[d]
        BY <1>8, <3>2
      <4> QED
        BY <2>1, <2>4, <4>1 DEF Settled
    <3> QED
      BY <3>1, <3>2
  <2>5. \A r, s \in proxies' : r.dir = s.dir => r = s
    BY <2>1 DEF Settled
  <2> QED
    BY <2>3, <2>4, <2>5 DEF Settled
<1> QED
  BY <1>1, <1>2, <1>7, <1>9

LEMMA ProxySpawnedStep == ASSUME LaunchInv, NEW p \in Procs, ProxySpawned(p) PROVE LaunchInv'
<1>1. pc[p] = "ensure" /\ UNCHANGED <<files, table, bound>>
  BY DEF ProxySpawned
<1>2. PICK pid \in UnusedPids, q \in {NewProxy(p, n) : n \in UnusedPids} :
        /\ q = NewProxy(p, pid)
        /\ proxies' = proxies \cup {q}
        /\ lifecycle' = [lifecycle EXCEPT ![q.dir] = FilesOf(q)]
        /\ unsettled' = (unsettled \/ \E r \in proxies : r.dir = q.dir)
        /\ IF AcceptsLocally(q) /\ job[p].op # "start"
             THEN Goto(p, "find") /\ UNCHANGED job ELSE Finish(p)
  BY DEF ProxySpawned
<1>3. ProxyOk(q) /\ q.pid = pid
  BY <1>1, <1>2, NewProxyOk DEF UnusedPids
<1>4. /\ unsettled' \in BOOLEAN
      /\ \A r \in proxies' : ProxyOk(r)'
      /\ LifecycleOk' /\ (~unsettled => Settled)'
  BY <1>1, <1>2, <1>3, SpawnedLifecycle
<1>5. /\ DOMAIN pc' = Procs /\ DOMAIN job' = Procs /\ pc'[p] \in {"find", "idle"}
      /\ \A r \in Procs \ {p} : pc'[r] = pc[r] /\ job'[r] = job[r]
      /\ JobOk(p)' /\ ServeOk(p)'
  <2>1. CASE AcceptsLocally(q) /\ job[p].op # "start"
    <3>1. Goto(p, "find") /\ job' = job
      BY <1>2, <2>1
    <3>2. JobOk(p)' /\ ServeOk(p)'
      BY <1>1, <2>1, <3>1, ToFind
    <3> QED
      BY <3>1, <3>2, Moved DEF LaunchInv
  <2>2. CASE ~(AcceptsLocally(q) /\ job[p].op # "start")
    <3>1. Finish(p)
      BY <1>2, <2>2
    <3> QED
      BY <3>1, Finished, IdleOk
  <2> QED
    BY <2>1, <2>2
<1>6. \A r \in Procs : JobOk(r)' /\ ServeOk(r)'
  BY <1>1, <1>5, OthersOk
<1>7. TableOk' /\ BoundOk'
  BY <1>1, <1>5, TableStays, BoundStays
<1> QED
  BY <1>1, <1>4, <1>5, <1>6, <1>7 DEF LaunchInv

-------------------------------------------------------------------------------
(* The invariant                                                            *)

LEMMA LaunchStep == LaunchInv /\ [Next]_vars => LaunchInv'
<1> SUFFICES ASSUME LaunchInv, [Next]_vars PROVE LaunchInv'
  OBVIOUS
<1>1. ASSUME NEW p \in Procs, NEW at \in files.places, NEW flags \in files.flags,
             BeginStart(p, at, flags)
      PROVE  LaunchInv'
  BY <1>1, BeginStartStep
<1>2. ASSUME NEW p \in Procs, NEW at \in files.places, NEW op \in {"run", "serve"},
             NEW name \in files.names, BeginApp(p, op, at, name)
      PROVE  LaunchInv'
  BY <1>2, BeginAppStep
<1>3. ASSUME NEW p \in Procs, ProxyFound(p) \/ ProxySpawned(p) \/ ProxyFailsToStart(p)
      PROVE  LaunchInv'
  BY <1>3, ProxyFoundStep, ProxySpawnedStep, ProxyFailsStep
<1>4. ASSUME NEW p \in Procs, FindFreePort(p) \/ \E cmd \in Commands : Spawn(p, cmd)
      PROVE  LaunchInv'
  BY <1>4, FindFreePortStep, SpawnStep
<1>5. ASSUME NEW p \in Procs,
             BindListener(p) \/ Register(p) \/ ChildBinds(p) \/ Ends(p) \/ Unregister(p)
      PROVE  LaunchInv'
  BY <1>5, BindListenerStep, RegisterStep, ChildBindsStep, EndsStep, UnregisterStep
<1>6. ASSUME NEW q \in proxies, ProxyStops(q) \/ ProxyDies(q)
      PROVE  LaunchInv'
  BY <1>6, ProxyStopsStep, ProxyDiesStep
<1>7. CASE UNCHANGED vars
  <2>1. UNCHANGED <<files, proxies, lifecycle, unsettled, table, bound, pc, job>>
    BY <1>7 DEF vars
  <2> QED
    BY <2>1, CommandsStay, ProxiesStay DEF LaunchInv
<1>8. ASSUME NEW user \in Users, NEW d \in Dirs, StaleRemoved(user, d) PROVE LaunchInv'
  BY <1>8, StaleRemovedStep
<1> QED
  BY <1>1, <1>2, <1>3, <1>4, <1>5, <1>6, <1>7, <1>8 DEF Next

LEMMA LaunchInvariant == Spec => []LaunchInv
BY Initially, LaunchStep, PTL DEF Spec

-------------------------------------------------------------------------------
(* The theorems                                                             *)

LEMMA CommandDir ==
  ASSUME LaunchInv, NEW p \in Procs, pc[p] # "idle", job[p].op # "start"
  PROVE  Dir(p) \in Dirs
<1>1. /\ job[p].at \in files.places /\ job[p].config = Configured(job[p].at)
      /\ files \in Setups
  BY DEF LaunchInv, JobOk
<1>2. PICK dir : dir = job[p].config.state_dir
  OBVIOUS
<1>3. dir \in DirsOf(files) \cup {Unset}
  BY <1>1, <1>2, LoadedType DEF Configured
<1>4. {UserDir, PrivilegedDir} \subseteq Dirs
  BY MarksAssumption DEF Dirs
<1>5. Dir(p) = Or(dir, DefaultStateDir(job[p].config.listen.port))
  BY <1>2 DEF Dir, ResolveStateDir
<1>6. CASE dir = Unset
  BY <1>4, <1>5, <1>6 DEF Or, DefaultStateDir
<1>7. CASE dir # Unset
  BY <1>1, <1>3, <1>5, <1>7 DEF Or, Dirs
<1> QED
  BY <1>6, <1>7

\* The variables have their types, and each state directory, port and hostname is
\* used as its owner's state says.
THEOREM TypeCorrect == Spec => []TypeOK
<1>1. LaunchInv => TypeOK
  <2> SUFFICES ASSUME LaunchInv PROVE TypeOK
    OBVIOUS
  <2>1. ASSUME NEW p \in Procs
        PROVE  /\ pc[p] \in Phases
               /\ (pc[p] = "idle") <=> (job[p] = NoJob)
               /\ pc[p] # "idle" => job[p].op \in Ops
               /\ pc[p] \in {"spawn", "bind", "register", "running", "unregister"} =>
                    job[p].port \in Ports
    BY DEF LaunchInv, JobOk
  <2>2. \A q \in proxies : q.dir \in Dirs /\ q.pid \in Pids /\ q.https \in BOOLEAN
    BY DirType DEF LaunchInv, ProxyOk
  <2>3. \A q, r \in proxies : q.pid = r.pid => q = r
    BY DEF LaunchInv, LifecycleOk
  <2>4. \A d \in Dirs : lifecycle[d] # None => lifecycle[d].pid \in Pids \cup {None}
    BY DEF LaunchInv, LifecycleOk, LifecycleFiles
  <2>5. ASSUME NEW e \in table PROVE e.dir \in Dirs /\ pc[e.by] \in {"running", "unregister"}
    <3>1. e.by \in Procs /\ e = Entry(e.by) /\ pc[e.by] \in {"running", "unregister"}
      BY DEF LaunchInv, TableOk
    <3>2. Dir(e.by) \in Dirs
      BY <3>1, CommandDir DEF LaunchInv, JobOk
    <3> QED
      BY <3>1, <3>2 DEF Entry
  <2>6. /\ \A a, b \in bound : a.port = b.port => a = b
        /\ \A b \in bound : pc[b.by] \in {"register", "running"}
    BY DEF LaunchInv, BoundOk
  <2>7. files \in Setups /\ unsettled \in BOOLEAN
    BY DEF LaunchInv
  <2> QED
    BY <2>1, <2>2, <2>3, <2>4, <2>5, <2>6, <2>7 DEF TypeOK, Phases, Ports
<1> QED
  BY <1>1, LaunchInvariant, PTL

\* A port that `nsl serve` advertises is its own from before the route is there,
\* and in the range it was given.
THEOREM ServersOwnTheirPorts == Spec => []ServeOwnsItsPort
<1>1. LaunchInv => ServeOwnsItsPort
  <2> SUFFICES ASSUME LaunchInv, NEW e \in table,
                      job[e.by].op = "serve", pc[e.by] = "running",
                      job[e.by].config.range[1] <= job[e.by].config.range[2]
               PROVE  /\ [port |-> e.port, by |-> e.by] \in bound
                      /\ e.port \in job[e.by].config.range[1]..job[e.by].config.range[2]
    BY DEF ServeOwnsItsPort
  <2>1. e.by \in Procs /\ e = Entry(e.by)
    BY DEF LaunchInv, TableOk
  <2>2. e.port = job[e.by].port
    BY <2>1 DEF Entry
  <2>3. /\ [port |-> job[e.by].port, by |-> e.by] \in bound
        /\ job[e.by].port \in PortsOf(job[e.by].config.range)
    BY <2>1 DEF LaunchInv, ServeOk
  <2>4. ConfigType(job[e.by].config)
    BY <2>1, JobConfig
  <2> QED
    BY <2>2, <2>3, <2>4, PortsOfRange DEF ConfigType
<1> QED
  BY <1>1, LaunchInvariant, PTL

\* While things are settled, no other directory looks as if a proxy ran in it, and its
\* own does to those that may signal the proxy.
LEMMA OnlyItsDir ==
  ASSUME LaunchInv, ~unsettled, NEW q \in proxies, proxies = {q}, NEW user, NEW d \in Dirs
  PROVE  /\ d = q.dir => lifecycle[d] = FilesOf(q)
         /\ Active(user, d) <=> d = q.dir /\ MaySignal(user, q.at.user)
<1>1. Settled
  BY DEF LaunchInv
<1>2. CASE d = q.dir
  <2>1. lifecycle[d] = FilesOf(q)
    BY <1>1, <1>2 DEF Settled
  <2>2. FilesOf(q).pid = q.pid /\ FilesOf(q) \in LifecycleFiles
    BY DEF FilesOf, LifecycleFiles, LaunchInv, ProxyOk
  <2>3. lifecycle[d] # None
    BY <2>1, <2>2, MarksAssumption
  <2>4. IsAlive(user, q.pid) <=> MaySignal(user, q.at.user)
    BY DEF IsAlive
  <2> QED
    BY <1>2, <2>1, <2>2, <2>3, <2>4 DEF Active
<1>3. CASE d # q.dir
  <2> SUFFICES ASSUME Active(user, d) PROVE FALSE
    BY <1>3
  <2>1. lifecycle[d] # None /\ lifecycle[d].pid = q.pid
    BY DEF Active, IsAlive
  <2>2. q.pid # None
    BY MarksAssumption DEF LaunchInv, ProxyOk
  <2>3. \E r \in proxies : r.dir = d
    BY <1>1, <2>1, <2>2 DEF Settled
  <2> QED
    BY <1>3, <2>3
<1> QED
  BY <1>2, <1>3

\* `nsl status` finds the only proxy that runs for its owner and for root, whatever
\* dead ones have left, and finds nothing for others.
THEOREM StatusIsRight == Spec => []StatusSeesTheProxy
<1>1. LaunchInv => StatusSeesTheProxy
  <2> SUFFICES ASSUME LaunchInv, NEW q \in proxies, proxies = {q}, ~unsettled, NEW user \in Users,
                      FileLayers(files, q.at.cwd).state_dir = Unset
               PROVE  LET status == ProxyStatus(user, q.at.env)
                      IN  IF MaySignal(user, q.at.user)
                            THEN status = [ dir |-> q.dir, running |-> TRUE,
                                            port |-> q.listen.port, tls |-> q.https ]
                            ELSE ~status.running /\ status.dir = Or(q.at.env.state_dir, UserDir)
    BY DEF StatusSeesTheProxy
  <2> DEFINE env == q.at.env
             dir == DiscoverActiveStateDir(user, env)
  <2>1. ProxyOk(q) /\ q.at \in files.places /\ files \in Setups
    BY DEF LaunchInv, ProxyOk
  <2>2. q.dir = Or(env.state_dir, DefaultStateDir(q.listen.port))
    <3>1. Configured(q.at).state_dir = env.state_dir
      BY <2>1, LoadedType DEF Configured
    <3> QED
      BY <2>1, <3>1 DEF ProxyOk
  <2>3. q.dir \in Dirs
    BY <2>1, DirType
  <2>4. dir = IF MaySignal(user, q.at.user) THEN q.dir ELSE Or(env.state_dir, UserDir)
    <3>1. CASE env.state_dir # Unset
      BY <2>2, <3>1 DEF DiscoverActiveStateDir, Or
    <3>2. CASE env.state_dir = Unset
      <4>1. q.dir \in {UserDir, PrivilegedDir} /\ {UserDir, PrivilegedDir} \subseteq Dirs
        BY <2>2, <3>2, MarksAssumption DEF Or, DefaultStateDir, Dirs
      <4>2. /\ ResolveStateDirFromEnv(env, DefaultPort) = UserDir
            /\ ResolveStateDirFromEnv(env, 80) = PrivilegedDir
        BY <3>2 DEF ResolveStateDirFromEnv, Or, DefaultStateDir, DefaultPort, PrivilegedPortThreshold
      <4>3. dir = IF ~Active(user, UserDir) /\ Active(user, PrivilegedDir)
                    THEN PrivilegedDir ELSE UserDir
        BY <3>2, <4>2 DEF DiscoverActiveStateDir
      <4>4. \A d \in {UserDir, PrivilegedDir} :
              Active(user, d) <=> d = q.dir /\ MaySignal(user, q.at.user)
        BY <4>1, OnlyItsDir
      <4> QED
        BY <3>2, <4>1, <4>3, <4>4 DEF Or
    <3> QED
      BY <3>1, <3>2
  <2> HIDE DEF dir
  <2>5. CASE MaySignal(user, q.at.user)
    <3>1. Active(user, q.dir) /\ lifecycle[q.dir] = FilesOf(q)
      BY <2>3, <2>5, OnlyItsDir
    <3>2. lifecycle[q.dir] # None
      BY <3>1 DEF Active
    <3>3. FilesOf(q).port = q.listen.port /\ FilesOf(q).tls = q.https /\ q.https \in BOOLEAN
      BY <2>1 DEF FilesOf, ProxyOk
    <3>4. ProxyStatus(user, env)
            = [ dir     |-> q.dir, running |-> Active(user, q.dir),
                port    |-> IF FilesOf(q) = None \/ (env.state_dir = Unset /\ ~Active(user, q.dir))
                              THEN DefaultPort ELSE FilesOf(q).port,
                tls     |-> FilesOf(q) # None /\ FilesOf(q).tls ]
      BY <2>4, <2>5, <3>1 DEF ProxyStatus, dir
    <3>5. Active(user, q.dir) = TRUE
      BY <3>1 DEF Active
    <3>6. (FilesOf(q) # None /\ FilesOf(q).tls) = q.https
      BY <3>1, <3>2, <3>3
    <3> QED
      BY <2>5, <3>1, <3>2, <3>3, <3>4, <3>5, <3>6
  <2>6. CASE ~MaySignal(user, q.at.user)
    <3>1. dir = Or(env.state_dir, UserDir)
      BY <2>4, <2>6
    <3>2. ~IsAlive(user, q.pid)
      BY <2>6 DEF IsAlive
    <3>3. ~Active(user, dir)
      BY <3>2 DEF Active, IsAlive
    <3>4. /\ ProxyStatus(user, env).dir = dir
          /\ ProxyStatus(user, env).running = Active(user, dir)
      BY DEF ProxyStatus, dir
    <3> QED
      BY <2>6, <3>1, <3>3, <3>4
  <2> QED
    BY <2>5, <2>6
<1> QED
  BY <1>1, LaunchInvariant, PTL

-------------------------------------------------------------------------------
(* Hostnames under the domains of a configuration                           *)

\* IsSubdomain, label by label, a hostname being below itself.
EndsIn(a, b) ==
  Len(b) <= Len(a) /\ \A j \in 1..Len(b) : a[Len(a) - Len(b) + j] = b[j]

LEMMA SubdomainEndsIn ==
  ASSUME NEW S, NEW a \in Seq(S), NEW b \in Seq(S)
  PROVE  /\ IsSubdomain(a, b) <=> Len(b) < Len(a) /\ EndsIn(a, b)
         /\ (a = b \/ IsSubdomain(a, b)) <=> EndsIn(a, b)
<1> DEFINE n == Len(a) - Len(b)
           t == SubSeq(a, n + 1, Len(a))
<1>1. Len(a) \in Nat /\ Len(b) \in Nat
  BY LenProperties
<1>2. Len(b) <= Len(a) => (t = b <=> \A j \in 1..Len(b) : a[n + j] = b[j])
  <2> SUFFICES ASSUME Len(b) <= Len(a)
               PROVE  t = b <=> \A j \in 1..Len(b) : a[n + j] = b[j]
    OBVIOUS
  <2>1. t \in Seq(S) /\ Len(t) = Len(b) /\ \A j \in 1..Len(b) : t[j] = a[n + j]
    BY <1>1
  <2> HIDE DEF t, n
  <2>2. t = b <=> \A j \in 1..Len(b) : t[j] = b[j]
    BY <2>1, SeqEqual
  <2> QED
    BY <2>1, <2>2
<1>3. IsSubdomain(a, b) <=> Len(b) < Len(a) /\ EndsIn(a, b)
  BY <1>1, <1>2 DEF IsSubdomain, EndsIn
<1>4. a = b <=> Len(b) = Len(a) /\ EndsIn(a, b)
  <2>1. CASE Len(b) = Len(a)
    <3>1. \A j \in 1..Len(b) : Len(a) - Len(b) + j = j
      BY <1>1, <2>1
    <3>2. EndsIn(a, b) <=> \A j \in 1..Len(b) : a[j] = b[j]
      BY <1>1, <2>1, <3>1 DEF EndsIn
    <3> QED
      BY <2>1, <3>2, SeqEqual
  <2> QED
    BY <2>1
<1> QED
  BY <1>1, <1>3, <1>4 DEF EndsIn

LEMMA EndsInBoth ==
  ASSUME NEW S, NEW a \in Seq(S), NEW b \in Seq(S), NEW c \in Seq(S),
         EndsIn(a, b), EndsIn(a, c), Len(b) <= Len(c)
  PROVE  EndsIn(c, b)
<1>1. Len(a) \in Nat /\ Len(b) \in Nat /\ Len(c) \in Nat
  BY LenProperties
<1>2. ASSUME NEW j \in 1..Len(b) PROVE c[Len(c) - Len(b) + j] = b[j]
  <2>1. /\ Len(c) - Len(b) + j \in 1..Len(c)
        /\ Len(a) - Len(c) + (Len(c) - Len(b) + j) = Len(a) - Len(b) + j
    BY <1>1
  <2> QED
    BY <2>1 DEF EndsIn
<1> QED
  BY <1>2 DEF EndsIn

LEMMA ConcatEndsIn ==
  ASSUME NEW S, NEW x \in Seq(S), NEW d \in Seq(S)
  PROVE  /\ x \o d \in Seq(S) /\ Len(x \o d) = Len(x) + Len(d)
         /\ EndsIn(x \o d, d)
         /\ SubSeq(x \o d, 1, Len(x)) = x
<1> DEFINE s == x \o d
<1>1. /\ s \in Seq(S) /\ Len(s) = Len(x) + Len(d) /\ Len(x) \in Nat /\ Len(d) \in Nat
      /\ \A i \in 1..(Len(x) + Len(d)) : s[i] = IF i <= Len(x) THEN x[i] ELSE d[i - Len(x)]
  BY LenProperties, ConcatProperties
<1> HIDE DEF s
<1>2. EndsIn(s, d)
  BY <1>1, SMTT(30) DEF EndsIn
<1>3. SubSeq(s, 1, Len(x)) = x
  <2>1. /\ SubSeq(s, 1, Len(x)) \in Seq(S) /\ Len(SubSeq(s, 1, Len(x))) = Len(x)
        /\ \A i \in 1..Len(x) : SubSeq(s, 1, Len(x))[i] = x[i]
    BY <1>1
  <2> QED
    BY <2>1, SeqEqual
<1> QED
  BY <1>1, <1>2, <1>3 DEF s

LEMMA DomainType ==
  ASSUME NEW domains \in Seq(Seq(Labels)), NEW k \in DOMAIN domains
  PROVE  domains[k] \in Seq(Labels) /\ Len(domains[k]) \in Nat
<1>1. domains[k] \in Seq(Labels)
  OBVIOUS
<1> QED
  BY <1>1, LenProperties

LEMMA FirstDomain ==
  ASSUME NEW domains \in Seq(Seq(Labels)), NEW host, NEW k \in DomainsOf(host, domains)
  PROVE  \E i \in DomainsOf(host, domains) :
           StripDomainSuffix(host, domains) = SubSeq(host, 1, Len(host) - Len(domains[i]))
<1> DEFINE found == DomainsOf(host, domains)
           First(i) == \A j \in found : i <= j
<1>1. found \in SUBSET Nat
  <2>1. DOMAIN domains = 1..Len(domains) /\ Len(domains) \in Nat
    BY LenProperties
  <2> QED
    BY <2>1 DEF DomainsOf
<1>2. k \in found
  OBVIOUS
<1> HIDE DEF found
<1>3. \E i \in found : First(i)
  BY <1>1, <1>2, Least
<1>4. StripDomainSuffix(host, domains)
        = SubSeq(host, 1, Len(host) - Len(domains[CHOOSE i \in found : First(i)]))
  BY <1>2 DEF StripDomainSuffix, found
<1> QED
  BY <1>3, <1>4 DEF found

\* strip_domain_suffix undoes what a name had appended, when no domain lies below
\* another.
LEMMA NameUnderDomain ==
  ASSUME NEW domains \in Seq(Seq(Labels)), Apart(domains), NEW k \in DOMAIN domains, NEW name \in Seq(Labels)
  PROVE  StripDomainSuffix(name \o domains[k], domains) = name
<1> DEFINE d == domains[k]
           host == name \o d
<1>1. /\ d \in Seq(Labels) /\ Len(d) \in Nat /\ Len(name) \in Nat
  BY DomainType, LenProperties
<1> HIDE DEF d
<1>2. /\ host \in Seq(Labels) /\ Len(host) = Len(name) + Len(d)
      /\ EndsIn(host, d) /\ SubSeq(host, 1, Len(name)) = name
  BY <1>1, ConcatEndsIn
<1> HIDE DEF host
<1>3. k \in DomainsOf(host, domains)
  BY <1>1, <1>2, SubdomainEndsIn DEF DomainsOf, d
<1>4. PICK i \in DomainsOf(host, domains) :
        StripDomainSuffix(host, domains) = SubSeq(host, 1, Len(host) - Len(domains[i]))
  BY <1>3, FirstDomain
<1>5. i \in DOMAIN domains /\ domains[i] \in Seq(Labels) /\ Len(domains[i]) \in Nat
  BY <1>4, DomainType DEF DomainsOf
<1>6. EndsIn(host, domains[i])
  BY <1>2, <1>4, <1>5, SubdomainEndsIn DEF DomainsOf
<1>7. ~IsSubdomain(d, domains[i]) /\ ~IsSubdomain(domains[i], d)
  BY <1>5 DEF Apart, d
<1>8. Len(domains[i]) = Len(d)
  <2>1. CASE Len(domains[i]) < Len(d)
    <3>1. EndsIn(d, domains[i])
      BY <1>1, <1>2, <1>5, <1>6, <2>1, EndsInBoth
    <3> QED
      BY <1>1, <1>5, <1>7, <2>1, <3>1, SubdomainEndsIn
  <2>2. CASE Len(d) < Len(domains[i])
    <3>1. EndsIn(domains[i], d)
      BY <1>1, <1>2, <1>5, <1>6, <2>2, EndsInBoth
    <3> QED
      BY <1>1, <1>5, <1>7, <2>2, <3>1, SubdomainEndsIn
  <2> QED
    BY <1>1, <1>5, <2>1, <2>2
<1>9. Len(host) - Len(domains[i]) = Len(name)
  BY <1>1, <1>2, <1>8
<1> QED
  BY <1>2, <1>4, <1>9 DEF host, d

\* What is before the first domain that a hostname is below.
LEMMA PrefixIsName ==
  ASSUME NEW domains \in Seq(Seq(Labels)), Apart(domains), NEW host \in Seq(Labels),
         PrefixOf(host, domains) # <<>>
  PROVE  /\ PrefixOf(host, domains) = StripDomainSuffix(host, domains)
         /\ PrefixOf(host, domains) \in Seq(Labels)
<1> DEFINE below == {i \in DOMAIN domains : IsSubdomain(host, domains[i])}
           found == DomainsOf(host, domains)
<1>1. PICK i \in DOMAIN domains : IsSubdomain(host, domains[i])
  BY DEF PrefixOf
<1>2. found = below
  <2>1. \A k \in DOMAIN domains : host # domains[k]
    <3> SUFFICES ASSUME NEW k \in DOMAIN domains, host = domains[k] PROVE FALSE
      OBVIOUS
    <3>1. IsSubdomain(domains[k], domains[i])
      BY <1>1
    <3> QED
      BY <3>1 DEF Apart
  <2> QED
    BY <2>1 DEF DomainsOf
<1>3. PrefixOf(host, domains) = StripDomainSuffix(host, domains)
  BY <1>2 DEF PrefixOf, StripDomainSuffix
<1>4. i \in found
  BY <1>1, <1>2
<1>5. PICK k \in found :
        StripDomainSuffix(host, domains) = SubSeq(host, 1, Len(host) - Len(domains[k]))
  BY <1>4, FirstDomain
<1>6. domains[k] \in Seq(Labels) /\ Len(domains[k]) \in Nat
  BY <1>5, DomainType DEF DomainsOf
<1>7. EndsIn(host, domains[k])
  BY <1>5, <1>6, SubdomainEndsIn DEF DomainsOf
<1>8. SubSeq(host, 1, Len(host) - Len(domains[k])) \in Seq(Labels)
  <2>1. Len(host) \in Nat /\ Len(domains[k]) <= Len(host)
    BY <1>7, LenProperties DEF EndsIn
  <2> QED
    BY <1>6, <2>1
<1> QED
  BY <1>3, <1>5, <1>8

\* A name that parse_hostname takes has a prefix before a domain.
LEMMA ParsedHost ==
  ASSUME NEW domains \in Seq(Seq(Labels)), domains # <<>>, NEW name \in Seq(Labels),
         ParseHostname(name, domains) # NotAHostname
  PROVE  LET host == ParseHostname(name, domains)
         IN  host \in Seq(Labels) /\ PrefixOf(host, domains) # <<>>
<1> DEFINE host == IF DomainsOf(name, domains) # {} THEN name ELSE name \o domains[1]
<1>1. 1 \in DOMAIN domains
  BY LenProperties, EmptySeq
<1>2. domains[1] \in Seq(Labels)
  BY <1>1
<1>3. host \in Seq(Labels)
  BY <1>2, ConcatProperties
<1>4. ParseHostname(name, domains) = host /\ PrefixOf(host, domains) # <<>>
  BY DEF ParseHostname, NotAHostname
<1> QED
  BY <1>3, <1>4

LEMMA UrlLeadsThere ==
  ASSUME NEW host, NEW port, port # 0, NEW tls,
         NEW url, url = FormatUrl(host, port, tls)
  PROVE  url.host = host /\ url.https = tls /\ ConnectsTo(url) = port
BY DEF FormatUrl, ConnectsTo

\* The URLs that are printed for a route lead to the proxy at the command's port and
\* find the route there, where no configuration leaves the port of the proxy to the
\* system.
THEOREM RoutesReachTheirProxies ==
  ASSUME \A f \in Setups : PortsAreNamed(f)
  PROVE  Spec => []RouteReachesItsProxy
<1>1. LaunchInv => RouteReachesItsProxy
  <2> SUFFICES ASSUME LaunchInv, NEW p \in Procs, NEW q \in proxies,
                      pc[p] = "running", Apart(q.domains), q.at = job[p].at,
                      q.listen.port = job[p].config.listen.port,
                      NEW url \in FormatUrls(
                        ExtractHostnamePrefix(job[p].host, job[p].config.domains),
                        job[p].config.domains, job[p].config.listen.port, job[p].config.https)
               PROVE  /\ q.dir = Dir(p)
                      /\ ConnectsTo(url) = q.listen.port
                      /\ url.https => q.https
                      /\ \E e \in table : /\ e.by = p /\ e.dir = q.dir
                                          /\ HostnameMatches(e.host, url.host, q.domains)
    BY DEF RouteReachesItsProxy
  <2> DEFINE config  == job[p].config
             domains == config.domains
             host    == job[p].host
  <2>1. /\ files \in Setups /\ ProxyOk(q) /\ JobOk(p)
        /\ job[p].at \in files.places /\ config = Configured(job[p].at)
        /\ host # NotAHostname
        /\ \E name \in files.names : host = ParseHostname(name, domains)
    BY DEF LaunchInv, JobOk
  <2>2. q.domains = domains /\ (config.https => q.https)
    BY <2>1 DEF ProxyOk
  <2>3. q.dir = Dir(p)
    BY <2>1 DEF ProxyOk, Dir, ResolveStateDir
  <2>4. domains \in Seq(Seq(Labels)) /\ domains # <<>>
    BY JobConfig DEF ConfigType
  <2>5. config.listen.port # 0
    <3>1. PortsAreNamed(files)
      BY <2>1
    <3> QED
      BY <2>1, <3>1 DEF PortsAreNamed, Configured
  <2>6. host \in Seq(Labels) /\ PrefixOf(host, domains) # <<>>
    <3>1. PICK name \in files.names : host = ParseHostname(name, domains)
      BY <2>1
    <3>2. name \in Seq(Labels)
      BY <2>1, SetupsAssumption
    <3>3. PICK ds \in Seq(Seq(Labels)) : ds = domains
      BY <2>4
    <3> QED
      BY <2>1, <2>4, <3>1, <3>2, <3>3, ParsedHost
  <2>7. PICK prefix : prefix = PrefixOf(host, domains)
    OBVIOUS
  <2>8. prefix \in Seq(Labels) /\ prefix # <<>> /\ StripDomainSuffix(host, domains) = prefix
    <3>1. Apart(domains)
      BY <2>2
    <3> QED
      BY <2>4, <2>6, <2>7, <3>1, PrefixIsName
  <2>9. ExtractHostnamePrefix(host, domains) = prefix
    BY <2>6, <2>7 DEF ExtractHostnamePrefix
  <2>10. PICK k \in DOMAIN domains :
           url = FormatUrl(prefix \o domains[k], config.listen.port, config.https)
    BY <2>9 DEF FormatUrls
  <2>11. /\ url.host = prefix \o domains[k] /\ url.https = config.https
         /\ ConnectsTo(url) = config.listen.port
    <3>1. PICK h, n, tls : h = prefix \o domains[k] /\ n = config.listen.port /\ tls = config.https
      OBVIOUS
    <3>2. n # 0 /\ url = FormatUrl(h, n, tls)
      BY <2>5, <2>10, <3>1
    <3>3. url.host = h /\ url.https = tls /\ ConnectsTo(url) = n
      BY <3>2, UrlLeadsThere
    <3> QED
      BY <3>1, <3>3
  <2>12. StripDomainSuffix(url.host, domains) = prefix
    BY <2>2, <2>4, <2>8, <2>11, NameUnderDomain
  <2>13. HostnameMatches(host, url.host, domains)
    BY <2>8, <2>12 DEF HostnameMatches
  <2>14. Entry(p) \in table
    BY DEF LaunchInv, TableOk
  <2>15. Entry(p).by = p /\ Entry(p).dir = Dir(p) /\ Entry(p).host = host
    BY DEF Entry
  <2> QED
    BY <2>2, <2>3, <2>11, <2>13, <2>14, <2>15
<1> QED
  BY <1>1, LaunchInvariant, PTL

-------------------------------------------------------------------------------
(* What becomes of a command line                                           *)

\* The words of commands, and those that nsl adds.
WordsOf(args) == UNION {{args[i][j] : j \in DOMAIN args[i]} : i \in DOMAIN args}
AddedWords    == {"--", "--port", "PORT", "--port=PORT", "--strictPort",
                  "--host", "--ip", "127.0.0.1", "localhost"}
AllWords      ==
  AddedWords \cup UNION {WordsOf(cmd.args) \cup WordsOf(Line(cmd.script)) : cmd \in Commands}

ArgTexts == Seq(AllWords) \ {<<>>}
ArgSeqs  == Seq(ArgTexts)
AllFlags == PortFlags \cup {"--port=PORT"}

LEMMA ArgFacts ==
  ASSUME NEW args \in ArgSeqs
  PROVE  /\ Len(args) \in Nat /\ DOMAIN args = 1..Len(args)
         /\ \A i \in DOMAIN args :
              /\ args[i] \in Seq(AllWords) /\ args[i] # <<>>
              /\ Len(args[i]) \in Nat /\ Len(args[i]) >= 1
              /\ DOMAIN args[i] = 1..Len(args[i]) /\ 1 \in DOMAIN args[i]
BY DEF ArgSeqs, ArgTexts

\* Where the parts of three sequences in a row are.
LEMMA RowOfThree ==
  ASSUME NEW S, NEW a \in Seq(S), NEW b \in Seq(S), NEW c \in Seq(S), NEW r, r = a \o b \o c
  PROVE  /\ r \in Seq(S) /\ Len(r) = Len(a) + Len(b) + Len(c)
         /\ \A i \in DOMAIN a : r[i] = a[i]
         /\ \A i \in DOMAIN b : r[Len(a) + i] = b[i]
         /\ \A i \in DOMAIN c : r[Len(a) + Len(b) + i] = c[i]
         /\ \A i \in DOMAIN r : \/ i \in DOMAIN a
                                \/ i - Len(a) \in DOMAIN b
                                \/ i - Len(a) - Len(b) \in DOMAIN c
OBVIOUS

LEMMA WhatFollows ==
  ASSUME NEW S, NEW s \in Seq(S), NEW n \in 0..Len(s)
  PROVE  /\ After(s, n) \in Seq(S) /\ Len(After(s, n)) = Len(s) - n
         /\ \A i \in 1..(Len(s) - n) : After(s, n)[i] = s[n + i]
BY SMTT(30) DEF After

LEMMA RowOfTwo ==
  ASSUME NEW S, NEW a \in Seq(S), NEW b \in Seq(S), NEW r, r = a \o b
  PROVE  /\ r \in Seq(S) /\ Len(r) = Len(a) + Len(b) /\ DOMAIN r = 1..(Len(a) + Len(b))
         /\ \A i \in 1..Len(a) : r[i] = a[i]
         /\ \A i \in 1..Len(b) : r[Len(a) + i] = b[i]
OBVIOUS

\* A program listens on the port if the last flag that reaches it says so,
LEMMA LastFlagCounts ==
  ASSUME NEW before \in ArgSeqs, \A i \in DOMAIN before : Word1(before[i]) \notin AllFlags,
         NEW final \in ArgSeqs, NEW n \in Nat, NEW last \in DOMAIN final, n < last,
         Word1(final[last]) \in AllFlags, IsFor(final, last, "--port=PORT", "PORT"),
         \A i \in DOMAIN final : i > last => Word1(final[i]) \notin AllFlags,
         NEW line, line = before \o After(final, n), Len(line[1]) = 1
  PROVE  ListensOnAllocated(line)
<1> DEFINE m     == Len(before)
           here  == m + last - n
           flags == {i \in DOMAIN line : Word1(line[i]) \in AllFlags}
<1>1. m \in Nat /\ Len(final) \in Nat /\ last \in 1..Len(final) /\ DOMAIN before = 1..m
  BY ArgFacts
<1>2. PICK rest : /\ rest = After(final, n) /\ rest \in ArgSeqs
                  /\ Len(rest) = Len(final) - n
                  /\ \A i \in 1..(Len(final) - n) : rest[i] = final[n + i]
  <2>1. n \in 0..Len(final)
    BY <1>1
  <2> QED
    BY <2>1, WhatFollows DEF ArgSeqs
<1>3. /\ line \in ArgSeqs /\ DOMAIN line = 1..(m + (Len(final) - n))
      /\ \A i \in 1..m : line[i] = before[i]
      /\ \A i \in 1..(Len(final) - n) : line[m + i] = final[n + i]
  <2>1. line = before \o rest
    BY <1>2
  <2>2. /\ line \in ArgSeqs /\ DOMAIN line = 1..(m + Len(rest))
        /\ \A i \in 1..m : line[i] = before[i]
        /\ \A i \in 1..Len(rest) : line[m + i] = rest[i]
    <3>1. before \in Seq(ArgTexts) /\ rest \in Seq(ArgTexts)
      BY <1>2 DEF ArgSeqs
    <3>2. /\ line \in Seq(ArgTexts) /\ DOMAIN line = 1..(Len(before) + Len(rest))
          /\ \A i \in 1..Len(before) : line[i] = before[i]
          /\ \A i \in 1..Len(rest) : line[Len(before) + i] = rest[i]
      BY ONLY <2>1, <3>1, RowOfTwo
    <3> QED
      BY <3>2 DEF ArgSeqs
  <2> QED
    BY <1>2, <2>2
<1>4. /\ DOMAIN line = 1..(m + (Len(final) - n)) /\ DOMAIN final = 1..Len(final)
      /\ \A i \in n + 1..Len(final) : m + i - n \in DOMAIN line /\ line[m + i - n] = final[i]
  <2>1. \A i \in n + 1..Len(final) : /\ i - n \in 1..(Len(final) - n)
                                     /\ n + (i - n) = i /\ m + (i - n) = m + i - n
                                     /\ m + i - n \in 1..(m + (Len(final) - n))
    BY <1>1
  <2> QED
    BY <1>3, <2>1, ArgFacts
<1> HIDE DEF m
<1>5. here \in DOMAIN line /\ line[here] = final[last]
  <2>1. last \in n + 1..Len(final)
    BY <1>1
  <2> QED
    BY <1>4, <2>1
<1>6. \A i \in DOMAIN line : i > here => Word1(line[i]) \notin AllFlags
  <2> SUFFICES ASSUME NEW i \in DOMAIN line, i > here PROVE Word1(line[i]) \notin AllFlags
    OBVIOUS
  <2>1. PICK k : k = i - m + n
    OBVIOUS
  <2>2. k \in n + 1..Len(final) /\ k > last /\ m + k - n = i
    BY <1>1, <1>4, <2>1, SMTT(30)
  <2>3. line[i] = final[k]
    BY <1>4, <2>2
  <2>4. k \in DOMAIN final
    BY <1>1, <1>4, <2>2
  <2> QED
    BY <2>2, <2>3, <2>4
<1>7. LastOf(flags) = here
  <2>1. DOMAIN line \subseteq Int /\ here \in Int
    BY <1>1, <1>4
  <2>2. here \in flags
    BY <1>5
  <2>3. \A i \in flags : i \in Int /\ ~(i > here)
    BY <1>6, <2>1
  <2> HIDE DEF flags, here
  <2>4. \A i \in flags : i <= here
    BY <2>1, <2>3
  <2>5. \A k \in flags : (\A j \in flags : j <= k) => k = here
    <3> SUFFICES ASSUME NEW k \in flags, here <= k PROVE k = here
      BY <2>2
    <3> QED
      BY <2>1, <2>3
  <2> QED
    BY <2>2, <2>4, <2>5 DEF LastOf
<1>8. IsFor(line, here, "--port=PORT", "PORT")
  <2>1. CASE final[last] = <<"--port=PORT">>
    BY <2>1, <1>5 DEF IsFor
  <2>2. CASE Arg(final, last + 1) = <<"PORT">>
    <3>1. last + 1 \in DOMAIN final /\ final[last + 1] = <<"PORT">>
      BY <2>2 DEF Arg
    <3>2. last + 1 \in n + 1..Len(final) /\ m + (last + 1) - n = here + 1
      BY <3>1, <1>1, <1>4
    <3>3. here + 1 \in DOMAIN line /\ line[here + 1] = final[last + 1]
      BY <1>4, <3>2
    <3> QED
      BY <3>1, <3>3 DEF IsFor, Arg
  <2> QED
    BY <2>1, <2>2 DEF IsFor
<1>9. flags # {} /\ line # <<>>
  BY <1>5, <1>4
<1> QED
  BY <1>7, <1>8, <1>9 DEF ListensOnAllocated, AllFlags

KnownFor(args, script) ==
  DetectFramework(args).known \/ DetectFrameworkViaPackageJson(args, script).known

LEMMA Detected ==
  ASSUME NEW args, NEW fw, fw = DetectFramework(args)
  PROVE  /\ \/ Mentions(args, "vite") \/ Mentions(args, "astro") \/ Mentions(args, "expo")
            \/ Mentions(args, "wrangler") /\ Mentions(args, "dev")
            => fw.known
         /\ fw.known \in BOOLEAN
         /\ fw.known => /\ fw.strict_port \in BOOLEAN
                        /\ fw.host_flag \in {"--host", "--ip"}
                        /\ fw.host \in {"127.0.0.1", "localhost"}
BY DEF DetectFramework, Framework, NoFramework

\* What is added is single words; the port is the last flag among them, behind "--"
\* where there is none yet, and is added unless a flag is there already.
Addition(tail, separated, ported) ==
  /\ tail \in ArgSeqs
  /\ \A k \in DOMAIN tail : /\ tail[k] = <<tail[k][1]>>
                            /\ tail[k][1] \notin AllFlags \ {"--port"}
                            /\ tail[k][1] # "NSL_PORT"
  /\ separated => 1 \in DOMAIN tail /\ tail[1] = <<"--">>
  /\ ported =>
       \E k \in DOMAIN tail :
         /\ separated => k > 1
         /\ tail[k] = <<"--port">> /\ k + 1 \in DOMAIN tail /\ tail[k + 1] = <<"PORT">>
         /\ \A j \in DOMAIN tail : tail[j][1] = "--port" => j = k
  /\ ~ported => \A k \in DOMAIN tail : tail[k][1] # "--port"

LEMMA OneWord == \A w \in AllWords : <<w>> \in ArgTexts
BY DEF ArgTexts

LEMMA WordsAdded == AddedWords \subseteq AllWords
BY DEF AllWords

LEMMA NoArgs == <<>> \in ArgSeqs /\ Len(<<>>) = 0 /\ DOMAIN <<>> = {}
BY DEF ArgSeqs

LEMMA OneArg ==
  ASSUME NEW a \in ArgTexts, NEW s, s = <<a>>
  PROVE  s \in ArgSeqs /\ Len(s) = 1 /\ DOMAIN s = 1..1 /\ s[1] = a
BY DEF ArgSeqs

LEMMA TwoArgs ==
  ASSUME NEW a \in ArgTexts, NEW b \in ArgTexts, NEW s, s = <<a, b>>
  PROVE  s \in ArgSeqs /\ Len(s) = 2 /\ DOMAIN s = 1..2 /\ s[1] = a /\ s[2] = b
BY DEF ArgSeqs

LEMMA ThreeArgs ==
  ASSUME NEW a \in ArgTexts, NEW b \in ArgTexts, NEW c \in ArgTexts, NEW s, s = <<a, b, c>>
  PROVE  /\ s \in ArgSeqs /\ Len(s) = 3 /\ DOMAIN s = 1..3
         /\ s[1] = a /\ s[2] = b /\ s[3] = c
BY DEF ArgSeqs

DashesAdded(separated) == IF separated THEN << <<"--">> >> ELSE <<>>
PortsAdded(port, strict) ==
  IF port THEN <<>>
  ELSE IF strict THEN << <<"--port">>, <<"PORT">>, <<"--strictPort">> >>
  ELSE << <<"--port">>, <<"PORT">> >>
HostsAdded(there, flag, host) == IF there THEN <<>> ELSE << <<flag>>, <<host>> >>
AllAdded(separated, port, strict, there, flag, host) ==
  DashesAdded(separated) \o PortsAdded(port, strict) \o HostsAdded(there, flag, host)

LEMMA Added ==
  ASSUME NEW separated \in BOOLEAN, NEW port \in BOOLEAN, NEW strict \in BOOLEAN,
         NEW there \in BOOLEAN, NEW flag \in {"--host", "--ip"},
         NEW host \in {"127.0.0.1", "localhost"}
  PROVE  Addition(AllAdded(separated, port, strict, there, flag, host), separated, ~port)
<1>0. SUFFICES ASSUME NEW dashes, dashes = DashesAdded(separated),
                      NEW ports, ports = PortsAdded(port, strict),
                      NEW hosts, hosts = HostsAdded(there, flag, host)
               PROVE  Addition(dashes \o ports \o hosts, separated, ~port)
  BY Zenon DEF AllAdded
<1> DEFINE tail == dashes \o ports \o hosts
           d    == Len(dashes)
<1>1. /\ dashes \in ArgSeqs /\ d = (IF separated THEN 1 ELSE 0) /\ DOMAIN dashes = 1..d
      /\ \A k \in DOMAIN dashes : separated /\ k = 1 /\ dashes[k] = <<"--">>
      /\ separated => 1 \in DOMAIN dashes
  <2>1. <<"--">> \in ArgTexts
    BY OneWord, WordsAdded DEF AddedWords
  <2>2. CASE separated
    <3>1. dashes = << <<"--">> >>
      BY <2>2, <1>0 DEF DashesAdded
    <3>2. /\ dashes \in ArgSeqs /\ Len(dashes) = 1 /\ DOMAIN dashes = 1..1
          /\ dashes[1] = <<"--">>
      BY ONLY <2>1, <3>1, OneArg
    <3>3. \A k \in 1..1 : k = 1
      OBVIOUS
    <3> QED
      BY <2>2, <3>2, <3>3
  <2>3. CASE ~separated
    <3>1. dashes = <<>>
      BY <2>3, <1>0 DEF DashesAdded
    <3>2. dashes \in ArgSeqs /\ Len(dashes) = 0 /\ DOMAIN dashes = {} /\ 1..0 = {}
      BY ONLY <3>1, NoArgs
    <3> QED
      BY <2>3, <3>2
  <2> QED
    BY <2>2, <2>3
<1>2. /\ ports \in ArgSeqs /\ Len(ports) = (IF port THEN 0 ELSE IF strict THEN 3 ELSE 2)
      /\ DOMAIN ports = 1..Len(ports)
      /\ ~port => ports[1] = <<"--port">> /\ ports[2] = <<"PORT">>
      /\ \A k \in DOMAIN ports : \/ k = 1 /\ ports[k] = <<"--port">>
                                 \/ k > 1 /\ ports[k] \in {<<"PORT">>, <<"--strictPort">>}
  <2>1. <<"--port">> \in ArgTexts /\ <<"PORT">> \in ArgTexts /\ <<"--strictPort">> \in ArgTexts
    BY OneWord, WordsAdded DEF AddedWords
  <2>2. CASE port
    <3>1. ports = <<>>
      BY <2>2, <1>0 DEF PortsAdded
    <3>2. ports \in ArgSeqs /\ Len(ports) = 0 /\ DOMAIN ports = {} /\ 1..0 = {}
      BY ONLY <3>1, NoArgs
    <3> QED
      BY <2>2, <3>2
  <2>3. CASE ~port /\ strict
    <3>1. ports = << <<"--port">>, <<"PORT">>, <<"--strictPort">> >>
      BY <2>3, <1>0 DEF PortsAdded
    <3>2. /\ ports \in ArgSeqs /\ Len(ports) = 3 /\ DOMAIN ports = 1..3
          /\ ports[1] = <<"--port">> /\ ports[2] = <<"PORT">> /\ ports[3] = <<"--strictPort">>
      BY ONLY <2>1, <3>1, ThreeArgs
    <3>3. \A k \in 1..3 : k = 1 \/ (k > 1 /\ (k = 2 \/ k = 3))
      OBVIOUS
    <3> QED
      BY <2>3, <3>2, <3>3
  <2>4. CASE ~port /\ ~strict
    <3>1. ports = << <<"--port">>, <<"PORT">> >>
      BY <2>4, <1>0 DEF PortsAdded
    <3>2. /\ ports \in ArgSeqs /\ Len(ports) = 2 /\ DOMAIN ports = 1..2
          /\ ports[1] = <<"--port">> /\ ports[2] = <<"PORT">>
      BY ONLY <2>1, <3>1, TwoArgs
    <3>3. \A k \in 1..2 : k = 1 \/ (k > 1 /\ k = 2)
      OBVIOUS
    <3> QED
      BY <2>4, <3>2, <3>3
  <2> QED
    BY <2>2, <2>3, <2>4
<1>3. /\ hosts \in ArgSeqs /\ Len(hosts) \in Nat
      /\ \A k \in DOMAIN hosts : hosts[k] \in {<<flag>>, <<host>>}
  <2>1. <<flag>> \in ArgTexts /\ <<host>> \in ArgTexts
    BY OneWord, WordsAdded DEF AddedWords
  <2>2. CASE ~there
    <3>1. hosts = << <<flag>>, <<host>> >>
      BY <2>2, <1>0 DEF HostsAdded
    <3>2. /\ hosts \in ArgSeqs /\ Len(hosts) = 2 /\ DOMAIN hosts = 1..2
          /\ hosts[1] = <<flag>> /\ hosts[2] = <<host>>
      BY ONLY <2>1, <3>1, TwoArgs
    <3>3. \A k \in 1..2 : k = 1 \/ k = 2
      OBVIOUS
    <3> QED
      BY <3>2, <3>3
  <2>3. CASE there
    <3>1. hosts = <<>>
      BY <2>3, <1>0 DEF HostsAdded
    <3>2. hosts \in ArgSeqs /\ Len(hosts) = 0 /\ DOMAIN hosts = {}
      BY ONLY <3>1, NoArgs
    <3> QED
      BY <3>2
  <2> QED
    BY <2>2, <2>3
<1> HIDE DEF d
<1>4. /\ tail \in ArgSeqs /\ Len(tail) = d + Len(ports) + Len(hosts)
      /\ \A i \in DOMAIN dashes : tail[i] = dashes[i]
      /\ \A i \in DOMAIN ports : tail[d + i] = ports[i]
      /\ \A i \in DOMAIN hosts : tail[d + Len(ports) + i] = hosts[i]
      /\ \A i \in DOMAIN tail : \/ i \in DOMAIN dashes
                                \/ i - d \in DOMAIN ports
                                \/ i - d - Len(ports) \in DOMAIN hosts
  <2>1. /\ dashes \in Seq(ArgTexts) /\ ports \in Seq(ArgTexts) /\ hosts \in Seq(ArgTexts)
        /\ tail = dashes \o ports \o hosts
    BY <1>1, <1>2, <1>3 DEF ArgSeqs
  <2> HIDE DEF tail
  <2>2. /\ tail \in Seq(ArgTexts) /\ Len(tail) = Len(dashes) + Len(ports) + Len(hosts)
        /\ \A i \in DOMAIN dashes : tail[i] = dashes[i]
        /\ \A i \in DOMAIN ports : tail[Len(dashes) + i] = ports[i]
        /\ \A i \in DOMAIN hosts : tail[Len(dashes) + Len(ports) + i] = hosts[i]
        /\ \A i \in DOMAIN tail : \/ i \in DOMAIN dashes
                                  \/ i - Len(dashes) \in DOMAIN ports
                                  \/ i - Len(dashes) - Len(ports) \in DOMAIN hosts
    BY ONLY <2>1, RowOfThree, SMTT(30)
  <2> QED
    BY <2>2 DEF ArgSeqs, d
<1>5. DOMAIN tail = 1..(d + Len(ports) + Len(hosts))
  BY <1>4, ArgFacts
<1> HIDE DEF tail
<1>6. \A k \in DOMAIN tail :
        \/ separated /\ k = 1 /\ tail[k] = <<"--">>
        \/ ~port /\ k = d + 1 /\ tail[k] = <<"--port">>
        \/ tail[k] \in {<<"PORT">>, <<"--strictPort">>, <<flag>>, <<host>>}
  <2> SUFFICES ASSUME NEW k \in DOMAIN tail
               PROVE  \/ separated /\ k = 1 /\ tail[k] = <<"--">>
                      \/ ~port /\ k = d + 1 /\ tail[k] = <<"--port">>
                      \/ tail[k] \in {<<"PORT">>, <<"--strictPort">>, <<flag>>, <<host>>}
    OBVIOUS
  <2>1. k \in Int /\ d \in Nat /\ Len(ports) \in Nat
    BY <1>1, <1>2, <1>5
  <2>2. CASE k \in DOMAIN dashes
    <3>1. separated /\ k = 1 /\ dashes[k] = <<"--">>
      BY <2>2, <1>1
    <3>2. tail[k] = dashes[k]
      BY <2>2, <1>4
    <3> QED
      BY ONLY <3>1, <3>2
  <2>3. CASE k - d \in DOMAIN ports
    <3>1. PICK i \in DOMAIN ports : i = k - d
      BY <2>3
    <3>2. i \in Int /\ d + i = k /\ tail[d + i] = ports[i]
      BY <3>1, <2>1, <1>2, <1>4
    <3> QED
      BY <3>1, <3>2, <1>2
  <2>4. CASE k - d - Len(ports) \in DOMAIN hosts
    <3>1. PICK i \in DOMAIN hosts : i = k - d - Len(ports)
      BY <2>4
    <3>2. d + Len(ports) + i = k
      BY <3>1, <2>1
    <3> QED
      BY <3>2, <1>3, <1>4
  <2> QED
    BY <2>2, <2>3, <2>4, <1>4
<1>7. \A k \in DOMAIN tail : /\ tail[k] = <<tail[k][1]>>
                             /\ tail[k][1] \notin AllFlags \ {"--port"}
                             /\ tail[k][1] # "NSL_PORT"
  BY <1>6 DEF AllFlags, PortFlags
<1>8. separated => 1 \in DOMAIN tail /\ tail[1] = <<"--">>
  <2> SUFFICES ASSUME separated PROVE 1 \in DOMAIN tail /\ tail[1] = <<"--">>
    OBVIOUS
  <2>1. 1 \in DOMAIN dashes /\ dashes[1] = <<"--">>
    BY <1>1
  <2>2. d = 1 /\ Len(ports) \in Nat /\ Len(hosts) \in Nat
    BY <1>1, <1>2, <1>3
  <2>3. 1 \in 1..(d + Len(ports) + Len(hosts))
    BY ONLY <2>2
  <2>4. tail[1] = dashes[1]
    BY <2>1, <1>4
  <2> QED
    BY <2>1, <2>3, <2>4, <1>5
<1>9. ~port => /\ d + 1 \in DOMAIN tail /\ tail[d + 1] = <<"--port">>
                /\ d + 2 \in DOMAIN tail /\ tail[d + 2] = <<"PORT">>
  <2> SUFFICES ASSUME ~port
               PROVE  /\ d + 1 \in DOMAIN tail /\ tail[d + 1] = <<"--port">>
                      /\ d + 2 \in DOMAIN tail /\ tail[d + 2] = <<"PORT">>
    OBVIOUS
  <2>1. d \in Nat /\ Len(ports) \in Nat /\ Len(ports) >= 2 /\ Len(hosts) \in Nat
    BY <1>1, <1>2, <1>3
  <2>2. /\ 1 \in 1..Len(ports) /\ 2 \in 1..Len(ports)
        /\ d + 1 \in 1..(d + Len(ports) + Len(hosts))
        /\ d + 2 \in 1..(d + Len(ports) + Len(hosts))
    BY ONLY <2>1
  <2>3. 1 \in DOMAIN ports /\ 2 \in DOMAIN ports
    BY <2>2, <1>2
  <2>4. tail[d + 1] = ports[1] /\ tail[d + 2] = ports[2]
    BY <2>3, <1>4
  <2>5. ports[1] = <<"--port">> /\ ports[2] = <<"PORT">>
    BY <1>2
  <2> QED
    BY <2>2, <2>4, <2>5, <1>5
<1>10. \A j \in DOMAIN tail : tail[j][1] = "--port" => ~port /\ j = d + 1
  BY <1>6
<1>11. separated => d + 1 > 1
  BY <1>1
<1>12. d + 1 + 1 = d + 2
  BY <1>1
<1>13. Addition(tail, separated, ~port)
  BY <1>4, <1>7, <1>8, <1>9, <1>10, <1>11, <1>12 DEF Addition
<1> QED
  BY <1>13 DEF tail

LEMMA Injected ==
  ASSUME NEW args \in ArgSeqs, NEW script
  PROVE  \E tail \in ArgSeqs :
           /\ InjectFrameworkFlags(args, script) = args \o tail
           /\ \/ tail = <<>> /\ (~KnownFor(args, script) \/ HasFlag(args, PortFlags))
              \/ /\ KnownFor(args, script)
                 /\ Addition(tail, NeedsSeparator(args) /\ Separators(args) = {},
                             ~HasFlag(args, PortFlags))
<1> DEFINE direct == DetectFramework(args)
           fw     == IF direct.known THEN direct ELSE DetectFrameworkViaPackageJson(args, script)
           port   == HasFlag(args, PortFlags)
           host   == HasFlag(args, {fw.host_flag})
           dashes == IF NeedsSeparator(args) /\ Separators(args) = {} THEN << <<"--">> >> ELSE <<>>
           ports  == IF port THEN <<>>
                     ELSE IF fw.strict_port
                       THEN << <<"--port">>, <<"PORT">>, <<"--strictPort">> >>
                     ELSE << <<"--port">>, <<"PORT">> >>
           hosts  == IF host THEN <<>> ELSE << <<fw.host_flag>>, <<fw.host>> >>
<1>1. /\ fw.known \in BOOLEAN /\ (fw.known <=> KnownFor(args, script))
      /\ fw.known => /\ fw.strict_port \in BOOLEAN
                     /\ fw.host_flag \in {"--host", "--ip"}
                     /\ fw.host \in {"127.0.0.1", "localhost"}
  <2>1. fw = direct \/ fw = DetectFramework(<<script>>) \/ fw = NoFramework
    BY DEF DetectFrameworkViaPackageJson
  <2>2. fw.known <=> KnownFor(args, script)
    BY DEF KnownFor
  <2>3. CASE fw = direct
    <3> HIDE DEF fw
    <3> QED
      BY <2>2, <2>3, Detected
  <2>4. CASE fw = DetectFramework(<<script>>)
    <3> HIDE DEF fw
    <3> QED
      BY <2>2, <2>4, Detected
  <2>5. CASE fw = NoFramework
    <3> HIDE DEF fw
    <3> QED
      BY <2>2, <2>5 DEF NoFramework
  <2> QED
    BY <2>1, <2>3, <2>4, <2>5
<1>2. InjectFrameworkFlags(args, script) =
        IF ~fw.known \/ (port /\ host) THEN args ELSE args \o (dashes \o ports \o hosts)
  BY DEF InjectFrameworkFlags
<1>3. CASE ~fw.known \/ (port /\ host)
  <2>1. <<>> \in ArgSeqs /\ args = args \o <<>>
    BY DEF ArgSeqs
  <2> QED
    BY <2>1, <1>1, <1>2, <1>3
<1>4. CASE ~(~fw.known \/ (port /\ host))
  <2>1. fw.known
    BY <1>4, <1>1
  <2>2. Addition(dashes \o ports \o hosts, NeedsSeparator(args) /\ Separators(args) = {}, ~port)
    <3> DEFINE separated == NeedsSeparator(args) /\ Separators(args) = {}
    <3>0. /\ fw.strict_port \in BOOLEAN /\ fw.host_flag \in {"--host", "--ip"}
          /\ fw.host \in {"127.0.0.1", "localhost"}
      <4> HIDE DEF fw
      <4> QED
        BY <2>1, <1>1
    <3>1. separated \in BOOLEAN /\ port \in BOOLEAN /\ host \in BOOLEAN
      BY DEF NeedsSeparator, HasFlag
    <3>2. PICK strict \in BOOLEAN, flag \in {"--host", "--ip"}, name \in {"127.0.0.1", "localhost"} :
            strict = fw.strict_port /\ flag = fw.host_flag /\ name = fw.host
      BY <3>0
    <3>3. /\ dashes = IF separated THEN << <<"--">> >> ELSE <<>>
          /\ ports = IF port THEN <<>>
                     ELSE IF strict THEN << <<"--port">>, <<"PORT">>, <<"--strictPort">> >>
                     ELSE << <<"--port">>, <<"PORT">> >>
          /\ hosts = IF host THEN <<>> ELSE << <<flag>>, <<name>> >>
      <4> HIDE DEF fw, host
      <4> QED
        BY <3>2
    <3>4. PICK sep \in BOOLEAN, has \in BOOLEAN, there \in BOOLEAN :
            sep = separated /\ has = port /\ there = host
      BY <3>1
    <3>5. PICK d, p, h : d = dashes /\ p = ports /\ h = hosts
      OBVIOUS
    <3> HIDE DEF separated, fw, port, host, dashes, ports, hosts
    <3>6. /\ d = DashesAdded(sep) /\ p = PortsAdded(has, strict)
          /\ h = HostsAdded(there, flag, name)
      BY <3>3, <3>4, <3>5 DEF DashesAdded, PortsAdded, HostsAdded
    <3>7. Addition(d \o p \o h, sep, ~has)
      <4>1. Addition(AllAdded(sep, has, strict, there, flag, name), sep, ~has)
        BY Added
      <4>2. AllAdded(sep, has, strict, there, flag, name) = d \o p \o h
        BY ONLY <3>6 DEF AllAdded
      <4> QED
        BY <4>1, <4>2
    <3>8. Addition(dashes \o ports \o hosts, separated, ~port)
      BY <3>4, <3>5, <3>7
    <3> QED
      BY <3>8 DEF separated
  <2>3. dashes \o ports \o hosts \in ArgSeqs
    BY <2>2 DEF Addition
  <2> HIDE DEF fw, host, dashes, ports, hosts
  <2> QED
    BY <2>1, <2>2, <2>3, <1>1, <1>2, <1>4
<1> QED
  BY <1>3, <1>4

\* Placeholders are filled in where they are, nothing else changes.
LEMMA FilledIn ==
  ASSUME NEW args \in ArgSeqs, \A i \in DOMAIN args : Word1(args[i]) # "--port=PORT",
         NEW final, final = ReplacePortPlaceholders(args)
  PROVE  /\ final \in ArgSeqs /\ Len(final) = Len(args) /\ DOMAIN final = DOMAIN args
         /\ \A i \in DOMAIN args :
              /\ Len(final[i]) = Len(args[i])
              /\ Word1(final[i]) = Replaced(Word1(args[i]))
              /\ Word1(final[i]) \in AllFlags <=> Word1(args[i]) \in PortFlags
              /\ \A w : args[i] = <<w>> => final[i] = <<Replaced(w)>>
              /\ \A w : final[i] = <<w>> /\ w \notin {"PORT", "--port=PORT"} => args[i] = <<w>>
<1>1. /\ Len(args) \in Nat /\ DOMAIN args = 1..Len(args)
      /\ final = [i \in DOMAIN args |-> [j \in DOMAIN args[i] |-> Replaced(args[i][j])]]
  BY ArgFacts DEF ReplacePortPlaceholders
<1>2. \A w : w \in AllWords => Replaced(w) \in AllWords
  BY WordsAdded DEF Replaced, AddedWords
<1>3. ASSUME NEW i \in DOMAIN args
      PROVE  /\ final[i] \in ArgTexts /\ Len(final[i]) = Len(args[i])
             /\ Word1(final[i]) = Replaced(Word1(args[i]))
             /\ \A w : args[i] = <<w>> => final[i] = <<Replaced(w)>>
             /\ \A w : final[i] = <<w>> /\ w \notin {"PORT", "--port=PORT"} => args[i] = <<w>>
  <2>1. PICK text : text = args[i]
    OBVIOUS
  <2>2. /\ text \in Seq(AllWords) /\ Len(text) \in Nat /\ Len(text) >= 1
        /\ DOMAIN text = 1..Len(text) /\ 1 \in DOMAIN text
    BY <2>1, ArgFacts
  <2>3. final[i] = [j \in 1..Len(text) |-> Replaced(text[j])]
    BY <1>1, <2>1, <2>2
  <2>4. final[i] \in Seq(AllWords) /\ Len(final[i]) = Len(text)
    BY <1>2, <2>2, <2>3
  <2>5. final[i][1] = Replaced(text[1])
    BY <2>2, <2>3
  <2>6. final[i] # <<>>
    BY <2>2, <2>4
  <2>7. ASSUME NEW w, text = <<w>> PROVE final[i] = <<Replaced(w)>>
    <3>1. Len(text) = 1 /\ text[1] = w
      BY <2>7
    <3> QED
      BY <3>1, <2>3
  <2>8. ASSUME NEW w, final[i] = <<w>>, w \notin {"PORT", "--port=PORT"} PROVE text = <<w>>
    <3>1. Len(text) = 1 /\ Replaced(text[1]) = w
      BY <2>4, <2>5, <2>8
    <3>2. text[1] = w
      BY <3>1, <2>8 DEF Replaced
    <3>3. text = <<text[1]>>
      BY <3>1, <2>2
    <3> QED
      BY <3>2, <3>3
  <2> QED
    BY <2>1, <2>4, <2>5, <2>6, <2>7, <2>8 DEF ArgTexts, Word1
<1>4. final \in ArgSeqs /\ Len(final) = Len(args) /\ DOMAIN final = DOMAIN args
  BY <1>1, <1>3 DEF ArgSeqs
<1>5. \A i \in DOMAIN args : Word1(final[i]) \in AllFlags <=> Word1(args[i]) \in PortFlags
  <2> SUFFICES ASSUME NEW i \in DOMAIN args
               PROVE  Word1(final[i]) \in AllFlags <=> Word1(args[i]) \in PortFlags
    OBVIOUS
  <2>1. Word1(final[i]) = Replaced(Word1(args[i])) /\ Word1(args[i]) # "--port=PORT"
    BY <1>3
  <2> HIDE DEF Word1
  <2> QED
    BY <2>1 DEF Replaced, AllFlags, PortFlags
<1> QED
  BY <1>3, <1>4, <1>5

\* What the manager hands on begins with the first "--", or behind the script's name.
LEMMA FirstHandedOn ==
  ASSUME NEW args \in ArgSeqs
  PROVE  /\ ~HoldsBack(args) => HandedFrom(args) = IF Arg(args, 2) = <<"run">> THEN 3 ELSE 2
         /\ HoldsBack(args) /\ Separators(args) = {} => HandedFrom(args) = Len(args)
         /\ HoldsBack(args) /\ Separators(args) # {} =>
              /\ HandedFrom(args) \in Separators(args)
              /\ \A i \in Separators(args) : HandedFrom(args) <= i
<1>1. CASE HoldsBack(args) /\ Separators(args) # {}
  <2>1. Separators(args) \in SUBSET Nat
    BY ArgFacts DEF Separators
  <2>2. \E i \in Separators(args) : \A j \in Separators(args) : i <= j
    BY <1>1, <2>1, Least
  <2>3. HandedFrom(args) = CHOOSE i \in Separators(args) : \A j \in Separators(args) : i <= j
    BY <1>1 DEF HandedFrom
  <2> QED
    BY <1>1, <2>2, <2>3
<1>2. CASE ~(HoldsBack(args) /\ Separators(args) # {})
  BY <1>2 DEF HandedFrom
<1> QED
  BY <1>1, <1>2

LEMMA Latest ==
  ASSUME NEW m \in Nat, NEW T \in SUBSET (1..m), T # {}
  PROVE  LastOf(T) \in T /\ \A i \in T : i <= LastOf(T)
<1> DEFINE U == {m - i : i \in T}
<1>1. U \in SUBSET Nat /\ U # {}
  <2>1. \A i \in T : m - i \in Nat
    OBVIOUS
  <2> QED
    BY <2>1
<1> HIDE DEF U
<1>2. PICK u \in U : \A v \in U : u <= v
  BY <1>1, Least
<1>3. PICK i \in T : u = m - i
  BY <1>2 DEF U
<1>4. \A j \in T : j <= i
  <2> SUFFICES ASSUME NEW j \in T PROVE j <= i
    OBVIOUS
  <2>1. m - i <= m - j
    BY <1>2, <1>3 DEF U
  <2> QED
    BY <2>1
<1> QED
  BY <1>4 DEF LastOf

LEMMA InLarger ==
  ASSUME NEW A, NEW B, NEW s \in Seq(A), \A i \in DOMAIN s : s[i] \in B
  PROVE  s \in Seq(B)
OBVIOUS

LEMMA LineType ==
  ASSUME NEW words \in Seq(AllWords)
  PROVE  /\ Line(words) \in ArgSeqs /\ Len(Line(words)) = Len(words)
         /\ \A i \in DOMAIN words : Line(words)[i] = <<words[i]>>
<1>1. \A i \in DOMAIN words : <<words[i]>> \in ArgTexts
  BY OneWord
<1>2. Line(words) = [i \in 1..Len(words) |-> <<words[i]>>] /\ Len(words) \in Nat
  BY DEF Line
<1> QED
  BY <1>1, <1>2 DEF ArgSeqs

LEMMA CommandTypes ==
  ASSUME NEW cmd \in Commands
  PROVE  /\ cmd.args \in ArgSeqs /\ cmd.args # <<>> /\ Len(cmd.args) >= 1 /\ 1 \in DOMAIN cmd.args
         /\ \A i \in DOMAIN cmd.args : Word1(cmd.args[i]) # "--port=PORT"
         /\ cmd.script \in Seq(AllWords)
         /\ \A i \in DOMAIN cmd.script : cmd.script[i] # "--port=PORT"
<1> DEFINE args   == cmd.args
           script == cmd.script
<1>1. /\ IsSeq(args) /\ args # <<>> /\ IsSeq(script)
      /\ \A i \in DOMAIN args : IsSeq(args[i]) /\ args[i] # <<>>
      /\ ~Mentions(args \o Line(script), "--port=PORT")
  BY CommandsAssumption
<1>2. WordsOf(args) \subseteq AllWords /\ WordsOf(Line(script)) \subseteq AllWords
  BY DEF AllWords
<1>3. \A i \in DOMAIN args : args[i] \in ArgTexts
  <2> SUFFICES ASSUME NEW i \in DOMAIN args PROVE args[i] \in ArgTexts
    OBVIOUS
  <2>1. PICK text : text = args[i]
    OBVIOUS
  <2>2. text \in Seq({text[j] : j \in DOMAIN text}) /\ text # <<>>
    BY <1>1, <2>1 DEF IsSeq
  <2>3. \A j \in DOMAIN text : text[j] \in AllWords
    BY <1>2, <2>1 DEF WordsOf
  <2> QED
    BY <2>1, <2>2, <2>3, InLarger DEF ArgTexts
<1>4. args \in ArgSeqs
  <2>1. args \in Seq({args[i] : i \in DOMAIN args})
    BY <1>1 DEF IsSeq
  <2> QED
    BY <2>1, <1>3, InLarger DEF ArgSeqs
<1>5. script \in Seq(AllWords)
  <2>1. script \in Seq({script[i] : i \in DOMAIN script})
    BY <1>1 DEF IsSeq
  <2>2. DOMAIN Line(script) = DOMAIN script /\ \A i \in DOMAIN script : Line(script)[i] = <<script[i]>>
    BY DEF Line
  <2>3. \A i \in DOMAIN script : script[i] \in AllWords
    <3> SUFFICES ASSUME NEW i \in DOMAIN script PROVE script[i] \in AllWords
      OBVIOUS
    <3>1. Line(script)[i] = <<script[i]>> /\ i \in DOMAIN Line(script)
      BY <2>2
    <3>2. 1 \in DOMAIN Line(script)[i] /\ Line(script)[i][1] = script[i]
      BY <3>1
    <3> QED
      BY <3>1, <3>2, <1>2 DEF WordsOf
  <2> QED
    BY <2>1, <2>3, InLarger
<1>6. Line(script) \in ArgSeqs /\ Len(Line(script)) = Len(script)
      /\ \A i \in DOMAIN script : Line(script)[i] = <<script[i]>>
  BY <1>5, LineType
<1>7. PICK all : /\ all = args \o Line(script) /\ DOMAIN all = 1..(Len(args) + Len(script))
                 /\ \A i \in 1..Len(args) : all[i] = args[i]
                 /\ \A i \in 1..Len(script) : all[Len(args) + i] = <<script[i]>>
  <2>1. PICK line : line = Line(script)
    OBVIOUS
  <2>2. args \in Seq(ArgTexts) /\ line \in Seq(ArgTexts) /\ Len(line) = Len(script)
        /\ \A i \in 1..Len(script) : line[i] = <<script[i]>>
    BY <1>4, <1>5, <1>6, <2>1 DEF ArgSeqs
  <2>5. args \in Seq(ArgTexts) /\ line \in Seq(ArgTexts)
    BY <2>2
  <2> HIDE DEF args, script
  <2>3. PICK all : all = args \o line
    OBVIOUS
  <2>4. /\ DOMAIN all = 1..(Len(args) + Len(line))
        /\ \A i \in 1..Len(args) : all[i] = args[i]
        /\ \A i \in 1..Len(line) : all[Len(args) + i] = line[i]
    BY ONLY <2>5, <2>3, RowOfTwo
  <2> QED
    BY <2>1, <2>2, <2>3, <2>4, ZenonT(60)
<1>8. Len(args) \in Nat /\ Len(script) \in Nat /\ DOMAIN args = 1..Len(args)
      /\ DOMAIN script = 1..Len(script)
  BY <1>4, <1>5, ArgFacts
<1>12. args # <<>> /\ Len(args) >= 1 /\ 1 \in DOMAIN args
  BY <1>1, <1>4, <1>8
<1>9. \A i \in DOMAIN all : \A j \in DOMAIN all[i] : all[i][j] # "--port=PORT"
  BY <1>1, <1>7 DEF Mentions
<1> HIDE DEF args, script
<1>10. \A i \in DOMAIN args : Word1(args[i]) # "--port=PORT"
  <2> SUFFICES ASSUME NEW i \in DOMAIN args PROVE Word1(args[i]) # "--port=PORT"
    OBVIOUS
  <2>1. i \in DOMAIN all /\ all[i] = args[i]
    BY <1>7, <1>8
  <2>2. 1 \in DOMAIN args[i]
    BY <1>4, ArgFacts
  <2> QED
    BY <1>9, <2>1, <2>2 DEF Word1
<1>11. \A i \in DOMAIN script : script[i] # "--port=PORT"
  <2> SUFFICES ASSUME NEW i \in DOMAIN script PROVE script[i] # "--port=PORT"
    OBVIOUS
  <2>1. Len(args) + i \in DOMAIN all /\ all[Len(args) + i] = <<script[i]>>
    BY <1>7, <1>8
  <2>2. 1 \in DOMAIN <<script[i]>> /\ <<script[i]>>[1] = script[i]
    OBVIOUS
  <2> QED
    BY <1>9, <2>1, <2>2
<1> QED
  BY <1>4, <1>5, <1>10, <1>11, <1>12 DEF args, script

\* What is handed to the shell for a command line.
Given(args, script, final, tail) ==
  /\ \/ tail = <<>> /\ (~KnownFor(args, script) \/ HasFlag(args, PortFlags))
     \/ /\ KnownFor(args, script)
        /\ Addition(tail, HoldsBack(args) /\ Separators(args) = {}, ~HasFlag(args, PortFlags))
  /\ tail \in ArgSeqs /\ final \in ArgSeqs
  /\ Len(final) = Len(args) + Len(tail)
  /\ \A i \in DOMAIN args :
       /\ Len(final[i]) = Len(args[i])
       /\ Word1(final[i]) \in AllFlags <=> Word1(args[i]) \in PortFlags
       /\ \A w : args[i] = <<w>> => final[i] = <<Replaced(w)>>
       /\ \A w : final[i] = <<w>> /\ w \notin {"PORT", "--port=PORT"} => args[i] = <<w>>
  /\ \A i \in DOMAIN tail : final[Len(args) + i] = tail[i]

LEMMA LineGiven ==
  ASSUME NEW cmd \in Commands, ~Quoted(cmd), NEW final, final = FinalArgs(cmd.args, cmd.script)
  PROVE  ShellArgs(final) = final /\ \E tail : Given(cmd.args, cmd.script, final, tail)
<1> DEFINE args     == cmd.args
           injected == InjectFrameworkFlags(args, cmd.script)
<1>1. /\ args \in ArgSeqs /\ Len(args) \in Nat /\ Len(args) >= 1 /\ DOMAIN args = 1..Len(args)
      /\ \A i \in DOMAIN args : Word1(args[i]) # "--port=PORT"
  BY CommandTypes, ArgFacts
<1>2. PICK tail \in ArgSeqs :
        /\ injected = args \o tail
        /\ \/ tail = <<>> /\ (~KnownFor(args, cmd.script) \/ HasFlag(args, PortFlags))
           \/ /\ KnownFor(args, cmd.script)
              /\ Addition(tail, NeedsSeparator(args) /\ Separators(args) = {},
                          ~HasFlag(args, PortFlags))
  BY <1>1, Injected
<1>0. Len(args[1]) = 1
  <2>1. Len(args[1]) \in Nat /\ Len(args[1]) >= 1
    BY <1>1, ArgFacts
  <2>2. ~(Len(args[1]) > 1)
    BY DEF Quoted
  <2>3. PICK n : n = Len(args[1])
    OBVIOUS
  <2>4. n \in Nat /\ n >= 1 /\ ~(n > 1)
    BY <2>1, <2>2, <2>3
  <2>5. n = 1
    BY <2>4
  <2> QED
    BY <2>3, <2>5
<1>3. HoldsBack(args) <=> NeedsSeparator(args)
  BY DEF HoldsBack, NeedsSeparator
<1>4. \/ tail = <<>> /\ (~KnownFor(args, cmd.script) \/ HasFlag(args, PortFlags))
      \/ /\ KnownFor(args, cmd.script)
         /\ Addition(tail, HoldsBack(args) /\ Separators(args) = {}, ~HasFlag(args, PortFlags))
  <2>1. (HoldsBack(args) /\ Separators(args) = {}) = (NeedsSeparator(args) /\ Separators(args) = {})
    BY <1>3
  <2> QED
    BY <1>2, <2>1
<1>5. /\ Len(tail) \in Nat /\ DOMAIN tail = 1..Len(tail)
      /\ \A k \in DOMAIN tail : /\ tail[k] = <<tail[k][1]>>
                                /\ tail[k][1] \notin AllFlags \ {"--port"}
                                /\ tail[k][1] # "NSL_PORT"
  BY <1>4, ArgFacts DEF Addition
<1>6. /\ injected \in ArgSeqs /\ Len(injected) = Len(args) + Len(tail)
      /\ DOMAIN injected = 1..(Len(args) + Len(tail))
      /\ \A i \in 1..Len(args) : injected[i] = args[i]
      /\ \A i \in 1..Len(tail) : injected[Len(args) + i] = tail[i]
  <2>1. args \in Seq(ArgTexts) /\ tail \in Seq(ArgTexts)
    BY <1>1 DEF ArgSeqs
  <2> HIDE DEF args, injected
  <2>2. /\ injected \in Seq(ArgTexts) /\ Len(injected) = Len(args) + Len(tail)
        /\ DOMAIN injected = 1..(Len(args) + Len(tail))
        /\ \A i \in 1..Len(args) : injected[i] = args[i]
        /\ \A i \in 1..Len(tail) : injected[Len(args) + i] = tail[i]
    BY ONLY <2>1, <1>2, RowOfTwo
  <2> QED
    BY <2>2 DEF ArgSeqs
<1> HIDE DEF args, injected
<1>7. \A i \in DOMAIN injected : i \in 1..Len(args) \/ i - Len(args) \in 1..Len(tail)
  BY <1>1, <1>5, <1>6
<1>8. \A i \in DOMAIN injected : Word1(injected[i]) # "--port=PORT"
  <2> SUFFICES ASSUME NEW i \in DOMAIN injected PROVE Word1(injected[i]) # "--port=PORT"
    OBVIOUS
  <2>1. CASE i \in 1..Len(args)
    BY <2>1, <1>1, <1>6
  <2>2. CASE i - Len(args) \in 1..Len(tail)
    <3>1. PICK k \in 1..Len(tail) : k = i - Len(args)
      BY <2>2
    <3>2. injected[i] = tail[k] /\ tail[k][1] \notin AllFlags \ {"--port"}
      BY <3>1, <1>1, <1>5, <1>6
    <3> QED
      BY <3>2 DEF AllFlags, Word1
  <2> QED
    BY <1>7, <2>1, <2>2
<1>9. /\ final \in ArgSeqs /\ Len(final) = Len(injected) /\ DOMAIN final = DOMAIN injected
      /\ \A i \in DOMAIN injected :
           /\ Len(final[i]) = Len(injected[i])
           /\ Word1(final[i]) \in AllFlags <=> Word1(injected[i]) \in PortFlags
           /\ \A w : injected[i] = <<w>> => final[i] = <<Replaced(w)>>
           /\ \A w : final[i] = <<w>> /\ w \notin {"PORT", "--port=PORT"} => injected[i] = <<w>>
  <2>1. final = ReplacePortPlaceholders(injected)
    BY DEF FinalArgs, injected, args
  <2>2. injected \in ArgSeqs
    BY <1>6
  <2>3. /\ final \in ArgSeqs /\ Len(final) = Len(injected) /\ DOMAIN final = DOMAIN injected
        /\ \A i \in DOMAIN injected :
             /\ Len(final[i]) = Len(injected[i])
             /\ Word1(final[i]) = Replaced(Word1(injected[i]))
             /\ Word1(final[i]) \in AllFlags <=> Word1(injected[i]) \in PortFlags
             /\ \A w : injected[i] = <<w>> => final[i] = <<Replaced(w)>>
             /\ \A w : final[i] = <<w>> /\ w \notin {"PORT", "--port=PORT"} => injected[i] = <<w>>
    BY ONLY <2>1, <2>2, <1>8, FilledIn
  <2> QED
    BY <2>3
<1>10. \A i \in DOMAIN args : i \in DOMAIN injected /\ injected[i] = args[i]
  BY <1>1, <1>5, <1>6
<1>11. \A i \in DOMAIN args :
         /\ Len(final[i]) = Len(args[i])
         /\ Word1(final[i]) \in AllFlags <=> Word1(args[i]) \in PortFlags
         /\ \A w : args[i] = <<w>> => final[i] = <<Replaced(w)>>
         /\ \A w : final[i] = <<w>> /\ w \notin {"PORT", "--port=PORT"} => args[i] = <<w>>
  BY <1>9, <1>10
<1>12. \A i \in DOMAIN tail : final[Len(args) + i] = tail[i]
  <2> SUFFICES ASSUME NEW i \in DOMAIN tail PROVE final[Len(args) + i] = tail[i]
    OBVIOUS
  <2>1. PICK w : w = tail[i][1]
    OBVIOUS
  <2>2. Len(args) + i \in DOMAIN injected /\ injected[Len(args) + i] = <<w>>
    BY <1>1, <1>5, <1>6, <2>1
  <2>3. w # "NSL_PORT" /\ w # "--port=NSL_PORT"
    BY <1>5, <2>1 DEF AllFlags, PortFlags
  <2>4. Replaced(w) = w
    BY <2>3 DEF Replaced
  <2> QED
    BY <1>5, <1>9, <2>1, <2>2, <2>4
<1>13. ShellArgs(final) = final
  <2>1. CASE Len(final) = 1
    <3>1. Len(args) = 1 /\ 1 \in DOMAIN args
      BY <2>1, <1>1, <1>5, <1>6, <1>9
    <3>2. Len(final[1]) = 1
      BY <3>1, <1>0, <1>11
    <3>3. PICK text : text = final[1]
      OBVIOUS
    <3>4. text \in Seq(AllWords) /\ Len(text) = 1
      BY <3>1, <3>2, <3>3, <1>9, <1>10, ArgFacts
    <3>5. Line(text) = << <<text[1]>> >> /\ text = <<text[1]>>
      BY <3>4 DEF Line
    <3>6. final \in Seq(ArgTexts)
      BY <1>9 DEF ArgSeqs
    <3>7. final = <<text>>
      BY <2>1, <3>3, <3>6
    <3> QED
      BY <2>1, <3>3, <3>5, <3>7 DEF ShellArgs
  <2>2. CASE Len(final) # 1
    BY <2>2 DEF ShellArgs
  <2> QED
    BY <2>1, <2>2
<1> QED
  BY <1>4, <1>6, <1>9, <1>11, <1>12, <1>13 DEF Given, args

LEMMA GivenFacts ==
  ASSUME NEW args \in ArgSeqs, NEW script, NEW final, NEW tail, Given(args, script, final, tail)
  PROVE  /\ final \in ArgSeqs /\ tail \in ArgSeqs /\ Len(args) \in Nat /\ Len(tail) \in Nat
         /\ DOMAIN args = 1..Len(args) /\ DOMAIN tail = 1..Len(tail)
         /\ Len(final) = Len(args) + Len(tail) /\ DOMAIN final = 1..(Len(args) + Len(tail))
         /\ \A i \in DOMAIN args : i \in DOMAIN final
         /\ \A i \in DOMAIN tail : Len(args) + i \in DOMAIN final
         /\ \A i \in DOMAIN args :
              \A w : w \notin {"PORT", "--port=PORT", "NSL_PORT", "--port=NSL_PORT"} =>
                (final[i] = <<w>> <=> args[i] = <<w>>)
<1>1. /\ final \in ArgSeqs /\ tail \in ArgSeqs /\ Len(args) \in Nat /\ Len(tail) \in Nat
      /\ DOMAIN args = 1..Len(args) /\ DOMAIN tail = 1..Len(tail)
      /\ Len(final) = Len(args) + Len(tail) /\ DOMAIN final = 1..(Len(args) + Len(tail))
  BY ArgFacts DEF Given
<1>2. \A i \in DOMAIN args : i \in DOMAIN final
  BY <1>1
<1>3. \A i \in DOMAIN tail : Len(args) + i \in DOMAIN final
  BY <1>1
<1>4. \A i \in DOMAIN args :
        \A w : w \notin {"PORT", "--port=PORT", "NSL_PORT", "--port=NSL_PORT"} =>
          (final[i] = <<w>> <=> args[i] = <<w>>)
  <2> SUFFICES ASSUME NEW i \in DOMAIN args, NEW w,
                      w \notin {"PORT", "--port=PORT", "NSL_PORT", "--port=NSL_PORT"}
               PROVE  final[i] = <<w>> <=> args[i] = <<w>>
    OBVIOUS
  <2>1. Replaced(w) = w
    BY DEF Replaced
  <2>2. /\ args[i] = <<w>> => final[i] = <<Replaced(w)>>
        /\ final[i] = <<w>> => args[i] = <<w>>
    BY DEF Given
  <2> QED
    BY <2>1, <2>2
<1> QED
  BY <1>1, <1>2, <1>3, <1>4

\* Every flag that counts is behind what a package manager keeps.
LEMMA NothingIsKept ==
  ASSUME NEW cmd \in Commands, ~OwnPort(cmd), ~Hidden(cmd), cmd.args[1] \in Managers,
         NEW final, NEW tail, Given(cmd.args, cmd.script, final, tail)
  PROVE  /\ HandedFrom(final) \in Nat /\ HandedFrom(final) <= Len(final)
         /\ HasFlag(cmd.args, PortFlags) => HandedFrom(final) < LastOf(FlagsIn(cmd.args))
         /\ \A k \in DOMAIN tail :
              (HoldsBack(cmd.args) /\ Separators(cmd.args) = {} => tail[1] = <<"--">> /\ k > 1)
                => HandedFrom(final) < Len(cmd.args) + k
<1> DEFINE args == cmd.args
           m    == Len(args)
           n    == HandedFrom(final)
<1>1. /\ args \in ArgSeqs /\ final \in ArgSeqs /\ m \in Nat /\ Len(tail) \in Nat
      /\ DOMAIN args = 1..m /\ DOMAIN tail = 1..Len(tail)
      /\ Len(final) = m + Len(tail) /\ DOMAIN final = 1..(m + Len(tail))
      /\ \A i \in DOMAIN args : i \in DOMAIN final
      /\ \A i \in DOMAIN tail : m + i \in DOMAIN final
  BY CommandTypes, GivenFacts, SMTT(30)
<1>2. \A i \in DOMAIN args :
        \A w : w \notin {"PORT", "--port=PORT", "NSL_PORT", "--port=NSL_PORT"} =>
          (final[i] = <<w>> <=> args[i] = <<w>>)
  <2>1. args \in ArgSeqs /\ Given(args, cmd.script, final, tail)
    BY <1>1
  <2> HIDE DEF args
  <2> QED
    BY ONLY <2>1, GivenFacts
<1>3. RunsScript(args)
  BY CommandsAssumption DEF Hidden
<1> HIDE DEF args
<1>4. 1 \in DOMAIN args /\ 2 \in DOMAIN args /\ (Arg(args, 2) = <<"run">> => m >= 3)
  <2>1. CASE Arg(args, 2) = <<"run">> /\ m >= 3
    BY <2>1, <1>1
  <2>2. CASE Word1(Arg(args, 2)) \notin Dashed \cup {"", "run"}
    <3>0. PICK a : a = Arg(args, 2)
      OBVIOUS
    <3>1. a # <<"">> /\ a # <<"run">>
      <4>1. a[1] # "" /\ a[1] # "run"
        BY <2>2, <3>0 DEF Word1
      <4>2. ASSUME a = <<"">> PROVE FALSE
        BY <4>1, <4>2
      <4>3. ASSUME a = <<"run">> PROVE FALSE
        BY <4>1, <4>3
      <4> QED
        BY <4>2, <4>3
    <3>2. 2 \in DOMAIN args
      BY <3>0, <3>1 DEF Arg
    <3>3. 1 \in DOMAIN args
      BY <3>2, <1>1
    <3> QED
      BY <3>0, <3>1, <3>2, <3>3
  <2> QED
    BY <1>3, <2>1, <2>2 DEF RunsScript
<1>5. Arg(final, 1) = final[1] /\ Arg(args, 1) = args[1]
      /\ Arg(final, 2) = final[2] /\ Arg(args, 2) = args[2]
  BY <1>1, <1>4 DEF Arg
<1>6. (Arg(final, 2) = <<"run">> <=> Arg(args, 2) = <<"run">>) /\ (HoldsBack(final) <=> HoldsBack(args))
  <2>1. \A w \in {"npm", "pnpm", "yarn"} : final[1] = <<w>> <=> args[1] = <<w>>
    BY <1>2, <1>4
  <2>2. final[2] = <<"run">> <=> args[2] = <<"run">>
    BY <1>2, <1>4
  <2> QED
    BY <2>1, <2>2, <1>5 DEF HoldsBack
<1>7. Separators(args) \subseteq Separators(final)
  BY <1>1, <1>2 DEF Separators
<1>8. m >= 2
  BY <1>1, <1>4
<1>9. CASE ~HoldsBack(args)
  <2>1. /\ HandedFrom(args) = IF Arg(args, 2) = <<"run">> THEN 3 ELSE 2
        /\ n = IF Arg(final, 2) = <<"run">> THEN 3 ELSE 2
    BY <1>1, <1>6, <1>9, FirstHandedOn
  <2>2. n = HandedFrom(args) /\ n \in Nat /\ n <= m
    BY <2>1, <1>4, <1>6, <1>8
  <2>3. HasFlag(args, PortFlags) => n < LastOf(FlagsIn(args))
    <3> SUFFICES ASSUME HasFlag(args, PortFlags) PROVE n < LastOf(FlagsIn(args))
      OBVIOUS
    <3>1. ~(LastOf(FlagsIn(args)) <= HandedFrom(args))
      BY DEF OwnPort, args
    <3>2. FlagsIn(args) \in SUBSET (1..m) /\ FlagsIn(args) # {}
      BY <1>1 DEF FlagsIn, HasFlag
    <3>3. LastOf(FlagsIn(args)) \in 1..m
      BY <3>2, <1>1, Latest
    <3> QED
      BY <3>1, <3>3, <2>2, <1>1
  <2>4. \A k \in DOMAIN tail : n < m + k
    BY <2>2, <1>1
  <2> QED
    BY <2>2, <2>3, <2>4, <1>1 DEF args
<1>10. CASE HoldsBack(args)
  <2>1. /\ HoldsBack(final)
        /\ Separators(final) = {} => n = Len(final)
        /\ Separators(final) # {} => /\ n \in Separators(final)
                                     /\ \A i \in Separators(final) : n <= i
    BY <1>1, <1>6, <1>10, FirstHandedOn
  <2>2. n \in Nat /\ n <= Len(final)
    <3>1. CASE Separators(final) = {}
      BY <3>1, <2>1, <1>1
    <3>2. CASE Separators(final) # {}
      <4>1. n \in DOMAIN final
        BY <3>2, <2>1 DEF Separators
      <4> QED
        BY <4>1, <1>1
    <3> QED
      BY <3>1, <3>2
  <2>3. \A i \in Separators(final) : i \in Nat /\ n <= i
    BY <2>1, <1>1 DEF Separators
  <2>4. HasFlag(args, PortFlags) => n < LastOf(FlagsIn(args))
    <3> SUFFICES ASSUME HasFlag(args, PortFlags) PROVE n < LastOf(FlagsIn(args))
      OBVIOUS
    <3>1. ~(LastOf(FlagsIn(args)) <= HandedFrom(args))
      BY DEF OwnPort, args
    <3>2. FlagsIn(args) \in SUBSET (1..m) /\ FlagsIn(args) # {}
      BY <1>1 DEF FlagsIn, HasFlag
    <3>3. LastOf(FlagsIn(args)) \in 1..m
      BY <3>2, <1>1, Latest
    <3>4. Separators(args) # {}
      <4> SUFFICES ASSUME Separators(args) = {} PROVE FALSE
        OBVIOUS
      <4>1. HandedFrom(args) = m
        BY <1>1, <1>10, FirstHandedOn
      <4> QED
        BY <3>1, <3>3, <4>1, <1>1
    <3>5. HandedFrom(args) \in Separators(args)
      BY <3>4, <1>1, <1>10, FirstHandedOn
    <3>6. HandedFrom(args) \in Nat /\ n <= HandedFrom(args)
      BY <3>5, <2>3, <1>7
    <3> QED
      BY <3>1, <3>3, <3>6, <2>2, <1>1
  <2>5. ASSUME NEW k \in DOMAIN tail, Separators(args) = {} => tail[1] = <<"--">> /\ k > 1
        PROVE  n < m + k
    <3>0. k \in Nat /\ k >= 1
      BY <1>1
    <3>1. CASE Separators(args) = {}
      <4>1. 1 \in DOMAIN tail /\ tail[1] = <<"--">> /\ k > 1
        BY <2>5, <3>1, <3>0, <1>1
      <4>2. m + 1 \in Separators(final)
        BY <4>1, <1>1 DEF Given, Separators, args
      <4> QED
        BY <4>1, <4>2, <2>2, <2>3, <3>0, <1>1
    <3>2. CASE Separators(args) # {}
      <4>1. PICK q : q \in Separators(args)
        BY <3>2
      <4>2. q \in 1..m /\ n <= q
        BY <4>1, <1>1, <1>7, <2>3 DEF Separators
      <4> QED
        BY <4>2, <2>2, <3>0, <1>1
    <3> QED
      BY <3>1, <3>2
  <2> QED
    BY <1>10, <2>2, <2>4, <2>5 DEF args
<1> QED
  BY <1>9, <1>10

\* A program that takes its port from the command line only is one that nsl knows.
LEMMA FlagTakersAreKnown ==
  ASSUME NEW cmd \in Commands, ~Quoted(cmd), ~Hidden(cmd), ~Unknown(cmd),
         ~HasFlag(cmd.args, PortFlags), NEW w,
         \/ cmd.script # <<>> /\ w = cmd.script[1]
         \/ cmd.script = <<>> /\ cmd.args[1] = <<"npx">> /\ cmd.args[2] = <<w>>
         \/ cmd.script = <<>> /\ cmd.args[1] # <<"npx">> /\ cmd.args[1] = <<w>>,
         w \in {"vite", "astro", "expo", "wrangler", "./tool"}
  PROVE  KnownFor(cmd.args, cmd.script)
<1> DEFINE args   == cmd.args
           script == cmd.script
           line   == IF script # <<>> THEN Line(script) ELSE Started(args, <<>>)
<1>1. /\ args \in ArgSeqs /\ Len(args) \in Nat /\ Len(args) >= 1 /\ DOMAIN args = 1..Len(args)
      /\ 1 \in DOMAIN args /\ script \in Seq(AllWords)
  BY CommandTypes, ArgFacts
<1>2. ~(Arg(line, 1) = <<"./tool">>)
      /\ ~(Arg(line, 1) = <<"wrangler">> /\ ~Mentions(line, "dev"))
  BY DEF Unknown
<1> HIDE DEF line
<1>3. CASE script # <<>>
  <2>1. line = Line(script)
    BY <1>3 DEF line
  <2>2. 1 \in DOMAIN script /\ w = script[1]
    BY <1>1, <1>3
  <2>3. DOMAIN line = DOMAIN script /\ \A i \in DOMAIN script : line[i] = <<script[i]>>
    BY <2>1 DEF Line
  <2>4. Arg(line, 1) = <<w>>
    BY <2>2, <2>3 DEF Arg
  <2>5. \A v : (\E i \in DOMAIN script : script[i] = v) => Mentions(<<script>>, v)
    BY DEF Mentions
  <2>6. Mentions(line, "dev") => \E i \in DOMAIN script : script[i] = "dev"
    BY <2>3 DEF Mentions
  <2>7. w # "./tool" /\ (w = "wrangler" => Mentions(<<script>>, "dev"))
    BY <1>2, <2>4, <2>5, <2>6
  <2>8. Mentions(<<script>>, w)
    BY <2>2, <2>5
  <2>9. DetectFramework(<<script>>).known
    BY <2>7, <2>8, Detected
  <2>10. RunsScript(args)
    BY <1>3 DEF Hidden
  <2> QED
    BY <2>9, <2>10 DEF KnownFor, DetectFrameworkViaPackageJson
<1>4. CASE script = <<>>
  <2>1. Arg(args, 1) = args[1] /\ ~(args[1] \in Managers)
    BY <1>1, <1>4, CommandsAssumption DEF Arg
  <2>2. line = IF args[1] = <<"npx">> THEN After(args, 1) ELSE args
    BY <1>4, <2>1 DEF line, Started
  <2>3. \E i \in DOMAIN args : args[i] = <<w>> /\ Arg(line, 1) = <<w>>
    <3>1. CASE args[1] = <<"npx">>
      <4>1. Len(args) > 1 /\ args[2] = <<w>>
        BY <1>4, <3>1, CommandsAssumption
      <4>2. 1 \in DOMAIN line /\ line[1] = args[2]
        <5>1. 1 \in 0..Len(args) /\ 1 \in 1..(Len(args) - 1)
          BY <1>1, <4>1
        <5>2. PICK rest : rest = After(args, 1)
          OBVIOUS
        <5>3. rest \in ArgSeqs /\ Len(rest) = Len(args) - 1 /\ rest[1] = args[1 + 1]
          BY <5>1, <5>2, <1>1, WhatFollows, ZenonT(60) DEF ArgSeqs
        <5> QED
          BY <5>1, <5>2, <5>3, <2>2, <3>1, ArgFacts
      <4> QED
        BY <4>1, <4>2, <1>1 DEF Arg
    <3>2. CASE args[1] # <<"npx">>
      BY <1>1, <1>4, <2>1, <2>2, <3>2 DEF Arg
    <3> QED
      BY <3>1, <3>2
  <2>4. \A v : Mentions(line, v) => Mentions(args, v)
    <3>1. CASE args[1] = <<"npx">>
      <4>1. 1 \in 0..Len(args)
        BY <1>1
      <4>2. PICK rest : rest = After(args, 1) /\ line = rest
        BY <2>2, <3>1
      <4>3. /\ rest \in ArgSeqs /\ Len(rest) = Len(args) - 1
            /\ \A i \in 1..(Len(args) - 1) : rest[i] = args[1 + i]
        BY <4>1, <4>2, <1>1, WhatFollows, ZenonT(60) DEF ArgSeqs
      <4>4. \A i \in DOMAIN rest : 1 + i \in DOMAIN args /\ rest[i] = args[1 + i]
        <5>1. DOMAIN rest = 1..(Len(args) - 1)
          BY <4>3, ArgFacts
        <5>2. \A i \in 1..(Len(args) - 1) : 1 + i \in 1..Len(args)
          BY <1>1
        <5> QED
          BY <4>3, <5>1, <5>2, <1>1
      <4> QED
        BY <4>2, <4>4 DEF Mentions
    <3>2. CASE args[1] # <<"npx">>
      BY <2>2, <3>2
    <3> QED
      BY <3>1, <3>2
  <2>5. w # "./tool" /\ (w = "wrangler" => Mentions(args, "dev"))
    BY <1>2, <2>3, <2>4
  <2>6. Mentions(args, w)
    <3>1. 1 \in DOMAIN <<w>> /\ <<w>>[1] = w
      OBVIOUS
    <3> QED
      BY <3>1, <2>3 DEF Mentions
  <2>7. DetectFramework(args).known
    BY <2>5, <2>6, Detected
  <2> QED
    BY <2>7 DEF KnownFor
<1> QED
  BY <1>3, <1>4

\* What is started listens on the allocated port.
LEMMA PlainListens ==
  ASSUME NEW cmd \in Commands, ~OwnPort(cmd), ~Quoted(cmd), ~Hidden(cmd), ~Unknown(cmd)
  PROVE  ListensOnAllocated(Started(ShellArgs(FinalArgs(cmd.args, cmd.script)), cmd.script))
<1> DEFINE args   == cmd.args
           script == cmd.script
           final  == FinalArgs(args, script)
           line   == Started(final, script)
           m      == Len(args)
<1>1. ShellArgs(final) = final
  BY LineGiven
<1>2. PICK tail : Given(args, script, final, tail)
  BY LineGiven
<1>3. /\ args \in ArgSeqs /\ 1 \in DOMAIN args /\ m >= 1
      /\ script \in Seq(AllWords) /\ \A i \in DOMAIN script : script[i] # "--port=PORT"
  BY CommandTypes
<1> HIDE DEF args, final
<1>4. /\ final \in ArgSeqs /\ tail \in ArgSeqs /\ m \in Nat /\ Len(tail) \in Nat
      /\ DOMAIN args = 1..m /\ DOMAIN tail = 1..Len(tail)
      /\ Len(final) = m + Len(tail) /\ DOMAIN final = 1..(m + Len(tail))
      /\ \A i \in DOMAIN args : i \in DOMAIN final
      /\ \A i \in DOMAIN tail : m + i \in DOMAIN final
  BY <1>2, <1>3, GivenFacts
<1>5. \A i \in DOMAIN args :
        \A w : w \notin {"PORT", "--port=PORT", "NSL_PORT", "--port=NSL_PORT"} =>
          (final[i] = <<w>> <=> args[i] = <<w>>)
  BY ONLY <1>2, <1>3, GivenFacts
<1>6. /\ Arg(final, 1) = final[1] /\ (final[1] \in Managers <=> args[1] \in Managers)
      /\ (final[1] = <<"npx">> <=> args[1] = <<"npx">>)
  <2>1. \A w \in {"npm", "pnpm", "yarn", "bun", "npx"} : final[1] = <<w>> <=> args[1] = <<w>>
    BY <1>3, <1>5
  <2> QED
    BY <2>1, <1>3, <1>4 DEF Arg, Managers
<1>7. Len(final[1]) = 1
  <2>1. PICK n : n = Len(args[1])
    OBVIOUS
  <2>2. n \in Nat /\ n >= 1
    BY <2>1, <1>3, ArgFacts
  <2>3. ~(n > 1)
    BY <2>1 DEF Quoted, args
  <2>4. n = 1 /\ Len(final[1]) = Len(args[1])
    BY <2>2, <2>3, <1>2, <1>3 DEF Given
  <2> QED
    BY <2>1, <2>4
<1>8. \E before, n :
        /\ before \in ArgSeqs /\ \A i \in DOMAIN before : Word1(before[i]) \notin AllFlags
        /\ n \in Nat /\ n <= Len(final)
        /\ line = before \o After(final, n) /\ line # <<>> /\ Len(line[1]) = 1
        /\ HasFlag(args, PortFlags) => n < LastOf(FlagsIn(args))
        /\ \A k \in DOMAIN tail :
             (HoldsBack(args) /\ Separators(args) = {} => tail[1] = <<"--">> /\ k > 1)
               => n < m + k
        /\ ~HasFlag(args, PortFlags) /\ ~KnownFor(args, script) => ~TakesPortFlag(line)
  <2>1. CASE args[1] \in Managers
    <3> DEFINE n == HandedFrom(final)
    <3>1. /\ n \in Nat /\ n <= Len(final)
          /\ HasFlag(args, PortFlags) => n < LastOf(FlagsIn(args))
          /\ \A k \in DOMAIN tail :
               (HoldsBack(args) /\ Separators(args) = {} => tail[1] = <<"--">> /\ k > 1)
                 => n < m + k
      BY <2>1, <1>2, NothingIsKept DEF args
    <3>2. PICK before : /\ before = Line(script) /\ before \in ArgSeqs
                        /\ DOMAIN before = DOMAIN script
                        /\ \A i \in DOMAIN script : before[i] = <<script[i]>>
      BY <1>3, LineType DEF Line
    <3>3. script # <<>> /\ 1 \in DOMAIN script /\ Len(script) >= 1 /\ Len(before) = Len(script)
      BY <2>1, <1>3, <3>2, CommandsAssumption, LineType DEF args
    <3>4. \A i \in DOMAIN before : Word1(before[i]) \notin AllFlags
      <4>1. ~HasFlag(Line(script), PortFlags)
        BY DEF OwnPort
      <4>2. \A i \in DOMAIN before : Word1(before[i]) \notin PortFlags
        BY <4>1, <3>2 DEF HasFlag
      <4>3. \A i \in DOMAIN before : Word1(before[i]) # "--port=PORT"
        BY <1>3, <3>2 DEF Word1
      <4> QED
        BY <4>2, <4>3 DEF AllFlags
    <3>5. line = before \o After(final, n)
      BY <2>1, <1>6, <3>2 DEF Started
    <3>6. line # <<>> /\ line[1] = <<script[1]>> /\ 1 \in DOMAIN line
      <4>1. n \in 0..Len(final)
        BY <3>1, <1>4
      <4>2. PICK rest : rest = After(final, n)
        OBVIOUS
      <4>3. rest \in Seq(ArgTexts) /\ before \in Seq(ArgTexts) /\ Len(rest) \in Nat /\ Len(before) \in Nat
        BY <4>1, <4>2, <3>2, <1>4, WhatFollows, ArgFacts DEF ArgSeqs
      <4>4. PICK row : row = before \o rest
        OBVIOUS
      <4>5. DOMAIN row = 1..(Len(before) + Len(rest)) /\ \A i \in 1..Len(before) : row[i] = before[i]
        BY ONLY <4>3, <4>4, RowOfTwo
      <4>6. 1 \in DOMAIN row /\ row[1] = before[1]
        BY <4>3, <4>5, <3>3
      <4>7. row # <<>>
        BY <4>6
      <4> QED
        BY <4>2, <4>4, <4>6, <4>7, <3>2, <3>3, <3>5
    <3>7. Len(line[1]) = 1
      BY <3>6
    <3>8. ~HasFlag(args, PortFlags) /\ ~KnownFor(args, script) => ~TakesPortFlag(line)
      <4> SUFFICES ASSUME ~HasFlag(args, PortFlags), TakesPortFlag(line)
                   PROVE  KnownFor(args, script)
        OBVIOUS
      <4>1. Arg(line, 1) = <<script[1]>>
        BY <3>6 DEF Arg
      <4>2. <<script[1]>> \in {<<"vite">>, <<"astro">>, <<"expo">>, <<"wrangler">>, <<"./tool">>}
        BY <4>1 DEF TakesPortFlag
      <4>3. script[1] \in {"vite", "astro", "expo", "wrangler", "./tool"}
        BY <4>2
      <4> QED
        BY <3>3, <4>3, FlagTakersAreKnown DEF args
    <3> QED
      BY <3>1, <3>2, <3>4, <3>5, <3>6, <3>7, <3>8
  <2>2. CASE args[1] \notin Managers /\ args[1] = <<"npx">>
    <3>1. m > 1 /\ Len(args[2]) = 1
      BY <2>2, CommandsAssumption DEF args
    <3>2. PICK rest : rest = After(final, 1)
      OBVIOUS
    <3>3. rest \in ArgSeqs /\ Len(rest) = Len(final) - 1 /\ rest[1] = final[2]
      <4>1. 1 \in 0..Len(final) /\ 1 \in 1..(Len(final) - 1)
        BY <3>1, <1>4
      <4>2. /\ rest \in ArgSeqs /\ Len(rest) = Len(final) - 1
            /\ \A i \in 1..(Len(final) - 1) : rest[i] = final[1 + i]
        BY <4>1, <3>2, <1>4, WhatFollows DEF ArgSeqs
      <4> QED
        BY <4>1, <4>2
    <3>4. line = rest
      BY <2>2, <1>6, <3>2 DEF Started
    <3>5. line = <<>> \o After(final, 1)
      BY <3>2, <3>3, <3>4 DEF ArgSeqs
    <3>6. line # <<>> /\ 1 \in DOMAIN line
      BY <3>1, <3>3, <3>4, <1>4, ArgFacts
    <3>7. 2 \in DOMAIN args /\ Len(final[2]) = Len(args[2])
      BY <3>1, <1>2, <1>4 DEF Given
    <3>8. Len(line[1]) = 1
      BY <3>1, <3>3, <3>4, <3>7
    <3>9. HasFlag(args, PortFlags) => 1 < LastOf(FlagsIn(args))
      <4> SUFFICES ASSUME HasFlag(args, PortFlags) PROVE 1 < LastOf(FlagsIn(args))
        OBVIOUS
      <4>1. FlagsIn(args) \in SUBSET (1..m) /\ FlagsIn(args) # {}
        BY <1>4 DEF FlagsIn, HasFlag
      <4>2. LastOf(FlagsIn(args)) \in FlagsIn(args) /\ LastOf(FlagsIn(args)) \in 1..m
        BY <4>1, <1>4, Latest
      <4>3. ~(1 \in FlagsIn(args))
        BY <2>2 DEF FlagsIn, Word1, PortFlags
      <4> QED
        BY <4>2, <4>3, <1>4
    <3>10. \A k \in DOMAIN tail : 1 < m + k
      BY <3>1, <1>4
    <3>11. ~HasFlag(args, PortFlags) /\ ~KnownFor(args, script) => ~TakesPortFlag(line)
      <4> SUFFICES ASSUME ~HasFlag(args, PortFlags), TakesPortFlag(line)
                   PROVE  KnownFor(args, script)
        OBVIOUS
      <4>1. PICK w \in {"vite", "astro", "expo", "wrangler", "./tool"} : final[2] = <<w>>
        BY <3>3, <3>4, <3>6 DEF TakesPortFlag, Arg
      <4>2. args[2] = <<w>>
        BY <4>1, <3>7, <1>5
      <4>3. script # <<>> => RunsScript(args)
        BY DEF Hidden, args
      <4>4. ~RunsScript(args)
        BY <2>2, <1>3 DEF RunsScript, Arg, Managers
      <4> QED
        BY <2>2, <4>2, <4>3, <4>4, FlagTakersAreKnown DEF args
    <3>12. 1 \in Nat /\ 1 <= Len(final)
      BY <3>1, <1>4
    <3> QED
      BY <3>5, <3>6, <3>8, <3>9, <3>10, <3>11, <3>12, NoArgs
  <2>3. CASE args[1] \notin Managers /\ args[1] # <<"npx">>
    <3>1. line = final
      BY <2>3, <1>6 DEF Started
    <3>2. line = <<>> \o After(final, 0)
      BY <3>1, <1>4 DEF After, ArgSeqs
    <3>3. line # <<>> /\ Len(line[1]) = 1
      BY <3>1, <1>3, <1>4, <1>7
    <3>4. HasFlag(args, PortFlags) => 0 < LastOf(FlagsIn(args))
      <4> SUFFICES ASSUME HasFlag(args, PortFlags) PROVE 0 < LastOf(FlagsIn(args))
        OBVIOUS
      <4>1. FlagsIn(args) \in SUBSET (1..m) /\ FlagsIn(args) # {}
        BY <1>4 DEF FlagsIn, HasFlag
      <4>2. LastOf(FlagsIn(args)) \in 1..m
        BY <4>1, <1>4, Latest
      <4> QED
        BY <4>2, <1>4
    <3>5. \A k \in DOMAIN tail : 0 < m + k
      BY <1>3, <1>4
    <3>6. ~HasFlag(args, PortFlags) /\ ~KnownFor(args, script) => ~TakesPortFlag(line)
      <4> SUFFICES ASSUME ~HasFlag(args, PortFlags), TakesPortFlag(line)
                   PROVE  KnownFor(args, script)
        OBVIOUS
      <4>1. PICK w \in {"vite", "astro", "expo", "wrangler", "./tool"} : final[1] = <<w>>
        BY <3>1, <1>6 DEF TakesPortFlag
      <4>2. args[1] = <<w>>
        BY <4>1, <1>3, <1>5
      <4>3. script # <<>> => RunsScript(args)
        BY DEF Hidden, args
      <4>4. ~RunsScript(args)
        BY <2>3, <1>3 DEF RunsScript, Arg, Managers
      <4> QED
        BY <2>3, <4>2, <4>3, <4>4, FlagTakersAreKnown DEF args
    <3>7. 0 \in Nat /\ 0 <= Len(final)
      BY <1>4
    <3> QED
      BY <3>2, <3>3, <3>4, <3>5, <3>6, <3>7, NoArgs
  <2> QED
    BY <2>1, <2>2, <2>3
<1> HIDE DEF line
<1>9. PICK before, n :
        /\ before \in ArgSeqs /\ \A i \in DOMAIN before : Word1(before[i]) \notin AllFlags
        /\ n \in Nat /\ n <= Len(final)
        /\ line = before \o After(final, n) /\ line # <<>> /\ Len(line[1]) = 1
        /\ HasFlag(args, PortFlags) => n < LastOf(FlagsIn(args))
        /\ \A k \in DOMAIN tail :
             (HoldsBack(args) /\ Separators(args) = {} => tail[1] = <<"--">> /\ k > 1)
               => n < m + k
        /\ ~HasFlag(args, PortFlags) /\ ~KnownFor(args, script) => ~TakesPortFlag(line)
  BY <1>8
<1>10. \A i \in DOMAIN args : Word1(final[i]) \in AllFlags <=> Word1(args[i]) \in PortFlags
  BY <1>2 DEF Given
<1>11. \A i \in DOMAIN final : i \in DOMAIN args \/ (i - m \in DOMAIN tail /\ final[i] = tail[i - m])
  <2> SUFFICES ASSUME NEW i \in DOMAIN final, i \notin DOMAIN args
               PROVE  i - m \in DOMAIN tail /\ final[i] = tail[i - m]
    OBVIOUS
  <2>1. i - m \in DOMAIN tail /\ m + (i - m) = i
    BY <1>4
  <2> QED
    BY <2>1, <1>2 DEF Given
<1>12. CASE HasFlag(args, PortFlags)
  <2> DEFINE last == LastOf(FlagsIn(args))
  <2>1. FlagsIn(args) \in SUBSET (1..m) /\ FlagsIn(args) # {}
    BY <1>4, <1>12 DEF FlagsIn, HasFlag
  <2>2. last \in FlagsIn(args) /\ \A i \in FlagsIn(args) : i <= last
    BY <2>1, <1>4, Latest
  <2>3. IsFor(args, last, "--port=NSL_PORT", "NSL_PORT")
    BY <1>12 DEF OwnPort, args
  <2> HIDE DEF last
  <2>4. last \in 1..m /\ last \in DOMAIN args /\ last \in DOMAIN final /\ Word1(final[last]) \in AllFlags
    BY <2>1, <2>2, <1>4, <1>10 DEF FlagsIn
  <2>5. \A i \in DOMAIN final : i > last => Word1(final[i]) \notin AllFlags
    <3> SUFFICES ASSUME NEW i \in DOMAIN final, i > last PROVE Word1(final[i]) \notin AllFlags
      OBVIOUS
    <3>1. CASE i \in DOMAIN args
      <4>1. i \in 1..m /\ last \in 1..m
        BY <3>1, <2>4, <1>4
      <4>2. i \notin FlagsIn(args)
        BY <4>1, <2>2
      <4> QED
        BY <3>1, <4>2, <1>10 DEF FlagsIn
    <3>2. CASE i - m \in DOMAIN tail /\ final[i] = tail[i - m]
      <4>1. Addition(tail, HoldsBack(args) /\ Separators(args) = {}, ~HasFlag(args, PortFlags))
        BY <3>2, <1>2 DEF Given
      <4>2. \A k \in DOMAIN tail : tail[k][1] # "--port" /\ tail[k][1] \notin AllFlags \ {"--port"}
        BY <4>1, <1>12 DEF Addition
      <4> QED
        BY <3>2, <4>2 DEF Word1
    <3> QED
      BY <3>1, <3>2, <1>11
  <2>6. IsFor(final, last, "--port=PORT", "PORT")
    <3>1. CASE args[last] = <<"--port=NSL_PORT">>
      <4>1. final[last] = <<Replaced("--port=NSL_PORT")>>
        BY <3>1, <2>4, <1>2 DEF Given
      <4> QED
        BY <4>1 DEF IsFor, Replaced
    <3>2. CASE Arg(args, last + 1) = <<"NSL_PORT">>
      <4>1. last + 1 \in DOMAIN args /\ args[last + 1] = <<"NSL_PORT">>
        BY <3>2 DEF Arg
      <4>2. final[last + 1] = <<Replaced("NSL_PORT")>> /\ last + 1 \in DOMAIN final
        BY <4>1, <1>2, <1>4 DEF Given
      <4> QED
        BY <4>2 DEF IsFor, Replaced, Arg
    <3> QED
      BY <2>3, <3>1, <3>2 DEF IsFor
  <2>7. n < last
    BY <1>9, <1>12 DEF last
  <2>8. ListensOnAllocated(line)
    BY ONLY <1>4, <1>9, <2>4, <2>5, <2>6, <2>7, LastFlagCounts
  <2> QED
    BY <2>8, <1>1 DEF line, final, args
<1>13. CASE ~HasFlag(args, PortFlags) /\ KnownFor(args, script)
  <2> DEFINE separated == HoldsBack(args) /\ Separators(args) = {}
  <2>1. Addition(tail, separated, ~HasFlag(args, PortFlags))
    BY <1>2, <1>13 DEF Given
  <2>2. PICK k \in DOMAIN tail :
          /\ separated => k > 1
          /\ tail[k] = <<"--port">> /\ k + 1 \in DOMAIN tail /\ tail[k + 1] = <<"PORT">>
          /\ \A j \in DOMAIN tail : tail[j][1] = "--port" => j = k
    BY <2>1, <1>13 DEF Addition
  <2>3. separated => tail[1] = <<"--">>
    BY <2>1 DEF Addition
  <2>4. n < m + k
    BY <2>2, <2>3, <1>9
  <2> HIDE DEF separated
  <2>5. /\ m + k \in DOMAIN final /\ final[m + k] = <<"--port">>
        /\ m + k + 1 \in DOMAIN final /\ final[m + k + 1] = <<"PORT">>
    <3>1. m + (k + 1) = m + k + 1
      BY <1>4
    <3> QED
      BY <3>1, <2>2, <1>2, <1>4 DEF Given
  <2>6. \A i \in DOMAIN final : i > m + k => Word1(final[i]) \notin AllFlags
    <3> SUFFICES ASSUME NEW i \in DOMAIN final, i > m + k PROVE Word1(final[i]) \notin AllFlags
      OBVIOUS
    <3>1. i - m \in DOMAIN tail /\ final[i] = tail[i - m]
      BY <1>4, <1>11
    <3>2. i - m # k
      BY <1>4
    <3>3. tail[i - m][1] # "--port" /\ tail[i - m][1] \notin AllFlags \ {"--port"}
      BY <3>1, <3>2, <2>1, <2>2 DEF Addition
    <3> QED
      BY <3>1, <3>3 DEF Word1
  <2>7. Word1(final[m + k]) \in AllFlags /\ IsFor(final, m + k, "--port=PORT", "PORT")
    BY <2>5 DEF AllFlags, PortFlags, Word1, IsFor, Arg
  <2>8. PICK last : last = m + k
    OBVIOUS
  <2>9. /\ last \in DOMAIN final /\ n < last /\ Word1(final[last]) \in AllFlags
        /\ IsFor(final, last, "--port=PORT", "PORT")
        /\ \A i \in DOMAIN final : i > last => Word1(final[i]) \notin AllFlags
    BY <2>4, <2>5, <2>6, <2>7, <2>8
  <2>10. ListensOnAllocated(line)
    BY ONLY <1>4, <1>9, <2>9, LastFlagCounts
  <2> QED
    BY <2>10, <1>1 DEF line, final, args
<1>14. CASE ~HasFlag(args, PortFlags) /\ ~KnownFor(args, script)
  <2>1. \A i \in DOMAIN final : Word1(final[i]) \notin AllFlags
    <3>1. Len(tail) = 0
      BY <1>2, <1>14, NoArgs DEF Given
    <3>2. \A i \in DOMAIN final : i \in DOMAIN args
      BY <3>1, <1>4
    <3> QED
      BY <3>2, <1>10, <1>14 DEF HasFlag
  <2>2. \A i \in DOMAIN line : Word1(line[i]) \notin AllFlags
    <3>1. n \in 0..Len(final) /\ final \in Seq(ArgTexts) /\ before \in Seq(ArgTexts)
      BY <1>4, <1>9 DEF ArgSeqs
    <3>2. PICK rest : rest = After(final, n)
      OBVIOUS
    <3>3. /\ rest \in Seq(ArgTexts) /\ Len(rest) = Len(final) - n
          /\ \A i \in 1..(Len(final) - n) : rest[i] = final[n + i]
      BY ONLY <3>1, <3>2, WhatFollows
    <3>4. /\ Len(rest) \in Nat /\ DOMAIN rest = 1..Len(rest)
          /\ Len(before) \in Nat /\ DOMAIN before = 1..Len(before)
      BY <3>1, <3>3, ArgFacts DEF ArgSeqs
    <3>5. \A i \in DOMAIN rest : Word1(rest[i]) \notin AllFlags
      <4> SUFFICES ASSUME NEW i \in DOMAIN rest PROVE Word1(rest[i]) \notin AllFlags
        OBVIOUS
      <4>1. n + i \in DOMAIN final /\ rest[i] = final[n + i]
        BY <3>1, <3>3, <3>4, <1>4
      <4> QED
        BY <4>1, <2>1
    <3>6. line = before \o rest /\ before \in Seq(ArgTexts) /\ rest \in Seq(ArgTexts)
      BY <3>1, <3>2, <3>3, <1>9
    <3>7. /\ DOMAIN line = 1..(Len(before) + Len(rest))
          /\ \A i \in 1..Len(before) : line[i] = before[i]
          /\ \A i \in 1..Len(rest) : line[Len(before) + i] = rest[i]
      BY ONLY <3>6, RowOfTwo
    <3> SUFFICES ASSUME NEW i \in DOMAIN line PROVE Word1(line[i]) \notin AllFlags
      OBVIOUS
    <3>8. CASE i \in 1..Len(before)
      BY <3>4, <3>7, <3>8, <1>9
    <3>9. CASE i \notin 1..Len(before)
      <4>1. i - Len(before) \in 1..Len(rest) /\ Len(before) + (i - Len(before)) = i
        BY <3>4, <3>7, <3>9
      <4>2. PICK k \in 1..Len(rest) : k = i - Len(before)
        BY <4>1
      <4>3. line[i] = rest[k]
        BY <4>1, <4>2, <3>7
      <4> QED
        BY <4>2, <4>3, <3>4, <3>5
    <3> QED
      BY <3>8, <3>9
  <2>3. {i \in DOMAIN line : Word1(line[i]) \in AllFlags} = {}
    BY <2>2
  <2>4. ~TakesPortFlag(line) /\ line # <<>> /\ Len(line[1]) = 1
    BY <1>9, <1>14
  <2>5. ListensOnAllocated(line)
    BY <2>3, <2>4 DEF ListensOnAllocated, AllFlags
  <2> QED
    BY <2>5, <1>1 DEF line, final, args
<1> QED
  BY <1>12, <1>13, <1>14

\* Whether a child will listen is settled where it is spawned.
ListenOk(p) ==
  /\ pc[p] = "bind" => job[p].op # "run"
  /\ pc[p] \in {"register", "running"} /\ job[p].op = "run" /\ job[p].plain => job[p].listens

ListenInv == \A p \in Procs : ListenOk(p)

LEMMA ListenStep == LaunchInv /\ ListenInv /\ [Next]_vars => ListenInv'
<1> SUFFICES ASSUME LaunchInv, ListenInv, [Next]_vars, NEW p \in Procs PROVE ListenOk(p)'
  BY DEF ListenInv
<1>1. DOMAIN pc = Procs /\ DOMAIN job = Procs
  BY DEF LaunchInv
<1>2. ASSUME pc'[p] = pc[p], job'[p] = job[p] PROVE ListenOk(p)'
  BY <1>2 DEF ListenInv, ListenOk
<1>3. ASSUME pc'[p] \in {"idle", "ensure", "find", "spawn", "unregister"} PROVE ListenOk(p)'
  BY <1>3 DEF ListenOk
<1>4. CASE UNCHANGED vars
  BY <1>2, <1>4 DEF vars
<1>5. ASSUME NEW r \in Procs, NEW at \in files.places, NEW flags \in files.flags,
             BeginStart(r, at, flags)
      PROVE  ListenOk(p)'
  BY <1>1, <1>2, <1>3, <1>5 DEF BeginStart, Goto
<1>6. ASSUME NEW r \in Procs, NEW at \in files.places, NEW op, NEW name, BeginApp(r, op, at, name)
      PROVE  ListenOk(p)'
  BY <1>1, <1>2, <1>3, <1>6 DEF BeginApp, Goto
<1>7. ASSUME NEW r \in Procs, ProxyFound(r) PROVE ListenOk(p)'
  BY <1>1, <1>2, <1>3, <1>7 DEF ProxyFound, Goto, Finish
<1>8. ASSUME NEW r \in Procs, ProxySpawned(r) PROVE ListenOk(p)'
  BY <1>1, <1>2, <1>3, <1>8 DEF ProxySpawned, Goto, Finish
<1>9. ASSUME NEW r \in Procs, ProxyFailsToStart(r) PROVE ListenOk(p)'
  BY <1>1, <1>2, <1>3, <1>9 DEF ProxyFailsToStart, Goto, Finish
<1>10. ASSUME NEW r \in Procs, FindFreePort(r) PROVE ListenOk(p)'
  <2>1. \/ Finish(r)
        \/ \E port : /\ job' = [job EXCEPT ![r] = [@ EXCEPT !.port = port]]
                     /\ Goto(r, IF job[r].op = "run" THEN "spawn" ELSE "bind")
    BY <1>10 DEF FindFreePort
  <2>2. CASE Finish(r)
    BY <1>1, <1>2, <1>3, <2>2 DEF Finish, Goto
  <2>3. CASE \E port : /\ job' = [job EXCEPT ![r] = [@ EXCEPT !.port = port]]
                       /\ Goto(r, IF job[r].op = "run" THEN "spawn" ELSE "bind")
    <3>1. PICK port : /\ job' = [job EXCEPT ![r] = [@ EXCEPT !.port = port]]
                      /\ Goto(r, IF job[r].op = "run" THEN "spawn" ELSE "bind")
      BY <2>3
    <3>2. CASE p # r
      BY <1>1, <1>2, <3>1, <3>2 DEF Goto
    <3>3. CASE p = r
      <4>1. job'[p].op = job[p].op
        BY <1>1, <3>1, <3>3
      <4> QED
        BY <1>1, <3>1, <3>3, <4>1 DEF Goto, ListenOk
    <3> QED
      BY <3>2, <3>3
  <2> QED
    BY <2>1, <2>2, <2>3
<1>11. ASSUME NEW r \in Procs, NEW cmd \in Commands, Spawn(r, cmd) PROVE ListenOk(p)'
  <2>1. CASE p # r
    BY <1>1, <1>2, <1>11, <2>1 DEF Spawn, Goto
  <2>2. CASE p = r
    <3> DEFINE line == Started(ShellArgs(FinalArgs(cmd.args, cmd.script)), cmd.script)
               free == ~(OwnPort(cmd) \/ Quoted(cmd) \/ Hidden(cmd) \/ Unknown(cmd))
    <3>1. /\ pc'[p] = "register"
          /\ job'[p] = [job[p] EXCEPT !.plain = free, !.listens = ListensOnAllocated(line)]
      BY <1>1, <1>11, <2>2 DEF Spawn, Goto
    <3>2. {"plain", "listens"} \subseteq DOMAIN job[p]
      BY <1>11, <2>2 DEF Spawn, LaunchInv, JobOk, JobKeys
    <3>3. free => ListensOnAllocated(line)
      BY PlainListens
    <3> HIDE DEF line, free
    <3>4. job'[p].plain = free /\ job'[p].listens = ListensOnAllocated(line)
      BY <3>1, <3>2
    <3> QED
      BY <3>1, <3>3, <3>4 DEF ListenOk
  <2> QED
    BY <2>1, <2>2
<1>12. ASSUME NEW r \in Procs, BindListener(r) PROVE ListenOk(p)'
  <2>1. CASE p # r
    BY <1>1, <1>2, <1>12, <2>1 DEF BindListener, Goto, Finish
  <2>2. CASE p = r
    <3>1. \/ pc'[p] = "idle"
          \/ pc[p] = "bind" /\ job' = job
      BY <1>1, <1>12, <2>2 DEF BindListener, Goto, Finish
    <3>2. CASE pc'[p] = "idle"
      BY <1>3, <3>2
    <3>3. CASE pc[p] = "bind" /\ job' = job
      <4>1. job'[p].op # "run"
        BY <3>3 DEF ListenInv, ListenOk
      <4> QED
        BY <3>1, <3>3, <4>1, <2>2 DEF ListenOk
    <3> QED
      BY <3>1, <3>2, <3>3
  <2> QED
    BY <2>1, <2>2
<1>13. ASSUME NEW r \in Procs, Register(r) PROVE ListenOk(p)'
  <2>1. CASE p # r
    BY <1>1, <1>2, <1>13, <2>1 DEF Register, Goto, Finish
  <2>2. CASE p = r
    <3>1. \/ pc'[p] = "idle"
          \/ pc[p] = "register" /\ job' = job /\ pc'[p] = "running"
      BY <1>1, <1>13, <2>2 DEF Register, Goto, Finish
    <3>2. CASE pc'[p] = "idle"
      BY <1>3, <3>2
    <3>3. CASE pc[p] = "register" /\ job' = job /\ pc'[p] = "running"
      BY <3>3 DEF ListenInv, ListenOk
    <3> QED
      BY <3>1, <3>2, <3>3
  <2> QED
    BY <2>1, <2>2
<1>14. ASSUME NEW r \in Procs, ChildBinds(r) PROVE ListenOk(p)'
  BY <1>2, <1>14 DEF ChildBinds
<1>15. ASSUME NEW r \in Procs, Ends(r) PROVE ListenOk(p)'
  BY <1>1, <1>2, <1>3, <1>15 DEF Ends, Goto
<1>16. ASSUME NEW r \in Procs, Unregister(r) PROVE ListenOk(p)'
  BY <1>1, <1>2, <1>3, <1>16 DEF Unregister, Goto, Finish
<1>17. ASSUME NEW q \in proxies, ProxyStops(q) \/ ProxyDies(q) PROVE ListenOk(p)'
  BY <1>2, <1>17 DEF ProxyStops, ProxyDies
<1>18. CASE \E r \in Procs, at \in files.places :
               \/ \E flags \in files.flags : BeginStart(r, at, flags)
               \/ \E op \in {"run", "serve"}, name \in files.names : BeginApp(r, op, at, name)
  BY <1>5, <1>6, <1>18
<1>19. CASE \E r \in Procs :
               \/ ProxyFound(r) \/ ProxySpawned(r) \/ ProxyFailsToStart(r)
               \/ FindFreePort(r) \/ \E cmd \in Commands : Spawn(r, cmd)
               \/ BindListener(r) \/ Register(r) \/ ChildBinds(r) \/ Ends(r) \/ Unregister(r)
  BY <1>7, <1>8, <1>9, <1>10, <1>11, <1>12, <1>13, <1>14, <1>15, <1>16, <1>19
<1>20. ASSUME NEW user \in Users, NEW d \in Dirs, StaleRemoved(user, d) PROVE ListenOk(p)'
  BY <1>2, <1>20 DEF StaleRemoved
<1> QED
  BY <1>4, <1>17, <1>18, <1>19, <1>20 DEF Next

\* ChildListensWhereRoutePoints holds of any commands that start something: what
\* inject_framework_flags and replace_port_placeholders make of them gets past npm,
\* pnpm, yarn and bun to the framework that the line or its script mentions.
THEOREM ChildrenListen == Spec => []ChildListensWhereRoutePoints
<1>1. Init => ListenInv
  BY DEF Init, ListenInv, ListenOk
<1>2. Spec => []ListenInv
  BY <1>1, ListenStep, LaunchInvariant, PTL DEF Spec
<1>3. ListenInv => ChildListensWhereRoutePoints
  BY DEF ListenInv, ListenOk, ChildListensWhereRoutePoints
<1> QED
  BY <1>2, <1>3, PTL
===============================================================================
