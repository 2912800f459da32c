------------------------------- MODULE Settings -------------------------------
(***************************************************************************)
(* From the configuration files, the environment and the command line to   *)
(* the configuration a command runs with (crates/nsl/src/config/mod.rs,    *)
(* cli/mod.rs), and the directory that its files are in.                   *)
(*                                                                         *)
(* A layer gives each key a value or leaves it Unset.  The keys that only  *)
(* pass through (max_hops, force, ready_timeout, display) are left out.    *)
(* A directory is the sequence of its names, a domain that of its labels.  *)
(***************************************************************************)
EXTENDS HostRouting

CONSTANT Unset

Keys == {"listen", "bind", "port", "https", "domains",
         "app_port", "port_range_start", "port_range_end", "state_dir"}

NoLayer   == [k \in Keys |-> Unset]
Localhost == <<"localhost">>
AnyIp     == "0.0.0.0"
LocalIp   == "127.0.0.1"
Word      == 65536

DefaultPort             == 3355
PrivilegedPortThreshold == 1024

\* RawConfig::merge and merge_opt: key by key, the upper layer wins.
Merge(lower, upper) ==
  [k \in Keys |-> IF upper[k] # Unset THEN upper[k] ELSE lower[k]]

\* NSL_LISTEN, NSL_HTTPS, NSL_DOMAINS and NSL_STATE_DIR.
WithEnvOverrides(raw, env) ==
  Merge(raw, [k \in Keys |-> IF k \in {"listen", "https", "domains", "state_dir"}
                               THEN env[k] ELSE Unset])

\* "HOST:PORT" is [ip, port], ":PORT" has the ip "" and what does not parse has
\* the ip "?".
ParsesAsListen(text) == text.ip # "?"
ParseListen(text)    == IF text.ip = "" THEN [text EXCEPT !.ip = AnyIp] ELSE text

Or(value, default) == IF value = Unset THEN default ELSE value

\* A listen that does not parse does not fall back on the deprecated keys; of those,
\* a bind that is no address ("?") counts for nothing.
ResolveProxyListen(raw) ==
  IF raw.listen = Unset
    THEN [ ip   |-> IF raw.bind = "?" THEN LocalIp ELSE Or(raw.bind, LocalIp),
           port |-> Or(raw.port, DefaultPort) ]
    ELSE IF ParsesAsListen(raw.listen) THEN ParseListen(raw.listen)
    ELSE [ip |-> LocalIp, port |-> DefaultPort]

EnsureLocalhost(domains) ==
  IF \E i \in DOMAIN domains : domains[i] = Localhost
    THEN domains ELSE <<Localhost>> \o domains

Resolve(raw) ==
  [ listen    |-> ResolveProxyListen(raw),
    https     |-> Or(raw.https, FALSE),
    domains   |-> EnsureLocalhost(Or(raw.domains, <<Localhost>>)),
    app_port  |-> raw.app_port,
    range     |-> <<Or(raw.port_range_start, 20000), Or(raw.port_range_end, 29999)>>,
    state_dir |-> raw.state_dir ]

\* The nsl.toml of the directory or of the nearest one above it; `projects` maps
\* the directories that have one to its layer.
FindProjectConfig(dir, projects) ==
  LET above == {d \in DOMAIN projects : StartsWith(dir, d)}
  IN  IF above = {} THEN NoLayer
      ELSE projects[CHOOSE d \in above : \A e \in above : Len(e) <= Len(d)]

\* /etc/nsl/config.toml, ~/.nsl/config.toml, nsl.toml
FileLayers(files, cwd) ==
  Merge(Merge(files.etc, files.home), FindProjectConfig(cwd, files.projects))

LoadConfig(files, env, cwd) == Resolve(WithEnvOverrides(FileLayers(files, cwd), env))

ApplyCliOverrides(config, listen, https) ==
  [config EXCEPT !.listen = IF listen = Unset THEN @ ELSE ParseListen(listen),
                 !.https  = @ \/ https]

\* The daemon is given --listen and --https, and loads the rest for itself, in the
\* directory and with the environment of the command that starts it.
DaemonConfig(files, env, cwd, config) ==
  ApplyCliOverrides(LoadConfig(files, env, cwd), config.listen, config.https)

UserDir       == "~/.nsl"
PrivilegedDir == "/tmp/nsl"

DefaultStateDir(port) == IF port < PrivilegedPortThreshold THEN PrivilegedDir ELSE UserDir

\* Config::resolve_state_dir
ResolveStateDir(config) == Or(config.state_dir, DefaultStateDir(config.listen.port))

\* utils::resolve_state_dir, which `nsl status` uses, knows the environment only.
ResolveStateDirFromEnv(env, port) == Or(env.state_dir, DefaultStateDir(port))
===============================================================================
