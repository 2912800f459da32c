------------------------------ MODULE RequestPath ------------------------------
(***************************************************************************)
(* A client's request on its way through the proxy (proxy/handler.rs,      *)
(* proxy/websocket.rs): the checks of handle_request, the route that is    *)
(* picked from a copy of the cache, the request sent upstream, and what    *)
(* comes back.  The app behind a route may be a dev server that sends the  *)
(* request on to nsl, or the route may lead to the proxy's own port, so a  *)
(* request can come by again; `calls` is the chain of requests in flight,  *)
(* the client's first.  Meanwhile the poller replaces the cache and apps   *)
(* come and go.                                                            *)
(*                                                                         *)
(* Of the headers the model keeps Host and the values of x-nsl-hops; of a  *)
(* response it keeps the status.  A WebSocket upgrade takes the same way   *)
(* with a request of its own making.                                       *)
(***************************************************************************)
EXTENDS HostRouting, Naturals, FiniteSets

CONSTANTS Domains,    \* the configured domain suffixes, in order
          MaxHops,    \* [proxy].max_hops
          Labels,     \* what hostnames consist of
          Tokens,     \* what paths consist of
          Tables,     \* what the cache may be: sequences of routes
          Requests,   \* what clients ask: host, path, upgrade
          Ports,      \* ports of the routes
          ProxyPort,  \* the proxy's own
          MaxDepth    \* bound: requests in one chain

\* The store writes a hostname and a prefix in its normal form once (UniqueKeys in
\* RouteStore).
ASSUME TablesAssumption ==
  \A t \in Tables :
    /\ t \in Seq({t[i] : i \in DOMAIN t})
    /\ \A i \in DOMAIN t : t[i].host \in Seq(Labels) /\ t[i].prefix \in Seq(Tokens)
    /\ \A i, j \in DOMAIN t :
         /\ t[i].host = t[j].host /\ t[i].prefix = t[j].prefix
         /\ NormalizePathPrefix(t[i].prefix) = t[i].prefix
         => i = j

ASSUME RequestsAssumption ==
  \A q \in Requests : q.host \in Seq(Labels) /\ q.path \in Seq(Tokens)
ASSUME TokensAssumption == Slash \in Tokens
ASSUME DomainsAssumption == Domains \in Seq(Seq(Labels))
ASSUME MaxHopsAssumption == MaxHops \in Nat
ASSUME MaxDepthAssumption == MaxDepth \in Nat \ {0}

VARIABLES
  cache,     \* the routes
  up,        \* ports of apps that accept connections
  calls      \* the requests of one chain, the client's first

vars == <<cache, up, calls>>

Stages == {"head", "routed", "sent", "answered"}

\* 101 and 200 stand for what an app answers.
Statuses == {"none", "101", "200", "400", "404", "502", "508"}

\* A request as it arrives: `hops` are the values of its x-nsl-hops headers.
Call(host, path, hops, upgrade) ==
  [host |-> host, path |-> path, hops |-> hops, upgrade |-> upgrade,
   stage |-> "head", route |-> NoRoute, status |-> "none"]

Depth == Len(calls)
Current == calls[Depth]

Init ==
  /\ cache \in Tables
  /\ up \in SUBSET (Ports \ {ProxyPort})
  /\ calls = <<>>

Answer(status) ==
  calls' = [calls EXCEPT ![Depth].stage = "answered", ![Depth].status = status]

ClientRequest ==
  /\ calls = <<>>
  /\ \E q \in Requests : calls' = <<Call(q.host, q.path, <<>>, q.upgrade)>>
  /\ UNCHANGED <<cache, up>>

-------------------------------------------------------------------------------
(* handle_request                                                           *)

At(stage) == calls # <<>> /\ Current.stage = stage

\* Variant with a fault: a request without the header counts as one more.
ExtractHopsFromOne(hops) == IF hops = <<>> THEN 1 ELSE hops[1]

\* Variant with a fault: the header is read under another name.
ExtractHopsUnread(hops) == 0

\* HeaderMap::get returns the first value.
ExtractHops(hops) == IF hops = <<>> THEN 0 ELSE hops[1]

MissingHost ==
  /\ At("head")
  /\ Current.host = <<>>
  /\ Answer("400")
  /\ UNCHANGED <<cache, up>>

LoopDetected ==
  /\ At("head")
  /\ Current.host # <<>>
  /\ ExtractHops(Current.hops) >= MaxHops
  /\ Answer("508")
  /\ UNCHANGED <<cache, up>>

\* The cache is copied under its lock; the route is found in the copy.
LookUp ==
  /\ At("head")
  /\ Current.host # <<>>
  /\ ExtractHops(Current.hops) < MaxHops
  /\ LET route == FindRoute(Current.host, Current.path, cache, Domains)
     IN  \/ /\ route = NoRoute
            /\ Answer("404")
         \/ /\ route # NoRoute
            /\ calls' = [calls EXCEPT ![Depth].stage = "routed", ![Depth].route = route]
  /\ UNCHANGED <<cache, up>>

\* build_forwarded_request, build_raw_upgrade_request: the headers are copied
\* and the new hop count is added to them.
Forwarded ==
  Call(IF Current.route.changeOrigin THEN Loopback ELSE Current.host,
       ForwardedPath(Current.path, Current.route),
       Append(Current.hops, ExtractHops(Current.hops) + 1),
       Current.upgrade)

Sent == [calls EXCEPT ![Depth].stage = "sent"]

\* Variant with a fault: the connection is tried until there is somebody.
ConnectUntilUp ==
  /\ At("routed")
  /\ \/ Current.route.port \in up /\ calls' = Sent
     \/ /\ Current.route.port = ProxyPort
        /\ Depth < MaxDepth
        /\ calls' = Append(Sent, Forwarded)
  /\ UNCHANGED <<cache, up>>

\* The route's port: an app's, nobody's, or the proxy's own.
Connect ==
  /\ At("routed")
  /\ \/ Current.route.port \in up /\ calls' = Sent
     \/ Current.route.port \notin up \cup {ProxyPort} /\ Answer("502")
     \/ /\ Current.route.port = ProxyPort
        /\ Depth < MaxDepth
        /\ calls' = Append(Sent, Forwarded)
  /\ UNCHANGED <<cache, up>>

-------------------------------------------------------------------------------
(* Upstream                                                                 *)

\* The last call is with an app; an app may decline an upgrade.
AppAnswers ==
  /\ At("sent")
  /\ \E status \in {"101", "200"} :
       /\ status = "101" => Current.upgrade
       /\ Answer(status)
  /\ UNCHANGED <<cache, up>>

\* The connection breaks before there is an answer.
AppFails ==
  /\ At("sent")
  /\ Answer("502")
  /\ UNCHANGED <<cache, up>>

\* A dev server proxies the request to nsl: to the name it came under, or to
\* another one.
AppSendsOn ==
  /\ At("sent")
  /\ Depth < MaxDepth
  /\ \E host \in ({Forwarded.host} \cup {q.host : q \in Requests}) \ {<<>>} :
       calls' = Append(calls, [Forwarded EXCEPT !.host = host])
  /\ UNCHANGED <<cache, up>>

\* The answer goes back one step, the headers and the body as they are.
PassBack ==
  /\ At("answered")
  /\ IF Depth = 1
       THEN calls' = <<>>
       ELSE calls' = [SubSeq(calls, 1, Depth - 1) EXCEPT
                        ![Depth - 1].stage = "answered",
                        ![Depth - 1].status = Current.status]
  /\ UNCHANGED <<cache, up>>

-------------------------------------------------------------------------------
PollerStores ==
  /\ cache' \in Tables
  /\ UNCHANGED <<up, calls>>

AppStartsOrStops ==
  /\ up' \in SUBSET (Ports \ {ProxyPort})
  /\ UNCHANGED <<cache, calls>>

Handle == MissingHost \/ LoopDetected \/ LookUp \/ Connect \/ PassBack

Next ==
  \/ ClientRequest \/ Handle \/ AppAnswers \/ AppFails \/ AppSendsOn
  \/ PollerStores \/ AppStartsOrStops

Spec == Init /\ [][Next]_vars

\* The runtime schedules the handler, and an app that has a request answers it
\* or closes the connection.  The proxy itself sets no time limit.
LiveSpec == Spec /\ WF_vars(Handle) /\ WF_vars(AppAnswers \/ AppFails)

-------------------------------------------------------------------------------
TypeOK ==
  /\ cache \in Tables
  /\ up \in SUBSET Ports
  /\ Depth <= MaxDepth
  /\ \A i \in DOMAIN calls :
       /\ calls[i].stage \in Stages
       /\ calls[i].status \in Statuses
       /\ calls[i].stage = "answered" <=> calls[i].status # "none"
       /\ calls[i].stage \in {"routed", "sent"} => calls[i].route.port \in Ports
       /\ i < Depth => calls[i].stage = "sent"

\* A hostname that is a configured domain, or one that a domain lies below: by
\* `ends_with` it matches whatever is under that domain, and nothing elsewhere.
HoldsDomain(host) ==
  \E k \in DOMAIN Domains : host = Domains[k] \/ IsSubdomain(Domains[k], host)

\* One name, many domains: whichever configured domain a client uses for a name,
\* its request goes to the same route (hostname_matches).  Domains may lie below
\* one another: a hostname has the name that the first of its domains leaves.  Only
\* a route that is named for a domain itself sees the difference.
AliasesAgree ==
  \A q \in Requests, i \in DOMAIN Domains :
    LET name  == StripDomainSuffix(q.host, Domains)
        alias == name \o Domains[i]
        found == Candidates(q.host, q.path, cache, Domains)
                   \cup Candidates(alias, q.path, cache, Domains)
    IN  /\ name # <<>>
        /\ StripDomainSuffix(alias, Domains) = name
        /\ \A j \in found : ~HoldsDomain(cache[j].host)
        => FindRoute(alias, q.path, cache, Domains)
             = FindRoute(q.host, q.path, cache, Domains)

\* The route that a request for the route's own address gets.
OwnAddress(r) == FindRoute(r.host, r.prefix, cache, Domains)

\* Whatever else is mounted under its name, and in whatever order, a route is
\* reached under its own address, unless its hostname is also matched by a route of
\* another name, or by one whose prefix was stored with a slash at its end
\* (find_route).
MountIsServed ==
  \A i \in DOMAIN cache :
    (\A j \in DOMAIN cache :
       HostnameMatches(cache[j].host, cache[i].host, Domains) =>
         /\ cache[j].host = cache[i].host
         /\ NormalizePathPrefix(cache[j].prefix) = cache[j].prefix)
    => OwnAddress(cache[i]) = cache[i]

\* What comes by again after it was forwarded has the path the client asked
\* for, less the mount points of the routes with strip_prefix on its way.
StripsTheMountPoint ==
  \A i \in 1..(Depth - 1) :
    LET path   == calls[i].path
        onward == calls[i + 1].path
        route  == calls[i].route
        mount  == NormalizePathPrefix(route.prefix)
    IN  IF route.strip /\ route.prefix # Root
          THEN path = mount \o onward \/ (path = mount /\ onward = Root)
          ELSE onward = path

\* What the hop count does, through whatever routes and dev servers a request comes
\* by again: with max_hops = 1, or 0, a request is forwarded that often at the most;
\* with more, no loop is ever cut, for the count that is read stays at one.
LoopIsCutAtOne ==
  IF MaxHops <= 1
    THEN Depth <= MaxHops + 1
    ELSE \A i \in DOMAIN calls : calls[i].status # "508"

\* README, chaining: once x-nsl-hops "exceeds [proxy].max_hops", the proxy
\* short-circuits.
LoopIsReported == Depth <= MaxHops + 2

\* Only a request that was forwarded max_hops times is taken for a loop.
NoFalseLoop ==
  [][At("head") /\ calls'[Depth].status = "508" => Depth > MaxHops]_vars

\* A client gets an answer, whatever happens to routes and apps meanwhile, as
\* long as the apps that have its request answer or close the connection.
ClientIsAnswered == calls # <<>> ~> calls = <<>>

-------------------------------------------------------------------------------
(* The inductive strengthening of NoFalseLoop and LoopIsCutAtOne                 *)

WellFormed(c) ==
  c = [host |-> c.host, path |-> c.path, hops |-> c.hops, upgrade |-> c.upgrade,
       stage |-> c.stage, route |-> c.route, status |-> c.status]

ChainInv ==
  /\ calls \in Seq({calls[i] : i \in 1..Len(calls)})
  /\ \A i \in 1..Len(calls) : WellFormed(calls[i]) /\ calls[i].hops \in Seq(Nat)

\* However long the chain, the first value is that of the first forwarding.
HopsInv ==
  \A i \in 1..Len(calls) :
    IF i = 1 THEN calls[i].hops = <<>> ELSE calls[i].hops # <<>> /\ calls[i].hops[1] = 1

StageInv ==
  \A i \in 1..Len(calls) :
    /\ i < Depth => calls[i].stage = "sent"
    /\ calls[i].stage = "head" => calls[i].status = "none"
    /\ calls[i].status = "508" => MaxHops <= 1
    /\ calls[i].stage \in {"routed", "sent"} => ExtractHops(calls[i].hops) < MaxHops

HopInv == ChainInv /\ HopsInv /\ StageInv

-------------------------------------------------------------------------------
(* The inductive strengthening of StripsTheMountPoint                       *)

\* A request that has a route lies under its mount; what is sent on has the path
\* that the route before it leaves.
PathInv ==
  \A i \in 1..Len(calls) :
    /\ calls[i].path \in Seq(Tokens)
    /\ calls[i].stage \in {"routed", "sent"} =>
         /\ calls[i].route.prefix \in Seq(Tokens)
         /\ PathMatchesPrefix(calls[i].path, calls[i].route.prefix)
    /\ i > 1 => calls[i].path = ForwardedPath(calls[i - 1].path, calls[i - 1].route)
===============================================================================
