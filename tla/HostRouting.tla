------------------------------ MODULE HostRouting ------------------------------
(***************************************************************************)
(* Which route a request belongs to, and what is forwarded for it          *)
(* (crates/nsl/src/proxy/handler.rs).                                      *)
(*                                                                         *)
(* A hostname is the sequence of its labels, "api.shop.localhost" being    *)
(* <<"api", "shop", "localhost">>; a configured domain is one as well.     *)
(* The absent or empty hostname is <<>>.  A port after the hostname is     *)
(* left out: extract_host drops it.                                        *)
(***************************************************************************)
EXTENDS PathPrefix

NoRoute == [host |-> <<>>]

\* "127.0.0.1", which a route with change_origin puts in the Host header.
Loopback == <<"127", "0", "0", "1">>

\* ends_with(".b"): something and a dot come before.
IsSubdomain(a, b) ==
  Len(b) < Len(a) /\ SubSeq(a, Len(a) - Len(b) + 1, Len(a)) = b

\* No configured domain lies below another.
Apart(domains) == \A i, j \in DOMAIN domains : ~IsSubdomain(domains[i], domains[j])

\* The domains that a hostname ends in, as positions in the configuration.
DomainsOf(host, domains) ==
  {i \in DOMAIN domains : host = domains[i] \/ IsSubdomain(host, domains[i])}

\* The first configured domain counts.  <<>> stands for None as well as for a
\* hostname that is a domain itself: neither matches anything.
StripDomainSuffix(host, domains) ==
  LET found == DomainsOf(host, domains)
  IN  IF found = {} THEN <<>>
      ELSE LET i == CHOOSE j \in found : \A k \in found : j <= k
           IN  SubSeq(host, 1, Len(host) - Len(domains[i]))

\* Variant with a fault: across domains, subdomains are forgotten.
HostnameMatchesSameName(routeHost, reqHost, domains) ==
  \/ routeHost = reqHost
  \/ IsSubdomain(reqHost, routeHost)
  \/ LET rp == StripDomainSuffix(routeHost, domains)
     IN  rp # <<>> /\ rp = StripDomainSuffix(reqHost, domains)

HostnameMatches(routeHost, reqHost, domains) ==
  \/ routeHost = reqHost
  \/ IsSubdomain(reqHost, routeHost)
  \/ LET rp == StripDomainSuffix(routeHost, domains)
         qp == StripDomainSuffix(reqHost, domains)
     IN  rp # <<>> /\ qp # <<>> /\ (rp = qp \/ IsSubdomain(qp, rp))

\* Positions of the routes that match.
Candidates(host, path, routes, domains) ==
  {i \in DOMAIN routes : /\ HostnameMatches(routes[i].host, host, domains)
                         /\ PathMatchesPrefix(path, routes[i].prefix)}

\* Variant with a fault: the earliest of the routes that match.
FindRouteFirst(host, path, routes, domains) ==
  LET found == Candidates(host, path, routes, domains)
  IN  IF found = {} THEN NoRoute
      ELSE routes[CHOOSE i \in found : \A j \in found : i <= j]

\* The stable sort by length puts the earliest of the longest prefixes first.
\* Prefixes of one path are ordered by length as their tokens are.
FindRoute(host, path, routes, domains) ==
  LET found   == Candidates(host, path, routes, domains)
      length(i) == Len(routes[i].prefix)
      longest == {i \in found : \A j \in found : length(j) <= length(i)}
  IN  IF found = {} THEN NoRoute
      ELSE routes[CHOOSE i \in longest : \A j \in longest : i <= j]

\* Variant with a fault: stripped whether asked to or not.
ForwardedPathAlways(path, route) ==
  IF route.prefix # Root THEN StripPathPrefix(path, route.prefix) ELSE path

\* The path that goes upstream; the query string goes along unchanged.
ForwardedPath(path, route) ==
  IF route.strip /\ route.prefix # Root
    THEN StripPathPrefix(path, route.prefix)
    ELSE path
===============================================================================
