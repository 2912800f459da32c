--------------------------------- MODULE Names ---------------------------------
(***************************************************************************)
(* From the name of an application to the hostname its route is stored     *)
(* under and to the URLs that are printed for it                           *)
(* (crates/nsl/src/utils/mod.rs).  A hostname is the sequence of its       *)
(* labels; two dots in a row have the label "" between them.               *)
(***************************************************************************)
EXTENDS HostRouting

NotAHostname == <<>>

\* The first configured domain that the hostname is below, as strip_suffix finds
\* it: a hostname that is a domain may still be below another.
PrefixOf(host, domains) ==
  LET below == {i \in DOMAIN domains : IsSubdomain(host, domains[i])}
  IN  IF below = {} THEN <<>>
      ELSE LET i == CHOOSE j \in below : \A k \in below : j <= k
           IN  SubSeq(host, 1, Len(host) - Len(domains[i]))

HasConsecutiveDots(name) == \E i \in 2..(Len(name) - 1) : name[i] = ""

\* `input` is what is left of the name without scheme and path.
ParseHostname(input, domains) ==
  LET host == IF DomainsOf(input, domains) # {} THEN input ELSE input \o domains[1]
      name == PrefixOf(host, domains)
  IN  IF input = <<>> \/ name \in {<<>>, <<"">>} \/ HasConsecutiveDots(name)
        THEN NotAHostname ELSE host

\* Variant with a fault: the domain is left on.
ExtractWholeHostname(host, domains) == host

ExtractHostnamePrefix(host, domains) ==
  IF PrefixOf(host, domains) = <<>> THEN host ELSE PrefixOf(host, domains)

\* A URL without a port stands for the scheme's; 0 is none.
FormatUrl(host, port, tls) ==
  [ https |-> tls, host |-> host,
    port  |-> IF port = (IF tls THEN 443 ELSE 80) THEN 0 ELSE port ]

FormatUrls(prefix, domains, port, tls) ==
  {FormatUrl(prefix \o domains[i], port, tls) : i \in DOMAIN domains}

\* External: where a browser connects to.
ConnectsTo(url) == IF url.port # 0 THEN url.port ELSE IF url.https THEN 443 ELSE 80
===============================================================================
