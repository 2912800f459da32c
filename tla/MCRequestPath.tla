----------------------------- MODULE MCRequestPath -----------------------------
(* Small instances of RequestPath for TLC. *)
EXTENDS RequestPath

CONSTANT MaxRoutes  \* bound: routes in the cache

Localhost == <<"localhost">>
DevLocal  == <<"dev", "local">>
DevLocalhost == <<"dev", "localhost">>

\* The last of them lies below the first (ensure_localhost puts localhost before
\* whatever is configured).
SomeDomains == <<Localhost, DevLocal, DevLocalhost>>

Shop    == <<"shop">>
ApiShop == <<"api", "shop">>

Api   == Root \o <<"api">>
ApiV1 == Api \o Root \o <<"v1">>

Route(host, prefix, port, strip, changeOrigin) ==
  [host |-> host, prefix |-> prefix, port |-> port, strip |-> strip,
   changeOrigin |-> changeOrigin]

SomeRoutes ==
  { Route(Shop \o Localhost, Root, 1, FALSE, FALSE),
    Route(Shop \o Localhost, Api, 1, TRUE, FALSE),
    Route(ApiShop \o Localhost, Root, 1, FALSE, FALSE),
    Route(Localhost, Root, 1, FALSE, FALSE),
    Route(Shop \o Localhost, Api \o Root, 1, FALSE, FALSE),
    Route(Shop \o Localhost, ApiV1, ProxyPort, TRUE, FALSE),
    Route(ApiShop \o Localhost, Api, ProxyPort, FALSE, TRUE) }

\* The store keeps one entry for a hostname and a prefix.
TablesOf(routes) ==
  {t \in UNION {[1..n -> routes] : n \in 0..MaxRoutes} :
     \A i, j \in DOMAIN t :
       t[i].host = t[j].host /\ t[i].prefix = t[j].prefix => i = j}

SomeTables == TablesOf(SomeRoutes)

Ask(host, path, upgrade) == [host |-> host, path |-> path, upgrade |-> upgrade]

SomeRequests ==
  { Ask(Shop \o DevLocal, ApiV1 \o Root, FALSE), Ask(ApiShop \o DevLocal, Api, FALSE),
    Ask(Shop \o Localhost, Root, TRUE), Ask(Shop \o DevLocalhost, Api, FALSE),
    Ask(<<>>, Root, FALSE) }

\* A client whose requests come by for ever: plain ones, to a route that leads to
\* the proxy's own port.
OwnPortTables ==
  TablesOf({Route(Shop \o Localhost, Root, ProxyPort, FALSE, FALSE),
            Route(Shop \o Localhost, Api, ProxyPort, TRUE, FALSE)})

PlainRequests == { q \in SomeRequests : ~q.upgrade }
===============================================================================
