--------------------------- MODULE MCProxyLifecycle ---------------------------
(***************************************************************************)
(* ProxyLifecycle for TLC: a command and a proxy of a user, and of root.  *)
(***************************************************************************)
EXTENDS ProxyLifecycle

CONSTANTS c1, c2, d1, d2, user1, root

Commands == {c1, c2}
Proxies == {d1, d2}
TheirUsers == [x \in Commands \cup Proxies |-> IF x \in {c1, d1} THEN user1 ELSE root]
===============================================================================
