\* A loop over the proxy's own port, with two rounds allowed.
SPECIFICATION Spec
CONSTANTS
  Domains <- SomeDomains
  Labels = {"shop", "api", "localhost", "dev", "local"}
  Tokens = {"/", "api", "v1"}
  MaxHops = 2
  Tables <- OwnPortTables
  Requests <- PlainRequests
  Ports = {9}
  ProxyPort = 9
  MaxDepth = 6
  MaxRoutes = 1
INVARIANTS LoopIsReported
