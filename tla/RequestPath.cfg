\* A client at a time; one repeated forwarding allowed.
SPECIFICATION LiveSpec
CONSTANTS
  Domains <- SomeDomains
  Labels = {"shop", "api", "localhost", "dev", "local"}
  Tokens = {"/", "api", "v1"}
  MaxHops = 1
  Tables <- SomeTables
  Requests <- SomeRequests
  Ports = {1, 9}
  ProxyPort = 9
  MaxDepth = 3
  MaxRoutes = 2
INVARIANTS AliasesAgree MountIsServed StripsTheMountPoint 
PROPERTIES  ClientIsAnswered
