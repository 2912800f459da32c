SPECIFICATION Spec
CONSTANTS
  Hosts = {h1}
  Keys = {k1, k2, k3, k4, k5, k6, k7}
  MaxCache = 1
  MaxMishaps = 2
  Absent = Absent
  Torn = Torn
  None = None
CHECK_DEADLOCK FALSE
INVARIANTS
  TypeOK
  ServedCertIsTrusted
PROPERTIES
  EnsureMakesAChain
  TrustedMeansInstalled
