SPECIFICATION MCSpec
CONSTANTS
  Tokens = {t1, t2}
  Keys = {k1}
  IPs = {ip1, ip2}
  Subjects = {u1}
  Apps = {app1}
  Policies <- MCPolicies
  Requests = {r1}
  None = None
  TTL = 2
  MaxNow = 4
  MaxFaults = 1
  MaxRestarts = 1
  Window = 2
  PerSourceLimit = 2
  GlobalLimit = 3
  MaxSources = 1
  Browsers = {b1, b2}
  States = {s1, s2}
  TransactionTTL = 1
  Capacity = 2
  BrowserCapacity = 1
  DiscoveryTTL = 1
  DiscoveryBackoff = 1
SYMMETRY Symmetric
INVARIANTS SessionsAgree AttemptBound
PROPERTY LoginIsOnes
CHECK_DEADLOCK FALSE
