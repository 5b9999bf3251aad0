SPECIFICATION Spec
CONSTANTS
  c1 = c1 c2 = c2 c3 = c3 c4 = c4
  Hosts = {"h1", "h2"}
  Callbacks = {c1, c4}
  Keys = {"shared", "other"}
  Backends <- AllBackends
  NoBackend = NoBackend
  HostOf <- Homes
  KeyOf <- SharedKeys
  PoolOf <- Dedicated
  Faults = FALSE
  SessionLoss = TRUE
INVARIANTS OneBodyPerKey
