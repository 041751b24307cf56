SPECIFICATION PoolsSpec
CONSTANTS
  k1 = k1
  k2 = k2
  rich = rich
  other = other
  system = system
  user = user
  a = a
  b = b
  System = system
  Known = {rich}
  Tenants = {system, user}
  Providers = {rich, other}
  Callers = {a, b}
  Keys = {k1, k2}
  Env <- EnvOne
  Persisted <- SomeKept
SYMMETRY CallersAlike
INVARIANTS
  OwnCounters
  AddedOnce
PROPERTY SystemKeysStay
