\* Three status requests; the cache lives for three ticks, a lookup for two.
SPECIFICATION Spec
CONSTANTS
  Callers = {r1, r2, r3}
  Addrs = {a1, a2}
  None = None
  TTL = 3
  Timeout = 2
SYMMETRY Symmetry
INVARIANTS
  NoNeedlessLookup
  WaitIsBounded
PROPERTIES
  ToldIsRecent
