\* Liveness, hence no symmetry: two connections of a device, two commands.
SPECIFICATION FairSpec
CONSTANTS
  Conns = {c1, c2}
  Commands = {k1, k2}
  None = None
INVARIANTS
  OnlyResponseMixes
PROPERTIES
  WritesEnd
  ReconnectIsServed
CHECK_DEADLOCK FALSE
