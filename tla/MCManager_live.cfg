\* Liveness, hence no symmetry: one device, two connections, one command.
SPECIFICATION FairSpec
CONSTANTS
  Devices = {d1}
  Conns = {c1, c2}
  Commands = {k1}
  None = None
PROPERTIES
  CallsReturnOrStrand
  DisplacedFinishes
CHECK_DEADLOCK FALSE
