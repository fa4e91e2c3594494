\* A call whose timer fired too early.
SPECIFICATION FairSpec
CONSTANTS
  Devices = {d1}
  Conns = {c1, c2}
  Commands = {k1}
  None = None
PROPERTIES
  CallsReturn
CHECK_DEADLOCK FALSE
