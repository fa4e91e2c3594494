\* Two devices, three goroutines; the disk fails and the process crashes.
SPECIFICATION Spec
CONSTANTS
  Devices = {d1, d2}
  Slots = {o1, o2, o3}
  Names = {lan}
  Numbers = {2}
  NoAlias = NoAlias
  Wrapped = Wrapped
  Torn = Torn
  IntMax = 3
SYMMETRY Symmetry
INVARIANTS
  QuietFileIsMemory
PROPERTIES
  WholeFileIsMemory
  AutoAliasIsNew
  ReusedOnReconnect
CHECK_DEADLOCK FALSE
