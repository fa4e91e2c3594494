\* Two devices, two connections, two commands.
SPECIFICATION Spec
CONSTANTS
  Devices = {d1, d2}
  Conns = {c1, c2}
  Commands = {k1, k2}
  None = None
SYMMETRY Symmetry
INVARIANTS
  IInv
  NoChannelPanic
  FinishedCallsHoldNothing
  RepliesAreOwn
PROPERTIES
  OnlyOwnerRemoves
  OfflineFailsPending
  CallsKept
CHECK_DEADLOCK FALSE
