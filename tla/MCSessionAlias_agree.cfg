\* Two operators and two connections of two devices, saving may fail.
SPECIFICATION Spec
CONSTANTS
  Devices = {d1, d2}
  Operators = {o1, o2}
  Handlers = {h1, h2}
  Names = {n1, n2}
  WiFi = WiFi
  NoAlias = NoAlias
  None = None
SYMMETRY Symmetry
INVARIANTS
  UndisturbedAgrees
