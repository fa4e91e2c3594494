\* Two requests at a time.
SPECIFICATION Spec
CONSTANTS
  Slots = {r1, r2}
  Peers = {p1}
  Egresses = {e1, e2}
  None = None
  Clear = Clear
  Wipe = Wipe
  Inspect = Inspect
  Failed = Failed
  Mismatch = Mismatch
  MaxKeys = 2
  MaxRules = 1
  MaxIgnored = 2
SYMMETRY Symmetry
CONSTRAINT OneTrouble
INVARIANTS
  KeysMatch
  DeployedIsServed
  ResetClears
  MismatchIsReal
PROPERTIES
  KeysAreKept
