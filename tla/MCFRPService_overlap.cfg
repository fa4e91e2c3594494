\* Two requests at a time.
SPECIFICATION Spec
CONSTANTS
  Slots = {r1, r2}
  Configs = {c1, c2}
  Nothing = Nothing
  Stopped = Stopped
  Failing = Failing
  Inspect = Inspect
  Failed = Failed
  Odd = Odd
INVARIANTS
  DeployedComesUp
  ResetLeavesNothing
  FreshDeployRuns
  OddMeansReset
