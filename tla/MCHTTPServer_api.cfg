\* Every configuration, then every request, with two devices that come and go.
SPECIFICATION APISpec
CONSTANTS
  Half = 8
  Second = 3
  Seconds <- SomeSeconds
  Default = 2
  Devices = {d1, d2}
INVARIANTS
  ServesAsAsked
  RefusalChangesNothing
  OkIsDone
CHECK_DEADLOCK FALSE
