\* Liveness, hence no symmetry: two devices, two listeners that come and go,
\* a stream of two places.
SPECIFICATION FairSpec
CONSTANTS
  Conns = {c1, c2}
  Listeners = {l1, l2}
  Streaming = Streaming
  Streams = {s1}
  Cap = 2
  MaxEvents = 2
INVARIANTS
  TypeOK
  EveryoneIsTold
  OrderKept
PROPERTIES
  EndedGetsNoNewEvent
  DeviceNeverBlocked
  QueuedIsWritten
CHECK_DEADLOCK FALSE
