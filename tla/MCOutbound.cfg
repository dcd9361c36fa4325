\* Numbered frames: two sources of one message each, queues of two frames, five frames.
CONSTANTS
  Sources = {position, imu}
  Statuses = {status}
  kQueueCapacity = 2
  MaxSample = 1
  MaxFrames = 5
  Numbered = TRUE

SPECIFICATION Spec

INVARIANTS
  TypeOK
  NoSourceInvented
  NewestWaits
  WireInOrder
  OneStaleTelemetry

CHECK_DEADLOCK FALSE
