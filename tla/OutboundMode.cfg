\* As MCOutbound, for the control mode too.
CONSTANTS
  Sources = {position, imu}
  Statuses = {status}
  kQueueCapacity = 2
  MaxSample = 1
  MaxFrames = 5
  Numbered = TRUE

SPECIFICATION Spec

INVARIANT NoFieldInvented
