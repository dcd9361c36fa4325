\* Sources that stop, and time without end for the timers.
CONSTANTS
  Sources = {position, imu}
  Statuses = {status}
  kQueueCapacity = 1
  MaxSample = 1
  MaxFrames = 0
  Numbered = FALSE

SPECIFICATION FairSpec

PROPERTY StaleSlotStaysEmpty
