\* A timeout of four ticks, checks every two, at most one tick late.
CONSTANTS
  radio_timeout = 4
  CheckPeriod = 2
  MaxLate = 1
  Payloads <- MCPayloads

SPECIFICATION Spec

INVARIANTS
  RelaysWholeMessages
  SilenceNoticed
  RecoveredInTime

PROPERTIES
  RecoveredByBytes
