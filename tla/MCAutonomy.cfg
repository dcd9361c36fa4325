\* Three requests, queues of two frames, GGA sentences without end.
CONSTANTS
  Sources = {position}
  Statuses <- MCStatuses
  kQueueCapacity = 2
  MaxSample = 1
  MaxFrames = 0
  Numbered = FALSE
  MaxRequests = 3

SPECIFICATION AutonomyFairSpec

INVARIANTS
  AckTellsOutcome
  GroundLearnsMode
  LastRequestAnswered

PROPERTIES
  AckGetsItsTurn
  RequestAcknowledged
