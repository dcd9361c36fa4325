\* One damaged length byte in front of two whole frames.
CONSTANTS
  MaxPayload = 40
  ReadSize = 6
  CapSlack = 6
  Crc32 <- MCCrc32
  Sent <- MCSent
  Streams <- MCHeldStreams

SPECIFICATION Spec

INVARIANT NoCompleteFrameHeld
