\* Frames with the real header and CRC sizes, payloads up to 15 bytes, reads of up to
\* 6 bytes, and a cap that leaves as much room beyond one frame as a read brings.
CONSTANTS
  MaxPayload = 15
  ReadSize = 6
  CapSlack = 6
  Crc32 <- MCCrc32
  Sent <- MCSent
  Streams <- MCStreams

SPECIFICATION FairSpec

INVARIANTS
  TypeOK
  BufferIsWindow
  HeldBytesBounded
  DeliveredFramesReencode
  CleanLinkDelivers
  DamageOnlyDelays

PROPERTIES
  CapNeverDrops
  DeliversEveryFrame
  LoopAdvances
  FeedReturns
