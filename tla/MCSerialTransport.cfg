\* Two descriptors, an adapter that is plugged in up to three times, frames written in
\* up to two pieces; the kernel reports a device that is gone as an error.
CONSTANTS
  Fds = {f1, f2}
  None = None
  BaudRates = {"listed", "unlisted"}
  GoneReads = {"error"}
  MaxPlugs = 3
  FrameSize = 2

SPECIFICATION FairSpec

INVARIANTS
  TypeOK
  CallsHitAnOpenPort
  NoDescriptorLost
  OneSessionInParser

PROPERTIES
  FrameStaysOnOnePort
  Reconnects
  ShutdownAdvances
  ShutdownCompletes
