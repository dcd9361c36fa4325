\* As MCSerialTransport, but a read from a device that is gone ends at once with
\* 0 bytes, as it does on a terminal that was hung up.
CONSTANTS
  Fds = {f1, f2}
  None = None
  BaudRates = {"listed"}
  GoneReads = {"eof"}
  MaxPlugs = 2
  FrameSize = 1

SPECIFICATION FairSpec

PROPERTY Reconnects
