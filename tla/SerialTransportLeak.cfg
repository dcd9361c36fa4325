\* A baud rate that baud_to_speed() does not list: what becomes of the descriptors.
CONSTANTS
  Fds = {f1, f2, f3}
  None = None
  BaudRates = {"unlisted"}
  GoneReads = {"error"}
  MaxPlugs = 1
  FrameSize = 1

SPECIFICATION Spec

INVARIANT DescriptorsAccountedFor
