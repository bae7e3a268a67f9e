CONSTANTS
  NFD = 5
  File = {"long", "huge"}
  NoFile = "none"
  LongMax = 2
  Counts = {0, 1, 2, 3}
  Size <- MCSize
  Fds <- MCFds
  Offsets <- MCOffsets
SPECIFICATION Spec
INVARIANT FdInv
INVARIANT ObjectForSlot
PROPERTY ImplementsDescriptors
