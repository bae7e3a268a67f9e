CONSTANTS
  N = 4
  M = 8
  Byte = {0, 1}
  NoByte = NoByte
  PutMax = 3
  GetMax = 3
SPECIFICATION Spec
INVARIANT NoOverrun
PROPERTY ImplementsFifo
