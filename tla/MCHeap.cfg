CONSTANTS
  HeapStart = 5
  Capacity = 9
  HistMax = 3
  Pools <- MCPools
  SizeMax <- MCSizeMax
  Bytes <- MCBytes
  Arrays <- MCArrays
  Client = {a, b, c}
  Junk = Junk
SPECIFICATION Spec
INVARIANTS HeapInv WellFormed ServesWhatFits
PROPERTIES OthersKept UsesBlocks ImplementsAllocator
SYMMETRY MCSymmetry
