CONSTANTS
  PKT = 2
  Cap = 2
  Enumeration <- AllRequests
  InUse <- AllRequests
  MaxSetups = 3
  MaxResets = 1
  MaxIn = 0
  MaxOut = 0
  MaxWork = 4
SPECIFICATION Spec
INVARIANT BusInv
INVARIANT ControlConforms
INVARIANT ReplyWhole
PROPERTY AddressAfterStatus
PROPERTY ControlEnds
PROPERTY KnownServed
