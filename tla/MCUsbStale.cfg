CONSTANTS
  PKT = 2
  Cap = 2
  Enumeration <- Configure
  InUse <- ClearRx
  MaxSetups = 2
  MaxResets = 0
  MaxIn = 0
  MaxOut = 3
  MaxWork = 9
SPECIFICATION Spec
INVARIANT RxNothingInvented
