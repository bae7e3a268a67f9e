CONSTANTS
  PKT = 2
  Cap = 2
  Enumeration <- Configure
  InUse <- ControlLine
  MaxSetups = 2
  MaxResets = 0
  MaxIn = 4
  MaxOut = 3
  MaxWork = 5
SPECIFICATION Spec
INVARIANT RxInOrder
INVARIANT TxInOrder
PROPERTY TxDeliveredAlone
PROPERTY RxDelivered
