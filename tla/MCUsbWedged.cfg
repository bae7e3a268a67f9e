CONSTANTS
  PKT = 2
  Cap = 2
  Enumeration <- Configure
  InUse <- LineRequests
  MaxSetups = 2
  MaxResets = 0
  MaxIn = 2
  MaxOut = 0
  MaxWork = 9
SPECIFICATION Spec
PROPERTY TxDelivered
