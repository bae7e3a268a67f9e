\* A tick of five values and every wait that is shorter by two.
CONSTANTS
  Ticks = 5
  MaxMs = 3
SPECIFICATION WaitsSpec
INVARIANT WaitsItsTime
PROPERTY WaitEnds
