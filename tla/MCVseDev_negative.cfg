\* A negative core number.
SPECIFICATION Spec
CONSTANTS
  LittleEndian = TRUE
  ETH_ALEN = 2
  Client = {a}
  BadAddress = BadAddress
  Program <- MCNegative
INVARIANTS
  InvalidIrqRejected
CHECK_DEADLOCK FALSE
