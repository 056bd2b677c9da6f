\* Three clients, one of them turned away.
SPECIFICATION Spec
CONSTANTS
  LittleEndian = TRUE
  ETH_ALEN = 2
  Client = {a, b, c}
  BadAddress = BadAddress
  Program <- MCReordered
PROPERTIES
  NeverBusyAlone
CHECK_DEADLOCK FALSE
