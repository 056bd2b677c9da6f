\* The options of the usage text, in either order.
SPECIFICATION Spec
CONSTANTS
  LittleEndian = TRUE
  ETH_ALEN = 2
  Client = {a}
  BadAddress = BadAddress
  Program <- MCReordered
INVARIANTS
  EntriesCarryWholeRequest
CHECK_DEADLOCK FALSE
