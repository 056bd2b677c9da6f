\* Two clients and three programs.
SPECIFICATION FairSpec
CONSTANTS
  LittleEndian = TRUE
  ETH_ALEN = 2
  Client = {a, b}
  BadAddress = BadAddress
  Program <- MCProgram
INVARIANTS
  TypeOK
  EntryIsOwnRequest
  LaterEntryInFront
  OneClientAtATime
PROPERTIES
  RefusedOnlyIfBusy
  DeviceReleased
CHECK_DEADLOCK FALSE
