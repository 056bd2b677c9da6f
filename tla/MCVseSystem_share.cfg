\* Two softirqs, and cores of which two share a slot of either table.
SPECIFICATION Spec
CONSTANTS
  LittleEndian = TRUE
  ETH_ALEN = 1
  BadAddress = BadAddress
  Packet <- MCHit
  Entry <- MCEntry
  NoEntry = NoEntry
  Staged <- MCStaged
  Recorded <- MCRecorded
  NumQueues = 1
  Client = {a}
  Program <- MCMoves
  MaxEntries = 2
  Context = {s1, s2}
  Irq = {1, 2, 3}
  KernelHash = {0, 1}
  FlowSize = 2
  SockSize = 2
  Online = {0, 1, 2, 3}
SYMMETRY AlikeToo
INVARIANTS
  SteeredByOwnRequest
  
