\* The number 60 may be taken.
SPECIFICATION Spec
CONSTANTS
  LittleEndian = TRUE
  ETH_ALEN = 1
  BadAddress = BadAddress
  Packet <- MCMissed
  Entry <- MCEntry
  NoEntry = NoEntry
  Staged <- MCStaged
  Recorded <- MCRecorded
  NumQueues = 1
  Client = {a, b}
  Program <- MCProgram
  MaxEntries = 2
  Context = {s1}
  Irq = {1, 2}
  KernelHash = {0, 2}
  FlowSize = 2
  SockSize = 2
  Online = {0, 1, 2}
SYMMETRY Alike
INVARIANTS
  InstalledModuleHasDevice
