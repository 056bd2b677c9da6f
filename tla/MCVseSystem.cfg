\* Two runs of the tool, packets of a network that only one of them asks for, and one
\* softirq; cores that share no slot, one of which the kernel may hash to.
SPECIFICATION Spec
CONSTANTS
  LittleEndian = TRUE
  ETH_ALEN = 1
  BadAddress = BadAddress
  Packet <- MCMissed
  Entry <- MCEntry
  NoEntry = NoEntry
  Staged <- MCStaged
  Recorded <- MCRecorded
  NumQueues = 1
  Client = {a, b}
  Program <- MCProgram
  MaxEntries = 2
  Context = {s1}
  Irq = {1, 2}
  KernelHash = {0, 2}
  FlowSize = 2
  SockSize = 2
  Online = {0, 1, 2}
SYMMETRY Alike
INVARIANTS
  TypeOK
  SteeredByOwnRequest
  
  FinishedRequestGoverns
PROPERTIES
  ImplementsFlowTable
