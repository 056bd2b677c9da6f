\* One lookup over three entries, in which the backward links may come last.
SPECIFICATION FairSpec
CONSTANTS
  LittleEndian = TRUE
  ETH_ALEN = 1
  Cpu = {c1}
  Data <- MCData
  Irq = {3}
  Packet <- MCPacket
  MaxEntries = 3
  Kept <- MCKept
  NoEntry = NoEntry
INVARIANTS
  TypeOK
  NewestEntryWins
  WalkSafeUntilUnload
  ListIntact
  FreedUnreachable
  IInv
PROPERTIES
  ImplementsFlowTable
  LookupEnds
  UnloadFreesAll
CHECK_DEADLOCK FALSE
