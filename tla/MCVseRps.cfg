\* Two contexts on one queue; cores 1 and 5 share a slot, 2 has its own, and the
\* kernel's hash 9 falls into the slots of core 1.
SPECIFICATION Spec
CONSTANTS
  Context = {s1, s2}
  Irq = {0, 1, 2, 5, 255}
  KernelHash = {0, 9}
  Recorded <- MCRecorded
  NumQueues = 1
  FlowSize = 8
  SockSize = 4
  Online = {0, 1, 2, 5}
SYMMETRY Alike
INVARIANTS
  TypeOK
  CoreSharesSlot
  SteeredAsAsked
  IInv
