---------------------------- MODULE VseRpsProofs ----------------------------
(***************************************************************************)
(* Proofs about steering, for any number of contexts, queues and entries   *)
(* and tables of any size.                                                 *)
(***************************************************************************)
EXTENDS VseRps, TLAPS

USE RpsAssumption

LEMMA SlotRange ==
  ASSUME NEW i \in Int
  PROVE  FlowSlot(i) \in 0..(FlowSize - 1) /\ SockSlot(i) \in 0..(SockSize - 1)
  BY DEF FlowSlot, SockSlot

LEMMA IrqIsNumber ==
  /\ \A i \in Irq : i \in Int /\ i # RPS_NO_CPU
  /\ \A c \in Online : c \in Int /\ c # RPS_NO_CPU /\ c # Elsewhere
  /\ \A h \in Hash : h \in Int
  /\ NoIrq \in Int /\ NoIrq \notin Irq
  BY DEF RPS_NO_CPU, Elsewhere, NoIrq, Hash

THEOREM InitEstablishes == Init => IInv
<1> SUFFICES ASSUME Init PROVE IInv
  OBVIOUS
<1>1. TypeOK
  BY DEF Init, TypeOK
<1>2. SlotInv
  <2>1. \A i \in Hash : FlowSlot(i) \in 0..(FlowSize - 1)
    BY SlotRange, IrqIsNumber
  <2>2. QED
    BY <2>1 DEF Init, SlotInv
<1>3. \A a \in Context : ContextInv(a)
  BY IrqIsNumber DEF Init, ContextInv
<1>4. CoreSharesSlot /\ SteeredAsAsked
  BY DEF Init, CoreSharesSlot, SteeredAsAsked
<1>5. QED
  BY <1>1, <1>2, <1>3, <1>4 DEF IInv

\* A core found in a slot of the socket flow table and copied to one of a queue's
\* table shares a slot with everyone who looks there.
LEMMA CopiedShares ==
  ASSUME NEW c \in Irq, NEW i \in Hash, NEW j \in Hash,
         SockSlot(c) = SockSlot(i), FlowSlot(i) = FlowSlot(j)
  PROVE  Shares(c, j)
  BY SizesAssumption DEF Shares, Hash

\* A step that concerns contexts other than a, and the socket table only in
\* filling slots, leaves what is known of a.
LEMMA OthersUndisturbed ==
  ASSUME IInv, NEW a \in Context, UNCHANGED <<flowOn, sockOn>>,
         pc'[a] = pc[a], rxq'[a] = rxq[a], irq'[a] = irq[a], planted'[a] = planted[a],
         core'[a] = core[a],
         \A k \in 0..(SockSize - 1) : sock[k] # RPS_NO_CPU => sock'[k] # RPS_NO_CPU
  PROVE  ContextInv(a)'
<1>1. ContextInv(a) /\ irq[a] \in Irq \cup {NoIrq}
  BY DEF IInv, TypeOK
<1>2. irq[a] \in Int
  BY <1>1, IrqIsNumber
<1>3. SockSlot(irq[a]) \in 0..(SockSize - 1)
  BY <1>2, SlotRange
<1>4. SockSlot(irq'[a]) = SockSlot(irq[a])
  BY DEF SockSlot
<1>5. QED
  BY <1>1, <1>3, <1>4 DEF ContextInv

\* The verdicts on contexts that are not done do not matter.
LEMMA VerdictsKept ==
  ASSUME IInv, NEW a \in Context, pc'[a] # "done",
         \A b \in Context \ {a} : /\ pc'[b] = pc[b] /\ irq'[b] = irq[b]
                                  /\ planted'[b] = planted[b] /\ core'[b] = core[b]
  PROVE  CoreSharesSlot' /\ SteeredAsAsked'
  BY DEF IInv, CoreSharesSlot, SteeredAsAsked, Hashed

\* What one store does to the queues' tables.
LEMMA OneSlot ==
  ASSUME IInv, NEW q \in Queue, NEW k \in 0..(FlowSize - 1), NEW c \in Irq \cup {RPS_NO_CPU},
         flow' = [flow EXCEPT ![q][k] = c]
  PROVE  /\ flow' \in [Queue -> [0..(FlowSize - 1) -> Irq \cup {RPS_NO_CPU}]]
         /\ \A r \in Queue, j \in 0..(FlowSize - 1) :
              flow'[r][j] = IF r = q /\ j = k THEN c ELSE flow[r][j]
  BY DEF IInv, TypeOK

-----------------------------------------------------------------------------
(* The settings.                                                           *)

\* A queue that gets a new table forgets what the old one held.
LEMMA FlowTableStep ==
  ASSUME IInv, NEW r \in Queue, SetFlowTable(r)
  PROVE  IInv'
<1>1. /\ flowOn' = [flowOn EXCEPT ![r] = TRUE]
      /\ flow' = [flow EXCEPT ![r] = [k \in 0..(FlowSize - 1) |-> RPS_NO_CPU]]
      /\ UNCHANGED <<sockOn, sock, rxq, irq, planted, core>>
  BY DEF SetFlowTable
<1>2. ASSUME NEW a \in Context
      PROVE  \/ pc'[a] = pc[a]
             \/ pc[a] = "flow" /\ pc'[a] = "replaced"
  BY DEF SetFlowTable
<1>3. TypeOK'
  <2>1. flowOn' \in [Queue -> BOOLEAN]
    BY <1>1 DEF IInv, TypeOK
  <2>2. flow' \in [Queue -> [0..(FlowSize - 1) -> Irq \cup {RPS_NO_CPU}]]
    BY <1>1 DEF IInv, TypeOK
  <2>3. pc' \in [Context -> {"idle", "flow", "replaced", "sock", "kernel", "done"}]
    BY DEF IInv, TypeOK, SetFlowTable
  <2>4. QED
    BY <1>1, <2>1, <2>2, <2>3 DEF IInv, TypeOK
<1>4. SlotInv'
  <2>1. ASSUME NEW q \in Queue, NEW i \in Hash, flow'[q][FlowSlot(i)] # RPS_NO_CPU
        PROVE  Shares(flow'[q][FlowSlot(i)], i)
    <3>1. FlowSlot(i) \in 0..(FlowSize - 1)
      BY SlotRange, IrqIsNumber
    <3>2. q # r /\ flow'[q] = flow[q]
      BY <1>1, <2>1, <3>1 DEF IInv, TypeOK
    <3>3. QED
      BY <2>1, <3>2 DEF IInv, SlotInv
  <2>2. QED
    BY <1>1, <2>1 DEF IInv, SlotInv
<1>5. ASSUME NEW a \in Context PROVE ContextInv(a)'
  <2>1. ContextInv(a) /\ (flowOn[rxq[a]] /\ rxq[a] \in Queue => flowOn'[rxq[a]])
    BY <1>1 DEF IInv, TypeOK
  <2>2. QED
    BY <1>1, <1>2, <2>1 DEF ContextInv
<1>6. CoreSharesSlot' /\ SteeredAsAsked'
  BY <1>1, <1>2 DEF IInv, CoreSharesSlot, SteeredAsAsked, Hashed
<1>7. QED
  BY <1>3, <1>4, <1>5, <1>6 DEF IInv

LEMMA SockTableStep ==
  ASSUME IInv, SetSockTable
  PROVE  IInv'
<1>1. sockOn' = TRUE /\ UNCHANGED <<flowOn, flow, sock, pc, rxq, irq, planted, core>>
  BY DEF SetSockTable
<1>2. TypeOK' /\ SlotInv' /\ CoreSharesSlot' /\ SteeredAsAsked'
  <2>1. TypeOK'
    BY <1>1 DEF IInv, TypeOK
  <2>2. SlotInv' /\ CoreSharesSlot' /\ SteeredAsAsked'
    BY <1>1 DEF IInv, SlotInv, CoreSharesSlot, SteeredAsAsked, Hashed
  <2>3. QED
    BY <2>1, <2>2
<1>3. \A a \in Context : ContextInv(a)'
  BY <1>1 DEF IInv, ContextInv
<1>4. QED
  BY <1>2, <1>3 DEF IInv

\* Emptying a slot takes what was planted there from those the kernel has still
\* to look it up for, and from no others.
LEMMA ResetStep ==
  ASSUME IInv, NEW k \in 0..(SockSize - 1), ResetSockSlot(k)
  PROVE  IInv'
<1>1. /\ sock' = [sock EXCEPT ![k] = RPS_NO_CPU]
      /\ UNCHANGED <<flowOn, sockOn, flow, pc, rxq, irq, core>>
  BY DEF ResetSockSlot
<1>2. ASSUME NEW a \in Context
      PROVE  /\ planted'[a] \in BOOLEAN
             /\ planted'[a] => planted[a] /\ (pc[a] = "kernel" => SockSlot(irq[a]) # k)
             /\ pc[a] # "kernel" => planted'[a] = planted[a]
  BY DEF ResetSockSlot, IInv, TypeOK
<1>3. TypeOK'
  <2>1. sock' \in [0..(SockSize - 1) -> Irq \cup {RPS_NO_CPU}]
    BY <1>1 DEF IInv, TypeOK
  <2>2. planted' \in [Context -> BOOLEAN]
    BY <1>2 DEF ResetSockSlot
  <2>3. QED
    BY <1>1, <2>1, <2>2 DEF IInv, TypeOK
<1>4. SlotInv'
  BY <1>1 DEF IInv, TypeOK, SlotInv
<1>5. ASSUME NEW a \in Context PROVE ContextInv(a)'
  <2>1. ContextInv(a) /\ irq[a] \in Irq \cup {NoIrq}
    BY DEF IInv, TypeOK
  <2>2. SockSlot(irq[a]) \in 0..(SockSize - 1)
    BY <2>1, SlotRange, IrqIsNumber
  <2>3. SockSlot(irq[a]) # k => sock'[SockSlot(irq[a])] = sock[SockSlot(irq[a])]
    BY <1>1, <2>2 DEF IInv, TypeOK
  <2>4. irq'[a] = irq[a] /\ pc'[a] = pc[a] /\ rxq'[a] = rxq[a]
    BY <1>1
  <2>5. SockSlot(irq'[a]) = SockSlot(irq[a])
    BY <2>4
  <2>6. QED
    BY <1>1, <1>2, <2>1, <2>3, <2>4, <2>5 DEF ContextInv
<1>6. CoreSharesSlot' /\ SteeredAsAsked'
  <2>1. CoreSharesSlot'
    BY <1>1 DEF IInv, CoreSharesSlot, Hashed
  <2>2. SteeredAsAsked'
    BY <1>1, <1>2 DEF IInv, SteeredAsAsked
  <2>3. QED
    BY <2>1, <2>2
<1>7. QED
  BY <1>3, <1>4, <1>5, <1>6 DEF IInv

-----------------------------------------------------------------------------
(* A packet's steps.                                                       *)

LEMMA BeginStep ==
  ASSUME IInv, NEW a \in Context, NEW i \in Irq, NEW rec \in Recorded, vse_do_rps(a, i, rec)
  PROVE  IInv'
<1> DEFINE r == vse_get_rxqueue(rec)
<1>1. r \in Queue \cup {NoQueue}
  BY DEF vse_get_rxqueue, Queue
<1>2. /\ irq' = [irq EXCEPT ![a] = i]
      /\ rxq' = [rxq EXCEPT ![a] = r]
      /\ planted' = [planted EXCEPT ![a] = TablesFound(r)]
      /\ pc' = [pc EXCEPT ![a] = IF TablesFound(r) THEN "flow" ELSE "kernel"]
      /\ UNCHANGED <<flowOn, sockOn, flow, sock, core>>
  BY DEF vse_do_rps, tables
<1>3. TablesFound(r) \in BOOLEAN /\ (TablesFound(r) => r \in Queue /\ flowOn[r] /\ sockOn)
  BY <1>1 DEF IInv, TypeOK, TablesFound
<1>4. TypeOK'
  BY <1>1, <1>2, <1>3 DEF IInv, TypeOK
<1>5. /\ pc'[a] = IF TablesFound(r) THEN "flow" ELSE "kernel"
      /\ irq'[a] = i /\ rxq'[a] = r /\ planted'[a] = TablesFound(r)
  BY <1>2 DEF IInv, TypeOK
<1>6. ASSUME NEW b \in Context, b # a
      PROVE  pc'[b] = pc[b] /\ irq'[b] = irq[b] /\ rxq'[b] = rxq[b] /\ planted'[b] = planted[b]
  BY <1>2, <1>6 DEF IInv, TypeOK
<1>7. SlotInv'
  BY <1>2 DEF IInv, SlotInv
<1>8. ASSUME NEW b \in Context PROVE ContextInv(b)'
  <2>1. CASE b = a
    <3>1. core'[a] = Elsewhere
      BY <1>2 DEF IInv, ContextInv, vse_do_rps
    <3>2. QED
      BY <1>2, <1>3, <1>5, <2>1, <3>1 DEF ContextInv
  <2>2. CASE b # a
    BY <1>2, <1>6, <2>2, OthersUndisturbed
  <2>3. QED
    BY <2>1, <2>2
<1>9. CoreSharesSlot' /\ SteeredAsAsked'
  BY <1>2, <1>5, <1>6, VerdictsKept
<1>10. QED
  BY <1>4, <1>7, <1>8, <1>9 DEF IInv

LEMMA PassOnStep ==
  ASSUME IInv, NEW a \in Context, NEW rec \in Recorded, PassOn(a, rec)
  PROVE  IInv'
<1>1. /\ pc[a] = "idle" /\ pc' = [pc EXCEPT ![a] = "kernel"]
      /\ rxq' = [rxq EXCEPT ![a] = vse_get_rxqueue(rec)]
      /\ UNCHANGED <<flowOn, sockOn, flow, sock, irq, planted, core>>
  BY DEF PassOn, tables
<1>2. vse_get_rxqueue(rec) \in Queue \cup {NoQueue}
  BY DEF vse_get_rxqueue, Queue
<1>3. TypeOK' /\ SlotInv'
  BY <1>1, <1>2 DEF IInv, TypeOK, SlotInv
<1>4. irq[a] = NoIrq /\ ~planted[a] /\ core[a] = Elsewhere
  BY <1>1, IrqIsNumber DEF IInv, ContextInv
<1>5. pc'[a] = "kernel"
  BY <1>1 DEF IInv, TypeOK
<1>6. \A b \in Context \ {a} : pc'[b] = pc[b] /\ rxq'[b] = rxq[b]
  BY <1>1 DEF IInv, TypeOK
<1>7. ASSUME NEW b \in Context PROVE ContextInv(b)'
  <2>1. CASE b = a
    BY <1>1, <1>4, <1>5, <2>1 DEF ContextInv
  <2>2. CASE b # a
    BY <1>1, <1>6, <2>2, OthersUndisturbed
  <2>3. QED
    BY <2>1, <2>2
<1>8. CoreSharesSlot' /\ SteeredAsAsked'
  BY <1>1, <1>5, <1>6, VerdictsKept
<1>9. QED
  BY <1>3, <1>7, <1>8 DEF IInv

\* A core put into its own slot shares one with all who look there.
LEMMA StoreFlowStep ==
  ASSUME IInv, NEW a \in Context, StoreFlow(a)
  PROVE  IInv'
<1> DEFINE k == FlowSlot(irq[a])
<1>1. /\ pc[a] \in {"flow", "replaced"} /\ planted[a] /\ irq[a] \in Irq /\ rxq[a] \in Queue
      /\ flowOn[rxq[a]] /\ sockOn
      /\ flow' = [flow EXCEPT ![rxq[a]][k] = irq[a]] \/ flow' = flow
      /\ pc' = [pc EXCEPT ![a] = "sock"]
      /\ UNCHANGED <<flowOn, sockOn, sock, rxq, irq, planted, core>>
  BY DEF IInv, ContextInv, StoreFlow
<1>2. k \in 0..(FlowSize - 1)
  BY <1>1, SlotRange, IrqIsNumber
<1>3. TypeOK'
  <2>1. flow' \in [Queue -> [0..(FlowSize - 1) -> Irq \cup {RPS_NO_CPU}]]
    BY <1>1, <1>2, OneSlot DEF IInv, TypeOK
  <2>2. QED
    BY <1>1, <2>1 DEF IInv, TypeOK
<1>4. ASSUME NEW r \in Queue, NEW i \in Hash, flow'[r][FlowSlot(i)] # RPS_NO_CPU
      PROVE  Shares(flow'[r][FlowSlot(i)], i)
  <2>1. FlowSlot(i) \in 0..(FlowSize - 1)
    BY SlotRange, IrqIsNumber
  <2>2. \/ flow'[r][FlowSlot(i)] = flow[r][FlowSlot(i)]
        \/ FlowSlot(i) = k /\ flow'[r][FlowSlot(i)] = irq[a]
    BY <1>1, <1>2, <2>1, OneSlot
  <2>3. flow[r][FlowSlot(i)] # RPS_NO_CPU => Shares(flow[r][FlowSlot(i)], i)
    BY DEF IInv, SlotInv
  <2>4. FlowSlot(i) = k => Shares(irq[a], i)
    BY DEF Shares
  <2>5. QED
    BY <1>4, <2>2, <2>3, <2>4
<1>5. SlotInv'
  BY <1>1, <1>4 DEF IInv, SlotInv
<1>6. pc'[a] = "sock" /\ \A b \in Context \ {a} : pc'[b] = pc[b]
  BY <1>1 DEF IInv, TypeOK
<1>7. ASSUME NEW b \in Context PROVE ContextInv(b)'
  <2>1. CASE b = a
    <3>1. core'[a] = Elsewhere
      BY <1>1 DEF IInv, ContextInv
    <3>2. QED
      BY <1>1, <1>6, <2>1, <3>1 DEF ContextInv
  <2>2. CASE b # a
    BY <1>1, <1>6, <2>2, OthersUndisturbed
  <2>3. QED
    BY <2>1, <2>2
<1>8. CoreSharesSlot' /\ SteeredAsAsked'
  BY <1>1, <1>6, VerdictsKept
<1>9. QED
  BY <1>3, <1>5, <1>7, <1>8 DEF IInv

LEMMA StoreSockStep ==
  ASSUME IInv, NEW a \in Context, StoreSock(a)
  PROVE  IInv'
<1> DEFINE k == SockSlot(irq[a])
<1>1. /\ pc[a] = "sock" /\ planted[a] /\ irq[a] \in Irq /\ rxq[a] \in Queue
      /\ flowOn[rxq[a]] /\ sockOn
      /\ sock' = [sock EXCEPT ![k] = irq[a]]
      /\ pc' = [pc EXCEPT ![a] = "kernel"]
      /\ UNCHANGED <<flowOn, sockOn, flow, rxq, irq, planted, core>>
  BY DEF IInv, ContextInv, StoreSock
<1>2. k \in 0..(SockSize - 1) /\ irq[a] # RPS_NO_CPU
  <2>1. irq[a] \in Int /\ irq[a] # RPS_NO_CPU
    BY <1>1, IrqIsNumber
  <2>2. QED
    BY <2>1, SlotRange
<1>3. TypeOK'
  BY <1>1, <1>2 DEF IInv, TypeOK
<1>4. \A j \in 0..(SockSize - 1) : sock'[j] = IF j = k THEN irq[a] ELSE sock[j]
  BY <1>1, <1>2 DEF IInv, TypeOK
<1>5. SlotInv'
  BY <1>1, <1>4 DEF IInv, SlotInv
<1>6. pc'[a] = "kernel" /\ \A b \in Context \ {a} : pc'[b] = pc[b]
  BY <1>1 DEF IInv, TypeOK
<1>7. ASSUME NEW b \in Context PROVE ContextInv(b)'
  <2>1. CASE b = a
    <3>1. core'[a] = Elsewhere
      BY <1>1 DEF IInv, ContextInv
    <3>2. QED
      BY <1>1, <1>2, <1>4, <1>6, <2>1, <3>1 DEF ContextInv, SockSlot
  <2>2. CASE b # a
    BY <1>1, <1>2, <1>4, <1>6, <2>2, OthersUndisturbed
  <2>3. QED
    BY <2>1, <2>2
<1>8. CoreSharesSlot' /\ SteeredAsAsked'
  BY <1>1, <1>6, VerdictsKept
<1>9. QED
  BY <1>3, <1>5, <1>7, <1>8 DEF IInv

LEMMA QueuedStep ==
  ASSUME IInv, NEW a \in Context, Queued(a)
  PROVE  IInv'
<1>1. /\ pc' = [pc EXCEPT ![a] = "idle"]
      /\ rxq' = [rxq EXCEPT ![a] = NoQueue]
      /\ irq' = [irq EXCEPT ![a] = NoIrq]
      /\ planted' = [planted EXCEPT ![a] = FALSE]
      /\ core' = [core EXCEPT ![a] = Elsewhere]
      /\ UNCHANGED <<flowOn, sockOn, flow, sock>>
  BY DEF Queued, tables
<1>2. TypeOK'
  BY <1>1 DEF IInv, TypeOK
<1>3. pc'[a] = "idle" /\ irq'[a] = NoIrq /\ planted'[a] = FALSE /\ core'[a] = Elsewhere
  BY <1>1 DEF IInv, TypeOK
<1>4. \A b \in Context \ {a} : /\ pc'[b] = pc[b] /\ irq'[b] = irq[b] /\ rxq'[b] = rxq[b]
                               /\ planted'[b] = planted[b] /\ core'[b] = core[b]
  BY <1>1 DEF IInv, TypeOK
<1>5. SlotInv'
  BY <1>1 DEF IInv, SlotInv
<1>6. ASSUME NEW b \in Context PROVE ContextInv(b)'
  <2>1. CASE b = a
    BY <1>3, <2>1 DEF ContextInv
  <2>2. CASE b # a
    BY <1>1, <1>4, <2>2, OthersUndisturbed
  <2>3. QED
    BY <2>1, <2>2
<1>7. CoreSharesSlot' /\ SteeredAsAsked'
  BY <1>3, <1>4, VerdictsKept
<1>8. QED
  BY <1>2, <1>5, <1>6, <1>7 DEF IInv

\* What the kernel finds under a hash shares a slot with it, and is the packet's
\* own core if that was planted and nobody else's shares a slot.
LEMMA ChoiceFits ==
  ASSUME IInv, NEW a \in Context, pc[a] = "kernel", HasTables(a), NEW h \in rxhash(a),
         NEW c \in Choices(flow[rxq[a]][FlowSlot(h)], sock[SockSlot(h)])
  PROVE  /\ c \in Irq \cup {RPS_NO_CPU}
         /\ c # RPS_NO_CPU => \A j \in Hash : FlowSlot(j) = FlowSlot(h) => Shares(c, j)
         /\ planted[a] /\ irq[a] \in Online \ {0} /\ Unshared(irq[a]) => c = irq[a]
<1> DEFINE f == flow[rxq[a]][FlowSlot(h)]
           s == sock[SockSlot(h)]
<1>1. h \in Hash /\ rxq[a] \in Queue
  BY DEF IInv, TypeOK, HasTables, rxhash, Hashed, Hash
<1>2. FlowSlot(h) \in 0..(FlowSize - 1) /\ SockSlot(h) \in 0..(SockSize - 1)
  BY <1>1, SlotRange, IrqIsNumber
<1>3. /\ f \in Irq \cup {RPS_NO_CPU} /\ s \in Irq \cup {RPS_NO_CPU}
      /\ c = s \/ (c = f /\ f \in Online)
  BY <1>1, <1>2 DEF IInv, TypeOK, Choices
<1>4. s # RPS_NO_CPU => SockSlot(s) = SockSlot(h)
  BY <1>2 DEF IInv, SlotInv
<1>5. f # RPS_NO_CPU => \A j \in Hash : FlowSlot(j) = FlowSlot(h) => Shares(f, j)
  <2>1. ASSUME f # RPS_NO_CPU, NEW j \in Hash, FlowSlot(j) = FlowSlot(h)
        PROVE  Shares(f, j)
    <3>1. f = flow[rxq[a]][FlowSlot(j)]
      BY <2>1
    <3>2. QED
      BY <1>1, <2>1, <3>1 DEF IInv, SlotInv
  <2>2. QED
    BY <2>1
<1>6. s # RPS_NO_CPU => \A j \in Hash : FlowSlot(j) = FlowSlot(h) => Shares(s, j)
  BY <1>1, <1>3, <1>4, CopiedShares
<1>7. c # RPS_NO_CPU => \A j \in Hash : FlowSlot(j) = FlowSlot(h) => Shares(c, j)
  BY <1>3, <1>5, <1>6
<1>8. planted[a] /\ irq[a] \in Online \ {0} /\ Unshared(irq[a]) => c = irq[a]
  <2> SUFFICES ASSUME planted[a], irq[a] \in Online \ {0}, Unshared(irq[a]) PROVE c = irq[a]
    OBVIOUS
  <2>1. irq[a] \in Irq /\ h = irq[a]
    BY IrqIsNumber DEF IInv, ContextInv, rxhash, Hashed
  <2>2. s # RPS_NO_CPU
    BY <2>1 DEF IInv, ContextInv
  <2>3. s = irq[a]
    BY <1>3, <1>4, <2>1, <2>2 DEF Unshared, Shares
  <2>4. c = f /\ f \in Online => f = irq[a]
    <3>1. f \in Online => f # RPS_NO_CPU
      BY IrqIsNumber
    <3>2. f # RPS_NO_CPU => Shares(f, irq[a])
      BY <1>1, <1>5, <2>1
    <3>3. QED
      BY <1>3, <3>1, <3>2 DEF Unshared
  <2>5. QED
    BY <1>3, <2>3, <2>4
<1>9. QED
  BY <1>1, <1>3, <1>7, <1>8

LEMMA KernelStep ==
  ASSUME IInv, NEW a \in Context, get_rps_cpu(a)
  PROVE  IInv'
<1>1. /\ pc[a] = "kernel" /\ pc' = [pc EXCEPT ![a] = "done"]
      /\ UNCHANGED <<flowOn, sockOn, sock, rxq, irq, planted>>
  BY DEF get_rps_cpu
<1> PICK h \in rxhash(a) :
      IF HasTables(a) /\ h # 0
      THEN Found(a, FlowSlot(h), SockSlot(h))
      ELSE core' = [core EXCEPT ![a] = Elsewhere] /\ UNCHANGED flow
  BY DEF get_rps_cpu
<1> DEFINE k == FlowSlot(h)
<1>2. /\ h \in Hash /\ k \in 0..(FlowSize - 1) /\ (HasTables(a) => rxq[a] \in Queue)
      /\ Hashed(a) => irq[a] \in Irq /\ h = irq[a] /\ h # 0
  <2>1. h \in Hash /\ (Hashed(a) => irq[a] \in Irq /\ h = irq[a] /\ h # 0)
    BY DEF IInv, TypeOK, rxhash, Hashed, Hash
  <2>2. HasTables(a) => rxq[a] \in Queue
    BY DEF IInv, TypeOK, HasTables
  <2>3. QED
    BY <2>1, <2>2, SlotRange, IrqIsNumber
<1>3. PICK c \in Irq \cup {RPS_NO_CPU} :
        /\ core' = [core EXCEPT ![a] = IF c \in Online THEN c ELSE Elsewhere]
        /\ c # RPS_NO_CPU /\ Hashed(a) => Shares(c, irq[a])
        /\ \/ flow' = flow
           \/ /\ rxq[a] \in Queue
              /\ flow' = [flow EXCEPT ![rxq[a]][k] = c]
              /\ c # RPS_NO_CPU => \A j \in Hash : FlowSlot(j) = k => Shares(c, j)
        /\ planted[a] /\ irq[a] \in Online \ {0} /\ Unshared(irq[a]) => c = irq[a]
  <2>1. CASE HasTables(a) /\ h # 0
    <3>1. PICK c \in Choices(flow[rxq[a]][k], sock[SockSlot(h)]) :
            /\ flow' = [flow EXCEPT ![rxq[a]][k] = c]
            /\ core' = [core EXCEPT ![a] = IF c \in Online THEN c ELSE Elsewhere]
      BY <2>1 DEF Found
    <3>2. /\ c \in Irq \cup {RPS_NO_CPU}
          /\ c # RPS_NO_CPU => \A j \in Hash : FlowSlot(j) = k => Shares(c, j)
          /\ planted[a] /\ irq[a] \in Online \ {0} /\ Unshared(irq[a]) => c = irq[a]
      BY <1>1, <2>1, <3>1, ChoiceFits
    <3>3. c # RPS_NO_CPU /\ Hashed(a) => Shares(c, irq[a])
      BY <1>2, <3>2
    <3>4. QED
      BY <1>2, <2>1, <3>1, <3>2, <3>3
  <2>2. CASE ~(HasTables(a) /\ h # 0)
    <3>1. core' = [core EXCEPT ![a] = Elsewhere] /\ flow' = flow
      BY <2>2
    <3>2. RPS_NO_CPU \notin Online
      BY IrqIsNumber
    <3>3. planted[a] => HasTables(a) /\ irq[a] \in Irq
      BY DEF IInv, ContextInv, HasTables, Queue, NoQueue
    <3>4. planted[a] /\ irq[a] \in Online \ {0} => FALSE
      BY <1>2, <2>2, <3>3, IrqIsNumber DEF Hashed
    <3>5. QED
      BY <3>1, <3>2, <3>4
  <2>3. QED
    BY <2>1, <2>2
<1>4. TypeOK'
  <2>1. flow' \in [Queue -> [0..(FlowSize - 1) -> Irq \cup {RPS_NO_CPU}]]
    BY <1>2, <1>3, OneSlot DEF IInv, TypeOK
  <2>2. core' \in [Context -> Online \cup {Elsewhere}]
    BY <1>3 DEF IInv, TypeOK
  <2>3. QED
    BY <1>1, <2>1, <2>2 DEF IInv, TypeOK
<1>5. pc'[a] = "done" /\ core'[a] = (IF c \in Online THEN c ELSE Elsewhere)
  BY <1>1, <1>3 DEF IInv, TypeOK
<1>6. \A b \in Context \ {a} : pc'[b] = pc[b] /\ core'[b] = core[b]
  BY <1>1, <1>3 DEF IInv, TypeOK
<1>7. SlotInv'
  <2>1. ASSUME NEW r \in Queue, NEW i \in Hash, flow'[r][FlowSlot(i)] # RPS_NO_CPU
        PROVE  Shares(flow'[r][FlowSlot(i)], i)
    <3>1. FlowSlot(i) \in 0..(FlowSize - 1)
      BY SlotRange, IrqIsNumber
    <3>2. \/ flow'[r][FlowSlot(i)] = flow[r][FlowSlot(i)]
          \/ /\ FlowSlot(i) = k /\ flow'[r][FlowSlot(i)] = c
             /\ c # RPS_NO_CPU => Shares(c, i)
      <4>1. CASE flow' = flow
        BY <4>1
      <4>2. CASE /\ rxq[a] \in Queue
                 /\ flow' = [flow EXCEPT ![rxq[a]][k] = c]
                 /\ c # RPS_NO_CPU => \A j \in Hash : FlowSlot(j) = k => Shares(c, j)
        <5>1. flow'[r][FlowSlot(i)] = IF rxq[a] = r /\ FlowSlot(i) = k THEN c
                                      ELSE flow[r][FlowSlot(i)]
          BY <1>2, <3>1, <4>2, OneSlot DEF IInv, TypeOK
        <5>2. QED
          BY <4>2, <5>1
      <4>3. QED
        BY <1>3, <4>1, <4>2
    <3>3. flow[r][FlowSlot(i)] # RPS_NO_CPU => Shares(flow[r][FlowSlot(i)], i)
      BY DEF IInv, SlotInv
    <3>4. QED
      BY <2>1, <3>2, <3>3
  <2>2. QED
    BY <1>1, <2>1 DEF IInv, SlotInv
<1>8. ASSUME NEW b \in Context PROVE ContextInv(b)'
  <2>1. CASE b = a
    <3>1. core'[a] # Elsewhere => core'[a] \in Irq
      BY <1>3, <1>5, IrqIsNumber
    <3>2. QED
      BY <1>1, <1>5, <2>1, <3>1 DEF IInv, ContextInv
  <2>2. CASE b # a
    BY <1>1, <1>6, <2>2, OthersUndisturbed
  <2>3. QED
    BY <2>1, <2>2
<1>9. CoreSharesSlot'
  <2>1. core'[a] # Elsewhere /\ Hashed(a) => Shares(core'[a], irq[a])
    BY <1>3, <1>5, IrqIsNumber
  <2>2. QED
    BY <1>1, <1>6, <2>1 DEF IInv, CoreSharesSlot, Hashed
<1>10. SteeredAsAsked'
  <2>1. planted[a] /\ irq[a] \in Online \ {0} /\ Unshared(irq[a]) => core'[a] = irq[a]
    BY <1>3, <1>5
  <2>2. QED
    BY <1>1, <1>6, <2>1 DEF IInv, SteeredAsAsked, Unshared
<1>11. QED
  BY <1>4, <1>7, <1>8, <1>9, <1>10 DEF IInv

THEOREM StepPreserves == IInv /\ [Next]_vars => IInv'
<1> SUFFICES ASSUME IInv, [Next]_vars PROVE IInv'
  OBVIOUS
<1>1. CASE SetSockTable \/ \E r \in Queue : SetFlowTable(r)
  BY <1>1, SockTableStep, FlowTableStep
<1>2. CASE \E k \in 0..(SockSize - 1) : ResetSockSlot(k)
  BY <1>2, ResetStep
<1>3. CASE \E a \in Context, i \in Irq, rec \in Recorded : vse_do_rps(a, i, rec)
  BY <1>3, BeginStep
<1>4a. CASE \E a \in Context, rec \in Recorded : PassOn(a, rec)
  BY <1>4a, PassOnStep
<1>4. CASE \E a \in Context : StoreFlow(a)
  BY <1>4, StoreFlowStep
<1>5. CASE \E a \in Context : StoreSock(a)
  BY <1>5, StoreSockStep
<1>6. CASE \E a \in Context : get_rps_cpu(a)
  BY <1>6, KernelStep
<1>7. CASE \E a \in Context : Queued(a)
  BY <1>7, QueuedStep
<1>8. CASE UNCHANGED vars
  BY <1>8 DEF vars, IInv, TypeOK, SlotInv, ContextInv, CoreSharesSlot, SteeredAsAsked, Hashed
<1>10. QED
  BY <1>1, <1>2, <1>3, <1>4, <1>5, <1>6, <1>7, <1>8, <1>4a DEF Next

\* The invariant that explains steering holds of every behaviour.
THEOREM Invariance == Spec => []IInv
<1>1. QED
  BY InitEstablishes, StepPreserves, PTL DEF Spec

\* Every table slot holds a core or nothing, and every packet's context is a
\* state the code can be in.
THEOREM TypeCorrect == Spec => []TypeOK
<1>1. IInv => TypeOK
  BY DEF IInv
<1>2. QED
  BY <1>1, Invariance, PTL

\* Whatever the processors plant side by side, a packet that has an entry is never
\* sent to another entry's core outside the slots of its own
\* (vse_set_sock_flow_table).
THEOREM SlotsBoundSteering == Spec => []CoreSharesSlot
<1>1. IInv => CoreSharesSlot
  BY DEF IInv
<1>2. QED
  BY <1>1, Invariance, PTL

\* A packet goes to the core of its entry when no other entry's core shares its
\* slots (vse_do_rps).
THEOREM Steering == Spec => []SteeredAsAsked
<1>1. IInv => SteeredAsAsked
  BY DEF IInv
<1>2. QED
  BY <1>1, Invariance, PTL

\* Tables of 256 slots keep every two cores apart, so that with them the slots
\* do not matter: each packet that found the tables goes where its entry says.
ExactSteering ==
  \A a \in Context :
    pc[a] = "done" /\ planted[a] /\ irq[a] \in Online \ {0} => core[a] = irq[a]

THEOREM WideTablesSteer ==
  ASSUME FlowSize >= 256, SockSize >= 256
  PROVE  Spec => []ExactSteering
<1>1. ASSUME NEW i \in 0..255 PROVE FlowSlot(i) = i /\ SockSlot(i) = i
  BY <1>1 DEF FlowSlot, SockSlot
<1>2. \A i \in Irq : Unshared(i)
  BY <1>1 DEF Unshared, Shares
<1>3. IInv => ExactSteering
  BY <1>2 DEF IInv, SteeredAsAsked, ExactSteering, ContextInv
<1>4. QED
  BY <1>3, Invariance, PTL

-----------------------------------------------------------------------------
(* Where cores come from: if all that is planted and found lies in a set S,  *)
(* it stays so while every new packet's entry names a core of S.             *)

LEMMA WithinStarts ==
  ASSUME NEW S, Init
  PROVE  Within(S)
  BY DEF Init, Within

\* No step of a packet, of the kernel or of the settings invents a core.
LEMMA WithinKept ==
  ASSUME IInv, NEW S, Within(S), [Next]_vars,
         \A a \in Context : irq'[a] \in {irq[a], NoIrq} \cup S
  PROVE  Within(S)'
<1>1. \A a \in Context : irq'[a] \in S \cup {NoIrq}
  BY DEF Within
<1> DEFINE Held == S \cup {RPS_NO_CPU}
<1>2. ASSUME flow' = flow, sock' = sock, core' = core
      PROVE  Within(S)'
  BY <1>1, <1>2 DEF Within
<1>3. ASSUME NEW r \in Queue, SetFlowTable(r)
      PROVE  Within(S)'
  <2>1. \A q \in Queue, k \in 0..(FlowSize - 1) : flow'[q][k] \in {flow[q][k], RPS_NO_CPU}
    BY <1>3 DEF SetFlowTable, IInv, TypeOK
  <2>2. sock' = sock /\ core' = core
    BY <1>3 DEF SetFlowTable
  <2>3. QED
    BY <1>1, <2>1, <2>2 DEF Within
<1>4. ASSUME NEW k \in 0..(SockSize - 1), ResetSockSlot(k)
      PROVE  Within(S)'
  <2>1. \A l \in 0..(SockSize - 1) : sock'[l] \in {sock[l], RPS_NO_CPU}
    BY <1>4 DEF ResetSockSlot, IInv, TypeOK
  <2>2. flow' = flow /\ core' = core
    BY <1>4 DEF ResetSockSlot
  <2>3. QED
    BY <1>1, <2>1, <2>2 DEF Within
<1>5. ASSUME NEW a \in Context, StoreFlow(a)
      PROVE  Within(S)'
  <2>1. irq[a] \in Irq /\ irq[a] \in S /\ rxq[a] \in Queue
    BY <1>5, IrqIsNumber DEF StoreFlow, IInv, ContextInv, Within
  <2>2. FlowSlot(irq[a]) \in 0..(FlowSize - 1)
    BY <2>1, SlotRange, IrqIsNumber
  <2>3. /\ flow' = [flow EXCEPT ![rxq[a]][FlowSlot(irq[a])] = irq[a]] \/ flow' = flow
        /\ sock' = sock /\ core' = core
    BY <1>5 DEF StoreFlow
  <2>4. \A q \in Queue, k \in 0..(FlowSize - 1) : flow'[q][k] \in {flow[q][k], irq[a]}
    BY <2>1, <2>2, <2>3, OneSlot
  <2>5. QED
    BY <1>1, <2>1, <2>3, <2>4 DEF Within
<1>6. ASSUME NEW a \in Context, StoreSock(a)
      PROVE  Within(S)'
  <2>1. irq[a] \in S
    BY <1>6, IrqIsNumber DEF StoreSock, IInv, ContextInv, Within
  <2>2. \A l \in 0..(SockSize - 1) : sock'[l] \in {sock[l], irq[a]}
    BY <1>6 DEF StoreSock, IInv, TypeOK
  <2>3. flow' = flow /\ core' = core
    BY <1>6 DEF StoreSock
  <2>4. QED
    BY <1>1, <2>1, <2>2, <2>3 DEF Within
<1>7. ASSUME NEW a \in Context, get_rps_cpu(a)
      PROVE  Within(S)'
  <2>1. sock' = sock
    BY <1>7 DEF get_rps_cpu
  <2>2. PICK h \in rxhash(a) :
          IF HasTables(a) /\ h # 0
          THEN Found(a, FlowSlot(h), SockSlot(h))
          ELSE core' = [core EXCEPT ![a] = Elsewhere] /\ UNCHANGED flow
    BY <1>7 DEF get_rps_cpu
  <2>3. CASE HasTables(a) /\ h # 0
    <3>1. h \in Hash /\ rxq[a] \in Queue
      BY <2>3 DEF IInv, TypeOK, HasTables, rxhash, Hashed, Hash
    <3>2. FlowSlot(h) \in 0..(FlowSize - 1) /\ SockSlot(h) \in 0..(SockSize - 1)
      BY <3>1, SlotRange, IrqIsNumber
    <3>3. PICK c \in Choices(flow[rxq[a]][FlowSlot(h)], sock[SockSlot(h)]) :
            /\ flow' = [flow EXCEPT ![rxq[a]][FlowSlot(h)] = c]
            /\ core' = [core EXCEPT ![a] = IF c \in Online THEN c ELSE Elsewhere]
      BY <2>2, <2>3 DEF Found
    <3>4. c \in Held /\ c \in Irq \cup {RPS_NO_CPU}
      BY <3>1, <3>2 DEF Choices, Within, IInv, TypeOK
    <3>5. \A q \in Queue, k \in 0..(FlowSize - 1) : flow'[q][k] \in {flow[q][k], c}
      BY <3>1, <3>2, <3>3, <3>4, OneSlot
    <3>6. \A b \in Context : core'[b] \in {core[b], Elsewhere} \/ (core'[b] = c /\ c \in Online)
      BY <3>3 DEF IInv, TypeOK
    <3>7. c \in Online => c \in S
      BY <3>4, IrqIsNumber
    <3>8. QED
      BY <1>1, <2>1, <3>4, <3>5, <3>6, <3>7 DEF Within
  <2>4. CASE ~(HasTables(a) /\ h # 0)
    <3>1. flow' = flow /\ \A b \in Context : core'[b] \in {core[b], Elsewhere}
      BY <2>2, <2>4 DEF IInv, TypeOK
    <3>2. QED
      BY <1>1, <2>1, <3>1 DEF Within
  <2>5. QED
    BY <2>3, <2>4
<1>8. ASSUME NEW a \in Context, Queued(a)
      PROVE  Within(S)'
  <2>1. flow' = flow /\ sock' = sock /\ \A b \in Context : core'[b] \in {core[b], Elsewhere}
    BY <1>8 DEF Queued, tables, IInv, TypeOK
  <2>2. QED
    BY <1>1, <2>1 DEF Within
<1>9. ASSUME NEW a \in Context, NEW rec \in Recorded,
             PassOn(a, rec) \/ \E i \in Irq : vse_do_rps(a, i, rec)
      PROVE  Within(S)'
  BY <1>2, <1>9 DEF PassOn, vse_do_rps, tables
<1>10. CASE SetSockTable \/ UNCHANGED vars
  BY <1>2, <1>10 DEF SetSockTable, vars
<1>11. QED
  BY <1>3, <1>4, <1>5, <1>6, <1>7, <1>8, <1>9, <1>10 DEF Next
=============================================================================
