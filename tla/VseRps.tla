------------------------------- MODULE VseRps -------------------------------
(***************************************************************************)
(* Steering (vse_rps.c).  For a packet whose flow entry names a core,      *)
(* vse_do_rps plants that core in two tables of the kernel's receive       *)
(* packet steering, the flow table of the packet's receive queue and the   *)
(* socket flow table of the whole system, and sets the packet's hash to    *)
(* the core's number; the kernel then looks the hash up in the same        *)
(* tables, as it does for every packet: one without an entry gets a hash   *)
(* of the kernel's making.  The processors that serve the receive queues   *)
(* do this side by side, each of them with plain stores, while the tables  *)
(* are set up, and set up anew, by set_rps.sh.                             *)
(***************************************************************************)
EXTENDS Integers, FiniteSets

CONSTANTS
  Context,    \* softirqs that receive packets at the same time
  Irq,        \* values of entry->irq, a __u8
  KernelHash, \* hashes of the kernel's making, 0 where it can make none
  Recorded,   \* queue indices the driver records in packets
  NumQueues,  \* real_num_rx_queues of the device
  FlowSize,   \* slots of each queue's rps_flow_table (mask + 1)
  SockSize,   \* slots of rps_sock_flow_table (mask + 1)
  Online      \* cores that are online

RPS_NO_CPU == 65535
NoIrq == -1        \* no entry
NoQueue == -1      \* no receive queue
Elsewhere == -2    \* no core was taken from the slots of the packet's hash

\* irq & mask, in either table.
FlowSlot(i) == i % FlowSize
SockSlot(i) == i % SockSize

ASSUME RpsAssumption ==
  /\ Irq \subseteq 0..255
  /\ KernelHash \subseteq Nat /\ 0 \in KernelHash
  /\ Recorded \subseteq Nat \cup {NoQueue}
  /\ NumQueues \in Nat \ {0}
  /\ FlowSize \in Nat \ {0}
  /\ SockSize \in Nat \ {0}
  /\ Online \subseteq 0..255

Hash == Irq \cup KernelHash

\* The kernel rounds both sizes up to powers of two: one table is the coarser one.
ASSUME SizesAssumption ==
  \/ \A i, j \in Hash : FlowSlot(i) = FlowSlot(j) => SockSlot(i) = SockSlot(j)
  \/ \A i, j \in Hash : SockSlot(i) = SockSlot(j) => FlowSlot(i) = FlowSlot(j)

Queue == 0..(NumQueues - 1)

VARIABLES
  flowOn,   \* flowOn[r]: queue r has a flow table (it has none at first)
  sockOn,   \* the system has a socket flow table
  flow,     \* flow[r][k]: the core in slot k of the table of queue r
  sock,     \* sock[k]: the core in slot k of the socket flow table
  pc,       \* pc[a]: how far context a is with its packet
  rxq,      \* rxq[a]: the packet's receive queue
  irq,      \* irq[a]: the irq of the entry the packet matched, NoIrq for none
  planted,  \* planted[a]: both tables were there for this packet, and the second
            \* has not been emptied since it was written
  core      \* core[a]: where its packet goes

tables == <<flowOn, sockOn, flow, sock>>
vars   == <<flowOn, sockOn, flow, sock, pc, rxq, irq, planted, core>>

Init ==
  /\ flowOn = [r \in Queue |-> FALSE]
  /\ sockOn = FALSE
  /\ flow = [r \in Queue |-> [k \in 0..(FlowSize - 1) |-> RPS_NO_CPU]]
  /\ sock = [k \in 0..(SockSize - 1) |-> RPS_NO_CPU]
  /\ pc = [a \in Context |-> "idle"]
  /\ rxq = [a \in Context |-> NoQueue]
  /\ irq = [a \in Context |-> NoIrq]
  /\ planted = [a \in Context |-> FALSE]
  /\ core = [a \in Context |-> Elsewhere]

-----------------------------------------------------------------------------
(* set_rps.sh, or whoever writes these settings, while packets arrive.     *)

\* Writing rps_flow_cnt always gives the queue a new table, with nothing in it.
\* A context that has already looked up the old one goes on to write to that.
SetFlowTable(r) ==
  /\ flowOn' = [flowOn EXCEPT ![r] = TRUE]
  /\ flow' = [flow EXCEPT ![r] = [k \in 0..(FlowSize - 1) |-> RPS_NO_CPU]]
  /\ pc' = [a \in Context |-> IF pc[a] = "flow" /\ rxq[a] = r THEN "replaced" ELSE pc[a]]
  /\ UNCHANGED <<sockOn, sock, rxq, irq, planted, core>>

\* Writing rps_sock_flow_entries for the first time allocates the table...
SetSockTable ==
  /\ ~sockOn
  /\ sockOn' = TRUE
  /\ UNCHANGED <<flowOn, flow, sock, pc, rxq, irq, planted, core>>

\* ... and the same size once more empties it where it is, slot by slot.
ResetSockSlot(k) ==
  /\ sockOn
  /\ sock' = [sock EXCEPT ![k] = RPS_NO_CPU]
  /\ planted' = [a \in Context |->
                   planted[a] /\ (pc[a] = "kernel" => SockSlot(irq[a]) # k)]
  /\ UNCHANGED <<flowOn, sockOn, flow, pc, rxq, irq, core>>

-----------------------------------------------------------------------------
(* vse_do_rps.                                                             *)

\* A packet without a recorded queue counts as the first queue's; an index
\* beyond the device's queues gives no queue.
vse_get_rxqueue(rec) ==
  CASE rec = NoQueue  -> 0
    [] rec \in Queue  -> rec
    [] OTHER          -> NoQueue

\* Mutant: the socket table is used without being looked for.
Mut_TablesFound(r) == r # NoQueue /\ flowOn[r]

\* Both pointers are loaded before either table is written.
TablesFound(r) == r # NoQueue /\ flowOn[r] /\ sockOn

\* What vse_set_sock_flow_table returns is not looked at, and an entry without
\* a core (NO_IRQ) is treated like any other.
vse_do_rps(a, i, rec) ==
  LET r == vse_get_rxqueue(rec)
      found == TablesFound(r)
  IN  /\ pc[a] = "idle"
      /\ irq' = [irq EXCEPT ![a] = i]
      /\ rxq' = [rxq EXCEPT ![a] = r]
      /\ planted' = [planted EXCEPT ![a] = found]
      /\ pc' = [pc EXCEPT ![a] = IF found THEN "flow" ELSE "kernel"]
      /\ UNCHANGED <<tables, core>>

\* Mutant: the slot's number is stored in place of the core's.
Mut_StoreFlowSlot(a) ==
  /\ pc[a] = "flow"
  /\ flow' = [flow EXCEPT ![rxq[a]][FlowSlot(irq[a])] = FlowSlot(irq[a])]
  /\ pc' = [pc EXCEPT ![a] = "sock"]
  /\ UNCHANGED <<flowOn, sockOn, sock, rxq, irq, planted, core>>

\* Mutant: the slots are counted from core 1 on.
Mut_StoreFlow(a) ==
  /\ pc[a] = "flow"
  /\ flow' = [flow EXCEPT ![rxq[a]][FlowSlot(irq[a] + FlowSize - 1)] = irq[a]]
  /\ pc' = [pc EXCEPT ![a] = "sock"]
  /\ UNCHANGED <<flowOn, sockOn, sock, rxq, irq, planted, core>>

StoreFlow(a) ==
  /\ \/ /\ pc[a] = "flow"
        /\ flow' = [flow EXCEPT ![rxq[a]][FlowSlot(irq[a])] = irq[a]]
     \/ pc[a] = "replaced" /\ UNCHANGED flow
  /\ pc' = [pc EXCEPT ![a] = "sock"]
  /\ UNCHANGED <<flowOn, sockOn, sock, rxq, irq, planted, core>>

\* Mutant: only the queue's own table is written.
Mut_StoreSock(a) ==
  /\ pc[a] = "sock"
  /\ pc' = [pc EXCEPT ![a] = "kernel"]
  /\ UNCHANGED <<tables, rxq, irq, planted, core>>

StoreSock(a) ==
  /\ pc[a] = "sock"
  /\ sock' = [sock EXCEPT ![SockSlot(irq[a])] = irq[a]]
  /\ pc' = [pc EXCEPT ![a] = "kernel"]
  /\ UNCHANGED <<flowOn, sockOn, flow, rxq, irq, planted, core>>

-----------------------------------------------------------------------------
(* get_rps_cpu of the kernel, which looks skb->rxhash up.                  *)

\* A packet without an entry is passed on as the driver received it.
PassOn(a, rec) ==
  /\ pc[a] = "idle"
  /\ rxq' = [rxq EXCEPT ![a] = vse_get_rxqueue(rec)]
  /\ pc' = [pc EXCEPT ![a] = "kernel"]
  /\ UNCHANGED <<tables, irq, planted, core>>

\* vse_set_rxhash has made the packet's hash the core's number.
Hashed(a) == irq[a] \notin {NoIrq, 0}

\* A hash of zero counts as none, and the kernel makes up its own, if it can.
rxhash(a) == IF Hashed(a) THEN {irq[a]} ELSE KernelHash

\* Where the tables differ, the socket's core replaces the flow's when that is
\* not online, or when nothing of the flow is queued there any more.
Choices(cpu, next) == IF cpu \in Online THEN {cpu, next} ELSE {next}

HasTables(a) == rxq[a] # NoQueue /\ flowOn[rxq[a]] /\ sockOn

\* Slot k of the queue's table is looked up, and l of the socket table.
Found(a, k, l) ==
  \E c \in Choices(flow[rxq[a]][k], sock[l]) :
    /\ flow' = [flow EXCEPT ![rxq[a]][k] = c]
    /\ core' = [core EXCEPT ![a] = IF c \in Online THEN c ELSE Elsewhere]

get_rps_cpu(a) ==
  /\ pc[a] = "kernel"
  /\ \E h \in rxhash(a) :
       IF HasTables(a) /\ h # 0
       THEN Found(a, FlowSlot(h), SockSlot(h))
       ELSE core' = [core EXCEPT ![a] = Elsewhere] /\ UNCHANGED flow
  /\ pc' = [pc EXCEPT ![a] = "done"]
  /\ UNCHANGED <<flowOn, sockOn, sock, rxq, irq, planted>>

\* The packet has been queued for its core and is gone: the next one may come.
Queued(a) ==
  /\ pc[a] = "done"
  /\ pc' = [pc EXCEPT ![a] = "idle"]
  /\ rxq' = [rxq EXCEPT ![a] = NoQueue]
  /\ irq' = [irq EXCEPT ![a] = NoIrq]
  /\ planted' = [planted EXCEPT ![a] = FALSE]
  /\ core' = [core EXCEPT ![a] = Elsewhere]
  /\ UNCHANGED tables

Next ==
  \/ \E r \in Queue : SetFlowTable(r)
  \/ SetSockTable
  \/ \E k \in 0..(SockSize - 1) : ResetSockSlot(k)
  \/ \E a \in Context, rec \in Recorded : PassOn(a, rec) \/ \E i \in Irq : vse_do_rps(a, i, rec)
  \/ \E a \in Context : StoreFlow(a) \/ StoreSock(a) \/ get_rps_cpu(a) \/ Queued(a)

Spec == Init /\ [][Next]_vars

-----------------------------------------------------------------------------
(* Properties.                                                             *)

TypeOK ==
  /\ flowOn \in [Queue -> BOOLEAN]
  /\ sockOn \in BOOLEAN
  /\ flow \in [Queue -> [0..(FlowSize - 1) -> Irq \cup {RPS_NO_CPU}]]
  /\ sock \in [0..(SockSize - 1) -> Irq \cup {RPS_NO_CPU}]
  /\ pc \in [Context -> {"idle", "flow", "replaced", "sock", "kernel", "done"}]
  /\ rxq \in [Context -> Queue \cup {NoQueue}]
  /\ irq \in [Context -> Irq \cup {NoIrq}]
  /\ planted \in [Context -> BOOLEAN]
  /\ core \in [Context -> Online \cup {Elsewhere}]

Shares(c, i) == FlowSlot(c) = FlowSlot(i) \/ SockSlot(c) = SockSlot(i)

\* The tables are masked, so a packet that has an entry, for a core other than 0,
\* can be sent to a core that another entry named, but only to one whose number
\* falls into one of its slots, although the kernel copies cores from one table
\* into the other, for this packet and for those without an entry.
CoreSharesSlot ==
  \A a \in Context :
    pc[a] = "done" /\ Hashed(a) /\ core[a] # Elsewhere => Shares(core[a], irq[a])

\* No other entry's core falls into a slot of i.
Unshared(i) == \A j \in Irq \ {i} : ~Shares(j, i)

\* A packet goes to the core its entry names, whatever other processors plant
\* between its stores and the kernel's look-up, whatever the kernel copies for
\* packets without an entry and however often its queue gets a new table, if the
\* tables were there, the core is online and not core 0, and no other entry's
\* core shares its slots.
SteeredAsAsked ==
  \A a \in Context :
    /\ pc[a] = "done"
    /\ planted[a]
    /\ irq[a] \in Online \ {0}
    /\ Unshared(irq[a])
    => core[a] = irq[a]

-----------------------------------------------------------------------------
(* Why it is so: an inductive invariant.                                   *)

\* Everything planted, about to be planted or found lies in S.
Within(S) ==
  /\ \A r \in Queue, k \in 0..(FlowSize - 1) : flow[r][k] \in S \cup {RPS_NO_CPU}
  /\ \A k \in 0..(SockSize - 1) : sock[k] \in S \cup {RPS_NO_CPU}
  /\ \A a \in Context : irq[a] \in S \cup {NoIrq} /\ core[a] \in S \cup {Elsewhere}

\* A slot of the socket flow table holds nothing, or a core whose number falls
\* into it; what a queue's own table holds shares a slot with all who look there.
SlotInv ==
  /\ \A k \in 0..(SockSize - 1) : sock[k] # RPS_NO_CPU => SockSlot(sock[k]) = k
  /\ \A r \in Queue, i \in Hash :
       flow[r][FlowSlot(i)] # RPS_NO_CPU => Shares(flow[r][FlowSlot(i)], i)

\* What a context has planted in the socket flow table is there, or overwritten,
\* until the kernel looks; what becomes of the queue's own table does not matter.
\* Only cores that some entry names are ever found.
ContextInv(a) ==
  /\ pc[a] = "idle" => irq[a] = NoIrq
  /\ pc[a] \in {"flow", "replaced", "sock"} => planted[a]
  /\ planted[a] => irq[a] \in Irq /\ rxq[a] \in Queue /\ flowOn[rxq[a]] /\ sockOn
  /\ planted[a] /\ pc[a] = "kernel" => sock[SockSlot(irq[a])] # RPS_NO_CPU
  /\ core[a] # Elsewhere => pc[a] = "done" /\ core[a] \in Irq

\* The inductive invariant of the tables and of the contexts that share them.
IInv ==
  TypeOK /\ SlotInv /\ (\A a \in Context : ContextInv(a)) /\ CoreSharesSlot /\ SteeredAsAsked
=============================================================================
