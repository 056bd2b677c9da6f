--------------------------- MODULE VseSystemProofs ---------------------------
(***************************************************************************)
(* Proofs about the whole system, for any number of clients and softirqs,  *)
(* any programs and any settings.  Each part goes on as its own module     *)
(* says, so that what VseDevProofs and VseRpsProofs have proved of it      *)
(* holds of the system too; an invariant of the system ties the parts      *)
(* together.                                                               *)
(***************************************************************************)
EXTENDS VseSystem, TLAPS

\* The parts again, with what is proved about them.
DevP == INSTANCE VseDevProofs WITH irq <- staged_irq, pc <- client
RpsP == INSTANCE VseRpsProofs WITH pc <- softirq, irq <- hash

-----------------------------------------------------------------------------
(* Dev is DevP, and Rps is RpsP.                                           *)

LEMMA DevAssumed == DevP!DevAssumption /\ EndianAssumption /\ AlenAssumption
  BY PartsAssumption, EndianAssumption, AlenAssumption
  DEF Dev!DevAssumption, DevP!DevAssumption, Dev!IsIoctl, DevP!IsIoctl, Dev!Cmd,
      DevP!Cmd, Dev!FieldOf, DevP!FieldOf, Dev!Byte, DevP!Byte, Dev!IsFiniteSet,
      DevP!IsFiniteSet

LEMMA RpsAssumed == RpsP!RpsAssumption /\ RpsP!SizesAssumption
  BY PartsAssumption
  DEF Rps!RpsAssumption, RpsP!RpsAssumption, Rps!SizesAssumption, RpsP!SizesAssumption,
      Rps!NoQueue, RpsP!NoQueue, Rps!Hash, RpsP!Hash, Rps!FlowSlot, RpsP!FlowSlot,
      Rps!SockSlot, RpsP!SockSlot

LEMMA SameDevInit == Dev!Init = DevP!Init
  BY DEF Dev!Init, DevP!Init, Dev!ZeroedMatch, DevP!ZeroedMatch, Dev!Field, DevP!Field,
         Dev!Blank, DevP!Blank, Dev!ZeroMac, DevP!ZeroMac

LEMMA SameOpen ==
  ASSUME NEW c
  PROVE  /\ Dev!device_open_check(c) <=> DevP!device_open_check(c)
         /\ Dev!device_open_load(c) <=> DevP!device_open_load(c)
         /\ Dev!device_open_store(c) <=> DevP!device_open_store(c)
         /\ Dev!close(c) <=> DevP!close(c)
         /\ Dev!Killed(c) <=> DevP!Killed(c)
         /\ Dev!device_release_load(c) <=> DevP!device_release_load(c)
         /\ Dev!device_release_store(c) <=> DevP!device_release_store(c)
<1> USE DEF Dev!GoTo, DevP!GoTo, Dev!Entering, DevP!Entering,
            Dev!device, DevP!device, Dev!client, DevP!client
<1>1. Dev!device_open_check(c) <=> DevP!device_open_check(c)
  BY DEF Dev!device_open_check, DevP!device_open_check
<1>2. Dev!device_open_load(c) <=> DevP!device_open_load(c)
  BY DEF Dev!device_open_load, DevP!device_open_load
<1>3. Dev!device_open_store(c) <=> DevP!device_open_store(c)
  BY DEF Dev!device_open_store, DevP!device_open_store
<1>4. (Dev!close(c) <=> DevP!close(c)) /\ (Dev!Killed(c) <=> DevP!Killed(c))
  BY DEF Dev!close, DevP!close, Dev!Killed, DevP!Killed
<1>5. Dev!device_release_load(c) <=> DevP!device_release_load(c)
  BY DEF Dev!device_release_load, DevP!device_release_load
<1>6. Dev!device_release_store(c) <=> DevP!device_release_store(c)
  BY DEF Dev!device_release_store, DevP!device_release_store
<1>7. QED
  BY <1>1, <1>2, <1>3, <1>4, <1>5, <1>6

LEMMA SameIssue == ASSUME NEW c PROVE Dev!issue(c) <=> DevP!issue(c)
  BY DEF Dev!issue, DevP!issue, Dev!vse_device_ioctl, DevP!vse_device_ioctl,
         Dev!StagedMatch, DevP!StagedMatch, Dev!StagedIrq, DevP!StagedIrq,
         Dev!get_user, DevP!get_user, Dev!ToU8, DevP!ToU8, Dev!Added, DevP!Added,
         Dev!vse_set_entry_match, DevP!vse_set_entry_match, Dev!Field, DevP!Field,
         Dev!Blank, DevP!Blank, Dev!ZeroMac, DevP!ZeroMac, Dev!FieldOf, DevP!FieldOf,
         Dev!NO_IRQ, DevP!NO_IRQ

LEMMA SameDevNext == Dev!Next <=> DevP!Next
  BY SameOpen, SameIssue DEF Dev!Next, DevP!Next, Dev!Run, DevP!Run

LEMMA SameAsked == ASSUME NEW p, NEW n PROVE Dev!Asked(p, n) = DevP!Asked(p, n)
  BY DEF Dev!Asked, DevP!Asked, Dev!AskedExact, DevP!AskedExact, Dev!AskedIrq,
         DevP!AskedIrq, Dev!Staging, DevP!Staging, Dev!Naming, DevP!Naming, Dev!Since,
         DevP!Since, Dev!LastOf, DevP!LastOf, Dev!LastByte, DevP!LastByte, Dev!MacField,
         DevP!MacField, Dev!get_user, DevP!get_user, Dev!ToU8, DevP!ToU8, Dev!Max,
         DevP!Max, Dev!Field, DevP!Field, Dev!Blank, DevP!Blank, Dev!ZeroMac,
         DevP!ZeroMac, Dev!FieldOf, DevP!FieldOf, Dev!NO_IRQ, DevP!NO_IRQ

LEMMA SameDevTypeOK == Dev!TypeOK <=> DevP!TypeOK
  BY DEF Dev!TypeOK, DevP!TypeOK, Dev!Exact, DevP!Exact, Dev!Field, DevP!Field, Dev!Byte,
         DevP!Byte, Dev!Cardinality, DevP!Cardinality

LEMMA SameVni == ASSUME NEW b PROVE Table!vse_get_vxlan_vni(b) = vse_get_vxlan_vni(b)
<1>1. ASSUME NEW w PROVE Table!Load(w) = Load(w) /\ Table!htonl(w) = htonl(w)
  BY DEF Table!Load, Load, Table!htonl, htonl, Table!Swap, Swap
<1>2. ASSUME NEW w
      PROVE  Table!MaskReserved(w) = MaskReserved(w) /\ Table!ShiftRight8(w) = ShiftRight8(w)
  BY DEF Table!MaskReserved, MaskReserved, Table!ShiftRight8, ShiftRight8
<1>3. QED
  BY <1>1, <1>2 DEF Table!vse_get_vxlan_vni, vse_get_vxlan_vni

LEMMA SameMatch ==
  ASSUME NEW match, NEW skb
  PROVE  Table!vse_do_match(match, skb) = vse_do_match(match, skb)
<1>1. Table!Seen(skb) = Seen(skb)
  BY SameVni DEF Table!Seen, Seen
<1>2. Table!Agrees(match, skb) <=> Agrees(match, skb)
  BY <1>1 DEF Table!Agrees, Agrees
<1>3. QED
  BY <1>2 DEF Table!vse_do_match, vse_do_match

LEMMA SameRpsInit == Rps!Init = RpsP!Init
  BY DEF Rps!Init, RpsP!Init, Rps!Queue, RpsP!Queue, Rps!RPS_NO_CPU, RpsP!RPS_NO_CPU,
         Rps!NoQueue, RpsP!NoQueue, Rps!NoIrq, RpsP!NoIrq, Rps!Elsewhere, RpsP!Elsewhere

LEMMA SameSettings ==
  /\ Rps!Queue = RpsP!Queue
  /\ \A r : Rps!SetFlowTable(r) <=> RpsP!SetFlowTable(r)
  /\ Rps!SetSockTable <=> RpsP!SetSockTable
  /\ \A k : Rps!ResetSockSlot(k) <=> RpsP!ResetSockSlot(k)
  BY DEF Rps!Queue, RpsP!Queue, Rps!SetFlowTable, RpsP!SetFlowTable, Rps!SetSockTable,
         RpsP!SetSockTable, Rps!ResetSockSlot, RpsP!ResetSockSlot, Rps!RPS_NO_CPU,
         RpsP!RPS_NO_CPU, Rps!SockSlot, RpsP!SockSlot

LEMMA SameSteps ==
  ASSUME NEW a
  PROVE  /\ \A i, rec : Rps!vse_do_rps(a, i, rec) <=> RpsP!vse_do_rps(a, i, rec)
         /\ \A rec : Rps!PassOn(a, rec) <=> RpsP!PassOn(a, rec)
         /\ Rps!StoreFlow(a) <=> RpsP!StoreFlow(a)
         /\ Rps!StoreSock(a) <=> RpsP!StoreSock(a)
         /\ Rps!get_rps_cpu(a) <=> RpsP!get_rps_cpu(a)
         /\ Rps!Queued(a) <=> RpsP!Queued(a)
<1> USE DEF Rps!tables, RpsP!tables, Rps!NoQueue, RpsP!NoQueue, Rps!Queue, RpsP!Queue,
            Rps!FlowSlot, RpsP!FlowSlot, Rps!SockSlot, RpsP!SockSlot, Rps!Elsewhere,
            RpsP!Elsewhere, Rps!NoIrq, RpsP!NoIrq, Rps!vse_get_rxqueue,
            RpsP!vse_get_rxqueue
<1>1. ASSUME NEW i, NEW rec PROVE Rps!vse_do_rps(a, i, rec) <=> RpsP!vse_do_rps(a, i, rec)
  BY DEF Rps!vse_do_rps, RpsP!vse_do_rps, Rps!TablesFound, RpsP!TablesFound
<1>0. ASSUME NEW rec PROVE Rps!PassOn(a, rec) <=> RpsP!PassOn(a, rec)
  BY DEF Rps!PassOn, RpsP!PassOn
<1>2. Rps!StoreFlow(a) <=> RpsP!StoreFlow(a)
  BY DEF Rps!StoreFlow, RpsP!StoreFlow
<1>3. Rps!StoreSock(a) <=> RpsP!StoreSock(a)
  BY DEF Rps!StoreSock, RpsP!StoreSock
<1>4. Rps!get_rps_cpu(a) <=> RpsP!get_rps_cpu(a)
  BY DEF Rps!get_rps_cpu, RpsP!get_rps_cpu, Rps!HasTables, RpsP!HasTables, Rps!Choices,
         RpsP!Choices, Rps!rxhash, RpsP!rxhash, Rps!Hashed, RpsP!Hashed, Rps!Found,
         RpsP!Found
<1>5. Rps!Queued(a) <=> RpsP!Queued(a)
  BY DEF Rps!Queued, RpsP!Queued
<1>6. QED
  BY <1>0, <1>1, <1>2, <1>3, <1>4, <1>5

LEMMA SameRpsNext == Rps!Next <=> RpsP!Next
  BY SameSettings, SameSteps DEF Rps!Next, RpsP!Next

LEMMA SameRpsProperties ==
  /\ Rps!TypeOK <=> RpsP!TypeOK
  /\ Rps!Elsewhere = RpsP!Elsewhere /\ Rps!NoIrq = RpsP!NoIrq
  /\ \A a : Rps!Hashed(a) <=> RpsP!Hashed(a)
  /\ \A c, i : Rps!Shares(c, i) <=> RpsP!Shares(c, i)
  /\ \A i : Rps!Unshared(i) <=> RpsP!Unshared(i)
  BY DEF Rps!TypeOK, RpsP!TypeOK, Rps!Queue, RpsP!Queue, Rps!RPS_NO_CPU, RpsP!RPS_NO_CPU,
         Rps!NoQueue, RpsP!NoQueue, Rps!NoIrq, RpsP!NoIrq, Rps!Elsewhere,
         RpsP!Elsewhere, Rps!Hashed, RpsP!Hashed, Rps!Shares, RpsP!Shares, Rps!FlowSlot, RpsP!FlowSlot,
         Rps!SockSlot, RpsP!SockSlot, Rps!Unshared, RpsP!Unshared


-----------------------------------------------------------------------------
(* The device goes on as VseDev says.                                      *)

LEMMA DeviceStep == [Next]_vars => [DevP!Next]_(DevP!vars)
<1> SUFFICES ASSUME [Next]_vars PROVE DevP!Next \/ UNCHANGED DevP!vars
  OBVIOUS
<1>1. UNCHANGED device => UNCHANGED DevP!vars
  BY DEF device, DevP!vars
<1>2. ASSUME NEW c \in Client, Process(c) PROVE DevP!Next
  BY <1>2, SameDevNext DEF Process, Dev!Next
<1>3. CASE \E c \in Client : Process(c)
  BY <1>2, <1>3
<1>4. CASE UNCHANGED vars
  BY <1>1, <1>4 DEF vars
<1>5. CASE Next /\ ~\E c \in Client : Process(c)
  BY <1>1, <1>5
  DEF Next, vse_init_handler, vse_init_chrdev, vse_cleanup_handler, vse_cleanup_chrdev,
      vse_clean_up_flow_table, OtherDriver, Arrive, LookUp, Steer, Bypass, Plant, Settings
<1>6. QED
  BY <1>3, <1>4, <1>5

LEMMA DeviceInvariant == Spec => []DevP!IInv
<1>1. Init => DevP!IInv
  BY SameDevInit, DevP!Initially, DevAssumed DEF Init
<1>2. DevP!IInv /\ [Next]_vars => DevP!IInv'
  BY DeviceStep, DevP!StepKept, DevAssumed
<1>3. QED
  BY <1>1, <1>2, PTL DEF Spec

-----------------------------------------------------------------------------
(* The inductive invariant of what the system adds to its parts.           *)

Away == {"start", "closed", "refused"}

\* The variables that belong to no part.
OwnTypes ==
  /\ module \in {"absent", "hooked", "ready", "unhooked", "freeing", "gone"}
  /\ major \in {"free", "vse", "other"}
  /\ size \in 0..Len(table)
  /\ size < Len(table) => module \in {"freeing", "gone"}
  /\ Len(table) <= MaxEntries
  /\ phase \in [Context -> {"idle", "called", "seen", "lost"}]
  /\ pkt \in [Context -> Packet]
  /\ instant \in [Context -> 0..Len(table)]
  /\ steered \in [Context -> 0..Len(table)]
  /\ before \in [Context -> 0..Len(table)]

\* Nobody has come before the device is there, nobody is inside while it is not,
\* and the number stays the module's once somebody has come.
LoadInv ==
  /\ module \in {"absent", "hooked"} => \A c \in Client : client[c] = "start"
  /\ \A c \in Client : client[c] \notin Away => module = "ready"
  /\ module \in {"ready", "unhooked"} /\ (\E c \in Client : client[c] # "start") =>
       major = "vse"
  /\ module = "absent" => \A a \in Context : phase[a] = "idle" /\ before[a] = 0

\* What is staged is what ioctls can make of it, whoever they are of; and every
\* entry was added by an ioctl that adds one, and is one.
EntryInv ==
  /\ [match |-> entry_match, irq |-> staged_irq] \in Staged
  /\ \A k \in DOMAIN table :
       /\ program[table[k].by][table[k].done].cmd \in {"SET_IRQ", "SET_ENTRY"}
       /\ [match |-> table[k].match, irq |-> table[k].irq] \in Entry
       /\ table[k].irq \in Irq

\* A lookup sees what was in the table when its packet came, while the hook is
\* there; and what is steered is the packet of the last lookup, by its entry if it
\* has one.
LookupInv(a) ==
  /\ Hooked /\ phase[a] = "seen" => before[a] <= instant[a]
  /\ softirq[a] # "idle" => phase[a] = "idle"
  /\ softirq[a] # "idle" /\ hash[a] # Rps!NoIrq =>
       /\ steered[a] > 0
       /\ MayAccept(EntryAt(steered[a]).match, pkt[a])
       /\ hash[a] = EntryAt(steered[a]).irq

SystemInv ==
  /\ OwnTypes /\ LoadInv /\ EntryInv /\ FinishedRequestGoverns
  /\ \A a \in Context : LookupInv(a)

-----------------------------------------------------------------------------
(* What the parts' invariants say of clients and entries.                  *)

\* The device's invariant, in the system's own words.
LEMMA DeviceFacts ==
  ASSUME DevP!IInv
  PROVE  /\ client \in [Client -> Away \cup {"checked", "opening", "open", "closing",
                                             "releasing"}]
         /\ program \in [Client -> Program] /\ done \in [Client -> Nat]
         /\ \A c \in Client : done[c] <= Len(program[c]) /\ Len(program[c]) \in Nat
         /\ table \in Seq(DevP!EntryType)
         /\ Len(table) \in Nat /\ DOMAIN table = 1..Len(table)
         /\ \A k \in DOMAIN table :
              table[k].by \in Client /\ table[k].done \in 1..done[table[k].by]
         /\ \A c \in Client : client[c] = "start" => done[c] = 0
<1>1. /\ DevP!TypeOK /\ DevP!TableInv /\ table \in Seq(DevP!EntryType)
  BY DEF DevP!IInv
<1>2. client \in [Client -> Away \cup {"checked", "opening", "open", "closing", "releasing"}]
  BY <1>1 DEF DevP!TypeOK, Away
<1>3. program \in [Client -> Program] /\ done \in [Client -> Nat]
  BY <1>1 DEF DevP!TypeOK
<1>4. \A c \in Client : done[c] <= Len(program[c]) /\ Len(program[c]) \in Nat
  BY <1>1, <1>3, PartsAssumption DEF DevP!TypeOK, Dev!DevAssumption
<1>5. Len(table) \in Nat /\ DOMAIN table = 1..Len(table)
  BY <1>1
<1>6. \A k \in DOMAIN table :
        table[k].by \in Client /\ table[k].done \in 1..done[table[k].by]
  BY <1>1 DEF DevP!TypeOK, DevP!TableInv
<1>7. \A c \in Client : client[c] = "start" => done[c] = 0
  BY <1>1 DEF DevP!TableInv, DevP!Opened
<1>8. QED
  BY <1>1, <1>2, <1>3, <1>4, <1>5, <1>6, <1>7

LEMMA NobodyNoEntry ==
  ASSUME DevP!IInv, \A c \in Client : client[c] = "start"
  PROVE  table = <<>>
<1>1. \A k \in DOMAIN table : FALSE
  BY DeviceFacts
<1>2. Len(table) = 0
  BY <1>1, DeviceFacts
<1>3. QED
  BY <1>2, DeviceFacts

\* Every entry has been added by a client, and is one.
LEMMA EntryFacts ==
  DevP!IInv /\ EntryInv =>
    \A k \in 1..Len(table) :
      LET e == EntryAt(k)
      IN  /\ Len(table) + 1 - k \in DOMAIN table
          /\ e.by \in Client /\ e.done \in 1..done[e.by] /\ e.done \in 1..Len(program[e.by])
          /\ program[e.by] \in Program
          /\ program[e.by][e.done].cmd \in {"SET_IRQ", "SET_ENTRY"}
          /\ Content(k) \in Entry /\ e.irq \in Irq
<1> SUFFICES ASSUME DevP!IInv, EntryInv, NEW k \in 1..Len(table)
             PROVE  LET e == EntryAt(k)
                    IN  /\ Len(table) + 1 - k \in DOMAIN table
                        /\ e.by \in Client /\ e.done \in 1..done[e.by]
                        /\ e.done \in 1..Len(program[e.by])
                        /\ program[e.by] \in Program
                        /\ program[e.by][e.done].cmd \in {"SET_IRQ", "SET_ENTRY"}
                        /\ Content(k) \in Entry /\ e.irq \in Irq
  OBVIOUS
<1> DEFINE j == Len(table) + 1 - k
           e == table[j]
<1>1. j \in DOMAIN table /\ EntryAt(k) = e
  BY DeviceFacts DEF EntryAt
<1>2. /\ e.by \in Client /\ e.done \in 1..done[e.by] /\ program[e.by] \in Program
      /\ e.done \in 1..Len(program[e.by])
  <2>1. e.by \in Client /\ e.done \in 1..done[e.by]
    BY <1>1, DeviceFacts
  <2> HIDE DEF e
  <2>2. /\ program[e.by] \in Program /\ done[e.by] \in Nat
        /\ done[e.by] <= Len(program[e.by]) /\ Len(program[e.by]) \in Nat
    BY <2>1, DeviceFacts
  <2>3. QED
    BY <2>1, <2>2
<1>3. /\ program[e.by][e.done].cmd \in {"SET_IRQ", "SET_ENTRY"}
      /\ [match |-> e.match, irq |-> e.irq] \in Entry /\ e.irq \in Irq
  BY <1>1 DEF EntryInv
<1>4. Content(k) = [match |-> e.match, irq |-> e.irq]
  BY <1>1 DEF Content
<1>5. QED
  BY <1>1, <1>2, <1>3, <1>4

\* Until opens have raced it is the request of one client, as far as that had been
\* made.
LEMMA EntriesAsked ==
  ASSUME DevP!IInv, EntryInv, ~raced, NEW k \in 1..Len(table), NEW e, e = EntryAt(k)
  PROVE  [match |-> e.match, irq |-> e.irq] = Dev!Asked(program[e.by], e.done)
<1>1. e = table[Len(table) + 1 - k] /\ Len(table) + 1 - k \in DOMAIN table
  BY EntryFacts DEF EntryAt
<1>2. program[e.by][1].cmd = "INIT_WILDCARDS"
  <2>1. program[e.by] \in Program /\ e.done \in 1..Len(program[e.by]) /\ e.by \in Client
    BY EntryFacts
  <2>2. Len(program[e.by]) \in Nat
    BY <2>1, DeviceFacts
  <2>3. Len(program[e.by]) > 0
    BY <2>1, <2>2
  <2>4. QED
    BY <2>1, <2>3, ProgramAssumption
<1>3. [match |-> e.match, irq |-> e.irq] = DevP!Asked(program[e.by], e.done)
  BY <1>1, <1>2 DEF DevP!IInv, DevP!EntryIsOwnRequest
<1>4. QED
  BY <1>3, SameAsked

\* An add leaves the entries that were there where they were.
LEMMA Grown ==
  ASSUME NEW S, table \in Seq(S), NEW e, table' = <<e>> \o table
  PROVE  /\ Len(table') = Len(table) + 1 /\ Len(table) \in Nat
         /\ DOMAIN table' = 1..Len(table) + 1
         /\ table'[1] = e /\ \A k \in 1..Len(table) : table'[k + 1] = table[k]
         /\ \A k \in 1..Len(table) : table'[Len(table') + 1 - k] = EntryAt(k)
         /\ table'[Len(table') + 1 - (Len(table) + 1)] = e
<1>1. table \in Seq(S \cup {e}) /\ <<e>> \in Seq(S \cup {e})
  OBVIOUS
<1>2. /\ Len(table') = Len(table) + 1 /\ Len(table) \in Nat
      /\ DOMAIN table' = 1..Len(table) + 1
      /\ table'[1] = e /\ \A k \in 1..Len(table) : table'[k + 1] = table[k]
  BY <1>1
<1>3. ASSUME NEW k \in 1..Len(table)
      PROVE  table'[Len(table') + 1 - k] = EntryAt(k)
  <2> DEFINE j == Len(table) + 1 - k
  <2>1. j \in 1..Len(table) /\ Len(table') + 1 - k = j + 1
    BY <1>2
  <2>2. QED
    BY <1>2, <2>1 DEF EntryAt
<1>4. Len(table') + 1 - (Len(table) + 1) = 1
  BY <1>2
<1>5. QED
  BY <1>2, <1>3, <1>4

\* One step of a process: who has come stays come, the programs stay, and an entry
\* is added only by who has the device open.
LEMMA ProcessStep ==
  ASSUME DevP!IInv, NEW c \in Client, Process(c)
  PROVE  /\ UNCHANGED <<module, major, lookup, steering, program>>
         /\ client[c] = "start" => Openable
         /\ client[c] \notin {"closed", "refused"} /\ client'[c] # "start"
         /\ client[c] # "start" => client[c] \notin Away
         /\ \A d \in Client \ {c} : client'[d] = client[d]
         /\ size' = size + Len(table') - Len(table) /\ Len(table') <= MaxEntries
         /\ \/ UNCHANGED table
            \/ \E e : /\ table' = <<e>> \o table
                      /\ client[c] = "open"
                      /\ e.by = c /\ e.done = done[c] + 1
                      /\ program[c][e.done].cmd \in {"SET_IRQ", "SET_ENTRY"}
                      /\ EntryInv => /\ [match |-> e.match, irq |-> e.irq] \in Entry
                                     /\ e.irq \in Irq
         /\ EntryInv => [match |-> entry_match', irq |-> staged_irq'] \in Staged
<1>1. Dev!Run(c) \/ Dev!Killed(c)
  BY DEF Process
<1>2. client \in [Client -> Away \cup {"checked", "opening", "open", "closing", "releasing"}]
  BY DeviceFacts
<1>3. CASE Dev!issue(c)
  <2> DEFINE e == [match |-> vse_set_entry_match(entry_match'), irq |-> staged_irq',
                   by |-> c, done |-> done[c] + 1]
  <2>1. /\ client[c] = "open" /\ UNCHANGED <<client, program>>
        /\ \/ UNCHANGED table
           \/ /\ table' = <<e>> \o table
              /\ program[c][done[c] + 1].cmd \in {"SET_IRQ", "SET_ENTRY"}
    BY <1>3 DEF Dev!issue, Dev!vse_device_ioctl, Dev!Added, Dev!vse_set_entry_match,
                vse_set_entry_match, Dev!Field, Field, Dev!Blank, Blank, Dev!ZeroMac, ZeroMac
  <2>2. e.by = c /\ e.done = done[c] + 1
    OBVIOUS
  <2>3. PICK i : i = program[c][done[c] + 1]
    OBVIOUS
  <2>4. program[c] \in Program /\ done[c] + 1 \in 1..Len(program[c])
    <3>1. /\ program[c] \in Program /\ done[c] \in Nat /\ Len(program[c]) \in Nat
          /\ done[c] < Len(program[c])
      BY <1>3, DeviceFacts DEF Dev!issue
    <3>2. QED
      BY <3>1
  <2>5. ASSUME EntryInv
        PROVE  /\ [match |-> entry_match', irq |-> staged_irq'] \in Staged
               /\ i.cmd \in {"SET_IRQ", "SET_ENTRY"} =>
                    [match |-> e.match, irq |-> e.irq] \in Entry /\ e.irq \in Irq
    <3> DEFINE s == [match |-> entry_match, irq |-> staged_irq]
               t == [match |-> entry_match', irq |-> staged_irq']
    <3>1. s \in Staged /\ s.match = entry_match /\ s.irq = staged_irq
      BY <2>5 DEF EntryInv
    <3>2. entry_match' = Dev!StagedMatch(entry_match, i) /\ staged_irq' = Dev!StagedIrq(staged_irq, i)
      BY <1>3, <2>3 DEF Dev!issue, Dev!vse_device_ioctl
    <3>3. t = Restaged(s, i) /\ t.match = entry_match' /\ t.irq = staged_irq'
      BY <3>1, <3>2 DEF Restaged
    <3>4. [match |-> e.match, irq |-> e.irq] = EntryOf(t) /\ e.irq = t.irq
      BY <3>3 DEF EntryOf
    <3> HIDE DEF s, t, e
    <3>5. t \in Staged /\ (i.cmd \in {"SET_IRQ", "SET_ENTRY"} => EntryOf(t) \in Entry /\ t.irq \in Irq)
      BY <2>3, <2>4, <3>1, <3>3, ProgramAssumption
    <3>6. QED
      BY <3>4, <3>5 DEF t
  <2> HIDE DEF e
  <2>6. QED
    BY <1>2, <2>1, <2>2, <2>3, <2>5 DEF Process, Away
<1>4. CASE ~Dev!issue(c)
  <2>1. /\ UNCHANGED <<table, program, entry_match, staged_irq>>
        /\ \E l \in {"checked", "refused", "opening", "open", "closing", "releasing",
                     "closed"} : client' = [client EXCEPT ![c] = l]
        /\ client[c] \in {"start", "checked", "opening", "open", "closing", "releasing"}
    BY <1>1, <1>4
    DEF Dev!Run, Dev!Killed, Dev!device_open_check, Dev!device_open_load,
        Dev!device_open_store, Dev!close, Dev!device_release_load,
        Dev!device_release_store, Dev!GoTo, Dev!device, Dev!client
  <2>2. EntryInv => [match |-> entry_match', irq |-> staged_irq'] \in Staged
    BY <2>1 DEF EntryInv
  <2>3. QED
    BY <1>2, <2>1, <2>2 DEF Process, Away
<1>5. QED
  BY <1>3, <1>4

-----------------------------------------------------------------------------
(* The invariant is kept.                                                  *)

\* The steps that leave the device and the lookups alone.
Loading ==
  \/ vse_init_handler \/ vse_init_chrdev
  \/ vse_cleanup_handler \/ vse_cleanup_chrdev \/ vse_clean_up_flow_table
  \/ OtherDriver

LEMMA OwnTypesKept == ASSUME DevP!IInv, OwnTypes, [Next]_vars PROVE OwnTypes'
<1> USE DEF OwnTypes
<1>0. Len(table) \in Nat
  BY DeviceFacts
<1>1. CASE Loading
  BY <1>0, <1>1
  DEF Loading, vse_init_handler, vse_init_chrdev, vse_cleanup_handler, vse_cleanup_chrdev,
      vse_clean_up_flow_table, OtherDriver, device, lookup
<1>2. ASSUME NEW c \in Client, Process(c) PROVE OwnTypes'
  <2>1. /\ UNCHANGED <<module, major, phase, pkt, instant, steered, before>>
        /\ size' = size + Len(table') - Len(table) /\ Len(table') <= MaxEntries
        /\ UNCHANGED table \/ \E e : table' = <<e>> \o table
    BY <1>2, ProcessStep DEF lookup
  <2>2. CASE UNCHANGED table
    BY <1>0, <2>1, <2>2
  <2>3. ASSUME NEW e, table' = <<e>> \o table PROVE OwnTypes'
    <3>1. Len(table') = Len(table) + 1
      BY <2>3, DeviceFacts, Grown
    <3>2. /\ size' \in 0..Len(table') /\ (size' < Len(table') => size < Len(table))
      BY <1>0, <2>1, <3>1
    <3>3. 0..Len(table) \subseteq 0..Len(table')
      BY <1>0, <3>1
    <3>4. /\ instant' \in [Context -> 0..Len(table')]
          /\ steered' \in [Context -> 0..Len(table')]
          /\ before' \in [Context -> 0..Len(table')]
      BY <2>1, <3>3
    <3>5. QED
      BY <2>1, <3>2, <3>4
  <2>4. QED
    BY <2>1, <2>2, <2>3
<1>3. ASSUME NEW a \in Context, NEW p \in Packet, Arrive(a, p) PROVE OwnTypes'
  BY <1>0, <1>3 DEF Arrive, Table!Call, device
<1>4. ASSUME NEW a \in Context, LookUp(a) PROVE OwnTypes'
  BY <1>0, <1>4 DEF LookUp, Table!See, Table!Lose, device
<1>5. ASSUME NEW a \in Context, NEW rec \in Recorded, Steer(a, rec) PROVE OwnTypes'
  <2>1. PICK r \in 0..instant[a] : steered' = [steered EXCEPT ![a] = r]
    BY <1>5 DEF Steer, Table!Return, Table!Answers
  <2>2. r \in 0..Len(table)
    BY <1>0, <2>1
  <2>3. QED
    BY <1>5, <2>1, <2>2 DEF Steer, Table!Return, device
<1>6. CASE \/ Settings \/ \E a \in Context : Plant(a)
           \/ \E a \in Context, rec \in Recorded : Bypass(a, rec)
  BY <1>6 DEF Settings, Plant, Bypass, device, lookup
<1>7. CASE UNCHANGED vars
  BY <1>7 DEF vars, device, lookup
<1>8. QED
  BY <1>1, <1>2, <1>3, <1>4, <1>5, <1>6, <1>7 DEF Next, Loading

LEMMA LoadKept ==
  ASSUME DevP!IInv, RpsP!IInv, SystemInv, [Next]_vars
  PROVE  LoadInv'
<1>1. /\ LoadInv
      /\ phase \in [Context -> {"idle", "called", "seen", "lost"}]
      /\ client \in [Client -> Away \cup {"checked", "opening", "open", "closing",
                                          "releasing"}]
  BY DeviceFacts DEF SystemInv, OwnTypes
<1> USE DEF LoadInv
<1>2. CASE Loading
  BY <1>1, <1>2
  DEF Loading, vse_init_handler, vse_init_chrdev, vse_cleanup_handler, vse_cleanup_chrdev,
      vse_clean_up_flow_table, OtherDriver, Unused, Away, device, lookup, steering
<1>3. ASSUME NEW c \in Client, Process(c) PROVE LoadInv'
  <2>1. /\ UNCHANGED <<module, major, phase, before>>
        /\ client[c] = "start" => Openable
        /\ client[c] # "start" => client[c] \notin Away
        /\ \A d \in Client \ {c} : client'[d] = client[d]
    BY <1>3, ProcessStep DEF lookup, steering
  <2>2. module = "ready" /\ major = "vse"
    BY <1>1, <2>1 DEF Openable, Away
  <2>3. QED
    BY <1>1, <2>1, <2>2
<1>4. ASSUME NEW a \in Context, NEW p \in Packet, Arrive(a, p) PROVE LoadInv'
  BY <1>1, <1>4 DEF Arrive, Table!Call, Hooked, device, steering
<1>5. ASSUME NEW a \in Context, LookUp(a) PROVE LoadInv'
  BY <1>1, <1>5 DEF LookUp, Table!See, Table!Lose, device, steering
<1>6. ASSUME NEW a \in Context, NEW rec \in Recorded, Steer(a, rec) PROVE LoadInv'
  <2>1. module # "absent" /\ UNCHANGED <<module, major, client>>
    BY <1>1, <1>6 DEF Steer, Table!Return, device
  <2>2. QED
    BY <1>1, <2>1
<1>7. CASE \/ Settings \/ \E a \in Context : Plant(a)
           \/ \E a \in Context, rec \in Recorded : Bypass(a, rec)
  <2>1. UNCHANGED <<module, major, client, phase, before>>
    BY <1>7 DEF Settings, Plant, Bypass, device, lookup
  <2>2. QED
    BY <1>1, <2>1
<1>8. CASE UNCHANGED vars
  BY <1>1, <1>8 DEF vars, device, lookup, steering
<1>9. QED
  BY <1>2, <1>3, <1>4, <1>5, <1>6, <1>7, <1>8 DEF Next, Loading

\* Entries stay where and what they are while new ones are added, and no step of
\* a process touches a packet.
LEMMA TableStep ==
  ASSUME DevP!IInv, [Next]_vars
  PROVE  /\ UNCHANGED program
         /\ Len(table') \in Nat /\ Len(table) \in 0..Len(table')
         /\ \A k \in 1..Len(table) : EntryAt(k)' = EntryAt(k)
         /\ \/ UNCHANGED device
            \/ \E c \in Client : Process(c)
<1>1. CASE \E c \in Client : Process(c)
  <2>1. PICK c \in Client : Process(c)
    BY <1>1
  <2>2. UNCHANGED program
    BY <2>1, ProcessStep
  <2>3. UNCHANGED table \/ \E e : table' = <<e>> \o table
    BY <2>1, ProcessStep
  <2>4. CASE UNCHANGED table
    BY <1>1, <2>2, <2>4, DeviceFacts DEF EntryAt
  <2>5. ASSUME NEW e, table' = <<e>> \o table
        PROVE  /\ Len(table') \in Nat /\ Len(table) \in 0..Len(table')
               /\ \A k \in 1..Len(table) : EntryAt(k)' = EntryAt(k)
    BY <2>5, DeviceFacts, Grown DEF EntryAt
  <2>6. QED
    BY <1>1, <2>2, <2>3, <2>4, <2>5
<1>2. CASE UNCHANGED device
  BY <1>2, DeviceFacts DEF device, EntryAt
<1>3. QED
  BY <1>1, <1>2
  DEF Next, vars, vse_init_handler, vse_init_chrdev, vse_cleanup_handler,
      vse_cleanup_chrdev, vse_clean_up_flow_table, OtherDriver, Arrive, LookUp, Steer,
      Bypass, Plant, Settings

LEMMA EntryKept == ASSUME DevP!IInv, EntryInv, [Next]_vars PROVE EntryInv'
<1> DEFINE Good(e) == /\ program[e.by][e.done].cmd \in {"SET_IRQ", "SET_ENTRY"}
                      /\ [match |-> e.match, irq |-> e.irq] \in Entry /\ e.irq \in Irq
<1>1. CASE UNCHANGED device
  BY <1>1 DEF EntryInv, device
<1>2. ASSUME NEW c \in Client, Process(c) PROVE EntryInv'
  <2>1. UNCHANGED program /\ [match |-> entry_match', irq |-> staged_irq'] \in Staged
    BY <1>2, ProcessStep
  <2>2. CASE UNCHANGED table
    BY <2>1, <2>2 DEF EntryInv
  <2>3. ASSUME NEW e, table' = <<e>> \o table, Good(e)
        PROVE  EntryInv'
    <3>1. /\ DOMAIN table' = 1..Len(table) + 1 /\ Len(table) \in Nat
          /\ DOMAIN table = 1..Len(table)
          /\ table'[1] = e /\ \A k \in 1..Len(table) : table'[k + 1] = table[k]
      BY <2>3, DeviceFacts, Grown
    <3>2. ASSUME NEW k \in DOMAIN table' PROVE Good(table'[k])
      <4>1. CASE k = 1
        BY <2>3, <3>1, <4>1
      <4>2. CASE k # 1
        <5>1. k - 1 \in DOMAIN table /\ table'[k] = table[k - 1]
          BY <3>1, <4>2
        <5>2. QED
          BY <5>1 DEF EntryInv
      <4>3. QED
        BY <4>1, <4>2
    <3>3. QED
      BY <2>1, <3>2 DEF EntryInv
  <2>4. UNCHANGED table \/ \E e : table' = <<e>> \o table /\ Good(e)
    <3>1. \/ UNCHANGED table
          \/ \E e : /\ table' = <<e>> \o table /\ e.by = c
                    /\ program[c][e.done].cmd \in {"SET_IRQ", "SET_ENTRY"}
                    /\ [match |-> e.match, irq |-> e.irq] \in Entry /\ e.irq \in Irq
      BY <1>2, ProcessStep
    <3>2. QED
      BY <3>1
  <2>5. QED
    BY <2>2, <2>3, <2>4
<1>3. QED
  BY <1>1, <1>2, TableStep

\* What the lookup of a returns, in the system's terms.
LEMMA Returned ==
  ASSUME OwnTypes, NEW a \in Context, Table!Return(a), Len(table) \in Nat
  PROVE  /\ steered'[a] \in 0..instant[a] /\ instant[a] \in 0..Len(table)
         /\ steered' = [steered EXCEPT ![a] = steered'[a]]
         /\ phase' = [phase EXCEPT ![a] = "idle"] /\ phase[a] = "seen"
         /\ UNCHANGED <<pkt, instant>>
         /\ steered'[a] > 0 => MayAccept(EntryAt(steered'[a]).match, pkt[a])
         /\ \A n \in 1..instant[a] :
              n > steered'[a] => "miss" \in vse_do_match(EntryAt(n).match, pkt[a])
<1> DEFINE es == [k \in 1..MaxEntries |-> IF k <= Len(table) THEN Content(k) ELSE NoEntry]
<1>1. PICK r \in Table!Answers(es, instant[a], pkt[a]) : steered' = [steered EXCEPT ![a] = r]
  BY DEF Table!Return
<1>2. /\ r \in 0..instant[a] /\ steered'[a] = r /\ instant[a] \in 0..Len(table)
      /\ Len(table) <= MaxEntries /\ MaxEntries \in Nat
  BY <1>1, PartsAssumption DEF OwnTypes, Table!Answers
<1>3. ASSUME NEW n \in 1..instant[a], NEW q
      PROVE  Table!Outcome(es, n, q) = vse_do_match(EntryAt(n).match, q)
  <2>1. es[n] = Content(n)
    BY <1>2
  <2>2. es[n].match = EntryAt(n).match
    BY <2>1 DEF Content
  <2> HIDE DEF es
  <2>3. QED
    BY <2>2, SameMatch DEF Table!Outcome
<1>4. r > 0 => MayAccept(EntryAt(r).match, pkt[a])
  <2> HIDE DEF es
  <2>1. QED
    BY <1>1, <1>2, <1>3 DEF Table!Answers, MayAccept
<1>5. \A n \in 1..instant[a] :
        n > r => "miss" \in vse_do_match(EntryAt(n).match, pkt[a])
  <2> HIDE DEF es
  <2>1. QED
    BY <1>1, <1>2, <1>3 DEF Table!Answers, Table!PassedOver
<1>6. QED
  BY <1>1, <1>2, <1>4, <1>5 DEF Table!Return

\* Nothing of context a changes that LookupInv(a) speaks of, the table apart.
Untouched(a) ==
  /\ phase'[a] = phase[a] /\ pkt'[a] = pkt[a] /\ steered'[a] = steered[a]
  /\ instant'[a] = instant[a] /\ before'[a] = before[a]
  /\ softirq'[a] # "idle" => softirq[a] # "idle" /\ hash'[a] = hash[a]

LEMMA LookupKept ==
  ASSUME DevP!IInv, RpsP!IInv, SystemInv, [Next]_vars, NEW a \in Context
  PROVE  LookupInv(a)'
<1>1. OwnTypes /\ LookupInv(a) /\ LoadInv
  BY DEF SystemInv
<1>2. /\ Len(table') \in Nat /\ Len(table) \in 0..Len(table')
      /\ \A k \in 1..Len(table) : EntryAt(k)' = EntryAt(k)
  BY TableStep
<1>3. /\ softirq \in [Context -> {"idle", "flow", "replaced", "sock", "kernel", "done"}]
      /\ hash \in [Context -> Irq \cup {RpsP!NoIrq}]
      /\ \A b \in Context : softirq[b] = "idle" => hash[b] = Rps!NoIrq
  BY SameRpsProperties DEF RpsP!IInv, RpsP!TypeOK, RpsP!ContextInv
<1>4. /\ phase \in [Context -> {"idle", "called", "seen", "lost"}]
      /\ pkt \in [Context -> Packet]
      /\ instant \in [Context -> 0..Len(table)] /\ steered \in [Context -> 0..Len(table)]
      /\ before \in [Context -> 0..Len(table)] /\ Len(table) \in Nat
  BY <1>1, DeviceFacts DEF OwnTypes
<1>5. ASSUME Untouched(a), Hooked' => Hooked \/ phase[a] = "idle"
      PROVE  LookupInv(a)'
  <2>1. Hooked' /\ phase'[a] = "seen" => before'[a] <= instant'[a]
    BY <1>1, <1>5 DEF LookupInv, Untouched
  <2>2. softirq'[a] # "idle" => phase'[a] = "idle"
    BY <1>1, <1>5 DEF LookupInv, Untouched
  <2>3. ASSUME softirq'[a] # "idle", hash'[a] # Rps!NoIrq
        PROVE  /\ steered'[a] > 0
               /\ MayAccept(EntryAt(steered[a]).match, pkt[a])'
               /\ (hash[a] = EntryAt(steered[a]).irq)'
    <3>1. softirq[a] # "idle" /\ hash'[a] = hash[a]
      BY <1>5, <2>3 DEF Untouched
    <3>2. PICK k \in 1..Len(table) : k = steered[a]
      BY <1>1, <1>4, <2>3, <3>1 DEF LookupInv
    <3>3. EntryAt(k)' = EntryAt(k) /\ steered'[a] = k /\ pkt'[a] = pkt[a]
      BY <1>2, <1>5, <3>2 DEF Untouched
    <3>4. EntryAt(steered[a])' = EntryAt(k)
      BY <3>3 DEF EntryAt
    <3>5. MayAccept(EntryAt(k).match, pkt[a]) /\ hash[a] = EntryAt(k).irq
      BY <1>1, <2>3, <3>1, <3>2 DEF LookupInv
    <3>6. QED
      BY <1>5, <3>1, <3>2, <3>3, <3>4, <3>5 DEF Untouched, MayAccept
  <2>4. QED
    BY <2>1, <2>2, <2>3, SameRpsProperties DEF LookupInv, Rps!NoIrq
<1>6. CASE Loading
  <2>1. Untouched(a)
    BY <1>6
    DEF Loading, vse_init_handler, vse_init_chrdev, vse_cleanup_handler,
        vse_cleanup_chrdev, vse_clean_up_flow_table, OtherDriver, lookup, steering,
        Untouched
  <2>2. Hooked' => Hooked \/ phase[a] = "idle"
    BY <1>1, <1>6
    DEF Loading, vse_init_handler, vse_init_chrdev, vse_cleanup_handler,
        vse_cleanup_chrdev, vse_clean_up_flow_table, OtherDriver, Hooked, LoadInv
  <2>3. QED
    BY <1>5, <2>1, <2>2
<1>7. ASSUME NEW c \in Client, Process(c) PROVE LookupInv(a)'
  BY <1>5, <1>7 DEF Process, lookup, steering, Hooked, Untouched
<1>8. ASSUME NEW b \in Context, NEW p \in Packet, Arrive(b, p) PROVE LookupInv(a)'
  <2>1. UNCHANGED <<module, softirq, hash, steered, instant>> /\ softirq[b] = "idle"
    BY <1>8 DEF Arrive, Table!Call, steering
  <2>2. CASE b = a
    BY <1>4, <1>8, <2>1, <2>2 DEF Arrive, Table!Call, LookupInv
  <2>3. CASE b # a
    BY <1>4, <1>5, <1>8, <2>1, <2>3 DEF Arrive, Table!Call, Hooked, Untouched
  <2>4. QED
    BY <2>2, <2>3
<1>9. ASSUME NEW b \in Context, LookUp(b) PROVE LookupInv(a)'
  <2>1. UNCHANGED <<module, softirq, hash, steered, before, pkt>>
    BY <1>9 DEF LookUp, Table!See, Table!Lose, steering
  <2>2. CASE b = a
    <3>1. softirq'[a] = "idle"
      BY <1>1, <1>9, <2>1, <2>2 DEF LookUp, Table!See, Table!Lose, LookupInv
    <3>2. Hooked => size = Len(table)
      BY <1>1, <1>4 DEF OwnTypes, Hooked
    <3>3. phase'[a] = "seen" => instant'[a] = size
      BY <1>4, <1>9, <2>2 DEF LookUp, Table!See, Table!Lose
    <3>4. QED
      BY <1>4, <2>1, <3>1, <3>2, <3>3 DEF LookupInv, Hooked
  <2>3. CASE b # a
    BY <1>4, <1>5, <1>9, <2>1, <2>3 DEF LookUp, Table!See, Table!Lose, Hooked, Untouched
  <2>4. QED
    BY <2>2, <2>3
<1>10. ASSUME NEW b \in Context, NEW rec \in Recorded, Steer(b, rec) PROVE LookupInv(a)'
  <2>1. UNCHANGED <<module, table, before, pkt, instant>> /\ Table!Return(b)
    BY <1>10 DEF Steer, Table!Return, device
  <2>2. /\ steered' = [steered EXCEPT ![b] = steered'[b]]
        /\ phase' = [phase EXCEPT ![b] = "idle"] /\ phase[b] = "seen"
        /\ steered'[b] \in Nat
        /\ steered'[b] > 0 => MayAccept(EntryAt(steered'[b]).match, pkt[b])
    BY <1>1, <1>4, <2>1, Returned
  <2>3. softirq[b] = "idle"
    BY <1>1, <2>2 DEF SystemInv, LookupInv
  <2>4. CASE b = a /\ steered'[b] = 0
    <3>1. hash'[a] = Rps!NoIrq
      BY <1>3, <1>10, <2>3, <2>4 DEF Steer, Rps!PassOn
    <3>2. phase'[a] = "idle"
      BY <1>4, <2>2, <2>4
    <3>3. QED
      BY <3>1, <3>2 DEF LookupInv, Rps!NoIrq
  <2>5. CASE b = a /\ steered'[b] # 0
    <3>1. hash'[a] = EntryAt(steered'[a]).irq
      BY <1>3, <1>10, <2>5 DEF Steer, Rps!vse_do_rps
    <3>2. phase'[a] = "idle" /\ steered'[a] > 0
      BY <1>4, <2>2, <2>5
    <3>3. MayAccept(EntryAt(steered[a]).match, pkt[a])'
      BY <2>1, <2>2, <2>5, <3>2 DEF MayAccept, EntryAt
    <3>4. (hash[a] = EntryAt(steered[a]).irq)'
      BY <2>1, <3>1 DEF EntryAt
    <3>5. QED
      BY <3>2, <3>3, <3>4 DEF LookupInv
  <2>6. CASE b # a
    <3>1. softirq'[a] = softirq[a] /\ hash'[a] = hash[a]
      BY <1>3, <1>10, <2>6 DEF Steer, Rps!vse_do_rps, Rps!PassOn
    <3>2. QED
      BY <1>4, <1>5, <2>1, <2>2, <2>6, <3>1 DEF Hooked, Untouched
  <2>7. QED
    BY <2>4, <2>5, <2>6
<1>11. CASE Settings \/ \E b \in Context : Plant(b)
  <2>1. UNCHANGED <<module, phase, pkt, instant, steered, before>>
    BY <1>11 DEF Settings, Plant, lookup
  <2>2. softirq'[a] # "idle" => softirq[a] # "idle" /\ hash'[a] = hash[a]
    BY <1>3, <1>11
    DEF Settings, Plant, Rps!SetFlowTable, Rps!SetSockTable, Rps!ResetSockSlot,
        Rps!StoreFlow, Rps!StoreSock, Rps!get_rps_cpu, Rps!Queued
  <2>3. QED
    BY <1>5, <2>1, <2>2 DEF Hooked, Untouched
<1>12. CASE UNCHANGED vars
  BY <1>5, <1>12 DEF vars, lookup, steering, Hooked, Untouched
<1>13. ASSUME NEW b \in Context, NEW rec \in Recorded, Bypass(b, rec) PROVE LookupInv(a)'
  <2>1. /\ UNCHANGED <<module, phase, pkt, instant, steered, before>> /\ ~Hooked
        /\ phase[b] = "idle" /\ softirq[b] = "idle" /\ UNCHANGED hash
        /\ softirq' = [softirq EXCEPT ![b] = "kernel"]
    BY <1>13 DEF Bypass, Rps!PassOn, lookup
  <2>2. CASE b = a
    <3>1. hash'[a] = Rps!NoIrq /\ phase'[a] = "idle"
      BY <1>3, <2>1, <2>2
    <3>2. QED
      BY <3>1 DEF LookupInv, Rps!NoIrq
  <2>3. CASE b # a
    BY <1>3, <1>5, <2>1, <2>3 DEF Hooked, Untouched
  <2>4. QED
    BY <2>2, <2>3
<1>14. QED
  BY <1>6, <1>7, <1>8, <1>9, <1>10, <1>11, <1>12, <1>13 DEF Next, Loading

\* FinishedRequestGoverns, context by context.
Governed(a) ==
  Hooked /\ phase[a] = "idle" =>
    \A k \in 1..before[a] : Accepts(EntryAt(k).match, pkt[a]) => steered[a] >= k

LEMMA GovernedKept ==
  ASSUME DevP!IInv, RpsP!IInv, SystemInv, [Next]_vars, NEW a \in Context
  PROVE  Governed(a)'
<1>1. OwnTypes /\ LookupInv(a) /\ LoadInv /\ Governed(a)
  BY DEF SystemInv, FinishedRequestGoverns, Governed
<1>2. /\ Len(table') \in Nat /\ Len(table) \in 0..Len(table')
      /\ \A k \in 1..Len(table) : EntryAt(k)' = EntryAt(k)
  BY TableStep
<1>3. /\ phase \in [Context -> {"idle", "called", "seen", "lost"}]
      /\ pkt \in [Context -> Packet]
      /\ instant \in [Context -> 0..Len(table)] /\ steered \in [Context -> 0..Len(table)]
      /\ before \in [Context -> 0..Len(table)] /\ Len(table) \in Nat
  BY <1>1, DeviceFacts DEF OwnTypes
<1>4. ASSUME phase'[a] = phase[a], pkt'[a] = pkt[a], steered'[a] = steered[a],
             before'[a] = before[a], Hooked' => Hooked \/ before[a] = 0
      PROVE  Governed(a)'
  <2>1. CASE before[a] = 0
    BY <1>4, <2>1 DEF Governed
  <2>2. CASE Hooked /\ phase[a] = "idle"
    <3>1. ASSUME NEW k \in 1..before[a], Accepts(EntryAt(k).match, pkt[a])'
          PROVE  steered[a] >= k
      <4>1. EntryAt(k)' = EntryAt(k)
        BY <1>2, <1>3
      <4>2. Accepts(EntryAt(k).match, pkt[a])
        BY <1>4, <3>1, <4>1 DEF Accepts
      <4>3. QED
        BY <1>1, <2>2, <4>2 DEF Governed
    <3>2. QED
      BY <1>4, <3>1 DEF Governed
  <2>3. QED
    BY <1>4, <2>1, <2>2 DEF Governed
<1>5. CASE Loading
  <2>1. UNCHANGED <<phase, pkt, steered, before>>
    BY <1>5
    DEF Loading, vse_init_handler, vse_init_chrdev, vse_cleanup_handler,
        vse_cleanup_chrdev, vse_clean_up_flow_table, OtherDriver, lookup
  <2>2. Hooked' => Hooked \/ before[a] = 0
    BY <1>1, <1>5
    DEF Loading, vse_init_handler, vse_init_chrdev, vse_cleanup_handler,
        vse_cleanup_chrdev, vse_clean_up_flow_table, OtherDriver, Hooked, LoadInv
  <2>3. QED
    BY <1>4, <2>1, <2>2
<1>6. ASSUME NEW c \in Client, Process(c) PROVE Governed(a)'
  BY <1>4, <1>6 DEF Process, lookup, Hooked
<1>7. ASSUME NEW b \in Context, NEW p \in Packet, Arrive(b, p) PROVE Governed(a)'
  <2>1. CASE b = a
    BY <1>3, <1>7, <2>1 DEF Arrive, Table!Call, Governed
  <2>2. CASE b # a
    BY <1>3, <1>4, <1>7, <2>2 DEF Arrive, Table!Call, Hooked
  <2>3. QED
    BY <2>1, <2>2
<1>8. ASSUME NEW b \in Context, LookUp(b) PROVE Governed(a)'
  <2>1. CASE b = a
    BY <1>3, <1>8, <2>1 DEF LookUp, Table!See, Table!Lose, Governed
  <2>2. CASE b # a
    BY <1>3, <1>4, <1>8, <2>2 DEF LookUp, Table!See, Table!Lose, Hooked
  <2>3. QED
    BY <2>1, <2>2
<1>9. ASSUME NEW b \in Context, NEW rec \in Recorded, Steer(b, rec) PROVE Governed(a)'
  <2>1. UNCHANGED <<module, table, before, pkt>> /\ Table!Return(b)
    BY <1>9 DEF Steer, Table!Return, device
  <2>2. /\ steered' = [steered EXCEPT ![b] = steered'[b]] /\ steered'[b] \in Nat
        /\ phase' = [phase EXCEPT ![b] = "idle"] /\ phase[b] = "seen"
        /\ \A n \in 1..instant[b] :
             n > steered'[b] => "miss" \in vse_do_match(EntryAt(n).match, pkt[b])
    BY <1>1, <1>3, <2>1, Returned
  <2>3. CASE b = a
    <3>1. ASSUME Hooked', NEW k \in 1..before[a], Accepts(EntryAt(k).match, pkt[a])
          PROVE  steered'[a] >= k
      <4>1. before[a] <= instant[a]
        BY <1>1, <2>1, <2>2, <2>3, <3>1 DEF LookupInv, Hooked
      <4>2. k \in 1..instant[a]
        BY <1>3, <4>1
      <4>3. "miss" \notin vse_do_match(EntryAt(k).match, pkt[a])
        BY <3>1 DEF Accepts
      <4>4. QED
        BY <2>2, <2>3, <4>2, <4>3
    <3>2. QED
      BY <2>1, <3>1 DEF Governed, Accepts, EntryAt
  <2>4. CASE b # a
    BY <1>3, <1>4, <2>1, <2>2, <2>4 DEF Hooked
  <2>5. QED
    BY <2>3, <2>4
<1>10. CASE \/ Settings \/ \E b \in Context : Plant(b)
            \/ \E b \in Context, rec \in Recorded : Bypass(b, rec)
  BY <1>4, <1>10 DEF Settings, Plant, Bypass, lookup, Hooked
<1>11. CASE UNCHANGED vars
  BY <1>4, <1>11 DEF vars, lookup, Hooked
<1>12. QED
  BY <1>5, <1>6, <1>7, <1>8, <1>9, <1>10, <1>11 DEF Next, Loading

\* What is steered by is an entry.
LEMMA FoundEntry ==
  ASSUME DevP!IInv, SystemInv, NEW a \in Context, NEW rec \in Recorded, Steer(a, rec),
         steered'[a] # 0
  PROVE  \E k \in 1..Len(table) : k = steered'[a] /\ EntryAt(k).irq \in Irq
<1>1. Len(table) \in Nat /\ OwnTypes /\ EntryInv
  BY DeviceFacts DEF SystemInv
<1>2. steered'[a] \in 0..Len(table)
  BY <1>1, Returned DEF Steer
<1>3. steered'[a] \in 1..Len(table)
  BY <1>1, <1>2
<1>4. QED
  BY <1>1, <1>3, EntryFacts

\* The tables are written as VseRps says.
LEMMA SteeringStep ==
  DevP!IInv /\ SystemInv /\ [Next]_vars => [RpsP!Next]_(RpsP!vars)
<1> SUFFICES ASSUME DevP!IInv, SystemInv, [Next]_vars
             PROVE  RpsP!Next \/ UNCHANGED RpsP!vars
  OBVIOUS
<1>1. UNCHANGED steering => UNCHANGED RpsP!vars
  BY DEF steering, RpsP!vars
<1>2. ASSUME NEW a \in Context, NEW rec \in Recorded, Steer(a, rec) PROVE Rps!Next
  <2>1. CASE steered'[a] = 0
    BY <1>2, <2>1 DEF Steer, Rps!Next
  <2>2. CASE steered'[a] # 0
    <3>1. PICK k \in 1..Len(table) : k = steered'[a] /\ EntryAt(k).irq \in Irq
      BY <1>2, <2>2, FoundEntry
    <3>2. Rps!vse_do_rps(a, EntryAt(k).irq, rec)
      BY <1>2, <3>1 DEF Steer
    <3>3. QED
      BY <3>1, <3>2 DEF Rps!Next
  <2>3. QED
    BY <2>1, <2>2
<1>3. CASE \/ Settings \/ \E a \in Context : Plant(a)
           \/ \E a \in Context, rec \in Recorded : Bypass(a, rec)
  <2>1. Rps!Next
    BY <1>3 DEF Settings, Plant, Bypass, Rps!Next
  <2>2. QED
    BY <2>1, SameRpsNext
<1>4. CASE \E a \in Context, rec \in Recorded : Steer(a, rec)
  BY <1>2, <1>4, SameRpsNext
<1>5. CASE UNCHANGED vars
  BY <1>1, <1>5 DEF vars
<1>6. CASE /\ Next /\ ~Settings /\ ~\E a \in Context : Plant(a)
           /\ ~\E a \in Context, rec \in Recorded : Steer(a, rec) \/ Bypass(a, rec)
  <2>1. UNCHANGED steering
    BY <1>6
    DEF Next, vse_init_handler, vse_init_chrdev, vse_cleanup_handler, vse_cleanup_chrdev,
        vse_clean_up_flow_table, OtherDriver, Process, Arrive, LookUp
  <2>2. QED
    BY <1>1, <2>1
<1>7. QED
  BY <1>3, <1>4, <1>5, <1>6

LEMMA SystemInitially == Init => DevP!IInv /\ RpsP!IInv /\ SystemInv
<1> SUFFICES ASSUME Init PROVE DevP!IInv /\ RpsP!IInv /\ SystemInv
  OBVIOUS
<1>1. DevP!IInv /\ RpsP!IInv
  BY SameDevInit, DevP!Initially, DevAssumed, SameRpsInit, RpsP!InitEstablishes, RpsAssumed
  DEF Init
<1>2. table = <<>> /\ client = [c \in Client |-> "start"]
  BY DEF Init, Dev!Init
<1>3. softirq = [a \in Context |-> "idle"]
  BY DEF Init, Rps!Init
<1>4. OwnTypes
  BY <1>2, PartsAssumption DEF Init, OwnTypes
<1>5. LoadInv /\ EntryInv
  <2>1. [match |-> entry_match, irq |-> staged_irq] \in Staged
    BY ProgramAssumption
    DEF Init, Dev!Init, Dev!ZeroedMatch, ZeroedMatch, Dev!Field, Field, Dev!Blank, Blank,
        Dev!ZeroMac, ZeroMac
  <2>2. QED
    BY <1>2, <2>1 DEF Init, LoadInv, EntryInv, Away
<1>6. FinishedRequestGoverns /\ \A a \in Context : LookupInv(a)
  BY <1>3 DEF Init, FinishedRequestGoverns, LookupInv, Hooked
<1>7. QED
  BY <1>1, <1>4, <1>5, <1>6 DEF SystemInv

\* The cores that entries have named.
Named == {EntryAt(k).irq : k \in 1..Len(table)}

\* No other core gets into the tables or out of them.
LEMMA NamedKept ==
  ASSUME DevP!IInv, RpsP!IInv, SystemInv, RpsP!Within(Named), [Next]_vars
  PROVE  RpsP!Within(Named)'
<1>1. PICK S : S = Named'
  OBVIOUS
<1>2. Named \subseteq S
  <2>1. /\ Len(table') \in Nat /\ Len(table) \in 0..Len(table') /\ Len(table) \in Nat
        /\ \A k \in 1..Len(table) : EntryAt(k)' = EntryAt(k)
    BY TableStep, DeviceFacts
  <2>2. \A k \in 1..Len(table) : k \in 1..Len(table') /\ EntryAt(k).irq = EntryAt(k)'.irq
    BY <2>1
  <2>3. S = {EntryAt(k)'.irq : k \in 1..Len(table')}
    BY <1>1 DEF Named, EntryAt
  <2>4. QED
    BY <2>2, <2>3 DEF Named
<1>3. RpsP!Within(S)
  BY <1>2 DEF RpsP!Within
<1>4. ASSUME NEW a \in Context PROVE hash'[a] \in {hash[a], RpsP!NoIrq} \cup S
  <2>1. hash \in [Context -> Irq \cup {RpsP!NoIrq}]
    BY DEF RpsP!IInv, RpsP!TypeOK
  <2>2. ASSUME NEW b \in Context, NEW rec \in Recorded, Steer(b, rec)
        PROVE  hash'[a] \in {hash[a], RpsP!NoIrq} \cup S
    <3>1. CASE steered'[b] = 0
      BY <2>2, <3>1 DEF Steer, Rps!PassOn
    <3>2. CASE steered'[b] # 0
      <4>1. PICK k \in 1..Len(table) : k = steered'[b] /\ EntryAt(k).irq \in Irq
        BY <2>2, <3>2, FoundEntry
      <4>2. hash' = [hash EXCEPT ![b] = EntryAt(k).irq]
        BY <2>2, <4>1 DEF Steer, Rps!vse_do_rps
      <4>3. EntryAt(k).irq \in S
        BY <1>2 DEF Named
      <4>4. QED
        BY <2>1, <4>2, <4>3
    <3>3. QED
      BY <3>1, <3>2
  <2>3. CASE Settings \/ \E b \in Context : Plant(b)
    BY <2>1, <2>3, SameRpsProperties
    DEF Settings, Plant, Rps!SetFlowTable, Rps!SetSockTable, Rps!ResetSockSlot,
        Rps!StoreFlow, Rps!StoreSock, Rps!get_rps_cpu, Rps!Queued
  <2>4. ASSUME NEW b \in Context, NEW rec \in Recorded, Bypass(b, rec) PROVE UNCHANGED hash
    BY <2>4 DEF Bypass, Rps!PassOn
  <2>5. CASE \/ Loading \/ UNCHANGED vars \/ \E c \in Client : Process(c)
             \/ \E b \in Context, p \in Packet : Arrive(b, p)
             \/ \E b \in Context : LookUp(b)
    BY <2>5
    DEF Loading, vse_init_handler, vse_init_chrdev, vse_cleanup_handler, vse_cleanup_chrdev,
        vse_clean_up_flow_table, OtherDriver, Process, Arrive, LookUp, vars, steering
  <2>6. QED
    BY <2>2, <2>3, <2>4, <2>5 DEF Next, Loading
<1>5. RpsP!Within(S)'
  BY <1>3, <1>4, SteeringStep, RpsP!WithinKept, RpsAssumed
<1>6. QED
  BY <1>1, <1>5 DEF RpsP!Within

\* The invariants of the parts and what ties them together.
LEMMA SystemInvariant ==
  Spec => [](DevP!IInv /\ RpsP!IInv /\ SystemInv /\ RpsP!Within(Named))
<1> DEFINE Inv == DevP!IInv /\ RpsP!IInv /\ SystemInv /\ RpsP!Within(Named)
<1>1. Init => Inv
  <2>1. Init => RpsP!Within(Named)
    <3>1. SUFFICES ASSUME Init PROVE RpsP!Within(Named)
      OBVIOUS
    <3>2. PICK S : S = Named
      OBVIOUS
    <3>3. RpsP!Init
      BY <3>1, SameRpsInit DEF Init
    <3>4. RpsP!Within(S)
      BY <3>3, RpsP!WithinStarts, RpsAssumed
    <3>5. QED
      BY <3>2, <3>4 DEF RpsP!Within
  <2>2. QED
    BY <2>1, SystemInitially
<1>2. Inv /\ [Next]_vars => Inv'
  <2> SUFFICES ASSUME DevP!IInv, RpsP!IInv, SystemInv, RpsP!Within(Named), [Next]_vars
               PROVE  Inv'
    OBVIOUS
  <2>1. DevP!IInv'
    BY DeviceStep, DevP!StepKept, DevAssumed
  <2>2. RpsP!IInv'
    BY SteeringStep, RpsP!StepPreserves, RpsAssumed
  <2>3. OwnTypes' /\ LoadInv' /\ EntryInv'
    BY OwnTypesKept, LoadKept, EntryKept DEF SystemInv
  <2>4. (\A a \in Context : LookupInv(a)')
    BY LookupKept
  <2>5. FinishedRequestGoverns'
    BY GovernedKept DEF FinishedRequestGoverns, Governed
  <2>6. RpsP!Within(Named)'
    BY NamedKept
  <2>7. QED
    BY <2>1, <2>2, <2>3, <2>4, <2>5, <2>6 DEF SystemInv
<1>3. QED
  BY <1>1, <1>2, PTL DEF Spec

-----------------------------------------------------------------------------
(* What follows.                                                           *)

\* The types of TypeOK; above all, the entries in the table never outnumber those
\* added, and none is missing before the module is taken down.
THEOREM TypeCorrect == Spec => []TypeOK
<1>1. DevP!IInv /\ RpsP!IInv /\ SystemInv => TypeOK
  BY SameDevTypeOK, SameRpsProperties
  DEF DevP!IInv, RpsP!IInv, SystemInv, OwnTypes, TypeOK
<1>2. QED
  BY <1>1, SystemInvariant, PTL

\* The softirqs of the system, with the entries they find, drive the two tables
\* only as VseRps says, so that its theorems hold of the system.
THEOREM SystemImplementsSteering == Spec => Rps!Spec
<1>1. Init => Rps!Init
  BY DEF Init
<1>2. DevP!IInv /\ SystemInv /\ [Next]_vars => [Rps!Next]_(Rps!vars)
  BY SteeringStep, SameRpsNext DEF Rps!vars, RpsP!vars
<1>3. QED
  BY <1>1, <1>2, SystemInvariant, PTL DEF Spec, Rps!Spec

\* Until opens have raced, a packet that found an entry for a core other than 0 is
\* sent where the client of that entry, by its own ioctls, asked packets like it to
\* be sent, or to a core that shares a slot with that one, whatever the kernel does
\* with packets that have no entry.
THEOREM SteeredAsRequested == Spec => []SteeredByOwnRequest
<1>1. ASSUME DevP!IInv, RpsP!IInv, SystemInv PROVE SteeredByOwnRequest
  <2> SUFFICES ASSUME ~raced, NEW a \in Context, softirq[a] = "done", Rps!Hashed(a),
                      core[a] # Rps!Elsewhere
               PROVE  /\ steered[a] > 0
                      /\ LET e == EntryAt(steered[a])
                             asked == Dev!Asked(program[e.by], e.done)
                         IN  /\ program[e.by][e.done].cmd \in {"SET_IRQ", "SET_ENTRY"}
                             /\ MayAccept(asked.match, pkt[a])
                             /\ Rps!Shares(core[a], asked.irq)
                             /\ planted[a] /\ Rps!Unshared(asked.irq) =>
                                  core[a] = asked.irq
    BY DEF SteeredByOwnRequest
  <2>1. /\ steered[a] \in 1..Len(table) /\ steered[a] > 0
        /\ MayAccept(EntryAt(steered[a]).match, pkt[a])
        /\ hash[a] = EntryAt(steered[a]).irq
    <3>1. hash[a] # Rps!NoIrq
      BY DEF Rps!Hashed
    <3>2. QED
      BY <1>1, <3>1, DeviceFacts DEF SystemInv, OwnTypes, LookupInv
  <2>2. PICK e : e = EntryAt(steered[a])
    OBVIOUS
  <2>3. /\ program[e.by][e.done].cmd \in {"SET_IRQ", "SET_ENTRY"}
        /\ [match |-> e.match, irq |-> e.irq] = Dev!Asked(program[e.by], e.done)
    BY <1>1, <2>1, <2>2, EntryFacts, EntriesAsked DEF SystemInv
  <2>4. /\ Dev!Asked(program[e.by], e.done).match = e.match
        /\ Dev!Asked(program[e.by], e.done).irq = hash[a]
    BY <2>1, <2>2, <2>3
  <2>5. /\ Rps!Shares(core[a], hash[a])
        /\ core[a] \in Irq
    BY <1>1, SameRpsProperties
    DEF RpsP!IInv, RpsP!CoreSharesSlot, RpsP!ContextInv
  <2>6. Rps!Unshared(hash[a]) => core[a] = hash[a]
    BY <2>5 DEF Rps!Unshared
  <2>7. QED
    BY <2>1, <2>2, <2>3, <2>4, <2>5, <2>6
<1>2. QED
  BY <1>1, SystemInvariant, PTL

\* Nothing is ever sent to a core that no entry has named: not a packet without an
\* entry, not one that met a table being taken down, and not after opens have raced.
THEOREM CoresAreNamed == Spec => []OnlyNamedCores
<1>1. RpsP!Within(Named) => OnlyNamedCores
  BY SameRpsProperties DEF RpsP!Within, Named, OnlyNamedCores
<1>2. QED
  BY <1>1, SystemInvariant, PTL

\* A packet that comes after a request is complete is not steered by an older one
\* that the request was to override.
THEOREM FinishedGoverns == Spec => []FinishedRequestGoverns
<1>1. SystemInv => FinishedRequestGoverns
  BY DEF SystemInv
<1>2. QED
  BY <1>1, SystemInvariant, PTL

\* What the abstract table holds.
Entries == [k \in 1..MaxEntries |-> IF k <= Len(table) THEN Content(k) ELSE NoEntry]

ContentsAreEntries == \A k \in 1..Len(table) : Content(k) \in Entry

LEMMA Contents == DevP!IInv /\ EntryInv => ContentsAreEntries
  BY EntryFacts DEF ContentsAreEntries

\* An add is at once an entry of the abstract table, its newest.
LEMMA InstallStep ==
  ASSUME DevP!IInv, ContentsAreEntries', OwnTypes, LoadInv, NEW c \in Client, Process(c)
  PROVE  Table!Next \/ UNCHANGED Table!vars
<1>1. /\ UNCHANGED <<module, phase, pkt, instant, steered>>
      /\ size' = size + Len(table') - Len(table) /\ Len(table') <= MaxEntries
      /\ \/ UNCHANGED table
         \/ client[c] = "open" /\ \E e : table' = <<e>> \o table
  BY ProcessStep DEF lookup
<1>2. PICK m \in Nat : m = Len(table)
  BY DeviceFacts
<1>3. MaxEntries \in Nat /\ size \in 0..m
  BY <1>2, PartsAssumption DEF OwnTypes
<1>4. CASE UNCHANGED table
  BY <1>1, <1>2, <1>3, <1>4 DEF Table!vars, Content, EntryAt, Hooked
<1>5. ASSUME NEW e, table' = <<e>> \o table, client[c] = "open" PROVE Table!Next
  <2>1. /\ Len(table') = m + 1
        /\ \A k \in 1..m : table'[Len(table') + 1 - k] = EntryAt(k)
    BY <1>2, <1>5, DeviceFacts, Grown
  <2>2. module = "ready" /\ size = m
    BY <1>2, <1>3, <1>5 DEF LoadInv, OwnTypes, Away
  <2>3. \A k \in 1..m : Content(k)' = Content(k)
    BY <2>1 DEF Content, EntryAt
  <2>4. PICK x \in Entry : x = Content(m + 1)'
    BY <1>2, <2>1 DEF ContentsAreEntries
  <2>5. Entries' = [Entries EXCEPT ![m + 1] = x]
    <3>1. ASSUME NEW k \in 1..MaxEntries
          PROVE  (IF k <= m + 1 THEN Content(k)' ELSE NoEntry) =
                 (IF k = m + 1 THEN x ELSE IF k <= m THEN Content(k) ELSE NoEntry)
      BY <1>2, <2>3, <2>4
    <3>2. Entries' = [k \in 1..MaxEntries |-> IF k <= m + 1 THEN Content(k)' ELSE NoEntry]
      BY <2>1 DEF Entries
    <3>3. Entries = [k \in 1..MaxEntries |-> IF k <= m THEN Content(k) ELSE NoEntry]
      BY <1>2 DEF Entries
    <3>4. QED
      BY <3>1, <3>2, <3>3
  <2>6. Table!Install(x)
    BY <1>1, <1>2, <1>3, <2>1, <2>2, <2>5 DEF Table!Install, Table!lookup, Entries, Hooked
  <2>7. QED
    BY <2>4, <2>6 DEF Table!Next
<1>6. QED
  BY <1>1, <1>4, <1>5

LEMMA TableUntouched ==
  ASSUME UNCHANGED <<table, size, lookup>>, Hooked' = Hooked
  PROVE  UNCHANGED Table!vars
  BY DEF Table!vars, lookup, Content, EntryAt

\* Loading and unloading: hooked and unhooked once, and taken down only then.
LEMMA LoadingStep ==
  ASSUME DevP!IInv, OwnTypes, LoadInv, Loading
  PROVE  Table!Next \/ UNCHANGED Table!vars
<1>1. UNCHANGED <<table, lookup>> /\ Len(table) \in Nat /\ size \in 0..Len(table)
  BY DeviceFacts
  DEF Loading, vse_init_handler, vse_init_chrdev, vse_cleanup_handler, vse_cleanup_chrdev,
      vse_clean_up_flow_table, OtherDriver, device, OwnTypes
<1>2. UNCHANGED Entries
  BY <1>1 DEF Entries, Content, EntryAt
<1>3. CASE vse_init_handler
  <2>1. Len(table) = 0
    BY <1>3, NobodyNoEntry DEF vse_init_handler, LoadInv
  <2>2. Table!Hook
    BY <1>1, <1>2, <1>3, <2>1
    DEF Table!Hook, Table!lookup, Entries, vse_init_handler, lookup, Hooked
  <2>3. QED
    BY <2>2 DEF Table!Next
<1>4. CASE vse_cleanup_handler
  <2>1. Table!Unhook
    BY <1>1, <1>2, <1>4
    DEF Table!Unhook, Table!lookup, Entries, vse_cleanup_handler, lookup, Hooked
  <2>2. QED
    BY <2>1 DEF Table!Next
<1>5. CASE vse_clean_up_flow_table /\ size > 0
  <2>1. Table!Drop
    BY <1>1, <1>2, <1>5
    DEF Table!Drop, Table!lookup, Entries, vse_clean_up_flow_table, lookup, Hooked
  <2>2. QED
    BY <2>1 DEF Table!Next
<1>6. CASE \/ vse_init_chrdev \/ vse_cleanup_chrdev \/ OtherDriver
           \/ vse_clean_up_flow_table /\ ~(size > 0)
  <2>1. UNCHANGED size /\ Hooked' = Hooked
    BY <1>6
    DEF vse_init_chrdev, vse_cleanup_chrdev, OtherDriver, vse_clean_up_flow_table, Hooked
  <2>2. QED
    BY <1>1, <2>1, TableUntouched
<1>7. QED
  BY <1>3, <1>4, <1>5, <1>6 DEF Loading

\* Every step of the system is one of the abstract table, or leaves it alone.
LEMMA TableRefined ==
  DevP!IInv /\ ContentsAreEntries' /\ SystemInv /\ [Next]_vars =>
    [Table!Next]_(Table!vars)
<1> SUFFICES ASSUME DevP!IInv, ContentsAreEntries', SystemInv, [Next]_vars
             PROVE  Table!Next \/ UNCHANGED Table!vars
  OBVIOUS
<1>1. OwnTypes /\ LoadInv
  BY DEF SystemInv
<1>2. CASE Loading
  BY <1>1, <1>2, LoadingStep
<1>3. ASSUME NEW c \in Client, Process(c) PROVE Table!Next \/ UNCHANGED Table!vars
  BY <1>1, <1>3, InstallStep
<1>4. ASSUME NEW a \in Context, NEW p \in Packet, Arrive(a, p) PROVE Table!Next
  BY <1>4 DEF Arrive, Table!Next
<1>5. ASSUME NEW a \in Context, LookUp(a) PROVE Table!Next
  BY <1>5 DEF LookUp, Table!Next
<1>6. ASSUME NEW a \in Context, NEW rec \in Recorded, Steer(a, rec) PROVE Table!Next
  BY <1>6 DEF Steer, Table!Next
<1>7. CASE \/ Settings \/ (\E a \in Context : Plant(a)) \/ UNCHANGED vars
           \/ \E a \in Context, rec \in Recorded : Bypass(a, rec)
  <2>1. UNCHANGED <<table, size, lookup>> /\ Hooked' = Hooked
    BY <1>7 DEF Settings, Plant, Bypass, vars, device, Hooked
  <2>2. QED
    BY <2>1, TableUntouched
<1>8. QED
  BY <1>2, <1>3, <1>4, <1>5, <1>6, <1>7 DEF Next, Loading

\* The whole system keeps the promise of the abstract table: every lookup answers
\* as of one instant, entries come only into a table in service and go only from one
\* that has been taken out of it.
THEOREM KeepsTablePromise == Spec => ImplementsFlowTable
<1>1. Init => Table!Init
  <2> SUFFICES ASSUME Init PROVE Table!Init
    OBVIOUS
  <2>1. table = <<>> /\ ~Hooked
    BY DEF Init, Dev!Init, Hooked
  <2>2. [k \in 1..MaxEntries |-> IF k <= Len(table) THEN Content(k) ELSE NoEntry]
          = [k \in 1..MaxEntries |-> NoEntry]
    BY <2>1
  <2>3. QED
    BY <2>1, <2>2 DEF Init, Table!Init, Table!Node
<1>2. SystemInv => EntryInv
  BY DEF SystemInv
<1>3. QED
  BY <1>1, <1>2, TableRefined, Contents, SystemInvariant, PTL
  DEF Spec, ImplementsFlowTable, Table!Spec

=============================================================================
