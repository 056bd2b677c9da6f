------------------------------ MODULE VseSystem ------------------------------
(***************************************************************************)
(* The parts put together: processes that install entries through the      *)
(* device (VseDev), softirqs that look packets up in the table (FlowTable, *)
(* which the list of VseFlowTable implements) and are steered by what they *)
(* find (VseRps), and the module's load and unload (vse_main.c) beside     *)
(* other drivers that may hold the device's major number.                  *)
(*                                                                         *)
(* The table is that of the device: what the k-th add put into it is       *)
(* the abstract table's entry k.                                           *)
(***************************************************************************)
EXTENDS VseMatch, SequencesExt

CONSTANTS
  Client, Program, BadAddress,                                \* of VseDev
  Packet, Entry, NoEntry, MaxEntries,   \* of FlowTable; bound: allocations that succeed
  Context, Irq, KernelHash, Recorded,   \* of VseRps
  NumQueues, FlowSize, SockSize, Online,
  Staged      \* what the staging area may hold

VARIABLES
  module,   \* how far the module is loaded or unloaded
  major,    \* who has the major number 60 of character devices
  Device_Open, refs, entry_match, staged_irq, table, client, reg, program, done,
  raced,
  size,     \* entries still in the table
  phase, pkt, instant, steered,
  before,   \* before[a]: history, the entries in the table when a's packet came
  flowOn, sockOn, flow, sock, softirq, rxq, hash, planted, core

Hooked == module \in {"hooked", "ready"}

\* Entries in the order in which they were added, without the history.
EntryAt(k) == table[Len(table) + 1 - k]
Content(k) == [match |-> EntryAt(k).match, irq |-> EntryAt(k).irq]

Dev   == INSTANCE VseDev WITH irq <- staged_irq, pc <- client
Table == INSTANCE FlowTable WITH
           Cpu <- Context, hooked <- Hooked, installed <- Len(table),
           entries <- [k \in 1..MaxEntries |-> IF k <= Len(table) THEN Content(k)
                                                                  ELSE NoEntry]
Rps   == INSTANCE VseRps WITH pc <- softirq, irq <- hash

ASSUME PartsAssumption ==
  Dev!DevAssumption /\ Rps!RpsAssumption /\ Rps!SizesAssumption /\ MaxEntries \in Nat

\* What an ioctl makes of the staging area, and of that an entry.
Restaged(s, i) == [match |-> Dev!StagedMatch(s.match, i), irq |-> Dev!StagedIrq(s.irq, i)]
EntryOf(s)     == [match |-> vse_set_entry_match(s.match), irq |-> s.irq]

\* Programs begin as the tool does; what becomes of the others' entries is
\* VseDev's subject.  Their ioctls can follow each other in any order.
ASSUME ProgramAssumption ==
  /\ \A p \in Program : Len(p) > 0 => p[1].cmd = "INIT_WILDCARDS"
  /\ [match |-> ZeroedMatch, irq |-> 0] \in Staged
  /\ \A s \in Staged, p \in Program : \A n \in 1..Len(p) :
       LET t == Restaged(s, p[n])
       IN  /\ t \in Staged
           /\ p[n].cmd \in {"SET_IRQ", "SET_ENTRY"} => EntryOf(t) \in Entry /\ t.irq \in Irq

device   == <<Device_Open, refs, entry_match, staged_irq, table, client, reg, program, done,
              raced>>
lookup   == <<phase, pkt, instant, steered, before>>
steering == <<flowOn, sockOn, flow, sock, softirq, rxq, hash, planted, core>>
vars     == <<module, major, device, size, lookup, steering>>

Init ==
  /\ module = "absent"
  /\ major \in {"free", "other"}
  /\ Dev!Init
  /\ size = 0
  /\ phase = [a \in Context |-> "idle"]
  /\ pkt \in [Context -> Packet]
  /\ instant = [a \in Context |-> 0]
  /\ steered = [a \in Context |-> 0]
  /\ before = [a \in Context |-> 0]
  /\ Rps!Init

-----------------------------------------------------------------------------
(* vse_init and vse_cleanup.                                               *)

vse_init_handler ==
  /\ module = "absent"
  /\ module' = "hooked"
  /\ UNCHANGED <<major, device, size, lookup, steering>>

\* What register_chrdev returns is not looked at.
vse_init_chrdev ==
  /\ module = "hooked"
  /\ module' = "ready"
  /\ major' = IF major = "free" THEN "vse" ELSE major
  /\ UNCHANGED <<device, size, lookup, steering>>

\* Mutant: Fops has no owner, and device_open alone counts its callers.
Mut_Unused == refs = 0

\* Fops.owner: the VFS holds the module from before device_open until after
\* device_release.
Unused == refs = 0 /\ \A c \in Client : client[c] \in {"start", "closed", "refused"}

vse_cleanup_handler ==
  /\ module = "ready"
  /\ Unused
  /\ module' = "unhooked"
  /\ UNCHANGED <<major, device, size, lookup, steering>>

\* unregister_chrdev goes by the number alone: whoever has it loses it.
vse_cleanup_chrdev ==
  /\ module = "unhooked"
  /\ module' = "freeing"
  /\ major' = "free"
  /\ UNCHANGED <<device, size, lookup, steering>>

\* Mutant: an empty list is taken to have one more entry.
Mut_vse_clean_up_flow_table ==
  /\ module = "freeing"
  /\ size' = size - 1
  /\ module' = IF size' <= 0 THEN "gone" ELSE module
  /\ UNCHANGED <<major, device, lookup, steering>>

vse_clean_up_flow_table ==
  /\ module = "freeing"
  /\ IF size > 0 THEN size' = size - 1 /\ UNCHANGED module
                 ELSE module' = "gone" /\ UNCHANGED size
  /\ UNCHANGED <<major, device, lookup, steering>>

\* Another driver takes a free number 60, or gives its own back.
OtherDriver ==
  /\ \/ major = "free" /\ major' = "other"
     \/ major = "other" /\ major' = "free"
  /\ UNCHANGED <<module, device, size, lookup, steering>>

-----------------------------------------------------------------------------
(* Processes.                                                              *)

\* An open reaches the module if the number is its own; and, again by
\* Fops.owner, not any more once it is being unloaded.
Openable == major = "vse" /\ module = "ready"

Process(c) ==
  /\ client[c] = "start" => Openable
  /\ Dev!Run(c) \/ Dev!Killed(c)
  /\ Len(table') <= MaxEntries
  /\ size' = size + Len(table') - Len(table)
  /\ UNCHANGED <<module, major, lookup, steering>>

-----------------------------------------------------------------------------
(* vse_handle_data: a packet is looked up and steered by the entry found.  *)

Arrive(a, p) ==
  /\ softirq[a] = "idle"
  /\ UNCHANGED <<module, major, device, size, steering>>
  /\ Table!Call(a, p)
  /\ before' = [before EXCEPT ![a] = Len(table)]

LookUp(a) ==
  /\ UNCHANGED <<module, major, device, size, before, steering>>
  /\ Table!See(a) \/ Table!Lose(a)

\* Mutant: a packet without an entry is steered by the newest one.
Mut_Steer(a, rec) ==
  /\ UNCHANGED <<module, major, device, size, before>>
  /\ Table!Return(a)
  /\ IF Len(table) = 0 THEN Rps!PassOn(a, rec)
                       ELSE Rps!vse_do_rps(a, EntryAt(Len(table)).irq, rec)

\* if (entry == NULL) goto done; vse_do_rps(skb, dev, entry).  Either way the kernel
\* looks the packet's hash up.
Steer(a, rec) ==
  /\ UNCHANGED <<module, major, device, size, before>>
  /\ Table!Return(a)
  /\ IF steered'[a] = 0 THEN Rps!PassOn(a, rec)
                        ELSE Rps!vse_do_rps(a, EntryAt(steered'[a]).irq, rec)

\* While vse_handler is NULL the driver hands packets to the kernel alone.
Bypass(a, rec) ==
  /\ ~Hooked
  /\ phase[a] = "idle"
  /\ Rps!PassOn(a, rec)
  /\ UNCHANGED <<module, major, device, size, lookup>>

\* The rest of vse_do_rps and the kernel's look-up.
Plant(a) ==
  /\ UNCHANGED <<module, major, device, size, lookup>>
  /\ Rps!StoreFlow(a) \/ Rps!StoreSock(a) \/ Rps!get_rps_cpu(a) \/ Rps!Queued(a)

\* set_rps.sh.
Settings ==
  /\ UNCHANGED <<module, major, device, size, lookup>>
  /\ \/ \E r \in Rps!Queue : Rps!SetFlowTable(r)
     \/ Rps!SetSockTable
     \/ \E k \in 0..(SockSize - 1) : Rps!ResetSockSlot(k)

Next ==
  \/ vse_init_handler \/ vse_init_chrdev
  \/ vse_cleanup_handler \/ vse_cleanup_chrdev \/ vse_clean_up_flow_table
  \/ OtherDriver
  \/ \E c \in Client : Process(c)
  \/ \E a \in Context, p \in Packet : Arrive(a, p)
  \/ \E a \in Context, rec \in Recorded : Steer(a, rec) \/ Bypass(a, rec)
  \/ \E a \in Context : LookUp(a) \/ Plant(a)
  \/ Settings

Spec == Init /\ [][Next]_vars

-----------------------------------------------------------------------------
(* Properties.                                                             *)

\* Every part keeps its type, and the table holds what was added and not freed.
TypeOK ==
  /\ module \in {"absent", "hooked", "ready", "unhooked", "freeing", "gone"}
  /\ major \in {"free", "vse", "other"}
  /\ Dev!TypeOK
  /\ Rps!TypeOK
  /\ size \in 0..Len(table)
  /\ size < Len(table) => module \in {"freeing", "gone"}
  /\ phase \in [Context -> {"idle", "called", "seen", "lost"}]
  /\ pkt \in [Context -> Packet]
  /\ instant \in [Context -> 0..Len(table)]
  /\ steered \in [Context -> 0..Len(table)]
  /\ before \in [Context -> 0..Len(table)]

Accepts(match, p)   == vse_do_match(match, p) = {"hit"}
MayAccept(match, p) == "hit" \in vse_do_match(match, p)

\* From the command line to the core, until opens have raced: a packet that found an
\* entry for a core other than 0 is sent where the client that added it, by itself,
\* had asked packets like it to be sent (or may have, where vm_id is compared), or to
\* a core that shares a slot with that one; and exactly there if the tables were set
\* up and no other core in use shares a slot with it.  Neither other packets, with
\* entries or without, nor the settings of the tables can change that.
SteeredByOwnRequest ==
  ~raced => \A a \in Context :
    softirq[a] = "done" /\ Rps!Hashed(a) /\ core[a] # Rps!Elsewhere =>
      /\ steered[a] > 0
      /\ LET e == EntryAt(steered[a])
             asked == Dev!Asked(program[e.by], e.done)
         IN  /\ program[e.by][e.done].cmd \in {"SET_IRQ", "SET_ENTRY"}
             /\ MayAccept(asked.match, pkt[a])
             /\ Rps!Shares(core[a], asked.irq)
             /\ planted[a] /\ Rps!Unshared(asked.irq) => core[a] = asked.irq

\* Packets that have no entry, or one for core 0, go where the kernel finds their own
\* hash in the tables, and that can be a core planted for others; but nothing ever
\* goes to a core that no entry has named, opens that raced, loading and unloading
\* included.  The cores of freed entries stay in the tables.
OnlyNamedCores ==
  \A a \in Context : core[a] # Rps!Elsewhere =>
    \E k \in 1..Len(table) : EntryAt(k).irq = core[a]

\* A request that was complete when a packet came decides about it, unless a
\* later one accepts it too: the newest entry of that time that accepts the
\* packet is found, or one that was added since.
FinishedRequestGoverns ==
  \A a \in Context : Hooked /\ phase[a] = "idle" =>
    \A k \in 1..before[a] : Accepts(EntryAt(k).match, pkt[a]) => steered[a] >= k

\* "After installing the VSE module, you can set flow entries from CLI" (README):
\* whoever wants to add an entry then finds the module's device.
InstalledModuleHasDevice == module = "ready" => major = "vse"

\* With its clients and its unload the system keeps the promise of the abstract
\* table; above all, nobody adds an entry to a table that is taken down.
ImplementsFlowTable == Table!Spec
=============================================================================
