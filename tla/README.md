# A TLA+ model of VSE

VSE (Virtual Switch Extension) is a Linux kernel module that sits in the receive
path of the `mlx4_en` driver. It looks every received VXLAN packet up in an
OpenFlow-like flow table and, where an entry matches, steers the packet's softirq
to the core the entry names, by planting that core in the tables of the kernel's
receive packet steering (RPS). A command line tool fills the flow table through a
character device.

This directory holds TLA+ modules that model the program, TLC configurations that
check them on small instances, and theorems that TLAPS proves for every instance.

## 1. Inventory

| Component | Source | State it keeps | Operations |
|---|---|---|---|
| Matching | `vse_flow_table.c`, `vse_flow_table.h`, wildcard bits of `openflow.h` | none | `vse_set_entry_match`, `vse_get_vxlan_vni`, `vse_do_match` |
| Flow table | `vse_flow_table.c` | the list `flow_table`, the entries on the heap | `vse_add_table_entry[_and_irq]`, `vse_look_up_flow_entry`, `vse_delete_entry`, `vse_clean_up_flow_table` |
| Load, unload, hook | `vse_main.c` | `vse_handler` in the driver, the registered device | `vse_init`, `vse_cleanup`, `vse_handle_data` |
| Device | `vse_dev.c`, `vse_dev.h` | `Device_Open`, the staged `entry_match` and `irq` | `device_open`, `device_release`, `vse_device_ioctl` |
| Command line tool | `vse_set_entry.c` | its options | `main` and one wrapper for each ioctl |
| Steering | `vse_rps.c` | none of its own: RPS's flow table of each receive queue and the socket flow table of the system, `skb->rxhash` | `vse_do_rps`, `vse_set_sock_flow_table`, `vse_get_rxqueue`, `vse_set_rxhash` |
| RPS settings script | `scripts/set_rps.sh` | none | writes two settings that make the kernel allocate those tables |
| Core table | `vse_core_table.c` | load of each core, two samples, a timer | `vse_init_core_table`, `vse_update_core_table`, `vse_core_selection`, `vse_clean_up_core_table`; under construction, called in comments only |

How they interact. The driver calls `vse_handle_data` in softirq on every processor
that receives packets, through the pointer `vse_handler`. It calls the lookup and
then `vse_do_rps` with the entry found. A process that has `/dev/vse_dev` open stages
a match field by field with ioctls and then has it copied into a new entry at the
head of the list. `rmmod` runs `vse_cleanup`, which withdraws the hook and the device
and frees the entries.

What is hard about it:

* **Readers without a lock.** Lookups walk the list while `list_add` changes it. There
  is no RCU: the walk is safe only because of the order in which the four link stores
  become visible. Correct: each lookup returns the newest matching entry of the list
  as it stood at one instant, and meets only complete entries.
* **Unload beside lookups.** Nothing waits for a lookup under way before the entries
  are freed. Correct: the unload itself tears the list down properly and ends, and
  freed memory is out of reach of everything else.
* **One staging area for all processes,** open to any program, guarded by a counter that
  is tested and changed in separate steps, and left behind when a process dies. Correct:
  an entry says what one client asked for, one client at a time has the device, and the
  device is given back.
* **Two shared tables written by several processors** with plain stores, masked to
  slots, while an administrator sets them up, and again, and the kernel copies from one
  into the other. Correct: a packet goes where its entry says, or at worst to a core
  that shares a slot with it.
* **Byte order and width.** The VNI is masked before it is converted; the core number
  is an `unsigned int`, then a `__u8`. Correct: an entry accepts its own network.
* **The parts together.** Between a process that installs an entry and the core a packet
  ends on lie all of the above, and the kernel steers packets that have no entry through the
  same two tables. Correct: a packet that finds an entry goes where one client, by itself,
  asked for such packets to go; no packet goes to a core nobody named; and a finished
  request governs every later packet.

## 2. Modules and how they correspond to the code

| Module | Models | EXTENDS / instantiates |
|---|---|---|
| `VseMatch` | struct vse_match, the copy into an entry, reading a VNI, the match | |
| `VseVxlan` | one entry compared with headers as they arrive | `VseMatch` |
| `FlowTable` | abstract table: what a lookup is promised | `VseMatch` |
| `VseFlowTable` | the list, the adder, the lookups, load and unload | `VseMatch`; instance of `FlowTable` |
| `VseDev` | the device and the programs that use it, the tool among them | `VseMatch` |
| `VseRps` | steering, with the kernel's look-up in the same tables | |
| `VseCoreTable` | the core table, its timer and the selection of a core | |
| `VseSystem` | processes, table, steering, load and unload together | `VseMatch`; instances of `VseDev`, `FlowTable`, `VseRps` |
| `MC...` | constants for TLC | the module of the name |
| `...Proofs` | theorems | the module of the name, `TLAPS`; `VseSystemProofs` also instances of `VseDevProofs`, `VseRpsProofs` |

**VseMatch.** A 32-bit word is the tuple of its four bytes in the order of their weight,
and the byte order of the machine is the constant `LittleEndian`. `exact` is the
complement of the `wildcards` mask; the bits no code compares are the one field
`other`. `vse_do_match` returns a *set* of outcomes, because a match on `vm_id` reads
through a pointer that was never assigned: `{"fault", "miss", ...}`.

**VseVxlan.** A packet is the length of its IP header and its words from there on, so that
the offset the code has built in can miss the VXLAN header: with one word of IP options
it reads the header's flags.

**VseFlowTable.** A pointer is the number of an entry in the order of allocation, 0 the
list head, -1 NULL. `nxt` and `prv` are the links, `mem` says what has been freed.
`vse_add_table_entry_and_irq` allocates and fills in; then `list_add(s)` makes one of
its five stores visible at a time. `Kept` is the set of pairs of stores whose program
order the machine and the compiler keep: every pair is x86-64 (the distribution the
README names) and a compiler that moves nothing, none is any order at all, and
`PublishedLast`, which the proofs about lookups assume, is the two pairs `list_add_rcu`
would guarantee: contents and own forward link before the store that publishes the entry. A
lookup is `vse_handle_data`, `ReadHead`, then `Compare` and `Advance` until it is
`NotFound` or the entry is used by `UseEntry`. Each is one memory access to the shared
list. A cursor on memory that is not a live entry becomes `"wild"`, and nothing is said
of what follows. `vse_init` and `vse_cleanup` are split at the calls where another thread
can see a difference. An allocation that fails leaves everything as it was and is a
stutter.

**FlowTable** is the promise: entries are installed at one instant, a lookup sees the
table at one instant between call and return, and answers with the newest entry that
accepts the packet; after the hook is withdrawn a lookup under way may be lost. In the
refinement mapping the table's size is `nxt[0]`, an entry exists once it is published,
and the instant a lookup sees is `first[c]`, a history variable holding what it read
from the head.

**VseDev.** A client opens the device, issues the ioctls of its program and closes it; it
may be killed anywhere, and the kernel then closes the file. `main` makes the program of
a command line: `INIT_WILDCARDS`, the ioctls of each option (six for a MAC address),
`SET_ENTRY`. Nothing ties another program to that sequence: it may start over, leave
`INIT_WILDCARDS` out, use `SET_VM_ID` or a number without a case. `get_user` reads a core
or a `vm_id` as one byte of what the caller has there, and zero at an address that
cannot be read (`BadAddress`), with the field marked all the same. An ioctl that adds an
entry may fail to allocate it and answers SUCCESS all the same. ioctls are atomic, as the
`.ioctl` operation runs under the big kernel lock; `open` and `release` are not, so their
load and store of `Device_Open` are separate actions and overlap in any way. `Entering`
are the clients past the test of the counter and not yet counted, `Inside` those who have the
device. `raced` is history: some open has passed the test while another one had done so and
had not raised the counter. `by` and `done` in an entry are history, too: the client and how
many of its ioctls had been processed.

**VseRps.** A context is a softirq. `vse_do_rps` finds the queue and the tables,
`StoreFlow` and `StoreSock` write them, `get_rps_cpu` is the kernel's look-up by
`rxhash`, which may copy the core it takes from the socket table into the queue's
(`Choices`). `SetFlowTable` gives a queue a new, empty table at any time: a context that
has found the old one (`"replaced"`) writes to that, and the store is lost. The socket
table is set up once and emptied slot by slot. `NoQueue` is a missing queue, `Elsewhere`
any core that was not taken from the tables. A packet without an entry is `PassOn`: it goes
to the same `get_rps_cpu` under a hash of the kernel's making (any of `KernelHash`, 0 where
it makes none), may be sent to a planted core, and makes the kernel copy cores as any other
does. A hash of zero counts as none, so a packet with an entry for core 0 is looked up in
the same way (`Hashed`, `rxhash`); an entry without a core (`NO_IRQ`) is planted like any
other and found offline.

**VseCoreTable.** The component is under construction and no code calls it; it is modelled as
it would run. The initialisation is one action for each allocation, which sleeps and counts
the online cores anew, and one for each core it marks (`AllocCoreTable`, `MarkCore`,
`MarkingDone`, `AllocPrev`, `AllocNow`); so the arrays may have different sizes (`slots`),
and a core that was away while the others were marked is not marked (`stayed` is history:
the cores that were not). The timer's handler is split at its loops: sampling, one core's
load at a time, the copy, setting the timer again. A selection visits one core at a time.
Every loop over the online cores takes the lowest of those online at that moment that is
above the last one it had (`NextOnline`). Processors come and go between any two steps. A
read outside the arrays, or from freed ones, finds anything (`Garbage`; in a selection the
core is chosen or not); a write there ends the behaviour with `wild` naming who made it.
Selections start only once the table is set up, and the clean-up comes only after a
successful initialisation: nothing in the code says how its caller will see to that.

**VseSystem.** Every action is one of a component, or one of `vse_main.c`, joined with
what it means for the others. The k-th entry a client adds is entry k of the abstract
table; a lookup that returns one hands its `irq` to `vse_do_rps`, one that returns none
passes the packet on to the kernel (`Steer`), and so does the driver while the hook is
not there (`Bypass`). `register_chrdev` may
find the number 60 taken by another driver, and its result is not looked at;
`unregister_chrdev` goes by the number alone. An open reaches the module while the
number is its own and its unload has not begun, and holds it until after the release
(`Fops.owner`). `size` counts the entries not yet freed, `before` is history: the entries
in the table when a packet came. `MaxEntries` bounds the allocations that succeed: an
ioctl may go on without one. `ProgramAssumption` keeps to programs that begin with
`INIT_WILDCARDS`, as `main` does, and says that `Staged` holds whatever their ioctls can
make of the staging area, in any order, as they do once opens have raced; what the leavings
of other programs lead to is asked of `VseDev` alone. A match on `vm_id` may accept or turn down (`MayAccept`, `Accepts`).

## 3. Runs

| Run | Asks | Bounds | Shows |
|---|---|---|---|
| `vxlan_le` | what does the VNI match really do? | all values of the first byte that matter, boundaries of the others, IP headers of 5 to 7 words, 8 entries | exactly four bits are lost; networks below 65536 keep their entry; one word of IP options hides the network |
| `vxlan_doc` | does an entry accept only its VNI? | same | **violated**: network 10 also accepts 65546 |
| `table` | lock-free lookups, adds, unload; refinement; what ends? | 1 lookup, 3 entries, 2 kinds of match, stores as `list_add_rcu` orders them | all hold |
| `dev` | do requests mix? who gets in, is turned away, gets out? | 2 clients, 3 programs | nothing goes wrong until two opens race; the references never |
| `dev_order` | may options come in any order? | 1 client | **violated**: `--irq` installs at once |
| `dev_race` | and after such a race? | 3 clients | **violated**: busy for ever |
| `dev_negative` | is a negative core rejected? | 1 client | **violated**: 255 is installed |
| `rps` | do concurrent softirqs disturb each other's steering? | 2 contexts, 1 queue, 5 irqs, 2 hashes of the kernel, slots 8 and 4 | bounded to shared slots; exact without sharing |
| `core_table` | timer and selection against initialisation, clean-up, hotplug | 2 cores, 1 selection, 300 ticks at a time, once | only the known causes lead out of the arrays; a byte hides a busy core; updates recur; a selection only takes a core that was away during the initialisation |
| `system` | from ioctl to core, beside load, unload and another driver; the abstract table | 2 clients, 2 programs, 1 softirq, 1 packet, 2 entries, 3 cores | all hold; the abstract table is implemented |
| `system_share` | and when two softirqs share the tables? | 1 client, 2 softirqs, 2 programs, 2 entries, 4 cores, 2 slots | all hold |
| `system_register` | is there a device once the module is loaded? | as `system` | **violated**: its number may be taken |

The bounds and why they are enough:

* One lookup in `table`: lookups write nothing that another one reads, so a second
  adds interleavings and no behaviour of the first. Three entries make a list with a
  first, a middle and a last one, so that an entry can be added or freed on either side
  of a cursor. `MaxEntries` bounds the allocations. The theorems have neither bound.
* `MCPacket` has a packet that the entry of network 10 accepts and one it turns down; a
  match on `vm_id` has the undefined outcome.
* In the device's runs a MAC address has two bytes (`ETH_ALEN`), enough for a field that
  is half set; a client that is killed between the two is among the behaviours of
  `dev`. The theorems are about any length.
* `dev` has three programs: a command line with `--irq` first and a core number
  above 255, so that a client leaves two entries that differ; one that starts over with
  half a request staged and then has an argument that cannot be read; and one that
  never sends `INIT_WILDCARDS`, whose leavings the others meet. Two clients make all the
  mixing there is: one who has left something, or is inside as well, and one who asks. And
  until opens race a third could not be past the test, which is what the properties are about.
* Three clients in `dev_race`: two whose opens overlap, one that is refused later.
* 300 ticks do not fit the byte they are stored in, and what fits of them is above the
  threshold of a selection; done once, they show in one period and not in the next. Two cores,
  either or both of them online when an array is allocated, are enough for arrays that are
  too short and for a core that is missed by the marking.
* In `rps` cores 1 and 5 share a slot of the socket table and not of the flow table,
  2 shares none, 0 makes no hash, 255 is `NO_IRQ`. The kernel's hash 9 falls into the slots of
  core 1, and 0 into none. The recorded queues are none, a good one, and one that the device
  does not have. Queues share only the socket table, and contexts on one queue share both, so
  one queue is the harder case. The contexts are symmetric.
* In `system` the parts are as small as the questions between them allow, since each has
  a run of its own: two programs of which one accepts what the other turns down, for
  different cores, short of the tool's final `SET_ENTRY`, which only adds the same entry
  again; two entries; packets of a network that only one of the programs asks for, so that
  every entry that is not its client's own request would show; and a hash of the kernel that
  finds the core asked for. The cores share no slot, so that every wrong core shows. The
  clients are symmetric: any of the programs is open to each.
* `system_share` takes the cores that collide: the process moves one network from core 1 to
  3, which share their slot, or from 2 to 1, which do not, while two softirqs steer its
  packets and the kernel hashes others to them.

Deadlock is checked in `vxlan_*`, `rps` and `system*`. The others stop by right: the
clients end, the module is unloaded once, and the core table is freed once.

**Fairness.** `VseFlowTable!FairSpec` assumes weak fairness of the steps of a lookup and
of the unload: a softirq is not preempted by a process for good and a running `rmmod`
is scheduled. Nothing is assumed of the adder or of the arrival of packets. Under it
`LookupEnds` says that adds never keep a cursor from the end; three of them are tried.
`VseCoreTable!FairSpec` assumes that an armed timer expires and that its handler runs to
its end. `VseDev!FairSpec` assumes of each client that once started it is
scheduled (`Run(c)`); no client has to be killed, or not to be.

Each property comes with a mutant (`Mut_...`), a small change of the modelled code
under which TLC finds the property violated.

## 4. Findings

1. `vse_flow_table.c:46` — `htonl(*vni & 0xfffffff0) >> 8` masks before it converts. On
   the x86-64 systems the module is built for, the mask clears the low four bits of
   the *first VNI byte*. An entry for network 10 accepts 65546 as well, and an entry
   that names one of the lost bits accepts nothing (`vxlan_doc`; the exact extent is
   `MatchLosesFourBits`, proved).
2. `vse_dev.c:219-221` — no `break` after `SET_IRQ`, so `--irq` installs what has been
   staged until then. With `--irq 3 --vni 10` an entry that accepts every packet stays
   in the table behind the one that was meant (`dev_order`).
3. `vse_dev.c:136-139` — `Device_Open` is tested and counted without a lock. After two
   overlapping opens it ends at -1 and the device is busy with nobody holding it
   (`dev_race`). No other overlap does harm (`OneClientAtATime`, proved).
4. `vse_set_entry.c:127` — `irq < 0` on an `unsigned int` never holds, and `--irq -1`
   installs core 255, which is `NO_IRQ` (`dev_negative`).
5. `vse_main.c:75` — with its number taken by another driver the module is loaded, without a
   device, and its unload then takes the number from the other driver (`system_register`).

Other defects are part of the model and have no run of their own:

* `vse_dev.c:223` — whether the entry was added is not looked at, and the ioctl answers
  SUCCESS when the allocation has failed: `vse_device_ioctl` adds an entry or does not.
* `vse_rps.c:39` — a core's number serves as the packet's hash, and the kernel takes a hash
  of zero for none: a packet with an entry for core 0 is steered by another hash, or not
  at all. `CoreSharesSlot` and `SteeredAsAsked` leave core 0 out, `OnlyNamedCores` does not.
* `vse_core_table.c:127` — the third allocation's failure is looked for in the second's
  pointer: the initialisation succeeds, and the timer writes through NULL. And the arrays
  are sized by the number of online cores, counted three times, and indexed by the numbers of
  all possible ones. These are the causes that `ArraysRespected` names. A core that is away
  while the table is set up is not marked, which is why `SelectionPassesOverMarked` speaks of
  those that were not. No code calls this component yet.

## 5. Proofs

TLAPS checks every theorem to its last leaf, for all values of the constants that meet
the modules' assumptions. Each safety argument is an inductive invariant `IInv`: true
at first, kept by every action, and implying the property.

**`VseMatchProofs`** computes what the expression of line 46 does to the four bytes, once
for each byte order, and derives the verdicts of `VseVxlan`. `OptionHides` needs the
little-endian case only: the mask clears the one bit set in the VXLAN flags.

**`VseFlowTableProofs`** proves `TypeOK`, `ListIntact` and `FreedUnreachable` for any order
of the stores, and `NewestEntryWins`, `WalkSafeUntilUnload` and the refinement of the
abstract table under `PublishedLast`. Without that assumption those three are false,
because an entry can be published before its contents or its forward link. So the two
pairs `list_add_rcu` guarantees are what the walk needs, and the list itself needs
neither: `list_add` is over before the next add or the unload looks at the list.
None of the properties is inductive by itself. `ListInv`, which any order keeps, is
`TypeOK` and the first four of these parts; `IInv` adds the other two:

* `ChainInv`: the entries 1..nxt[0] form a complete list, each leading to the one before,
  but for the links of the front one that its add still owes;
* `AddInv`: the stores an add still owes, and that the links already stored are what
  they must be, whichever came first;
* `LoadInv`: until the unload everything published is linked;
* `UnloadInv`: afterwards what is off the list is freed or is the victim;
* `OrderInv`: contents and forward link are there before the entry is published;
* `ReaderInv`: a cursor stands on or below the entry it first read, and has passed
  only entries that turned its packet down. Since new entries are put in front, no
  add can change what lies below a cursor: that is the whole reason why the walk
  needs no lock, and why the instant it sees is that of reading the head.

**`VseDevProofs`** holds for any programs and any number of clients, whose opens and releases
overlap in any way. Its invariant is in two halves. What no race can break: the references
are the clients inside, an entry stems from an ioctl its client has issued, and a client's
entries are in the order in which it asked for them (`TableInv`). And until two opens have
raced: `CounterInv` lets one client at most past the test and says what the counter is then,
so that an open may overlap a release, or another one's test, without harm; so the staging
area belongs to that client, and `StagingInv` ties it to its program: after n ioctls it says
what the first n ask for (`Says`). That is a lemma on `Asked`, one ioctl at a time, and
carries over to the entry an ioctl adds, for every program that begins with
`INIT_WILDCARDS`, whatever the clients before it left. `FrontInv` keeps the entries of the
client inside in front.

**`VseRpsProofs`** has two parts. `SlotInv`: the socket table holds in a slot nothing or a
core whose number falls into it, and a queue's own table only cores that share one slot
or the other with those who look there; the kernel's copying is why the second is no
stronger. `ContextInv`: what a context planted in the socket table stays filled,
possibly by another; what becomes of the queue's table, which may be replaced, does not
matter. So the kernel finds in a packet's slots only cores that share them, and only
cores that some packet was to go to. Packets without an entry look into slots of
their own and copy from the socket table into the queue's, so the invariant covers every
hash (`Hash`), not only the cores. `WithinKept` says that what all slots and contexts hold
stays within any set that holds the cores handed to `vse_do_rps`. Beside the types of the constants it assumes that
one table's slots refine the other's (`SizesAssumption`), as the kernel makes both sizes
powers of two. `WideTablesSteer` adds
that with at least 256 slots in both tables steering is exact (`set_rps.sh` asks for
4096 and 32767).

**`VseCoreTableProofs`** needs no assumption beyond the types. `LifeInv`: the timer runs
only once the table is set up and not after it was stopped, so what its handler cannot
reach was never there, and no loop is under way when another one begins. `MarkInv`: of the cores that
have been online since `core_table` was counted, those the loop has passed are marked, and
they have a slot. `ClockInv` and `PeriodInv`: for a core that was online for two samples the
earlier one is replaced in every period, whatever cores come and go while the loops run, so
their difference is that period's ticks, and the load is that modulo 256.

**`VseSystemProofs`** joins the parts without proving them again. An instance of
`VseDevProofs` and one of `VseRpsProofs` carry their lemmas over, and each action of the
system is shown to be a step of a part or to leave its variables alone (`DeviceStep`,
`SteeringStep`). So the system implements `Rps!Spec`, and the invariants of
both hold in it. The second needs an invariant already: what `vse_do_rps` is handed is
the core of an entry in the table, hence one that some program asked for. What ties
the parts together is `SystemInv`:

* `OwnTypes`: the variables of no part, and that only a table being freed is short;
* `LoadInv`: nobody is inside the device unless the module is ready;
* `EntryInv`: the staging area is one of `Staged`, so every entry has a content and a core
  that the constants provide for, even when clients race; and it comes from an ioctl that
  adds one. With `EntryIsOwnRequest` it is what that client had asked for;
* `FinishedRequestGoverns`, and `LookupInv` for each softirq: while the hook is there a
  lookup sees at least what was there when its packet came, and the softirq steers the
  packet looked up last by the entry it was answered with.

`SteeredByOwnRequest` chains `LookupInv`, `EntryInv`, the device's invariant and the slots
of `VseRps`. `OnlyNamedCores` takes the cores of the table's entries for the set of
`WithinKept`: the table only grows, so what was planted stays named. For `ImplementsFlowTable` an add is the only step that changes the abstract
table, and `LoadInv` rules one out once the hook is withdrawn. The assumptions are those of the
parts (`PartsAssumption`) and `ProgramAssumption`. TLC has found no state of `system` that
violates `SystemInv`.

Only model-checked is liveness (`LookupEnds`, `UnloadFreesAll`, `DeviceReleased`,
`UpdatesRecur`), which the proof system does not cover. Every other property of
a passing run is a theorem. Only proved is what holds for any order of an add's stores
(`ListInv`; the run keeps the two pairs), and that a big-endian machine compares VNIs exactly. The inductive invariants of `VseDevProofs`,
`VseCoreTableProofs` and `VseSystemProofs` are stated where they are proved and are in no
run.

## 6. What is not modelled

* What happens after a cursor goes wild, at unload or at a `vm_id` match: the model
  stops that lookup. That lookups can get there at unload is a limitation of the code,
  stated by `WalkSafeUntilUnload` rather than excluded. For the same reason the programs
  of the run `system` have no `SET_VM_ID`; the theorems do not exclude it.
* External code is modelled from how it is used, as the kernel the module is written for
  (2.6.32, RHEL 6) has it: `list_add`, `list_del`, `htonl`, `get_user`, `get_rps_cpu`, the
  VFS's open and release with the reference it takes for `Fops.owner`, the big kernel
  lock, `unregister_chrdev`, and that the module's own memory is freed after every
  processor has passed.
* The text of the command line, messages, and the log; so also a MAC address that
  `sscanf` reads in part (`vse_set_entry.c:137`).
* What the kernel makes a packet's own hash of: it is any of `KernelHash`.
* Threads or children that share one open file: a client is one process with one file.
* Traffic of the host's own sockets, which the kernel records in the same socket table.
* A module that is loaded again after it was unloaded: it starts from zeroed storage
  and the same `Init`.
* What a write outside the core table's arrays destroys.
* `vse_check_rps_table`, which is never called and changes nothing.
* The rest of `openflow.h`, a wire protocol nothing in the module refers to.

Some hazards are modelled, and the properties have to allow what they lead to, because the code
does nothing against it: a cursor on freed memory at unload (`vse_main.c:87`), the match on
`vm_id` (`vse_flow_table.c:174`), an allocation that fails (`vse_dev.c:223`), arguments that cannot be read (`vse_dev.c:123`), programs
without `INIT_WILDCARDS` (`vse_dev.c:156`), a load that exceeds its byte
(`vse_core_table.c:52`), arrays that are too short (`vse_core_table.c:35`), and what two
racing opens make of the staging area. No property claims them.

## 7. Plan

Done: every component of the inventory has its module, and every module its proofs; the
list is proved for every order of its stores.

Next, in this order:

1. Traffic of the host's sockets in `VseRps`: with it a packet may go to a core no entry
   names, and what `SteeredAsAsked` needs to stay true is the question.
2. The lookups of `VseFlowTable` below the system: `VseSystem` uses the abstract table, and
   a composition of the two refinements would state its theorems of the list itself.
3. The tool's reading of a MAC address, as the bytes an option leaves untouched.
