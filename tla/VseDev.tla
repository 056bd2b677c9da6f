------------------------------- MODULE VseDev -------------------------------
(***************************************************************************)
(* The character device /dev/vse_dev (vse_dev.c) and the processes that    *)
(* use it: each opens it, issues a sequence of ioctls and closes it.  The  *)
(* command line tool (vse_set_entry.c) is one such program, anything else  *)
(* that includes vse_dev.h is another.  The device keeps one staging area  *)
(* for the whole system, filled field by field, and a counter that is to   *)
(* keep all processes but one out.                                         *)
(*                                                                         *)
(* ioctls run one at a time, under the big kernel lock (external); open    *)
(* and release do not take it, so those of several clients overlap, and    *)
(* Device_Open is loaded and stored in separate steps.                     *)
(***************************************************************************)
EXTENDS VseMatch, SequencesExt

CONSTANTS
  Client,      \* processes that open the device once
  Program,     \* sequences of ioctls they may be written to issue
  BadAddress   \* the argument of an ioctl whose address cannot be read

NO_IRQ == 255

\* The ioctls that stage a field, with the field; SET_DL_SRC is one of those
\* that have a number and no case in the switch.
FieldOf == [SET_VM_ID    |-> "vm_id",    SET_VNI    |-> "vx_vni",
            SET_DL_INDST |-> "dl_indst", SET_DL_DST |-> "dl_dst"]
Cmd     == DOMAIN FieldOf \cup {"INIT_WILDCARDS", "SET_IRQ", "SET_ENTRY", "SET_DL_SRC"}

\* A command with its argument; n is the byte that SET_DL_INDST_n and
\* SET_DL_DST_n stage of a MAC address.
Ioctl(cmd, arg) == [cmd |-> cmd, n |-> 1, arg |-> arg]
ByteOf(cmd, mac) == [n \in 1..ETH_ALEN |-> [cmd |-> cmd, n |-> n, arg |-> mac[n]]]

MacField == {"dl_dst", "dl_indst"}

\* The byte that ends a field.
LastByte(f) == IF f \in MacField THEN ETH_ALEN ELSE 1

\* Only the bytes of a MAC address have numbers.
IsIoctl(i) ==
  /\ i.cmd \in Cmd
  /\ i.n \in 1..ETH_ALEN
  /\ i.cmd \notin {"SET_DL_INDST", "SET_DL_DST"} => i.n = 1
  /\ i.arg \in (IF i.cmd \in {"SET_DL_INDST", "SET_DL_DST"} THEN Byte ELSE Int)
               \cup {BadAddress}

ASSUME DevAssumption ==
  /\ IsFiniteSet(Client)
  /\ \A p \in Program : Len(p) \in Nat /\ \A k \in 1..Len(p) : IsIoctl(p[k])

-----------------------------------------------------------------------------
(* The command line tool.                                                  *)

\* The wrapper of each option.
ioctls(option) ==
  CASE option.flag = "--vni"      -> <<Ioctl("SET_VNI", option.val)>>
    [] option.flag = "--irq"      -> <<Ioctl("SET_IRQ", option.val)>>
    [] option.flag = "--dl_indst" -> ByteOf("SET_DL_INDST", option.val)
    [] option.flag = "--dl_dst"   -> ByteOf("SET_DL_DST", option.val)

\* Between open and close.  "vni < 0" and "irq < 0" are tests of unsigned
\* numbers and never hold.
main(options) ==
  <<Ioctl("INIT_WILDCARDS", 0)>>
    \o FlattenSeq([i \in DOMAIN options |-> ioctls(options[i])])
    \o <<Ioctl("SET_ENTRY", 0)>>

-----------------------------------------------------------------------------
VARIABLES
  Device_Open,  \* the counter of vse_dev.c
  refs,         \* module references taken by device_open
  entry_match,  \* the match being staged
  irq,          \* the irq being staged
  table,        \* the flow table, newest entry first; by and done are history:
                \* the client that added the entry and its ioctls until then
  pc,           \* pc[c]: where client c is
  reg,          \* reg[c]: Device_Open as client c last loaded it
  program,      \* program[c]: its ioctls
  done,         \* done[c]: how many of them it has issued
  raced         \* history: an open has passed the test of the counter while
                \* another one had, too, and had not yet raised it

device == <<entry_match, irq, table>>
client == <<reg, program, done>>
vars   == <<Device_Open, refs, entry_match, irq, table, pc, reg, program, done,
            raced>>

Init ==
  /\ Device_Open = 0
  /\ refs = 0
  /\ entry_match = ZeroedMatch
  /\ irq = 0
  /\ table = <<>>
  /\ pc = [c \in Client |-> "start"]
  /\ reg = [c \in Client |-> 0]
  /\ program \in [Client -> Program]
  /\ done = [c \in Client |-> 0]
  /\ raced = FALSE

-----------------------------------------------------------------------------
(* Open and release.                                                       *)

\* Past the test of the counter and not past its increment; and past that.
Entering == {c \in Client : pc[c] \in {"checked", "opening"}}
Inside   == {c \in Client : pc[c] \in {"open", "closing", "releasing"}}

GoTo(c, label) == pc' = [pc EXCEPT ![c] = label]

\* Mutant: the counter goes up before it is tested, and stays up on -EBUSY.
Mut_device_open_check(c) ==
  /\ pc[c] = "start"
  /\ IF Device_Open # 0
     THEN GoTo(c, "refused") /\ Device_Open' = Device_Open + 1
     ELSE GoTo(c, "checked") /\ UNCHANGED Device_Open
  /\ raced' = (raced \/ (Device_Open = 0 /\ Entering # {}))
  /\ UNCHANGED <<refs, device, client>>

\* if (Device_Open) return -EBUSY; the client then gives up.
device_open_check(c) ==
  /\ pc[c] = "start"
  /\ GoTo(c, IF Device_Open # 0 THEN "refused" ELSE "checked")
  /\ raced' = (raced \/ (Device_Open = 0 /\ Entering # {}))
  /\ UNCHANGED <<Device_Open, refs, device, client>>

device_open_load(c) ==
  /\ pc[c] = "checked"
  /\ reg' = [reg EXCEPT ![c] = Device_Open]
  /\ GoTo(c, "opening")
  /\ UNCHANGED <<Device_Open, refs, device, program, done, raced>>

device_open_store(c) ==
  /\ pc[c] = "opening"
  /\ Device_Open' = reg[c] + 1
  /\ refs' = refs + 1
  /\ GoTo(c, "open")
  /\ UNCHANGED <<device, client, raced>>

device_release_load(c) ==
  /\ pc[c] = "closing"
  /\ reg' = [reg EXCEPT ![c] = Device_Open]
  /\ GoTo(c, "releasing")
  /\ UNCHANGED <<Device_Open, refs, device, program, done, raced>>

\* Mutant: release forgets the counter.
Mut_device_release_store(c) ==
  /\ pc[c] = "releasing"
  /\ refs' = refs - 1
  /\ GoTo(c, "closed")
  /\ UNCHANGED <<Device_Open, device, client, raced>>

device_release_store(c) ==
  /\ pc[c] = "releasing"
  /\ Device_Open' = reg[c] - 1
  /\ refs' = refs - 1
  /\ GoTo(c, "closed")
  /\ UNCHANGED <<device, client, raced>>

-----------------------------------------------------------------------------
(* vse_device_ioctl: what each command makes of the staging area.          *)

\* Mutant: the irq keeps the width of the tool's unsigned int.
Mut_ToU8(v) == v

\* Reading an unsigned int as a __u8: the byte at the lowest address.
ToU8(v) == IF LittleEndian THEN v % 256 ELSE (v \div 16777216) % 256

\* What ioctl i reads.  vm_id and irq are read as a __u8 whatever the caller has
\* there.  Where its address cannot be read, get_user stores zero and its failure
\* is not looked at.
get_user(i) ==
  IF i.arg = BadAddress THEN 0
  ELSE IF i.cmd \in {"SET_VM_ID", "SET_IRQ"} THEN ToU8(i.arg)
  ELSE i.arg

\* A MAC address is compared from its last byte on.
StagedMatch(m, i) ==
  CASE i.cmd = "INIT_WILDCARDS" -> [exact |-> {}, val |-> Blank]
    [] i.cmd \in {"SET_VM_ID", "SET_VNI"} ->
         [exact |-> m.exact \cup {FieldOf[i.cmd]},
          val   |-> [m.val EXCEPT ![FieldOf[i.cmd]] = get_user(i)]]
    [] i.cmd \in {"SET_DL_INDST", "SET_DL_DST"} ->
         [exact |-> IF i.n = ETH_ALEN THEN m.exact \cup {FieldOf[i.cmd]} ELSE m.exact,
          val   |-> [m.val EXCEPT ![FieldOf[i.cmd]][i.n] = get_user(i)]]
    [] OTHER -> m

\* Mutant: the irq of an earlier client is left staged.
Mut_StagedIrq(v, i) == IF i.cmd = "SET_IRQ" THEN get_user(i) ELSE v

StagedIrq(v, i) ==
  CASE i.cmd = "INIT_WILDCARDS" -> NO_IRQ
    [] i.cmd = "SET_IRQ"        -> get_user(i)
    [] OTHER                    -> v

\* Mutant: entries go to the end of the list.
Mut_Added(c, t) == t \o <<[match |-> vse_set_entry_match(entry_match'), irq |-> irq',
                           by |-> c, done |-> done[c] + 1]>>

\* What vse_add_table_entry_and_irq makes of the staging area after this step.
Added(c, t) == <<[match |-> vse_set_entry_match(entry_match'), irq |-> irq',
                  by |-> c, done |-> done[c] + 1]>> \o t

\* SET_IRQ has no break before SET_ENTRY, and adds an entry as well; that the
\* allocation of one failed is not reported.
vse_device_ioctl(c, i) ==
  /\ entry_match' = StagedMatch(entry_match, i)
  /\ irq' = StagedIrq(irq, i)
  /\ \/ i.cmd \in {"SET_IRQ", "SET_ENTRY"} /\ table' = Added(c, table)
     \/ UNCHANGED table

-----------------------------------------------------------------------------
(* A client.                                                               *)

\* The next ioctl of its program; it returns SUCCESS whatever happened.
issue(c) ==
  /\ pc[c] = "open"
  /\ done[c] < Len(program[c])
  /\ vse_device_ioctl(c, program[c][done[c] + 1])
  /\ done' = [done EXCEPT ![c] = @ + 1]
  /\ UNCHANGED <<Device_Open, refs, pc, reg, program, raced>>

close(c) ==
  /\ pc[c] = "open"
  /\ done[c] = Len(program[c])
  /\ GoTo(c, "closing")
  /\ UNCHANGED <<Device_Open, refs, device, client, raced>>

\* A signal, or an option without its value, ends the process anywhere: the
\* kernel closes the file.
Killed(c) ==
  /\ pc[c] = "open"
  /\ GoTo(c, "closing")
  /\ UNCHANGED <<Device_Open, refs, device, client, raced>>

Run(c) ==
  \/ device_open_check(c) \/ device_open_load(c) \/ device_open_store(c)
  \/ issue(c) \/ close(c)
  \/ device_release_load(c) \/ device_release_store(c)

Next == \E c \in Client : Run(c) \/ Killed(c)

Spec == Init /\ [][Next]_vars

\* A process that has been started is scheduled until it exits.
FairSpec == Spec /\ \A c \in Client : WF_vars(Run(c))

-----------------------------------------------------------------------------
(* Properties.                                                             *)

TypeOK ==
  /\ Device_Open \in Int
  /\ refs \in 0..Cardinality(Client)
  /\ entry_match.exact \in Exact
  /\ DOMAIN entry_match.val = Field
  /\ irq \in Byte
  /\ \A k \in DOMAIN table : table[k].irq \in Byte /\ table[k].by \in Client
  /\ pc \in [Client -> {"start", "checked", "opening", "open", "closing", "releasing",
                        "closed", "refused"}]
  /\ reg \in [Client -> Int]
  /\ program \in [Client -> Program]
  /\ done \in [Client -> Nat] /\ \A c \in Client : done[c] <= Len(program[c])
  /\ raced \in BOOLEAN

\* The first n ioctls of program p since its last INIT_WILDCARDS, those of them
\* that stage byte b of field f, and those that stage a core.
Since(p, n) == {k \in 1..n : \A j \in k..n : p[j].cmd # "INIT_WILDCARDS"}
Staging(p, n, f, b) ==
  {k \in Since(p, n) : p[k].cmd \in DOMAIN FieldOf /\ FieldOf[p[k].cmd] = f /\ p[k].n = b}
Naming(p, n) == {k \in Since(p, n) : p[k].cmd = "SET_IRQ"}

\* The last of them wins, and an argument at a bad address stands for zero.
LastOf(p, K) == IF K = {} THEN 0 ELSE get_user(p[Max(K)])

\* What they ask an entry to say.
AskedExact(p, n) == {f \in Field : Staging(p, n, f, LastByte(f)) # {}}
AskedIrq(p, n)   == IF Naming(p, n) = {} THEN NO_IRQ ELSE LastOf(p, Naming(p, n))
Asked(p, n) ==
  [match |-> [exact |-> AskedExact(p, n),
              val   |-> [f \in Field |->
                           IF f \notin AskedExact(p, n) THEN Blank[f]
                           ELSE IF f \in MacField
                                THEN [b \in 1..ETH_ALEN |-> LastOf(p, Staging(p, n, f, b))]
                                ELSE LastOf(p, Staging(p, n, f, 1))]],
   irq   |-> AskedIrq(p, n)]

\* Until opens have raced, every entry of a program that begins with
\* INIT_WILDCARDS says what the ioctls of the one client that added it had said by
\* then: nothing staged by an earlier client, one that was killed halfway included,
\* gets into it, and an ioctl whose argument could not be read counts as one that
\* said zero.
EntryIsOwnRequest ==
  ~raced => \A k \in DOMAIN table :
    LET e == table[k]
    IN  program[e.by][1].cmd = "INIT_WILDCARDS" =>
          [match |-> e.match, irq |-> e.irq] = Asked(program[e.by], e.done)

\* The more complete of two entries of one client is found first, and nobody
\* else's entry comes between them unless opens have raced.
LaterEntryInFront ==
  \A i, j \in DOMAIN table : i < j /\ table[i].by = table[j].by =>
    /\ table[i].done > table[j].done
    /\ ~raced => \A k \in i..j : table[k].by = table[i].by

\* The module references count the clients inside, however opens and releases
\* overlap.  The counter does so too, and keeps all clients but one out, unless
\* two opens have tested it before either raised it: an open that overlaps a
\* release, or an open that has got further, does no harm.
OneClientAtATime ==
  /\ refs = Cardinality(Inside)
  /\ ~raced => Device_Open = Cardinality(Inside) /\ Cardinality(Entering \cup Inside) <= 1

\* No client is turned away unless another one has the device...
TurnsAwayOnlyIfBusy ==
  \A c \in Client : pc[c] = "start" /\ pc'[c] = "refused" => Inside # {}

\* ... until opens have raced...
RefusedOnlyIfBusy == [][~raced => TurnsAwayOnlyIfBusy]_vars

\* ... or ever, as the README's "After installing the VSE module, you can set flow
\* entries from CLI" has it.
NeverBusyAlone == [][TurnsAwayOnlyIfBusy]_vars

\* A client that gets in gets out, killed or not, and the device is free again
\* unless opens have raced.
DeviceReleased == \A c \in Client : (pc[c] = "open") ~> (Device_Open = 0 \/ raced)

\* What the tool's usage text says: the options describe one flow entry, in any
\* order.
EntriesCarryWholeRequest ==
  \A k \in DOMAIN table :
    table[k].match = Asked(program[table[k].by], Len(program[table[k].by])).match

\* What the tool's message "Invalid number of irq" says of negative numbers.
InvalidIrqRejected ==
  \A k \in DOMAIN table :
    \A i \in 1..table[k].done :
      LET given == program[table[k].by][i]
      IN  given.cmd = "SET_IRQ" => given.arg >= 0
=============================================================================
