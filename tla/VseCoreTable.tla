---------------------------- MODULE VseCoreTable ----------------------------
(***************************************************************************)
(* The core table (vse_core_table.c), which is under construction: its     *)
(* calls in vse_main.c and vse_rps.c are comments.  A timer samples every  *)
(* second how busy each core was, and a selection, in softirq, picks a     *)
(* core with a low load.  Each of the three arrays has one slot for each   *)
(* core that is online when it is allocated; cores come and go while the   *)
(* table is set up, the timer and the selections run, and the clean-up     *)
(* stops the timer and frees the arrays.                                   *)
(*                                                                         *)
(* Every loop over the online cores looks at the cores that are online     *)
(* when it takes its next one.  user, nice and system of a core are added  *)
(* up into one count of clock ticks.  A read outside the arrays, or from   *)
(* one that was freed, finds anything; a write there ends the behaviour:   *)
(* "wild" says who made it.                                                *)
(***************************************************************************)
EXTENDS Integers, FiniteSets

CONSTANTS
  Possible,   \* numbers of the possible cores
  Context,    \* softirqs that select a core
  Garbage,    \* loads that a read outside the arrays leads to
  Burst,      \* ticks of work that a core may do at once
  MaxBusy     \* bound: ticks of work that a core does

NOT_VM == 255
THRESHOLD == 40

ASSUME CoreAssumption ==
  /\ Possible \subseteq Nat
  /\ IsFiniteSet(Possible)
  /\ Garbage \subseteq 0..255
  /\ Burst \subseteq Nat \ {0}
  /\ MaxBusy \in Nat

VARIABLES
  status,   \* how far the table is set up, or cleaned up
  wild,     \* who wrote outside the arrays: "none", "init" or "update"
  online,   \* cores that are online
  slots,    \* slots[x]: slots of array x, 0 where it is not there
  clock,    \* clock[i]: ticks core i has been busy, by the kernel's count
  now,      \* now[i], prev[i]: the two samples of clock[i]
  prev,
  load,     \* core_table[i].load
  vm_id,    \* core_table[i].vm_id
  timer,    \* "off", "armed", or where the running handler is
  cpu,      \* the last core visited by the initialisation's loop or the
            \* handler's, -1 for none
  pc,       \* pc[c]: "idle" or "scan", for a selection
  visited,  \* visited[c]: the last core its loop has visited, -1 for none
  own,      \* own[c]: the processor it runs on
  irq,      \* irq[c]: the core the last selection returned, -1 for none
  span,     \* span[i]: history, ticks between the last two samples
  since,    \* since[i]: history, samples core i has been online for, up to 2
  stayed    \* history: cores online from the allocation of core_table until
            \* all its slots were marked

arrays  == <<slots, now, prev, load, vm_id>>
cores   == <<online, clock>>
select  == <<pc, visited, own, irq>>
history == <<span, since, stayed>>
vars    == <<status, wild, online, slots, clock, now, prev, load, vm_id, timer, cpu,
             pc, visited, own, irq, span, since, stayed>>

Array   == {"core_table", "prev", "now"}
Slot(x) == 0..(slots[x] - 1)

Running == wild = "none"

\* for_each_online_cpu: the next core after i, lowest number first; and none left.
NextOnline(i, j) == j \in online /\ i < j /\ \A k \in online : i < k => j <= k
NoneOnline(i)    == \A k \in online : k <= i

Init ==
  /\ status = "unset"
  /\ wild = "none"
  /\ online \in (SUBSET Possible) \ {{}}
  /\ slots = [x \in Array |-> 0]
  /\ clock = [i \in Possible |-> 0]
  /\ now = [i \in Possible |-> 0]
  /\ prev = [i \in Possible |-> 0]
  /\ load = [i \in Possible |-> 0]
  /\ vm_id = [i \in Possible |-> 0]
  /\ timer = "off"
  /\ cpu = -1
  /\ pc = [c \in Context |-> "idle"]
  /\ visited = [c \in Context |-> -1]
  /\ own = [c \in Context |-> 0]
  /\ irq = [c \in Context |-> -1]
  /\ span = [i \in Possible |-> 0]
  /\ since = [i \in Possible |-> 0]
  /\ stayed = {}

-----------------------------------------------------------------------------
(* The machine: cores work, come and go.                                   *)

Work(i, d) ==
  /\ Running
  /\ i \in online
  /\ clock[i] + d <= MaxBusy
  /\ clock' = [clock EXCEPT ![i] = @ + d]
  /\ UNCHANGED <<status, wild, online, arrays, timer, cpu, select, history>>

\* The kernel goes on counting a core's ticks where it stopped.
CpuUp(i) ==
  /\ Running
  /\ i \notin online
  /\ online' = online \cup {i}
  /\ UNCHANGED <<status, wild, arrays, clock, timer, cpu, select, history>>

CpuDown(i) ==
  /\ Running
  /\ i \in online
  /\ online # {i}
  /\ \A c \in Context : pc[c] = "scan" => own[c] # i
  /\ online' = online \ {i}
  /\ since' = [since EXCEPT ![i] = 0]
  /\ stayed' = IF status = "marking" THEN stayed \ {i} ELSE stayed
  /\ UNCHANGED <<status, wild, arrays, clock, timer, cpu, select, span>>

-----------------------------------------------------------------------------
(* vse_init_core_table.  Its allocations sleep, and each of them counts the *)
(* online cores anew.                                                      *)

Allocate(x) == slots' = [slots EXCEPT ![x] = Cardinality(online)]

\* An allocation fails: what was allocated before is freed.
GiveUp == status' = "failed" /\ slots' = [x \in Array |-> 0]

AllocCoreTable ==
  /\ Running
  /\ status = "unset"
  /\ \/ Allocate("core_table") /\ status' = "marking" /\ stayed' = online
     \/ GiveUp /\ UNCHANGED stayed
  /\ UNCHANGED <<wild, cores, now, prev, load, vm_id, timer, cpu, select, span, since>>

\* Mutant: the first core is passed over.
Mut_MarkCore(i) ==
  /\ Running
  /\ status = "marking"
  /\ NextOnline(cpu, i)
  /\ cpu' = i
  /\ IF i \in Slot("core_table")
     THEN vm_id' = [vm_id EXCEPT ![i] = IF cpu < 0 THEN 0 ELSE NOT_VM] /\ UNCHANGED wild
     ELSE wild' = "init" /\ UNCHANGED vm_id
  /\ UNCHANGED <<status, cores, slots, now, prev, load, timer, select, history>>

MarkCore(i) ==
  /\ Running
  /\ status = "marking"
  /\ NextOnline(cpu, i)
  /\ cpu' = i
  /\ IF i \in Slot("core_table")
     THEN vm_id' = [vm_id EXCEPT ![i] = NOT_VM] /\ UNCHANGED wild
     ELSE wild' = "init" /\ UNCHANGED vm_id
  /\ UNCHANGED <<status, cores, slots, now, prev, load, timer, select, history>>

MarkingDone ==
  /\ Running
  /\ status = "marking"
  /\ NoneOnline(cpu)
  /\ status' = "marked"
  /\ cpu' = -1
  /\ UNCHANGED <<wild, cores, arrays, timer, select, history>>

AllocPrev ==
  /\ Running
  /\ status = "marked"
  /\ (Allocate("prev") /\ status' = "halfway") \/ GiveUp
  /\ UNCHANGED <<wild, cores, now, prev, load, vm_id, timer, cpu, select, history>>

\* The third test looks at prev again, so it never fails: the timer is set up
\* even without "now".
AllocNow ==
  /\ Running
  /\ status = "halfway"
  /\ Allocate("now") \/ UNCHANGED slots
  /\ status' = "ready"
  /\ timer' = "armed"
  /\ since' = [i \in Possible |-> IF i \in online THEN 1 ELSE 0]
  /\ UNCHANGED <<wild, cores, now, prev, load, vm_id, cpu, select, span, stayed>>

vse_init_core_table ==
  AllocCoreTable \/ (\E i \in Possible : MarkCore(i)) \/ MarkingDone \/ AllocPrev \/ AllocNow

-----------------------------------------------------------------------------
(* vse_update_core_table, run by the timer.                                *)

Expire ==
  /\ Running
  /\ timer = "armed"
  /\ timer' = "sample"
  /\ UNCHANGED <<status, wild, cores, arrays, cpu, select, history>>

\* vse_get_cpu_status(now): every possible core is sampled, online or not.
vse_get_cpu_status ==
  /\ Running
  /\ timer = "sample"
  /\ IF Possible \subseteq Slot("now")
     THEN /\ now' = clock
          /\ span' = [i \in Possible |-> clock[i] - now[i]]
          /\ since' = [i \in Possible |->
                         IF i \in online /\ since[i] < 2 THEN since[i] + 1 ELSE since[i]]
          /\ timer' = "load"
          /\ UNCHANGED wild
     ELSE wild' = "update" /\ UNCHANGED <<now, timer, span, since>>
  /\ UNCHANGED <<status, cores, slots, prev, load, vm_id, cpu, select, stayed>>

\* Mutant: the load is as wide as the counts.
Mut_ToU8(v) == v

\* load is a __u8.
ToU8(v) == v % 256

\* The load computed for core i: any, where prev has no slot for it.
Computed(i) == IF i \in Slot("prev") THEN {ToU8(now[i] - prev[i])} ELSE Garbage

vse_get_core_table_load(i) ==
  /\ Running
  /\ timer = "load"
  /\ NextOnline(cpu, i)
  /\ cpu' = i
  /\ IF i \in Slot("core_table")
     THEN (\E v \in Computed(i) : load' = [load EXCEPT ![i] = v]) /\ UNCHANGED wild
     ELSE wild' = "update" /\ UNCHANGED load
  /\ UNCHANGED <<status, cores, slots, now, prev, vm_id, timer, select, history>>

LoadDone ==
  /\ Running
  /\ timer = "load"
  /\ NoneOnline(cpu)
  /\ timer' = "copy"
  /\ cpu' = -1
  /\ UNCHANGED <<status, wild, cores, arrays, select, history>>

\* Mutant: the earlier sample is not replaced.
Mut_vse_copy_prev_status(i) ==
  /\ Running
  /\ timer = "copy"
  /\ NextOnline(cpu, i)
  /\ cpu' = i
  /\ UNCHANGED <<status, wild, cores, arrays, timer, select, history>>

vse_copy_prev_status(i) ==
  /\ Running
  /\ timer = "copy"
  /\ NextOnline(cpu, i)
  /\ cpu' = i
  /\ IF i \in Slot("prev")
     THEN prev' = [prev EXCEPT ![i] = now[i]] /\ UNCHANGED wild
     ELSE wild' = "update" /\ UNCHANGED prev
  /\ UNCHANGED <<status, cores, slots, now, load, vm_id, timer, select, history>>

\* Mutant: the timer is not set again.
Mut_vse_set_core_table_timer ==
  /\ Running
  /\ timer = "copy"
  /\ NoneOnline(cpu)
  /\ timer' = "off"
  /\ cpu' = -1
  /\ UNCHANGED <<status, wild, cores, arrays, select, history>>

\* The copying is over and the handler, last of all, sets its timer again.
vse_set_core_table_timer ==
  /\ Running
  /\ timer = "copy"
  /\ NoneOnline(cpu)
  /\ timer' = "armed"
  /\ cpu' = -1
  /\ UNCHANGED <<status, wild, cores, arrays, select, history>>

vse_update_core_table ==
  \/ vse_get_cpu_status
  \/ \E i \in Possible : vse_get_core_table_load(i) \/ vse_copy_prev_status(i)
  \/ LoadDone \/ vse_set_core_table_timer

-----------------------------------------------------------------------------
(* vse_core_selection, called once the table is set up.                    *)

StartSelection(c, i) ==
  /\ Running
  /\ status = "ready"
  /\ pc[c] = "idle"
  /\ i \in online
  /\ pc' = [pc EXCEPT ![c] = "scan"]
  /\ own' = [own EXCEPT ![c] = i]
  /\ visited' = [visited EXCEPT ![c] = -1]
  /\ irq' = [irq EXCEPT ![c] = -1]
  /\ UNCHANGED <<status, wild, cores, arrays, timer, cpu, history>>

Eligible(i) == load[i] < THRESHOLD /\ vm_id[i] # NOT_VM

\* The loop visits its next core and returns it, or goes on.  Outside the array,
\* or after it was freed, a core may look either way.
VisitCore(c, i) ==
  /\ Running
  /\ pc[c] = "scan"
  /\ NextOnline(visited[c], i)
  /\ \/ /\ i \in Slot("core_table") => Eligible(i)
        /\ irq' = [irq EXCEPT ![c] = i]
        /\ pc' = [pc EXCEPT ![c] = "idle"]
        /\ UNCHANGED visited
     \/ /\ i \in Slot("core_table") => ~Eligible(i)
        /\ visited' = [visited EXCEPT ![c] = i]
        /\ UNCHANGED <<pc, irq>>
  /\ UNCHANGED <<status, wild, cores, arrays, timer, cpu, own, history>>

\* No core was found: the selection falls back on its own.
KeepOwn(c) ==
  /\ Running
  /\ pc[c] = "scan"
  /\ NoneOnline(visited[c])
  /\ irq' = [irq EXCEPT ![c] = own[c]]
  /\ pc' = [pc EXCEPT ![c] = "idle"]
  /\ UNCHANGED <<status, wild, cores, arrays, timer, cpu, visited, own, history>>

-----------------------------------------------------------------------------
(* vse_clean_up_core_table.                                                *)

\* Mutant: del_timer, which does not wait for the handler to return.
Mut_DelTimerSync ==
  /\ Running
  /\ status = "ready"
  /\ status' = "stopped"
  /\ timer' = IF timer = "armed" THEN "off" ELSE timer
  /\ UNCHANGED <<wild, cores, arrays, cpu, select, history>>

\* del_timer_sync (external): it tries until the handler is not running, and
\* takes a timer that set itself again off the wheel.
DelTimerSync ==
  /\ Running
  /\ status = "ready"
  /\ timer = "armed"
  /\ status' = "stopped"
  /\ timer' = "off"
  /\ UNCHANGED <<wild, cores, arrays, cpu, select, history>>

FreeArrays ==
  /\ Running
  /\ status = "stopped"
  /\ status' = "freed"
  /\ slots' = [x \in Array |-> 0]
  /\ UNCHANGED <<wild, cores, now, prev, load, vm_id, timer, cpu, select, history>>

Next ==
  \/ \E i \in Possible : CpuUp(i) \/ CpuDown(i) \/ \E d \in Burst : Work(i, d)
  \/ vse_init_core_table
  \/ Expire \/ vse_update_core_table
  \/ \E c \in Context, i \in Possible : StartSelection(c, i) \/ VisitCore(c, i)
  \/ \E c \in Context : KeepOwn(c)
  \/ DelTimerSync \/ FreeArrays

Spec == Init /\ [][Next]_vars

\* The timer expires and its handler, in softirq, runs to its end.
FairSpec == Spec /\ WF_vars(Expire) /\ WF_vars(vse_update_core_table)

-----------------------------------------------------------------------------
(* Properties.                                                             *)

TypeOK ==
  /\ status \in {"unset", "marking", "marked", "halfway", "failed",
                 "ready", "stopped", "freed"}
  /\ wild \in {"none", "init", "update"}
  /\ online \in (SUBSET Possible) \ {{}}
  /\ slots \in [Array -> Nat]
  /\ clock \in [Possible -> Nat]
  /\ now \in [Possible -> Nat]
  /\ prev \in [Possible -> Nat]
  /\ load \in [Possible -> 0..255]
  /\ vm_id \in [Possible -> {0, NOT_VM}]
  /\ timer \in {"off", "armed", "sample", "load", "copy"}
  /\ cpu \in Possible \cup {-1}
  /\ pc \in [Context -> {"idle", "scan"}]
  /\ visited \in [Context -> Possible \cup {-1}]
  /\ own \in [Context -> Nat]
  /\ irq \in [Context -> Possible \cup {-1}]
  /\ span \in [Possible -> Nat]
  /\ since \in [Possible -> 0..2]
  /\ stayed \in SUBSET Possible

\* The timer's handler never writes to arrays that have been freed, whenever the
\* clean-up comes, and to a place outside them only where some array was not
\* allocated, or has too few slots for the possible cores.
ArraysRespected ==
  wild = "update" =>
    status = "ready" /\ \E x \in Array : ~(Possible \subseteq Slot(x))

\* Between two updates the load of a core that has stayed online is what it did
\* in the last period, modulo the width of a byte, although cores come up and go
\* down while the handler's two loops are under way.
LoadIsLastPeriod ==
  wild = "none" /\ timer = "armed" =>
    \A i \in online : since[i] = 2 => load[i] = span[i] % 256

\* No selection ever moves work to a core that was online all the while
\* core_table was set up, whatever comes up or goes down later and however low
\* its load: such cores are marked as having no virtual machine, and nothing
\* marks them otherwise.  Only one that was away meanwhile, for a moment, can be
\* chosen; and anyone, by a selection under way while the array is freed.
SelectionPassesOverMarked ==
  \A c \in Context : irq[c] \in stayed /\ irq[c] # own[c] => status = "freed"

\* Once set up, the table is updated again and again until it is cleaned up.
UpdatesRecur ==
  (status = "ready") ~> (timer = "load" \/ wild # "none" \/ status # "ready")
=============================================================================
