-------------------------- MODULE VseCoreTableProofs --------------------------
(***************************************************************************)
(* Proofs about the core table, for any number of cores and selections and *)
(* any amounts of work.                                                    *)
(***************************************************************************)
EXTENDS VseCoreTable, FiniteSetTheorems, TLAPS

-----------------------------------------------------------------------------
(* The inductive invariant.                                                *)

SettingUp == status \in {"unset", "marking", "marked", "halfway"}

\* The timer runs only while the arrays exist; a selection under way began with
\* them; a loop's cursor stands at its start when no loop is under way.
LifeInv ==
  /\ timer # "off" => status = "ready"
  /\ cpu # -1 => status = "marking" \/ timer \in {"load", "copy"}
  /\ SettingUp => \A i \in Possible : prev[i] = now[i] /\ since[i] = 0
  /\ SettingUp \/ status = "failed" => \A c \in Context : irq[c] = -1
  /\ \A c \in Context : pc[c] = "scan" =>
       status \in {"ready", "stopped", "freed"} /\ own[c] \in Possible

\* The loop that marks the cores misses none of those that stay online.
Marked(i) ==
  /\ vm_id[i] = NOT_VM
  /\ status \in {"marking", "marked", "halfway", "ready", "stopped"} => i \in Slot("core_table")

MarkInv ==
  /\ status = "unset" => stayed = {}
  /\ status = "marking" => stayed \subseteq online
  /\ wild # "init" => \A i \in stayed : (status = "marking" => i <= cpu) => Marked(i)

\* The kernel's count never goes back.
ClockInv == \A i \in Possible : now[i] <= clock[i]

\* The handler's loop has been at core i, or is over.
Past(loop, i) == timer = loop => i <= cpu

\* The state of core i's samples and load, by what the handler does next: of a
\* core that was online for a sample the earlier one is replaced each time.
CoreInv(i) ==
  /\ since[i] > 0 => i \in online
  /\ since[i] > 0 /\ timer \in {"armed", "sample", "copy"} /\ Past("copy", i) =>
       prev[i] = now[i]
  /\ since[i] = 2 /\ timer = "load" => span[i] = now[i] - prev[i]
  /\ since[i] = 2 /\ Past("load", i) /\ i \in Slot("prev") => load[i] = span[i] % 256
  /\ since[i] = 2 /\ timer \in {"armed", "sample", "copy"} /\ Past("copy", i) =>
       i \in Slot("prev")

PeriodInv == wild = "none" => \A i \in Possible : CoreInv(i)

IInv ==
  /\ TypeOK /\ LifeInv /\ MarkInv /\ ClockInv /\ PeriodInv
  /\ ArraysRespected /\ SelectionPassesOverMarked

-----------------------------------------------------------------------------
LEMMA Initially == Init => IInv
<1> SUFFICES ASSUME Init PROVE IInv
  OBVIOUS
<1> USE DEF Init
<1>1. TypeOK
  <2>1. /\ clock \in [Possible -> Nat] /\ now \in [Possible -> Nat] /\ prev \in [Possible -> Nat]
        /\ load \in [Possible -> 0..255] /\ vm_id \in [Possible -> {0, NOT_VM}]
        /\ span \in [Possible -> Nat] /\ since \in [Possible -> 0..2]
    OBVIOUS
  <2>2. /\ pc \in [Context -> {"idle", "scan"}] /\ visited \in [Context -> Possible \cup {-1}]
        /\ own \in [Context -> Nat] /\ irq \in [Context -> Possible \cup {-1}]
        /\ slots \in [Array -> Nat] /\ cpu \in Possible \cup {-1}
    OBVIOUS
  <2>3. QED
    BY <2>1, <2>2 DEF TypeOK
<1>2. LifeInv /\ MarkInv /\ ClockInv /\ PeriodInv
  BY DEF LifeInv, SettingUp, MarkInv, ClockInv, PeriodInv, CoreInv
<1>3. ArraysRespected /\ SelectionPassesOverMarked
  BY DEF ArraysRespected, SelectionPassesOverMarked
<1>4. QED
  BY <1>1, <1>2, <1>3 DEF IInv

\* What all steps of the model rely on.
LEMMA Types ==
  ASSUME IInv
  PROVE  /\ status \in {"unset", "marking", "marked", "halfway", "failed",
                        "ready", "stopped", "freed"}
         /\ online \subseteq Possible /\ online # {} /\ slots \in [Array -> Nat]
         /\ cpu \in Int /\ cpu \in Possible \cup {-1} /\ stayed \subseteq Possible
         /\ clock \in [Possible -> Nat] /\ now \in [Possible -> Nat]
         /\ prev \in [Possible -> Nat] /\ span \in [Possible -> Nat]
         /\ since \in [Possible -> 0..2] /\ load \in [Possible -> 0..255]
         /\ vm_id \in [Possible -> {0, NOT_VM}]
         /\ \A i \in Possible : i \in Nat /\ now[i] <= clock[i] /\ (wild = "none" => CoreInv(i))
  BY CoreAssumption DEF IInv, TypeOK, ClockInv, PeriodInv

LEMMA Counted == ASSUME IInv PROVE Cardinality(online) \in Nat
  BY CoreAssumption, Types, FS_Subset, FS_CardinalityType

LEMMA WorkKept == ASSUME IInv, NEW k \in Possible, NEW d \in Burst, Work(k, d) PROVE IInv'
<1>1. d \in Nat /\ clock' = [clock EXCEPT ![k] = @ + d] /\ clock \in [Possible -> Nat]
  BY CoreAssumption, Types DEF Work
<1>2. UNCHANGED <<status, wild, online, slots, now, prev, load, vm_id, timer, cpu,
                  pc, visited, own, irq, span, since, stayed>>
  BY DEF Work, arrays, select, history
<1>3. clock' \in [Possible -> Nat] /\ \A i \in Possible : clock'[i] >= clock[i]
  BY <1>1
<1>4. TypeOK'
  BY <1>2, <1>3 DEF IInv, TypeOK
<1>5. ClockInv'
  BY <1>1, <1>2, <1>3, Types DEF ClockInv
<1>6. LifeInv' /\ MarkInv' /\ PeriodInv'
  BY <1>2 DEF IInv, LifeInv, SettingUp, MarkInv, Marked, Slot, PeriodInv, CoreInv, Past
<1>7. ArraysRespected' /\ SelectionPassesOverMarked'
  BY <1>2 DEF IInv, ArraysRespected, Slot, SelectionPassesOverMarked
<1>8. QED
  BY <1>4, <1>5, <1>6, <1>7 DEF IInv

LEMMA CpuUpKept == ASSUME IInv, NEW k \in Possible, CpuUp(k) PROVE IInv'
<1>1. /\ online' = online \cup {k}
      /\ UNCHANGED <<status, wild, slots, clock, now, prev, load, vm_id, timer, cpu,
                     pc, visited, own, irq, span, since, stayed>>
  BY DEF CpuUp, arrays, select, history
<1>2. TypeOK'
  BY <1>1 DEF IInv, TypeOK
<1>3. PeriodInv'
  BY <1>1 DEF IInv, PeriodInv, CoreInv, Past, Slot
<1>4. LifeInv' /\ MarkInv' /\ ClockInv'
  BY <1>1 DEF IInv, LifeInv, SettingUp, MarkInv, Marked, Slot, ClockInv
<1>5. ArraysRespected' /\ SelectionPassesOverMarked'
  BY <1>1 DEF IInv, ArraysRespected, Slot, SelectionPassesOverMarked
<1>6. QED
  BY <1>2, <1>3, <1>4, <1>5 DEF IInv

\* A core that goes down starts over with its samples, and has not stayed.
LEMMA CpuDownKept == ASSUME IInv, NEW k \in Possible, CpuDown(k) PROVE IInv'
<1>1. /\ online' = online \ {k} /\ online # {k} /\ k \in online
      /\ since' = [since EXCEPT ![k] = 0]
      /\ stayed' = IF status = "marking" THEN stayed \ {k} ELSE stayed
      /\ UNCHANGED <<status, wild, slots, clock, now, prev, load, vm_id, timer, cpu,
                     pc, visited, own, irq, span>>
  BY DEF CpuDown, arrays, select
<1>2. TypeOK'
  BY <1>1 DEF IInv, TypeOK
<1>3. ASSUME NEW i \in Possible, CoreInv(i) PROVE CoreInv(i)'
  <2>1. CASE i = k
    BY <1>1, <2>1, Types DEF CoreInv
  <2>2. CASE i # k
    BY <1>1, <1>3, <2>2, Types DEF CoreInv, Past, Slot
  <2>3. QED
    BY <2>1, <2>2
<1>4. PeriodInv'
  BY <1>1, <1>3 DEF IInv, PeriodInv
<1>5. MarkInv'
  BY <1>1 DEF IInv, MarkInv, Marked, Slot
<1>6. LifeInv' /\ ClockInv'
  BY <1>1, Types DEF IInv, LifeInv, SettingUp, ClockInv
<1>7. ArraysRespected' /\ SelectionPassesOverMarked'
  BY <1>1 DEF IInv, ArraysRespected, Slot, SelectionPassesOverMarked
<1>8. QED
  BY <1>2, <1>4, <1>5, <1>6, <1>7 DEF IInv

-----------------------------------------------------------------------------
(* The initialisation.                                                     *)

\* While the table is being set up no core has been sampled and no selection
\* has been made.
LEMMA Setup ==
  ASSUME IInv, SettingUp
  PROVE  /\ timer = "off" /\ (status # "marking" => cpu = -1)
         /\ \A i \in Possible : prev[i] = now[i] /\ since[i] = 0
         /\ \A c \in Context : irq[c] = -1 /\ pc[c] = "idle"
  BY DEF IInv, TypeOK, LifeInv, SettingUp

\* A step that changes no sample and no selection before the table is ready.
LEMMA SetupKept ==
  ASSUME IInv, SettingUp, wild = "none",
         UNCHANGED <<online, clock, now, prev, load, timer, pc, visited, own, irq, span, since>>,
         SettingUp' \/ status' = "failed",
         slots' \in [Array -> Nat], cpu' \in Possible \cup {-1}, wild' \in {"none", "init"},
         vm_id' \in [Possible -> {0, NOT_VM}], stayed' \in SUBSET Possible,
         cpu' # -1 => status' = "marking"
  PROVE  TypeOK' /\ LifeInv' /\ ClockInv' /\ PeriodInv' /\ ArraysRespected'
         /\ SelectionPassesOverMarked'
<1>1. TypeOK'
  BY DEF IInv, TypeOK, SettingUp
<1>2. LifeInv'
  BY Setup DEF LifeInv, SettingUp
<1>3. PeriodInv'
  BY Setup DEF PeriodInv, CoreInv
<1>4. SelectionPassesOverMarked'
  BY Setup, CoreAssumption DEF SelectionPassesOverMarked
<1>5. QED
  BY <1>1, <1>2, <1>3, <1>4 DEF IInv, ClockInv, ArraysRespected

LEMMA AllocCoreTableKept == ASSUME IInv, AllocCoreTable PROVE IInv'
<1>1. /\ wild = "none" /\ status = "unset" /\ SettingUp
      /\ UNCHANGED <<wild, online, clock, now, prev, load, vm_id, timer, cpu,
                     pc, visited, own, irq, span, since>>
      /\ \/ /\ slots' = [slots EXCEPT !["core_table"] = Cardinality(online)]
            /\ status' = "marking" /\ stayed' = online
         \/ status' = "failed" /\ slots' = [x \in Array |-> 0] /\ stayed' = stayed
  BY DEF AllocCoreTable, Allocate, GiveUp, Running, SettingUp, cores, select
<1>2. slots' \in [Array -> Nat] /\ stayed' \subseteq Possible
  BY <1>1, Counted, Types
<1>3. cpu = -1 /\ stayed = {}
  BY <1>1, Setup DEF IInv, MarkInv
<1>4. MarkInv'
  BY <1>1, <1>3, Types DEF MarkInv
<1>5. TypeOK' /\ LifeInv' /\ ClockInv' /\ PeriodInv' /\ ArraysRespected' /\ SelectionPassesOverMarked'
  BY <1>1, <1>2, <1>3, Types, SetupKept DEF SettingUp
<1>6. QED
  BY <1>4, <1>5 DEF IInv

\* No core online that the cursor has yet to reach lies between it and the next.
LEMMA MarkCoreKept == ASSUME IInv, NEW k \in Possible, MarkCore(k) PROVE IInv'
<1>1. /\ wild = "none" /\ status = "marking" /\ SettingUp /\ cpu' = k
      /\ \A i \in online : cpu < i => k <= i
      /\ UNCHANGED <<status, online, clock, slots, now, prev, load, timer,
                     pc, visited, own, irq, span, since, stayed>>
  BY DEF MarkCore, NextOnline, Running, SettingUp, cores, select, history
<1>2. \/ /\ k \in Slot("core_table") /\ vm_id' = [vm_id EXCEPT ![k] = NOT_VM] /\ wild' = wild
      \/ wild' = "init" /\ vm_id' = vm_id
  BY DEF MarkCore
<1>3. vm_id' \in [Possible -> {0, NOT_VM}] /\ k # -1
  BY <1>2, Types, CoreAssumption
<1>4. MarkInv'
  <2>1. ASSUME NEW i \in stayed, i <= k, wild' = "none" PROVE Marked(i)'
    <3>1. i \in online /\ i \in Nat /\ k \in Nat /\ cpu \in Int /\ i \in Possible
      BY <1>1, Types DEF IInv, MarkInv
    <3>2. CASE i = k
      BY <1>1, <1>2, <2>1, <3>1, <3>2, Types DEF Marked, Slot
    <3>3. CASE i # k
      <4>1. i <= cpu
        BY <1>1, <2>1, <3>1, <3>3
      <4>2. Marked(i)
        BY <1>1, <4>1 DEF IInv, MarkInv
      <4>3. QED
        BY <1>1, <1>2, <2>1, <3>1, <3>3, <4>2, Types DEF Marked, Slot
    <3>4. QED
      BY <3>2, <3>3
  <2>2. QED
    BY <1>1, <1>2, <2>1 DEF MarkInv, IInv
<1>5. TypeOK' /\ LifeInv' /\ ClockInv' /\ PeriodInv' /\ ArraysRespected' /\ SelectionPassesOverMarked'
  BY <1>1, <1>2, <1>3, Types, SetupKept DEF SettingUp
<1>6. QED
  BY <1>4, <1>5 DEF IInv

\* Where the loop ends no core online is left: all that stayed are marked.
LEMMA MarkingDoneKept == ASSUME IInv, MarkingDone PROVE IInv'
<1>1. /\ wild = "none" /\ status = "marking" /\ SettingUp /\ cpu' = -1 /\ status' = "marked"
      /\ \A i \in online : i <= cpu
      /\ UNCHANGED <<wild, online, clock, slots, now, prev, load, vm_id, timer,
                     pc, visited, own, irq, span, since, stayed>>
  BY DEF MarkingDone, NoneOnline, Running, SettingUp, cores, arrays, select, history
<1>2. MarkInv'
  BY <1>1 DEF IInv, MarkInv, Marked, Slot
<1>3. TypeOK' /\ LifeInv' /\ ClockInv' /\ PeriodInv' /\ ArraysRespected' /\ SelectionPassesOverMarked'
  BY <1>1, Types, SetupKept DEF SettingUp
<1>4. QED
  BY <1>2, <1>3 DEF IInv

LEMMA AllocPrevKept == ASSUME IInv, AllocPrev PROVE IInv'
<1>1. /\ wild = "none" /\ status = "marked" /\ SettingUp
      /\ UNCHANGED <<wild, online, clock, now, prev, load, vm_id, timer, cpu,
                     pc, visited, own, irq, span, since, stayed>>
      /\ \/ /\ slots' = [slots EXCEPT !["prev"] = Cardinality(online)]
            /\ status' = "halfway"
         \/ status' = "failed" /\ slots' = [x \in Array |-> 0]
  BY DEF AllocPrev, Allocate, GiveUp, Running, SettingUp, cores, select, history
<1>2. slots' \in [Array -> Nat] /\ cpu = -1
  BY <1>1, Counted, Types, Setup
<1>3. MarkInv'
  BY <1>1, Types DEF IInv, MarkInv, Marked, Slot, Array
<1>4. TypeOK' /\ LifeInv' /\ ClockInv' /\ PeriodInv' /\ ArraysRespected' /\ SelectionPassesOverMarked'
  BY <1>1, <1>2, Types, SetupKept DEF SettingUp
<1>5. QED
  BY <1>3, <1>4 DEF IInv

LEMMA AllocNowKept == ASSUME IInv, AllocNow PROVE IInv'
<1>1. /\ wild = "none" /\ status = "halfway" /\ SettingUp /\ status' = "ready"
      /\ timer' = "armed" /\ since' = [i \in Possible |-> IF i \in online THEN 1 ELSE 0]
      /\ UNCHANGED <<wild, online, clock, now, prev, load, vm_id, cpu,
                     pc, visited, own, irq, span, stayed>>
      /\ slots' = [slots EXCEPT !["now"] = Cardinality(online)] \/ slots' = slots
  BY DEF AllocNow, Allocate, Running, SettingUp, cores, select
<1>2. slots' \in [Array -> Nat] /\ since' \in [Possible -> 0..2] /\ cpu = -1
  BY <1>1, Counted, Types, Setup
<1>3. /\ \A i \in Possible : prev[i] = now[i]
      /\ \A c \in Context : irq[c] = -1 /\ pc[c] = "idle"
  BY <1>1, Setup
<1>4. TypeOK'
  BY <1>1, <1>2 DEF IInv, TypeOK
<1>5. MarkInv'
  BY <1>1, Types DEF IInv, MarkInv, Marked, Slot, Array
<1>6. LifeInv' /\ ClockInv'
  BY <1>1, <1>2, <1>3 DEF IInv, LifeInv, SettingUp, ClockInv
<1>7. PeriodInv'
  <2>1. ASSUME NEW i \in Possible PROVE CoreInv(i)'
    BY <1>1, <1>3 DEF CoreInv
  <2>2. QED
    BY <2>1 DEF PeriodInv
<1>8. ArraysRespected' /\ SelectionPassesOverMarked'
  BY <1>1, <1>3, Types, CoreAssumption DEF ArraysRespected, SelectionPassesOverMarked
<1>9. QED
  BY <1>4, <1>5, <1>6, <1>7, <1>8 DEF IInv

-----------------------------------------------------------------------------
(* The timer.                                                              *)

\* A step of the handler that touches neither core_table's marks nor the
\* selections leaves these parts of the invariant alone.
LEMMA HandlerKept ==
  ASSUME IInv, wild = "none", status = "ready",
         UNCHANGED <<status, online, slots, vm_id, pc, visited, own, irq, stayed>>,
         cpu' # -1 => timer' \in {"load", "copy"},
         wild' = "none" \/ (wild' = "update" /\ \E x \in Array : ~(Possible \subseteq Slot(x)))
  PROVE  LifeInv' /\ MarkInv' /\ ArraysRespected' /\ SelectionPassesOverMarked'
<1>1. LifeInv'
  BY DEF IInv, LifeInv, SettingUp
<1>2. MarkInv'
  BY DEF IInv, MarkInv, Marked, Slot
<1>3. ArraysRespected' /\ SelectionPassesOverMarked'
  BY DEF IInv, ArraysRespected, Slot, SelectionPassesOverMarked
<1>4. QED
  BY <1>1, <1>2, <1>3

LEMMA ExpireKept == ASSUME IInv, Expire PROVE IInv'
<1>1. /\ wild = "none" /\ timer = "armed" /\ timer' = "sample"
      /\ UNCHANGED <<status, wild, online, slots, clock, now, prev, load, vm_id, cpu,
                     pc, visited, own, irq, span, since, stayed>>
  BY DEF Expire, Running, cores, arrays, select, history
<1>2. status = "ready" /\ cpu = -1
  BY <1>1 DEF IInv, LifeInv
<1>3. TypeOK' /\ ClockInv'
  BY <1>1 DEF IInv, TypeOK, ClockInv
<1>4. PeriodInv'
  BY <1>1 DEF IInv, PeriodInv, CoreInv, Past, Slot
<1>5. QED
  BY <1>1, <1>2, <1>3, <1>4, HandlerKept DEF IInv

LEMMA SampleKept == ASSUME IInv, vse_get_cpu_status PROVE IInv'
<1>1. /\ wild = "none" /\ timer = "sample"
      /\ UNCHANGED <<status, online, clock, slots, prev, load, vm_id, cpu,
                     pc, visited, own, irq, stayed>>
  BY DEF vse_get_cpu_status, Running, cores, select
<1>2. status = "ready" /\ cpu = -1
  BY <1>1 DEF IInv, LifeInv
<1>3. CASE Possible \subseteq Slot("now")
  <2>1. /\ now' = clock /\ span' = [i \in Possible |-> clock[i] - now[i]]
        /\ since' = [i \in Possible |->
                       IF i \in online /\ since[i] < 2 THEN since[i] + 1 ELSE since[i]]
        /\ timer' = "load" /\ wild' = wild
    BY <1>3 DEF vse_get_cpu_status
  <2>2. span' \in [Possible -> Nat] /\ since' \in [Possible -> 0..2]
    BY <2>1, Types
  <2>3. TypeOK' /\ ClockInv'
    BY <1>1, <2>1, <2>2, Types DEF IInv, TypeOK, ClockInv
  <2>4. ASSUME NEW i \in Possible PROVE CoreInv(i)'
    <3>1. /\ now'[i] = clock[i] /\ span'[i] = clock[i] - now[i]
          /\ since'[i] = IF i \in online /\ since[i] < 2 THEN since[i] + 1 ELSE since[i]
      BY <2>1
    <3>2. since[i] \in 0..2 /\ (since[i] > 0 => i \in online /\ prev[i] = now[i])
      BY <1>1, Types DEF CoreInv, Past
    <3>3. since'[i] > 0 => i \in online
      BY <3>1, <3>2
    <3>4. since'[i] = 2 => prev[i] = now[i]
      BY <3>1, <3>2
    <3>5. ~(i <= cpu)
      BY <1>2, Types
    <3>6. QED
      BY <1>1, <2>1, <3>1, <3>3, <3>4, <3>5 DEF CoreInv, Past
  <2>5. QED
    BY <1>1, <1>2, <2>1, <2>3, <2>4, HandlerKept DEF IInv, PeriodInv
<1>4. CASE ~(Possible \subseteq Slot("now"))
  <2>1. wild' = "update" /\ UNCHANGED <<now, timer, span, since>>
    BY <1>4 DEF vse_get_cpu_status
  <2>2. TypeOK' /\ ClockInv' /\ PeriodInv'
    BY <1>1, <2>1 DEF IInv, TypeOK, ClockInv, PeriodInv
  <2>3. QED
    BY <1>1, <1>2, <1>4, <2>1, <2>2, HandlerKept DEF IInv, Array
<1>5. QED
  BY <1>3, <1>4

\* What the cursor has passed when it moves on to k: what it had passed, and k.
LEMMA Moved ==
  ASSUME IInv, NEW k \in Possible, NextOnline(cpu, k)
  PROVE  /\ k # -1
         /\ \A i \in online : i <= k => i <= cpu \/ i = k
  BY Types, CoreAssumption DEF NextOnline

LEMMA LoadKept == ASSUME IInv, NEW k \in Possible, vse_get_core_table_load(k) PROVE IInv'
<1>1. /\ wild = "none" /\ timer = "load" /\ NextOnline(cpu, k) /\ cpu' = k
      /\ UNCHANGED <<status, online, clock, slots, now, prev, vm_id, timer,
                     pc, visited, own, irq, span, since, stayed>>
  BY DEF vse_get_core_table_load, Running, cores, select, history
<1>2. status = "ready" /\ k \in online
  BY <1>1 DEF IInv, LifeInv, NextOnline
<1>3. CASE k \in Slot("core_table")
  <2>1. PICK v \in Computed(k) : load' = [load EXCEPT ![k] = v]
    BY <1>3 DEF vse_get_core_table_load
  <2>2. wild' = wild
    BY <1>3 DEF vse_get_core_table_load
  <2>3. v \in 0..255 /\ (k \in Slot("prev") => v = (now[k] - prev[k]) % 256)
    <3>1. now[k] - prev[k] \in Int
      BY Types
    <3>2. \A x \in Int : x % 256 \in 0..255
      OBVIOUS
    <3>3. QED
      BY <2>1, <3>1, <3>2, CoreAssumption DEF Computed, ToU8
  <2>4. load' \in [Possible -> 0..255]
    BY <2>1, <2>3, Types
  <2>5. TypeOK' /\ ClockInv'
    BY <1>1, <2>2, <2>4 DEF IInv, TypeOK, ClockInv
  <2>6. ASSUME NEW i \in Possible PROVE CoreInv(i)'
    <3>1. CASE i = k
      BY <1>1, <2>1, <2>3, <3>1, Types DEF CoreInv, Past, Slot
    <3>2. CASE i # k
      <4>1. since[i] = 2 /\ i <= k => i <= cpu
        BY <1>1, <3>2, Moved, Types DEF CoreInv
      <4>2. load'[i] = load[i]
        BY <2>1, <3>2
      <4>3. QED
        BY <1>1, <4>1, <4>2, Types DEF CoreInv, Past, Slot
    <3>3. QED
      BY <3>1, <3>2
  <2>7. QED
    BY <1>1, <1>2, <2>2, <2>5, <2>6, HandlerKept DEF IInv, PeriodInv
<1>4. CASE k \notin Slot("core_table")
  <2>1. wild' = "update" /\ load' = load
    BY <1>4 DEF vse_get_core_table_load
  <2>2. TypeOK' /\ ClockInv' /\ PeriodInv'
    BY <1>1, <2>1 DEF IInv, TypeOK, ClockInv, PeriodInv
  <2>3. ~(Possible \subseteq Slot("core_table"))
    BY <1>4
  <2>4. QED
    BY <1>1, <1>2, <2>1, <2>2, <2>3, HandlerKept DEF IInv, Array
<1>5. QED
  BY <1>3, <1>4

LEMMA LoadDoneKept == ASSUME IInv, LoadDone PROVE IInv'
<1>1. /\ wild = "none" /\ timer = "load" /\ timer' = "copy" /\ cpu' = -1
      /\ \A i \in online : i <= cpu
      /\ UNCHANGED <<status, wild, online, clock, slots, now, prev, load, vm_id,
                     pc, visited, own, irq, span, since, stayed>>
  BY DEF LoadDone, NoneOnline, Running, cores, arrays, select, history
<1>2. status = "ready"
  BY <1>1 DEF IInv, LifeInv
<1>3. TypeOK' /\ ClockInv'
  BY <1>1 DEF IInv, TypeOK, ClockInv
<1>4. ASSUME NEW i \in Possible PROVE CoreInv(i)'
  <2>1. i \in Nat /\ ~(i <= -1)
    BY Types
  <2>2. since[i] = 2 => i <= cpu
    BY <1>1, Types DEF CoreInv
  <2>3. QED
    BY <1>1, <2>1, <2>2, Types DEF CoreInv, Past, Slot
<1>5. QED
  BY <1>1, <1>2, <1>3, <1>4, HandlerKept DEF IInv, PeriodInv

LEMMA CopyKept == ASSUME IInv, NEW k \in Possible, vse_copy_prev_status(k) PROVE IInv'
<1>1. /\ wild = "none" /\ timer = "copy" /\ NextOnline(cpu, k) /\ cpu' = k
      /\ UNCHANGED <<status, online, clock, slots, now, load, vm_id, timer,
                     pc, visited, own, irq, span, since, stayed>>
  BY DEF vse_copy_prev_status, Running, cores, select, history
<1>2. status = "ready" /\ k \in online
  BY <1>1 DEF IInv, LifeInv, NextOnline
<1>3. CASE k \in Slot("prev")
  <2>1. prev' = [prev EXCEPT ![k] = now[k]] /\ wild' = wild
    BY <1>3 DEF vse_copy_prev_status
  <2>2. prev' \in [Possible -> Nat]
    BY <2>1, Types
  <2>3. TypeOK' /\ ClockInv'
    BY <1>1, <2>1, <2>2 DEF IInv, TypeOK, ClockInv
  <2>4. ASSUME NEW i \in Possible PROVE CoreInv(i)'
    <3>1. CASE i = k
      BY <1>1, <1>2, <1>3, <2>1, <3>1, Types DEF CoreInv, Past, Slot
    <3>2. CASE i # k
      <4>1. since[i] > 0 /\ i <= k => i <= cpu
        BY <1>1, <3>2, Moved, Types DEF CoreInv
      <4>2. prev'[i] = prev[i] /\ since[i] \in 0..2
        BY <2>1, <3>2, Types
      <4>3. QED
        BY <1>1, <4>1, <4>2, Types DEF CoreInv, Past, Slot
    <3>3. QED
      BY <3>1, <3>2
  <2>5. QED
    BY <1>1, <1>2, <2>1, <2>3, <2>4, HandlerKept DEF IInv, PeriodInv
<1>4. CASE k \notin Slot("prev")
  <2>1. wild' = "update" /\ prev' = prev
    BY <1>4 DEF vse_copy_prev_status
  <2>2. TypeOK' /\ ClockInv' /\ PeriodInv'
    BY <1>1, <2>1 DEF IInv, TypeOK, ClockInv, PeriodInv
  <2>3. ~(Possible \subseteq Slot("prev"))
    BY <1>4
  <2>4. QED
    BY <1>1, <1>2, <2>1, <2>2, <2>3, HandlerKept DEF IInv, Array
<1>5. QED
  BY <1>3, <1>4

LEMMA ArmKept == ASSUME IInv, vse_set_core_table_timer PROVE IInv'
<1>1. /\ wild = "none" /\ timer = "copy" /\ timer' = "armed" /\ cpu' = -1
      /\ \A i \in online : i <= cpu
      /\ UNCHANGED <<status, wild, online, clock, slots, now, prev, load, vm_id,
                     pc, visited, own, irq, span, since, stayed>>
  BY DEF vse_set_core_table_timer, NoneOnline, Running, cores, arrays, select, history
<1>2. status = "ready"
  BY <1>1 DEF IInv, LifeInv
<1>3. TypeOK' /\ ClockInv'
  BY <1>1 DEF IInv, TypeOK, ClockInv
<1>4. ASSUME NEW i \in Possible PROVE CoreInv(i)'
  <2>1. since[i] > 0 => i <= cpu
    BY <1>1, Types DEF CoreInv
  <2>2. since[i] \in 0..2
    BY Types
  <2>3. QED
    BY <1>1, <2>1, <2>2, Types DEF CoreInv, Past, Slot
<1>5. QED
  BY <1>1, <1>2, <1>3, <1>4, HandlerKept DEF IInv, PeriodInv

-----------------------------------------------------------------------------
(* The selections and the clean-up.                                        *)

\* A selection changes nothing but its own variables; while the array is there a
\* core that stayed has a slot of it and is not eligible.
LEMMA SelectionKept ==
  ASSUME IInv, NEW c \in Context,
         (\E i \in Possible : StartSelection(c, i) \/ VisitCore(c, i)) \/ KeepOwn(c)
  PROVE  IInv'
<1>1. /\ wild = "none"
      /\ UNCHANGED <<status, wild, online, clock, slots, now, prev, load, vm_id, timer, cpu,
                     span, since, stayed>>
  BY DEF StartSelection, VisitCore, KeepOwn, Running, cores, arrays, history
<1>2. /\ pc \in [Context -> {"idle", "scan"}] /\ visited \in [Context -> Possible \cup {-1}]
      /\ own \in [Context -> Nat] /\ irq \in [Context -> Possible \cup {-1}]
      /\ \A d \in Context : irq[d] \in stayed /\ irq[d] # own[d] => status = "freed"
      /\ \A d \in Context : pc[d] = "scan" =>
           status \in {"ready", "stopped", "freed"} /\ own[d] \in Possible
  BY DEF IInv, TypeOK, SelectionPassesOverMarked, LifeInv
<1>3. /\ pc' \in [Context -> {"idle", "scan"}] /\ visited' \in [Context -> Possible \cup {-1}]
      /\ own' \in [Context -> Nat] /\ irq' \in [Context -> Possible \cup {-1}]
      /\ \A d \in Context : irq'[d] \in stayed /\ irq'[d] # own'[d] => status = "freed"
      /\ \A d \in Context : pc'[d] = "scan" =>
           status \in {"ready", "stopped", "freed"} /\ own'[d] \in Possible
      /\ status \in {"ready", "stopped", "freed"}
  <2>1. CASE \E i \in Possible : StartSelection(c, i)
    <3>0. PICK i \in Possible : StartSelection(c, i)
      BY <2>1
    <3>1. /\ status = "ready" /\ pc' = [pc EXCEPT ![c] = "scan"] /\ own' = [own EXCEPT ![c] = i]
          /\ visited' = [visited EXCEPT ![c] = -1] /\ irq' = [irq EXCEPT ![c] = -1]
      BY <3>0 DEF StartSelection
    <3>2. i \in Nat /\ -1 \notin stayed
      BY Types
    <3>3. QED
      BY <1>2, <3>1, <3>2
  <2>2. CASE \E i \in Possible : VisitCore(c, i)
    <3>0. PICK i \in Possible : VisitCore(c, i)
      BY <2>2
    <3>1. pc[c] = "scan" /\ own' = own
      BY <3>0 DEF VisitCore
    <3>2. CASE visited' = [visited EXCEPT ![c] = i] /\ UNCHANGED <<pc, irq>>
      BY <1>2, <3>1, <3>2
    <3>3. CASE /\ i \in Slot("core_table") => Eligible(i)
               /\ irq' = [irq EXCEPT ![c] = i] /\ pc' = [pc EXCEPT ![c] = "idle"]
               /\ visited' = visited
      <4>1. i \in stayed => status = "freed"
        BY <1>1, <1>2, <3>1, <3>3 DEF IInv, MarkInv, Marked, Eligible
      <4>2. QED
        BY <1>2, <3>1, <3>3, <4>1
    <3>4. QED
      BY <3>0, <3>2, <3>3 DEF VisitCore
  <2>3. CASE KeepOwn(c)
    <3>1. /\ pc[c] = "scan" /\ irq' = [irq EXCEPT ![c] = own[c]]
          /\ pc' = [pc EXCEPT ![c] = "idle"] /\ UNCHANGED <<visited, own>>
      BY <2>3 DEF KeepOwn
    <3>2. own[c] \in Possible \cup {-1}
      BY <1>2, <3>1
    <3>3. QED
      BY <1>2, <3>1, <3>2
  <2>4. QED
    BY <2>1, <2>2, <2>3
<1>4. TypeOK'
  BY <1>1, <1>3 DEF IInv, TypeOK
<1>5. PeriodInv' /\ ClockInv' /\ MarkInv'
  BY <1>1 DEF IInv, PeriodInv, CoreInv, Past, ClockInv, MarkInv, Marked, Slot
<1>6. LifeInv' /\ ArraysRespected' /\ SelectionPassesOverMarked'
  BY <1>1, <1>3 DEF IInv, LifeInv, SettingUp, ArraysRespected, SelectionPassesOverMarked, Slot
<1>7. QED
  BY <1>4, <1>5, <1>6 DEF IInv

\* The arrays are freed with the timer off.
LEMMA CleanUpKept == ASSUME IInv, DelTimerSync \/ FreeArrays PROVE IInv'
<1>1. /\ wild = "none" /\ timer' = "off" /\ timer \in {"armed", "off"}
      /\ \/ status = "ready" /\ status' = "stopped" /\ slots' = slots
         \/ status = "stopped" /\ status' = "freed" /\ slots' = [x \in Array |-> 0]
      /\ UNCHANGED <<wild, online, clock, now, prev, load, vm_id, cpu,
                     pc, visited, own, irq, span, since, stayed>>
  BY DEF DelTimerSync, FreeArrays, Running, cores, arrays, select, history, IInv, TypeOK, LifeInv
<1>2. slots' \in [Array -> Nat] /\ cpu = -1
  BY <1>1, Types DEF IInv, LifeInv
<1>3. TypeOK'
  BY <1>1, <1>2 DEF IInv, TypeOK
<1>4. LifeInv' /\ MarkInv' /\ ClockInv'
  BY <1>1, <1>2 DEF IInv, LifeInv, SettingUp, MarkInv, Marked, Slot, ClockInv
<1>5. ArraysRespected' /\ SelectionPassesOverMarked'
  BY <1>1 DEF IInv, ArraysRespected, SelectionPassesOverMarked
<1>6. ASSUME NEW i \in Possible PROVE CoreInv(i)'
  <2>1. i \in Slot("prev")' => i \in Slot("prev")
    BY <1>1, Types DEF Slot, Array
  <2>2. QED
    BY <1>1, <2>1, Types DEF CoreInv, Past
<1>7. QED
  BY <1>3, <1>4, <1>5, <1>6 DEF IInv, PeriodInv

LEMMA StepKept == IInv /\ [Next]_vars => IInv'
<1> SUFFICES ASSUME IInv, [Next]_vars PROVE IInv'
  OBVIOUS
<1>1. CASE \E i \in Possible : CpuUp(i) \/ CpuDown(i) \/ \E d \in Burst : Work(i, d)
  BY <1>1, CpuUpKept, CpuDownKept, WorkKept
<1>2. CASE vse_init_core_table
  BY <1>2, AllocCoreTableKept, MarkCoreKept, MarkingDoneKept, AllocPrevKept, AllocNowKept
  DEF vse_init_core_table
<1>3. CASE Expire \/ vse_update_core_table
  BY <1>3, ExpireKept, SampleKept, LoadKept, LoadDoneKept, CopyKept, ArmKept
  DEF vse_update_core_table
<1>4. CASE \/ \E c \in Context, i \in Possible : StartSelection(c, i) \/ VisitCore(c, i)
           \/ \E c \in Context : KeepOwn(c)
  BY <1>4, SelectionKept
<1>5. CASE DelTimerSync \/ FreeArrays
  BY <1>5, CleanUpKept
<1>6. CASE UNCHANGED vars
  <2>1. UNCHANGED <<status, wild, online, slots, clock, now, prev, load, vm_id, timer, cpu,
                    pc, visited, own, irq, span, since, stayed>>
    BY <1>6 DEF vars
  <2>2. TypeOK' /\ LifeInv' /\ MarkInv' /\ ClockInv'
    BY <2>1 DEF IInv, TypeOK, LifeInv, SettingUp, MarkInv, Marked, Slot, ClockInv
  <2>3. PeriodInv' /\ ArraysRespected' /\ SelectionPassesOverMarked'
    BY <2>1 DEF IInv, PeriodInv, CoreInv, Past, Slot, ArraysRespected, SelectionPassesOverMarked
  <2>4. QED
    BY <2>2, <2>3 DEF IInv
<1>7. QED
  BY <1>1, <1>2, <1>3, <1>4, <1>5, <1>6 DEF Next

-----------------------------------------------------------------------------
\* The invariant holds throughout.
THEOREM Invariance == Spec => []IInv
<1>1. Init => IInv
  BY Initially
<1>2. IInv /\ [Next]_vars => IInv'
  BY StepKept
<1>3. QED
  BY <1>1, <1>2, PTL DEF Spec

\* The types of TypeOK: a sample is never below the one before, and a load fits
\* its byte.
THEOREM TypeCorrect == Spec => []TypeOK
<1>1. IInv => TypeOK
  BY DEF IInv
<1>2. QED
  BY <1>1, Invariance, PTL

\* The handler never writes to freed arrays, and outside them only where
\* vse_init_core_table left them out or too short.
THEOREM ArraySafety == Spec => []ArraysRespected
<1>1. IInv => ArraysRespected
  BY DEF IInv
<1>2. QED
  BY <1>1, Invariance, PTL

\* After an update the load of a core that stayed online is what it did in the
\* last period, modulo the width of a byte.
THEOREM LoadPeriod == Spec => []LoadIsLastPeriod
<1>1. IInv => LoadIsLastPeriod
  BY Types DEF LoadIsLastPeriod, CoreInv, Past
<1>2. QED
  BY <1>1, Invariance, PTL

\* While the array is there a selection moves work to no core that was online all
\* the while it was set up.
THEOREM PassesOver == Spec => []SelectionPassesOverMarked
<1>1. IInv => SelectionPassesOverMarked
  BY DEF IInv
<1>2. QED
  BY <1>1, Invariance, PTL
=============================================================================
