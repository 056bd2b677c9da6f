------------------------------ MODULE FlowTable ------------------------------
(***************************************************************************)
(* What the flow table promises the packets that are looked up in it while *)
(* entries are added and while the module is unloaded: each lookup sees    *)
(* the table as it stood at one instant between its call and its return,   *)
(* and returns the newest entry of that instant that accepts the packet.   *)
(* Once the driver's hook has been withdrawn, a lookup already under way   *)
(* may be lost instead.                                                    *)
(***************************************************************************)
EXTENDS VseMatch

CONSTANTS
  Cpu,          \* processors that receive packets
  Packet,       \* packets, as far as vse_do_match tells them apart
  Entry,        \* contents of a flow entry: a match and the core it steers to
  NoEntry,      \* not an entry
  MaxEntries    \* bound: entries that are ever created

VARIABLES
  entries,    \* entries[k] is the k-th entry installed, NoEntry if none yet
  installed,  \* number of entries ever installed
  size,       \* number of entries in the table: the oldest ones are kept
  hooked,     \* the driver passes packets to the table
  phase,      \* phase[c]: the lookup of processor c
  pkt,        \* pkt[c]: the packet it is for
  instant,    \* instant[c]: the size of the table at the instant it sees
  steered     \* steered[c]: the entry the last lookup returned, 0 for none

lookup == <<phase, pkt, instant, steered>>
vars   == <<entries, installed, size, hooked, phase, pkt, instant, steered>>

Node == 1..MaxEntries

\* Looking up p in the k oldest entries of es may return entry r (0: none),
\* or be ended by a fault at r: every newer entry of the k may be passed over.
Outcome(es, r, p)    == vse_do_match(es[r].match, p)
PassedOver(es, r, k, p) == \A n \in (r + 1)..k : "miss" \in Outcome(es, n, p)

Answers(es, k, p) ==
  {r \in 0..k : /\ PassedOver(es, r, k, p)
                /\ r > 0 => "hit" \in Outcome(es, r, p)}

Faults(es, k, p) ==
  {r \in 1..k : PassedOver(es, r, k, p) /\ "fault" \in Outcome(es, r, p)}

Init ==
  /\ entries = [k \in Node |-> NoEntry]
  /\ installed = 0
  /\ size = 0
  /\ hooked = FALSE
  /\ phase = [c \in Cpu |-> "idle"]
  /\ pkt \in [Cpu -> Packet]
  /\ instant = [c \in Cpu |-> 0]
  /\ steered = [c \in Cpu |-> 0]

Hook ==
  /\ ~hooked
  /\ installed = 0
  /\ hooked' = TRUE
  /\ UNCHANGED <<entries, installed, size, lookup>>

\* An entry is added to a table that is in service: it is the newest at once.
Install(e) ==
  /\ hooked
  /\ size = installed
  /\ installed < MaxEntries
  /\ installed' = installed + 1
  /\ size' = installed + 1
  /\ entries' = [entries EXCEPT ![installed + 1] = e]
  /\ UNCHANGED <<hooked, lookup>>

Unhook ==
  /\ hooked
  /\ hooked' = FALSE
  /\ UNCHANGED <<entries, installed, size, lookup>>

\* Taking the table down after the hook is withdrawn, newest entry first.
Drop ==
  /\ ~hooked
  /\ size > 0
  /\ size' = size - 1
  /\ UNCHANGED <<entries, installed, hooked, lookup>>

Call(c, p) ==
  /\ hooked
  /\ phase[c] = "idle"
  /\ phase' = [phase EXCEPT ![c] = "called"]
  /\ pkt' = [pkt EXCEPT ![c] = p]
  /\ UNCHANGED <<entries, installed, size, hooked, instant, steered>>

\* The instant at which the lookup takes effect.
See(c) ==
  /\ phase[c] = "called"
  /\ phase' = [phase EXCEPT ![c] = "seen"]
  /\ instant' = [instant EXCEPT ![c] = size]
  /\ UNCHANGED <<entries, installed, size, hooked, pkt, steered>>

Return(c) ==
  /\ phase[c] = "seen"
  /\ phase' = [phase EXCEPT ![c] = "idle"]
  /\ \E r \in Answers(entries, instant[c], pkt[c]) :
       steered' = [steered EXCEPT ![c] = r]
  /\ UNCHANGED <<entries, installed, size, hooked, pkt, instant>>

\* The lookup never returns: the table is being taken down under it, or it
\* reached an entry whose match cannot be evaluated.
Lose(c) ==
  /\ phase[c] = "seen"
  /\ phase' = [phase EXCEPT ![c] = "lost"]
  /\ ~hooked \/ Faults(entries, instant[c], pkt[c]) # {}
  /\ UNCHANGED <<entries, installed, size, hooked, pkt, instant, steered>>

Next ==
  \/ Hook \/ Unhook \/ Drop
  \/ \E e \in Entry : Install(e)
  \/ \E c \in Cpu : See(c) \/ Return(c) \/ Lose(c)
  \/ \E c \in Cpu, p \in Packet : Call(c, p)

Spec == Init /\ [][Next]_vars
=============================================================================
