---------------------------- MODULE VseFlowTable ----------------------------
(***************************************************************************)
(* The flow table of vse_flow_table.c as three kinds of thread share it,   *)
(* with the module's load and unload around it (vse_main.c):               *)
(*                                                                         *)
(*   - one adder: vse_add_table_entry[_and_irq], called from an ioctl      *)
(*     under the big kernel lock, its stores becoming visible one by one;  *)
(*   - one lookup per processor: vse_handle_data in softirq, which takes   *)
(*     no lock and follows the list's next pointers;                       *)
(*   - the unloader: vse_cleanup, which withdraws the hook and the device  *)
(*     and frees the entries without waiting for lookups under way.        *)
(*                                                                         *)
(* A pointer is the number of an entry, in the order of allocation; 0 is   *)
(* the list head &flow_table and NULL is -1.                               *)
(***************************************************************************)
EXTENDS VseMatch

CONSTANTS
  Cpu,          \* processors that receive packets
  Data,         \* struct vse_match values that callers ask entries for
  Irq,          \* values of the __u8 irq they ask for
  Packet,       \* packets, as far as vse_do_match tells them apart
  MaxEntries,   \* bound: allocations that succeed
  Kept,         \* pairs of stores the machine makes visible in program order
  NoEntry       \* not an entry

NO_IRQ == 255

\* Mutant: list_add forgets the old first entry's backward link.
Mut_Stores == {"contents", "new_next", "new_prev", "publish"}

\* The stores of an add: the entry's contents and the four of list_add.
Stores == {"contents", "next_prev", "new_next", "new_prev", "publish"}

Node == 1..MaxEntries
NULL == -1
Pointer == -1..MaxEntries
Entry == [match : {vse_set_entry_match(d) : d \in Data}, irq : Irq \cup {NO_IRQ}]

ASSUME FlowTableAssumption ==
  /\ MaxEntries \in Nat \ {0}
  /\ \A k \in Kept : k \subseteq Stores
  /\ NoEntry \notin Entry

VARIABLES
  module,   \* how far the module is loaded or unloaded
  made,     \* number of entries allocated so far; the adder works on the last
  entry,    \* entry[n]: match and irq of entry n, NoEntry if not allocated
  mem,      \* mem[n]: "unused", "live" or "freed"
  nxt,      \* nxt[n]: list.next, of the head and of every entry
  prv,      \* prv[n]: list.prev
  pending,  \* stores of the running add that are not visible yet
  succ,     \* head->next as the running list_add read it
  victim,   \* the entry vse_delete_entry is deleting, 0 for none
  pc,       \* pc[c]: where the lookup of processor c is
  pkt,      \* pkt[c]: the packet it is for
  pos,      \* pos[c]: its cursor p
  first,    \* first[c]: history, what it read from the head
  steered   \* steered[c]: the entry whose irq the last lookup used, 0 for none

adder    == <<made, entry, pending, succ>>
unloader == <<module, mem, victim>>
links    == <<nxt, prv>>
lookup   == <<pc, pkt, pos, first, steered>>
vars     == <<module, made, entry, mem, nxt, prv, pending, succ, victim,
              pc, pkt, pos, first, steered>>

\* Mutant: the hook is withdrawn last, after the entries are freed.
Mut_Hooked == module \notin {"absent", "gone"}

\* vse_handler is set: the driver passes packets to the module.
Hooked == module \in {"hooked", "ready"}

\* Mutant: the list head is left zeroed.
Mut_EmptyLinks == [n \in 0..MaxEntries |-> NULL]

\* LIST_HEAD(flow_table): the head points at itself, no entry is linked.
EmptyLinks == [n \in 0..MaxEntries |-> IF n = 0 THEN 0 ELSE NULL]

Init ==
  /\ module = "absent"
  /\ made = 0
  /\ entry = [n \in Node |-> NoEntry]
  /\ mem = [n \in Node |-> "unused"]
  /\ nxt = EmptyLinks
  /\ prv = EmptyLinks
  /\ pending = {}
  /\ succ = 0
  /\ victim = 0
  /\ pc = [c \in Cpu |-> "idle"]
  /\ pkt \in [Cpu -> Packet]
  /\ pos = [c \in Cpu |-> 0]
  /\ first = [c \in Cpu |-> 0]
  /\ steered = [c \in Cpu |-> 0]

-----------------------------------------------------------------------------
(* Loading: vse_handler is set before the device is registered.  Nothing   *)
(* looks at what register_chrdev returns: a module whose device could not  *)
(* be registered is a "ready" one in which no add ever runs.               *)

vse_init_handler ==
  /\ module = "absent"
  /\ module' = "hooked"
  /\ UNCHANGED <<adder, links, mem, victim, lookup>>

vse_init_chrdev ==
  /\ module = "hooked"
  /\ module' = "ready"
  /\ UNCHANGED <<adder, links, mem, victim, lookup>>

-----------------------------------------------------------------------------
(* Adding an entry.  A failed kzalloc returns false and leaves everything  *)
(* as it was.  When it succeeds, the contents and the four links are plain *)
(* stores: list_add publishes the entry with the last of them.             *)

\* Mutant: list_add is called before the entry is filled in.
Mut_Rank == [next_prev |-> 1, new_next |-> 2, new_prev |-> 3, publish |-> 4,
             contents |-> 5]

\* Mutant: the head is switched over before the new entry's own link is set.
Mut_RankHead == [contents |-> 1, publish |-> 2, next_prev |-> 3, new_next |-> 4,
                 new_prev |-> 5]

\* Program order.
Rank == [contents |-> 1, next_prev |-> 2, new_next |-> 3, new_prev |-> 4,
         publish |-> 5]

vse_add_table_entry_and_irq(data, irq) ==
  /\ module = "ready"
  /\ pending = {}
  /\ made < MaxEntries
  /\ made' = made + 1
  /\ mem' = [mem EXCEPT ![made + 1] = "live"]
  /\ entry' = [entry EXCEPT ![made + 1] =
                 [match |-> vse_set_entry_match(data), irq |-> irq]]
  /\ pending' = Stores
  /\ succ' = nxt[0]
  /\ UNCHANGED <<module, victim, links, lookup>>

vse_add_table_entry(data) == vse_add_table_entry_and_irq(data, NO_IRQ)

\* Two stores the machine may reorder, or the compiler, come in either order.
MayComplete(s) == \A t \in pending : {s, t} \in Kept => Rank[s] <= Rank[t]

list_add(s) ==
  /\ s \in pending
  /\ MayComplete(s)
  /\ pending' = pending \ {s}
  /\ prv' = CASE s = "next_prev" -> [prv EXCEPT ![succ] = made]
              [] s = "new_prev"  -> [prv EXCEPT ![made] = 0]
              [] OTHER           -> prv
  /\ nxt' = CASE s = "new_next" -> [nxt EXCEPT ![made] = succ]
              [] s = "publish"  -> [nxt EXCEPT ![0] = made]
              [] OTHER          -> nxt
  /\ UNCHANGED <<made, entry, succ, unloader, lookup>>

-----------------------------------------------------------------------------
(* A lookup.  Memory that is not a live entry must not be read: a cursor   *)
(* that gets there is "wild", and nothing is said of what follows.         *)

\* The contents of n can be read in part before their stores are visible.
Outcomes(n, p) ==
  IF n = made /\ "contents" \in pending
  THEN {"hit", "miss", "fault"}
  ELSE vse_do_match(entry[n].match, p)

Live(n) == n \in Node /\ mem[n] = "live"

\* The driver calls the hook (external) and vse_handle_data the lookup.
vse_handle_data(c, p) ==
  /\ Hooked
  /\ pc[c] = "idle"
  /\ pc' = [pc EXCEPT ![c] = "called"]
  /\ pkt' = [pkt EXCEPT ![c] = p]
  /\ UNCHANGED <<adder, unloader, links, pos, first, steered>>

\* list_for_each reads flow_table->next.
ReadHead(c) ==
  /\ pc[c] = "called"
  /\ pos' = [pos EXCEPT ![c] = nxt[0]]
  /\ first' = [first EXCEPT ![c] = nxt[0]]
  /\ pc' = [pc EXCEPT ![c] = "compare"]
  /\ UNCHANGED <<adder, unloader, links, pkt, steered>>

\* Mutant: the entry compared last is returned when the list is exhausted
\* (no "entry = NULL" in the loop).
Mut_NotFound(c) ==
  /\ pc[c] = "compare"
  /\ pos[c] = 0
  /\ pc' = [pc EXCEPT ![c] = "idle"]
  /\ steered' = [steered EXCEPT ![c] = IF first[c] = 0 THEN 0 ELSE 1]
  /\ UNCHANGED <<adder, unloader, links, pkt, pos, first>>

\* The cursor is back at the head: no entry, and vse_do_rps is not called.
NotFound(c) ==
  /\ pc[c] = "compare"
  /\ pos[c] = 0
  /\ pc' = [pc EXCEPT ![c] = "idle"]
  /\ steered' = [steered EXCEPT ![c] = 0]
  /\ UNCHANGED <<adder, unloader, links, pkt, pos, first>>

Compare(c) ==
  /\ pc[c] = "compare"
  /\ Live(pos[c])
  /\ \E o \in Outcomes(pos[c], pkt[c]) :
       pc' = [pc EXCEPT ![c] = CASE o = "hit"   -> "found"
                                 [] o = "miss"  -> "advance"
                                 [] o = "fault" -> "wild"]
  /\ UNCHANGED <<adder, unloader, links, pkt, pos, first, steered>>

\* Mutant: the cursor does not move on.
Mut_Advance(c) ==
  /\ pc[c] = "advance"
  /\ Live(pos[c])
  /\ pc' = [pc EXCEPT ![c] = "compare"]
  /\ UNCHANGED <<adder, unloader, links, pkt, pos, first, steered>>

Advance(c) ==
  /\ pc[c] = "advance"
  /\ Live(pos[c])
  /\ pos' = [pos EXCEPT ![c] = nxt[pos[c]]]
  /\ pc' = [pc EXCEPT ![c] = "compare"]
  /\ UNCHANGED <<adder, unloader, links, pkt, first, steered>>

\* vse_do_rps reads entry->irq of the entry the lookup returned.
UseEntry(c) ==
  /\ pc[c] = "found"
  /\ Live(pos[c])
  /\ steered' = [steered EXCEPT ![c] = pos[c]]
  /\ pc' = [pc EXCEPT ![c] = "idle"]
  /\ UNCHANGED <<adder, unloader, links, pkt, pos, first>>

GoWild(c) ==
  /\ pc[c] \in {"compare", "advance", "found"}
  /\ pos[c] # 0
  /\ ~Live(pos[c])
  /\ pc' = [pc EXCEPT ![c] = "wild"]
  /\ UNCHANGED <<adder, unloader, links, pkt, pos, first, steered>>

Step(c) ==
  ReadHead(c) \/ NotFound(c) \/ Compare(c) \/ Advance(c) \/ UseEntry(c) \/ GoWild(c)

-----------------------------------------------------------------------------
(* Unloading.  rmmod is refused while the device is open, and an add only  *)
(* runs inside an ioctl on the open device.                                *)

vse_cleanup_handler ==
  /\ module = "ready"
  /\ pending = {}
  /\ module' = "unhooked"
  /\ UNCHANGED <<adder, links, mem, victim, lookup>>

vse_cleanup_chrdev ==
  /\ module = "unhooked"
  /\ module' = "cleaning"
  /\ UNCHANGED <<adder, links, mem, victim, lookup>>

\* Mutant: the entry is deleted without being taken off the list.
Mut_Unlink ==
  /\ module = "cleaning"
  /\ victim = 0
  /\ nxt[0] # 0
  /\ victim' = nxt[0]
  /\ UNCHANGED <<adder, module, mem, links, lookup>>

\* The head of vse_clean_up_flow_table's loop, and vse_delete_entry up to the
\* stores of __list_del on the victim's neighbours.
Unlink ==
  /\ module = "cleaning"
  /\ victim = 0
  /\ nxt[0] # 0
  /\ LET e == nxt[0]
     IN  /\ victim' = e
         /\ prv' = [prv EXCEPT ![nxt[e]] = prv[e]]
         /\ nxt' = [nxt EXCEPT ![prv[e]] = nxt[e]]
  /\ UNCHANGED <<adder, module, mem, lookup>>

\* list_del poisons the victim's own links, vse_delete_entry sets them to NULL.
ClearLinks ==
  /\ victim # 0
  /\ nxt[victim] # NULL
  /\ nxt' = [nxt EXCEPT ![victim] = NULL]
  /\ prv' = [prv EXCEPT ![victim] = NULL]
  /\ UNCHANGED <<adder, unloader, lookup>>

Free ==
  /\ victim # 0
  /\ nxt[victim] = NULL
  /\ mem' = [mem EXCEPT ![victim] = "freed"]
  /\ victim' = 0
  /\ UNCHANGED <<adder, module, links, lookup>>

\* Mutant: only the first entry is deleted ("if" for "while").
Mut_CleanUpDone ==
  /\ module = "cleaning"
  /\ victim = 0
  /\ module' = "gone"
  /\ UNCHANGED <<adder, mem, victim, links, lookup>>

\* vse_cleanup returns.  The module's own memory, the list head in it, outlives
\* every lookup under way: freeing it waits for all processors (external).
CleanUpDone ==
  /\ module = "cleaning"
  /\ victim = 0
  /\ nxt[0] = 0
  /\ module' = "gone"
  /\ UNCHANGED <<adder, mem, victim, links, lookup>>

vse_cleanup ==
  vse_cleanup_chrdev \/ Unlink \/ ClearLinks \/ Free \/ CleanUpDone

-----------------------------------------------------------------------------
Next ==
  \/ vse_init_handler \/ vse_init_chrdev
  \/ vse_cleanup_handler \/ vse_cleanup
  \/ \E d \in Data : vse_add_table_entry(d)
  \/ \E d \in Data, i \in Irq : vse_add_table_entry_and_irq(d, i)
  \/ \E s \in Stores : list_add(s)
  \/ \E c \in Cpu, p \in Packet : vse_handle_data(c, p)
  \/ \E c \in Cpu : Step(c)

Spec == Init /\ [][Next]_vars

\* A softirq and a running rmmod are not abandoned halfway.
Fairness ==
  /\ WF_vars(vse_cleanup)
  /\ \A c \in Cpu : WF_vars(Step(c))

FairSpec == Spec /\ Fairness

-----------------------------------------------------------------------------
(* Properties.                                                             *)

TypeOK ==
  /\ module \in {"absent", "hooked", "ready", "unhooked", "cleaning", "gone"}
  /\ made \in 0..MaxEntries
  /\ entry \in [Node -> Entry \cup {NoEntry}]
  /\ \A n \in 1..made : entry[n] \in Entry
  /\ mem \in [Node -> {"unused", "live", "freed"}]
  /\ nxt \in [0..MaxEntries -> Pointer]
  /\ prv \in [0..MaxEntries -> Pointer]
  /\ pending \in SUBSET Stores
  /\ succ \in 0..MaxEntries
  /\ victim \in 0..MaxEntries
  /\ pc \in [Cpu -> {"idle", "called", "compare", "advance", "found", "wild"}]
  /\ pkt \in [Cpu -> Packet]
  /\ pos \in [Cpu -> Pointer]
  /\ first \in [Cpu -> Pointer]
  /\ steered \in [Cpu -> 0..MaxEntries]

\* Number of entries that list_add has published.
Published == IF "publish" \in pending THEN made - 1 ELSE made

\* A lookup that took no lock still returns the entry the table's order calls
\* for: it accepts the packet, and every newer entry that was in the table when
\* the lookup read its head turned the packet down.
NewestEntryWins ==
  \A c \in Cpu : pc[c] = "found" =>
    /\ pos[c] \in 1..first[c]
    /\ "hit" \in vse_do_match(entry[pos[c]].match, pkt[c])
    /\ \A n \in (pos[c] + 1)..first[c] :
         "miss" \in vse_do_match(entry[n].match, pkt[c])

\* A match on vm_id dereferences an uninitialized pointer.
MayFault == \E n \in 1..made : "vm_id" \in entry[n].match.exact

\* Adding entries never leads a concurrent lookup to memory that is not a
\* complete entry: only an unload in progress or a vm_id match does.
WalkSafeUntilUnload ==
  (\E c \in Cpu : pc[c] = "wild") => ~Hooked \/ MayFault

\* Whenever no add is running, every entry can be reached from the head, newest
\* first, and the backward links that list_del relies on mirror the forward ones.
ListIntact ==
  Hooked /\ pending = {} =>
    /\ nxt[0] = made
    /\ \A n \in 1..made : nxt[n] = n - 1 /\ mem[n] = "live"
    /\ \A n \in 0..made : prv[nxt[n]] = n

\* Freed memory is out of reach of everything but a cursor that stood on it:
\* neither the head nor an entry that is still allocated leads there.
FreedUnreachable ==
  \A n \in Node : mem[n] = "freed" =>
    /\ ~Hooked
    /\ nxt[0] # n
    /\ \A m \in Node : mem[m] = "live" => nxt[m] # n

\* Each lookup ends, whatever is added while it runs.
LookupEnds == \A c \in Cpu : (pc[c] = "called") ~> (pc[c] \in {"idle", "wild"})

\* Once the hook is withdrawn the unload ends, with every entry freed.
UnloadFreesAll ==
  (module = "unhooked") ~> (module = "gone" /\ \A n \in 1..made : mem[n] = "freed")

-----------------------------------------------------------------------------
(* Why it is so: an inductive invariant.  In whatever order the stores of  *)
(* an add become visible, the entries 1..nxt[0] form a complete list but   *)
(* for the front one's own link, whatever is being added in front of it or *)
(* has been taken off its front.  A walk that runs meanwhile needs an      *)
(* entry's contents and its forward link to be there before the entry is   *)
(* published, all that list_add_rcu would have guaranteed.                 *)

PublishedLast == {{"contents", "publish"}, {"new_next", "publish"}} \subseteq Kept

ChainInv ==
  /\ nxt[0] \in 0..made
  /\ \A n \in 1..nxt[0] : /\ mem[n] = "live"
                          /\ nxt[n] # n - 1 => n = made /\ "new_next" \in pending
  /\ \A n \in Node : n > made => mem[n] = "unused"
  /\ pending = {} => /\ prv[nxt[0]] = 0
                     /\ \A n \in 0..(nxt[0] - 1) : prv[n] = n + 1

\* Each link that an add sets is what it was before, or what it will be.
AddInv ==
  pending # {} =>
    /\ module = "ready"
    /\ made > 0
    /\ mem[made] = "live"
    /\ succ = made - 1
    /\ \A n \in 0..(made - 2) : prv[n] = n + 1
    /\ prv[made - 1] = IF "next_prev" \in pending THEN 0 ELSE made
    /\ "new_next" \notin pending => nxt[made] = made - 1
    /\ "new_prev" \notin pending => prv[made] = 0

\* Up to the unload every published entry is in the list.
LoadInv ==
  /\ Hooked \/ module \in {"absent", "unhooked"} =>
       victim = 0 /\ nxt[0] = Published
  /\ module \in {"absent", "hooked"} => made = 0

\* During it, an entry off the list is freed or the one being deleted.
UnloadInv ==
  /\ victim \in {0, nxt[0] + 1}
  /\ victim # 0 => /\ victim <= made
                   /\ mem[victim] = "live"
                   /\ nxt[victim] \in {victim - 1, NULL}
  /\ \A n \in (nxt[0] + 1)..Published :
       n # victim => mem[n] = "freed" /\ nxt[n] = NULL

\* What holds of the list and of the threads that change it, whatever Kept is.
ListInv == TypeOK /\ ChainInv /\ AddInv /\ LoadInv /\ UnloadInv

\* What the walk needs of an entry is there before the entry is published; the
\* backward links, which only the unload reads, may come later.
OrderInv == "contents" \in pending \/ "new_next" \in pending => "publish" \in pending

\* A lookup stands on or below the entry it first read, and every entry it
\* has passed turned its packet down.
ReaderInv(c) ==
  /\ pc[c] \in {"compare", "advance", "found"} =>
       /\ first[c] \in 0..Published
       /\ pos[c] \in -1..first[c]
       /\ Hooked => pos[c] >= 0
       /\ pc[c] # "compare" => pos[c] > 0
       /\ pos[c] >= 0 => \A n \in (pos[c] + 1)..first[c] :
                           "miss" \in vse_do_match(entry[n].match, pkt[c])
  /\ pc[c] = "advance" => "miss" \in vse_do_match(entry[pos[c]].match, pkt[c])
  /\ pc[c] = "found" => "hit" \in vse_do_match(entry[pos[c]].match, pkt[c])
  /\ pc[c] = "wild" => ~Hooked \/ MayFault
  /\ module = "absent" => pc[c] = "idle"

\* The inductive invariant of the list, the threads that change it and those
\* that walk it.
IInv == ListInv /\ OrderInv /\ \A c \in Cpu : ReaderInv(c)

-----------------------------------------------------------------------------
(* The lock-free list implements the abstract table.                       *)

AbstractEntries == [n \in Node |-> IF n <= Published THEN entry[n] ELSE NoEntry]

PhaseOf(v) == CASE v \in {"compare", "advance", "found"} -> "seen"
                [] v = "wild" -> "lost"
                [] OTHER      -> v

AbstractPhase == [c \in Cpu |-> PhaseOf(pc[c])]

Abstract == INSTANCE FlowTable WITH
  entries   <- AbstractEntries,
  installed <- Published,
  size      <- nxt[0],
  hooked    <- Hooked,
  phase     <- AbstractPhase,
  instant   <- first

ImplementsFlowTable == Abstract!Spec
=============================================================================
