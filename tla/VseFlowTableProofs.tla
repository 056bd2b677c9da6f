------------------------- MODULE VseFlowTableProofs -------------------------
(***************************************************************************)
(* Proofs about the lock-free flow table, for any number of processors,    *)
(* entries, requests and packets: about the list itself on every machine,  *)
(* about the lookups on every machine that makes an entry's contents and   *)
(* forward link visible before it publishes the entry.                     *)
(***************************************************************************)
EXTENDS VseFlowTable, TLAPS

USE FlowTableAssumption

\* What one comparison can come to, and that only a vm_id match can fault.
LEMMA MatchOutcome ==
  ASSUME NEW m, NEW p
  PROVE  /\ vse_do_match(m, p) \subseteq {"hit", "miss", "fault"}
         /\ "fault" \in vse_do_match(m, p) => "vm_id" \in m.exact
  BY Zenon DEF vse_do_match

\* Published entries are the oldest ones, and one at most is unpublished.
LEMMA PublishedRange ==
  ASSUME ListInv
  PROVE  /\ made \in 0..MaxEntries
         /\ Published \in 0..made
         /\ Published >= made - 1
         /\ nxt[0] \in 0..Published
         /\ pending # {} => made \in Node /\ nxt[0] = Published
         /\ pending = {} => Published = made
<1>1. made \in 0..MaxEntries /\ nxt[0] \in 0..made
  BY DEF ListInv, TypeOK, ChainInv
<1>2. CASE pending = {}
  BY <1>1, <1>2 DEF Published
<1>3. CASE pending # {}
  <2>1. module = "ready" /\ made > 0
    BY <1>3 DEF ListInv, AddInv
  <2>2. Published \in {made - 1, made}
    BY DEF Published
  <2>3. nxt[0] = Published
    BY <2>1 DEF ListInv, LoadInv, Hooked
  <2>4. QED
    BY <1>1, <1>3, <2>1, <2>2, <2>3 DEF Node
<1>4. QED
  BY <1>2, <1>3

THEOREM InitEstablishes == Init => IInv
<1> SUFFICES ASSUME Init PROVE IInv
  OBVIOUS
<1>1. TypeOK
  BY DEF Init, TypeOK, Node, Pointer, NULL, EmptyLinks, Stores
<1>2. ChainInv /\ AddInv /\ LoadInv /\ UnloadInv /\ OrderInv
  BY DEF Init, ChainInv, AddInv, LoadInv, UnloadInv, OrderInv, EmptyLinks, Published,
         Hooked, Node, NULL
<1>3. \A c \in Cpu : ReaderInv(c)
  BY DEF Init, ReaderInv
<1>4. QED
  BY <1>1, <1>2, <1>3 DEF IInv, ListInv

LEMMA TableUndisturbed ==
  ASSUME ListInv, UNCHANGED <<adder, unloader, links>>
  PROVE  /\ ChainInv' /\ AddInv' /\ LoadInv' /\ UnloadInv'
         /\ (Published' = Published) /\ (Hooked' = Hooked)
  BY DEF ListInv, adder, unloader, links, ChainInv, AddInv, LoadInv, UnloadInv, Published,
         Hooked

-----------------------------------------------------------------------------
(* The list, in whatever order the stores of an add become visible.        *)

\* What a step must leave alone for the lookups under way to go on undisturbed.
Quiet ==
  /\ UNCHANGED lookup
  /\ Published' \in Int /\ Published <= Published' /\ made' \in Int /\ made <= made'
  /\ \A n \in 1..made : entry'[n] = entry[n]
  /\ Hooked' => Hooked
  /\ module' = "absent" => module = "absent"

LEMMA HandlerStep ==
  ASSUME ListInv, vse_init_handler \/ vse_init_chrdev \/ vse_cleanup_handler \/ vse_cleanup_chrdev
  PROVE  ListInv' /\ (Quiet \/ vse_init_handler)
<1>1. /\ UNCHANGED <<adder, links, mem, victim, lookup>>
      /\ (Published' = Published)
  BY DEF vse_init_handler, vse_init_chrdev, vse_cleanup_handler, vse_cleanup_chrdev,
         adder, Published
<1>2. /\ <<module, module'>> \in {<<"absent", "hooked">>, <<"hooked", "ready">>,
                                  <<"ready", "unhooked">>, <<"unhooked", "cleaning">>}
      /\ module' = "unhooked" => pending = {}
  BY DEF vse_init_handler, vse_init_chrdev, vse_cleanup_handler, vse_cleanup_chrdev
<1>3. TypeOK'
  BY <1>1, <1>2 DEF ListInv, TypeOK, adder, links, lookup
<1>4. ChainInv' /\ AddInv' /\ UnloadInv'
  BY <1>1, <1>2 DEF ListInv, ChainInv, AddInv, UnloadInv, adder, links
<1>5. LoadInv'
  BY <1>1, <1>2, PublishedRange DEF ListInv, LoadInv, Hooked, adder, links
<1>6. ~vse_init_handler => Quiet
  BY <1>1, <1>2, PublishedRange
  DEF vse_init_chrdev, vse_cleanup_handler, vse_cleanup_chrdev, Quiet, Hooked, adder
<1>7. QED
  BY <1>3, <1>4, <1>5, <1>6 DEF ListInv

LEMMA AddStep ==
  ASSUME ListInv, NEW d \in Data, NEW i \in Irq \cup {NO_IRQ}, vse_add_table_entry_and_irq(d, i)
  PROVE  ListInv' /\ Quiet
<1>1. /\ module = "ready" /\ pending = {} /\ made \in 0..MaxEntries /\ made < MaxEntries
      /\ nxt[0] = made /\ Published = made /\ MaxEntries \in Nat
  BY PublishedRange DEF ListInv, LoadInv, Hooked, vse_add_table_entry_and_irq
<1>2. /\ made' = made + 1 /\ pending' = Stores /\ succ' = made
      /\ mem' = [mem EXCEPT ![made + 1] = "live"]
      /\ UNCHANGED <<module, victim, nxt, prv, lookup>>
  BY <1>1 DEF vse_add_table_entry_and_irq, links
<1>3. /\ Published' = made /\ (Hooked' = Hooked)
  BY <1>1, <1>2 DEF Published, Hooked, Stores
<1>4. \A n \in Node : n # made + 1 => mem'[n] = mem[n] /\ entry'[n] = entry[n]
  BY <1>2 DEF ListInv, TypeOK, vse_add_table_entry_and_irq
<1>5. TypeOK'
  <2>1. [match |-> vse_set_entry_match(d), irq |-> i] \in Entry
    BY DEF Entry
  <2>2. entry' \in [Node -> Entry \cup {NoEntry}]
    BY <2>1 DEF ListInv, TypeOK, vse_add_table_entry_and_irq
  <2>3. mem' \in [Node -> {"unused", "live", "freed"}]
    BY <1>2 DEF ListInv, TypeOK
  <2>4. made' \in 0..MaxEntries /\ succ' \in 0..MaxEntries
    BY <1>1, <1>2
  <2>5. pending' \in SUBSET Stores
    BY <1>2
  <2>6. \A n \in 1..made' : entry'[n] \in Entry
    <3>1. entry'[made + 1] \in Entry
      BY <1>1, <2>1 DEF ListInv, TypeOK, vse_add_table_entry_and_irq, Node
    <3>2. QED
      BY <1>1, <1>2, <1>4, <3>1 DEF ListInv, TypeOK, Node
  <2>7. QED
    BY <1>2, <2>2, <2>3, <2>4, <2>5, <2>6 DEF ListInv, TypeOK, lookup
<1>6. ChainInv'
  BY <1>1, <1>2, <1>4 DEF ListInv, TypeOK, ChainInv, Stores, Node
<1>7. AddInv'
  <2>1. mem'[made + 1] = "live"
    BY <1>1, <1>2 DEF ListInv, TypeOK, Node
  <2>2. /\ \A n \in 0..(made - 1) : prv[n] = n + 1
        /\ prv[made] = 0
    BY <1>1 DEF ListInv, ChainInv
  <2>3. QED
    BY <1>1, <1>2, <2>1, <2>2 DEF AddInv, Stores
<1>8. LoadInv' /\ UnloadInv'
  BY <1>1, <1>2, <1>3 DEF ListInv, LoadInv, UnloadInv, Hooked
<1>9. Quiet
  <2>1. \A n \in 1..made : entry'[n] = entry[n]
    BY <1>1, <1>4 DEF Node
  <2>2. QED
    BY <1>1, <1>2, <1>3, <2>1 DEF Quiet
<1>10. QED
  BY <1>5, <1>6, <1>7, <1>8, <1>9 DEF ListInv

\* The links while an add runs, and when it has just ended: each is what list_add
\* makes of it, or what it was before.
AddLinks ==
  /\ made \in Node /\ succ = made - 1 /\ mem[made] = "live"
  /\ nxt \in [0..MaxEntries -> Pointer] /\ prv \in [0..MaxEntries -> Pointer]
  /\ nxt[0] = IF "publish" \in pending THEN made - 1 ELSE made
  /\ \A n \in 1..(made - 1) : nxt[n] = n - 1 /\ mem[n] = "live"
  /\ "new_next" \notin pending => nxt[made] = made - 1
  /\ \A n \in 0..(made - 2) : prv[n] = n + 1
  /\ prv[made - 1] = IF "next_prev" \in pending THEN 0 ELSE made
  /\ "new_prev" \notin pending => prv[made] = 0

LEMMA LinksOfAdd ==
  ASSUME ListInv, pending # {}
  PROVE  AddLinks
<1>1. /\ nxt \in [0..MaxEntries -> Pointer] /\ prv \in [0..MaxEntries -> Pointer]
      /\ made \in Node /\ made \in Nat /\ nxt[0] = Published
  BY PublishedRange DEF ListInv, TypeOK
<1>2. \A n \in 1..(made - 1) : nxt[n] = n - 1 /\ mem[n] = "live"
  BY <1>1 DEF ListInv, ChainInv, Published
<1>3. QED
  BY <1>1, <1>2 DEF ListInv, AddInv, AddLinks, Published

\* A store that becomes visible leaves them so.
LEMMA StoreLinks ==
  ASSUME ListInv, NEW s \in Stores, list_add(s)
  PROVE  AddLinks'
<1>1. /\ s \in pending /\ pending' = pending \ {s}
      /\ UNCHANGED <<made, succ, mem>>
      /\ AddLinks
  BY LinksOfAdd DEF list_add, unloader
<1>2. /\ made \in Nat /\ made > 0 /\ made <= MaxEntries /\ MaxEntries \in Nat
      /\ 0 \in Pointer /\ made \in Pointer /\ made - 1 \in Pointer
  BY <1>1 DEF AddLinks, Node, Pointer
<1>3. CASE s = "contents"
  BY <1>1, <1>2, <1>3 DEF AddLinks, list_add
<1>4. CASE s = "next_prev"
  <2>1. nxt' = nxt /\ prv' = [prv EXCEPT ![made - 1] = made]
    BY <1>1, <1>4 DEF AddLinks, list_add
  <2>2. QED
    BY <1>1, <1>2, <1>4, <2>1 DEF AddLinks
<1>5. CASE s = "new_next"
  <2>1. prv' = prv /\ nxt' = [nxt EXCEPT ![made] = made - 1]
    BY <1>1, <1>5 DEF AddLinks, list_add
  <2>2. QED
    BY <1>1, <1>2, <1>5, <2>1 DEF AddLinks
<1>6. CASE s = "new_prev"
  <2>1. nxt' = nxt /\ prv' = [prv EXCEPT ![made] = 0]
    BY <1>6 DEF list_add
  <2>2. QED
    BY <1>1, <1>2, <1>6, <2>1 DEF AddLinks
<1>7. CASE s = "publish"
  <2>1. prv' = prv /\ nxt' = [nxt EXCEPT ![0] = made]
    BY <1>7 DEF list_add
  <2>2. QED
    BY <1>1, <1>2, <1>7, <2>1 DEF AddLinks
<1>8. QED
  BY <1>3, <1>4, <1>5, <1>6, <1>7 DEF Stores

LEMMA StoreStep ==
  ASSUME ListInv, NEW s \in Stores, list_add(s)
  PROVE  ListInv' /\ Quiet
<1>1. /\ s \in pending /\ pending' = pending \ {s}
      /\ UNCHANGED <<made, entry, succ, module, mem, victim, lookup>>
  BY DEF list_add, unloader
<1>2. AddLinks /\ AddLinks'
  BY <1>1, LinksOfAdd, StoreLinks
<1>3. /\ module = "ready" /\ made \in Nat /\ made > 0 /\ victim = 0
      /\ Published = nxt[0] /\ Published' = nxt'[0] /\ Published <= Published'
      /\ nxt[0] \in {made - 1, made} /\ nxt'[0] \in {made - 1, made}
  <2>1. module = "ready" /\ made \in Nat /\ made > 0 /\ victim = 0
    BY <1>1, <1>2 DEF ListInv, AddInv, LoadInv, Hooked, AddLinks, Node
  <2>2. QED
    BY <1>1, <1>2, <2>1 DEF AddLinks, Published
<1>4. Hooked /\ Hooked'
  BY <1>1, <1>3 DEF Hooked
<1>5. TypeOK'
  BY <1>1, <1>2 DEF ListInv, TypeOK, AddLinks, lookup
<1>6. ChainInv'
  <2>1. nxt'[0] \in 0..made'
    BY <1>1, <1>3
  <2>2. \A n \in 1..nxt'[0] :
          /\ mem'[n] = "live"
          /\ nxt'[n] # n - 1 => n = made' /\ "new_next" \in pending'
    <3>1. \A n \in 1..(made - 1) : nxt'[n] = n - 1 /\ mem'[n] = "live"
      BY <1>1, <1>2 DEF AddLinks
    <3>2. /\ mem'[made] = "live"
          /\ "new_next" \notin pending' => nxt'[made] = made - 1
      BY <1>1, <1>2, <1>3 DEF AddLinks
    <3>3. QED
      BY <1>1, <1>3, <3>1, <3>2
  <2>3. \A n \in Node : n > made => mem'[n] = "unused"
    BY <1>1 DEF ListInv, ChainInv
  <2>4. ASSUME pending' = {}
        PROVE  prv'[nxt'[0]] = 0 /\ \A n \in 0..(nxt'[0] - 1) : prv'[n] = n + 1
    <3>1. nxt'[0] = made /\ prv'[made] = 0 /\ prv'[made - 1] = made
      BY <1>1, <1>2, <2>4 DEF AddLinks
    <3>2. \A n \in 0..(made - 2) : prv'[n] = n + 1
      BY <1>1, <1>2 DEF AddLinks
    <3>3. QED
      BY <1>3, <3>1, <3>2
  <2>5. QED
    BY <1>1, <2>1, <2>2, <2>3, <2>4 DEF ChainInv
<1>7. AddInv'
  BY <1>1, <1>2, <1>3 DEF AddInv, AddLinks
<1>8. LoadInv' /\ UnloadInv'
  BY <1>1, <1>3, <1>4 DEF ListInv, LoadInv, UnloadInv, Hooked
<1>9. Quiet
  BY <1>1, <1>3, <1>4 DEF Quiet
<1>10. QED
  BY <1>5, <1>6, <1>7, <1>8, <1>9 DEF ListInv

\* While entries are being taken off the list nothing is being added.
LEMMA Cleaning ==
  ASSUME ListInv, victim # 0 \/ module = "cleaning"
  PROVE  /\ ~Hooked /\ module # "absent" /\ module # "unhooked" /\ pending = {}
         /\ Published = made /\ MaxEntries \in Nat /\ made \in Nat /\ made <= MaxEntries
         /\ nxt[0] \in 0..made
<1>1. ~Hooked /\ module \notin {"absent", "unhooked"}
  BY DEF ListInv, LoadInv, Hooked
<1>2. pending = {}
  BY <1>1 DEF ListInv, AddInv, Hooked
<1>3. QED
  BY <1>1, <1>2, PublishedRange DEF Hooked

LEMMA UnlinkStep ==
  ASSUME ListInv, Unlink
  PROVE  ListInv' /\ Quiet
<1> DEFINE e == nxt[0]
<1>1. /\ module = "cleaning" /\ victim = 0 /\ e # 0
      /\ ~Hooked /\ pending = {} /\ Published = made /\ MaxEntries \in Nat
      /\ made \in Nat /\ made <= MaxEntries /\ e \in 1..made
  BY Cleaning DEF Unlink
<1>2. /\ nxt[e] = e - 1 /\ mem[e] = "live" /\ prv[e] = 0
      /\ \A n \in 0..(e - 1) : prv[n] = n + 1
  BY <1>1 DEF ListInv, ChainInv
<1>3. /\ victim' = e
      /\ prv' = [prv EXCEPT ![e - 1] = 0]
      /\ nxt' = [nxt EXCEPT ![0] = e - 1]
      /\ UNCHANGED <<adder, module, mem, lookup>>
  BY <1>2 DEF Unlink
<1>4. TypeOK'
  <2>1. nxt' \in [0..MaxEntries -> Pointer] /\ prv' \in [0..MaxEntries -> Pointer]
    <3>1. 0 \in Pointer /\ e - 1 \in Pointer
      BY <1>1 DEF Pointer
    <3>2. QED
      BY <1>3, <3>1 DEF ListInv, TypeOK
  <2>2. victim' \in 0..MaxEntries
    BY <1>1, <1>3
  <2>3. QED
    BY <1>3, <2>1, <2>2 DEF ListInv, TypeOK, adder, lookup
<1>5. /\ nxt'[0] = e - 1 /\ \A n \in 1..made : nxt'[n] = nxt[n]
      /\ prv'[e - 1] = 0 /\ \A n \in 0..(e - 2) : prv'[n] = prv[n]
  BY <1>1, <1>3 DEF ListInv, TypeOK
<1>6. (Published' = made) /\ ~Hooked' /\ (made' = made) /\ (pending' = {})
  BY <1>1, <1>3 DEF Published, Hooked, adder
<1>7. ChainInv'
  BY <1>1, <1>2, <1>3, <1>5, <1>6 DEF ListInv, ChainInv
<1>8. AddInv' /\ LoadInv'
  BY <1>1, <1>3, <1>6 DEF AddInv, LoadInv
<1>9. UnloadInv'
  BY <1>1, <1>2, <1>3, <1>5, <1>6 DEF ListInv, UnloadInv
<1>10. Quiet
  BY <1>1, <1>3, <1>6 DEF Quiet, adder
<1>11. QED
  BY <1>4, <1>7, <1>8, <1>9, <1>10 DEF ListInv

LEMMA ClearStep ==
  ASSUME ListInv, ClearLinks
  PROVE  ListInv' /\ Quiet
<1>1. /\ victim # 0 /\ ~Hooked /\ pending = {} /\ Published = made /\ MaxEntries \in Nat
      /\ made \in Nat /\ made <= MaxEntries /\ nxt[0] \in 0..made
      /\ module \notin {"absent", "unhooked"}
  BY Cleaning DEF ClearLinks
<1>2. victim = nxt[0] + 1 /\ victim \in 1..made /\ mem[victim] = "live"
  BY <1>1 DEF ListInv, UnloadInv
<1>3. /\ nxt' = [nxt EXCEPT ![victim] = NULL]
      /\ prv' = [prv EXCEPT ![victim] = NULL]
      /\ UNCHANGED <<adder, unloader, lookup>>
  BY DEF ClearLinks
<1>4. TypeOK'
  <2>1. nxt' \in [0..MaxEntries -> Pointer] /\ prv' \in [0..MaxEntries -> Pointer]
    BY <1>3 DEF ListInv, TypeOK, Pointer, NULL
  <2>2. QED
    BY <1>3, <2>1 DEF ListInv, TypeOK, adder, unloader, lookup
<1>5. /\ nxt'[victim] = NULL
      /\ \A n \in 0..made : n # victim => nxt'[n] = nxt[n] /\ prv'[n] = prv[n]
  BY <1>1, <1>2, <1>3 DEF ListInv, TypeOK
<1>6. (Published' = made) /\ ~Hooked' /\ (made' = made) /\ (pending' = {}) /\ (nxt'[0] = nxt[0])
  BY <1>1, <1>2, <1>3, <1>5 DEF Published, Hooked, adder, unloader
<1>7. ChainInv'
  BY <1>1, <1>2, <1>3, <1>5, <1>6 DEF ListInv, ChainInv, unloader
<1>8. AddInv' /\ LoadInv'
  BY <1>1, <1>3, <1>6 DEF ListInv, AddInv, LoadInv, unloader
<1>9. UnloadInv'
  BY <1>1, <1>2, <1>3, <1>5, <1>6 DEF ListInv, UnloadInv, unloader
<1>10. Quiet
  BY <1>1, <1>3, <1>6 DEF Quiet, adder, unloader
<1>11. QED
  BY <1>4, <1>7, <1>8, <1>9, <1>10 DEF ListInv

LEMMA FreeStep ==
  ASSUME ListInv, Free
  PROVE  ListInv' /\ Quiet
<1>1. /\ victim # 0 /\ ~Hooked /\ pending = {} /\ Published = made /\ MaxEntries \in Nat
      /\ made \in Nat /\ made <= MaxEntries /\ nxt[0] \in 0..made
      /\ module \notin {"absent", "unhooked"}
  BY Cleaning DEF Free
<1>2. victim = nxt[0] + 1 /\ victim \in 1..made /\ nxt[victim] = NULL
  BY <1>1 DEF ListInv, UnloadInv, Free
<1>3. /\ mem' = [mem EXCEPT ![victim] = "freed"]
      /\ victim' = 0
      /\ UNCHANGED <<adder, module, links, lookup>>
  BY DEF Free
<1>4. TypeOK'
  <2>1. mem' \in [Node -> {"unused", "live", "freed"}]
    BY <1>3 DEF ListInv, TypeOK
  <2>2. victim' \in 0..MaxEntries
    BY <1>1, <1>3
  <2>3. QED
    BY <1>3, <2>1, <2>2 DEF ListInv, TypeOK, adder, links, lookup
<1>5. /\ mem'[victim] = "freed"
      /\ \A n \in Node : n # victim => mem'[n] = mem[n]
      /\ 1..made \subseteq Node
  BY <1>1, <1>2, <1>3 DEF ListInv, TypeOK, Node
<1>6. (Published' = made) /\ ~Hooked' /\ (made' = made) /\ (pending' = {})
      /\ (nxt' = nxt) /\ (prv' = prv)
  BY <1>1, <1>3 DEF Published, Hooked, adder, links
<1>7. ChainInv'
  BY <1>1, <1>2, <1>5, <1>6 DEF ListInv, ChainInv
<1>8. AddInv' /\ LoadInv'
  BY <1>1, <1>3, <1>6 DEF ListInv, AddInv, LoadInv
<1>9. UnloadInv'
  BY <1>1, <1>2, <1>3, <1>5, <1>6 DEF ListInv, UnloadInv
<1>10. Quiet
  BY <1>1, <1>3, <1>6 DEF Quiet, adder
<1>11. QED
  BY <1>4, <1>7, <1>8, <1>9, <1>10 DEF ListInv

LEMMA DoneStep ==
  ASSUME ListInv, CleanUpDone
  PROVE  ListInv' /\ Quiet
<1>1. /\ module = "cleaning" /\ ~Hooked /\ pending = {} /\ Published = made /\ made \in Nat
  BY Cleaning DEF CleanUpDone
<1>2. /\ module' = "gone" /\ UNCHANGED <<adder, mem, victim, links, lookup>>
  BY DEF CleanUpDone
<1>3. (Published' = made) /\ ~Hooked'
  BY <1>1, <1>2 DEF Published, Hooked, adder
<1>4. TypeOK'
  BY <1>2 DEF ListInv, TypeOK, adder, links, lookup
<1>5. ChainInv' /\ AddInv' /\ LoadInv' /\ UnloadInv'
  BY <1>1, <1>2, <1>3 DEF ListInv, ChainInv, AddInv, LoadInv, UnloadInv, adder, links
<1>6. Quiet
  BY <1>1, <1>2, <1>3 DEF Quiet, adder
<1>7. QED
  BY <1>4, <1>5, <1>6 DEF ListInv

\* The part of TypeOK that a lookup can disturb.
LookupTypesOK ==
  /\ pc \in [Cpu -> {"idle", "called", "compare", "advance", "found", "wild"}]
  /\ pkt \in [Cpu -> Packet]
  /\ pos \in [Cpu -> Pointer]
  /\ first \in [Cpu -> Pointer]
  /\ steered \in [Cpu -> 0..MaxEntries]

\* A lookup reads pointers, and comes to a verdict, of their types in any case.
LEMMA LookupTypes ==
  ASSUME ListInv, NEW c \in Cpu, UNCHANGED <<adder, unloader, links>>,
         Step(c) \/ \E p \in Packet : vse_handle_data(c, p)
  PROVE  TypeOK'
<1>1. /\ TypeOK /\ pos[c] \in Pointer /\ 0 \in 0..MaxEntries /\ nxt[0] \in Pointer
      /\ Node \subseteq 0..MaxEntries
  BY DEF ListInv, TypeOK, Node
<1> SUFFICES LookupTypesOK'
  BY <1>1 DEF TypeOK, LookupTypesOK, adder, unloader, links
<1>2. ASSUME NEW p \in Packet, vse_handle_data(c, p) PROVE LookupTypesOK'
  BY <1>1, <1>2 DEF vse_handle_data, TypeOK, LookupTypesOK
<1>3. CASE ReadHead(c)
  BY <1>1, <1>3 DEF ReadHead, TypeOK, LookupTypesOK
<1>4. CASE NotFound(c)
  BY <1>1, <1>4 DEF NotFound, TypeOK, LookupTypesOK
<1>5. CASE Compare(c)
  <2>1. Outcomes(pos[c], pkt[c]) \subseteq {"hit", "miss", "fault"}
    BY MatchOutcome DEF Outcomes
  <2>2. PICK o \in {"hit", "miss", "fault"} :
          pc' = [pc EXCEPT ![c] = CASE o = "hit"   -> "found"
                                    [] o = "miss"  -> "advance"
                                    [] o = "fault" -> "wild"]
    BY <1>5, <2>1 DEF Compare
  <2>3. pc' \in [Cpu -> {"idle", "called", "compare", "advance", "found", "wild"}]
    BY <1>1, <2>2 DEF TypeOK
  <2>4. QED
    BY <1>1, <1>5, <2>3 DEF Compare, TypeOK, LookupTypesOK
<1>6. CASE Advance(c)
  <2>1. nxt[pos[c]] \in Pointer
    BY <1>1, <1>6 DEF Advance, Live, TypeOK
  <2>2. QED
    BY <1>1, <1>6, <2>1 DEF Advance, TypeOK, LookupTypesOK
<1>7. CASE UseEntry(c)
  <2>1. pos[c] \in 0..MaxEntries
    BY <1>1, <1>7 DEF UseEntry, Live
  <2>2. QED
    BY <1>1, <1>7, <2>1 DEF UseEntry, TypeOK, LookupTypesOK
<1>8. CASE GoWild(c)
  BY <1>1, <1>8 DEF GoWild, TypeOK, LookupTypesOK
<1>9. QED
  BY <1>2, <1>3, <1>4, <1>5, <1>6, <1>7, <1>8 DEF Step

\* Every step of every thread keeps the list, in whatever order its stores come.
THEOREM ListKept ==
  ASSUME ListInv, [Next]_vars
  PROVE  ListInv'
<1>1. CASE vse_init_handler \/ vse_init_chrdev \/ vse_cleanup_handler
  BY <1>1, HandlerStep
<1>2. CASE vse_cleanup
  BY <1>2, HandlerStep, UnlinkStep, ClearStep, FreeStep, DoneStep DEF vse_cleanup
<1>3. CASE \/ \E d \in Data : vse_add_table_entry(d)
           \/ \E d \in Data, i \in Irq : vse_add_table_entry_and_irq(d, i)
  BY <1>3, AddStep DEF vse_add_table_entry
<1>4. CASE \E s \in Stores : list_add(s)
  BY <1>4, StoreStep
<1>5. ASSUME NEW c \in Cpu, Step(c) \/ \E p \in Packet : vse_handle_data(c, p)
      PROVE  ListInv'
  <2>1. UNCHANGED <<adder, unloader, links>>
    BY <1>5 DEF Step, ReadHead, NotFound, Compare, Advance, UseEntry, GoWild, vse_handle_data
  <2>2. QED
    BY <1>5, <2>1, TableUndisturbed, LookupTypes DEF ListInv
<1>6. CASE UNCHANGED vars
  BY <1>6 DEF vars, ListInv, TypeOK, ChainInv, AddInv, LoadInv, UnloadInv, Published, Hooked
<1>7. QED
  BY <1>1, <1>2, <1>3, <1>4, <1>5, <1>6 DEF Next

-----------------------------------------------------------------------------
(* The lookups.                                                            *)

\* A lookup is not disturbed by a step that leaves the entries it can see
\* alone and does not put the hook back.
LEMMA ReaderUndisturbed ==
  ASSUME IInv, NEW c \in Cpu, Quiet
  PROVE  ReaderInv(c)'
<1>1. ReaderInv(c) /\ Published \in 0..made /\ made \in Int
  BY PublishedRange DEF IInv, Quiet
<1>2. MayFault => MayFault'
  BY <1>1 DEF MayFault, Quiet
<1>3. pos[c] \in Int /\ first[c] \in Int
  BY DEF IInv, ListInv, TypeOK, Pointer
<1>4. CASE pc[c] \in {"compare", "advance", "found"}
  <2>1. \A n \in 1..first[c] : entry'[n] = entry[n]
    BY <1>1, <1>3, <1>4 DEF ReaderInv, Quiet
  <2>2. first[c] \in 0..Published'
    BY <1>1, <1>3, <1>4 DEF ReaderInv, Quiet
  <2>3. QED
    BY <1>1, <1>3, <1>4, <2>1, <2>2 DEF ReaderInv, Quiet, lookup
<1>5. CASE pc[c] \notin {"compare", "advance", "found"}
  BY <1>1, <1>2, <1>5 DEF ReaderInv, Quiet, lookup
<1>6. QED
  BY <1>4, <1>5

\* A lookup that is not there when the hook is set is none the wiser.
LEMMA ReaderHooked ==
  ASSUME IInv, vse_init_handler, NEW c \in Cpu
  PROVE  ReaderInv(c)'
  BY DEF IInv, ReaderInv, vse_init_handler, lookup

\* What a cursor finds behind an entry it may read: the next older one or, once
\* the unload has begun, the NULL of the entry being deleted.
LEMMA NextOfLive ==
  ASSUME ListInv, pending = {} \/ OrderInv, NEW n \in Node, n <= Published, Live(n)
  PROVE  nxt[n] \in {n - 1, NULL} /\ (Hooked => nxt[n] = n - 1)
<1>1. Published \in Int /\ nxt[0] \in 0..Published /\ n \in Int /\ mem[n] = "live"
  BY PublishedRange DEF Node, Live
<1>2. CASE n <= nxt[0]
  <2>1. "new_next" \in pending => n # made
    BY <1>1, <1>2, PublishedRange DEF OrderInv, Published
  <2>2. QED
    BY <1>1, <1>2, <2>1 DEF ListInv, ChainInv, Node
<1>3. CASE n > nxt[0] /\ n = victim
  BY <1>1, <1>3 DEF ListInv, UnloadInv, LoadInv, Node
<1>4. CASE n > nxt[0] /\ n # victim
  BY <1>1, <1>4 DEF ListInv, UnloadInv
<1>5. QED
  BY <1>1, <1>2, <1>3, <1>4

\* Until the hook is withdrawn every published entry may be read.
LEMMA PublishedIsLive ==
  ASSUME ListInv, Hooked, NEW n \in 1..Published
  PROVE  n \in Node /\ Live(n)
<1>1. nxt[0] = Published /\ made \in 0..MaxEntries /\ Published \in 0..made
  BY PublishedRange DEF ListInv, LoadInv
<1>2. n \in Node
  BY <1>1 DEF Node
<1>3. QED
  BY <1>1, <1>2 DEF ListInv, ChainInv, Live

\* A comparison with a published entry is a comparison with its final contents.
LEMMA PublishedContents ==
  ASSUME IInv, NEW n \in Int, n <= Published, NEW p
  PROVE  Outcomes(n, p) = vse_do_match(entry[n].match, p)
  BY PublishedRange DEF IInv, OrderInv, Published, Outcomes

LEMMA LookupStep ==
  ASSUME IInv, NEW c \in Cpu, UNCHANGED <<adder, unloader, links>>,
         Step(c) \/ \E p \in Packet : vse_handle_data(c, p)
  PROVE  \A d \in Cpu : ReaderInv(d)'
<1>1. /\ made \in 0..MaxEntries /\ Published \in 0..made /\ nxt[0] \in 0..Published
      /\ MaxEntries \in Nat /\ ListInv /\ OrderInv
  BY PublishedRange DEF IInv
<1>2. /\ TypeOK /\ pos[c] \in Pointer /\ first[c] \in Pointer /\ ReaderInv(c)
      /\ \A d \in Cpu : ReaderInv(d)
  BY DEF IInv, ListInv, TypeOK
<1>3. /\ (Published' = Published) /\ (Hooked' = Hooked) /\ (entry' = entry)
      /\ (MayFault' = MayFault)
      /\ module # "absent" /\ module' # "absent"
  <2>1. module # "absent"
    <3>1. pc[c] # "idle" \/ Hooked
      BY DEF Step, ReadHead, NotFound, Compare, Advance, UseEntry, GoWild, vse_handle_data
    <3>2. QED
      BY <1>2, <3>1 DEF ReaderInv, Hooked
  <2>2. (Published' = Published) /\ (Hooked' = Hooked)
    BY <1>1, TableUndisturbed
  <2>3. QED
    BY <2>1, <2>2 DEF adder, unloader, MayFault
<1>4. ASSUME NEW d \in Cpu, d # c,
             pc'[d] = pc[d], pkt'[d] = pkt[d], pos'[d] = pos[d], first'[d] = first[d]
      PROVE  ReaderInv(d)'
  BY <1>2, <1>3, <1>4 DEF ReaderInv
<1>5. CASE \E p \in Packet : vse_handle_data(c, p)
  <2>1. ReaderInv(c)'
    BY <1>2, <1>3, <1>5 DEF vse_handle_data, TypeOK, ReaderInv
  <2>2. \A d \in Cpu : d # c => /\ pc'[d] = pc[d] /\ pkt'[d] = pkt[d]
                              /\ pos'[d] = pos[d] /\ first'[d] = first[d]
    BY <1>2, <1>5 DEF vse_handle_data, TypeOK
  <2>3. QED
    BY <1>4, <2>1, <2>2
<1>6. CASE ReadHead(c)
  <2>1. /\ pc'[c] = "compare" /\ pos'[c] = nxt[0] /\ first'[c] = nxt[0]
    BY <1>2, <1>6 DEF ReadHead, TypeOK
  <2>2. ReaderInv(c)'
    BY <1>1, <1>3, <2>1 DEF ReaderInv
  <2>3. QED
    BY <1>2, <1>4, <1>6, <2>2 DEF ReadHead, TypeOK
<1>7. CASE NotFound(c)
  <2>1. pc'[c] = "idle"
    BY <1>2, <1>7 DEF NotFound, TypeOK
  <2>2. ReaderInv(c)'
    BY <2>1 DEF ReaderInv
  <2>3. QED
    BY <1>2, <1>4, <1>7, <2>2 DEF NotFound, TypeOK
<1>8. CASE Compare(c)
  <2>1. /\ pos[c] \in Node /\ first[c] \in 0..Published /\ pos[c] <= first[c]
        /\ pos' = pos /\ first' = first /\ pkt' = pkt
    BY <1>1, <1>2, <1>8 DEF Compare, Live, ReaderInv, Node
  <2>2. PICK o \in vse_do_match(entry[pos[c]].match, pkt[c]) :
          pc' = [pc EXCEPT ![c] = CASE o = "hit"   -> "found"
                                    [] o = "miss"  -> "advance"
                                    [] o = "fault" -> "wild"]
    <3>1. Outcomes(pos[c], pkt[c]) = vse_do_match(entry[pos[c]].match, pkt[c])
      BY <1>1, <2>1, PublishedContents DEF Node
    <3>2. QED
      BY <1>8, <3>1 DEF Compare
  <2>3. /\ o \in {"hit", "miss", "fault"}
        /\ o = "fault" => "vm_id" \in entry[pos[c]].match.exact
    BY <2>2, MatchOutcome
  <2>4. o = "fault" => MayFault
    BY <1>1, <2>1, <2>3 DEF MayFault, Node
  <2>5. pc'[c] = CASE o = "hit" -> "found" [] o = "miss" -> "advance" [] o = "fault" -> "wild"
    BY <1>2, <2>2 DEF TypeOK
  <2>6. /\ o = "hit" => pc'[c] = "found"
        /\ o = "miss" => pc'[c] = "advance"
        /\ o = "fault" => pc'[c] = "wild"
    BY <2>5
  <2>7. pc[c] = "compare"
    BY <1>8 DEF Compare
  <2>8. ReaderInv(c)'
    <3>1. /\ pos'[c] = pos[c] /\ first'[c] = first[c] /\ pkt'[c] = pkt[c]
          /\ \A n \in (pos[c] + 1)..first[c] : "miss" \in vse_do_match(entry[n].match, pkt[c])
      BY <1>2, <2>1, <2>7 DEF ReaderInv, Node
    <3>2. pos[c] \in 1..first[c]
      BY <1>1, <2>1 DEF Node
    <3>3. CASE o = "hit"
      BY <1>3, <2>1, <2>2, <2>6, <3>1, <3>2, <3>3 DEF ReaderInv
    <3>4. CASE o = "miss"
      BY <1>3, <2>1, <2>2, <2>6, <3>1, <3>2, <3>4 DEF ReaderInv
    <3>5. CASE o = "fault"
      BY <1>3, <2>4, <2>6, <3>5 DEF ReaderInv
    <3>6. QED
      BY <2>3, <3>3, <3>4, <3>5
  <2>9. QED
    BY <1>2, <1>4, <2>1, <2>2, <2>8 DEF TypeOK
<1>9. CASE Advance(c)
  <2>1. /\ pc[c] = "advance" /\ pos[c] \in Node /\ first[c] \in 0..Published
        /\ pos[c] <= first[c] /\ Live(pos[c]) /\ first' = first /\ pkt' = pkt
    BY <1>1, <1>2, <1>9 DEF Advance, Live, ReaderInv, Node
  <2>2. nxt[pos[c]] \in {pos[c] - 1, NULL} /\ (Hooked => nxt[pos[c]] = pos[c] - 1)
    BY <1>1, <2>1, NextOfLive DEF Node
  <2>3. pc'[c] = "compare" /\ pos'[c] = nxt[pos[c]]
    BY <1>2, <1>9 DEF Advance, TypeOK
  <2>4. \A n \in pos[c]..first[c] : "miss" \in vse_do_match(entry[n].match, pkt[c])
    BY <1>1, <1>2, <2>1 DEF ReaderInv, Node
  <2>5. ReaderInv(c)'
    BY <1>1, <1>3, <2>1, <2>2, <2>3, <2>4 DEF ReaderInv, Node, NULL
  <2>6. QED
    BY <1>2, <1>4, <1>9, <2>5 DEF Advance, TypeOK
<1>10. CASE UseEntry(c)
  <2>1. pc'[c] = "idle"
    BY <1>2, <1>10 DEF UseEntry, TypeOK
  <2>2. ReaderInv(c)'
    BY <2>1 DEF ReaderInv
  <2>3. QED
    BY <1>2, <1>4, <1>10, <2>2 DEF UseEntry, TypeOK
<1>11. CASE GoWild(c)
  <2>1. pc'[c] = "wild"
    BY <1>2, <1>11 DEF GoWild, TypeOK
  <2>2. ~Hooked
    <3>1. SUFFICES ASSUME Hooked PROVE FALSE
      OBVIOUS
    <3>2. pos[c] \in 1..Published
      BY <1>1, <1>2, <1>11, <3>1 DEF GoWild, ReaderInv
    <3>3. QED
      BY <1>1, <1>11, <3>1, <3>2, PublishedIsLive DEF GoWild
  <2>3. ReaderInv(c)'
    BY <1>3, <2>1, <2>2 DEF ReaderInv
  <2>4. QED
    BY <1>2, <1>4, <1>11, <2>3 DEF GoWild, TypeOK
<1>12. QED
  BY <1>5, <1>6, <1>7, <1>8, <1>9, <1>10, <1>11 DEF Step

\* Every step of every thread keeps the invariant, where the order of the stores
\* that a walk needs is kept.
THEOREM StepPreserves ==
  ASSUME PublishedLast, IInv, [Next]_vars
  PROVE  IInv'
<1>1. ListInv /\ OrderInv /\ ListInv'
  BY ListKept DEF IInv
<1>2. Quiet /\ OrderInv' => IInv'
  BY <1>1, ReaderUndisturbed DEF IInv
<1>3. ASSUME UNCHANGED pending PROVE OrderInv'
  BY <1>1, <1>3 DEF OrderInv
<1>4. CASE vse_init_handler \/ vse_init_chrdev \/ vse_cleanup_handler \/ vse_cleanup_chrdev
  <2>1. UNCHANGED pending
    BY <1>4 DEF vse_init_handler, vse_init_chrdev, vse_cleanup_handler, vse_cleanup_chrdev,
                adder
  <2>2. QED
    BY <1>1, <1>2, <1>3, <1>4, <2>1, HandlerStep, ReaderHooked DEF IInv
<1>5. CASE Unlink \/ ClearLinks \/ Free \/ CleanUpDone
  <2>1. UNCHANGED pending
    BY <1>5 DEF Unlink, ClearLinks, Free, CleanUpDone, adder
  <2>2. QED
    BY <1>1, <1>2, <1>3, <1>5, <2>1, UnlinkStep, ClearStep, FreeStep, DoneStep
<1>6. ASSUME NEW d \in Data, NEW i \in Irq \cup {NO_IRQ}, vse_add_table_entry_and_irq(d, i)
      PROVE  IInv'
  <2>1. OrderInv'
    BY <1>6 DEF vse_add_table_entry_and_irq, OrderInv, Stores
  <2>2. QED
    BY <1>1, <1>2, <1>6, <2>1, AddStep
<1>7. ASSUME NEW s \in Stores, list_add(s) PROVE IInv'
  <2>1. s \in pending /\ pending' = pending \ {s}
    BY <1>7 DEF list_add
  <2>2. s = "publish" => "contents" \notin pending /\ "new_next" \notin pending
    <3>1. ASSUME NEW t \in pending, t \in {"contents", "new_next"}, s = "publish"
          PROVE  FALSE
      <4>1. {s, t} \in Kept
        BY <3>1 DEF PublishedLast
      <4>2. Rank[s] <= Rank[t]
        BY <1>7, <3>1, <4>1 DEF list_add, MayComplete
      <4>3. QED
        BY <3>1, <4>2 DEF Rank
    <3>2. QED
      BY <3>1
  <2>3. OrderInv'
    BY <1>1, <2>1, <2>2 DEF OrderInv
  <2>4. QED
    BY <1>1, <1>2, <1>7, <2>3, StoreStep
<1>8. ASSUME NEW c \in Cpu, Step(c) \/ \E p \in Packet : vse_handle_data(c, p)
      PROVE  IInv'
  <2>1. UNCHANGED <<adder, unloader, links>>
    BY <1>8 DEF Step, ReadHead, NotFound, Compare, Advance, UseEntry, GoWild, vse_handle_data
  <2>2. \A d \in Cpu : ReaderInv(d)'
    BY <1>8, <2>1, LookupStep
  <2>3. OrderInv'
    BY <1>3, <2>1 DEF adder
  <2>4. QED
    BY <1>1, <2>2, <2>3 DEF IInv
<1>9. CASE UNCHANGED vars
  <2>1. UNCHANGED pending /\ \A c \in Cpu : ReaderInv(c)'
    BY <1>9 DEF vars, IInv, ReaderInv, MayFault, Published, Hooked
  <2>2. QED
    BY <1>1, <1>3, <2>1 DEF IInv
<1>10. QED
  BY <1>4, <1>5, <1>6, <1>7, <1>8, <1>9 DEF Next, vse_cleanup, vse_add_table_entry

-----------------------------------------------------------------------------
(* The theorems.                                                           *)

\* The list is what it should be in every run, on every machine.
THEOREM ListInvariance == Spec => []ListInv
<1>1. Init => ListInv
  BY InitEstablishes DEF IInv
<1>2. ListInv /\ [Next]_vars => ListInv'
  BY ListKept
<1>3. QED
  BY <1>1, <1>2, PTL DEF Spec

\* The inductive invariant holds of every run.
THEOREM Invariance ==
  ASSUME PublishedLast
  PROVE  Spec => []IInv
<1>1. Init => IInv
  BY InitEstablishes
<1>2. IInv /\ [Next]_vars => IInv'
  BY StepPreserves
<1>3. QED
  BY <1>1, <1>2, PTL DEF Spec

\* Every variable of the table, its adder, its lookups and the unload keeps to
\* its type; in particular list_add never reads a NULL head.
THEOREM TypeCorrect == Spec => []TypeOK
<1>1. ListInv => TypeOK
  BY DEF ListInv
<1>2. QED
  BY <1>1, ListInvariance, PTL

\* vse_look_up_flow_entry returns the newest entry that accepts the packet,
\* however its walk interleaves with adds and with the unload.
THEOREM LookupFindsNewest ==
  ASSUME PublishedLast
  PROVE  Spec => []NewestEntryWins
<1>1. IInv => NewestEntryWins
  <2> SUFFICES ASSUME IInv, NEW c \in Cpu, pc[c] = "found"
                 PROVE  /\ pos[c] \in 1..first[c]
                        /\ "hit" \in vse_do_match(entry[pos[c]].match, pkt[c])
                        /\ \A n \in (pos[c] + 1)..first[c] :
                             "miss" \in vse_do_match(entry[n].match, pkt[c])
    BY DEF NewestEntryWins
  <2>2. ReaderInv(c) /\ Published \in Int
    BY PublishedRange DEF IInv
  <2>3. QED
    BY <2>2 DEF ReaderInv
<1>2. QED
  BY <1>1, Invariance, PTL

\* Only an unload in progress or a match on vm_id takes a lookup astray.
THEOREM WalkSafety ==
  ASSUME PublishedLast
  PROVE  Spec => []WalkSafeUntilUnload
<1>1. IInv => WalkSafeUntilUnload
  BY DEF IInv, ReaderInv, WalkSafeUntilUnload
<1>2. QED
  BY <1>1, Invariance, PTL

\* Between adds the list is whole in both directions, whatever has been added and
\* in whatever order the stores of each add became visible.
THEOREM ListIntegrity == Spec => []ListIntact
<1>1. ListInv => ListIntact
  <2> SUFFICES ASSUME ListInv, Hooked, pending = {}
                 PROVE  /\ nxt[0] = made
                        /\ \A n \in 1..made : nxt[n] = n - 1 /\ mem[n] = "live"
                        /\ \A n \in 0..made : prv[nxt[n]] = n
    BY DEF ListIntact
  <2>2. nxt[0] = made /\ made \in Nat
    BY PublishedRange DEF ListInv, LoadInv
  <2>3. /\ \A n \in 1..made : nxt[n] = n - 1 /\ mem[n] = "live"
        /\ prv[made] = 0
        /\ \A n \in 0..(made - 1) : prv[n] = n + 1
    BY <2>2 DEF ListInv, ChainInv
  <2>4. ASSUME NEW n \in 0..made PROVE prv[nxt[n]] = n
    BY <2>2, <2>3
  <2>5. QED
    BY <2>2, <2>3, <2>4
<1>2. QED
  BY <1>1, ListInvariance, PTL

\* The unload never frees an entry the list still leads to, on any machine.
THEOREM FreedIsUnreachable == Spec => []FreedUnreachable
<1>1. ListInv => FreedUnreachable
  <2> SUFFICES ASSUME ListInv, NEW n \in Node, mem[n] = "freed"
                 PROVE  /\ ~Hooked
                        /\ nxt[0] # n
                        /\ \A m \in Node : mem[m] = "live" => nxt[m] # n
    BY DEF FreedUnreachable
  <2>2. /\ nxt[0] \in 0..Published /\ Published \in 0..made /\ made \in Int /\ n \in Int
        /\ MaxEntries \in Nat /\ Published >= made - 1
    BY PublishedRange DEF Node
  <2>3. n \in 1..made
    BY <2>2 DEF ListInv, ChainInv, Node
  <2>4. nxt[0] < n
    BY <2>2, <2>3 DEF ListInv, ChainInv
  <2>5. ~Hooked
    <3> SUFFICES ASSUME Hooked PROVE FALSE
      OBVIOUS
    <3>2. nxt[0] = Published
      BY DEF ListInv, LoadInv
    <3>3. n = made /\ pending # {}
      BY <2>2, <2>3, <2>4, <3>2, PublishedRange
    <3>4. QED
      BY <3>3 DEF ListInv, AddInv
  <2>6. pending = {}
    BY <2>5 DEF ListInv, AddInv, Hooked
  <2>7. ASSUME NEW m \in Node, mem[m] = "live" PROVE nxt[m] # n
    <3>1. m \in 1..made
      BY <2>2, <2>7 DEF ListInv, ChainInv, Node
    <3>2. m <= Published
      BY <2>6, <3>1, PublishedRange
    <3>3. nxt[m] \in {m - 1, NULL}
      BY <2>6, <2>7, <3>2, NextOfLive DEF Live
    <3>4. m <= nxt[0] + 1
      BY <2>2, <2>7, <3>1, <3>2 DEF ListInv, UnloadInv
    <3>5. QED
      BY <2>2, <2>4, <3>1, <3>3, <3>4 DEF NULL
  <2>8. QED
    BY <2>2, <2>4, <2>5, <2>7
<1>2. QED
  BY <1>1, ListInvariance, PTL

-----------------------------------------------------------------------------
(* The list implements the abstract table.  Publishing an entry installs   *)
(* it, reading the head is the instant of a lookup, and unlinking an entry *)
(* drops it; the other steps are invisible.                                *)

LEMMA AbstractInit == Init => Abstract!Init
<1> SUFFICES ASSUME Init PROVE Abstract!Init
  OBVIOUS
<1>1. Published = 0 /\ nxt[0] = 0 /\ (Hooked = FALSE)
  BY DEF Init, Published, Hooked, EmptyLinks
<1>2. AbstractEntries = [k \in Node |-> NoEntry]
  BY DEF Init, AbstractEntries
<1>3. AbstractPhase = [c \in Cpu |-> "idle"]
  BY DEF Init, AbstractPhase, PhaseOf
<1>4. QED
  BY <1>1, <1>2, <1>3 DEF Init, Abstract!Init, Abstract!Node, Node

\* What the abstract table shows of a step that publishes nothing.
LEMMA SameEntries ==
  ASSUME ListInv, Published' = Published, \A n \in 1..Published : entry'[n] = entry[n]
  PROVE  AbstractEntries' = AbstractEntries
  BY PublishedRange DEF AbstractEntries, Node

LEMMA SamePhase ==
  ASSUME pc' = pc
  PROVE  AbstractPhase' = AbstractPhase
  BY DEF AbstractPhase

LEMMA InvisibleStep ==
  ASSUME ListInv, Published' = Published, \A n \in 1..Published : entry'[n] = entry[n],
         nxt'[0] = nxt[0], Hooked' = Hooked, UNCHANGED lookup
  PROVE  UNCHANGED Abstract!vars
  BY SameEntries, SamePhase DEF lookup, Abstract!vars

LEMMA AbstractHandler ==
  ASSUME ListInv, vse_init_handler \/ vse_init_chrdev \/ vse_cleanup_handler \/ vse_cleanup_chrdev
  PROVE  [Abstract!Next]_(Abstract!vars)
<1>1. /\ UNCHANGED <<made, entry, pending, nxt, lookup>>
      /\ (Published' = Published)
  BY DEF vse_init_handler, vse_init_chrdev, vse_cleanup_handler, vse_cleanup_chrdev,
         adder, links, Published
<1>2. /\ (AbstractEntries' = AbstractEntries) /\ (AbstractPhase' = AbstractPhase)
      /\ (nxt'[0] = nxt[0]) /\ UNCHANGED <<pkt, first, steered>>
  BY <1>1, SameEntries, SamePhase DEF lookup
<1>3. CASE vse_init_handler
  <2>1. Published = 0 /\ (Hooked = FALSE) /\ (Hooked' = TRUE)
    BY <1>3, PublishedRange DEF vse_init_handler, Hooked, ListInv, LoadInv
  <2>2. Abstract!Hook
    BY <1>1, <1>2, <2>1 DEF Abstract!Hook, Abstract!lookup
  <2>3. QED
    BY <2>2 DEF Abstract!Next
<1>4. CASE vse_cleanup_handler
  <2>1. (Hooked = TRUE) /\ (Hooked' = FALSE)
    BY <1>4 DEF vse_cleanup_handler, Hooked
  <2>2. Abstract!Unhook
    BY <1>1, <1>2, <2>1 DEF Abstract!Unhook, Abstract!lookup
  <2>3. QED
    BY <2>2 DEF Abstract!Next
<1>5. CASE vse_init_chrdev \/ vse_cleanup_chrdev
  <2>1. Hooked' = Hooked
    BY <1>5 DEF vse_init_chrdev, vse_cleanup_chrdev, Hooked
  <2>2. QED
    BY <1>1, <1>2, <2>1 DEF Abstract!vars
<1>6. QED
  BY <1>3, <1>4, <1>5

LEMMA AbstractAdd ==
  ASSUME ListInv, NEW d \in Data, NEW i \in Irq \cup {NO_IRQ}, vse_add_table_entry_and_irq(d, i)
  PROVE  UNCHANGED Abstract!vars
<1>1. /\ pending = {} /\ pending' = Stores /\ made' = made + 1 /\ made \in Nat
      /\ Published = made /\ UNCHANGED <<module, nxt, lookup>>
  BY PublishedRange DEF vse_add_table_entry_and_irq, links
<1>2. Published' = Published /\ Hooked' = Hooked
  BY <1>1 DEF Published, Hooked, Stores
<1>3. \A n \in 1..Published : entry'[n] = entry[n]
  BY <1>1 DEF vse_add_table_entry_and_irq, ListInv, TypeOK, Node
<1>4. QED
  BY <1>1, <1>2, <1>3, InvisibleStep

LEMMA AbstractStore ==
  ASSUME ListInv, NEW s \in Stores, list_add(s)
  PROVE  [Abstract!Next]_(Abstract!vars)
<1>1. /\ s \in pending /\ pending' = pending \ {s} /\ made \in Node
      /\ nxt[0] = Published /\ module = "ready" /\ made \in Nat
      /\ UNCHANGED <<module, made, entry, lookup>> /\ made <= MaxEntries
  BY PublishedRange DEF ListInv, AddInv, list_add, Node, unloader
<1>2. /\ (Hooked = TRUE) /\ (Hooked' = TRUE) /\ (entry' = entry)
  BY <1>1 DEF Hooked
<1>3. CASE s # "publish"
  <2>1. Published' = Published
    BY <1>1, <1>3 DEF Published
  <2>2. nxt'[0] = nxt[0]
    BY <1>1, <1>3 DEF list_add, ListInv, TypeOK, Node
  <2>3. QED
    BY <1>1, <1>2, <2>1, <2>2, InvisibleStep
<1>4. CASE s = "publish"
  <2>1. Published = made - 1 /\ Published' = made
    BY <1>1, <1>4 DEF Published
  <2>2. nxt'[0] = made
    BY <1>4 DEF list_add, ListInv, TypeOK
  <2>3. entry[made] \in Entry
    <3>1. \A n \in 1..made : entry[n] \in Entry
      BY DEF ListInv, TypeOK
    <3>2. QED
      BY <1>1, <3>1 DEF Node
  <2>4. AbstractEntries' = [AbstractEntries EXCEPT ![Published + 1] = entry[made]]
    <3>1. Published + 1 = made
      BY <1>1, <2>1
    <3>2. AbstractEntries' = [n \in Node |-> IF n <= made THEN entry[n] ELSE NoEntry]
      BY <1>2, <2>1 DEF AbstractEntries
    <3>3. \A n \in Node : n # made => (n <= made <=> n <= made - 1)
      BY <1>1 DEF Node
    <3>4. AbstractEntries = [n \in Node |-> IF n <= made - 1 THEN entry[n] ELSE NoEntry]
      BY <1>1, <2>1 DEF AbstractEntries
    <3>5. \A n \in Node : (IF n <= made THEN entry[n] ELSE NoEntry)
                          = IF n = made THEN entry[made] ELSE AbstractEntries[n]
      BY <1>1, <3>3, <3>4 DEF Node
    <3>6. AbstractEntries' = [n \in Node |-> IF n = made THEN entry[made]
                                                         ELSE AbstractEntries[n]]
      BY <3>2, <3>5
    <3>7. QED
      BY <3>1, <3>4, <3>6
  <2>5. AbstractPhase' = AbstractPhase
    BY <1>1, SamePhase DEF lookup
  <2>6. Abstract!Install(entry[made])
    BY <1>1, <1>2, <2>1, <2>2, <2>4, <2>5 DEF Abstract!Install, Abstract!lookup, lookup
  <2>7. QED
    BY <2>3, <2>6 DEF Abstract!Next
<1>5. QED
  BY <1>3, <1>4

LEMMA AbstractUnlink ==
  ASSUME ListInv, Unlink
  PROVE  Abstract!Next
<1>1. /\ nxt[0] \in 1..made /\ made \in Nat /\ made <= MaxEntries
      /\ (Hooked = FALSE) /\ pending = {} /\ Published = made
  BY Cleaning DEF Unlink, Hooked
<1>2. /\ nxt[nxt[0]] = nxt[0] - 1 /\ prv[nxt[0]] = 0
  BY <1>1 DEF ListInv, ChainInv
<1>3. /\ nxt'[0] = nxt[0] - 1
      /\ UNCHANGED <<module, made, entry, pending, lookup>>
  BY <1>1, <1>2 DEF Unlink, ListInv, TypeOK, adder
<1>4. (Published' = Published) /\ (Hooked' = FALSE)
  BY <1>1, <1>3 DEF Published, Hooked
<1>5. (AbstractEntries' = AbstractEntries) /\ (AbstractPhase' = AbstractPhase)
  BY <1>3, <1>4, SameEntries, SamePhase DEF lookup
<1>6. Abstract!Drop
  <2>1. nxt[0] > 0 /\ nxt'[0] = nxt[0] - 1
    BY <1>1, <1>3
  <2>2. UNCHANGED <<pkt, first, steered>>
    BY <1>3 DEF lookup
  <2>3. QED
    BY <1>1, <1>4, <1>5, <2>1, <2>2 DEF Abstract!Drop, Abstract!lookup
<1>7. QED
  BY <1>6 DEF Abstract!Next

LEMMA AbstractDelete ==
  ASSUME ListInv, ClearLinks \/ Free \/ CleanUpDone
  PROVE  UNCHANGED Abstract!vars
<1>1. /\ ~Hooked /\ UNCHANGED <<made, entry, pending, lookup>>
  BY Cleaning DEF ClearLinks, Free, CleanUpDone, adder
<1>2. Published' = Published
  BY <1>1 DEF Published
<1>3. Hooked' = Hooked
  BY <1>1 DEF ClearLinks, Free, CleanUpDone, Hooked, unloader
<1>4. nxt'[0] = nxt[0]
  <2>1. ASSUME ClearLinks PROVE nxt'[0] = nxt[0]
    BY <2>1 DEF ClearLinks, ListInv, TypeOK
  <2>2. ASSUME Free \/ CleanUpDone PROVE nxt'[0] = nxt[0]
    BY <2>2 DEF Free, CleanUpDone, links
  <2>3. QED
    BY <2>1, <2>2
<1>5. QED
  BY <1>1, <1>2, <1>3, <1>4, InvisibleStep

LEMMA PhaseStep ==
  ASSUME ListInv, NEW c \in Cpu, NEW v, pc' = [pc EXCEPT ![c] = v]
  PROVE  AbstractPhase' = [AbstractPhase EXCEPT ![c] = PhaseOf(v)]
  BY DEF AbstractPhase, ListInv, TypeOK

\* An entry the abstract table returns or faults on is judged by the same match.
LEMMA SameOutcome ==
  ASSUME ListInv, NEW r \in 1..Published, NEW p
  PROVE  Abstract!Outcome(AbstractEntries, r, p) = vse_do_match(entry[r].match, p)
<1>1. r \in Node /\ r <= Published
  BY PublishedRange DEF Node
<1>2. AbstractEntries[r] = entry[r]
  BY <1>1 DEF AbstractEntries
<1>3. \A m : Abstract!Agrees(m, p) <=> Agrees(m, p)
  <2>1. \A b : Abstract!Swap(b) = Swap(b)
    BY Zenon DEF Abstract!Swap, Swap
  <2>2. \A b : Abstract!Load(b) = Load(b) /\ Abstract!htonl(b) = htonl(b)
    BY Zenon, <2>1 DEF Abstract!Load, Load, Abstract!htonl, htonl
  <2>3. \A b : Abstract!MaskReserved(b) = MaskReserved(b)
    BY SMT DEF Abstract!MaskReserved, MaskReserved
  <2>4. \A b : Abstract!ShiftRight8(b) = ShiftRight8(b)
    BY SMT DEF Abstract!ShiftRight8, ShiftRight8
  <2>5. \A b : Abstract!vse_get_vxlan_vni(b) = vse_get_vxlan_vni(b)
    BY Zenon, <2>2, <2>3, <2>4 DEF Abstract!vse_get_vxlan_vni, vse_get_vxlan_vni
  <2>6. Abstract!Seen(p) = Seen(p)
    BY Zenon, <2>5 DEF Abstract!Seen, Seen
  <2>7. QED
    BY Zenon, <2>6 DEF Abstract!Agrees, Agrees
<1>4. QED
  BY <1>2, <1>3 DEF Abstract!Outcome, Abstract!vse_do_match, vse_do_match

LEMMA AbstractLookup ==
  ASSUME IInv, NEW c \in Cpu, Step(c) \/ \E p \in Packet : vse_handle_data(c, p)
  PROVE  [Abstract!Next]_(Abstract!vars)
<1> ListInv
  BY DEF IInv
<1>1. UNCHANGED <<adder, unloader, links>>
  BY DEF Step, ReadHead, NotFound, Compare, Advance, UseEntry, GoWild, vse_handle_data
<1>2. /\ (Published' = Published) /\ (Hooked' = Hooked) /\ (entry' = entry) /\ (nxt' = nxt)
      /\ (AbstractEntries' = AbstractEntries)
  BY <1>1, TableUndisturbed, SameEntries DEF adder, links
<1>3. /\ ReaderInv(c) /\ Published \in Nat /\ nxt[0] \in 0..Published
      /\ AbstractPhase[c] = PhaseOf(pc[c])
  BY PublishedRange DEF IInv, ListInv, AbstractPhase
<1>4. CASE \E p \in Packet : vse_handle_data(c, p)
  <2>1. PICK p \in Packet : vse_handle_data(c, p)
    BY <1>4
  <2>2. AbstractPhase' = [AbstractPhase EXCEPT ![c] = PhaseOf("called")]
    BY <2>1, PhaseStep DEF vse_handle_data
  <2>3. PhaseOf("called") = "called" /\ PhaseOf("idle") = "idle"
    BY DEF PhaseOf
  <2>4. Abstract!Call(c, p)
    BY <1>2, <1>3, <2>1, <2>2, <2>3 DEF vse_handle_data, Abstract!Call
  <2>5. QED
    BY <2>4 DEF Abstract!Next
<1>5. CASE ReadHead(c)
  <2>1. AbstractPhase' = [AbstractPhase EXCEPT ![c] = PhaseOf("compare")]
    BY <1>5, PhaseStep DEF ReadHead
  <2>2. PhaseOf("compare") = "seen" /\ PhaseOf("called") = "called"
    BY DEF PhaseOf
  <2>3. Abstract!See(c)
    BY <1>2, <1>3, <1>5, <2>1, <2>2 DEF ReadHead, Abstract!See
  <2>4. QED
    BY <2>3 DEF Abstract!Next
<1>6. PhaseOf("compare") = "seen" /\ PhaseOf("advance") = "seen" /\ PhaseOf("found") = "seen"
      /\ PhaseOf("idle") = "idle" /\ PhaseOf("wild") = "lost"
  BY DEF PhaseOf
<1>7. CASE NotFound(c)
  <2>1. first[c] \in 0..Published /\ pos[c] = 0
        /\ \A n \in 1..first[c] : "miss" \in vse_do_match(entry[n].match, pkt[c])
    BY <1>3, <1>7 DEF NotFound, ReaderInv
  <2>2. \A n \in 1..first[c] :
          "miss" \in Abstract!Outcome(AbstractEntries, n, pkt[c])
    BY <1>3, <2>1, SameOutcome
  <2>3. 0 \in Abstract!Answers(AbstractEntries, first[c], pkt[c])
    BY <2>1, <2>2 DEF Abstract!Answers, Abstract!PassedOver
  <2>4. AbstractPhase' = [AbstractPhase EXCEPT ![c] = "idle"]
    <3>1. AbstractPhase' = [AbstractPhase EXCEPT ![c] = PhaseOf("idle")]
      BY <1>7, PhaseStep DEF NotFound
    <3>2. QED
      BY <1>6, <3>1
  <2>5. Abstract!Return(c)
    BY <1>2, <1>3, <1>6, <1>7, <2>3, <2>4 DEF NotFound, Abstract!Return
  <2>6. QED
    BY <2>5 DEF Abstract!Next
<1>8. CASE UseEntry(c)
  <2>1. /\ first[c] \in 0..Published /\ pos[c] \in 1..first[c]
        /\ "hit" \in vse_do_match(entry[pos[c]].match, pkt[c])
        /\ \A n \in (pos[c] + 1)..first[c] :
             "miss" \in vse_do_match(entry[n].match, pkt[c])
    BY <1>3, <1>8 DEF UseEntry, ReaderInv
  <2>2. /\ "hit" \in Abstract!Outcome(AbstractEntries, pos[c], pkt[c])
        /\ \A n \in (pos[c] + 1)..first[c] :
             "miss" \in Abstract!Outcome(AbstractEntries, n, pkt[c])
    <3>1. pos[c] \in 1..Published /\ \A n \in (pos[c] + 1)..first[c] : n \in 1..Published
      BY <1>3, <2>1
    <3>2. QED
      BY <2>1, <3>1, SameOutcome
  <2>3. pos[c] \in Abstract!Answers(AbstractEntries, first[c], pkt[c])
    BY <2>1, <2>2 DEF Abstract!Answers, Abstract!PassedOver
  <2>4. AbstractPhase' = [AbstractPhase EXCEPT ![c] = "idle"]
    <3>1. AbstractPhase' = [AbstractPhase EXCEPT ![c] = PhaseOf("idle")]
      BY <1>8, PhaseStep DEF UseEntry
    <3>2. QED
      BY <1>6, <3>1
  <2>5. Abstract!Return(c)
    BY <1>2, <1>3, <1>6, <1>8, <2>3, <2>4 DEF UseEntry, Abstract!Return
  <2>6. QED
    BY <2>5 DEF Abstract!Next
<1>9. ASSUME NEW v, pc[c] \in {"compare", "advance", "found"}, pc' = [pc EXCEPT ![c] = v],
             PhaseOf(v) = "seen", UNCHANGED <<pkt, first, steered>>
      PROVE  UNCHANGED Abstract!vars
  <2>1. AbstractPhase' = [AbstractPhase EXCEPT ![c] = "seen"]
    BY <1>9, PhaseStep
  <2>2. AbstractPhase' = AbstractPhase
    BY <1>3, <1>6, <1>9, <2>1 DEF AbstractPhase
  <2>3. QED
    BY <1>2, <1>9, <2>2 DEF Abstract!vars
<1>10. ASSUME pc[c] \in {"compare", "advance", "found"}, pc' = [pc EXCEPT ![c] = "wild"],
              UNCHANGED <<pkt, first, steered>>,
              ~Hooked \/ Abstract!Faults(AbstractEntries, first[c], pkt[c]) # {}
       PROVE  Abstract!Next
  <2>1. AbstractPhase' = [AbstractPhase EXCEPT ![c] = "lost"]
    <3>1. AbstractPhase' = [AbstractPhase EXCEPT ![c] = PhaseOf("wild")]
      BY <1>10, PhaseStep
    <3>2. QED
      BY <1>6, <3>1
  <2>2. AbstractPhase[c] = "seen"
    BY <1>3, <1>6, <1>10
  <2>3. Abstract!Lose(c)
    BY <1>2, <1>10, <2>1, <2>2 DEF Abstract!Lose
  <2>4. QED
    BY <2>3 DEF Abstract!Next
<1>11. CASE Compare(c)
  <2>1. /\ first[c] \in 0..Published /\ pos[c] \in 1..first[c] /\ pos[c] \in Int
        /\ pos[c] <= Published /\ pc[c] = "compare"
        /\ \A n \in (pos[c] + 1)..first[c] :
             "miss" \in vse_do_match(entry[n].match, pkt[c])
    BY <1>3, <1>11 DEF Compare, ReaderInv, Live, Node
  <2>2. PICK o \in Outcomes(pos[c], pkt[c]) :
          pc' = [pc EXCEPT ![c] = CASE o = "hit"   -> "found"
                                    [] o = "miss"  -> "advance"
                                    [] o = "fault" -> "wild"]
    BY <1>11 DEF Compare
  <2>3. o \in vse_do_match(entry[pos[c]].match, pkt[c]) /\ o \in {"hit", "miss", "fault"}
    BY <2>1, <2>2, PublishedContents, MatchOutcome
  <2>4. UNCHANGED <<pkt, first, steered>>
    BY <1>11 DEF Compare
  <2>5. CASE o = "hit"
    <3>1. pc' = [pc EXCEPT ![c] = "found"]
      BY <2>2, <2>5
    <3>2. QED
      BY <1>6, <1>9, <2>1, <2>4, <3>1
  <2>6. CASE o = "miss"
    <3>1. pc' = [pc EXCEPT ![c] = "advance"]
      BY <2>2, <2>6
    <3>2. QED
      BY <1>6, <1>9, <2>1, <2>4, <3>1
  <2>7. CASE o = "fault"
    <3>1. pc' = [pc EXCEPT ![c] = "wild"]
      BY <2>2, <2>7
    <3>2. pos[c] \in 1..Published /\ \A n \in (pos[c] + 1)..first[c] : n \in 1..Published
      BY <1>3, <2>1
    <3>3. /\ "fault" \in Abstract!Outcome(AbstractEntries, pos[c], pkt[c])
          /\ \A n \in (pos[c] + 1)..first[c] :
               "miss" \in Abstract!Outcome(AbstractEntries, n, pkt[c])
      BY <2>1, <2>3, <2>7, <3>2, SameOutcome
    <3>4. pos[c] \in Abstract!Faults(AbstractEntries, first[c], pkt[c])
      BY <2>1, <3>3 DEF Abstract!Faults, Abstract!PassedOver
    <3>5. QED
      BY <1>10, <2>1, <2>4, <3>1, <3>4
  <2>8. QED
    BY <2>3, <2>5, <2>6, <2>7
<1>12. CASE Advance(c)
  BY <1>6, <1>9, <1>12 DEF Advance
<1>13. CASE GoWild(c)
  <2>1. ~Hooked
    <3> SUFFICES ASSUME Hooked PROVE FALSE
      OBVIOUS
    <3>1. pos[c] \in 1..Published
      BY <1>3, <1>13 DEF GoWild, ReaderInv
    <3>2. QED
      BY <1>13, <3>1, PublishedIsLive DEF GoWild
  <2>2. QED
    BY <1>10, <1>13, <2>1 DEF GoWild
<1>14. QED
  BY <1>4, <1>5, <1>7, <1>8, <1>11, <1>12, <1>13 DEF Step

\* Every step of the lock-free list is a step of the abstract table or invisible.
THEOREM StepRefines ==
  ASSUME PublishedLast, IInv, [Next]_vars
  PROVE  [Abstract!Next]_(Abstract!vars)
<1> ListInv
  BY DEF IInv
<1>1. CASE vse_init_handler \/ vse_init_chrdev \/ vse_cleanup_handler
  BY <1>1, AbstractHandler
<1>2. CASE vse_cleanup
  BY <1>2, AbstractHandler, AbstractUnlink, AbstractDelete DEF vse_cleanup
<1>3. CASE \/ \E d \in Data : vse_add_table_entry(d)
           \/ \E d \in Data, i \in Irq : vse_add_table_entry_and_irq(d, i)
  BY <1>3, AbstractAdd DEF vse_add_table_entry
<1>4. CASE \E s \in Stores : list_add(s)
  BY <1>4, AbstractStore
<1>5. CASE \E c \in Cpu : Step(c) \/ \E p \in Packet : vse_handle_data(c, p)
  BY <1>5, AbstractLookup
<1>6. CASE UNCHANGED vars
  <2>1. UNCHANGED <<module, entry, made, pending, nxt, lookup>>
    BY <1>6 DEF vars, lookup
  <2>2. (Published' = Published) /\ (Hooked' = Hooked)
    BY <2>1 DEF Published, Hooked
  <2>3. QED
    BY <2>1, <2>2, InvisibleStep
<1>7. QED
  BY <1>1, <1>2, <1>3, <1>4, <1>5, <1>6 DEF Next

\* Each lookup sees the table as it stood at one instant between its call and
\* its return, for any number of processors, entries and packets.
THEOREM ListImplementsTable ==
  ASSUME PublishedLast
  PROVE  Spec => ImplementsFlowTable
<1>1. Init => Abstract!Init
  BY AbstractInit
<1>2. IInv /\ [Next]_vars => [Abstract!Next]_(Abstract!vars)
  BY StepRefines
<1>3. QED
  BY <1>1, <1>2, Invariance, PTL DEF Spec, ImplementsFlowTable, Abstract!Spec
=============================================================================
