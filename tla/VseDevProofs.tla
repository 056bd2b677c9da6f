----------------------------- MODULE VseDevProofs -----------------------------
(***************************************************************************)
(* Proofs about the device, for any programs and any number of clients     *)
(* whose opens, ioctls and releases overlap in any way.                    *)
(***************************************************************************)
EXTENDS VseDev, FiniteSetTheorems, TLAPS

-----------------------------------------------------------------------------
(* The inductive invariant.                                                *)

Opened == {"open", "closing", "releasing"}

\* One client at most is past the test of the counter, and the counter says
\* whether it has opened the device.
CounterInv ==
  /\ \A c, d \in Entering \cup Inside : c = d
  /\ Device_Open = IF Inside = {} THEN 0 ELSE 1
  /\ \A c \in Client : /\ pc[c] = "opening" => reg[c] = 0
                       /\ pc[c] = "releasing" => reg[c] = 1

\* What is staged is what the first n ioctls of program p ask for.
Says(m, v, p, n) ==
  /\ m.exact = AskedExact(p, n)
  /\ m.val.vm_id  = LastOf(p, Staging(p, n, "vm_id", 1))
  /\ m.val.vx_vni = LastOf(p, Staging(p, n, "vx_vni", 1))
  /\ \A b \in 1..ETH_ALEN : /\ m.val.dl_dst[b]   = LastOf(p, Staging(p, n, "dl_dst", b))
                          /\ m.val.dl_indst[b] = LastOf(p, Staging(p, n, "dl_indst", b))
  /\ v = AskedIrq(p, n)

StagingInv(c) ==
  pc[c] = "open" /\ done[c] > 0 /\ program[c][1].cmd = "INIT_WILDCARDS" =>
    Says(entry_match, irq, program[c], done[c])

\* A client has issued nothing before it was let in, and every entry is one of the
\* ioctls its client has issued.
TableInv ==
  /\ \A c \in Client : pc[c] \notin Opened \cup {"closed"} => done[c] = 0
  /\ \A k \in DOMAIN table : table[k].done \in 1..done[table[k].by]

\* While a client has the device open its own entries are in front.
FrontInv ==
  \A c \in Inside : \A k \in DOMAIN table : table[k].by = c => table[1].by = c

MacType == [1..ETH_ALEN -> Int]
MatchType == [exact : Exact,
              val : [vm_id : Int, dl_dst : MacType, vx_vni : Int, dl_indst : MacType]]
EntryType == [match : [exact : Exact, val : [Field -> Int \cup MacType]], irq : Byte,
              by : Client, done : Nat]

IInv ==
  /\ TypeOK /\ entry_match \in MatchType /\ table \in Seq(EntryType)
  /\ refs = Cardinality(Inside)
  /\ TableInv /\ EntryIsOwnRequest /\ LaterEntryInFront
  /\ ~raced => CounterInv /\ FrontInv /\ \A c \in Client : StagingInv(c)

-----------------------------------------------------------------------------
(* What one more ioctl of a program asks for.                              *)

LEMMA FieldNames ==
  /\ DOMAIN FieldOf = {"SET_VM_ID", "SET_VNI", "SET_DL_INDST", "SET_DL_DST"}
  /\ FieldOf["SET_VM_ID"] = "vm_id" /\ FieldOf["SET_VNI"] = "vx_vni"
  /\ FieldOf["SET_DL_INDST"] = "dl_indst" /\ FieldOf["SET_DL_DST"] = "dl_dst"
  BY DEF FieldOf

LEMMA SinceNext ==
  ASSUME NEW p, NEW n \in Nat, NEW i, i = p[n + 1]
  PROVE  /\ Since(p, n) \subseteq 1..n
         /\ i.cmd = "INIT_WILDCARDS" => Since(p, n + 1) = {}
         /\ i.cmd # "INIT_WILDCARDS" => Since(p, n + 1) = Since(p, n) \cup {n + 1}
<1>1. Since(p, n) \subseteq 1..n
  BY DEF Since
<1>2. ASSUME i.cmd = "INIT_WILDCARDS" PROVE Since(p, n + 1) = {}
  BY <1>2 DEF Since
<1>3. ASSUME i.cmd # "INIT_WILDCARDS"
      PROVE  Since(p, n + 1) = Since(p, n) \cup {n + 1}
  BY <1>3 DEF Since
<1>4. QED
  BY <1>1, <1>2, <1>3

Stages(i, f, b) == i.cmd \in DOMAIN FieldOf /\ FieldOf[i.cmd] = f /\ i.n = b

LEMMA StagingNext ==
  ASSUME NEW p, NEW n \in Nat, NEW i, i = p[n + 1], NEW f, NEW b
  PROVE  /\ Staging(p, n, f, b) \subseteq 1..n
         /\ i.cmd = "INIT_WILDCARDS" => Staging(p, n + 1, f, b) = {}
         /\ i.cmd # "INIT_WILDCARDS" /\ Stages(i, f, b) =>
              Staging(p, n + 1, f, b) = Staging(p, n, f, b) \cup {n + 1}
         /\ i.cmd # "INIT_WILDCARDS" /\ ~Stages(i, f, b) =>
              Staging(p, n + 1, f, b) = Staging(p, n, f, b)
  BY SinceNext DEF Staging, Stages

LEMMA NamingNext ==
  ASSUME NEW p, NEW n \in Nat, NEW i, i = p[n + 1]
  PROVE  /\ Naming(p, n) \subseteq 1..n
         /\ i.cmd = "INIT_WILDCARDS" => Naming(p, n + 1) = {}
         /\ i.cmd # "INIT_WILDCARDS" =>
              Naming(p, n + 1) = IF i.cmd = "SET_IRQ" THEN Naming(p, n) \cup {n + 1}
                                                             ELSE Naming(p, n)
  BY SinceNext DEF Naming

LEMMA LastOfNext ==
  ASSUME NEW p, NEW n \in Nat, NEW i, i = p[n + 1], NEW K \in SUBSET (1..n)
  PROVE  LastOf(p, K \cup {n + 1}) = get_user(i) /\ LastOf(p, {}) = 0
<1>1. \A x \in K \cup {n + 1} : (\A y \in K \cup {n + 1} : x >= y) <=> x = n + 1
  OBVIOUS
<1>2. Max(K \cup {n + 1}) = n + 1
  BY <1>1 DEF Max
<1>3. QED
  BY <1>2 DEF LastOf

LEMMA UserInt ==
  ASSUME NEW i, IsIoctl(i)
  PROVE  get_user(i) \in Int /\ (i.cmd = "SET_IRQ" => get_user(i) \in Byte)
<1>1. ASSUME NEW v \in Int PROVE ToU8(v) \in Byte
  BY EndianAssumption, SMT DEF ToU8, Byte
<1>2. Byte \subseteq Int /\ 0 \in Byte
  BY DEF Byte
<1>3. i.arg \in Int \cup {BadAddress}
  BY <1>2 DEF IsIoctl
<1>4. QED
  BY <1>1, <1>2, <1>3 DEF get_user

\* What the switch makes of the staging area, field by field.
Cleared(r) ==
  /\ r.exact = {} /\ r.val.vm_id = 0 /\ r.val.vx_vni = 0
  /\ \A b \in 1..ETH_ALEN : r.val.dl_dst[b] = 0 /\ r.val.dl_indst[b] = 0

Stored(m, i, r) ==
  LET u == get_user(i)
  IN  /\ r.exact = IF i.cmd \in DOMAIN FieldOf /\ i.n = LastByte(FieldOf[i.cmd])
                   THEN m.exact \cup {FieldOf[i.cmd]} ELSE m.exact
      /\ r.val.vm_id  = IF i.cmd = "SET_VM_ID" THEN u ELSE m.val.vm_id
      /\ r.val.vx_vni = IF i.cmd = "SET_VNI"   THEN u ELSE m.val.vx_vni
      /\ \A b \in 1..ETH_ALEN :
           /\ r.val.dl_dst[b]   = IF i.cmd = "SET_DL_DST" /\ i.n = b
                                  THEN u ELSE m.val.dl_dst[b]
           /\ r.val.dl_indst[b] = IF i.cmd = "SET_DL_INDST" /\ i.n = b
                                  THEN u ELSE m.val.dl_indst[b]

LEMMA StagedFields ==
  ASSUME NEW m \in MatchType, NEW i, IsIoctl(i)
  PROVE  /\ StagedMatch(m, i) \in MatchType
         /\ i.cmd = "INIT_WILDCARDS" => Cleared(StagedMatch(m, i))
         /\ i.cmd # "INIT_WILDCARDS" => Stored(m, i, StagedMatch(m, i))
<1> DEFINE n == StagedMatch(m, i)
           u == get_user(i)
<1> USE DEF Cleared, Stored
<1>1. u \in Int /\ i.n \in 1..ETH_ALEN /\ i.cmd \in Cmd
  BY UserInt DEF IsIoctl
<1>2. /\ m.exact \in Exact /\ m.val.vm_id \in Int /\ m.val.vx_vni \in Int
      /\ m.val.dl_dst \in MacType /\ m.val.dl_indst \in MacType
      /\ m.val \in [vm_id : Int, dl_dst : MacType, vx_vni : Int, dl_indst : MacType]
  BY DEF MatchType
<1>3. CASE i.cmd = "INIT_WILDCARDS"
  <2>1. n = [exact |-> {}, val |-> Blank]
    BY <1>3 DEF StagedMatch
  <2>2. Blank \in [vm_id : Int, dl_dst : MacType, vx_vni : Int, dl_indst : MacType]
    BY DEF Blank, ZeroMac, MacType
  <2>3. n \in MatchType
    BY <2>1, <2>2 DEF MatchType, Exact
  <2>4. Cleared(n)
    <3>1. n.exact = {} /\ n.val.vm_id = 0 /\ n.val.vx_vni = 0
      BY <2>1 DEF Blank
    <3>2. n.val.dl_dst = ZeroMac /\ n.val.dl_indst = ZeroMac
      BY <2>1 DEF Blank
    <3>3. \A b \in 1..ETH_ALEN : ZeroMac[b] = 0
      BY DEF ZeroMac
    <3> HIDE DEF n
    <3>4. QED
      BY <3>1, <3>2, <3>3
  <2>5. QED
    BY <1>3, <2>3, <2>4
<1>4. CASE i.cmd = "SET_VM_ID"
  <2>1. n = [exact |-> m.exact \cup {"vm_id"}, val |-> [m.val EXCEPT !["vm_id"] = u]]
    BY <1>4, FieldNames DEF StagedMatch
  <2>2. i.n = LastByte("vm_id")
    BY <1>4 DEF IsIoctl, LastByte, MacField
  <2>3. QED
    BY <1>1, <1>2, <1>4, <2>1, <2>2, FieldNames DEF MatchType, Exact, Field
<1>5. CASE i.cmd = "SET_VNI"
  <2>1. n = [exact |-> m.exact \cup {"vx_vni"}, val |-> [m.val EXCEPT !["vx_vni"] = u]]
    BY <1>5, FieldNames DEF StagedMatch
  <2>2. i.n = LastByte("vx_vni")
    BY <1>5 DEF IsIoctl, LastByte, MacField
  <2>3. QED
    BY <1>1, <1>2, <1>5, <2>1, <2>2, FieldNames DEF MatchType, Exact, Field
<1>6. CASE i.cmd = "SET_DL_DST"
  <2>1. n = [exact |-> IF i.n = ETH_ALEN THEN m.exact \cup {"dl_dst"} ELSE m.exact,
             val   |-> [m.val EXCEPT !["dl_dst"][i.n] = u]]
    BY <1>6, FieldNames DEF StagedMatch
  <2>2. LastByte("dl_dst") = ETH_ALEN
    BY DEF LastByte, MacField
  <2>3. n.val = [m.val EXCEPT !["dl_dst"] = [m.val.dl_dst EXCEPT ![i.n] = u]]
    BY <2>1
  <2>4. [m.val.dl_dst EXCEPT ![i.n] = u] \in MacType
    BY <1>1, <1>2 DEF MacType
  <2>5. \A b \in 1..ETH_ALEN :
          [m.val.dl_dst EXCEPT ![i.n] = u][b] = IF i.n = b THEN u ELSE m.val.dl_dst[b]
    BY <1>1, <1>2 DEF MacType
  <2>6. n.exact = IF i.n = ETH_ALEN THEN m.exact \cup {"dl_dst"} ELSE m.exact
    BY <2>1
  <2>7. n \in MatchType
    BY <1>2, <2>1, <2>3, <2>4 DEF MatchType, Exact, Field
  <2>8. QED
    BY <1>1, <1>2, <1>6, <2>2, <2>3, <2>5, <2>6, <2>7, FieldNames
<1>7. CASE i.cmd = "SET_DL_INDST"
  <2>1. n = [exact |-> IF i.n = ETH_ALEN THEN m.exact \cup {"dl_indst"} ELSE m.exact,
             val   |-> [m.val EXCEPT !["dl_indst"][i.n] = u]]
    BY <1>7, FieldNames DEF StagedMatch
  <2>2. LastByte("dl_indst") = ETH_ALEN
    BY DEF LastByte, MacField
  <2>3. n.val = [m.val EXCEPT !["dl_indst"] = [m.val.dl_indst EXCEPT ![i.n] = u]]
    BY <2>1
  <2>4. [m.val.dl_indst EXCEPT ![i.n] = u] \in MacType
    BY <1>1, <1>2 DEF MacType
  <2>5. \A b \in 1..ETH_ALEN :
          [m.val.dl_indst EXCEPT ![i.n] = u][b] = IF i.n = b THEN u ELSE m.val.dl_indst[b]
    BY <1>1, <1>2 DEF MacType
  <2>6. n.exact = IF i.n = ETH_ALEN THEN m.exact \cup {"dl_indst"} ELSE m.exact
    BY <2>1
  <2>7. n \in MatchType
    BY <1>2, <2>1, <2>3, <2>4 DEF MatchType, Exact, Field
  <2>8. QED
    BY <1>1, <1>2, <1>7, <2>2, <2>3, <2>5, <2>6, <2>7, FieldNames
<1>8. CASE i.cmd \in {"SET_IRQ", "SET_ENTRY", "SET_DL_SRC"}
  BY <1>8, FieldNames DEF StagedMatch
<1>9. QED
  BY <1>1, <1>3, <1>4, <1>5, <1>6, <1>7, <1>8, FieldNames DEF Cmd

LEMMA SaysNext ==
  ASSUME NEW m \in MatchType, NEW v, NEW p, NEW n \in Nat,
         NEW i, i = p[n + 1], IsIoctl(i),
         i.cmd # "INIT_WILDCARDS" => Says(m, v, p, n)
  PROVE  Says(StagedMatch(m, i), StagedIrq(v, i), p, n + 1)
<1> DEFINE r == StagedMatch(m, i)
           u == get_user(i)
<1>0. /\ r \in MatchType
      /\ i.cmd = "INIT_WILDCARDS" => Cleared(r)
      /\ i.cmd # "INIT_WILDCARDS" => Stored(m, i, r)
  BY StagedFields
<1>1. CASE i.cmd = "INIT_WILDCARDS"
  <2>1. \A f, b : Staging(p, n + 1, f, b) = {}
    BY <1>1, StagingNext
  <2>2. Naming(p, n + 1) = {}
    BY <1>1, NamingNext
  <2>3. LastOf(p, {}) = 0
    BY DEF LastOf
  <2>4. AskedExact(p, n + 1) = {} /\ AskedIrq(p, n + 1) = NO_IRQ
    BY <2>1, <2>2 DEF AskedExact, AskedIrq
  <2>5. StagedIrq(v, i) = NO_IRQ
    BY <1>1 DEF StagedIrq
  <2>6. \A f, b : LastOf(p, Staging(p, n + 1, f, b)) = 0
    BY <2>1, <2>3
  <2>7. Cleared(r)
    BY <1>0, <1>1
  <2> HIDE DEF r
  <2>8. Says(r, StagedIrq(v, i), p, n + 1)
    BY <2>4, <2>5, <2>6, <2>7 DEF Says, Cleared
  <2>9. QED
    BY <2>8 DEF r
<1>2. CASE i.cmd # "INIT_WILDCARDS"
  <2>0. ASSUME NEW K \in SUBSET (1..n) PROVE LastOf(p, K \cup {n + 1}) = u
    BY LastOfNext
  <2>1. Says(m, v, p, n)
    BY <1>2
  <2>2. ASSUME NEW f, NEW b
        PROVE  LastOf(p, Staging(p, n + 1, f, b)) =
                 IF Stages(i, f, b) THEN u ELSE LastOf(p, Staging(p, n, f, b))
    <3>1. Staging(p, n, f, b) \in SUBSET (1..n)
      BY StagingNext
    <3>2. LastOf(p, Staging(p, n, f, b) \cup {n + 1}) = u
      BY <2>0, <3>1
    <3>3. /\ Stages(i, f, b) => Staging(p, n + 1, f, b) = Staging(p, n, f, b) \cup {n + 1}
          /\ ~Stages(i, f, b) => Staging(p, n + 1, f, b) = Staging(p, n, f, b)
      BY <1>2, StagingNext
    <3>4. QED
      BY <3>2, <3>3
  <2>3. AskedExact(p, n + 1) =
          IF i.cmd \in DOMAIN FieldOf /\ i.n = LastByte(FieldOf[i.cmd])
          THEN AskedExact(p, n) \cup {FieldOf[i.cmd]} ELSE AskedExact(p, n)
    <3>1. i.cmd \in DOMAIN FieldOf => FieldOf[i.cmd] \in Field
      BY FieldNames DEF Field
    <3>2. ASSUME NEW f \in Field
          PROVE  (Staging(p, n + 1, f, LastByte(f)) # {}) <=>
                   \/ Staging(p, n, f, LastByte(f)) # {}
                   \/ Stages(i, f, LastByte(f))
      <4> DEFINE b == LastByte(f)
      <4>1. /\ Stages(i, f, b) => Staging(p, n + 1, f, b) = Staging(p, n, f, b) \cup {n + 1}
            /\ ~Stages(i, f, b) => Staging(p, n + 1, f, b) = Staging(p, n, f, b)
        BY <1>2, StagingNext
      <4>2. QED
        BY <4>1
    <3> DEFINE Had(f) == Staging(p, n, f, LastByte(f)) # {}
    <3>3. AskedExact(p, n + 1) = {f \in Field : Had(f) \/ Stages(i, f, LastByte(f))}
      BY <3>2 DEF AskedExact
    <3>4. AskedExact(p, n) = {f \in Field : Had(f)}
      BY DEF AskedExact
    <3> HIDE DEF Had
    <3>5. QED
      BY <3>1, <3>3, <3>4 DEF Stages
  <2>4. StagedIrq(v, i) = AskedIrq(p, n + 1)
    <3>1. CASE i.cmd = "SET_IRQ"
      <4>1. Naming(p, n + 1) = Naming(p, n) \cup {n + 1}
        BY <1>2, <3>1, NamingNext
      <4>2. LastOf(p, Naming(p, n + 1)) = u
        <5>1. Naming(p, n) \in SUBSET (1..n)
          BY NamingNext
        <5>2. LastOf(p, Naming(p, n) \cup {n + 1}) = u
          BY <2>0, <5>1
        <5>3. QED
          BY <4>1, <5>2
      <4>3. QED
        BY <3>1, <4>1, <4>2 DEF StagedIrq, AskedIrq
    <3>2. CASE i.cmd # "SET_IRQ"
      <4>1. Naming(p, n + 1) = Naming(p, n)
        BY <1>2, <3>2, NamingNext
      <4>2. QED
        BY <1>2, <2>1, <3>2, <4>1 DEF StagedIrq, AskedIrq, Says
    <3>3. QED
      BY <3>1, <3>2
  <2>5. Stored(m, i, r)
    BY <1>0, <1>2
  <2>6. i.n \in 1..ETH_ALEN /\ (i.cmd \notin {"SET_DL_INDST", "SET_DL_DST"} => i.n = 1)
    BY DEF IsIoctl
  <2> HIDE DEF r, u
  <2>7. r.exact = AskedExact(p, n + 1)
    BY <2>1, <2>3, <2>5 DEF Says, Stored
  <2>8. r.val.vm_id = LastOf(p, Staging(p, n + 1, "vm_id", 1))
    BY <2>1, <2>2, <2>5, <2>6, FieldNames DEF Says, Stored, Stages, u
  <2>9. r.val.vx_vni = LastOf(p, Staging(p, n + 1, "vx_vni", 1))
    BY <2>1, <2>2, <2>5, <2>6, FieldNames DEF Says, Stored, Stages, u
  <2>10. ASSUME NEW b \in 1..ETH_ALEN
         PROVE  r.val.dl_dst[b] = LastOf(p, Staging(p, n + 1, "dl_dst", b))
    BY <2>1, <2>2, <2>5, FieldNames DEF Says, Stored, Stages, u
  <2>11. ASSUME NEW b \in 1..ETH_ALEN
         PROVE  r.val.dl_indst[b] = LastOf(p, Staging(p, n + 1, "dl_indst", b))
    BY <2>1, <2>2, <2>5, FieldNames DEF Says, Stored, Stages, u
  <2>12. Says(r, StagedIrq(v, i), p, n + 1)
    BY <2>4, <2>7, <2>8, <2>9, <2>10, <2>11 DEF Says
  <2>13. QED
    BY <2>12 DEF r
<1>3. QED
  BY <1>1, <1>2

LEMMA SaysAsked ==
  ASSUME NEW m \in MatchType, NEW v, NEW p, NEW n, Says(m, v, p, n)
  PROVE  [match |-> vse_set_entry_match(m), irq |-> v] = Asked(p, n)
<1>1. m.exact = AskedExact(p, n) /\ v = AskedIrq(p, n)
  BY DEF Says
<1>2. ASSUME NEW f \in Field
      PROVE  (IF f \in m.exact THEN m.val[f] ELSE Blank[f]) =
             (IF f \notin AskedExact(p, n) THEN Blank[f]
              ELSE IF f \in MacField
                   THEN [b \in 1..ETH_ALEN |-> LastOf(p, Staging(p, n, f, b))]
                   ELSE LastOf(p, Staging(p, n, f, 1)))
  <2>1. m.val.dl_dst = [b \in 1..ETH_ALEN |-> LastOf(p, Staging(p, n, "dl_dst", b))]
    BY DEF Says, MatchType, MacType
  <2>2. m.val.dl_indst = [b \in 1..ETH_ALEN |-> LastOf(p, Staging(p, n, "dl_indst", b))]
    BY DEF Says, MatchType, MacType
  <2>3. /\ m.val.vm_id = LastOf(p, Staging(p, n, "vm_id", 1))
        /\ m.val.vx_vni = LastOf(p, Staging(p, n, "vx_vni", 1))
    BY DEF Says
  <2>4. CASE f = "dl_dst"
    BY <1>1, <2>1, <2>4 DEF MacField
  <2>5. CASE f = "dl_indst"
    BY <1>1, <2>2, <2>5 DEF MacField
  <2>6. CASE f = "vm_id"
    BY <1>1, <2>3, <2>6 DEF MacField
  <2>7. CASE f = "vx_vni"
    BY <1>1, <2>3, <2>7 DEF MacField
  <2>8. QED
    BY <2>4, <2>5, <2>6, <2>7 DEF Field
<1>3. vse_set_entry_match(m) = Asked(p, n).match
  BY <1>1, <1>2 DEF vse_set_entry_match, Asked
<1>4. QED
  BY <1>1, <1>3 DEF Asked
-----------------------------------------------------------------------------
(* The invariant is kept.                                                  *)

LEMMA Initially == Init => IInv
<1> SUFFICES ASSUME Init PROVE IInv
  OBVIOUS
<1> USE DEF Init
<1>1. Cardinality(Client) \in Nat
  BY DevAssumption, FS_CardinalityType
<1>2. ZeroedMatch \in MatchType
  BY DEF ZeroedMatch, MatchType, MacType, Exact, Field, Blank, ZeroMac
<1>3. \A c \in Client : program[c] \in Program /\ Len(program[c]) \in Nat
  BY DevAssumption
<1>4. TypeOK
  <2>0. raced \in BOOLEAN
    OBVIOUS
  <2>1. refs \in 0..Cardinality(Client) /\ irq \in Byte
    BY <1>1 DEF Byte
  <2>2. entry_match.exact \in Exact /\ DOMAIN entry_match.val = Field
    BY <1>2 DEF MatchType, Field
  <2>3. QED
    BY <1>3, <2>0, <2>1, <2>2 DEF TypeOK
<1>5. Inside = {} /\ Entering = {}
  BY DEF Inside, Entering
<1>6. CounterInv /\ FrontInv /\ TableInv /\ \A c \in Client : StagingInv(c)
  BY <1>5 DEF CounterInv, FrontInv, TableInv, StagingInv
<1>7. EntryIsOwnRequest /\ LaterEntryInFront
  BY DEF EntryIsOwnRequest, LaterEntryInFront
<1>8. refs = Cardinality(Inside)
  BY <1>5, FS_EmptySet
<1>9. QED
  BY <1>2, <1>4, <1>6, <1>7, <1>8 DEF IInv

\* Every step but an ioctl.
Passes(c) ==
  \/ device_open_check(c) \/ device_open_load(c) \/ device_open_store(c)
  \/ close(c) \/ Killed(c) \/ device_release_load(c) \/ device_release_store(c)

Label == {"start", "checked", "opening", "open", "closing", "releasing", "closed", "refused"}

\* It leaves the staging area, the table and the programs alone, and moves one
\* client on.
LEMMA PassesFrame ==
  ASSUME TypeOK, NEW c \in Client, Passes(c)
  PROVE  /\ UNCHANGED <<entry_match, irq, table, program, done>>
         /\ pc'[c] \in Label /\ pc' = [pc EXCEPT ![c] = pc'[c]]
         /\ reg' \in [Client -> Int] /\ Device_Open' \in Int
         /\ raced' \in BOOLEAN /\ (raced => raced')
         /\ pc'[c] \in Opened => pc[c] \in Opened \/ pc[c] = "opening"
         /\ pc[c] \in Opened => pc'[c] \in Opened \cup {"closed"}
         /\ pc'[c] = "open" => pc[c] = "opening"
         /\ pc'[c] = "closed" => pc[c] \in Opened
         /\ pc[c] # "closed"
<1>1. pc \in [Client -> Label] /\ reg \in [Client -> Int] /\ Device_Open \in Int
      /\ raced \in BOOLEAN
  BY DEF TypeOK, Label
<1> USE <1>1 DEF GoTo, Opened, Label, device, client
<1>2. CASE device_open_check(c)
  BY <1>2 DEF device_open_check
<1>3. CASE device_open_load(c)
  BY <1>3 DEF device_open_load
<1>4. CASE device_open_store(c)
  BY <1>4 DEF device_open_store
<1>5. CASE close(c) \/ Killed(c)
  <2>1. /\ pc[c] = "open" /\ pc' = [pc EXCEPT ![c] = "closing"]
        /\ UNCHANGED <<Device_Open, device, client, raced>>
    BY <1>5 DEF close, Killed
  <2>2. QED
    BY <2>1
<1>6. CASE device_release_load(c)
  <2>1. /\ pc[c] = "closing" /\ pc' = [pc EXCEPT ![c] = "releasing"]
        /\ reg' = [reg EXCEPT ![c] = Device_Open]
        /\ UNCHANGED <<Device_Open, device, program, done, raced>>
    BY <1>6 DEF device_release_load
  <2>2. QED
    BY <2>1
<1>7. CASE device_release_store(c)
  BY <1>7 DEF device_release_store
<1>8. QED
  BY <1>2, <1>3, <1>4, <1>5, <1>6, <1>7 DEF Passes

\* The references go up and down with the clients inside, whatever overlaps.
LEMMA ReferencesKept ==
  ASSUME TypeOK, refs = Cardinality(Inside), NEW c \in Client, Passes(c)
  PROVE  refs' = Cardinality(Inside')
<1>1. pc \in [Client -> Label] /\ IsFiniteSet(Client)
  BY DevAssumption DEF TypeOK, Label
<1>2. IsFiniteSet(Inside)
  BY <1>1, FS_Subset DEF Inside
<1> USE <1>1 DEF GoTo, Inside, Label, device, client
<1>3. CASE device_open_store(c)
  <2>1. c \notin Inside /\ Inside' = Inside \cup {c} /\ refs' = refs + 1
    BY <1>3 DEF device_open_store
  <2>2. QED
    BY <1>2, <2>1, FS_AddElement
<1>4. CASE device_release_store(c)
  <2>1. c \in Inside /\ Inside' = Inside \ {c} /\ refs' = refs - 1
    BY <1>4 DEF device_release_store
  <2>2. QED
    BY <1>2, <2>1, FS_RemoveElement
<1>5. CASE ~device_open_store(c) /\ ~device_release_store(c)
  <2>1. refs' = refs
    BY <1>5 DEF Passes, device_open_check, device_open_load, close, Killed,
                device_release_load
  <2>2. Inside' = Inside
    BY <1>5 DEF Passes, device_open_check, device_open_load, close, Killed,
                device_release_load
  <2>3. QED
    BY <2>1, <2>2
<1>6. QED
  BY <1>3, <1>4, <1>5

\* The counter, unless a second open has just passed the test.
LEMMA CounterKept ==
  ASSUME TypeOK, CounterInv, ~raced', NEW c \in Client, Passes(c)
  PROVE  CounterInv'
<1>1. pc \in [Client -> Label] /\ reg \in [Client -> Int] /\ Device_Open \in Int
  BY DEF TypeOK, Label
<1>2. \/ Inside = {} /\ Device_Open = 0
      \/ \E h \in Client : Inside = {h} /\ Device_Open = 1
  BY DEF CounterInv, Inside
<1>3. device_open_check(c) =>
        pc' = [pc EXCEPT ![c] = "refused"] \/ (Inside = {} /\ Entering = {})
  <2> SUFFICES ASSUME device_open_check(c), Device_Open = 0
               PROVE  Inside = {} /\ Entering = {}
    BY DEF device_open_check, GoTo
  <2>1. Entering = {}
    BY DEF device_open_check
  <2>2. Inside = {}
    BY <1>2
  <2>3. QED
    BY <2>1, <2>2
<1> USE <1>1 DEF CounterInv, Inside, Entering, GoTo, Label, device, client
<1>9. CASE device_open_check(c)
  <2>1. reg' = reg /\ Device_Open' = Device_Open
    BY <1>9 DEF device_open_check
  <2>2. pc' = [pc EXCEPT ![c] = "refused"] \/ pc' = [pc EXCEPT ![c] = "checked"]
    BY <1>9 DEF device_open_check
  <2>3. pc[c] = "start"
    BY <1>9 DEF device_open_check
  <2>4. Inside' = Inside
    BY <2>2, <2>3
  <2>5. QED
    BY <1>3, <1>9, <2>1, <2>2, <2>3, <2>4
<1>4. CASE device_open_load(c)
  BY <1>4 DEF device_open_load
<1>5. CASE device_open_store(c)
  BY <1>5 DEF device_open_store
<1>6. CASE close(c) \/ Killed(c)
  BY <1>6 DEF close, Killed
<1>7. CASE device_release_load(c)
  BY <1>7 DEF device_release_load
<1>8. CASE device_release_store(c)
  BY <1>8 DEF device_release_store
<1>10. QED
  BY <1>9, <1>4, <1>5, <1>6, <1>7, <1>8 DEF Passes

\* A set of clients has no more elements than there are clients.
LEMMA RefsRange ==
  ASSUME NEW S \in SUBSET Client
  PROVE  Cardinality(S) \in 0..Cardinality(Client)
<1>1. IsFiniteSet(Client)
  BY DevAssumption
<1>2. Cardinality(S) <= Cardinality(Client) /\ IsFiniteSet(S)
  BY <1>1, FS_Subset
<1>3. Cardinality(S) \in Nat /\ Cardinality(Client) \in Nat
  BY <1>1, <1>2, FS_CardinalityType
<1>4. QED
  BY <1>2, <1>3

LEMMA PassesKept ==
  ASSUME IInv, NEW c \in Client, Passes(c)
  PROVE  IInv'
<1>1. TypeOK /\ TableInv /\ refs = Cardinality(Inside)
  BY DEF IInv
<1>2. UNCHANGED <<entry_match, irq, table, program, done>>
  BY <1>1, PassesFrame
<1>3. pc'[c] \in Label /\ \A d \in Client \ {c} : pc'[d] = pc[d]
  BY <1>1, PassesFrame DEF TypeOK
<1>4. /\ pc'[c] \in Opened => pc[c] \in Opened \/ pc[c] = "opening"
      /\ pc'[c] = "open" => pc[c] = "opening"
      /\ pc'[c] = "closed" => pc[c] \in Opened
      /\ pc[c] \in Opened \cup {"closed"} => pc'[c] \in Opened \cup {"closed"}
      /\ raced => raced'
  BY <1>1, PassesFrame DEF Opened
<1>5. refs' = Cardinality(Inside')
  BY <1>1, ReferencesKept
<1>6. TypeOK'
  <2>1. refs' \in 0..Cardinality(Client)
    <3>1. Inside' \in SUBSET Client
      BY DEF Inside
    <3>2. QED
      BY <1>5, <3>1, RefsRange
  <2>2. pc' \in [Client -> Label] /\ reg' \in [Client -> Int] /\ Device_Open' \in Int
        /\ raced' \in BOOLEAN
    BY <1>1, PassesFrame DEF TypeOK, Label
  <2>3. QED
    BY <1>1, <1>2, <2>1, <2>2 DEF TypeOK, Label
<1>7. TableInv'
  <2>1. ASSUME NEW d \in Client, pc'[d] \notin Opened \cup {"closed"} PROVE done'[d] = 0
    BY <1>1, <1>2, <1>3, <1>4, <2>1 DEF TableInv
  <2>2. QED
    BY <1>1, <1>2, <2>1 DEF TableInv
<1>8. EntryIsOwnRequest' /\ LaterEntryInFront'
  BY <1>2, <1>4 DEF IInv, EntryIsOwnRequest, LaterEntryInFront
<1>9. ASSUME ~raced' PROVE CounterInv' /\ FrontInv' /\ \A d \in Client : StagingInv(d)'
  <2>0. CounterInv /\ FrontInv /\ \A d \in Client : StagingInv(d)
    BY <1>4, <1>9 DEF IInv
  <2>1. CounterInv'
    BY <1>1, <1>9, <2>0, CounterKept
  <2>2. ASSUME NEW d \in Client, d \in Inside', NEW k \in DOMAIN table, table[k].by = d
        PROVE  table[1].by = d
    <3>1. CASE d \in Inside
      BY <2>0, <2>2, <3>1 DEF FrontInv
    <3>2. CASE d \notin Inside
      <4>1. d = c /\ pc[d] = "opening"
        BY <1>3, <1>4, <2>2, <3>2 DEF Inside, Opened
      <4>2. done[d] = 0 /\ table[k].done \in 1..done[d]
        BY <1>1, <2>2, <4>1 DEF TableInv, Opened
      <4>3. QED
        BY <4>2
    <3>3. QED
      BY <3>1, <3>2
  <2>3. FrontInv'
    <3>1. Inside' \subseteq Client
      BY DEF Inside
    <3>2. QED
      BY <1>2, <2>2, <3>1 DEF FrontInv
  <2>4. ASSUME NEW d \in Client PROVE StagingInv(d)'
    <3>1. CASE d = c
      <4>1. pc'[c] = "open" => done[c] = 0
        BY <1>1, <1>4 DEF TableInv, Opened
      <4>2. QED
        BY <1>2, <3>1, <4>1 DEF StagingInv
    <3>2. CASE d # c
      BY <1>2, <1>3, <2>0, <3>2 DEF StagingInv
    <3>3. QED
      BY <3>1, <3>2
  <2>5. QED
    BY <2>1, <2>3, <2>4
<1>10. QED
  BY <1>2, <1>5, <1>6, <1>7, <1>8, <1>9 DEF IInv

\* A sequence with one more element in front.
LEMMA Prepend ==
  ASSUME NEW S, NEW t \in Seq(S), NEW e \in S
  PROVE  /\ <<e>> \o t \in Seq(S)
         /\ DOMAIN (<<e>> \o t) = 1..Len(t) + 1 /\ DOMAIN t = 1..Len(t) /\ Len(t) \in Nat
         /\ (<<e>> \o t)[1] = e
         /\ \A k \in 1..Len(t) : (<<e>> \o t)[k + 1] = t[k]
  OBVIOUS

\* An ioctl adds at most an entry of what has just been staged.
LEMMA IssueKept ==
  ASSUME IInv, NEW c \in Client, issue(c)
  PROVE  IInv'
<1> DEFINE p == program[c]
           n == done[c]
           i == p[n + 1]
           e == [match |-> vse_set_entry_match(entry_match'), irq |-> irq',
                 by |-> c, done |-> n + 1]
<1>1. /\ TypeOK /\ TableInv /\ refs = Cardinality(Inside)
      /\ ~raced => CounterInv /\ FrontInv /\ StagingInv(c)
      /\ entry_match \in MatchType /\ table \in Seq(EntryType)
      /\ EntryIsOwnRequest /\ LaterEntryInFront
  BY DEF IInv
<1>2. /\ pc[c] = "open" /\ n < Len(p)
      /\ entry_match' = StagedMatch(entry_match, i)
      /\ irq' = StagedIrq(irq, i)
      /\ table' = <<e>> \o table \/ table' = table
      /\ done' = [done EXCEPT ![c] = n + 1]
      /\ UNCHANGED <<Device_Open, refs, pc, reg, program, raced>>
  BY DEF issue, vse_device_ioctl, Added
<1>3. p \in Program /\ Len(p) \in Nat /\ n \in Nat
  BY <1>1, DevAssumption DEF TypeOK
<1>4. IsIoctl(i)
  <2>1. n + 1 \in 1..Len(p)
    BY <1>2, <1>3
  <2>2. \A k \in 1..Len(p) : IsIoctl(p[k])
    BY <1>3, DevAssumption
  <2>3. QED
    BY <2>1, <2>2
<1>5. entry_match' \in MatchType
  BY <1>1, <1>2, <1>4, StagedFields
<1>6. irq' \in Byte
  <2>1. irq \in Byte
    BY <1>1 DEF TypeOK
  <2>2. i.cmd = "SET_IRQ" => get_user(i) \in Byte
    BY <1>4, UserInt
  <2>3. irq' \in {irq, NO_IRQ} \/ (i.cmd = "SET_IRQ" /\ irq' = get_user(i))
    BY <1>2 DEF StagedIrq
  <2>4. NO_IRQ \in Byte
    BY DEF NO_IRQ, Byte
  <2>5. QED
    BY <2>1, <2>2, <2>3, <2>4
<1>7. Inside' = Inside /\ (~raced => CounterInv') /\ refs' = Cardinality(Inside')
  <2>1. Inside' = Inside /\ Entering' = Entering
    BY <1>2 DEF Inside, Entering
  <2>2. QED
    BY <1>1, <1>2, <2>1 DEF CounterInv
<1>8. ~raced /\ p[1].cmd = "INIT_WILDCARDS" => Says(entry_match', irq', p, n + 1)
  <2>1. ASSUME ~raced, p[1].cmd = "INIT_WILDCARDS"
        PROVE  i.cmd # "INIT_WILDCARDS" => Says(entry_match, irq, p, n)
    <3>1. CASE n = 0
      BY <2>1, <3>1
    <3>2. CASE n > 0
      BY <1>1, <1>2, <2>1, <3>2 DEF StagingInv
    <3>3. QED
      BY <1>3, <3>1, <3>2
  <2>2. QED
    BY <1>1, <1>2, <1>3, <1>4, <2>1, SaysNext
<1>9. e \in EntryType
  <2>1. vse_set_entry_match(entry_match') \in
          [exact : Exact, val : [Field -> Int \cup MacType]]
    <3>1. \A f \in Field : entry_match'.val[f] \in Int \cup MacType
                           /\ Blank[f] \in Int \cup MacType
      BY <1>5 DEF MatchType, Field, Blank, ZeroMac, MacType
    <3>2. QED
      BY <1>5, <3>1 DEF MatchType, vse_set_entry_match
  <2>2. QED
    BY <1>3, <1>6, <2>1 DEF EntryType
<1>10. done \in [Client -> Nat] /\ done'[c] = n + 1 /\ \A d \in Client : done'[d] >= done[d]
  BY <1>1, <1>2 DEF TypeOK
<1>11. c \in Inside /\ (~raced => \A d \in Inside : d = c)
  BY <1>1, <1>2 DEF CounterInv, Inside
<1>12. ~raced => \A d \in Client : StagingInv(d)'
  <2>1. \A d \in Client : pc[d] = "open" => d \in Inside
    BY DEF Inside
  <2>2. QED
    BY <1>2, <1>8, <1>10, <1>11, <2>1 DEF StagingInv
<1>13. table' \in Seq(EntryType)
  <2>1. <<e>> \o table \in Seq(EntryType)
    BY <1>1, <1>9, Prepend
  <2>2. QED
    BY <1>1, <1>2, <2>1
<1>14. TypeOK'
  <2>1. done' \in [Client -> Nat] /\ \A d \in Client : done'[d] <= Len(program'[d])
    BY <1>1, <1>2, <1>3 DEF TypeOK
  <2>2. ASSUME NEW k \in DOMAIN table'
        PROVE  table'[k].irq \in Byte /\ table'[k].by \in Client
    <3>1. table'[k] \in EntryType
      BY <1>13
    <3>2. QED
      BY <3>1 DEF EntryType
  <2>3. entry_match'.exact \in Exact /\ DOMAIN entry_match'.val = Field
    BY <1>5 DEF MatchType, Field
  <2>4. QED
    BY <1>1, <1>2, <1>6, <2>1, <2>2, <2>3 DEF TypeOK
<1>15. CASE table' = table
  <2>1. TableInv'
    <3>1. \A d \in Client : pc[d] \notin Opened \cup {"closed"} => done'[d] = 0
      BY <1>1, <1>2 DEF TableInv, Opened
    <3>2. \A k \in DOMAIN table : table[k].by \in Client
      BY <1>1 DEF TypeOK
    <3>3. ASSUME NEW k \in DOMAIN table PROVE table[k].done \in 1..done'[table[k].by]
      <4>1. table[k].done \in 1..done[table[k].by] /\ table[k].by \in Client
        BY <1>1, <3>2 DEF TableInv
      <4>2. done[table[k].by] \in Nat /\ done'[table[k].by] \in Nat
        BY <1>1, <1>14, <4>1 DEF TypeOK
      <4>3. QED
        BY <1>10, <4>1, <4>2
    <3>4. QED
      BY <1>2, <1>15, <3>1, <3>3 DEF TableInv
  <2>2. EntryIsOwnRequest' /\ LaterEntryInFront'
    BY <1>1, <1>2, <1>15 DEF EntryIsOwnRequest, LaterEntryInFront
  <2>3. ~raced => FrontInv'
    BY <1>1, <1>7, <1>15 DEF FrontInv
  <2>4. QED
    BY <1>2, <1>5, <1>7, <1>12, <1>13, <1>14, <2>1, <2>2, <2>3 DEF IInv
<1>16. CASE table' = <<e>> \o table
  <2>1. /\ DOMAIN table' = 1..Len(table) + 1 /\ DOMAIN table = 1..Len(table)
        /\ Len(table) \in Nat /\ table'[1] = e
        /\ \A k \in 1..Len(table) : table'[k + 1] = table[k]
    BY <1>1, <1>9, <1>16, Prepend
  <2>2. \A k \in DOMAIN table' : k # 1 => k - 1 \in DOMAIN table /\ table'[k] = table[k - 1]
    <3> SUFFICES ASSUME NEW k \in DOMAIN table', k # 1
                 PROVE  k - 1 \in DOMAIN table /\ table'[k] = table[k - 1]
      OBVIOUS
    <3>1. k - 1 \in 1..Len(table) /\ (k - 1) + 1 = k
      BY <2>1
    <3>2. QED
      BY <2>1, <3>1
  <2>3. e.by = c /\ e.done = n + 1 /\ [match |-> e.match, irq |-> e.irq] =
          [match |-> vse_set_entry_match(entry_match'), irq |-> irq']
    OBVIOUS
  <2> HIDE DEF e
  <2>4. \A k \in DOMAIN table : table[k].by \in Client /\ table[k].done \in 1..done[table[k].by]
    BY <1>1 DEF TypeOK, TableInv
  <2>5. ~raced => \A k \in DOMAIN table : table[k].by = c => table[1].by = c
    BY <1>1, <1>11 DEF FrontInv
  <2>6. TableInv'
    <3>1. \A d \in Client : pc[d] \notin Opened \cup {"closed"} => done'[d] = 0
      BY <1>1, <1>2 DEF TableInv, Opened
    <3>2. ASSUME NEW k \in DOMAIN table' PROVE table'[k].done \in 1..done'[table'[k].by]
      <4>1. CASE k = 1
        BY <1>3, <1>10, <2>1, <2>3, <4>1
      <4>2. CASE k # 1
        <5>1. k - 1 \in DOMAIN table /\ table'[k] = table[k - 1]
          BY <2>2, <4>2
        <5>2. table'[k].by \in Client /\ table'[k].done \in 1..done[table'[k].by]
          BY <2>4, <5>1
        <5>3. done[table'[k].by] \in Nat /\ done'[table'[k].by] \in Nat
          BY <1>1, <1>14, <5>2 DEF TypeOK
        <5>4. QED
          BY <1>10, <5>2, <5>3
      <4>3. QED
        BY <4>1, <4>2
    <3>3. QED
      BY <1>2, <3>1, <3>2 DEF TableInv
  <2>6a. ~raced => FrontInv'
    BY <1>7, <1>11, <2>1, <2>3 DEF FrontInv
  <2>7. EntryIsOwnRequest'
    <3>1. ~raced /\ p[1].cmd = "INIT_WILDCARDS" => [match |-> e.match, irq |-> e.irq] = Asked(p, n + 1)
      BY <1>5, <1>8, <2>3, SaysAsked
    <3>2. QED
      BY <1>1, <1>2, <2>1, <2>2, <2>3, <3>1 DEF EntryIsOwnRequest
  <2>8. LaterEntryInFront'
    <3>1. ASSUME NEW x \in DOMAIN table', NEW y \in DOMAIN table', x < y,
                 table'[x].by = table'[y].by
          PROVE  /\ table'[x].done > table'[y].done
                 /\ ~raced => \A k \in x..y : table'[k].by = table'[x].by
      <4>1. y - 1 \in DOMAIN table /\ table'[y] = table[y - 1]
        BY <2>1, <2>2, <3>1
      <4>2. CASE x = 1
        <5>1. table[y - 1].by = c /\ (~raced => table[1].by = c)
          BY <2>1, <2>3, <2>5, <3>1, <4>1, <4>2
        <5>2. table[y - 1].done \in 1..n
          BY <2>4, <4>1, <5>1
        <5>3. ASSUME ~raced PROVE \A k \in 1..y - 1 : table[k].by = c
          <6>1. CASE y - 1 = 1
            BY <5>1, <6>1
          <6>2. CASE y - 1 # 1
            <7>1. 1 \in DOMAIN table /\ 1 < y - 1 /\ table[1].by = table[y - 1].by
              BY <2>1, <4>1, <5>1, <5>3, <6>2
            <7>2. \A k \in 1..y - 1 : table[k].by = table[1].by
              BY <1>1, <4>1, <5>3, <7>1 DEF LaterEntryInFront
            <7>3. QED
              BY <5>1, <5>3, <7>2
          <6>3. QED
            BY <6>1, <6>2
        <5>4. ASSUME ~raced, NEW k \in x..y PROVE table'[k].by = c
          <6>1. k \in DOMAIN table' /\ (k # 1 => k - 1 \in 1..y - 1)
            BY <2>1, <4>2
          <6>2. QED
            BY <2>1, <2>2, <2>3, <5>3, <5>4, <6>1
        <5>5. QED
          BY <1>3, <2>1, <2>3, <4>1, <4>2, <5>2, <5>4
      <4>3. CASE x # 1
        <5>1. x - 1 \in DOMAIN table /\ table'[x] = table[x - 1] /\ x - 1 < y - 1
          BY <2>1, <2>2, <3>1, <4>3
        <5>2. /\ table[x - 1].done > table[y - 1].done
              /\ ~raced => \A k \in x - 1..y - 1 : table[k].by = table[x - 1].by
          BY <1>1, <3>1, <4>1, <5>1 DEF LaterEntryInFront
        <5>3. ASSUME ~raced, NEW k \in x..y PROVE table'[k].by = table'[x].by
          <6>1. k \in DOMAIN table' /\ k # 1 /\ k - 1 \in x - 1..y - 1
            BY <2>1, <4>3
          <6>2. QED
            BY <2>2, <5>1, <5>2, <5>3, <6>1
        <5>4. QED
          BY <4>1, <5>1, <5>2, <5>3
      <4>4. QED
        BY <4>2, <4>3
    <3>2. QED
      BY <1>2, <3>1 DEF LaterEntryInFront
  <2>9. QED
    BY <1>2, <1>5, <1>7, <1>12, <1>13, <1>14, <2>6, <2>6a, <2>7, <2>8 DEF IInv
<1>17. QED
  BY <1>2, <1>15, <1>16

LEMMA StepKept == IInv /\ [Next]_vars => IInv'
<1> SUFFICES ASSUME IInv, [Next]_vars PROVE IInv'
  OBVIOUS
<1>1. CASE Next
  <2>1. PICK c \in Client : Run(c) \/ Killed(c)
    BY <1>1 DEF Next
  <2>2. CASE issue(c)
    BY <2>2, IssueKept
  <2>3. CASE ~issue(c)
    BY <2>1, <2>3, PassesKept DEF Run, Passes
  <2>4. QED
    BY <2>2, <2>3
<1>2. CASE UNCHANGED vars
  BY <1>2 DEF vars, IInv, TypeOK, CounterInv, FrontInv, TableInv, StagingInv, Says,
              EntryIsOwnRequest, LaterEntryInFront, Inside, Entering
<1>3. QED
  BY <1>1, <1>2

-----------------------------------------------------------------------------
(* What follows.                                                           *)

\* The invariant holds throughout, however opens and releases overlap.
THEOREM Invariance == Spec => []IInv
<1>1. QED
  BY Initially, StepKept, PTL DEF Spec

\* The types of TypeOK: in particular the count of module references stays
\* between none and one for each client.
THEOREM TypeCorrect == Spec => []TypeOK
<1>1. IInv => TypeOK
  BY DEF IInv
<1>2. QED
  BY <1>1, Invariance, PTL

\* The references of try_module_get count the clients inside, whatever overlaps;
\* and the counter of device_open keeps all clients but one out until two opens
\* have passed its test side by side.
THEOREM OneClient == Spec => []OneClientAtATime
<1>1. IInv => OneClientAtATime
  <2> SUFFICES ASSUME IInv, ~raced
               PROVE  Device_Open = Cardinality(Inside)
                      /\ Cardinality(Entering \cup Inside) <= 1
    BY DEF IInv, OneClientAtATime
  <2>1. CounterInv
    BY DEF IInv
  <2>2. ASSUME NEW S \in SUBSET (Entering \cup Inside)
        PROVE  Cardinality(S) = IF S = {} THEN 0 ELSE 1
    <3>1. CASE S = {}
      BY <3>1, FS_EmptySet
    <3>2. CASE S # {}
      <4>1. PICK c : S = {c}
        BY <2>1, <3>2 DEF CounterInv
      <4>2. QED
        BY <3>2, <4>1, FS_Singleton
    <3>3. QED
      BY <3>1, <3>2
  <2>3. QED
    BY <2>1, <2>2 DEF CounterInv
<1>2. QED
  BY <1>1, Invariance, PTL

\* The only way to a device that is busy with nobody inside is that two opens have
\* passed the test of the counter side by side.
THEOREM Refusal == Spec => RefusedOnlyIfBusy
<1>1. IInv /\ [Next]_vars => [~raced => TurnsAwayOnlyIfBusy]_vars
  <2> SUFFICES ASSUME IInv, Next, ~raced, NEW d \in Client, pc[d] = "start", pc'[d] = "refused"
               PROVE  Inside # {}
    BY DEF TurnsAwayOnlyIfBusy
  <2>1. CounterInv /\ pc \in [Client -> Label]
    BY DEF IInv, TypeOK, Label
  <2>2. PICK c \in Client : Run(c) \/ Killed(c)
    BY DEF Next
  <2>3. device_open_check(c) /\ Device_Open # 0
    BY <2>1, <2>2 DEF Run, device_open_check, device_open_load, device_open_store, issue,
          close, Killed, device_release_load, device_release_store, GoTo, Label
  <2>4. QED
    BY <2>1, <2>3 DEF CounterInv
<1>2. QED
  BY <1>1, Invariance, PTL DEF Spec, RefusedOnlyIfBusy

\* An entry says what the ioctls of its own client had said by then, whoever
\* had the device before and however far it got, until opens have raced.
THEOREM OwnRequest == Spec => []EntryIsOwnRequest
<1>1. IInv => EntryIsOwnRequest
  BY DEF IInv
<1>2. QED
  BY <1>1, Invariance, PTL

\* Of two entries of one client the more complete one is found first.
THEOREM FrontEntry == Spec => []LaterEntryInFront
<1>1. IInv => LaterEntryInFront
  BY DEF IInv
<1>2. QED
  BY <1>1, Invariance, PTL
=============================================================================
