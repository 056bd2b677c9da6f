------------------------------ MODULE VseMatch ------------------------------
(***************************************************************************)
(* The pure half of vse_flow_table.c: what a struct vse_match says, what   *)
(* vse_set_entry_match copies of it, how the VXLAN network identifier is   *)
(* taken out of a packet, and when vse_do_match accepts a packet.          *)
(*                                                                         *)
(* A 32-bit word is the tuple of its four bytes, most significant first,   *)
(* so that the byte order of the machine can be stated and nothing has to  *)
(* be computed with numbers above 2^31.                                    *)
(***************************************************************************)
EXTENDS Integers

CONSTANTS
  LittleEndian,   \* byte order of the machine the module is built for
  ETH_ALEN        \* bytes in a MAC address (6 in the code, fewer in a run)

ASSUME EndianAssumption == LittleEndian \in BOOLEAN
ASSUME AlenAssumption   == ETH_ALEN \in Nat \ {0}

Byte == 0..255
Word == Byte \X Byte \X Byte \X Byte

-----------------------------------------------------------------------------
(* The VXLAN network identifier.                                           *)

Swap(w) == <<w[4], w[3], w[2], w[1]>>

\* Reading four bytes of the packet as one host integer (*vni).
Load(b) == IF LittleEndian THEN Swap(b) ELSE b

\* The conversion between host and network order (external: <linux/byteorder>).
htonl(w) == IF LittleEndian THEN Swap(w) ELSE w

\* Mutant: nothing is masked.
Mut_MaskReserved(w) == w

\* w & 0xfffffff0: the low four bits of the host integer are cleared.
MaskReserved(w) == <<w[1], w[2], w[3], w[4] - (w[4] % 16)>>

\* Mutant: the reserved byte is not shifted out.
Mut_ShiftRight8(w) == 65536 * w[2] + 256 * w[3] + w[4]

\* The number formed by the three high bytes of a word: w >> 8.
ShiftRight8(w) == 65536 * w[1] + 256 * w[2] + w[3]

\* b is the second word of the VXLAN header: three bytes of VNI, one reserved.
vse_get_vxlan_vni(b) == ShiftRight8(htonl(MaskReserved(Load(b))))

-----------------------------------------------------------------------------
(* struct vse_match.  "exact" is the complement of the wildcards mask: the *)
(* fields whose OFPFW_ bit is clear.  "other" stands for the 18 bits of    *)
(* OFPFW_ALL that the module never sets, clears or compares.               *)

Field   == {"vm_id", "dl_dst", "vx_vni", "dl_indst"}
Exact   == SUBSET (Field \cup {"other"})
ZeroMac == [i \in 1..ETH_ALEN |-> 0]
Blank  == [vm_id |-> 0, dl_dst |-> ZeroMac, vx_vni |-> 0, dl_indst |-> ZeroMac]

\* entry_match as the module is loaded: zeroed storage, so no field is wild.
ZeroedMatch == [exact |-> Field \cup {"other"}, val |-> Blank]

\* Only the fields that are to be compared are copied into the zeroed entry.
vse_set_entry_match(data) ==
  [exact |-> data.exact,
   val   |-> [f \in Field |-> IF f \in data.exact THEN data.val[f] ELSE Blank[f]]]

\* What vse_do_match reads from the packet, by field.
Seen(skb) == [dl_dst   |-> skb.dl_dst,
              vx_vni   |-> vse_get_vxlan_vni(skb.vx),
              dl_indst |-> skb.dl_indst]

\* Every compared field agrees and no wildcard bit is left clear at the end
\* (return wildcards == OFPFW_ALL).
Agrees(match, skb) ==
  \A f \in match.exact \ {"vm_id"} :
     f # "other" /\ match.val[f] = Seen(skb)[f]

\* The outcomes of one call.  The VM_ID test comes first and dereferences nw,
\* which is never assigned: the comparison can come out either way, or fault.
vse_do_match(match, skb) ==
  LET rest == IF Agrees(match, skb) THEN "hit" ELSE "miss"
  IN  IF "vm_id" \in match.exact THEN {"fault", "miss", rest} ELSE {rest}
=============================================================================
