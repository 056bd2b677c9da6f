------------------------------ MODULE VseVxlan ------------------------------
(***************************************************************************)
(* One flow entry that names a VNI, and the VXLAN packets that are checked *)
(* against it: the code's reading of the header (vse_get_vxlan_vni)        *)
(* compared with the identifier the header carries on the wire.            *)
(*                                                                         *)
(* A packet is the length of its IP header in words (ihl, 5 when there are *)
(* no options) and its 32-bit words from the IP header on, numbered from   *)
(* 0, in wire order.  The UDP header and the VXLAN header follow, two      *)
(* words each; the second word of the last one holds the identifier.       *)
(***************************************************************************)
EXTENDS VseMatch

CONSTANTS
  Vni,     \* identifiers an entry may name
  Packet   \* VXLAN packets that may arrive

VxlanHeader(p) == p.ihl + 2
VxlanFlags == <<8, 0, 0, 0>>    \* the "I" flag: the VNI is valid

ASSUME VxlanAssumption ==
  /\ Vni \subseteq Nat
  /\ \A p \in Packet : /\ p.ihl \in 5..15
                       /\ p.word \in [0..(VxlanHeader(p) + 1) -> Word]
                       /\ p.word[VxlanHeader(p)] = VxlanFlags

VARIABLES
  vx_vni,   \* match.vx_vni of the entry
  skb,      \* the last packet compared
  hit       \* what the comparison said of it

vars == <<vx_vni, skb, hit>>

\* Mutant: the offset of the VXLAN header's first word.
Mut_VniOffset == 5 + 2

\* skb->data + 20 + 8 + 4, in words: the header is taken to have no options.
VniOffset == 5 + 2 + 1

\* memcmp(&match->vx_vni, &vx_vni, 4) == 0
SameVni(v, p) == vse_get_vxlan_vni(p.word[VniOffset]) = v

Compare(p) ==
  /\ skb' = p
  /\ hit' = SameVni(vx_vni, p)
  /\ UNCHANGED vx_vni

Init ==
  /\ vx_vni \in Vni
  /\ skb \in Packet
  /\ hit = SameVni(vx_vni, skb)

Next == \E p \in Packet : Compare(p)

Spec == Init /\ [][Next]_vars

-----------------------------------------------------------------------------
NoOptions == skb.ihl = 5

\* The identifier on the wire: three bytes of the VXLAN header's second word,
\* in network order.
VniWord == skb.word[VxlanHeader(skb) + 1]
WireVni == 65536 * VniWord[1] + 256 * VniWord[2] + VniWord[3]

\* What OFPFW_VXLAN_VNI ("VXLAN VNI.", openflow.h:475) promises: an entry
\* accepts exactly the packets of its own virtual network.
MatchIsByVni == NoOptions => (hit <=> WireVni = vx_vni)

\* What the little-endian build really does: the mask meant for the reserved
\* byte falls on the low four bits of the first VNI byte, so networks are told
\* apart only by the other twenty bits, and an entry that names one of the
\* lost bits is dead.
MatchLosesFourBits ==
  NoOptions => (hit <=> vx_vni = WireVni - 65536 * (VniWord[1] % 16))

\* Networks below 65536, such as the README's "--vni 10", are never missed by
\* their own entry, and a packet wrongly accepted belongs to a network above.
LowVniIsSteered ==
  NoOptions =>
    /\ WireVni < 65536 => (hit <=> WireVni = vx_vni)
    /\ hit /\ WireVni # vx_vni => WireVni >= 65536

\* vse_get_vxlan_vni has the length of an IP header without options built in.
\* One word of options puts the VXLAN flags where it looks, and on the
\* little-endian build the mask clears the only bit set in them: the packets
\* of every network count as network 0's and miss their own entry.
OptionHidesVni == skb.ihl = 6 => (hit <=> vx_vni = 0)
=============================================================================
