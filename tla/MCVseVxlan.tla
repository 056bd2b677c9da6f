----------------------------- MODULE MCVseVxlan -----------------------------
(***************************************************************************)
(* Packets for TLC: the values of the first VNI byte (the one the mask     *)
(* falls on when the machine is little-endian) with the boundary values of *)
(* the others, with an IP header of 5, 6 or 7 words, and the entries that  *)
(* name network 0 and networks on both sides of 65536.                     *)
(***************************************************************************)
EXTENDS VseVxlan

MCVni  == {0, 10, 65535, 65546, 131082, 983050, 1048586, 16777215}
VniWords == (0..17 \cup {240, 255}) \X {0, 255} \X {10, 255} \X {0, 15}

\* The words TLC tells apart are those of the VXLAN header; the UDP ports and
\* lengths and the IP header are one value each.
PacketOf(ihl, vni) ==
  [ihl |-> ihl, word |-> [i \in 0..(ihl + 3) |-> CASE i = ihl + 3 -> vni
                                                   [] i = ihl + 2 -> VxlanFlags
                                                   [] OTHER       -> <<18, 181, 18, 181>>]]

MCPacket == {PacketOf(ihl, vni) : ihl \in 5..7, vni \in VniWords}
=============================================================================
