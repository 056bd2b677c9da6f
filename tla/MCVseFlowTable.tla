--------------------------- MODULE MCVseFlowTable ---------------------------
(***************************************************************************)
(* Constants for TLC.  An entry for network 10 accepts one of the packets  *)
(* and turns the other down; the outcome of a match on vm_id is undefined. *)
(***************************************************************************)
EXTENDS VseFlowTable

Request(fields, vni) ==
  [exact |-> fields, val |-> [Blank EXCEPT !.vx_vni = vni]]

\* A packet of virtual network vni < 256, as its VXLAN header carries it.
PacketOf(vni) ==
  [dl_dst |-> ZeroMac, vx |-> <<0, 0, vni, 0>>, dl_indst |-> ZeroMac]

MCData   == {Request({"vx_vni"}, 10), Request({"vm_id"}, 0)}
MCPacket == {PacketOf(10), PacketOf(11)}

\* The order list_add_rcu guarantees: less than x86-64 keeps.
MCKept == {{"contents", "publish"}, {"new_next", "publish"}}
=============================================================================
