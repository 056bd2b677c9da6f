----------------------------- MODULE MCVseSystem -----------------------------
(***************************************************************************)
(* Two processes that ask for network 10 on core 1, as the tool does with  *)
(* "--vni 10 --irq 1", or for everything on core 2, and packets of another *)
(* network, which belong to the second request alone.  The tool's last     *)
(* ioctl, which adds the same entry once more, is left to MCVseDev.        *)
(* Where two softirqs share the tables, one process moves network 10 from  *)
(* one core to another, with which it may or may not share a slot.         *)
(***************************************************************************)
EXTENDS VseSystem

\* A packet of virtual network vni < 256, as its VXLAN header carries it.
PacketOf(vni) ==
  [dl_dst |-> ZeroMac, vx |-> <<0, 0, vni, 0>>, dl_indst |-> ZeroMac]

Ioctl(cmd, arg) == [cmd |-> cmd, n |-> 1, arg |-> arg]
Ask(vni, i)     == <<Ioctl("INIT_WILDCARDS", 0), Ioctl("SET_VNI", vni), Ioctl("SET_IRQ", i)>>

MCProgram  == {Ask(10, 1), <<Ioctl("INIT_WILDCARDS", 0), Ioctl("SET_IRQ", 2)>>}
MCMoves    == {Ask(10, 1) \o <<Ioctl("SET_IRQ", 3)>>, Ask(10, 2) \o <<Ioctl("SET_IRQ", 1)>>}
MCHit      == {PacketOf(10)}
MCMissed   == {PacketOf(11)}
MCRecorded == {-1}
Alike      == Permutations(Client)
AlikeToo   == Permutations(Context)

Network10  == [Blank EXCEPT !.vx_vni = 10]
Wild       == {{}, {"vx_vni"}}
Zeroed     == {ZeroedMatch.exact}
MCStaged   == [match : [exact : Wild \cup Zeroed, val : {Blank, Network10}],
               irq : Irq \cup {0, Dev!NO_IRQ}]
MCEntry    == {EntryOf(s) : s \in {t \in MCStaged : t.irq \in Irq}}
=============================================================================
