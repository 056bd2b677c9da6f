------------------------------ MODULE MCVseDev ------------------------------
(***************************************************************************)
(* Programs for TLC.  Command lines of the tool: the README's "--vni 10    *)
(* --irq 3", the same with its options the other way round, one for a core *)
(* number above 255 and a MAC address (two bytes long), and one with a     *)
(* negative core number.  And a program that has an argument at a bad      *)
(* address and starts afresh before, and one that never does.              *)
(***************************************************************************)
EXTENDS VseDev

Option(flag, val) == [flag |-> flag, val |-> val]

VniThenIrq  == main(<<Option("--vni", 10), Option("--irq", 3)>>)
IrqThenVni  == main(<<Option("--irq", 3), Option("--vni", 10)>>)
IrqThenMac  == main(<<Option("--irq", 259), Option("--dl_dst", <<7, 9>>)>>)
NegativeIrq == main(<<Option("--irq", -1)>>)

Restarted == <<Ioctl("INIT_WILDCARDS", 0), Ioctl("SET_VNI", 6), Ioctl("INIT_WILDCARDS", 0),
               Ioctl("SET_VM_ID", 260), Ioctl("SET_VNI", BadAddress),
               Ioctl("SET_ENTRY", 0)>>
Careless  == <<Ioctl("SET_DL_SRC", 6), Ioctl("SET_VNI", 12), Ioctl("SET_ENTRY", 0)>>

MCProgram   == {IrqThenMac, Restarted, Careless}
MCReordered == {VniThenIrq, IrqThenVni}
MCNegative  == {NegativeIrq, VniThenIrq}
=============================================================================
