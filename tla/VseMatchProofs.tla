--------------------------- MODULE VseMatchProofs ---------------------------
(***************************************************************************)
(* For every header: what vse_get_vxlan_vni computes on machines of either *)
(* byte order, and from it what an entry that names a VNI accepts.         *)
(***************************************************************************)
EXTENDS VseVxlan, TLAPS

\* The number that three bytes of a word make in network order.
Number(b) == 65536 * b[1] + 256 * b[2] + b[3]

\* On a big-endian machine the code reads the identifier on the wire.
LEMMA BigEndianVni ==
  ASSUME ~LittleEndian, NEW b \in Word
  PROVE  vse_get_vxlan_vni(b) = Number(b)
BY DEF vse_get_vxlan_vni, ShiftRight8, htonl, MaskReserved, Load, Number, Word

\* On a little-endian machine the low four bits of the first byte are lost.
LEMMA LittleEndianVni ==
  ASSUME LittleEndian, NEW b \in Word
  PROVE  vse_get_vxlan_vni(b) = Number(b) - 65536 * (b[1] % 16)
<1> DEFINE kept == b[1] - (b[1] % 16)
<1>1. b[1] \in Nat /\ b[2] \in Nat /\ b[3] \in Nat
  BY DEF Word, Byte
<1>2. b[1] % 16 \in Nat /\ kept \in Int
  BY <1>1
<1>3. MaskReserved(Load(b)) = <<b[4], b[3], b[2], kept>>
  BY DEF MaskReserved, Load, Swap
<1>4. htonl(MaskReserved(Load(b))) = <<kept, b[2], b[3], b[4]>>
  BY <1>3 DEF htonl, Swap
<1>5. vse_get_vxlan_vni(b) = 65536 * kept + 256 * b[2] + b[3]
  BY <1>4 DEF vse_get_vxlan_vni, ShiftRight8
<1> QED
  BY <1>1, <1>2, <1>5 DEF Number

-----------------------------------------------------------------------------

\* The variables the properties speak of always come from the constants, and
\* the verdict is the one the code computes for them.
Verdict ==
  /\ vx_vni \in Vni
  /\ skb \in Packet
  /\ hit \in BOOLEAN
  /\ hit <=> SameVni(vx_vni, skb)

LEMMA VerdictInvariant == Spec => []Verdict
<1>1. Init => Verdict
  BY DEF Init, Verdict, SameVni
<1>2. Verdict /\ [Next]_vars => Verdict'
  <2>1. ASSUME Verdict, NEW p \in Packet, Compare(p) PROVE Verdict'
    BY <2>1 DEF Verdict, Compare, SameVni
  <2>2. ASSUME Verdict, UNCHANGED vars PROVE Verdict'
    BY <2>2 DEF Verdict, vars, SameVni
  <2> QED
    BY <2>1, <2>2 DEF Next
<1> QED
  BY <1>1, <1>2, PTL DEF Spec

\* Without options the word the code reads is the one with the identifier.
LEMMA ReadsTheVni ==
  ASSUME Verdict, NoOptions
  PROVE  /\ VniWord \in Word
         /\ WireVni = Number(VniWord)
         /\ hit <=> vse_get_vxlan_vni(VniWord) = vx_vni
<1>1. skb.word \in [0..8 -> Word]
  <2>1. skb \in Packet /\ skb.ihl = 5
    BY DEF Verdict, NoOptions
  <2>2. skb.word \in [0..(VxlanHeader(skb) + 1) -> Word]
    BY <2>1, VxlanAssumption
  <2>3. VxlanHeader(skb) + 1 = 8
    BY <2>1 DEF VxlanHeader
  <2> QED
    BY <2>2, <2>3
<1>2. VniWord = skb.word[8]
  BY DEF VniWord, NoOptions, VxlanHeader
<1> QED
  BY <1>1, <1>2 DEF Verdict, SameVni, VniOffset, WireVni, Number

\* Built for a big-endian machine, the entry accepts exactly its own network.
THEOREM BigEndianMatchIsByVni ==
  ASSUME ~LittleEndian
  PROVE  Spec => []MatchIsByVni
<1>1. Verdict => MatchIsByVni
  BY ReadsTheVni, BigEndianVni DEF MatchIsByVni
<1> QED
  BY <1>1, VerdictInvariant, PTL

\* Built for a little-endian machine, it accepts the networks that differ from
\* its own in the four lost bits, and no others.
THEOREM LittleEndianMatchLosesFourBits ==
  ASSUME LittleEndian
  PROVE  Spec => []MatchLosesFourBits
<1>1. ASSUME Verdict, NoOptions
      PROVE  hit <=> vx_vni = WireVni - 65536 * (VniWord[1] % 16)
  <2>1. vse_get_vxlan_vni(VniWord) = WireVni - 65536 * (VniWord[1] % 16)
    BY <1>1, ReadsTheVni, LittleEndianVni
  <2> QED
    BY <1>1, <2>1, ReadsTheVni
<1>2. Verdict => MatchLosesFourBits
  BY <1>1 DEF MatchLosesFourBits
<1> QED
  BY <1>2, VerdictInvariant, PTL

\* Whatever the byte order, a network below 65536 gets its own entry's verdict.
THEOREM LowVniSteering == Spec => []LowVniIsSteered
<1>1. ASSUME Verdict, NoOptions
      PROVE  /\ WireVni < 65536 => (hit <=> WireVni = vx_vni)
             /\ hit /\ WireVni # vx_vni => WireVni >= 65536
  <2> DEFINE b == VniWord
  <2>1. b \in Word /\ WireVni = Number(b) /\ (hit <=> vse_get_vxlan_vni(b) = vx_vni)
    BY <1>1, ReadsTheVni
  <2>2. b[1] \in Nat /\ b[2] \in Nat /\ b[3] \in Nat
    BY <2>1 DEF Word, Byte
  <2>3. b[1] % 16 \in 0..15 /\ b[1] % 16 <= b[1]
    BY <2>2
  <2>4. WireVni \in Nat /\ WireVni >= 65536 * b[1]
    BY <2>1, <2>2 DEF Number
  <2>5. CASE LittleEndian
    <3>1. vse_get_vxlan_vni(b) = WireVni - 65536 * (b[1] % 16)
      BY <2>1, <2>5, LittleEndianVni
    <3>2. WireVni < 65536 => vse_get_vxlan_vni(b) = WireVni
      BY <2>2, <2>3, <2>4, <3>1
    <3>3. WireVni >= 65536 \/ WireVni < 65536
      BY <2>4
    <3> QED
      BY <2>1, <3>2, <3>3
  <2>6. CASE ~LittleEndian
    <3>1. vse_get_vxlan_vni(b) = WireVni
      BY <2>1, <2>6, BigEndianVni
    <3> QED
      BY <2>1, <3>1
  <2> QED
    BY <2>5, <2>6
<1>2. Verdict => LowVniIsSteered
  BY <1>1 DEF LowVniIsSteered
<1> QED
  BY <1>2, VerdictInvariant, PTL

\* On a little-endian machine one word of options makes every packet network 0's.
THEOREM OptionHides ==
  ASSUME LittleEndian
  PROVE  Spec => []OptionHidesVni
<1>1. ASSUME Verdict, skb.ihl = 6 PROVE hit <=> vx_vni = 0
  <2>1. skb.word[VniOffset] = <<8, 0, 0, 0>>
    BY <1>1, VxlanAssumption DEF Verdict, VxlanHeader, VniOffset, VxlanFlags
  <2>2. <<8, 0, 0, 0>> \in Word
    BY DEF Word, Byte
  <2>3. vse_get_vxlan_vni(<<8, 0, 0, 0>>) = 0
    BY <2>2, LittleEndianVni DEF Number
  <2> QED
    BY <1>1, <2>1, <2>3 DEF Verdict, SameVni
<1>2. Verdict => OptionHidesVni
  BY <1>1 DEF OptionHidesVni
<1> QED
  BY <1>2, VerdictInvariant, PTL
=============================================================================
