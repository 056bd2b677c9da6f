\* Little-endian build, against what the wildcard bit is documented to mean.
SPECIFICATION Spec
CONSTANTS
  LittleEndian = TRUE
  ETH_ALEN = 1
  Vni <- MCVni
  Packet <- MCPacket
INVARIANTS
  MatchIsByVni
