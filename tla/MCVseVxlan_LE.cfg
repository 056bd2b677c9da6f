\* Little-endian build (x86-64): what the entry really accepts.
SPECIFICATION Spec
CONSTANTS
  LittleEndian = TRUE
  ETH_ALEN = 1
  Vni <- MCVni
  Packet <- MCPacket
INVARIANTS
  MatchLosesFourBits
  LowVniIsSteered
  OptionHidesVni
