CONSTANTS
  WordBits = 4
  ByteBits = 2
  ReturnBits = 13
  LaneBits = 5
  MaxBits = 4
  Irs <- MCShifts
  Packets <- MCPackets
SPECIFICATION BpfSpec
INVARIANT NativeArithmetic
