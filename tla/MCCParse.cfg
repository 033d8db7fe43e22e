CONSTANTS
  WordBits = 4
  ByteBits = 2
  ReturnBits = 13
  LaneBits = 5
  MaxBits = 7
  Irs <- MCGood
  Packets <- MCPackets
SPECIFICATION BpfSpec
INVARIANTS OffsetsWithinBuffer PresentIsComplete NativeArithmetic VerdictUnpacksIfFew
PROPERTY PromiseKept
