CONSTANTS
  WordBits = 4
  ByteBits = 2
  MaxBits = 4
  Irs <- MCConfused
  Packets <- MCPackets
SPECIFICATION LSpec
INVARIANT ErrOnlyIfMalformed
