CONSTANTS
  WordBits = 4
  ByteBits = 2
  SanityBytes = 4
  LoopUnroll = 2
  MaxBits = 6
  Irs <- MCIrs
  Packets <- MCPackets
SPECIFICATION GSpec
INVARIANTS WithinWidth PathsAreDisjoint NoPathIsEmptyIfBounded WitnessTakesItsPath PacketIsCoveredIfUnrolled LintIsSoundIfUnrolled
