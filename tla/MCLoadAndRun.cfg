CONSTANTS
  WordBits = 4
  ByteBits = 2
  MaxBits = 4
  Irs <- MCIrs
  Packets <- MCPackets
SPECIFICATION MCSpec
INVARIANTS MeetOverPaths DefinitelyExtracted NeverBailsIfClosed
PROPERTY VTerminates
