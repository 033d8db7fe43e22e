CONSTANTS
  WordBits = 4
  ByteBits = 2
  MaxBits = 5
  Irs <- MCAll
  Packets <- MCPackets
SPECIFICATION TSpec
INVARIANTS TypeOK TailIsIgnored TruncationIsCaught
PROPERTY Terminates
