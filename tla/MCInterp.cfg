CONSTANTS
  WordBits = 4
  ByteBits = 2
  MaxBits = 7
  Irs <- MCAll
  Packets <- MCPackets
SPECIFICATION Spec
INVARIANTS TilesPacket EnvIsLastRead ForensicsExact TraceIsPath
PROPERTY PromiseKept
