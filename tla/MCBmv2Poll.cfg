CONSTANTS
  Callers = {"suite", "one"}
  Batch <- MCBatch
  ShortFrames = {4}
  ChunkSize = 2
  FlushPad = 1
  Stall = 1
  HardCap = 2
SPECIFICATION Spec
INVARIANTS VerdictsBelong OneSwitchUnlessFailed
PROPERTIES EverySwitchEnds BatchReturns
