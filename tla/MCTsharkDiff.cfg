CONSTANTS
  WordBits = 4
  ByteBits = 2
  Irs <- MCIrs
  Packets <- MCFrames
  Captures <- MCCaptures
  KeysShown <- MCKeys
  Changes <- MCChanges
SPECIFICATION TSpec
INVARIANT ReportIsExact
