CONSTANTS
  WordBits = 8
  ByteBits = 2
  MaxBytes = 3
  Irs <- MCIrs
  Packets <- MCFrames
SPECIFICATION BSpec
INVARIANTS VerdictsAgreeOtherwise SameParse AlignmentExact DissectionAgrees NeverMisaligned
PROPERTY AlignTerminates
