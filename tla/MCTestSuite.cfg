CONSTANTS
  ByteBits = 2
  WordBits = 2
  MaxWidth = 3
  MaxVectors = 2
  EditedWires <- MCWires
  Result <- MCResult
SPECIFICATION SuiteSpec
INVARIANTS TermsReadFields WrittenIsCanonical ReplayIsExact BackendsSeeWhatWasReplayed
