CONSTANTS
  WordCount = 2
  Data <- MCData
  InitialWord = 0
  Programs <- ThreeAccesses
  MaxGap = 4
SPECIFICATION FairSpec
INVARIANTS WritesAreDone ReadsAsWritten
PROPERTY AllFinish
CHECK_DEADLOCK FALSE
