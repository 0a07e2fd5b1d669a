CONSTANTS
  ExpBits = 3
  FracBits = 3
  Operands <- AllPairs
  Followed <- MCFollowed
  MaxClock = 24
SPECIFICATION Spec
INVARIANTS AnswersAreSums AnswersInTime
