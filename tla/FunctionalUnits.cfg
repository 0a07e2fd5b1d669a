CONSTANTS
  Word = 4
  Wide = 24
  MaxUses = 3
  Jobs <- MCJobs
SPECIFICATION Spec
INVARIANTS ComputesTheInstruction ActsWhenTold
CHECK_DEADLOCK FALSE
