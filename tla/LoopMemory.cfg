SPECIFICATION BenchSpec
CONSTANTS
    Trip = 3
    Word = 256
    Horizon = 12
    Count <- OneOfEach
    Loops <- MCLoops
    Experiments <- MCExperiments
    Intervals = {1, 2}
    MaxStart = 5
    MaxSlack = 1
INVARIANTS VerdictIsTrue DependencesMet UnitsSuffice ReadsAsInOrder LeftAsInOrder
CHECK_DEADLOCK FALSE
