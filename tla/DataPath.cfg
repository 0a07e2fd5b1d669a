CONSTANTS
  MaxCount = 4
  Instances = 5
  Functions <- AllFunctions
  Values <- PassingUses
SPECIFICATION DataSpec
INVARIANTS ReadsWhatIsMeant StorageFound
