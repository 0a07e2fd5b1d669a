CONSTANTS
  MaxCount = 3
  Functions <- PassingDesigns
SPECIFICATION TaskSpec
INVARIANTS TasksAreThreads EntriesFollowEdges StartedStatesExecute
PROPERTY ExecutesTheGraph
