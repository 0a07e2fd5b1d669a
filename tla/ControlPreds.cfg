CONSTANTS
  N = 4
  Graphs <- AllGraphs
SPECIFICATION FairSpec
INVARIANTS KeptEdgesLeadForward NoForwardEdgeLost SortRespectsPreds
PROPERTY BothLoopsEnd
CHECK_DEADLOCK FALSE
