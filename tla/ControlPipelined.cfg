CONSTANTS
  MaxCount = 4
  MaxAge = 6
  Functions <- PassingDesigns
SPECIFICATION FairPipelinedSpec
INVARIANTS PipelineAlone PhisSeeTheirIteration NoOverlappingTransitions
PROPERTIES IterationsApart IterationsAdvance LeavesEventually
