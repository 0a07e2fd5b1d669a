CONSTANTS
  Programs <- AllPrograms
SPECIFICATION Spec
INVARIANTS ReadAsWritten RunsTheProgram PipelinesHoldTheirLoops CompilesAllElse InliningKeepsTiming
CHECK_DEADLOCK FALSE
