SPECIFICATION Spec
CONSTANT Programs <- MCPrograms
INVARIANTS OutputsAsProgram OutputsInTime
