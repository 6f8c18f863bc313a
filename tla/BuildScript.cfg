\* Building may end in a rejected program, and one without functions is never called.
SPECIFICATION Spec
CONSTANTS
  A = A
  B = B
  None = None
  Label <- MCLabel
  MaxLines = 4
  LabelBlockAfterIf = FALSE
  MaxCodeblockNestLevel = 2
  Inputs <- MCInputs
INVARIANT TypeOK
INVARIANT EveryCommandEmittedOnce
INVARIANT IndexReachesCommand
INVARIANT FunctionsBegin
PROPERTY ImplementsScript
CHECK_DEADLOCK FALSE
