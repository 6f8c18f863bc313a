\* Building may end in a rejected program, and one without functions is never called.
SPECIFICATION Spec
CONSTANTS
  A = A
  B = B
  None = None
  Label <- MCLabel
  MaxLines = 3
  LabelBlockAfterIf = TRUE
  MaxCodeblockNestLevel = 2
  Inputs <- MCInputs
INVARIANT BlockClosesOutside
CHECK_DEADLOCK FALSE
