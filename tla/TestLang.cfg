\* A script ends, and nothing happens after that.
SPECIFICATION Spec
CONSTANTS
  IntOf <- MCIntOf
  DoubleOf <- MCDoubleOf
  StringOf <- MCStringOf
  FunctionIndex <- MCFunctionIndex
  Program <- MCProgram
  Register <- MCRegister
  Xmm <- MCXmm
  Addr <- MCAddr
  MemSize = 8
  LwcallSize = 3
  StashSize = 2
  StackSize = 3
  MaxIndent = 3
  Scripts <- MCScripts
  Faults = {101}
  CallbackIds = {1, 5}
  MaxChanges = 1
  MaxCallbacks = 2
  MaxIndented = 5
INVARIANT TypeOK
INVARIANT TreeFollowsIndentation
INVARIANT ErrorsAnswered
INVARIANT CommandsInOrder
INVARIANT MissedOnlyAtEnd
PROPERTY PassMeansMet
PROPERTY FailMeansUnmet
CHECK_DEADLOCK FALSE
