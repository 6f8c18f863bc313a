SPECIFICATION Spec
CONSTANTS
  Main = Main
  Lib = Lib
  None = None
  Program <- MCProgram
  Length <- UnevenLength
  EntryPoint <- MCEntryPoint
  EndsInCall = {Lib}
  LwHalf = 2
  McHalf = 1
  VMStackSize = 2
  HostWindsUp = TRUE
\* A crash ends a context, and a host need not call again.
CHECK_DEADLOCK FALSE
VIEW Live
INVARIANT InsideProgram
INVARIANT ReturnsOwned
PROPERTY ImplementsNestedCalls
