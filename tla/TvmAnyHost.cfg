SPECIFICATION Spec
CONSTANTS
  Main = Main
  Lib = Lib
  None = None
  Program <- MCProgram
  Length <- MCLength
  EntryPoint <- MCEntryPoint
  EndsInCall = {Main}
  LwHalf = 1
  McHalf = 1
  VMStackSize = 1
  HostWindsUp = FALSE
\* A crash ends a context, and a host need not call again.
CHECK_DEADLOCK FALSE
INVARIANT TypeOK
INVARIANT FrameInv
