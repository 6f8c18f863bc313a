\* A failed program stops, and so does a script at the bound on its calls.
SPECIFICATION Spec
CONSTANTS
  DBLOCKS_CAPACITY = 34
  NameA = NameA
  NameB = NameB
  Names <- MCNames
  Instructions = {"add", "skip"}
  Skips = {"skip"}
  Operands = {"x"}
  Kinds = {"empty", "ref"}
  ScratchBlocks = 1
  FunctionCapacity = 2
  MemblockCapacity = 3
  ProgramCapacity = 2
  MaxTokens = 2
  MaxCalls = 10
SYMMETRY Renamings
VIEW View
INVARIANTS TypeOK KeptSurvives HandleReachesLabel LayoutsInStep
PROPERTY ImplementsEmitted
CHECK_DEADLOCK FALSE
