SPECIFICATION Spec
CONSTANTS
  TestCount = 3
  JobsArgument = 1
  PromptKill = FALSE
\* The parent ends once every test is accounted for.
CHECK_DEADLOCK FALSE
INVARIANT EachTestAccountedOnce
