SPECIFICATION FairSpec
CONSTANTS
  TestCount = 2
  JobsArgument = 2
  PromptKill = TRUE
\* The parent ends once every test is accounted for.
CHECK_DEADLOCK FALSE
PROPERTY Terminates
