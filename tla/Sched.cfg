SPECIFICATION EndingSpec
CONSTANTS
  TestCount = 3
  JobsArgument = 2
  PromptKill = TRUE
\* The parent ends once every test is accounted for.
CHECK_DEADLOCK FALSE
INVARIANT TypeOK
INVARIANT OneWriterPerSlot
INVARIANT EachTestAccountedOnce
PROPERTY PassIsEarned
PROPERTY Terminates
