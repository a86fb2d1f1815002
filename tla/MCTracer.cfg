\* Console rings of one byte, which fill, two command lines, a header every
\* two records.
CONSTANTS
  ConsoleCapacity = 1
  HeaderInterval = 2
  MaxRecords = 1
  MaxVmmChars = 2
  MaxLines = 2
SPECIFICATION FairSpec
INVARIANTS ConsoleExact NothingForgotten
PROPERTIES DumpServed PromptPrinted DumpDecodes
\* Nobody has to produce anything.
CHECK_DEADLOCK FALSE
