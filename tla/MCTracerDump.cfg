\* What a dump holds (stated in the help text, src/uartrx/uartrx.c:159).
CONSTANTS
  ConsoleCapacity = 2
  HeaderInterval = 2
  MaxRecords = 1
  MaxVmmChars = 3
  MaxLines = 2
SPECIFICATION FairSpec
PROPERTY DumpComplete
\* Nobody has to produce anything.
CHECK_DEADLOCK FALSE
