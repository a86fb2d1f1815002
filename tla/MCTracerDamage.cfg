\* What a damaged record does to a dump (stated in docs/trace-format.md:127).
CONSTANTS
  ConsoleCapacity = 2
  HeaderInterval = 2
  MaxRecords = 1
  MaxVmmChars = 0
  MaxLines = 2
SPECIFICATION FairSpec
PROPERTY DamageReported
\* Nobody has to produce anything.
CHECK_DEADLOCK FALSE
