\* What a restart does to the console line (stated in docs/trace-format.md:161).
CONSTANTS
  NumVcpus = 2
  Build = "lab"
  Commands <- RestartCommands
  Faults <- PrintFaults
  ConsoleLineMax = 3
  MaxEvents = 5
SPECIFICATION Spec
INVARIANT LineOfOneRun
\* Nobody has to type, and a stopped guest does nothing.
CHECK_DEADLOCK FALSE
