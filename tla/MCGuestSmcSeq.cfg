\* Whether an SMC's records are consecutive (stated in docs/trace-format.md:77).
CONSTANTS
  NumVcpus = 1
  Build = "harness"
  Commands <- HarnessCommands
  Faults <- AllFaults
  ConsoleLineMax = 3
  MaxEvents = 4
SPECIFICATION Spec
INVARIANT SmcConsecutive
\* Nobody has to type, and a stopped guest does nothing.
CHECK_DEADLOCK FALSE
