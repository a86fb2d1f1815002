\* Lifecycle and exits: starts, stops, failures and restarts on two vCPUs, with
\* every kind of exit in between.
CONSTANTS
  NumVcpus = 2
  Build = "lab"
  Commands <- LabCommands
  Faults <- AllFaults
  ConsoleLineMax = 3
  MaxEvents = 4
SPECIFICATION Spec
INVARIANTS OneGuest RecordsInsideRun LifecycleTraced
INVARIANTS UnhandledStopsGuest SmcGroups StatsCountThisRun
\* Nobody has to type, and a stopped guest does nothing.
CHECK_DEADLOCK FALSE
