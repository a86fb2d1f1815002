\* A ring that fills behind a slow VMM and is reused, and faults without end,
\* also while a report is being read.
CONSTANTS
  CmdRingCapacity = 2
  PollLimit = 1
  MaxLines = 3
  MaxFaults = 1
SPECIFICATION FairSpec
INVARIANTS RunsInOrder CompletedMeansRun NoLostCommand CrumbTrue
PROPERTY SentMeansEventuallyRun
\* The typist may stop typing.
CHECK_DEADLOCK FALSE
