\* Two rounds between reports: a round follows a round and a report.
CONSTANTS
  Modes <- MCModes
  Rounds = 2
SPECIFICATION Spec
INVARIANTS NoFalseReport TimerCounted
PROPERTY TimerServed
\* Nobody has to start a guest.
CHECK_DEADLOCK FALSE
