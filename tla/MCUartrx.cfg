\* Lines: a verb and up to four words; numbers around the end of a field (3 is
\* in it, 4 is not) and of the word (64 wraps to 0, 66 to 2).  Bytes: enough to
\* overfill a line of two characters, erase it and end it, and to overrun a
\* FIFO of two.
CONSTANTS
  WordBits = 6
  FieldBits = 2
  Digits = {3, 4, 6}
  MaxDigits = 2
  MaxArgs = 4
  LineMax = 2
  FifoDepth = 2
  Bytes = {"a", "BS", "CR", "LF", "ctl"}
  MaxBytes = 5
SPECIFICATION Spec
INVARIANTS EchoIsLine ErrorsReported LossReported StartAsTyped
\* Nobody has to type.
CHECK_DEADLOCK FALSE
