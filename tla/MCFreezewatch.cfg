\* The limits of the code, in seconds; two bytes in a ring or in the FIFO.
CONSTANTS
  TxStallSeconds = 3
  RxStallSeconds = 4
  MaxPending = 2
  TypeAhead = 2
SPECIFICATION FairSpec
PROPERTIES OneReportPerFreeze FreezeReported
