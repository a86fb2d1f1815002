\* A ring that a report does not quite fill, and bytes enough to fill it,
\* drop several, report them and fill it again.
CONSTANTS
  CELL_W = 2
  CELL_H = 2
  MARGIN_TOP = 1
  MARGIN_BOTTOM = 1
  MARGIN_SIDE = 1
  MAX_COLS = 2
  MAX_ROWS = 2
  FBCON_FB_SIZE = 192
  DPU_DEFAULT <- MCDefault
  Capacity = 4
  ReportRoom = 4
  ReportLen = 3
  Texts <- MCTexts
  Registers <- MCRegisters
SPECIFICATION FairSpec
INVARIANTS NoSlotRace DropsAccounted NothingWaits PanelShowsTail DrawsInside
PROPERTY TracerReturns
\* Nobody has to print anything.
CHECK_DEADLOCK FALSE
