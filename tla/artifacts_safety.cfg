SPECIFICATION Spec
CONSTANTS
  Names = { plan, paper }
  Pieces = { head, tail }
  Procs = { run }
  MaxSaves = 4
INVARIANTS
  NothingDrifts
PROPERTIES
  IsHistory
CHECK_DEADLOCK FALSE
