SPECIFICATION ExperimentsSpec
CONSTANTS
  Variants = { proposed, baseline, dropped }
  MaxAttempts = 2
  MaxExecutions = 3
SYMMETRY Interchangeable
INVARIANTS
  SavedFromLatestExecution
PROPERTIES
  FinishedAttemptsStand
CHECK_DEADLOCK FALSE
