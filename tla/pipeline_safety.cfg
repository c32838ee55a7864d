SPECIFICATION Spec
CONSTANTS
  MaxInvocations = 3
  StopStages = { "survey", "review" }
INVARIANTS
  TypeOK DoneMeansSaved OrderlyRunsAreFresh OrderlyRelease
PROPERTIES
  DoneOnlyResetByStage
CHECK_DEADLOCK FALSE
