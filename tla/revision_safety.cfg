SPECIFICATION FairSpec
CONSTANTS
  GateProblems = { "number", "statement_error" }
  GateBlockers = { "number", "statement_error" }
  CompileErrors = { "statement_error" }
  Critiques = { "overclaim" }
  Severities = { 1 }
  Unowned = { "statement_error" }
  ReflagCap = 1
  MaxFindings = 2
  MaxRounds = 2
  PlateauRounds = 2
  Target = 3
  Tolerance = 1
  MinGain = 0
  Scores = { 1, 3 }
  MaxRaised = 1
  Requestable = {}
INVARIANTS
  NoTraceOfRejected KeptTogether LedgerMatchesGates FatesAreFinal
PROPERTIES
  FollowsTheRule Terminates
