SPECIFICATION Spec
CONSTANTS
  Runs = {r1, r2}
  Categories = {c1}
  Texts = {t1, t2}
  PromoteAfterRuns = 2
  PromoteAfterHelped = 1
  RetireAfterMisses = 1
  MaxHelped = 1
  MaxLessons = 2
  Parallel = 2
  MaxEvolves = 4
SYMMETRY Interchangeable
CONSTRAINT SomethingToLose

  
  
CHECK_DEADLOCK FALSE
PROPERTY
  FollowsLifeCycle
