SPECIFICATION LoopSpec
CONSTANTS
  Percepts = {p1, p2}
  Tasks = {t1, t2}
  Goals = {g1}
  Priorities = {1, 3}
  MaxTasksPerCycle = 1
  CycleLimits = {0, 2}
  ReentrantCalls = TRUE
  OwnerMayStop = TRUE
  None = None
  MaxQueue = 2
  MaxRuns = 1
CHECK_DEADLOCK FALSE
INVARIANT EndedMeansCalled
