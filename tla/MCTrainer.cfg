CONSTANTS
  Trainers = {t1, t2}
  PlayerCount = 2
  SizeMax = 3
  Amounts = {0, 1, 2, 3}
  Intervals = {1, 2, 3}
  VisitedCounts = {1, 2}
  MaxRuns = 2
SPECIFICATION Spec
INVARIANTS TypeOK IterationsInOrder ProgressSchedule SequentialAlone
