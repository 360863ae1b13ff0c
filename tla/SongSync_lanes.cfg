SPECIFICATION FairSpec
CONSTANTS
  Songs = {1, 2}
  Workers = {w1}
  NoWorker = NoWorker
  Lanes = {l1, l2}
  Requests <- TimersAndRepairs
  Lag = 1
  Overlap = 2
  LockMayDrop = FALSE
  Flaws = {"detail"}
  MaxRuns = 2
  MaxTime = 2
  MaxChanges = 0
  MaxBursts = 1
  MaxFaults = 1
INVARIANTS TypeOK SettledRuns NoLostInvalidation
PROPERTIES RunsTerminate
