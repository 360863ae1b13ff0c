SPECIFICATION RebuildSpec
CONSTANTS
  Songs = {1}
  Workers = {w1}
  NoWorker = NoWorker
  Lanes = {l1}
  Requests <- TimersAndRebuild
  Lag = 1
  Overlap = 1
  LockMayDrop = FALSE
  Flaws = {"none"}
  MaxRuns = 3
  MaxTime = 3
  MaxChanges = 0
  MaxBursts = 1
  MaxFaults = 0
PROPERTIES SeedRebuilds
