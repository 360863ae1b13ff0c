SPECIFICATION Spec
CONSTANTS
  Songs = {1}
  Workers = {w1, w2}
  NoWorker = NoWorker
  Lanes = {l1}
  Requests <- AllAuto
  Lag = 1
  Overlap = 1
  LockMayDrop = TRUE
  Flaws = {"inventory", "detail"}
  MaxRuns = 3
  MaxTime = 2
  MaxChanges = 0
  MaxBursts = 0
  MaxFaults = 1
INVARIANTS DeletionConfirmed
PROPERTIES CheckpointMonotone
SYMMETRY Symmetry
