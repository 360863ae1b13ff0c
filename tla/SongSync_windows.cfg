SPECIFICATION Spec
CONSTANTS
  Songs = {1}
  Workers = {w1, w2}
  NoWorker = NoWorker
  Lanes = {l1}
  Requests <- AllAuto
  Lag = 2
  Overlap = 1
  LockMayDrop = FALSE
  Flaws = {"none"}
  MaxRuns = 3
  MaxTime = 5
  MaxChanges = 1
  MaxBursts = 0
  MaxFaults = 1
INVARIANTS NoChangeSkipped AtMostOneRunning 
SYMMETRY Symmetry
PROPERTIES TerminalRunsFrozen
