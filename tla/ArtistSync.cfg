SPECIFICATION FairSpec
CONSTANTS
  StaleAfter = 4
  BeatStaleAfter = 2
  Artists = {1}
  Concurrency = 1
  SongLanes = {l1, l2}
  l1 = l1
  l2 = l2
  MaxChanges = 2
  MaxFaults = 1
INVARIANTS TypeOK OrphanShown LiveNotSuspected ItemsTellTheTruth SummariesHonoured
PROPERTIES CatchesUp
