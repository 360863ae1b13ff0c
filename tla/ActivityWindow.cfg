SPECIFICATION FairSpec
CONSTANTS
  Lanes = {c, l1, l2}
  Collector = c
  c = c
  l1 = l1
  l2 = l2
  MaxAttempts = 2
  Timeout = 2
  BaseDelay = 1
  MaxRetryAfter = 2
  Start = 0
  End = 5
  Slice = 1
  MaxResults = 2
CHECK_DEADLOCK FALSE
INVARIANTS TypeOK Covered SaturatedMeansDense
PROPERTIES CollectionEnds EveryCallSettles
