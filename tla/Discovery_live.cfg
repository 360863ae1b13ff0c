SPECIFICATION FairSpec
CONSTANTS
  Users = {u1, u2}
  Poisoned = {u2}
  Builders = {b1}
  Snapshots = {s1, s2, s3}
  u1 = u1
  u2 = u2
  b1 = b1
  s1 = s1
  s2 = s2
  s3 = s3
  None = None
  Limit = 1
  Slack = 1
  OwnersLeave = TRUE
  MaxEdits = 1
  MaxChanges = 0
  MaxFaults = 1
PROPERTY StaleRebuilt
