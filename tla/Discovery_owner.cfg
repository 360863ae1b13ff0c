SPECIFICATION Spec
CONSTANTS
  Users = {u1}
  Poisoned = {}
  Builders = {b1}
  Snapshots = {s1, s2, s3, s4}
  u1 = u1
  b1 = b1
  s1 = s1
  s2 = s2
  s3 = s3
  s4 = s4
  None = None
  Limit = 1
  Slack = 1
  OwnersLeave = TRUE
  MaxEdits = 1
  MaxChanges = 1
  MaxFaults = 0
INVARIANT FreshSeedsMatchLive
