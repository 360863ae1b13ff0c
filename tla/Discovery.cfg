SPECIFICATION Spec
CONSTANTS
  Users = {u1}
  Poisoned = {}
  Builders = {b1, b2}
  Snapshots = {s1, s2, s3, s4}
  u1 = u1
  b1 = b1
  b2 = b2
  s1 = s1
  s2 = s2
  s3 = s3
  s4 = s4
  None = None
  Limit = 1
  Slack = 1
  OwnersLeave = FALSE
  MaxEdits = 1
  MaxChanges = 1
  MaxFaults = 2
SYMMETRY Symmetry
INVARIANTS
  TypeOK
  FreshIsCurrent
  OrphansBounded
PROPERTY ImplementsView
