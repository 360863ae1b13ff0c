SPECIFICATION Spec
CONSTANTS
  Songs = {1, 2, 3, 4}
  Tags = {1, 2}
  Artists = {9}
  InitialRows <- Varied
  Rows = {}
  SeedLimit = 2
  FeatureLimit = 1
  PerFeature = 1
  PageSizes = {2}
  MaxChanges = 0
  MaxEdits = 0
INVARIANTS
  ShapesAgree
  PagesPartition
  BoundedIsPart
