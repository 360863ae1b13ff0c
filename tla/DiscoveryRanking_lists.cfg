SPECIFICATION Spec
CONSTANTS
  Songs = {1, 2, 3}
  Tags = {1}
  Artists = {9}
  InitialRows <- Few
  Rows <- Written
  SeedLimit = 2
  FeatureLimit = 1
  PerFeature = 2
  PageSizes = {2}
  MaxChanges = 2
  MaxEdits = 1
INVARIANTS
  TypeOK
  FreshList
  FreshParity
