SPECIFICATION Spec
CONSTANTS
  Users = {u1, u2, u3}
  Lists = {p1, p2}
  Songs = {s1, s2, s3, s4}
  Providers = {g1, g2}
  Reports = {r1}
  Txs = {t1, t2}
  u1 = u1
  u2 = u2
  u3 = u3
  p1 = p1
  p2 = p2
  s1 = s1
  s2 = s2
  s3 = s3
  s4 = s4
  g1 = g1
  g2 = g2
  r1 = r1
  t1 = t1
  t2 = t2
  None = None
  SongLimit = 3
  MemberLimit = 1
  ListLimit = 1
  Population <- Start
  MaxOps = 2
  MaxSyncs = 1
SYMMETRY Symmetry
INVARIANTS TypeOK EditsSerialize LimitsKept ProviderKept
PROPERTIES OnlyPublicAdded SettledReportsFrozen ImplementsView
CHECK_DEADLOCK FALSE
