SPECIFICATION MCSpec
CONSTANTS
  i1 = i1  i2 = i2  i3 = i3  r1 = r1  r2 = r2  k1 = k1
  Targets = {1, 2}
  Items = {i1, i2, i3}
  TargetOf <- MCTargetOf
  RulesOf <- MCRulesOf
  Calls = {i2}
  Runs = {r1, r2}
  MaxBlock = 3
  ReorgDepth = 1
  MaxRange = 2
  MaxEvents = 1
  Multiplier = 1
  MaxFailures = 1
  c1 = c1 c2 = c2 g1 = g1 g2 = g2 a1 = a1 s1 = s1 s2 = s2
  Callers = {c1, c2}
  FindingOrder <- MCFindings
  AlertOrder <- MCAlerts
  Signatures = {s1, s2}
  FamilyOf <- MCFamily
  Requires <- MCRequires
  InCategory <- MCCategory
  InText <- MCText
  OfKind <- MCKind
  RuleOf <- MCRule
  Shapes <- MCShapes
  MaxFeedback = 3
  MaxEntries = 2
  MaxMatchings = 2
  u1 = u1 u2 = u2 y1 = y1  y2 = y2  d1 = d1 d2 = d2
  People = {u1, u2}
  Founder = u1
  Keys = {y1, y2}
  ScopesOf <- MCScopes
  Doors = {d1, d2}
  Roles = {"OWNER", "DEVELOPER"}
  TeamLimit = 2
  KeyLimit = 2
  MaxAsked = 2
INVARIANTS
  
  NothingForgotten
  RevisionMeansWhole
  OneMatchEach
  MetricMissesOverlaps
PROPERTIES
  OwnerStays
CHECK_DEADLOCK FALSE
SYMMETRY MCSymmetry
