SPECIFICATION MCSpec
CONSTANTS
  e1 = e1  e2 = e2  e3 = e3  s1 = s1  r1 = r1  r2 = r2  h1 = h1  h2 = h2
  Events = {e1, e2, e3}
  KindOf <- MCKindOf
  KeyOf <- MCKeyOf
  Subscriptions = {s1}
  SubOf <- MCSubOf
  Handlers = {h1, h2}
  MaxDeliveries = 2
  MaxFailures = 1
  Requests = {r1, r2}
  PlanLimit <- MCPlanLimit
  FreeLimit = 1
  OverrideLimits <- MCOverrideLimits
  MaxLimit = 1
  MaxMonth = 1
  MayAsk <- MCMayAsk
INVARIANTS
  AtMostOnce
  OvershootBounded
  
CHECK_DEADLOCK FALSE
SYMMETRY MCSymmetry
