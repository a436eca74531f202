\* Two workers, three jobs of queues of 10, 30 and 60 minutes, one place, three faults.
\* Two executions on a worker, or a source prepared twice, with one mishap.
SPECIFICATION MCSpec
CONSTANTS
  Workers = {w1, w2}
  Jobs <- ThreeJobs
  MaxLeases = 1
  Ttl = 4
  RenewEvery <- MixedQueues
  MaxFaults = 3
  h1 = h1  h2 = h2  r1 = r1  r2 = r2  p1 = p1  p2 = p2
  Files = {f1, f2}
  Preparations = {p1, p2}
  Runs = {r1, r2}
  PrepHost = h1
  HostOf <- Elsewhere
  MaxMishaps = 1
INVARIANTS
  LimitHolds
  
  
  NothingLeft
PROPERTIES
  AllDone
  ExecutionsEnd
CHECK_DEADLOCK FALSE
