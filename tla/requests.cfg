SPECIFICATION MCSpec
CONSTANTS
  r1 = r1  c1 = c1  c2 = c2  f1 = f1  f2 = f2  n1 = n1
  Requests = {r1}
  MaxFailures = 1
  Callers = {c1, c2}
  Findings = {f1}
  MaxReports = 2
  MaxLinks = 1
  MaxReviews = 1
  MaxFaults = 1
  Calls = {c1, c2}
  Nonces = {n1}
  Limit = 2
  MaxRequests = 4
  MaxSeconds = 2
  MaxErrors = 1
INVARIANTS
  ProvenByArtifacts
  
  LastTokenWorks
  WalletSignsInOnce
PROPERTIES
  RunsEnd
  WindowsEnd
CHECK_DEADLOCK FALSE
