\* Two crashes, stalls or infrastructure errors anywhere,
\* against two analyzers.
SPECIFICATION Spec
CONSTANTS
  Analyzers = {slither, mythril}
  ApiJobs <- NoApiJobs
  ApiJobKind <- NoKinds
  StageAttempts <- OneAttempt
  AnalyzerAttempts = 2
  MaxStalls = 1
  MaxFaults = 2
  MaxApiJobs = 0
  UserCancels = FALSE
  AnalyzerTimeouts = FALSE
  NotifierWorks = FALSE
INVARIANTS
  
  OnePublishedReport
PROPERTIES
  EvidenceSettled
SYMMETRY AnalyzerSymmetry
CHECK_DEADLOCK FALSE
