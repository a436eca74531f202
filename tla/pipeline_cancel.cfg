\* A cancellation at any time; no fault.
SPECIFICATION FairSpec
CONSTANTS
  Analyzers = {slither, mythril}
  ApiJobs <- NoApiJobs
  ApiJobKind <- NoKinds
  StageAttempts <- FewAttempts
  AnalyzerAttempts = 2
  MaxStalls = 1
  MaxFaults = 0
  MaxApiJobs = 0
  UserCancels = TRUE
  AnalyzerTimeouts = FALSE
  NotifierWorks = TRUE
PROPERTY CancelIsTerminal
CHECK_DEADLOCK FALSE
