\* No fault, no user: analyzers fail, time out and are retried.
SPECIFICATION FairSpec
CONSTANTS
  Analyzers = {slither, mythril, semgrep}
  ApiJobs <- NoApiJobs
  ApiJobKind <- NoKinds
  StageAttempts <- TwoAttempts
  AnalyzerAttempts = 2
  MaxStalls = 2
  MaxFaults = 0
  MaxApiJobs = 0
  UserCancels = FALSE
  AnalyzerTimeouts = TRUE
  NotifierWorks = TRUE
INVARIANTS
  NoSilentFailure

  
  
CHECK_DEADLOCK FALSE
