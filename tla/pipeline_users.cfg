\* A job that the API adds and a cancellation, at any time.
SPECIFICATION Spec
CONSTANTS
  Analyzers = {slither, mythril}
  ApiJobs <- ThreeApiJobs
  ApiJobKind <- ThreeKinds
  StageAttempts <- FewAttempts
  AnalyzerAttempts = 2
  MaxStalls = 1
  MaxFaults = 0
  MaxApiJobs = 1
  UserCancels = TRUE
  AnalyzerTimeouts = TRUE
  NotifierWorks = FALSE
PROPERTIES
  CancelQuiesces
CHECK_DEADLOCK FALSE
