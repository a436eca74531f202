SPECIFICATION MCSpec
CONSTANTS
  v1 = v1  f1 = f1  f2 = f2  t1 = t1  t2 = t2  r1 = r1  w1 = w1
  Analyzers = {"slither", "mythril", "semgrep"}
  Outputs <- MCOutputs
  MaxRuns = 2
  Passes = {1, 2}
  Builds <- MCBuilds
  Verdicts = {"FALSE_POSITIVE"}
  Mentions <- MCMentions
  Validations = {v1}
  Findings = {f1, f2}
  Txs = {t1, t2}
  Rules = {r1}
  Matches <- MCMatches
  Decisions = {"ACCEPTED", "FALSE_POSITIVE", "SUPPRESSED"}
  Owners = {w1}
INVARIANTS
  
  LinksMatchRows
  SucceededIsComplete
  ReviewAndFindingAgree
  RemembersShown
PROPERTIES
  ReviewSurvives
CHECK_DEADLOCK FALSE
SYMMETRY Symmetry
