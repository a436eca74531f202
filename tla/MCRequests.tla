----------------------------- MODULE MCRequests -----------------------------
(* Three instances in one run: each behaviour is of one of them, chosen by   *)
(* its initial state.                                                        *)
EXTENDS EvidenceRuns, ReadinessReports, UserAccess, TLC

CONSTANTS r1, c1, c2, f1, f2, n1

VARIABLE active
mcVars == <<active, evidenceVars, reportsVars, accessVars>>

(* Evidence: all but a few facts and one setting; a request that has read    *)
(* its context does not see what is learned later.                           *)
EvidenceStart ==
  /\ Cardinality(Settings \ config) <= 1
  /\ Cardinality(Facts \ facts) \in 3 .. 5 /\ "evidence" \in facts
EvidenceRest == config = {} /\ facts = {}
ReportsRest == hidden = {} /\ sharing = FALSE

MCInit ==
  /\ EvidenceInit /\ ReportsInit /\ AccessInit
  /\ active \in {"evidence", "reports", "access"}
  /\ IF active = "evidence" THEN EvidenceStart ELSE EvidenceRest
  /\ active # "reports" => ReportsRest

EvidencePart ==
  /\ \/ \E r \in Requests : At(r, "idle") /\ Learn("evidence")
     \/ \E r \in Requests :
          \/ \E kind \in Kinds : Request(r, kind)
          \/ EvidenceStep(r) \/ StepFails(r) \/ markReviewed(r) \/ reject(r)
          \/ \E what \in {"mark", "reject"} : ReviewRun(r, what)
  /\ UNCHANGED <<reportsVars, accessVars>>

(* Reports: two formats, one export or one link; the second caller           *)
(* only generates.                                                           *)
ReportsPart ==
  /\ ReportsNext
  /\ Cardinality(exports') + Len(links') <= 1 /\ Cardinality(served') <= 1
  /\ "format" \in DOMAIN call'[c1] => call'[c1].format \in {"JSON", "PDF"}
  /\ call'[c2].at \notin {"pay", "entitled", "found"}
  /\ UNCHANGED <<evidenceVars, accessVars>>

MCNext ==
  /\ UNCHANGED active
  /\ \/ active = "evidence" /\ EvidencePart
     \/ active = "reports" /\ ReportsPart
     \/ active = "access" /\ AccessNext /\ UNCHANGED <<evidenceVars, reportsVars>>

MCSpec == MCInit /\ [][MCNext]_mcVars /\ EvidenceFairness /\ AccessFairness
=============================================================================
