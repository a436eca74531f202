---------------------------- MODULE EvidenceRuns ----------------------------
(* What a user may ask about a finding or a scan: a remediation, a local      *)
(* simulation, a fuzz run (remediation, simulation and fuzzing services). Each *)
(* is one request that reads its context, pays, keeps artifacts and a run row *)
(* that is RUNNING until the request has settled it.                          *)
EXTENDS Naturals, FiniteSets

CONSTANTS
  Requests,    \* requests under way at a time
  MaxFailures  \* bound: failed queries and writes, ended processes

Kinds == {"remediation", "simulation", "fuzz", "scanFuzz"}
Settings == {"provider", "simulation", "anvil", "fuzzing", "forge"}
Facts == {"evidence", "suppressed", "dismissed", "contradicted", "source",
          "exactCall", "build", "foundry", "targets"}

ASSUME EvidenceAssumption == MaxFailures \in Nat

VARIABLES
  config,     \* what the environment is set up with, a subset of Settings
  facts,      \* what is known of the finding and its scan, a subset of Facts
  req,        \* [Requests -> where the request is, and what it has read]
  row,        \* [Requests -> its run row, or NoRow]
  parts,      \* [Requests -> the kinds of rows that hang on it]
  stored,     \* [Requests -> the artifacts it wrote]
  reviewing,  \* [Requests -> what a reviewer of its run is about to write]
  failures

evidenceVars == <<config, facts, req, row, parts, stored, reviewing, failures>>

NoRow == [status |-> "NONE", safety |-> "NOT_ASSESSED", verdict |-> "NOT_ASSESSED",
          reviewed |-> FALSE, rejected |-> FALSE]
Idle == [at |-> "idle"]

EvidenceInit ==
  /\ config \in SUBSET Settings /\ facts \in SUBSET Facts
  /\ req = [r \in Requests |-> Idle]
  /\ row = [r \in Requests |-> NoRow]
  /\ parts = [r \in Requests |-> {}] /\ stored = [r \in Requests |-> {}]
  /\ reviewing = [r \in Requests |-> "nothing"]
  /\ failures = 0

At(r, at) == req[r].at = at
Goto(r, at) == req' = [req EXCEPT ![r].at = at]
Is(r, kind) == req[r].at # "idle" /\ req[r].kind = kind
Fuzzes(r) == Is(r, "fuzz") \/ Is(r, "scanFuzz")
Known(r, fact) == fact \in req[r].read

(* Reviewers, validations and builds change what is known meanwhile.         *)
Learn(f) ==
  /\ facts' = IF f \in facts THEN facts \ {f} ELSE facts \cup {f}
  /\ UNCHANGED <<config, req, row, parts, stored, reviewing, failures>>

(* The contexts: one query each, whose answer the request works with. That   *)
(* of a scan knows no finding.                                               *)
RemediationContext == facts
SimulationContext == facts
FuzzContext == facts
ScanContext == facts \ {"evidence", "suppressed", "dismissed", "contradicted", "source", "exactCall"}

Request(r, kind) ==
  /\ At(r, "idle")
  /\ req' = [req EXCEPT ![r] = [at |-> "pay", kind |-> kind, read |->
       CASE kind = "remediation" -> RemediationContext
         [] kind = "simulation" -> SimulationContext
         [] kind = "fuzz" -> FuzzContext
         [] kind = "scanFuzz" -> ScanContext]]
  /\ UNCHANGED <<config, facts, row, parts, stored, reviewing, failures>>

(* assertAndConsume (UsageQuota has its steps): paid for, or refused.        *)
Pay(r) ==
  /\ At(r, "pay") /\ (Goto(r, "build") \/ Goto(r, "refused"))
  /\ UNCHANGED <<config, facts, row, parts, stored, reviewing, failures>>

(* Who is eligible, by what the request has read.                            *)
RemediationEligible(F) == "evidence" \in F /\ F \cap {"suppressed", "dismissed", "contradicted"} = {}

SimulationEligible(F) == RemediationEligible(F)

FuzzEligible(F, kind) ==
  /\ F \cap {"suppressed", "contradicted"} = {} /\ "build" \in F
  /\ kind = "scanFuzz" => "targets" \in F
FuzzStatus(F, kind) ==
  IF ~FuzzEligible(F, kind) THEN "NOT_ELIGIBLE"
  ELSE IF "forge" \notin config THEN "TOOL_NOT_INSTALLED" ELSE "ELIGIBLE"

Executable(F) == {"foundry", "targets"} \subseteq F
Skeleton(r) == IF Is(r, "simulation") THEN Known(r, "exactCall") ELSE Known(r, "targets")

Create(r, status) ==
  /\ row' = [row EXCEPT ![r].status = status]
  /\ UNCHANGED <<config, facts, parts, stored, reviewing, failures>>

(* A remediation that cannot run gets a row that is settled.                 *)
RefuseRemediation(r) ==
  /\ Is(r, "remediation") /\ At(r, "build")
  /\ \/ ~RemediationEligible(req[r].read) /\ Create(r, "NOT_ELIGIBLE")
     \/ RemediationEligible(req[r].read) /\ "provider" \notin config
        /\ Create(r, "PROVIDER_NOT_CONFIGURED")
  /\ Goto(r, "done")

WriteInput(r) ==
  /\ Is(r, "remediation") /\ At(r, "build")
  /\ RemediationEligible(req[r].read) /\ "provider" \in config
  /\ stored' = [stored EXCEPT ![r] = @ \cup {"input"}] /\ Goto(r, "create")
  /\ UNCHANGED <<config, facts, row, parts, reviewing, failures>>

WritePlan(r) ==
  /\ ~Is(r, "remediation") /\ At(r, "build")
  /\ stored' = [stored EXCEPT ![r] = @ \cup {"plan"} \cup IF Skeleton(r) THEN {"skeleton"} ELSE {}]
  /\ Goto(r, "create")
  /\ UNCHANGED <<config, facts, row, parts, reviewing, failures>>

createRun(r) ==
  /\ At(r, "create") /\ Create(r, "RUNNING")
  /\ Goto(r, IF Is(r, "remediation") THEN "ask" ELSE "plan")

-----------------------------------------------------------------------------
(* Remediation: the provider is asked, its answer parsed and kept; whatever  *)
(* fails in between is caught and settles the run.                           *)

Caught(q, status) == [at |-> "catch", kind |-> q.kind, read |-> q.read, status |-> status]
Answered(q, diffs, safety) ==
  [at |-> "output", kind |-> q.kind, read |-> q.read, diffs |-> diffs, safety |-> safety]

\* Mutant: an answer that is refused is returned as it is, the run left alone.
AnswerAsIs(r) ==
  /\ At(r, "ask")
  /\ \/ \E diffs \in BOOLEAN, safety \in {"SAFE_TO_REVIEW", "UNSAFE"} :
          req' = [req EXCEPT ![r] = Answered(@, diffs, safety)]
     \/ Goto(r, "done")
  /\ UNCHANGED <<config, facts, row, parts, stored, reviewing, failures>>

generateJson(r) ==
  /\ At(r, "ask")
  /\ \/ \E diffs \in BOOLEAN, safety \in {"SAFE_TO_REVIEW", "UNSAFE"} :
          req' = [req EXCEPT ![r] = Answered(@, diffs, safety)]
     \/ \E status \in {"FAILED", "TIMEOUT"} : req' = [req EXCEPT ![r] = Caught(@, status)]
  /\ UNCHANGED <<config, facts, row, parts, stored, reviewing, failures>>

WriteOutput(r) ==
  /\ At(r, "output")
  /\ stored' = [stored EXCEPT ![r] = @ \cup {"output"}] /\ Goto(r, "persist")
  /\ UNCHANGED <<config, facts, row, parts, reviewing, failures>>

(* One transaction: the suggestion, the diffs the context allows, tests and  *)
(* checklist, and the row, whose safety is the answer's, reviewed or not.    *)
persistOutput(r) ==
  /\ At(r, "persist")
  /\ parts' = [parts EXCEPT ![r] = {"suggestion", "tests", "checklist"} \cup
                 IF req[r].diffs /\ Known(r, "source") THEN {"diffs"} ELSE {}]
  /\ row' = [row EXCEPT ![r].status = "SUCCEEDED", ![r].safety = req[r].safety]
  /\ Goto(r, "done")
  /\ UNCHANGED <<config, facts, stored, reviewing, failures>>

failRun(r) ==
  /\ Is(r, "remediation") /\ At(r, "catch")
  /\ row' = [row EXCEPT ![r].status = req[r].status] /\ Goto(r, "done")
  /\ UNCHANGED <<config, facts, parts, stored, reviewing, failures>>

-----------------------------------------------------------------------------
(* Simulations and fuzz runs: the plan is kept, then the run settled.        *)

PersistParts(r, P) ==
  /\ At(r, "plan") /\ Goto(r, "finish")
  /\ parts' = [parts EXCEPT ![r] = P]
  /\ UNCHANGED <<config, facts, row, stored, reviewing, failures>>
persistSimulationPlan(r) == Is(r, "simulation") /\ PersistParts(r, {"plan"})
persistFuzzPlan(r) == Fuzzes(r) /\ PersistParts(r, {"plan", "invariantRun"})

Settle(r, status, verdict, output) ==
  req' = [req EXCEPT ![r] = [at |-> "complete", kind |-> @.kind, read |-> @.read,
                             status |-> status, verdict |-> verdict, output |-> output]]

(* No plan of a simulation is executable.                                    *)
decideSimulation(F) ==
  IF "simulation" \notin config THEN "NOT_ASSESSED"
  ELSE IF ~SimulationEligible(F) THEN "NOT_ELIGIBLE"
  ELSE IF "anvil" \notin config THEN "TOOL_NOT_INSTALLED"
  ELSE "INCONCLUSIVE"
FinishSimulation(r) ==
  /\ Is(r, "simulation") /\ At(r, "finish")
  /\ LET s == decideSimulation(req[r].read) IN Settle(r, s, s, {})
  /\ UNCHANGED <<config, facts, row, parts, stored, reviewing, failures>>

FinishFuzz(r) ==
  /\ Fuzzes(r) /\ At(r, "finish")
  /\ LET s == FuzzStatus(req[r].read, req[r].kind)
     IN \/ "fuzzing" \notin config /\ Settle(r, "NOT_ASSESSED", "NOT_ASSESSED", {})
        \/ /\ "fuzzing" \in config /\ s # "ELIGIBLE"
           /\ Settle(r, s, IF s = "TOOL_NOT_INSTALLED" THEN "NOT_ASSESSED" ELSE "INCONCLUSIVE", {})
        \/ /\ "fuzzing" \in config /\ s = "ELIGIBLE"
           /\ IF Executable(req[r].read) THEN Goto(r, "execute")
              ELSE Settle(r, "INCONCLUSIVE", "INCONCLUSIVE", {})
  /\ UNCHANGED <<config, facts, row, parts, stored, reviewing, failures>>

(* What forge may leave: "trace" is a line that looks like a counterexample, *)
(* "falsified" says that a test failed, "passed" and "error" are its words.  *)
Outputs == {o \in SUBSET {"timedOut", "zero", "trace", "falsified", "passed", "error"} :
              ~({"timedOut", "zero"} \subseteq o)}

\* Mutant: a failed command is a failed invariant.
TrustExitCode(o) ==
  LET verdict == IF "zero" \in o THEN "PASSED" ELSE "FAILED"
  IN [status |-> verdict, verdict |-> verdict, kept |-> "trace" \in o]

parseFoundryFuzzOutput(o) ==
  LET trace == "trace" \in o
      Result(status, verdict, kept) == [status |-> status, verdict |-> verdict, kept |-> kept]
  IN IF "timedOut" \in o THEN Result("TIMEOUT", "INCONCLUSIVE", trace)
     ELSE IF {"trace", "falsified"} \subseteq o THEN Result("FAILED", "FAILED", TRUE)
     ELSE IF {"zero", "passed"} \subseteq o THEN Result("PASSED", "PASSED", FALSE)
     ELSE IF "zero" \notin o /\ o \cap {"error", "falsified"} # {}
     THEN Result("FAILED", IF trace THEN "FAILED" ELSE "INCONCLUSIVE", trace)
     ELSE Result("INCONCLUSIVE", "INCONCLUSIVE", trace)

(* forge runs; its output and a counterexample are stored as artifacts. It   *)
(* may not start, and an artifact may not be written, which is caught.       *)
RunForge(r) ==
  /\ At(r, "execute")
  /\ \/ \E o \in Outputs :
          LET p == parseFoundryFuzzOutput(o)
              kept == {"stdout"} \cup IF p.kept THEN {"counterexample"} ELSE {}
          IN /\ stored' = [stored EXCEPT ![r] = @ \cup kept]
             /\ Settle(r, p.status, p.verdict, kept)
     \/ /\ Settle(r, "FAILED", "INCONCLUSIVE", {})
        /\ \E kept \in SUBSET {"stdout"} : stored' = [stored EXCEPT ![r] = @ \cup kept]
  /\ UNCHANGED <<config, facts, row, parts, reviewing, failures>>

(* completeRun: one transaction for the results and the row.                 *)
CompleteWith(r, P) ==
  /\ At(r, "complete") /\ Goto(r, "audit")
  /\ parts' = [parts EXCEPT ![r] = @ \cup P]
  /\ row' = [row EXCEPT ![r].status = req[r].status, ![r].verdict = req[r].verdict]
  /\ UNCHANGED <<config, facts, stored, reviewing, failures>>
completeSimulation(r) == Is(r, "simulation") /\ CompleteWith(r, {"decision"})
completeFuzz(r) == Fuzzes(r) /\ CompleteWith(r, {"result"} \cup (req[r].output \ {"stdout"}))

Audit(r) ==
  /\ At(r, "audit") /\ Goto(r, "done")
  /\ UNCHANGED <<config, facts, row, parts, stored, reviewing, failures>>

-----------------------------------------------------------------------------
(* A reviewer marks or rejects a remediation, running or not: the event is   *)
(* written first, the row after it.                                          *)
ReviewRun(r, what) ==
  /\ Is(r, "remediation") /\ row[r] # NoRow /\ reviewing[r] = "nothing"
  /\ reviewing' = [reviewing EXCEPT ![r] = what]
  /\ UNCHANGED <<config, facts, req, row, parts, stored, failures>>

markReviewed(r) ==
  /\ reviewing[r] = "mark" /\ reviewing' = [reviewing EXCEPT ![r] = "nothing"]
  /\ row' = [row EXCEPT ![r].reviewed = TRUE]
  /\ UNCHANGED <<config, facts, req, parts, stored, failures>>

reject(r) ==
  /\ reviewing[r] = "reject" /\ reviewing' = [reviewing EXCEPT ![r] = "nothing"]
  /\ row' = [row EXCEPT ![r].rejected = TRUE, ![r].safety = "UNSAFE"]
  /\ UNCHANGED <<config, facts, req, parts, stored, failures>>

(* A query or a write fails: the remediation catches what happens after its  *)
(* run was created, elsewhere the request is lost, as it is when the process *)
(* ends.                                                                     *)
StepFails(r) ==
  /\ req[r].at \notin {"idle", "done", "refused", "lost"}
  /\ failures < MaxFailures /\ failures' = failures + 1
  /\ \/ Goto(r, "lost")
     \/ req[r].at \in {"ask", "output", "persist"} /\ req' = [req EXCEPT ![r] = Caught(@, "FAILED")]
  /\ UNCHANGED <<config, facts, row, parts, stored, reviewing>>

EvidenceStep(r) ==
  \/ Pay(r) \/ RefuseRemediation(r) \/ WriteInput(r) \/ WritePlan(r) \/ createRun(r)
  \/ generateJson(r) \/ WriteOutput(r) \/ persistOutput(r) \/ failRun(r)
  \/ persistSimulationPlan(r) \/ persistFuzzPlan(r) \/ FinishSimulation(r) \/ FinishFuzz(r)
  \/ RunForge(r) \/ completeSimulation(r) \/ completeFuzz(r) \/ Audit(r)

EvidenceNext ==
  \/ \E f \in Facts : Learn(f)
  \/ \E r \in Requests :
       \/ \E kind \in Kinds : Request(r, kind)
       \/ EvidenceStep(r) \/ StepFails(r) \/ markReviewed(r) \/ reject(r)
       \/ \E what \in {"mark", "reject"} : ReviewRun(r, what)

EvidenceFairness == \A r \in Requests : WF_evidenceVars(EvidenceStep(r))
EvidenceSpec == EvidenceInit /\ [][EvidenceNext]_evidenceVars /\ EvidenceFairness

-----------------------------------------------------------------------------
(* What is shown as proven is: only a remediation whose answer was accepted  *)
(* has suggestions, diffs only where the source is known, and an invariant   *)
(* that FAILED or PASSED rests on forge's output ("no invariant failure is   *)
(* trusted unless a counterexample is present"), kept with it.               *)
ProvenByArtifacts ==
  \A r \in Requests :
    /\ "suggestion" \in parts[r] <=> row[r].status = "SUCCEEDED"
    /\ "suggestion" \in parts[r] => {"input", "output"} \subseteq stored[r]
    /\ "diffs" \in parts[r] => Known(r, "source")
    /\ row[r].verdict = "FAILED" => "counterexample" \in parts[r] \cap stored[r]
    /\ row[r].verdict = "PASSED" => "stdout" \in stored[r] /\ "counterexample" \notin parts[r]

(* A run does not stay RUNNING: it is settled, unless its request was lost.  *)
RunsEnd ==
  \A r \in Requests : row[r].status = "RUNNING" ~> row[r].status # "RUNNING" \/ At(r, "lost")
=============================================================================
