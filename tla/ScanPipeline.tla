----------------------------- MODULE ScanPipeline -----------------------------
(***************************************************************************)
(* One scan, from the API call that creates it to the notification that    *)
(* reports it: the row in Postgres, the BullMQ jobs of its stages, the     *)
(* Redis sets in which the analyzers meet, and the report rows.            *)
(*                                                                         *)
(* A job is a small program whose position is pc[j].  Every await between  *)
(* two effects that others can see is a step boundary, so that a worker    *)
(* can crash, a cancellation can arrive and another job can run there.     *)
(* The hand-off from the outbox to the queue is one step here; the relay   *)
(* has a module of its own, OutboxRelay.                                   *)
(***************************************************************************)
EXTENDS Naturals, FiniteSets

CONSTANTS
  Analyzers,          \* the analyzers the scan asks for
  ApiJobs,            \* ids of jobs the API may add to a scan (retries, AI validation)
  ApiJobKind,         \* which processor an API job runs
  StageAttempts,      \* attempts of the jobs of each stage (RETRY_POLICIES)
  AnalyzerAttempts,   \* attempts of an analyzer's job
  MaxStalls,          \* maxStalledCount of the workers
  MaxFaults,          \* bound: crashes and infrastructure errors of the workers
  MaxApiJobs,         \* bound: API jobs added in a behaviour
  UserCancels,        \* may the user cancel the scan?
  AnalyzerTimeouts,   \* may the queue's timeout fire while an analyzer runs?
  NotifierWorks       \* does the notification provider accept a notification?

Stages == {"orchestrator", "prepare", "build", "normalize", "risk", "report",
           "pdf", "notify"}
Jobs == Stages \cup Analyzers \cup ApiJobs

ASSUME AnalyzersAssumption == IsFiniteSet(Analyzers) /\ Analyzers # {}
ASSUME JobNamesAssumption ==
  /\ Analyzers \cap (Stages \cup {"validate"}) = {}
  /\ ApiJobs \cap (Stages \cup {"validate"} \cup Analyzers) = {}
ASSUME ApiJobKindAssumption ==
  ApiJobKind \in [ApiJobs -> Analyzers \cup {"build", "validate"}]
ASSUME BoundsAssumption ==
  /\ StageAttempts \in [Stages -> Nat \ {0}]
  /\ AnalyzerAttempts \in Nat \ {0}
  /\ MaxStalls \in Nat /\ MaxFaults \in Nat /\ MaxApiJobs \in Nat
  /\ {UserCancels, AnalyzerTimeouts, NotifierWorks} \subseteq BOOLEAN

(* The processor that runs a job, and the attempts the job was added with: *)
(* the API's queues carry no default options, so its jobs get one.         *)
Kind(j) == IF j \in ApiJobs THEN ApiJobKind[j] ELSE j
Attempts(j) == CASE j \in Stages -> StageAttempts[j]
                 [] j \in Analyzers -> AnalyzerAttempts
                 [] OTHER -> 1
IsAnalyzer(j) == Kind(j) \in Analyzers

(* The stage a stage's job adds when its work is done.                     *)
Successor == [orchestrator |-> "prepare", prepare |-> "build",
              normalize |-> "risk", risk |-> "report", report |-> "pdf",
              pdf |-> "notify"]

(* The status a processor writes before its work.                          *)
StartStatus == [orchestrator |-> "QUEUED", prepare |-> "PREPARING",
                build |-> "ANALYZING", normalize |-> "NORMALIZING",
                risk |-> "SCORING", report |-> "REPORTING"]

Finished == {"COMPLETED", "PARTIAL"}
Terminal == Finished \cup {"FAILED", "CANCELED"}
Statuses == {"NONE", "QUEUED", "PREPARING", "ANALYZING", "NORMALIZING",
             "SCORING", "REPORTING"} \cup Terminal

(* Positions of a job that a worker holds.                                 *)
Active == {"begin", "work", "settle", "add", "record", "count", "enqueue",
           "recordFailure", "countFailure", "enqueueFailure"}
Positions == Active \cup {"absent", "waiting", "completed", "failed"}

(* What an analyzer that found the stage complete read from Redis.         *)
Evidence == [artifacts : SUBSET Analyzers, failures : SUBSET Analyzers]
NoEvidence == [artifacts |-> {}, failures |-> {}]

VARIABLES
  scanStatus,  \* Scan.status in Postgres
  outbox,      \* the outbox row of the scan
  cancelKey,   \* is the scan's cancellation key set in Redis?
  canceller,   \* the API's cancel handler
  pc,          \* BullMQ's state of each job, and its position while active
  made,        \* attemptsMade of each unfinished job
  stalls,      \* how often BullMQ found an unfinished job stalled
  pending,     \* the terminal status a "failed" listener is about to write
  deadLetters, \* jobs copied to a dead-letter queue
  expected,    \* Redis: number of analyzers awaited, 0 when unset
  completed,   \* Redis: analyzers that completed (with their artifact keys)
  failed,      \* Redis: analyzers whose failure was recorded
  seen,        \* what each active analyzer job last read of the stage
  evidence,    \* data of the findings.normalize job, copied down the chain
  reports,     \* number of AuditReport rows of the scan
  pdfReport,   \* the report the pdf.generate job was added for
  published,   \* reports that have a PDF
  faults       \* faults so far

apiVars    == <<outbox, cancelKey, canceller>>
queueVars  == <<pc, made, stalls, pending, deadLetters>>
stageVars  == <<expected, completed, failed>>
reportVars == <<reports, pdfReport, published>>
vars == <<scanStatus, apiVars, queueVars, stageVars, seen, evidence,
          reportVars, faults>>

Init ==
  /\ scanStatus = "NONE" /\ outbox = "NONE"
  /\ cancelKey = FALSE /\ canceller = "idle"
  /\ pc = [j \in Jobs |-> "absent"]
  /\ made = [j \in Jobs |-> 0] /\ stalls = [j \in Jobs |-> 0]
  /\ pending = [j \in Jobs |-> "none"] /\ deadLetters = {}
  /\ expected = 0 /\ completed = {} /\ failed = {}
  /\ seen = [j \in Jobs |-> NoEvidence] /\ evidence = NoEvidence
  /\ reports = 0 /\ pdfReport = 0 /\ published = {}
  /\ faults = 0

-------------------------------------------------------------------------------
(* THE QUEUE.  BullMQ is not part of the repository; these operators say   *)
(* what the code relies on.                                                *)

(* Queue.add with a job id: a job that exists in any state is left alone.  *)
Added(ids, q) == [j \in Jobs |-> IF j \in ids /\ q[j] = "absent" THEN "waiting" ELSE q[j]]

(* A processor threw, and q is the queue's state without that: the job     *)
(* waits for its next attempt or, when none is left or the error was an    *)
(* UnrecoverableError (hard), is failed for good.  The "failed" listener   *)
(* does something only when the attempts are spent, and does not await it: *)
(* what it is about to write stays in pending.                             *)
Spent(j) == made[j] + 1 >= Attempts(j)

\* Mutant: the listener does not look at the attempts that are left.
JobFailsEagerly(q, j, hard, status) ==
  LET final == hard \/ Spent(j) IN
  /\ pc' = [q EXCEPT ![j] = IF final THEN "failed" ELSE "waiting"]
  /\ made' = [made EXCEPT ![j] = IF final THEN 0 ELSE @ + 1]
  /\ pending' = [pending EXCEPT ![j] = status]
  /\ seen' = [seen EXCEPT ![j] = NoEvidence]

\* Mutant: the listener waits for one attempt more than the job has.
JobFailsSilently(q, j, hard, status) ==
  LET final == hard \/ Spent(j) IN
  /\ pc' = [q EXCEPT ![j] = IF final THEN "failed" ELSE "waiting"]
  /\ made' = [made EXCEPT ![j] = IF final THEN 0 ELSE @ + 1]
  /\ pending' = [pending EXCEPT ![j] = IF made[j] + 1 > Attempts(j) THEN status ELSE @]
  /\ seen' = [seen EXCEPT ![j] = NoEvidence]

JobFailsFrom(q, j, hard, status) ==
  LET final == hard \/ Spent(j) IN
  /\ pc' = [q EXCEPT ![j] = IF final THEN "failed" ELSE "waiting"]
  /\ made' = [made EXCEPT ![j] = IF final THEN 0 ELSE @ + 1]
  /\ pending' = [pending EXCEPT ![j] = IF Spent(j) THEN status ELSE @]
  /\ seen' = [seen EXCEPT ![j] = NoEvidence]

JobFails(j, hard, status) == JobFailsFrom(pc, j, hard, status)

(* The worker dies, or loses the job's lock: BullMQ finds the job stalled  *)
(* and gives it to a worker again, from the start, at most MaxStalls times.*)
Stalls(q, j) ==
  /\ faults < MaxFaults /\ faults' = faults + 1
  /\ \/ /\ stalls[j] < MaxStalls
        /\ stalls' = [stalls EXCEPT ![j] = @ + 1]
        /\ pc' = [q EXCEPT ![j] = "waiting"]
        /\ seen' = [seen EXCEPT ![j] = NoEvidence]
        /\ UNCHANGED <<made, pending>>
     \/ /\ stalls[j] >= MaxStalls
        /\ JobFailsFrom(q, j, TRUE, "FAILED") /\ UNCHANGED stalls

(* The processor returned, and q is the queue's state with what it added.  *)
(* BullMQ marks the job completed, unless the worker dies before that: the *)
(* two are one step because no other job sees the time between them.       *)
Returns(q, j) ==
  \/ /\ pc' = [q EXCEPT ![j] = "completed"]
     /\ made' = [made EXCEPT ![j] = 0] /\ stalls' = [stalls EXCEPT ![j] = 0]
     /\ seen' = [seen EXCEPT ![j] = NoEvidence]
     /\ UNCHANGED <<pending, faults>>
  \/ Stalls(q, j)

Move(j, to) == pc' = [pc EXCEPT ![j] = to]

-------------------------------------------------------------------------------
(* THE API.                                                                *)

(* ScansService.create: the row and its outbox message in one transaction. *)
CreateScan ==
  /\ scanStatus = "NONE"
  /\ scanStatus' = "QUEUED" /\ outbox' = "PENDING"
  /\ UNCHANGED <<cancelKey, canceller, queueVars, stageVars, seen, evidence,
                 reportVars, faults>>

(* ScanOutboxRelay.processPending, as one step.                            *)
RelayEnqueue ==
  /\ outbox = "PENDING"
  /\ outbox' = "PROCESSED" /\ pc' = Added({"orchestrator"}, pc)
  /\ UNCHANGED <<scanStatus, cancelKey, canceller, made, stalls, pending,
                 deadLetters, stageVars, seen, evidence, reportVars, faults>>

(* ScansService.cancel reads the row, then sets the key, then writes the   *)
(* row: three awaits, and nothing looks at the status again after the      *)
(* first.                                                                  *)
CancelRead ==
  /\ UserCancels /\ canceller = "idle"
  /\ scanStatus \notin {"NONE", "COMPLETED", "FAILED", "CANCELED"}
  /\ canceller' = "accepted"
  /\ UNCHANGED <<scanStatus, outbox, cancelKey, queueVars, stageVars, seen,
                 evidence, reportVars, faults>>

CancelSetKey ==
  /\ canceller = "accepted"
  /\ canceller' = "keyed" /\ cancelKey' = TRUE
  /\ UNCHANGED <<scanStatus, outbox, queueVars, stageVars, seen, evidence,
                 reportVars, faults>>

CancelWrite ==
  /\ canceller = "keyed"
  /\ canceller' = "done" /\ scanStatus' = "CANCELED"
  /\ UNCHANGED <<outbox, cancelKey, queueVars, stageVars, seen, evidence,
                 reportVars, faults>>

(* The API process dies, or its database does, inside cancel.              *)
CancelLost ==
  /\ canceller \in {"accepted", "keyed"}
  /\ canceller' = "lost"
  /\ UNCHANGED <<scanStatus, outbox, cancelKey, queueVars, stageVars, seen,
                 evidence, reportVars, faults>>

(* BuildsService.retryBuild and retryAnalyzers, AiValidationService: a new *)
(* job under a fresh id, whatever the scan's status.                       *)
ApiAddsJob(j) ==
  /\ scanStatus # "NONE" /\ pc[j] = "absent"
  /\ Cardinality({k \in ApiJobs : pc[k] # "absent"}) < MaxApiJobs
  /\ pc' = Added({j}, pc)
  /\ UNCHANGED <<scanStatus, apiVars, made, stalls, pending, deadLetters,
                 stageVars, seen, evidence, reportVars, faults>>

-------------------------------------------------------------------------------
(* A JOB'S STEPS.                                                          *)

\* Mutant: the guard before the processor does not look at the key.
StartBlind(j) ==
  /\ pc[j] = "waiting"
  /\ Move(j, IF Kind(j) \in DOMAIN StartStatus THEN "begin" ELSE "work")
  /\ UNCHANGED <<scanStatus, apiVars, made, pending, seen, stalls, deadLetters,
                 stageVars, evidence, reportVars, faults>>

(* A worker takes the job.  runWithGuards looks at the cancellation key    *)
(* before the processor does anything, and throws an UnrecoverableError.   *)
Start(j) ==
  /\ pc[j] = "waiting"
  /\ \/ /\ cancelKey
        /\ JobFails(j, TRUE, "CANCELED")
     \/ /\ ~cancelKey
        /\ Move(j, IF Kind(j) \in DOMAIN StartStatus THEN "begin" ELSE "work")
        /\ UNCHANGED <<made, pending, seen>>
  /\ UNCHANGED <<scanStatus, apiVars, stalls, deadLetters, stageVars, evidence,
                 reportVars, faults>>

(* The processor's first lifecycle.transition: an unconditional update.    *)
Begin(j) ==
  /\ pc[j] = "begin"
  /\ scanStatus' = StartStatus[Kind(j)] /\ Move(j, "work")
  /\ UNCHANGED <<apiVars, made, stalls, pending, deadLetters, stageVars, seen,
                 evidence, reportVars, faults>>

(* initializeAnalyzerStage: one pipeline forgets the previous stage.       *)
Orchestrate(j) ==
  /\ pc[j] = "work" /\ Kind(j) = "orchestrator"
  /\ expected' = Cardinality(Analyzers) /\ completed' = {} /\ failed' = {}
  /\ Move(j, "add")
  /\ UNCHANGED <<scanStatus, apiVars, made, stalls, pending, deadLetters, seen,
                 evidence, reportVars, faults>>

(* Source preparation, build detection, normalization and risk scoring:    *)
(* their results are data that no status depends on.                       *)
Compute(j) ==
  /\ pc[j] = "work" /\ Kind(j) \in {"prepare", "build", "normalize", "risk"}
  /\ Move(j, IF Kind(j) = "prepare" THEN "settle" ELSE "add")
  /\ UNCHANGED <<scanStatus, apiVars, made, stalls, pending, deadLetters,
                 stageVars, seen, evidence, reportVars, faults>>

(* generate: createReadyReport adds the next version of the report and     *)
(* sets the scan REPORTING in the same transaction.                        *)
WriteReport(j) ==
  /\ pc[j] = "work" /\ Kind(j) = "report"
  /\ reports' = reports + 1 /\ scanStatus' = "REPORTING"
  /\ Move(j, "add")
  /\ UNCHANGED <<apiVars, made, stalls, pending, deadLetters, stageVars, seen,
                 evidence, pdfReport, published, faults>>

\* Mutant: the PDF goes to the scan's latest report.
RenderPdfLatest(j) ==
  /\ pc[j] = "work" /\ Kind(j) = "pdf"
  /\ published' = published \cup {reports}
  /\ Move(j, "settle")
  /\ UNCHANGED <<scanStatus, apiVars, made, stalls, pending, deadLetters,
                 stageVars, seen, evidence, reports, pdfReport, faults>>

(* renderPdf: the report the job was added for gets its PDF.               *)
RenderPdf(j) ==
  /\ pc[j] = "work" /\ Kind(j) = "pdf"
  /\ published' = published \cup {pdfReport}
  /\ Move(j, "settle")
  /\ UNCHANGED <<scanStatus, apiVars, made, stalls, pending, deadLetters,
                 stageVars, seen, evidence, reports, pdfReport, faults>>

(* dispatch and validate: nothing of the pipeline's state changes.         *)
Consume(j) ==
  /\ pc[j] = "work" /\ Kind(j) \in {"notify", "validate"}
  /\ Kind(j) = "notify" => NotifierWorks
  /\ Returns(pc, j)
  /\ UNCHANGED <<scanStatus, apiVars, deadLetters, stageVars, evidence, reportVars>>

(* A service throws: its own error, the queue's timeout, or the abort that *)
(* the cancellation poller raises, whose message does not say "was         *)
(* cancelled".  Without a notification provider dispatch always throws.    *)
WorkFails(j) ==
  /\ pc[j] = "work" /\ ~IsAnalyzer(j) /\ Kind(j) # "orchestrator"
  /\ Kind(j) = "notify" => ~NotifierWorks
  /\ JobFails(j, FALSE, "FAILED")
  /\ UNCHANGED <<scanStatus, apiVars, stalls, deadLetters, stageVars, evidence,
                 reportVars, faults>>

(* The lifecycle.transition after the work: the prepared source is ready   *)
(* to be analyzed, or the published report finishes the scan.              *)
Settle(j) ==
  /\ pc[j] = "settle"
  /\ \/ Kind(j) = "prepare" /\ scanStatus' = "ANALYZING"
     \/ /\ Kind(j) = "pdf"
        /\ scanStatus' = IF evidence.failures = {} THEN "COMPLETED" ELSE "PARTIAL"
  /\ Move(j, "add")
  /\ UNCHANGED <<apiVars, made, stalls, pending, deadLetters, stageVars, seen,
                 evidence, reportVars, faults>>

(* The job adds what comes next: a build one job per analyzer, the others  *)
(* their successor.  The pdf.generate job carries the report it is for.    *)
NextJobs(j) == IF Kind(j) = "build" THEN Analyzers ELSE {Successor[Kind(j)]}

AddNext(j) ==
  /\ pc[j] = "add"
  /\ Returns(Added(NextJobs(j), pc), j)
  /\ pdfReport' = IF Kind(j) = "report" /\ pc["pdf"] = "absent"
                  THEN reports ELSE pdfReport
  /\ UNCHANGED <<scanStatus, apiVars, deadLetters, stageVars, evidence, reports,
                 published>>

-------------------------------------------------------------------------------
(* AN ANALYZER'S STEPS.                                                    *)

ExecSucceeds(j) ==
  /\ pc[j] = "work" /\ IsAnalyzer(j)
  /\ Move(j, "record")
  /\ UNCHANGED <<scanStatus, apiVars, made, stalls, pending, deadLetters,
                 stageVars, seen, evidence, reportVars, faults>>

(* The catch block: an error that may pass (FAILED, TIMEOUT) is thrown     *)
(* again while an attempt remains; any other failure is recorded.          *)
Caught(j, passing) ==
  IF passing /\ ~Spent(j)
  THEN JobFails(j, FALSE, "FAILED")
  ELSE Move(j, "recordFailure") /\ UNCHANGED <<made, pending, seen>>

ExecFails(j) ==
  /\ pc[j] = "work" /\ IsAnalyzer(j)
  /\ \E passing \in BOOLEAN : Caught(j, passing)
  /\ UNCHANGED <<scanStatus, apiVars, stalls, deadLetters, stageVars, evidence,
                 reportVars, faults>>

(* The run's signal aborts: the cancellation poller saw the key, or the    *)
(* guard's timer, which starts before the container's own timer and is as  *)
(* long, fired first.  The sandbox reports either as CANCELED, and the     *)
(* catch block throws the CancelledScanError again.                        *)
ExecAborted(j) ==
  /\ pc[j] = "work" /\ IsAnalyzer(j)
  /\ cancelKey \/ AnalyzerTimeouts
  /\ JobFails(j, FALSE, "CANCELED")
  /\ UNCHANGED <<scanStatus, apiVars, stalls, deadLetters, stageVars, evidence,
                 reportVars, faults>>

(* recordAnalyzerCompletion and recordAnalyzerFailure: the write.          *)
RecordCompletion(j) ==
  /\ pc[j] = "record"
  /\ completed' = completed \cup {Kind(j)}
  /\ Move(j, "count")
  /\ UNCHANGED <<scanStatus, apiVars, made, stalls, pending, deadLetters,
                 expected, failed, seen, evidence, reportVars, faults>>

RecordFailure(j) ==
  /\ pc[j] = "recordFailure"
  /\ failed' = failed \cup {Kind(j)}
  /\ Move(j, "countFailure")
  /\ UNCHANGED <<scanStatus, apiVars, made, stalls, pending, deadLetters,
                 expected, completed, seen, evidence, reportVars, faults>>

(* getAnalyzerCompletionState: the read, a round trip later.  Unless the   *)
(* stage is complete the job has nothing left to do.                       *)
StageComplete ==
  expected > 0 /\ Cardinality(completed) + Cardinality(failed) >= expected

CountStage(j) ==
  /\ pc[j] \in {"count", "countFailure"}
  /\ \/ /\ StageComplete
        /\ Move(j, IF pc[j] = "count" THEN "enqueue" ELSE "enqueueFailure")
        /\ seen' = [seen EXCEPT ![j] = [artifacts |-> completed, failures |-> failed]]
        /\ UNCHANGED <<made, stalls, pending, faults>>
     \/ ~StageComplete /\ Returns(pc, j)
  /\ UNCHANGED <<scanStatus, apiVars, deadLetters, stageVars, evidence, reportVars>>

\* Mutant: a stage without artifacts is left as it is.
EnqueueNormalizeQuietly(j) ==
  /\ pc[j] \in {"enqueue", "enqueueFailure"}
  /\ \/ /\ seen[j].artifacts = {}
        /\ evidence' = evidence /\ Returns(pc, j)
     \/ /\ seen[j].artifacts # {}
        /\ evidence' = IF pc["normalize"] = "absent" THEN seen[j] ELSE evidence
        /\ Returns(Added({"normalize"}, pc), j)
  /\ UNCHANGED <<scanStatus, apiVars, deadLetters, stageVars, reportVars>>

\* Mutant: only an analyzer that failed itself reports the stage as partial.
EnqueueNormalizeOwnView(j) ==
  /\ pc[j] \in {"enqueue", "enqueueFailure"}
  /\ \/ /\ seen[j].artifacts = {}
        /\ scanStatus' = "FAILED" /\ evidence' = evidence /\ Returns(pc, j)
     \/ /\ seen[j].artifacts # {}
        /\ scanStatus' = scanStatus
        /\ evidence' = IF pc["normalize"] # "absent" THEN evidence
                       ELSE IF pc[j] = "enqueue" THEN [seen[j] EXCEPT !.failures = {}]
                       ELSE seen[j]
        /\ Returns(Added({"normalize"}, pc), j)
  /\ UNCHANGED <<apiVars, deadLetters, stageVars, reportVars>>

\* Mutant: an add with the id of an existing job replaces the job's data.
EnqueueNormalizeReplaces(j) ==
  /\ pc[j] \in {"enqueue", "enqueueFailure"}
  /\ \/ /\ seen[j].artifacts = {}
        /\ scanStatus' = "FAILED" /\ evidence' = evidence /\ Returns(pc, j)
     \/ /\ seen[j].artifacts # {}
        /\ scanStatus' = scanStatus /\ evidence' = seen[j]
        /\ Returns(Added({"normalize"}, pc), j)
  /\ UNCHANGED <<apiVars, deadLetters, stageVars, reportVars>>

(* enqueueNextStageIfReady, with what was read: without an artifact the    *)
(* scan fails here; otherwise findings.normalize is added, and the job     *)
(* that exists already keeps its data.                                     *)
EnqueueNormalize(j) ==
  /\ pc[j] \in {"enqueue", "enqueueFailure"}
  /\ \/ /\ seen[j].artifacts = {}
        /\ scanStatus' = "FAILED" /\ evidence' = evidence
        /\ Returns(pc, j)
     \/ /\ seen[j].artifacts # {}
        /\ scanStatus' = scanStatus
        /\ evidence' = IF pc["normalize"] = "absent" THEN seen[j] ELSE evidence
        /\ Returns(Added({"normalize"}, pc), j)
  /\ UNCHANGED <<apiVars, deadLetters, stageVars, reportVars>>

-------------------------------------------------------------------------------
(* LISTENERS AND FAULTS.                                                   *)

(* The "failed" listener's two writes, which nobody awaits: the terminal   *)
(* status, and the dead letter that a cancelled job does not get.          *)
ListenerWrites(j) ==
  /\ pending[j] # "none"
  /\ scanStatus' = pending[j]
  /\ deadLetters' = IF pending[j] = "FAILED" THEN deadLetters \cup {j} ELSE deadLetters
  /\ pending' = [pending EXCEPT ![j] = "none"]
  /\ UNCHANGED <<apiVars, pc, made, stalls, stageVars, seen, evidence,
                 reportVars, faults>>

(* The process dies, or the write fails, before the listener's update; the *)
(* dead letter may have been written.                                      *)
ListenerLost(j) ==
  /\ pending[j] # "none" /\ faults < MaxFaults
  /\ pending' = [pending EXCEPT ![j] = "none"]
  /\ deadLetters' \in {deadLetters} \cup
       (IF pending[j] = "FAILED" THEN {deadLetters \cup {j}} ELSE {})
  /\ faults' = faults + 1
  /\ UNCHANGED <<scanStatus, apiVars, pc, made, stalls, stageVars, seen,
                 evidence, reportVars>>

(* Postgres or Redis refuses the step.  Most processors let the error out; *)
(* an analyzer's catch block treats one on the way to a completion like an *)
(* error of the analyzer.  A build may have added some of its jobs.        *)
InfraFault(j) ==
  /\ pc[j] \in Active /\ faults < MaxFaults
  /\ faults' = faults + 1
  /\ \/ pc[j] \in {"record", "count", "enqueue"} /\ Caught(j, TRUE)
     \/ /\ pc[j] \notin {"record", "count", "enqueue"}
        /\ \E some \in SUBSET (IF pc[j] = "add" /\ Kind(j) = "build"
                               THEN Analyzers ELSE {}) :
             JobFailsFrom(Added(some, pc), j, FALSE, "FAILED")
  /\ UNCHANGED <<scanStatus, apiVars, stalls, deadLetters, stageVars, evidence,
                 reportVars>>

(* The worker dies inside the job. *)
Crash(j) ==
  /\ pc[j] \in Active /\ Stalls(pc, j)
  /\ UNCHANGED <<scanStatus, apiVars, deadLetters, stageVars, evidence, reportVars>>

-------------------------------------------------------------------------------
StageStep(j) ==
  \/ Begin(j) \/ Orchestrate(j) \/ Compute(j) \/ WriteReport(j) \/ RenderPdf(j)
  \/ Consume(j) \/ WorkFails(j) \/ Settle(j) \/ AddNext(j)

AnalyzerStep(j) ==
  \/ ExecSucceeds(j) \/ ExecFails(j) \/ ExecAborted(j)
  \/ RecordCompletion(j) \/ RecordFailure(j) \/ CountStage(j) \/ EnqueueNormalize(j)

JobStep(j) == Start(j) \/ StageStep(j) \/ AnalyzerStep(j)

Fault(j) == InfraFault(j) \/ Crash(j) \/ ListenerLost(j)

ApiStep == CreateScan \/ RelayEnqueue \/ CancelRead \/ CancelSetKey \/ CancelWrite
           \/ CancelLost

Next ==
  \/ ApiStep
  \/ \E j \in ApiJobs : ApiAddsJob(j)
  \/ \E j \in Jobs : JobStep(j) \/ ListenerWrites(j) \/ Fault(j)

Spec == Init /\ [][Next]_vars

(* The relay polls, workers take every waiting job and bound its running   *)
(* time by the queue's timeout, listeners and request handlers run to      *)
(* their end; users and faults owe nothing.                                *)
Fairness ==
  /\ WF_vars(RelayEnqueue)
  /\ WF_vars(CancelSetKey \/ CancelWrite)
  /\ \A j \in Jobs : WF_vars(JobStep(j)) /\ WF_vars(ListenerWrites(j))

FairSpec == Spec /\ Fairness

-------------------------------------------------------------------------------
(* PROPERTIES.                                                             *)

(* The type invariant, part by part; an unfinished job has attempts left,  *)
(* and a report is named by its version.                                   *)
ApiTypeOK ==
  /\ scanStatus \in Statuses /\ outbox \in {"NONE", "PENDING", "PROCESSED"}
  /\ cancelKey \in BOOLEAN
  /\ canceller \in {"idle", "accepted", "keyed", "done", "lost"}

QueueTypeOK ==
  /\ pc \in [Jobs -> Positions]
  /\ made \in [Jobs -> Nat] /\ \A j \in Jobs : made[j] < Attempts(j)
  /\ stalls \in [Jobs -> 0..MaxStalls]
  /\ pending \in [Jobs -> {"none", "CANCELED", "FAILED"}]
  /\ deadLetters \in SUBSET Jobs
  /\ faults \in 0..MaxFaults

StageTypeOK ==
  /\ expected \in {0, Cardinality(Analyzers)}
  /\ completed \in SUBSET Analyzers /\ failed \in SUBSET Analyzers
  /\ seen \in [Jobs -> Evidence] /\ evidence \in Evidence

ReportTypeOK ==
  /\ reports \in Nat /\ pdfReport \in 0..reports
  /\ published \in SUBSET (0..reports)

TypeOK == ApiTypeOK /\ QueueTypeOK /\ StageTypeOK /\ ReportTypeOK

(* A scan is COMPLETED only on the evidence of every analyzer, whatever    *)
(* crashed, stalled or was retried on the way: the count that lets the     *)
(* pipeline go on may have counted an analyzer twice, but then its failure *)
(* is in the data and the scan is PARTIAL.                                 *)
CompletedCoversAll ==
  scanStatus = "COMPLETED" =>
    evidence.artifacts = Analyzers /\ evidence.failures = {}

(* A PARTIAL scan says what is missing and reports on something.           *)
PartialHasBoth ==
  scanStatus = "PARTIAL" => evidence.artifacts # {} /\ evidence.failures # {}

(* A finished scan has a published report, and only one of its report      *)
(* versions ever gets a PDF, however often report jobs ran.                *)
OnePublishedReport ==
  /\ scanStatus \in Finished => published # {}
  /\ Cardinality(published) <= 1

(* Once findings.normalize is in the queue the evidence of the scan is     *)
(* settled: an analyzer that reports late or again cannot change what the  *)
(* later stages score and report.                                          *)
EvidenceSettled ==
  [][pc["normalize"] # "absent" => evidence' = evidence]_vars

(* Once the cancellation key is set and no worker is inside a job of the   *)
(* scan, none will ever be again, and its status can only become CANCELED  *)
(* or FAILED, even if the outbox or the API still adds jobs.               *)
Quiesced == cancelKey /\ \A j \in Jobs : pc[j] \notin Active

CancelQuiesces ==
  [][Quiesced => Quiesced' /\ scanStatus' \in {scanStatus, "CANCELED", "FAILED"}]_vars

(* A job that failed for good shows in the scan's status, and a failed     *)
(* scan's job is in a dead-letter queue.                                   *)
NoSilentFailure ==
  \A j \in Jobs : pc[j] = "failed" /\ pending[j] = "none" =>
    \/ scanStatus = "CANCELED"
    \/ scanStatus = "FAILED" /\ j \in deadLetters

(* A scan whose report is published stays finished: a notification that    *)
(* cannot be delivered is retried, and no more.                            *)
PublishedStaysFinished == pc["pdf"] = "completed" => scanStatus \in Finished

(* A scan is CANCELED only when its user asked for it.                     *)
CanceledOnlyOnRequest == scanStatus = "CANCELED" => canceller # "idle"

(* A scan that was cancelled ends in a terminal status.                    *)
CancelIsTerminal == canceller = "done" ~> [](scanStatus \in Terminal)

(* Every scan is eventually finished, failed or cancelled, for ever.       *)
ReachesTerminal == scanStatus # "NONE" ~> [](scanStatus \in Terminal)

(* The status is a ScanLifecycle: one rung at a time, terminal for good.   *)
Lifecycle == INSTANCE ScanLifecycle WITH status <- scanStatus
RefinesLifecycle == Lifecycle!Spec
=============================================================================
