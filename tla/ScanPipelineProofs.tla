-------------------------- MODULE ScanPipelineProofs --------------------------
(***************************************************************************)
(* What holds of a scan for any set of analyzers, any jobs the API adds,   *)
(* any attempts, and any number of crashes and cancellations.  The         *)
(* inductive invariant says where a job of each kind can be, that whoever  *)
(* is about to add findings.normalize read enough of the stage, and that   *)
(* the stages after it exist only if it does.  The second part assumes     *)
(* that nothing disturbs the scan, and follows its status step by step.    *)
(***************************************************************************)
EXTENDS ScanPipeline, FiniteSetTheorems, TLAPS

Inert == {"waiting", "completed", "failed"}

Enough(e) == Cardinality(e.artifacts) + Cardinality(e.failures) >= Cardinality(Analyzers)

(* The positions that only some processors have.                           *)
Fits(j, p) ==
  /\ p = "begin" => Kind(j) \in DOMAIN StartStatus
  /\ p = "settle" => Kind(j) \in {"prepare", "pdf"}
  /\ p = "add" => Kind(j) \in {"build"} \cup DOMAIN Successor
  /\ p \in {"record", "count", "enqueue", "recordFailure", "countFailure",
            "enqueueFailure"} => IsAnalyzer(j)

PositionsFit == \A j \in Jobs : Fits(j, pc[j])

(* A job about to add findings.normalize has read enough results.          *)
SeenEnough == \A j \in Jobs : pc[j] \in {"enqueue", "enqueueFailure"} => Enough(seen[j])

(* Each stage after normalization was added by the one before it.          *)
Chained ==
  /\ pc["risk"] # "absent" => pc["normalize"] # "absent"
  /\ pc["report"] # "absent" => pc["risk"] # "absent"
  /\ pc["pdf"] # "absent" => pc["report"] # "absent"

EvidenceEnough ==
  pc["normalize"] # "absent" => evidence.artifacts # {} /\ Enough(evidence)

(* A finished scan says what its evidence says.                            *)
Verdict ==
  /\ scanStatus \in Finished => pc["normalize"] # "absent" /\ published # {}
  /\ scanStatus = "COMPLETED" => evidence.failures = {}
  /\ scanStatus = "PARTIAL" => evidence.failures # {}

(* Only the report that the pdf.generate job was added for has a PDF.      *)
Publishing ==
  /\ published \subseteq {pdfReport}
  /\ pc["pdf"] = "absent" => published = {}
  /\ pc["pdf"] \in {"settle", "add"} => published # {}

IInv ==
  /\ TypeOK /\ PositionsFit /\ SeenEnough /\ Chained /\ EvidenceEnough
  /\ Verdict /\ Publishing

-------------------------------------------------------------------------------
(* NAMES AND COUNTS.                                                       *)

(* A job's kind; the jobs of the later stages are the only ones of theirs. *)
LEMMA KindIs ==
  ASSUME NEW j \in Jobs
  PROVE  /\ Kind(j) \in Stages \cup Analyzers \cup {"validate"}
         /\ Kind(j) \in Stages \ {"build"} => Kind(j) = j
         /\ j \in Stages => Kind(j) = j
         /\ IsAnalyzer(j) => Kind(j) \notin Stages \cup {"validate"}
         /\ Attempts(j) \in Nat \ {0}
<1>1. CASE j \in ApiJobs
  BY <1>1, JobNamesAssumption, ApiJobKindAssumption, BoundsAssumption
     DEF Kind, Attempts, Stages, IsAnalyzer
<1>2. CASE j \notin ApiJobs
  BY <1>2, JobNamesAssumption, BoundsAssumption
     DEF Kind, Attempts, Jobs, Stages, IsAnalyzer
<1> QED BY <1>1, <1>2

(* Two sets of analyzers that are many enough, one of them empty: the      *)
(* other one is everything.                                                *)
LEMMA AllOfThem ==
  ASSUME NEW e \in Evidence, Enough(e), e.failures = {}
  PROVE  e.artifacts = Analyzers
<1>1. e.artifacts \subseteq Analyzers BY DEF Evidence
<1>2. IsFiniteSet(Analyzers) BY AnalyzersAssumption
<1>3. /\ IsFiniteSet(e.artifacts)
      /\ Cardinality(e.artifacts) <= Cardinality(Analyzers)
      /\ Cardinality(Analyzers) = Cardinality(e.artifacts) => e.artifacts = Analyzers
  BY <1>1, <1>2, FS_Subset
<1>4. Cardinality(e.failures) = 0 BY FS_EmptySet
<1>5. Cardinality(e.artifacts) \in Nat /\ Cardinality(Analyzers) \in Nat
  BY <1>2, <1>3, FS_CardinalityType
<1> QED BY <1>3, <1>4, <1>5 DEF Enough

-------------------------------------------------------------------------------
(* WHAT A STEP DOES TO THE QUEUE.                                          *)

(* q is the queue after some of the jobs ids were added to it.             *)
Extended(q, ids) ==
  /\ q \in [Jobs -> Positions]
  /\ \A k \in Jobs : q[k] = pc[k] \/ (k \in ids /\ pc[k] = "absent" /\ q[k] = "waiting")

(* Job j leaves the worker, and nothing else happens beyond q.             *)
Leaves(q, j) ==
  /\ pc' \in [Jobs -> Positions] /\ pc'[j] \in Inert
  /\ seen' \in [Jobs -> Evidence]
  /\ \A k \in Jobs \ {j} : pc'[k] = q[k] /\ seen'[k] = seen[k]

CountersOK ==
  /\ made \in [Jobs -> Nat] /\ \A j \in Jobs : made[j] < Attempts(j)
  /\ pending \in [Jobs -> {"none", "CANCELED", "FAILED"}]

LEMMA AddedExtends ==
  ASSUME pc \in [Jobs -> Positions], NEW ids
  PROVE  Extended(Added(ids, pc), ids) /\ Extended(pc, {})
BY DEF Extended, Added, Positions

LEMMA FailingLeaves ==
  ASSUME TypeOK, NEW ids, NEW q, Extended(q, ids), NEW j \in Jobs,
         NEW hard \in BOOLEAN, NEW status \in {"CANCELED", "FAILED"},
         JobFailsFrom(q, j, hard, status)
  PROVE  Leaves(q, j) /\ CountersOK'
<1> USE DEF JobFailsFrom, TypeOK, QueueTypeOK, StageTypeOK
<1>1. pc' \in [Jobs -> Positions] /\ pc'[j] \in Inert
      /\ \A k \in Jobs \ {j} : pc'[k] = q[k]
  BY DEF Extended, Inert, Positions
<1>2. NoEvidence \in Evidence BY DEF NoEvidence, Evidence
<1>3. seen' \in [Jobs -> Evidence] /\ \A k \in Jobs \ {j} : seen'[k] = seen[k]
  BY <1>2
<1>4. made' \in [Jobs -> Nat] /\ \A k \in Jobs : made'[k] < Attempts(k)
  <2>1. \A k \in Jobs : Attempts(k) \in Nat \ {0} BY KindIs
  <2> QED BY <2>1 DEF Spent
<1>5. pending' \in [Jobs -> {"none", "CANCELED", "FAILED"}]
  OBVIOUS
<1> QED BY <1>1, <1>3, <1>4, <1>5 DEF Leaves, CountersOK

LEMMA StallingLeaves ==
  ASSUME TypeOK, NEW ids, NEW q, Extended(q, ids), NEW j \in Jobs, Stalls(q, j)
  PROVE  /\ Leaves(q, j) /\ CountersOK'
         /\ stalls' \in [Jobs -> 0..MaxStalls] /\ faults' \in 0..MaxFaults
<1>0. /\ faults' \in 0..MaxFaults /\ MaxStalls \in Nat
  BY BoundsAssumption DEF Stalls, TypeOK, QueueTypeOK
<1>1. CASE stalls[j] < MaxStalls
  <2>0. ~(stalls[j] >= MaxStalls)
    <3>1. stalls[j] \in Nat BY BoundsAssumption DEF TypeOK, QueueTypeOK
    <3> QED BY <3>1, <1>0, <1>1
  <2>1. /\ stalls' = [stalls EXCEPT ![j] = stalls[j] + 1]
        /\ pc' = [q EXCEPT ![j] = "waiting"]
        /\ seen' = [seen EXCEPT ![j] = NoEvidence]
        /\ made' = made /\ pending' = pending
    BY <2>0 DEF Stalls
  <2>2. stalls' \in [Jobs -> 0..MaxStalls]
    BY <1>0, <1>1, <2>1 DEF TypeOK, QueueTypeOK
  <2>3. pc' \in [Jobs -> Positions] /\ pc'[j] \in Inert
        /\ \A k \in Jobs \ {j} : pc'[k] = q[k]
    BY <2>1 DEF Extended, Inert, Positions
  <2>4. NoEvidence \in Evidence BY DEF NoEvidence, Evidence
  <2>5. seen' \in [Jobs -> Evidence] /\ \A k \in Jobs \ {j} : seen'[k] = seen[k]
    BY <2>1, <2>4 DEF TypeOK, StageTypeOK
  <2>6. CountersOK'
    BY <2>1 DEF TypeOK, QueueTypeOK, CountersOK
  <2> QED BY <1>0, <2>2, <2>3, <2>5, <2>6 DEF Leaves
<1>2. CASE ~(stalls[j] < MaxStalls)
  <2>1. JobFailsFrom(q, j, TRUE, "FAILED") /\ stalls' = stalls
    BY <1>2 DEF Stalls
  <2>2. Leaves(q, j) /\ CountersOK' BY <2>1, FailingLeaves
  <2> QED BY <1>0, <2>1, <2>2 DEF TypeOK, QueueTypeOK
<1> QED BY <1>1, <1>2

LEMMA ReturningLeaves ==
  ASSUME TypeOK, NEW ids, NEW q, Extended(q, ids), NEW j \in Jobs, Returns(q, j)
  PROVE  /\ Leaves(q, j) /\ CountersOK'
         /\ stalls' \in [Jobs -> 0..MaxStalls] /\ faults' \in 0..MaxFaults
<1>1. CASE Stalls(q, j)
  BY <1>1, StallingLeaves
<1>2. CASE ~Stalls(q, j)
  <2> USE <1>2 DEF Returns, TypeOK, QueueTypeOK, StageTypeOK
  <2>1. pc' \in [Jobs -> Positions] /\ pc'[j] \in Inert
        /\ \A k \in Jobs \ {j} : pc'[k] = q[k]
    BY DEF Extended, Inert, Positions
  <2>2. NoEvidence \in Evidence BY DEF NoEvidence, Evidence
  <2>3. seen' \in [Jobs -> Evidence] /\ \A k \in Jobs \ {j} : seen'[k] = seen[k]
    BY <2>2
  <2>4. \A k \in Jobs : Attempts(k) \in Nat \ {0} BY KindIs
  <2>5. CountersOK' BY <2>4 DEF CountersOK
  <2>6. stalls' \in [Jobs -> 0..MaxStalls] /\ faults' \in 0..MaxFaults
    BY BoundsAssumption
  <2> QED BY <2>1, <2>3, <2>5, <2>6 DEF Leaves
<1> QED BY <1>1, <1>2

-------------------------------------------------------------------------------
(* WHAT SUCH A STEP LEAVES TRUE.                                           *)

(* Only jobs of ids come into being, none disappears, and pdf.generate is  *)
(* past its work only if it was before.                                    *)
Grows(ids) ==
  /\ \A k \in Jobs : pc[k] # "absent" => pc'[k] # "absent"
  /\ \A k \in Jobs : pc'[k] # "absent" => pc[k] # "absent" \/ k \in ids
  /\ pc'["pdf"] \in {"settle", "add"} => pc["pdf"] \in {"settle", "add"}

(* A stage is added only by the one before it, normalization by none.      *)
InOrder(ids) ==
  /\ "normalize" \notin ids
  /\ "risk" \in ids => pc["normalize"] # "absent"
  /\ "report" \in ids => pc["risk"] # "absent"
  /\ "pdf" \in ids => pc["report"] # "absent"

LEMMA LeavingKeeps ==
  ASSUME PositionsFit, SeenEnough, NEW ids, NEW q, Extended(q, ids),
         NEW j \in Jobs, pc[j] # "absent", Leaves(q, j)
  PROVE  PositionsFit' /\ SeenEnough' /\ Grows(ids)
<1>1. \A k \in Jobs : \/ pc'[k] = pc[k] /\ seen'[k] = seen[k]
                      \/ pc'[k] \in Inert
  BY DEF Extended, Leaves, Inert
<1>2. PositionsFit'
  <2> SUFFICES ASSUME NEW k \in Jobs PROVE Fits(k, pc'[k])
    BY DEF PositionsFit, Fits, IsAnalyzer, Kind
  <2>1. CASE pc'[k] = pc[k] BY <2>1 DEF PositionsFit
  <2>2. CASE pc'[k] \in Inert BY <2>2 DEF Inert, Fits
  <2> QED BY <1>1, <2>1, <2>2
<1>3. SeenEnough' BY <1>1 DEF SeenEnough, Enough, Inert
<1>4. Grows(ids)
  <2>1. "pdf" \in Jobs BY DEF Jobs, Stages
  <2>2. \A k \in Jobs : pc[k] # "absent" => pc'[k] # "absent"
    BY DEF Extended, Leaves, Inert
  <2>3. \A k \in Jobs : pc'[k] # "absent" => pc[k] # "absent" \/ k \in ids
    BY DEF Extended, Leaves, Inert
  <2> QED BY <1>1, <2>1, <2>2, <2>3 DEF Grows, Inert
<1> QED BY <1>2, <1>3, <1>4

LEMMA MovingKeeps ==
  ASSUME TypeOK, PositionsFit, SeenEnough, NEW j \in Jobs, NEW p \in Positions,
         p \notin {"absent", "enqueue", "enqueueFailure"}, Fits(j, p),
         pc[j] # "absent", Move(j, p), seen' = seen
  PROVE  /\ pc' \in [Jobs -> Positions] /\ pc'[j] = p
         /\ \A k \in Jobs \ {j} : pc'[k] = pc[k]
         /\ PositionsFit' /\ SeenEnough'
         /\ j # "pdf" \/ p \notin {"settle", "add"} => Grows({})
<1>1. pc' \in [Jobs -> Positions] /\ pc'[j] = p /\ \A k \in Jobs \ {j} : pc'[k] = pc[k]
  BY DEF Move, TypeOK, QueueTypeOK
<1>2. PositionsFit'
  BY <1>1 DEF PositionsFit, Fits, IsAnalyzer, Kind
<1>3. SeenEnough' BY <1>1 DEF SeenEnough, Enough
<1>4. "pdf" \in Jobs BY DEF Jobs, Stages
<1>5. (j # "pdf" \/ p \notin {"settle", "add"}) => Grows({}) BY <1>1, <1>4 DEF Grows
<1> QED BY <1>1, <1>2, <1>3, <1>5

(* The rest of the invariant survives a step that settles nothing.         *)
LEMMA GrowingKeeps ==
  ASSUME Chained, EvidenceEnough, Verdict, Publishing,
         NEW ids, Grows(ids), InOrder(ids),
         evidence' = evidence, published' = published, pdfReport' = pdfReport,
         scanStatus' = scanStatus \/ scanStatus' \notin Finished
  PROVE  Chained' /\ EvidenceEnough' /\ Verdict' /\ Publishing'
<1>1. {"normalize", "risk", "report", "pdf"} \subseteq Jobs BY DEF Jobs, Stages
<1>2. Chained' BY <1>1 DEF Chained, Grows, InOrder
<1>3. pc["normalize"] = "absent" => pc'["normalize"] = "absent"
  BY <1>1 DEF Grows, InOrder
<1>4. EvidenceEnough' BY <1>1, <1>3 DEF EvidenceEnough, Enough
<1>5. Verdict' BY <1>1 DEF Verdict, Grows, Finished
<1>6. Publishing' BY <1>1 DEF Publishing, Grows
<1> QED BY <1>2, <1>4, <1>5, <1>6

-------------------------------------------------------------------------------
(* ONE LEMMA PER KIND OF STEP.                                             *)

(* Steps of the API and of listeners that leave every job where it is.     *)
LEMMA QuietStep ==
  ASSUME IInv, pc' = pc, seen' = seen, evidence' = evidence,
         UNCHANGED reportVars, scanStatus' = scanStatus \/ scanStatus' \notin Finished,
         ApiTypeOK', QueueTypeOK', StageTypeOK'
  PROVE  IInv'
<1>1. Grows({}) /\ InOrder({}) BY DEF Grows, InOrder
<1>2. PositionsFit' /\ SeenEnough'
  BY DEF IInv, PositionsFit, Fits, IsAnalyzer, Kind, SeenEnough, Enough
<1>3. Chained' /\ EvidenceEnough' /\ Verdict' /\ Publishing'
  BY <1>1, GrowingKeeps DEF IInv, reportVars
<1>4. ReportTypeOK' BY DEF IInv, TypeOK, ReportTypeOK, reportVars
<1> QED BY <1>2, <1>3, <1>4 DEF IInv, TypeOK

LEMMA ApiKeeps ==
  ASSUME IInv, ApiStep
  PROVE  IInv'
<1> USE DEF IInv, TypeOK, ApiTypeOK
<1>1. CASE CreateScan
  BY <1>1, QuietStep DEF CreateScan, queueVars, stageVars, reportVars, QueueTypeOK,
     StageTypeOK, Statuses, Terminal, Finished
<1>2. CASE CancelRead
  BY <1>2, QuietStep DEF CancelRead, queueVars, stageVars, reportVars, QueueTypeOK, StageTypeOK
<1>3. CASE CancelSetKey
  BY <1>3, QuietStep DEF CancelSetKey, queueVars, stageVars, reportVars, QueueTypeOK, StageTypeOK
<1>4. CASE CancelWrite
  BY <1>4, QuietStep DEF CancelWrite, queueVars, stageVars, reportVars, QueueTypeOK,
     StageTypeOK, Statuses, Terminal, Finished
<1>5. CASE CancelLost
  BY <1>5, QuietStep DEF CancelLost, queueVars, stageVars, reportVars, QueueTypeOK, StageTypeOK
<1>6. CASE RelayEnqueue
  <2> DEFINE q == Added({"orchestrator"}, pc)
  <2>1. Extended(q, {"orchestrator"}) BY AddedExtends DEF QueueTypeOK
  <2>2. pc' = q /\ seen' = seen BY <1>6 DEF RelayEnqueue
  <2> HIDE DEF q
  <2>3. \A k \in Jobs : pc'[k] = pc[k] \/ (pc'[k] = "waiting" /\ pc[k] = "absent"
                                             /\ k = "orchestrator")
    BY <2>1, <2>2 DEF Extended
  <2>4. PositionsFit' /\ SeenEnough'
    BY <2>2, <2>3 DEF PositionsFit, Fits, IsAnalyzer, Kind, SeenEnough, Enough
  <2>5. "pdf" \in Jobs BY DEF Jobs, Stages
  <2>6. Grows({"orchestrator"}) /\ InOrder({"orchestrator"}) BY <2>3, <2>5 DEF Grows, InOrder
  <2>7. UNCHANGED <<scanStatus, cancelKey, canceller, made, stalls, pending, deadLetters,
                    stageVars, seen, evidence, reportVars, faults>> /\ outbox' = "PROCESSED"
    BY <1>6 DEF RelayEnqueue
  <2>8. Chained' /\ EvidenceEnough' /\ Verdict' /\ Publishing'
    BY <2>6, <2>7, GrowingKeeps DEF reportVars
  <2>9. TypeOK'
    BY <2>1, <2>2, <2>7 DEF Extended, QueueTypeOK, StageTypeOK, ReportTypeOK, stageVars, reportVars
  <2> QED BY <2>4, <2>8, <2>9
<1> QED BY <1>1, <1>2, <1>3, <1>4, <1>5, <1>6 DEF ApiStep

LEMMA ApiAddsJobKeeps ==
  ASSUME IInv, NEW j \in ApiJobs, ApiAddsJob(j)
  PROVE  IInv'
<1> USE DEF IInv, TypeOK
<1> DEFINE q == Added({j}, pc)
<1>1. Extended(q, {j}) BY AddedExtends DEF QueueTypeOK
<1>2. /\ pc' = q
      /\ UNCHANGED <<scanStatus, apiVars, made, stalls, pending, deadLetters,
                     stageVars, seen, evidence, reportVars, faults>>
  BY DEF ApiAddsJob
<1> HIDE DEF q
<1>3. \A k \in Jobs : pc'[k] = pc[k] \/ (pc'[k] = "waiting" /\ pc[k] = "absent" /\ k = j)
  BY <1>1, <1>2 DEF Extended
<1>4. PositionsFit' /\ SeenEnough'
  BY <1>2, <1>3 DEF PositionsFit, Fits, IsAnalyzer, Kind, SeenEnough, Enough
<1>5. "pdf" \in Jobs BY DEF Jobs, Stages
<1>6. Grows({j}) /\ InOrder({j}) BY <1>3, <1>5, JobNamesAssumption DEF Grows, InOrder, Stages
<1>7. Chained' /\ EvidenceEnough' /\ Verdict' /\ Publishing'
  BY <1>2, <1>6, GrowingKeeps DEF reportVars
<1>8. TypeOK'
  BY <1>1, <1>2 DEF Extended, ApiTypeOK, QueueTypeOK, StageTypeOK, ReportTypeOK, apiVars,
     stageVars, reportVars
<1> QED BY <1>4, <1>7, <1>8

LEMMA ListenerKeeps ==
  ASSUME IInv, NEW j \in Jobs, ListenerWrites(j) \/ ListenerLost(j)
  PROVE  IInv'
<1> USE DEF IInv, TypeOK
<1>1. pending[j] \in {"CANCELED", "FAILED"}
  BY DEF ListenerWrites, ListenerLost, QueueTypeOK
<1>2. CASE ListenerWrites(j)
  <2>1. QueueTypeOK' BY <1>2 DEF ListenerWrites, QueueTypeOK
  <2>2. StageTypeOK' BY <1>2 DEF ListenerWrites, StageTypeOK, stageVars
  <2>3. ApiTypeOK' /\ scanStatus' \notin Finished
    BY <1>1, <1>2 DEF ListenerWrites, ApiTypeOK, apiVars, Statuses, Terminal, Finished
  <2> QED BY <1>2, <2>1, <2>2, <2>3, QuietStep DEF ListenerWrites
<1>3. CASE ListenerLost(j)
  <2>1. QueueTypeOK' BY <1>3, BoundsAssumption DEF ListenerLost, QueueTypeOK
  <2>2. StageTypeOK' /\ ApiTypeOK'
    BY <1>3 DEF ListenerLost, StageTypeOK, stageVars, ApiTypeOK, apiVars
  <2> QED BY <1>3, <2>1, <2>2, QuietStep DEF ListenerLost
<1> QED BY <1>2, <1>3

(* Steps after which job j is off the worker.                              *)
LEMMA LeavingStep ==
  ASSUME IInv, NEW ids, NEW q, Extended(q, ids), InOrder(ids), NEW j \in Jobs,
         pc[j] # "absent", Leaves(q, j), CountersOK',
         stalls' \in [Jobs -> 0..MaxStalls], faults' \in 0..MaxFaults,
         UNCHANGED <<scanStatus, apiVars, deadLetters, stageVars, evidence, reportVars>>
  PROVE  IInv'
<1> USE DEF IInv, TypeOK
<1>1. PositionsFit' /\ SeenEnough' /\ Grows(ids) BY LeavingKeeps
<1>2. Chained' /\ EvidenceEnough' /\ Verdict' /\ Publishing'
  BY <1>1, GrowingKeeps DEF reportVars
<1>3. TypeOK'
  BY DEF Leaves, CountersOK, ApiTypeOK, QueueTypeOK, StageTypeOK, ReportTypeOK,
     apiVars, stageVars, reportVars
<1> QED BY <1>1, <1>2, <1>3

(* Steps within job j that settle nothing.                                 *)
LEMMA MovingStep ==
  ASSUME IInv, NEW j \in Jobs, NEW p \in Positions,
         p \notin {"absent", "enqueue", "enqueueFailure"}, Fits(j, p),
         pc[j] # "absent", Move(j, p), seen' = seen,
         j # "pdf" \/ p \notin {"settle", "add"},
         scanStatus' = scanStatus \/ scanStatus' \in Statuses \ Finished,
         StageTypeOK', faults' \in 0..MaxFaults,
         UNCHANGED <<apiVars, made, stalls, pending, deadLetters, evidence, reportVars>>
  PROVE  IInv'
<1> USE DEF IInv, TypeOK
<1>1. pc' \in [Jobs -> Positions] /\ PositionsFit' /\ SeenEnough' /\ Grows({})
  BY MovingKeeps
<1>2. InOrder({}) BY DEF InOrder
<1>3. Chained' /\ EvidenceEnough' /\ Verdict' /\ Publishing'
  BY <1>1, <1>2, GrowingKeeps DEF reportVars
<1>4. TypeOK'
  BY <1>1 DEF ApiTypeOK, QueueTypeOK, ReportTypeOK, apiVars, reportVars
<1> QED BY <1>1, <1>3, <1>4

LEMMA StartKeeps ==
  ASSUME IInv, NEW j \in Jobs, Start(j)
  PROVE  IInv'
<1> USE DEF IInv, TypeOK
<1>1. CASE cancelKey /\ JobFails(j, TRUE, "CANCELED")
  <2>1. Extended(pc, {}) /\ InOrder({}) BY AddedExtends DEF QueueTypeOK, InOrder
  <2>2. Leaves(pc, j) /\ CountersOK' BY <1>1, <2>1, FailingLeaves DEF JobFails
  <2> QED BY <2>1, <2>2, LeavingStep DEF Start, QueueTypeOK
<1>2. CASE ~(cancelKey /\ JobFails(j, TRUE, "CANCELED"))
  <2> DEFINE p == IF Kind(j) \in DOMAIN StartStatus THEN "begin" ELSE "work"
  <2>1. p \in Positions /\ p \notin {"absent", "enqueue", "enqueueFailure", "settle", "add"}
    BY DEF Positions, Active
  <2>2. Fits(j, p) BY DEF Fits
  <2>3. /\ Move(j, p) /\ pc[j] # "absent"
        /\ UNCHANGED <<made, pending, seen, scanStatus, apiVars, stalls, deadLetters,
                       stageVars, evidence, reportVars, faults>>
    BY <1>2 DEF Start
  <2>4. StageTypeOK' /\ faults' \in 0..MaxFaults
    BY <2>3 DEF StageTypeOK, stageVars, QueueTypeOK
  <2> HIDE DEF p
  <2> QED BY <2>1, <2>2, <2>3, <2>4, MovingStep
<1> QED BY <1>1, <1>2

LEMMA StageMoveKeeps ==
  ASSUME IInv, NEW j \in Jobs, Begin(j) \/ Orchestrate(j) \/ Compute(j)
  PROVE  IInv'
<1> USE DEF IInv, TypeOK
<1>0. /\ Fits(j, pc[j]) /\ "pdf" \in Stages
      /\ Kind(j) \in Stages \cup Analyzers \cup {"validate"}
      /\ j \in Stages => Kind(j) = j
  BY KindIs DEF PositionsFit, Stages
<1>1. CASE Begin(j)
  <2>1. StartStatus[Kind(j)] \in Statuses \ Finished
    BY <1>0, <1>1 DEF Begin, Fits, StartStatus, Statuses, Finished
  <2>2. Fits(j, "work") /\ "work" \in Positions BY DEF Fits, Positions, Active
  <2>3. StageTypeOK' /\ faults' \in 0..MaxFaults
    BY <1>1 DEF Begin, StageTypeOK, stageVars, QueueTypeOK
  <2> QED BY <1>1, <2>1, <2>2, <2>3, MovingStep DEF Begin
<1>2. CASE Orchestrate(j)
  <2>1. Fits(j, "add") /\ "add" \in Positions /\ j # "pdf"
    BY <1>0, <1>2 DEF Orchestrate, Fits, Positions, Active, Successor
  <2>2. StageTypeOK' /\ faults' \in 0..MaxFaults
    BY <1>2 DEF Orchestrate, StageTypeOK, QueueTypeOK
  <2> QED BY <1>2, <2>1, <2>2, MovingStep DEF Orchestrate
<1>3. CASE Compute(j)
  <2> DEFINE p == IF Kind(j) = "prepare" THEN "settle" ELSE "add"
  <2>1. Fits(j, p) /\ p \in Positions /\ j # "pdf"
        /\ p \notin {"absent", "enqueue", "enqueueFailure"}
    BY <1>0, <1>3 DEF Compute, Fits, Positions, Active, Successor
  <2>2. StageTypeOK' /\ faults' \in 0..MaxFaults
    BY <1>3 DEF Compute, StageTypeOK, stageVars, QueueTypeOK
  <2>3. /\ Move(j, p) /\ pc[j] # "absent"
        /\ UNCHANGED <<scanStatus, apiVars, made, stalls, pending, deadLetters,
                       seen, evidence, reportVars>>
    BY <1>3 DEF Compute
  <2> HIDE DEF p
  <2> QED BY <2>1, <2>2, <2>3, MovingStep
<1> QED BY <1>1, <1>2, <1>3

LEMMA WriteReportKeeps ==
  ASSUME IInv, NEW j \in Jobs, WriteReport(j)
  PROVE  IInv'
<1> USE DEF IInv, TypeOK
<1>1. Fits(j, "add") /\ "add" \in Positions /\ j # "pdf"
  <2>1. "pdf" \in Stages /\ (j \in Stages => Kind(j) = j) BY KindIs DEF Stages
  <2> QED BY <2>1 DEF WriteReport, Fits, Positions, Active, Successor
<1>2. pc' \in [Jobs -> Positions] /\ PositionsFit' /\ SeenEnough' /\ Grows({})
  BY <1>1, MovingKeeps DEF WriteReport
<1>3. InOrder({}) /\ scanStatus' \in Statuses \ Finished
  BY DEF InOrder, WriteReport, Statuses, Finished
<1>4. Chained' /\ EvidenceEnough' /\ Verdict' /\ Publishing'
  BY <1>2, <1>3, GrowingKeeps DEF WriteReport
<1>5. TypeOK'
  BY <1>2, <1>3 DEF WriteReport, ApiTypeOK, QueueTypeOK, StageTypeOK, ReportTypeOK,
     apiVars, stageVars
<1> QED BY <1>2, <1>4, <1>5

LEMMA RenderPdfKeeps ==
  ASSUME IInv, NEW j \in Jobs, RenderPdf(j)
  PROVE  IInv'
<1> USE DEF IInv, TypeOK
<1>0. j = "pdf" /\ {"normalize", "risk", "report", "pdf"} \subseteq Jobs
  BY KindIs DEF RenderPdf, Stages, Jobs
<1>1. Fits(j, "settle") /\ "settle" \in Positions
  BY DEF RenderPdf, Fits, Positions, Active
<1>2. /\ pc' \in [Jobs -> Positions] /\ pc'[j] = "settle"
      /\ \A k \in Jobs \ {j} : pc'[k] = pc[k]
      /\ PositionsFit' /\ SeenEnough'
  BY <1>1, MovingKeeps DEF RenderPdf
<1>3. published' = {pdfReport} /\ pdfReport' = pdfReport
  BY DEF RenderPdf, Publishing
<1>4. Chained' /\ EvidenceEnough' /\ Verdict' /\ Publishing'
  BY <1>0, <1>2, <1>3 DEF RenderPdf, Chained, EvidenceEnough, Enough, Verdict, Publishing
<1>5. TypeOK'
  BY <1>2, <1>3 DEF RenderPdf, ApiTypeOK, QueueTypeOK, StageTypeOK, ReportTypeOK,
     apiVars, stageVars
<1> QED BY <1>2, <1>4, <1>5

LEMMA SettleKeeps ==
  ASSUME IInv, NEW j \in Jobs, Settle(j)
  PROVE  IInv'
<1> USE DEF IInv, TypeOK
<1>0. {"normalize", "risk", "report", "pdf"} \subseteq Jobs BY DEF Stages, Jobs
<1>1. Kind(j) \in {"prepare", "pdf"} /\ Kind(j) = j
  BY KindIs DEF Settle, PositionsFit, Fits, Stages
<1>2. Fits(j, "add") /\ "add" \in Positions
  BY <1>1 DEF Fits, Positions, Active, Successor
<1>3. /\ pc' \in [Jobs -> Positions] /\ pc'[j] = "add"
      /\ \A k \in Jobs \ {j} : pc'[k] = pc[k]
      /\ PositionsFit' /\ SeenEnough'
      /\ j # "pdf" => Grows({})
  BY <1>2, MovingKeeps DEF Settle
<1>4. CASE j = "prepare"
  <2>1. scanStatus' = "ANALYZING" BY <1>1, <1>4 DEF Settle
  <2>2. scanStatus' \in Statuses \ Finished BY <2>1 DEF Statuses, Finished
  <2>3. Chained' /\ EvidenceEnough' /\ Verdict' /\ Publishing'
    BY <1>3, <1>4, <2>2, GrowingKeeps DEF Settle, reportVars, InOrder
  <2>4. TypeOK'
    BY <1>3, <2>2 DEF Settle, ApiTypeOK, QueueTypeOK, StageTypeOK, ReportTypeOK,
       apiVars, stageVars, reportVars
  <2> QED BY <1>3, <2>3, <2>4
<1>5. CASE j = "pdf"
  <2>1. /\ scanStatus' \in Finished
        /\ scanStatus' = "COMPLETED" => evidence.failures = {}
        /\ scanStatus' = "PARTIAL" => evidence.failures # {}
    BY <1>1, <1>5 DEF Settle, Finished
  <2>2. pc["normalize"] # "absent" /\ published # {}
    BY <1>5 DEF Settle, Chained, Publishing
  <2>3. evidence' = evidence /\ published' = published /\ pdfReport' = pdfReport
    BY DEF Settle, reportVars
  <2>4. Chained' /\ EvidenceEnough' /\ Verdict' /\ Publishing'
    BY <1>0, <1>3, <1>5, <2>1, <2>2, <2>3 DEF Chained, EvidenceEnough, Enough, Verdict, Publishing
  <2>5. TypeOK'
    BY <1>3, <2>1 DEF Settle, ApiTypeOK, QueueTypeOK, StageTypeOK, ReportTypeOK,
       apiVars, stageVars, reportVars, Statuses, Terminal
  <2> QED BY <1>3, <2>4, <2>5
<1> QED BY <1>1, <1>4, <1>5

LEMMA AddNextKeeps ==
  ASSUME IInv, NEW j \in Jobs, AddNext(j)
  PROVE  IInv'
<1> USE DEF IInv, TypeOK
<1> DEFINE ids == NextJobs(j)
           q == Added(ids, pc)
<1>0. {"normalize", "risk", "report", "pdf"} \subseteq Jobs BY DEF Stages, Jobs
<1>1. Kind(j) \in {"build"} \cup DOMAIN Successor BY DEF AddNext, PositionsFit, Fits
<1>2. Kind(j) # "build" => Kind(j) = j /\ ids = {Successor[j]}
  BY <1>1, KindIs DEF NextJobs, Successor, Stages
<1>3. Kind(j) = "build" => ids = Analyzers BY DEF NextJobs
<1>4. InOrder(ids)
  <2>1. CASE Kind(j) = "build" BY <1>3, <2>1, JobNamesAssumption DEF InOrder, Stages
  <2>2. CASE Kind(j) # "build"
    <3>1. j \in DOMAIN Successor BY <1>1, <1>2, <2>2
    <3>2. pc[j] # "absent" BY DEF AddNext
    <3> QED BY <1>2, <2>2, <3>1, <3>2 DEF InOrder, Successor
  <2> QED BY <2>1, <2>2
<1>5. Extended(q, ids) BY AddedExtends DEF QueueTypeOK
<1>6. Returns(q, j) /\ pc[j] # "absent"
      /\ UNCHANGED <<scanStatus, apiVars, deadLetters, stageVars, evidence, reports, published>>
  BY DEF AddNext
<1>7. pdfReport' = pdfReport \/ (j = "report" /\ pc["pdf"] = "absent" /\ pdfReport' = reports)
  <2>1. Kind(j) = "report" => j = "report" BY <1>2
  <2> QED BY <2>1 DEF AddNext
<1> HIDE DEF ids, q
<1>8. /\ Leaves(q, j) /\ CountersOK' /\ stalls' \in [Jobs -> 0..MaxStalls]
      /\ faults' \in 0..MaxFaults
  BY <1>5, <1>6, ReturningLeaves
<1>9. CASE pdfReport' = pdfReport
  BY <1>4, <1>5, <1>6, <1>8, <1>9, LeavingStep DEF reportVars
<1>10. CASE j = "report" /\ pc["pdf"] = "absent" /\ pdfReport' = reports
  <2>1. PositionsFit' /\ SeenEnough' /\ Grows(ids) BY <1>5, <1>6, <1>8, LeavingKeeps
  <2>2. published = {} BY <1>10 DEF Publishing
  <2>3. Publishing' BY <1>6, <1>10, <2>1, <2>2 DEF Publishing, Grows
  <2>4. Chained' BY <1>0, <1>4, <2>1 DEF Chained, Grows, InOrder
  <2>5. EvidenceEnough' BY <1>0, <1>4, <1>6, <2>1 DEF EvidenceEnough, Enough, Grows, InOrder
  <2>6. Verdict' BY <1>0, <1>6, <2>1 DEF Verdict, Grows
  <2>7. TypeOK'
    BY <1>6, <1>8, <1>10 DEF Leaves, CountersOK, ApiTypeOK, QueueTypeOK, StageTypeOK,
       ReportTypeOK, apiVars, stageVars
  <2> QED BY <2>1, <2>3, <2>4, <2>5, <2>6, <2>7
<1> QED BY <1>7, <1>9, <1>10

(* Steps that only take the job off the worker.                            *)
LEMMA LeavingKeepsAll ==
  ASSUME IInv, NEW j \in Jobs,
         Consume(j) \/ WorkFails(j) \/ ExecAborted(j) \/ Crash(j)
  PROVE  IInv'
<1> USE DEF IInv, TypeOK
<1>1. Extended(pc, {}) /\ InOrder({}) BY AddedExtends DEF QueueTypeOK, InOrder
<1>2. pc[j] # "absent" BY DEF Consume, WorkFails, ExecAborted, Crash, Active
<1>3. CASE Consume(j)
  BY <1>1, <1>2, <1>3, ReturningLeaves, LeavingStep DEF Consume
<1>4. CASE WorkFails(j)
  <2>1. Leaves(pc, j) /\ CountersOK' BY <1>1, <1>4, FailingLeaves DEF WorkFails, JobFails
  <2> QED BY <1>1, <1>2, <1>4, <2>1, LeavingStep DEF WorkFails, QueueTypeOK
<1>5. CASE ExecAborted(j)
  <2>1. Leaves(pc, j) /\ CountersOK' BY <1>1, <1>5, FailingLeaves DEF ExecAborted, JobFails
  <2> QED BY <1>1, <1>2, <1>5, <2>1, LeavingStep DEF ExecAborted, QueueTypeOK
<1>6. CASE Crash(j)
  <2>1. Stalls(pc, j) /\ UNCHANGED <<scanStatus, apiVars, deadLetters, stageVars, evidence,
                                     reportVars>>
    BY <1>6 DEF Crash
  <2> QED BY <1>1, <1>2, <2>1, StallingLeaves, LeavingStep
<1> QED BY <1>3, <1>4, <1>5, <1>6

(* The catch block of the analyzer's processor.                            *)
LEMMA CaughtKeeps ==
  ASSUME IInv, NEW j \in Jobs, NEW passing \in BOOLEAN, IsAnalyzer(j),
         pc[j] # "absent", Caught(j, passing), stalls' = stalls,
         faults' \in 0..MaxFaults,
         UNCHANGED <<scanStatus, apiVars, deadLetters, stageVars, evidence, reportVars>>
  PROVE  IInv'
<1> USE DEF IInv, TypeOK
<1>1. CASE passing /\ ~Spent(j)
  <2>1. Extended(pc, {}) /\ InOrder({}) BY AddedExtends DEF QueueTypeOK, InOrder
  <2>2. Leaves(pc, j) /\ CountersOK'
    BY <1>1, <2>1, FailingLeaves DEF Caught, JobFails
  <2> QED BY <2>1, <2>2, LeavingStep DEF QueueTypeOK
<1>2. CASE ~(passing /\ ~Spent(j))
  <2>1. Fits(j, "recordFailure") /\ "recordFailure" \in Positions
    BY DEF Fits, Positions, Active
  <2>2. Move(j, "recordFailure") /\ UNCHANGED <<made, pending, seen>>
    BY <1>2 DEF Caught
  <2>3. StageTypeOK' BY <2>2 DEF StageTypeOK, stageVars
  <2> QED BY <2>1, <2>2, <2>3, MovingStep
<1> QED BY <1>1, <1>2

LEMMA AnalyzerKeeps ==
  ASSUME IInv, NEW j \in Jobs,
         \/ ExecSucceeds(j) \/ ExecFails(j)
         \/ RecordCompletion(j) \/ RecordFailure(j)
  PROVE  IInv'
<1> USE DEF IInv, TypeOK
<1>1. IsAnalyzer(j) /\ Kind(j) \in Analyzers /\ pc[j] # "absent"
  BY DEF ExecSucceeds, ExecFails, RecordCompletion, RecordFailure, PositionsFit, Fits,
     IsAnalyzer
<1>2. /\ Fits(j, "record") /\ Fits(j, "count") /\ Fits(j, "countFailure")
      /\ {"record", "count", "countFailure"} \subseteq Positions
  BY <1>1 DEF Fits, Positions, Active
<1>3. CASE ExecSucceeds(j)
  <2>1. StageTypeOK' /\ faults' \in 0..MaxFaults
    BY <1>3 DEF ExecSucceeds, StageTypeOK, stageVars, QueueTypeOK
  <2> QED BY <1>1, <1>2, <1>3, <2>1, MovingStep DEF ExecSucceeds
<1>4. CASE ExecFails(j)
  <2>1. PICK passing \in BOOLEAN : Caught(j, passing) BY <1>4 DEF ExecFails
  <2>2. stalls' = stalls /\ faults' \in 0..MaxFaults
    BY <1>4 DEF ExecFails, QueueTypeOK
  <2> QED BY <1>1, <1>4, <2>1, <2>2, CaughtKeeps DEF ExecFails
<1>5. CASE RecordCompletion(j)
  <2>1. StageTypeOK' /\ faults' \in 0..MaxFaults
    BY <1>1, <1>5 DEF RecordCompletion, StageTypeOK, QueueTypeOK
  <2> QED BY <1>1, <1>2, <1>5, <2>1, MovingStep DEF RecordCompletion
<1>6. CASE RecordFailure(j)
  <2>1. StageTypeOK' /\ faults' \in 0..MaxFaults
    BY <1>1, <1>6 DEF RecordFailure, StageTypeOK, QueueTypeOK
  <2> QED BY <1>1, <1>2, <1>6, <2>1, MovingStep DEF RecordFailure
<1> QED BY <1>3, <1>4, <1>5, <1>6

(* The read that decides: enough results have been seen.                   *)
LEMMA CountStageKeeps ==
  ASSUME IInv, NEW j \in Jobs, CountStage(j)
  PROVE  IInv'
<1> USE DEF IInv, TypeOK
<1>0. pc[j] # "absent" /\ IsAnalyzer(j) BY DEF CountStage, PositionsFit, Fits
<1>1. CASE StageComplete /\ seen' = [seen EXCEPT ![j] = [artifacts |-> completed, failures |-> failed]]
           /\ UNCHANGED <<made, stalls, pending, faults>>
           /\ Move(j, IF pc[j] = "count" THEN "enqueue" ELSE "enqueueFailure")
  <2> DEFINE e == [artifacts |-> completed, failures |-> failed]
  <2>1. e \in Evidence BY DEF StageTypeOK, Evidence
  <2>2. Enough(e)
    <3>1. Cardinality(Analyzers) \in Nat BY AnalyzersAssumption, FS_CardinalityType
    <3>2. expected = Cardinality(Analyzers) BY <1>1, <3>1 DEF StageComplete, StageTypeOK
    <3> QED BY <1>1, <3>2 DEF StageComplete, Enough
  <2>3. /\ pc' \in [Jobs -> Positions] /\ pc'[j] \in {"enqueue", "enqueueFailure"}
        /\ \A k \in Jobs \ {j} : pc'[k] = pc[k]
    BY <1>1 DEF Move, QueueTypeOK, Positions, Active
  <2>4. seen' \in [Jobs -> Evidence] /\ seen'[j] = e /\ \A k \in Jobs \ {j} : seen'[k] = seen[k]
    BY <1>1, <2>1 DEF StageTypeOK
  <2>5. PositionsFit'
    BY <1>0, <2>3 DEF PositionsFit, Fits, IsAnalyzer, Kind
  <2>6. SeenEnough'
    <3> SUFFICES ASSUME NEW k \in Jobs, pc'[k] \in {"enqueue", "enqueueFailure"}
                 PROVE  Enough(seen'[k])
      BY DEF SeenEnough, Enough
    <3> HIDE DEF e
    <3>1. CASE k = j BY <2>2, <2>4, <3>1
    <3>2. CASE k # j BY <2>3, <2>4, <3>2 DEF SeenEnough
    <3> QED BY <3>1, <3>2
  <2>7. Grows({}) /\ InOrder({})
    BY <1>0, <2>3 DEF Grows, InOrder, Jobs, Stages
  <2>8. UNCHANGED <<scanStatus, apiVars, deadLetters, stageVars, evidence, reportVars>>
    BY DEF CountStage
  <2>9. Chained' /\ EvidenceEnough' /\ Verdict' /\ Publishing'
    BY <2>7, <2>8, GrowingKeeps DEF reportVars
  <2>10. TypeOK'
    BY <1>1, <2>3, <2>4, <2>8 DEF ApiTypeOK, QueueTypeOK, StageTypeOK, ReportTypeOK,
       apiVars, stageVars, reportVars
  <2> QED BY <2>5, <2>6, <2>9, <2>10
<1>2. CASE Returns(pc, j)
  <2>1. Extended(pc, {}) /\ InOrder({}) BY AddedExtends DEF QueueTypeOK, InOrder
  <2> QED BY <1>0, <1>2, <2>1, ReturningLeaves, LeavingStep DEF CountStage
<1> QED BY <1>1, <1>2 DEF CountStage

(* The add that settles the evidence, or the verdict that there is none.   *)
LEMMA EnqueueNormalizeKeeps ==
  ASSUME IInv, NEW j \in Jobs, EnqueueNormalize(j)
  PROVE  IInv'
<1> USE DEF IInv, TypeOK
<1>0. /\ pc[j] \in {"enqueue", "enqueueFailure"} /\ pc[j] # "absent"
      /\ {"normalize", "risk", "report", "pdf"} \subseteq Jobs
      /\ UNCHANGED <<apiVars, deadLetters, stageVars, reportVars>>
  BY DEF EnqueueNormalize, Stages, Jobs
<1>1. CASE scanStatus' = "FAILED" /\ evidence' = evidence /\ Returns(pc, j)
  <2>1. Extended(pc, {}) /\ InOrder({}) BY AddedExtends DEF QueueTypeOK, InOrder
  <2>2. /\ Leaves(pc, j) /\ CountersOK' /\ stalls' \in [Jobs -> 0..MaxStalls]
        /\ faults' \in 0..MaxFaults
    BY <1>1, <2>1, ReturningLeaves
  <2>3. PositionsFit' /\ SeenEnough' /\ Grows({})
    BY <1>0, <2>1, <2>2, LeavingKeeps
  <2>4. scanStatus' \in Statuses \ Finished BY <1>1 DEF Statuses, Terminal, Finished
  <2>5. Chained' /\ EvidenceEnough' /\ Verdict' /\ Publishing'
    BY <1>0, <1>1, <2>1, <2>3, <2>4, GrowingKeeps DEF reportVars
  <2>6. TypeOK'
    BY <1>0, <1>1, <2>2, <2>4 DEF Leaves, CountersOK, ApiTypeOK, QueueTypeOK, StageTypeOK,
       ReportTypeOK, apiVars, stageVars, reportVars
  <2> QED BY <2>3, <2>5, <2>6
<1>2. CASE /\ seen[j].artifacts # {} /\ scanStatus' = scanStatus
           /\ evidence' = IF pc["normalize"] = "absent" THEN seen[j] ELSE evidence
           /\ Returns(Added({"normalize"}, pc), j)
  <2> DEFINE q == Added({"normalize"}, pc)
  <2>1. Extended(q, {"normalize"}) BY AddedExtends DEF QueueTypeOK
  <2>2. /\ Leaves(q, j) /\ CountersOK' /\ stalls' \in [Jobs -> 0..MaxStalls]
        /\ faults' \in 0..MaxFaults
    BY <1>2, <2>1, ReturningLeaves
  <2> HIDE DEF q
  <2>3. PositionsFit' /\ SeenEnough' /\ Grows({"normalize"})
    BY <1>0, <2>1, <2>2, LeavingKeeps
  <2>4. Enough(seen[j]) /\ seen[j] \in Evidence BY <1>0 DEF SeenEnough, StageTypeOK
  <2>5. Chained' BY <1>0, <2>3 DEF Chained, Grows
  <2>6. EvidenceEnough'
    <3>1. CASE pc["normalize"] = "absent"
      BY <1>2, <2>4, <3>1 DEF EvidenceEnough, Enough
    <3>2. CASE pc["normalize"] # "absent"
      BY <1>2, <3>2 DEF EvidenceEnough, Enough
    <3> QED BY <3>1, <3>2
  <2>7. Verdict' BY <1>0, <1>2, <2>3 DEF Verdict, Grows, reportVars, Finished
  <2>8. Publishing' BY <1>0, <2>3 DEF Publishing, Grows, reportVars
  <2>9. TypeOK'
    BY <1>0, <1>2, <2>2, <2>4 DEF Leaves, CountersOK, ApiTypeOK, QueueTypeOK, StageTypeOK,
       ReportTypeOK, apiVars, stageVars, reportVars
  <2> QED BY <2>3, <2>5, <2>6, <2>7, <2>8, <2>9
<1> QED BY <1>1, <1>2 DEF EnqueueNormalize

LEMMA InfraFaultKeeps ==
  ASSUME IInv, NEW j \in Jobs, InfraFault(j)
  PROVE  IInv'
<1> USE DEF IInv, TypeOK
<1>0. /\ pc[j] # "absent" /\ stalls' = stalls /\ faults' \in 0..MaxFaults
      /\ UNCHANGED <<scanStatus, apiVars, deadLetters, stageVars, evidence, reportVars>>
  BY BoundsAssumption DEF InfraFault, Active, QueueTypeOK
<1>1. CASE pc[j] \in {"record", "count", "enqueue"} /\ Caught(j, TRUE)
  <2>1. IsAnalyzer(j) BY <1>1 DEF PositionsFit, Fits
  <2> QED BY <1>0, <1>1, <2>1, CaughtKeeps
<1>2. CASE \E some \in SUBSET (IF pc[j] = "add" /\ Kind(j) = "build" THEN Analyzers ELSE {}) :
             JobFailsFrom(Added(some, pc), j, FALSE, "FAILED")
  <2>1. PICK some \in SUBSET (IF pc[j] = "add" /\ Kind(j) = "build" THEN Analyzers ELSE {}) :
               JobFailsFrom(Added(some, pc), j, FALSE, "FAILED")
    BY <1>2
  <2>2. some \subseteq Analyzers BY <2>1
  <2>3. InOrder(some) BY <2>2, JobNamesAssumption DEF InOrder, Stages
  <2> DEFINE q == Added(some, pc)
  <2>4. Extended(q, some) BY AddedExtends DEF QueueTypeOK
  <2>5. Leaves(q, j) /\ CountersOK' BY <2>1, <2>4, FailingLeaves
  <2> HIDE DEF q
  <2> QED BY <1>0, <2>3, <2>4, <2>5, LeavingStep DEF QueueTypeOK
<1> QED BY <1>1, <1>2 DEF InfraFault

-------------------------------------------------------------------------------
(* THE INVARIANT, AND WHAT FOLLOWS FROM IT.                                *)

LEMMA InitIInv == Init => IInv
<1> SUFFICES ASSUME Init PROVE IInv OBVIOUS
<1> USE DEF Init
<1>1. Cardinality(Analyzers) \in Nat BY AnalyzersAssumption, FS_CardinalityType
<1>2. \A j \in Jobs : Attempts(j) \in Nat \ {0} BY KindIs
<1>3. NoEvidence \in Evidence BY DEF NoEvidence, Evidence
<1>4. {"normalize", "risk", "report", "pdf"} \subseteq Jobs BY DEF Stages, Jobs
<1>5. QueueTypeOK BY <1>2, BoundsAssumption DEF QueueTypeOK, Positions
<1>6. ApiTypeOK /\ StageTypeOK /\ ReportTypeOK
  <2>1. ApiTypeOK BY DEF ApiTypeOK, Statuses
  <2>2. StageTypeOK BY <1>3 DEF StageTypeOK
  <2>3. ReportTypeOK BY DEF ReportTypeOK
  <2> QED BY <2>1, <2>2, <2>3
<1>7. PositionsFit /\ SeenEnough BY DEF PositionsFit, Fits, SeenEnough
<1>8. Chained /\ EvidenceEnough /\ Verdict /\ Publishing
  BY <1>4 DEF Chained, EvidenceEnough, Verdict, Publishing, Finished
<1> QED BY <1>5, <1>6, <1>7, <1>8 DEF IInv, TypeOK

LEMMA NextIInv == IInv /\ [Next]_vars => IInv'
<1> SUFFICES ASSUME IInv, [Next]_vars PROVE IInv' OBVIOUS
<1>1. CASE ApiStep BY <1>1, ApiKeeps
<1>2. ASSUME NEW j \in ApiJobs, ApiAddsJob(j) PROVE IInv' BY <1>2, ApiAddsJobKeeps
<1>3. ASSUME NEW j \in Jobs, StageStep(j) PROVE IInv'
  BY <1>3, StageMoveKeeps, WriteReportKeeps, RenderPdfKeeps, LeavingKeepsAll, SettleKeeps,
     AddNextKeeps DEF StageStep
<1>4. ASSUME NEW j \in Jobs, AnalyzerStep(j) PROVE IInv'
  BY <1>4, AnalyzerKeeps, LeavingKeepsAll, CountStageKeeps, EnqueueNormalizeKeeps
     DEF AnalyzerStep
<1>5. ASSUME NEW j \in Jobs, JobStep(j) PROVE IInv'
  BY <1>3, <1>4, <1>5, StartKeeps DEF JobStep
<1>6. ASSUME NEW j \in Jobs, ListenerWrites(j) \/ Fault(j) PROVE IInv'
  BY <1>6, ListenerKeeps, InfraFaultKeeps, LeavingKeepsAll DEF Fault
<1>7. CASE UNCHANGED vars
  <2> USE <1>7 DEF vars, apiVars, queueVars, stageVars, reportVars
  <2>1. ApiTypeOK' /\ QueueTypeOK' /\ StageTypeOK'
    BY DEF IInv, TypeOK, ApiTypeOK, QueueTypeOK, StageTypeOK
  <2> QED BY <2>1, QuietStep
<1> QED BY <1>1, <1>2, <1>5, <1>6, <1>7 DEF Next

LEMMA Invariant == Spec => []IInv
BY InitIInv, NextIInv, PTL DEF Spec

(* Every variable keeps its type and every unfinished job has an attempt   *)
(* left, whatever fails, stalls or is added.                               *)
THEOREM TypeCorrect == Spec => []TypeOK
<1>1. IInv => TypeOK BY DEF IInv
<1> QED BY <1>1, Invariant, PTL

(* COMPLETED means that the report rests on an artifact of every analyzer, *)
(* for any number of analyzers, crashes, retries and cancellations.        *)
THEOREM CompletedIsComplete == Spec => []CompletedCoversAll
<1>1. IInv => CompletedCoversAll
  <2> SUFFICES ASSUME IInv, scanStatus = "COMPLETED"
               PROVE  evidence.artifacts = Analyzers /\ evidence.failures = {}
    BY DEF CompletedCoversAll
  <2>1. pc["normalize"] # "absent" /\ evidence.failures = {}
    BY DEF IInv, Verdict, Finished
  <2>2. Enough(evidence) /\ evidence \in Evidence
    BY <2>1 DEF IInv, EvidenceEnough, TypeOK, StageTypeOK
  <2> QED BY <2>1, <2>2, AllOfThem
<1> QED BY <1>1, Invariant, PTL

(* PARTIAL means that something was analyzed and something is missing.     *)
THEOREM PartialIsPartial == Spec => []PartialHasBoth
<1>1. IInv => PartialHasBoth
  BY DEF IInv, Verdict, Finished, EvidenceEnough, PartialHasBoth
<1> QED BY <1>1, Invariant, PTL

(* A finished scan has a published report, and no other version of it has  *)
(* a PDF.                                                                  *)
THEOREM PublishesOne == Spec => []OnePublishedReport
<1>1. IInv => OnePublishedReport
  <2> SUFFICES ASSUME IInv PROVE OnePublishedReport OBVIOUS
  <2>1. scanStatus \in Finished => published # {} BY DEF IInv, Verdict
  <2>2. published = {} \/ published = {pdfReport} BY DEF IInv, Publishing
  <2>3. Cardinality(published) <= 1
    <3>1. CASE published = {} BY <3>1, FS_EmptySet
    <3>2. CASE published = {pdfReport} BY <3>2, FS_Singleton
    <3> QED BY <2>2, <3>1, <3>2
  <2> QED BY <2>1, <2>3 DEF OnePublishedReport
<1> QED BY <1>1, Invariant, PTL

(* The job that normalizes is added once, and its data is never replaced:  *)
(* only EnqueueNormalize writes the evidence, and only if there is none.   *)
THEOREM EvidenceIsSettled == Spec => EvidenceSettled
<1>1. [Next]_vars => (pc["normalize"] # "absent" => evidence' = evidence)
  <2> SUFFICES ASSUME [Next]_vars, pc["normalize"] # "absent" PROVE evidence' = evidence
    OBVIOUS
  <2>1. CASE ApiStep
    BY <2>1 DEF ApiStep, CreateScan, RelayEnqueue, CancelRead, CancelSetKey, CancelWrite,
       CancelLost
  <2>2. ASSUME NEW j \in ApiJobs, ApiAddsJob(j) PROVE evidence' = evidence
    BY <2>2 DEF ApiAddsJob
  <2>3. ASSUME NEW j \in Jobs, Start(j) \/ StageStep(j) PROVE evidence' = evidence
    BY <2>3 DEF Start, StageStep, Begin, Orchestrate, Compute, WriteReport, RenderPdf,
       Consume, WorkFails, Settle, AddNext
  <2>4. ASSUME NEW j \in Jobs, AnalyzerStep(j) PROVE evidence' = evidence
    BY <2>4 DEF AnalyzerStep, ExecSucceeds, ExecFails, ExecAborted, RecordCompletion,
       RecordFailure, CountStage, EnqueueNormalize
  <2>5. ASSUME NEW j \in Jobs, ListenerWrites(j) \/ Fault(j) PROVE evidence' = evidence
    BY <2>5 DEF ListenerWrites, Fault, ListenerLost, InfraFault, Crash
  <2>6. CASE UNCHANGED vars BY <2>6 DEF vars
  <2> QED BY <2>1, <2>2, <2>3, <2>4, <2>5, <2>6 DEF Next, JobStep
<1> QED BY <1>1, PTL DEF Spec, EvidenceSettled

(* Nobody cancels a scan that has no row.                                  *)
Requested ==
  /\ canceller # "idle" => scanStatus # "NONE"
  /\ cancelKey => canceller # "idle"

LEMMA RequestedInvariant == Spec => []Requested
<1>1. Init => Requested BY DEF Init, Requested
<1>2. IInv /\ Requested /\ [Next]_vars => Requested'
  <2> SUFFICES ASSUME IInv, Requested, [Next]_vars PROVE Requested' OBVIOUS
  <2> USE DEF Requested
  <2>1. CASE ApiStep
    BY <2>1 DEF ApiStep, CreateScan, RelayEnqueue, CancelRead, CancelSetKey, CancelWrite,
       CancelLost
  <2>2. ASSUME NEW j \in ApiJobs, ApiAddsJob(j) PROVE Requested'
    BY <2>2 DEF ApiAddsJob, apiVars
  <2> DEFINE Kept == cancelKey' = cancelKey /\ canceller' = canceller
                     /\ (scanStatus' = scanStatus \/ scanStatus' # "NONE")
  <2>k. Kept => Requested' OBVIOUS
  <2>3. ASSUME NEW j \in Jobs, Start(j) \/ StageStep(j) PROVE Requested'
    <3>1. CASE Begin(j)
      <4>1. StartStatus[Kind(j)] # "NONE"
        BY <3>1 DEF Begin, IInv, PositionsFit, Fits, StartStatus
      <4> QED BY <3>1, <4>1 DEF Begin, apiVars
    <3>2. CASE WriteReport(j) \/ RenderPdf(j) \/ Settle(j)
      BY <3>2 DEF WriteReport, RenderPdf, Settle, apiVars
    <3>3. CASE Start(j) \/ Orchestrate(j) \/ Compute(j) \/ Consume(j) \/ WorkFails(j)
               \/ AddNext(j)
      <4>1. UNCHANGED <<scanStatus, apiVars>>
        BY <3>3 DEF Start, Orchestrate, Compute, Consume, WorkFails, AddNext
      <4> QED BY <4>1, <2>k DEF apiVars
    <3> QED BY <2>3, <3>1, <3>2, <3>3 DEF StageStep
  <2>4. ASSUME NEW j \in Jobs, AnalyzerStep(j) PROVE Requested'
    <3>1. CASE EnqueueNormalize(j)
      <4>1. UNCHANGED apiVars /\ (scanStatus' = scanStatus \/ scanStatus' = "FAILED")
        BY <3>1 DEF EnqueueNormalize
      <4> QED BY <4>1, <2>k DEF apiVars
    <3>2. CASE ~EnqueueNormalize(j)
      <4>1. UNCHANGED <<scanStatus, apiVars>>
        BY <2>4, <3>2 DEF AnalyzerStep, ExecSucceeds, ExecFails, ExecAborted,
           RecordCompletion, RecordFailure, CountStage
      <4> QED BY <4>1, <2>k DEF apiVars
    <3> QED BY <3>1, <3>2
  <2>5. ASSUME NEW j \in Jobs, ListenerWrites(j) PROVE Requested'
    BY <2>5 DEF ListenerWrites, apiVars, IInv, TypeOK, QueueTypeOK
  <2>6. ASSUME NEW j \in Jobs, Fault(j) PROVE Requested'
    <3>1. UNCHANGED <<scanStatus, apiVars>>
      BY <2>6 DEF Fault, ListenerLost, InfraFault, Crash
    <3> QED BY <3>1, <2>k DEF apiVars
  <2>7. CASE UNCHANGED vars BY <2>7 DEF vars, apiVars
  <2> QED BY <2>1, <2>2, <2>3, <2>4, <2>5, <2>6, <2>7 DEF Next, JobStep
<1> QED BY <1>1, <1>2, Invariant, PTL DEF Spec

(* Once the key is set and the workers are idle, no job of the scan runs   *)
(* again, and the scan's status can only become CANCELED or FAILED.        *)
THEOREM CancelledStaysQuiet == Spec => CancelQuiesces
<1>1. IInv /\ Requested /\ [Next]_vars =>
        (Quiesced => Quiesced' /\ scanStatus' \in {scanStatus, "CANCELED", "FAILED"})
  <2> SUFFICES ASSUME IInv, Requested, [Next]_vars, Quiesced
               PROVE  Quiesced' /\ scanStatus' \in {scanStatus, "CANCELED", "FAILED"}
    OBVIOUS
  <2> DEFINE Goal == Quiesced' /\ scanStatus' \in {scanStatus, "CANCELED", "FAILED"}
  <2>0. cancelKey /\ \A k \in Jobs : pc[k] \notin Active BY DEF Quiesced
  <2>t. TypeOK BY DEF IInv
  <2>1. CASE ApiStep
    <3>1. ~CreateScan BY <2>0 DEF CreateScan, Requested
    <3>2. CASE RelayEnqueue
      BY <2>0, <2>t, <3>2 DEF RelayEnqueue, Added, Quiesced, Active, TypeOK, QueueTypeOK
    <3>3. CASE CancelRead \/ CancelSetKey \/ CancelWrite \/ CancelLost
      BY <2>0, <3>3 DEF CancelRead, CancelSetKey, CancelWrite, CancelLost, Quiesced, queueVars
    <3> QED BY <2>1, <3>1, <3>2, <3>3 DEF ApiStep
  <2>2. ASSUME NEW j \in ApiJobs, ApiAddsJob(j) PROVE Goal
    BY <2>0, <2>t, <2>2 DEF ApiAddsJob, Added, Quiesced, Active, TypeOK, QueueTypeOK, apiVars
  <2>3. ASSUME NEW j \in Jobs, Start(j) PROVE Goal
    <3>1. JobFails(j, TRUE, "CANCELED") /\ UNCHANGED <<scanStatus, apiVars>>
      BY <2>0, <2>3 DEF Start
    <3>2. pc' = [pc EXCEPT ![j] = "failed"] BY <3>1 DEF JobFails, JobFailsFrom
    <3>3. \A k \in Jobs : pc'[k] \notin Active
      BY <2>0, <2>t, <3>2 DEF TypeOK, QueueTypeOK, Active
    <3> QED BY <2>0, <3>1, <3>3 DEF Quiesced, apiVars
  <2>4. ASSUME NEW j \in Jobs PROVE ~StageStep(j)
    BY <2>0 DEF StageStep, Begin, Orchestrate, Compute, WriteReport, RenderPdf, Consume,
       WorkFails, Settle, AddNext, Active
  <2>5. ASSUME NEW j \in Jobs PROVE ~AnalyzerStep(j)
    BY <2>0 DEF AnalyzerStep, ExecSucceeds, ExecFails, ExecAborted, RecordCompletion,
       RecordFailure, CountStage, EnqueueNormalize, Active
  <2>6. ASSUME NEW j \in Jobs, ListenerWrites(j) PROVE Goal
    BY <2>0, <2>t, <2>6 DEF ListenerWrites, Quiesced, apiVars, TypeOK, QueueTypeOK
  <2>7. ASSUME NEW j \in Jobs, Fault(j) PROVE Goal
    BY <2>0, <2>7 DEF Fault, InfraFault, Crash, ListenerLost, Quiesced, apiVars
  <2>8. CASE UNCHANGED vars BY <2>0, <2>8 DEF vars, apiVars, queueVars, Quiesced
  <2> QED BY <2>1, <2>2, <2>3, <2>4, <2>5, <2>6, <2>7, <2>8 DEF Next, JobStep
<1> QED BY <1>1, Invariant, RequestedInvariant, PTL DEF Spec, CancelQuiesces
-------------------------------------------------------------------------------
(* WHEN NOTHING IS DISTURBED.  No fault, no job of the API's, no user who  *)
(* cancels: analyzers and stages still fail, time out and are retried.     *)

Undisturbed == MaxFaults = 0 /\ MaxApiJobs = 0 /\ ~UserCancels

Untouched == ~cancelKey /\ canceller = "idle" /\ \A k \in ApiJobs : pc[k] = "absent"

(* The stages come one after the other, the analyzers after the build.     *)
Rank == [orchestrator |-> 1, prepare |-> 2, build |-> 3, normalize |-> 4,
         risk |-> 5, report |-> 6, pdf |-> 7, notify |-> 8]

InLine ==
  /\ \A j, k \in Stages : Rank[k] < Rank[j] /\ pc[j] # "absent" => pc[k] = "completed"
  /\ \A a \in Analyzers : pc[a] # "absent" => pc["build"] = "completed"

(* Each analyzer is counted once, after its last attempt, so that the      *)
(* stage is complete only when all are, and all who find it so read the    *)
(* same.                                                                   *)
AllIn == completed \cup failed = Analyzers

Barrier ==
  /\ completed \cap failed = {}
  /\ \A a \in completed \cup failed :
       pc[a] \in {"count", "countFailure", "enqueue", "enqueueFailure", "completed"}
  /\ \A a \in Analyzers : pc[a] \in {"enqueue", "enqueueFailure"} =>
       AllIn /\ seen[a] = [artifacts |-> completed, failures |-> failed]
  /\ pc["normalize"] # "absent" => AllIn /\ completed # {}

(* Only a job that failed has a listener at work; of the analyzers these   *)
(* are the ones that were aborted.                                         *)
Heard ==
  \A j \in Jobs : pending[j] # "none" =>
    pc[j] = "failed" /\ pending[j] = IF j \in Analyzers THEN "CANCELED" ELSE "FAILED"

Orderly == Untouched /\ InLine /\ Barrier /\ Heard

(* What the listener wrote is still there.                                 *)
Shown ==
  \A j \in Jobs : pc[j] = "failed" /\ pending[j] = "none" =>
    IF j \in Analyzers THEN scanStatus = "CANCELED"
    ELSE scanStatus = "FAILED" /\ j \in deadLetters

(* The status a stage finds, the one it works under, those it may leave.   *)
Finds == [orchestrator |-> "QUEUED", prepare |-> "QUEUED", build |-> "ANALYZING",
          normalize |-> "ANALYZING", risk |-> "NORMALIZING", report |-> "SCORING",
          pdf |-> "REPORTING"]
Under == [orchestrator |-> "QUEUED", prepare |-> "PREPARING", build |-> "ANALYZING",
          normalize |-> "NORMALIZING", risk |-> "SCORING", report |-> "REPORTING",
          pdf |-> "REPORTING"]
MayLeave(s) == CASE s = "prepare" -> {"ANALYZING"}
                 [] s = "pdf" -> Finished
                 [] OTHER -> {Under[s]}

(* The scan's status is the one that the position of its job calls for.    *)
OnRung ==
  /\ outbox = "NONE" <=> scanStatus = "NONE"
  /\ outbox = "PENDING" => scanStatus = "QUEUED"
  /\ outbox = "PROCESSED" <=> pc["orchestrator"] # "absent"
  /\ \A s \in DOMAIN Under :
       /\ pc[s] \in {"waiting", "begin"} => scanStatus \in {Finds[s], Under[s]}
       /\ pc[s] \in {"work", "settle"} \/ pending[s] # "none" => scanStatus = Under[s]
       /\ pc[s] = "add" => scanStatus \in MayLeave(s)

(* Between the build and the normalization a scan fails only when no       *)
(* analyzer has an artifact, and is cancelled only by an aborted one.      *)
InAnalysis ==
  pc["build"] = "completed" /\ pc["normalize"] = "absent" =>
    \/ scanStatus = "ANALYZING"
    \/ scanStatus = "FAILED" /\ AllIn /\ completed = {}
    \/ scanStatus = "CANCELED" /\ \E a \in Analyzers : pc[a] = "failed"

Published ==
  /\ pc["pdf"] = "completed" => scanStatus \in Finished \/ pc["notify"] = "failed"
  /\ NotifierWorks => pc["notify"] # "failed"

Telling == Shown /\ OnRung /\ InAnalysis /\ Published

(* The jobs that can move: stages and analyzers, each of its own kind.     *)
LEMMA MovingJobs ==
  ASSUME IInv, Untouched, NEW j \in Jobs, pc[j] # "absent"
  PROVE  /\ j \in Stages \cup Analyzers /\ Kind(j) = j
         /\ IsAnalyzer(j) <=> j \in Analyzers
         /\ j \in Stages => j \notin Analyzers
<1>1. j \notin ApiJobs BY DEF Untouched
<1> QED BY <1>1, JobNamesAssumption DEF Jobs, Kind, IsAnalyzer, Stages

(* Without faults a processor that returns has its job completed.          *)
LEMMA ReturnsWhole ==
  ASSUME Undisturbed, IInv, NEW q, NEW j, Returns(q, j)
  PROVE  /\ pc' = [q EXCEPT ![j] = "completed"]
         /\ seen' = [seen EXCEPT ![j] = NoEvidence]
         /\ UNCHANGED pending
<1>1. ~(faults < MaxFaults)
  BY DEF Undisturbed, IInv, TypeOK, QueueTypeOK
<1> QED BY <1>1 DEF Returns, Stalls

(* Job j goes to p; if that is its end its listener is called.             *)
Goes(j, p) ==
  /\ pc' = [pc EXCEPT ![j] = p]
  /\ \A k \in Jobs \ {j} : seen'[k] = seen[k]
  /\ pending' = IF p = "failed"
                THEN [pending EXCEPT ![j] = IF j \in Analyzers THEN "CANCELED" ELSE "FAILED"]
                ELSE pending

LEMMA FailingGoes ==
  ASSUME IInv, NEW j \in Jobs, NEW status,
         status = IF j \in Analyzers THEN "CANCELED" ELSE "FAILED",
         JobFails(j, FALSE, status)
  PROVE  \E p \in {"waiting", "failed"} : Goes(j, p)
<1> USE DEF JobFails, JobFailsFrom, Goes, IInv, TypeOK, StageTypeOK
<1>1. \A k \in Jobs \ {j} : seen'[k] = seen[k] OBVIOUS
<1>2. CASE Spent(j) BY <1>1, <1>2
<1>3. CASE ~Spent(j)
  <2>1. pending' = pending BY <1>3 DEF QueueTypeOK
  <2> QED BY <1>1, <1>3, <2>1
<1> QED BY <1>2, <1>3

(* An analyzer's attempt that is thrown again while one remains.           *)
LEMMA RetryingGoes ==
  ASSUME IInv, NEW j \in Jobs, NEW status, JobFails(j, FALSE, status), ~Spent(j)
  PROVE  Goes(j, "waiting")
<1> USE DEF JobFails, JobFailsFrom, Goes, IInv, TypeOK, StageTypeOK, QueueTypeOK
<1>1. \A k \in Jobs \ {j} : seen'[k] = seen[k] OBVIOUS
<1>2. pending' = pending /\ pc' = [pc EXCEPT ![j] = "waiting"] OBVIOUS
<1> QED BY <1>1, <1>2

(* The line is kept by a job that adds what comes after it, and by nothing *)
(* else.                                                                   *)
LEMMA LineKeeps ==
  ASSUME InLine, NEW j \in Jobs, pc[j] \notin {"absent", "completed"}, NEW ids,
         pc'[j] # "absent",
         \A k \in Jobs \ {j} :
            pc'[k] = pc[k] \/ (k \in ids /\ pc[k] = "absent" /\ pc'[k] = "waiting"),
         ids # {} => pc'[j] = "completed",
         \A i \in ids \cap Stages, k \in Stages :
            Rank[k] < Rank[i] => k = j \/ pc[k] = "completed",
         ids \cap Analyzers # {} => j = "build" \/ pc["build"] = "completed"
  PROVE  InLine'
<1>1. Stages \subseteq Jobs /\ Analyzers \subseteq Jobs /\ "build" \in Stages
  BY DEF Jobs, Stages
<1>2. ASSUME NEW i \in Stages, NEW k \in Stages, Rank[k] < Rank[i], pc'[i] # "absent"
      PROVE  pc'[k] = "completed"
  <2>1. CASE pc[i] # "absent"
    <3>1. pc[k] = "completed" BY <1>2, <2>1 DEF InLine
    <3> QED BY <1>1, <3>1
  <2>2. CASE pc[i] = "absent"
    <3>1. i \in ids BY <1>1, <1>2, <2>2
    <3>2. k = j \/ pc[k] = "completed" BY <1>2, <3>1
    <3> QED BY <1>1, <3>1, <3>2
  <2> QED BY <2>1, <2>2
<1>3. ASSUME NEW a \in Analyzers, pc'[a] # "absent"
      PROVE  pc'["build"] = "completed"
  <2>1. CASE pc[a] # "absent"
    <3>1. pc["build"] = "completed" BY <2>1 DEF InLine
    <3> QED BY <1>1, <3>1
  <2>2. CASE pc[a] = "absent"
    <3>1. a \in ids BY <1>1, <1>3, <2>2
    <3>2. j = "build" \/ pc["build"] = "completed" BY <3>1
    <3> QED BY <1>1, <3>1, <3>2
  <2> QED BY <2>1, <2>2
<1> QED BY <1>2, <1>3 DEF InLine

(* The barrier is kept by steps that record nothing and read nothing.      *)
LEMMA BarrierKeeps ==
  ASSUME Barrier, completed' = completed, failed' = failed,
         completed \cup failed \subseteq Analyzers,
         \A a \in Analyzers :
            \/ pc'[a] = pc[a] /\ seen'[a] = seen[a]
            \/ /\ pc'[a] \notin {"enqueue", "enqueueFailure"}
               /\ a \in completed \cup failed => pc'[a] = "completed",
         pc'["normalize"] # "absent" =>
            pc["normalize"] # "absent" \/ (AllIn /\ completed # {})
  PROVE  Barrier'
<1>1. \A a \in completed' \cup failed' :
        pc'[a] \in {"count", "countFailure", "enqueue", "enqueueFailure", "completed"}
  BY DEF Barrier
<1>2. ASSUME NEW a \in Analyzers, pc'[a] \in {"enqueue", "enqueueFailure"}
      PROVE  AllIn' /\ seen'[a] = [artifacts |-> completed', failures |-> failed']
  <2>1. pc'[a] = pc[a] /\ seen'[a] = seen[a] BY <1>2
  <2> QED BY <1>2, <2>1 DEF Barrier, AllIn
<1>3. pc'["normalize"] # "absent" => AllIn' /\ completed' # {}
  BY DEF Barrier, AllIn
<1>4. completed' \cap failed' = {} BY DEF Barrier
<1> QED BY <1>1, <1>2, <1>3, <1>4 DEF Barrier

LEMMA GoingKeeps ==
  ASSUME IInv, Orderly, NEW j \in Jobs, pc[j] \notin {"absent", "completed", "failed"},
         NEW p \in Positions \ {"absent", "enqueue", "enqueueFailure"},
         j \in completed \cup failed => p = "completed",
         Goes(j, p), UNCHANGED <<cancelKey, canceller, completed, failed>>
  PROVE  Orderly'
<1> USE DEF Orderly, IInv, TypeOK, QueueTypeOK, StageTypeOK
<1>0. j \in Stages \cup Analyzers /\ j \notin ApiJobs /\ "normalize" \in Jobs
      /\ Analyzers \subseteq Jobs /\ ApiJobs \subseteq Jobs
  BY MovingJobs DEF Untouched, Jobs, Stages
<1>1. pc'[j] = p /\ \A k \in Jobs \ {j} : pc'[k] = pc[k] /\ seen'[k] = seen[k]
  BY DEF Goes
<1>2. Untouched' BY <1>0, <1>1 DEF Untouched
<1>3. InLine'
  <2> DEFINE ids == {}
  <2>1. /\ \A i \in ids \cap Stages, k \in Stages :
              Rank[k] < Rank[i] => k = j \/ pc[k] = "completed"
        /\ ~(ids # {}) /\ ids \cap Analyzers = {}
    OBVIOUS
  <2>2. InLine /\ pc'[j] # "absent" BY <1>1
  <2> HIDE DEF ids
  <2> QED BY <1>1, <2>1, <2>2, LineKeeps
<1>4. Barrier'
  <2>1. pc'["normalize"] # "absent" => pc["normalize"] # "absent" BY <1>0, <1>1
  <2>2. \A a \in Analyzers :
            \/ pc'[a] = pc[a] /\ seen'[a] = seen[a]
            \/ /\ pc'[a] \notin {"enqueue", "enqueueFailure"}
               /\ a \in completed \cup failed => pc'[a] = "completed"
    BY <1>0, <1>1
  <2> QED BY <2>1, <2>2, BarrierKeeps
<1>5. Heard'
  <2> SUFFICES ASSUME NEW k \in Jobs, pending'[k] # "none"
               PROVE  pc'[k] = "failed"
                      /\ pending'[k] = IF k \in Analyzers THEN "CANCELED" ELSE "FAILED"
    BY DEF Heard
  <2>1. CASE k = j
    <3>1. pending[j] = "none" BY DEF Heard
    <3> QED BY <1>1, <2>1, <3>1 DEF Goes
  <2>2. CASE k # j
    BY <1>1, <2>2 DEF Goes, Heard
  <2> QED BY <2>1, <2>2
<1> QED BY <1>2, <1>3, <1>4, <1>5

(* While a stage is under way the earlier ones are completed, the later    *)
(* ones absent, and no analyzer has failed.                                *)
LEMMA StageAlone ==
  ASSUME IInv, Orderly, NEW s \in Stages, pc[s] \notin {"absent", "completed"}
  PROVE  /\ \A t \in Stages : Rank[t] < Rank[s] => pc[t] = "completed"
         /\ \A t \in Stages : Rank[s] < Rank[t] => pc[t] = "absent"
         /\ \A k \in Jobs \ {s} : pc[k] # "failed" /\ pending[k] = "none"
         /\ Rank[s] <= 3 => \A a \in Analyzers : pc[a] = "absent"
         /\ Rank[s] >= 4 => pc["normalize"] # "absent"
<1>0. /\ {"build", "normalize"} \subseteq Stages /\ Stages \subseteq Jobs /\ Analyzers \subseteq Jobs
      /\ Rank["build"] = 3 /\ Rank["normalize"] = 4
      /\ \A t \in Stages : Rank[t] \in 1..8
      /\ \A t, u \in Stages : Rank[t] = Rank[u] => t = u
  BY DEF Stages, Rank, Jobs
<1>1. \A t \in Stages : Rank[t] < Rank[s] => pc[t] = "completed"
  BY DEF Orderly, InLine
<1>2. \A t \in Stages : Rank[s] < Rank[t] => pc[t] = "absent"
  BY DEF Orderly, InLine
<1>3. Rank[s] <= 3 => \A a \in Analyzers : pc[a] = "absent"
  <2>1. Rank[s] <= 3 => s = "build" \/ Rank[s] < Rank["build"] BY <1>0
  <2>2. Rank[s] <= 3 => pc["build"] # "completed"
    <3>1. CASE s = "build" BY <3>1
    <3>2. CASE Rank[s] < Rank["build"] BY <1>0, <1>2, <3>2
    <3> QED BY <2>1, <3>1, <3>2
  <2> QED BY <2>2 DEF Orderly, InLine
<1>4. Rank[s] >= 4 => pc["normalize"] # "absent"
  <2>1. Rank[s] >= 4 => s = "normalize" \/ Rank["normalize"] < Rank[s] BY <1>0
  <2>2. CASE s = "normalize" BY <2>2
  <2>3. CASE Rank["normalize"] < Rank[s] BY <1>0, <1>1, <2>3
  <2> QED BY <2>1, <2>2, <2>3
<1>5. ASSUME NEW k \in Jobs \ {s} PROVE pc[k] # "failed"
  <2>1. CASE k \in Stages
    <3>1. Rank[k] < Rank[s] \/ Rank[s] < Rank[k] BY <1>0, <1>5, <2>1
    <3> QED BY <1>1, <1>2, <2>1, <3>1
  <2>2. CASE k \in Analyzers
    <3>1. CASE Rank[s] <= 3 BY <1>3, <2>2, <3>1
    <3>2. CASE ~(Rank[s] <= 3)
      <4>1. Rank[s] >= 4 BY <1>0, <3>2
      <4>2. AllIn BY <1>4, <4>1 DEF Orderly, Barrier
      <4>3. k \in completed \cup failed BY <2>2, <4>2 DEF AllIn
      <4> QED BY <4>3 DEF Orderly, Barrier
    <3> QED BY <3>1, <3>2
  <2>3. CASE k \in ApiJobs BY <2>3 DEF Orderly, Untouched
  <2> QED BY <1>5, <2>1, <2>2, <2>3 DEF Jobs
<1>6. \A k \in Jobs \ {s} : pending[k] = "none"
  BY <1>5 DEF Orderly, Heard
<1> QED BY <1>1, <1>2, <1>3, <1>4, <1>5, <1>6

(* The first stage forgets the analyzers of before: there are none.        *)
LEMMA OrchestratingKeeps ==
  ASSUME IInv, Orderly, NEW j \in Jobs, Orchestrate(j)
  PROVE  Orderly'
<1> USE DEF Orderly, IInv, TypeOK, QueueTypeOK, StageTypeOK
<1>0. j = "orchestrator" /\ j \in Stages /\ Stages \subseteq Jobs /\ Analyzers \subseteq Jobs
      /\ {"orchestrator", "normalize", "build"} \subseteq Stages
      /\ Rank["orchestrator"] = 1 /\ Rank["normalize"] = 4
  BY MovingJobs DEF Orchestrate, Jobs, Stages, Rank
<1>1. /\ pc' = [pc EXCEPT ![j] = "add"] /\ completed' = {} /\ failed' = {}
      /\ UNCHANGED <<cancelKey, canceller, pending, seen>>
  BY DEF Orchestrate, Move, apiVars
<1>2. pc'[j] = "add" /\ \A k \in Jobs \ {j} : pc'[k] = pc[k] BY <1>1
<1>3. pc["normalize"] = "absent" /\ \A a \in Analyzers : pc[a] = "absent"
  <2>1. pc[j] \notin {"absent", "completed"} BY DEF Orchestrate
  <2> QED BY <1>0, <2>1, StageAlone
<1>4. Untouched' BY <1>0, <1>1, <1>2, JobNamesAssumption DEF Untouched, Jobs
<1>5. InLine'
  <2> DEFINE ids == {}
  <2>1. /\ \A i \in ids \cap Stages, k \in Stages :
              Rank[k] < Rank[i] => k = j \/ pc[k] = "completed"
        /\ ~(ids # {}) /\ ids \cap Analyzers = {}
    OBVIOUS
  <2>2. InLine /\ pc'[j] # "absent" /\ pc[j] \notin {"absent", "completed"}
    BY <1>2 DEF Orchestrate
  <2> HIDE DEF ids
  <2> QED BY <1>2, <2>1, <2>2, LineKeeps
<1>6. Barrier'
  <2>1. \A a \in Analyzers : pc'[a] = "absent"
    <3>1. \A a \in Analyzers : a # j BY <1>0, <1>3 DEF Orchestrate
    <3> QED BY <1>0, <1>2, <1>3, <3>1
  <2>2. pc'["normalize"] = "absent" BY <1>0, <1>2, <1>3
  <2> QED BY <1>1, <2>1, <2>2 DEF Barrier
<1>7. Heard' BY <1>1, <1>2 DEF Heard, Orchestrate
<1> QED BY <1>4, <1>5, <1>6, <1>7

(* A job is done and adds others: the rest of the invariant.               *)
LEMMA AddingKeeps ==
  ASSUME IInv, Orderly, NEW j \in Jobs, pc[j] \notin {"absent", "completed", "failed"},
         NEW ids, ids \cap ApiJobs = {},
         pc' = [Added(ids, pc) EXCEPT ![j] = "completed"],
         seen' = [seen EXCEPT ![j] = NoEvidence],
         "normalize" \in ids => AllIn /\ completed # {},
         UNCHANGED <<cancelKey, canceller, pending, completed, failed>>,
         \A i \in ids \cap Stages, k \in Stages :
            Rank[k] < Rank[i] => k = j \/ pc[k] = "completed",
         ids \cap Analyzers # {} => j = "build" \/ pc["build"] = "completed"
  PROVE  Orderly'
<1> USE DEF Orderly, IInv, TypeOK, QueueTypeOK, StageTypeOK
<1>0. "normalize" \in Jobs /\ Analyzers \subseteq Jobs /\ ApiJobs \subseteq Jobs
      /\ j \notin ApiJobs
  BY MovingJobs DEF Untouched, Jobs, Stages
<1>1. pc'[j] = "completed" /\ \A k \in Jobs \ {j} :
         pc'[k] = pc[k] \/ (k \in ids /\ pc[k] = "absent" /\ pc'[k] = "waiting")
  BY DEF Added
<1>2. \A k \in Jobs \ {j} : seen'[k] = seen[k] OBVIOUS
<1>3. Untouched' BY <1>0, <1>1 DEF Untouched
<1>4. InLine' BY <1>1, LineKeeps
<1>5. Barrier'
  <2>1. \A a \in Analyzers :
            \/ pc'[a] = pc[a] /\ seen'[a] = seen[a]
            \/ /\ pc'[a] \notin {"enqueue", "enqueueFailure"}
               /\ a \in completed \cup failed => pc'[a] = "completed"
    <3> SUFFICES ASSUME NEW a \in Analyzers
                 PROVE \/ pc'[a] = pc[a] /\ seen'[a] = seen[a]
                       \/ /\ pc'[a] \notin {"enqueue", "enqueueFailure"}
                          /\ a \in completed \cup failed => pc'[a] = "completed"
      OBVIOUS
    <3>1. a \in completed \cup failed => pc[a] # "absent" BY DEF Barrier
    <3>2. CASE a = j BY <1>1, <3>2
    <3>3. CASE a # j BY <1>0, <1>1, <1>2, <3>1, <3>3
    <3> QED BY <3>2, <3>3
  <2>2. pc'["normalize"] # "absent" =>
            pc["normalize"] # "absent" \/ (AllIn /\ completed # {})
    <3>1. CASE j = "normalize" BY <3>1
    <3>2. CASE j # "normalize" BY <1>0, <1>1, <3>2
    <3> QED BY <3>1, <3>2
  <2> QED BY <2>1, <2>2, BarrierKeeps
<1>6. Heard' BY <1>1 DEF Heard
<1> QED BY <1>3, <1>4, <1>5, <1>6

LEMMA AddNextIsOrderly ==
  ASSUME Undisturbed, IInv, Orderly, NEW j \in Jobs, AddNext(j)
  PROVE  /\ Orderly' /\ j \in {"build"} \cup DOMAIN Successor
         /\ pc' = [Added(NextJobs(j), pc) EXCEPT ![j] = "completed"] /\ pending' = pending
         /\ NextJobs(j) = IF j = "build" THEN Analyzers ELSE {Successor[j]}
<1>1. pc[j] = "add" /\ Kind(j) = j /\ Kind(j) \in {"build"} \cup DOMAIN Successor
  BY MovingJobs DEF AddNext, IInv, PositionsFit, Fits, Orderly
<1>2. /\ pc' = [Added(NextJobs(j), pc) EXCEPT ![j] = "completed"]
      /\ seen' = [seen EXCEPT ![j] = NoEvidence]
      /\ UNCHANGED <<cancelKey, canceller, pending, completed, failed>>
  BY ReturnsWhole DEF AddNext, apiVars, stageVars
<1>3. NextJobs(j) = IF j = "build" THEN Analyzers ELSE {Successor[j]}
  BY <1>1 DEF NextJobs
<1>4. j \in Stages /\ \A t \in Stages : Rank[t] < Rank[j] => pc[t] = "completed"
  BY <1>1, StageAlone DEF Successor, Stages
<1>5. CASE j = "build"
  <2>1. NextJobs(j) = Analyzers BY <1>3, <1>5
  <2>2. Analyzers \cap Stages = {} /\ Analyzers \cap ApiJobs = {} /\ "normalize" \notin Analyzers
    BY JobNamesAssumption DEF Stages
  <2>3. Orderly' BY <1>1, <1>2, <1>5, <2>1, <2>2, AddingKeeps
  <2> QED BY <1>1, <1>2, <1>3, <2>3
<1>6. CASE j # "build"
  <2>1. NextJobs(j) = {Successor[j]} BY <1>3, <1>6
  <2>2. /\ Successor[j] \in Stages \ {"normalize"}
        /\ \A k \in Stages : Rank[k] < Rank[Successor[j]] => k = j \/ Rank[k] < Rank[j]
    BY <1>1, <1>6 DEF Successor, Stages, Rank
  <2>3. Successor[j] \notin Analyzers /\ Successor[j] \notin ApiJobs
    BY <2>2, JobNamesAssumption
  <2>4. {Successor[j]} \cap ApiJobs = {} /\ ~("normalize" \in {Successor[j]})
        /\ {Successor[j]} \cap Analyzers = {}
        /\ \A i \in {Successor[j]} \cap Stages, k \in Stages :
             Rank[k] < Rank[i] => k = j \/ pc[k] = "completed"
    BY <1>4, <2>2, <2>3
  <2>5. Orderly' BY <1>1, <1>2, <2>1, <2>4, AddingKeeps
  <2> QED BY <1>1, <1>2, <1>3, <2>5
<1> QED BY <1>5, <1>6

(* An analyzer records its outcome, once.                                  *)
LEMMA RecordingKeeps ==
  ASSUME IInv, Orderly, NEW j \in Jobs, RecordCompletion(j) \/ RecordFailure(j)
  PROVE  /\ Orderly' /\ j \in Analyzers \ (completed \cup failed)
         /\ pc' = [pc EXCEPT ![j] = pc'[j]] /\ pc'[j] \in {"count", "countFailure"}
<1> USE DEF Orderly, IInv, TypeOK, QueueTypeOK, StageTypeOK
<1>0. /\ j \in Analyzers /\ Kind(j) = j /\ pc[j] \in {"record", "recordFailure"}
      /\ j \notin ApiJobs /\ Analyzers \subseteq Jobs /\ ApiJobs \subseteq Jobs
      /\ "normalize" \in Jobs \ Analyzers
  BY MovingJobs, JobNamesAssumption
     DEF RecordCompletion, RecordFailure, PositionsFit, Fits, Untouched, Jobs, Stages
<1>1. /\ pc' = [pc EXCEPT ![j] = pc'[j]] /\ pc'[j] \in {"count", "countFailure"}
      /\ \/ completed' = completed \cup {j} /\ failed' = failed
         \/ completed' = completed /\ failed' = failed \cup {j}
      /\ UNCHANGED <<cancelKey, canceller, pending, seen>>
  BY <1>0 DEF RecordCompletion, RecordFailure, Move, apiVars
<1>2. pc'[j] # "absent" /\ \A k \in Jobs \ {j} : pc'[k] = pc[k] BY <1>1
<1>3. j \notin completed \cup failed BY <1>0 DEF Barrier
<1>4. Untouched' BY <1>0, <1>1, <1>2 DEF Untouched
<1>5. InLine'
  <2> DEFINE ids == {}
  <2>1. /\ \A i \in ids \cap Stages, k \in Stages :
              Rank[k] < Rank[i] => k = j \/ pc[k] = "completed"
        /\ ~(ids # {}) /\ ids \cap Analyzers = {}
    OBVIOUS
  <2>2. InLine /\ pc[j] \notin {"absent", "completed"} BY <1>0
  <2> HIDE DEF ids
  <2> QED BY <1>2, <2>1, <2>2, LineKeeps
<1>6. Barrier'
  <2>1. ~AllIn BY <1>0, <1>3 DEF AllIn
  <2>2. \A a \in Analyzers \ {j} : pc'[a] \notin {"enqueue", "enqueueFailure"}
    BY <1>0, <1>2, <2>1 DEF Barrier
  <2>3. pc'["normalize"] = "absent" BY <1>0, <1>2, <2>1 DEF Barrier
  <2>4. completed' \cap failed' = {} BY <1>1, <1>3 DEF Barrier
  <2>5. \A a \in completed' \cup failed' :
          pc'[a] \in {"count", "countFailure", "enqueue", "enqueueFailure", "completed"}
    <3>1. \A a \in completed' \cup failed' : a = j \/ a \in completed \cup failed BY <1>1
    <3> QED BY <1>0, <1>1, <1>2, <3>1 DEF Barrier
  <2> QED BY <1>1, <2>2, <2>3, <2>4, <2>5 DEF Barrier
<1>7. Heard' BY <1>0, <1>1, <1>2 DEF Heard
<1> QED BY <1>0, <1>1, <1>3, <1>4, <1>5, <1>6, <1>7

(* The barrier opens when every analyzer is in, for the sets are disjoint. *)
LEMMA OpensWhenAllIn ==
  ASSUME IInv, Orderly, StageComplete
  PROVE  AllIn
<1> USE DEF Orderly, IInv, TypeOK, StageTypeOK
<1>1. IsFiniteSet(Analyzers) BY AnalyzersAssumption
<1>2. completed \cap failed = {} /\ completed \cup failed \subseteq Analyzers
  BY DEF Barrier
<1>3. IsFiniteSet(completed) /\ IsFiniteSet(failed) BY <1>1, <1>2, FS_Subset
<1>4. Cardinality(completed \cup failed) = Cardinality(completed) + Cardinality(failed)
  <2>1. Cardinality(completed \cap failed) = 0 BY <1>2, FS_EmptySet
  <2>2. Cardinality(completed) \in Nat /\ Cardinality(failed) \in Nat
    BY <1>3, FS_CardinalityType
  <2>3. Cardinality(completed \cup failed) =
          Cardinality(completed) + Cardinality(failed) - Cardinality(completed \cap failed)
    BY <1>3, FS_Union
  <2> QED BY <2>1, <2>2, <2>3
<1>5. expected = Cardinality(Analyzers) /\ Cardinality(Analyzers) \in Nat
  BY <1>1, FS_CardinalityType DEF StageComplete
<1>6. /\ Cardinality(completed \cup failed) <= Cardinality(Analyzers)
      /\ Cardinality(Analyzers) = Cardinality(completed \cup failed)
           => completed \cup failed = Analyzers
  BY <1>1, <1>2, FS_Subset
<1>7. Cardinality(completed \cup failed) \in Nat
  BY <1>1, <1>2, FS_Subset, FS_CardinalityType
<1>8. Cardinality(completed \cup failed) >= Cardinality(Analyzers)
  BY <1>4, <1>5 DEF StageComplete
<1> QED BY <1>5, <1>6, <1>7, <1>8 DEF AllIn

LEMMA CountingKeeps ==
  ASSUME Undisturbed, IInv, Orderly, NEW j \in Jobs, CountStage(j)
  PROVE  /\ Orderly' /\ j \in Analyzers
         /\ \E p \in {"enqueue", "enqueueFailure", "completed"} : pc' = [pc EXCEPT ![j] = p]
         /\ pending' = pending
<1> USE DEF Orderly, IInv, TypeOK, QueueTypeOK, StageTypeOK
<1>0. /\ j \in Analyzers /\ Kind(j) = j /\ pc[j] \in {"count", "countFailure"}
      /\ j \notin ApiJobs /\ Analyzers \subseteq Jobs /\ ApiJobs \subseteq Jobs
      /\ "normalize" \in Jobs \ Analyzers
  BY MovingJobs, JobNamesAssumption
     DEF CountStage, PositionsFit, Fits, Untouched, Jobs, Stages
<1>1. UNCHANGED <<cancelKey, canceller, completed, failed>>
  BY DEF CountStage, apiVars, stageVars
<1>2. CASE StageComplete /\ Move(j, IF pc[j] = "count" THEN "enqueue" ELSE "enqueueFailure")
           /\ seen' = [seen EXCEPT ![j] = [artifacts |-> completed, failures |-> failed]]
           /\ UNCHANGED <<made, stalls, pending, faults>>
  <2>1. AllIn BY <1>2, OpensWhenAllIn
  <2>2. /\ pc'[j] \in {"enqueue", "enqueueFailure"} /\ pc' = [pc EXCEPT ![j] = pc'[j]]
        /\ \A k \in Jobs \ {j} : pc'[k] = pc[k]
    BY <1>2 DEF Move
  <2>3. /\ seen'[j] = [artifacts |-> completed, failures |-> failed]
        /\ \A k \in Jobs \ {j} : seen'[k] = seen[k]
    BY <1>2
  <2>4. Untouched' BY <1>0, <1>1, <2>2 DEF Untouched
  <2>5. InLine'
    <3> DEFINE ids == {}
    <3>1. /\ \A i \in ids \cap Stages, k \in Stages :
                Rank[k] < Rank[i] => k = j \/ pc[k] = "completed"
          /\ ~(ids # {}) /\ ids \cap Analyzers = {}
      OBVIOUS
    <3>2. InLine /\ pc[j] \notin {"absent", "completed"} /\ pc'[j] # "absent" BY <1>0, <2>2
    <3> HIDE DEF ids
    <3> QED BY <2>2, <3>1, <3>2, LineKeeps
  <2>6. Barrier'
    <3>1. AllIn' BY <1>1, <2>1 DEF AllIn
    <3>2. \A a \in completed' \cup failed' :
            pc'[a] \in {"count", "countFailure", "enqueue", "enqueueFailure", "completed"}
      BY <1>0, <1>1, <2>2 DEF Barrier
    <3>3. ASSUME NEW a \in Analyzers, pc'[a] \in {"enqueue", "enqueueFailure"}
          PROVE  seen'[a] = [artifacts |-> completed', failures |-> failed']
      <4>1. CASE a = j BY <1>1, <2>3, <4>1
      <4>2. CASE a # j BY <1>0, <1>1, <2>2, <2>3, <3>3, <4>2 DEF Barrier
      <4> QED BY <4>1, <4>2
    <3>4. pc'["normalize"] # "absent" => completed' # {}
      BY <1>0, <1>1, <2>2 DEF Barrier
    <3>5. completed' \cap failed' = {} BY <1>1 DEF Barrier
    <3> QED BY <3>1, <3>2, <3>3, <3>4, <3>5 DEF Barrier
  <2>7. Heard' BY <1>0, <1>2, <2>2 DEF Heard
  <2> QED BY <1>0, <1>2, <2>2, <2>4, <2>5, <2>6, <2>7
<1>3. CASE Returns(pc, j)
  <2>1. /\ pc' = [pc EXCEPT ![j] = "completed"] /\ pending' = pending
        /\ seen' = [seen EXCEPT ![j] = NoEvidence]
    BY <1>3, ReturnsWhole
  <2>2. Goes(j, "completed") BY <2>1 DEF Goes
  <2>3. "completed" \in Positions \ {"absent", "enqueue", "enqueueFailure"} BY DEF Positions
  <2>4. Orderly' BY <1>0, <1>1, <2>2, <2>3, GoingKeeps
  <2> QED BY <1>0, <2>1, <2>4
<1> QED BY <1>2, <1>3 DEF CountStage

(* Whoever enqueues has read what every other one has.                     *)
LEMMA EnqueueingKeeps ==
  ASSUME Undisturbed, IInv, Orderly, NEW j \in Jobs, EnqueueNormalize(j)
  PROVE  /\ Orderly' /\ j \in Analyzers /\ AllIn /\ pending' = pending
         /\ \/ /\ completed = {} /\ scanStatus' = "FAILED"
               /\ pc' = [pc EXCEPT ![j] = "completed"]
            \/ /\ completed # {} /\ scanStatus' = scanStatus
               /\ pc' = [Added({"normalize"}, pc) EXCEPT ![j] = "completed"]
<1> USE DEF Orderly, IInv, TypeOK, QueueTypeOK, StageTypeOK
<1>0. /\ j \in Analyzers /\ pc[j] \in {"enqueue", "enqueueFailure"}
      /\ "normalize" \notin ApiJobs
  BY MovingJobs, JobNamesAssumption DEF EnqueueNormalize, PositionsFit, Fits, Stages
<1>1. AllIn /\ seen[j].artifacts = completed BY <1>0 DEF Barrier
<1>2. UNCHANGED <<cancelKey, canceller, completed, failed>>
  BY DEF EnqueueNormalize, apiVars, stageVars
<1>3. CASE seen[j].artifacts = {} /\ scanStatus' = "FAILED" /\ Returns(pc, j)
  <2>1. /\ pc' = [pc EXCEPT ![j] = "completed"] /\ pending' = pending
        /\ seen' = [seen EXCEPT ![j] = NoEvidence]
    BY <1>3, ReturnsWhole
  <2>2. Goes(j, "completed") BY <2>1 DEF Goes
  <2>3. "completed" \in Positions \ {"absent", "enqueue", "enqueueFailure"} BY DEF Positions
  <2>4. Orderly' BY <1>0, <1>2, <2>2, <2>3, GoingKeeps
  <2> QED BY <1>0, <1>1, <1>3, <2>1, <2>4
<1>4. CASE seen[j].artifacts # {} /\ scanStatus' = scanStatus
           /\ Returns(Added({"normalize"}, pc), j)
  <2>1. /\ pc' = [Added({"normalize"}, pc) EXCEPT ![j] = "completed"] /\ pending' = pending
        /\ seen' = [seen EXCEPT ![j] = NoEvidence]
    BY <1>4, ReturnsWhole
  <2> DEFINE ids == {"normalize"}
  <2>2. \A i \in ids \cap Stages, k \in Stages :
          Rank[k] < Rank[i] => k = j \/ pc[k] = "completed"
    <3>1. \A k \in Stages : Rank[k] < Rank["normalize"] =>
            k = "build" \/ Rank[k] < Rank["build"]
      BY DEF Stages, Rank
    <3>2. pc["build"] = "completed" BY <1>0 DEF InLine
    <3>3. \A k \in Stages : Rank[k] < Rank["build"] => pc[k] = "completed"
      BY <3>2 DEF InLine, Stages
    <3> QED BY <3>1, <3>2, <3>3
  <2>3. ids \cap ApiJobs = {} /\ ids \cap Analyzers = {}
    BY JobNamesAssumption DEF Stages
  <2>4. "normalize" \in ids => AllIn /\ completed # {} BY <1>1, <1>4
  <2>5. pc' = [Added(ids, pc) EXCEPT ![j] = "completed"] BY <2>1
  <2> HIDE DEF ids
  <2>6. Orderly' BY <1>0, <1>2, <2>1, <2>2, <2>3, <2>4, <2>5, AddingKeeps
  <2> QED BY <1>0, <1>1, <1>4, <2>1, <2>6
<1> QED BY <1>3, <1>4 DEF EnqueueNormalize

(* Where the step of a stage's job takes it, and the status it leaves.     *)
StageGoes(j, p) ==
  /\ j \in Stages /\ pc[j] \notin {"absent", "completed", "failed"} /\ Goes(j, p)
  /\ p \in {"waiting", "begin", "work", "settle", "add", "completed", "failed"}
  /\ p = "completed" => j = "notify"
  /\ IF j = "notify"
     THEN scanStatus' = scanStatus /\ (p = "failed" => ~NotifierWorks)
     ELSE /\ p \in {"waiting", "begin"} => scanStatus' \in {Finds[j], Under[j]}
          /\ p \in {"work", "settle", "failed"} => scanStatus' = Under[j]
          /\ p = "add" => scanStatus' \in MayLeave(j)

(* Those of a stage's steps that add no job.                               *)
Inside(j) ==
  \/ Begin(j) \/ Orchestrate(j) \/ Compute(j) \/ WriteReport(j) \/ RenderPdf(j)
  \/ Consume(j) \/ WorkFails(j) \/ Settle(j)

LEMMA MovesGo ==
  ASSUME NEW j, NEW p, p # "failed", Move(j, p), seen' = seen, pending' = pending
  PROVE  Goes(j, p)
BY DEF Move, Goes

LEMMA InsideGoes ==
  ASSUME Undisturbed, IInv, Orderly, Telling, NEW j \in Jobs, Inside(j)
  PROVE  /\ \E p \in Positions : StageGoes(j, p)
         /\ UNCHANGED <<outbox, cancelKey, canceller, deadLetters>>
<1> USE DEF Orderly, Telling, IInv, TypeOK, QueueTypeOK
<1>0. /\ Kind(j) = j /\ pc[j] \in {"begin", "work", "settle"}
      /\ IsAnalyzer(j) <=> j \in Analyzers
      /\ j \in Stages \cup Analyzers
      /\ DOMAIN Under = Stages \ {"notify"}
  BY MovingJobs DEF Inside, Begin, Orchestrate, Compute, WriteReport, RenderPdf, Consume,
     WorkFails, Settle, Under, Stages
<1>1. UNCHANGED <<outbox, cancelKey, canceller, deadLetters>>
  BY DEF Inside, Begin, Orchestrate, Compute, WriteReport, RenderPdf, Consume,
     WorkFails, Settle, apiVars
<1>2. j \in Stages /\ pc[j] \notin {"absent", "completed", "failed"} /\ j \notin Analyzers
  <2>1. CASE WorkFails(j)
    <3>1. j \notin Analyzers BY <1>0, <2>1 DEF WorkFails
    <3> QED BY <1>0, <3>1
  <2>2. CASE Begin(j)
    <3>1. j \in DOMAIN StartStatus BY <1>0, <2>2 DEF Begin, PositionsFit, Fits
    <3>2. j \in Stages BY <3>1 DEF StartStatus, Stages
    <3> QED BY <1>0, <3>2, JobNamesAssumption
  <2>3. CASE ~WorkFails(j) /\ ~Begin(j)
    <3>1. j \in Stages
      <4>1. j # "validate" BY <1>0, JobNamesAssumption DEF Stages
      <4> QED BY <1>0, <2>3, <4>1 DEF Inside, Orchestrate, Compute, WriteReport, RenderPdf,
             Consume, Settle, Stages
    <3> QED BY <1>0, <3>1, JobNamesAssumption
  <2> QED BY <2>1, <2>2, <2>3
<1>3. CASE Begin(j)
  <2>1. j \in DOMAIN StartStatus /\ scanStatus' = StartStatus[j]
    BY <1>0, <1>3 DEF Begin, PositionsFit, Fits
  <2>2. j # "notify" /\ scanStatus' = Under[j] BY <2>1 DEF StartStatus, Under
  <2>3. Goes(j, "work") BY <1>3, MovesGo DEF Begin
  <2>4. StageGoes(j, "work") BY <1>2, <2>2, <2>3 DEF StageGoes
  <2> QED BY <1>1, <2>4 DEF Positions, Active
<1>4. CASE Orchestrate(j)
  <2>1. j = "orchestrator" /\ scanStatus' = scanStatus BY <1>0, <1>4 DEF Orchestrate
  <2>2. scanStatus = Under[j] BY <1>0, <1>4, <2>1 DEF Orchestrate, OnRung, Under
  <2>3. scanStatus' \in MayLeave(j) BY <2>1, <2>2 DEF MayLeave
  <2>4. Goes(j, "add") BY <1>4, MovesGo DEF Orchestrate
  <2>5. StageGoes(j, "add") BY <1>2, <2>1, <2>3, <2>4 DEF StageGoes
  <2> QED BY <1>1, <2>5 DEF Positions, Active
<1>5. CASE Compute(j)
  <2>1. /\ j \in {"prepare", "build", "normalize", "risk"} /\ scanStatus' = scanStatus
        /\ pc[j] = "work"
    BY <1>0, <1>5 DEF Compute
  <2>2. scanStatus = Under[j] BY <2>1 DEF OnRung, Under
  <2>3. CASE j = "prepare"
    <3>1. Goes(j, "settle") BY <1>0, <1>5, <2>3, MovesGo DEF Compute
    <3>2. StageGoes(j, "settle") BY <1>2, <2>1, <2>2, <3>1 DEF StageGoes
    <3> QED BY <1>1, <3>2 DEF Positions, Active
  <2>4. CASE j # "prepare"
    <3>1. Goes(j, "add") BY <1>0, <1>5, <2>4, MovesGo DEF Compute
    <3>2. scanStatus' \in MayLeave(j) BY <2>1, <2>2, <2>4 DEF MayLeave
    <3>3. StageGoes(j, "add") BY <1>2, <2>1, <3>1, <3>2 DEF StageGoes
    <3> QED BY <1>1, <3>3 DEF Positions, Active
  <2> QED BY <2>3, <2>4
<1>6. CASE WriteReport(j)
  <2>1. j = "report" /\ scanStatus' = "REPORTING" BY <1>0, <1>6 DEF WriteReport
  <2>2. scanStatus' \in MayLeave(j) BY <2>1 DEF MayLeave, Under
  <2>3. Goes(j, "add") BY <1>6, MovesGo DEF WriteReport
  <2>4. StageGoes(j, "add") BY <1>2, <2>1, <2>2, <2>3 DEF StageGoes
  <2> QED BY <1>1, <2>4 DEF Positions, Active
<1>7. CASE RenderPdf(j)
  <2>1. j = "pdf" /\ scanStatus' = scanStatus /\ pc[j] = "work" BY <1>0, <1>7 DEF RenderPdf
  <2>2. scanStatus = Under[j] BY <2>1 DEF OnRung, Under
  <2>3. Goes(j, "settle") BY <1>7, MovesGo DEF RenderPdf
  <2>4. StageGoes(j, "settle") BY <1>2, <2>1, <2>2, <2>3 DEF StageGoes
  <2> QED BY <1>1, <2>4 DEF Positions, Active
<1>8. CASE Settle(j)
  <2>1. j \in {"prepare", "pdf"} /\ scanStatus' \in MayLeave(j)
    BY <1>0, <1>8 DEF Settle, MayLeave, Finished
  <2>2. Goes(j, "add") BY <1>8, MovesGo DEF Settle
  <2>3. StageGoes(j, "add") BY <1>2, <2>1, <2>2 DEF StageGoes
  <2> QED BY <1>1, <2>3 DEF Positions, Active
<1>9. CASE Consume(j)
  <2>1. j = "notify" /\ scanStatus' = scanStatus
    <3>1. j # "validate" BY <1>2 DEF Stages
    <3> QED BY <1>0, <1>9, <3>1 DEF Consume
  <2>2. /\ pc' = [pc EXCEPT ![j] = "completed"] /\ pending' = pending
        /\ seen' = [seen EXCEPT ![j] = NoEvidence]
    BY <1>9, ReturnsWhole DEF Consume
  <2>3. Goes(j, "completed") BY <2>2 DEF Goes, StageTypeOK
  <2>4. StageGoes(j, "completed") BY <1>2, <2>1, <2>3 DEF StageGoes
  <2> QED BY <1>1, <2>4 DEF Positions
<1>10. CASE WorkFails(j)
  <2>1. scanStatus' = scanStatus /\ (j = "notify" => ~NotifierWorks)
    BY <1>0, <1>10 DEF WorkFails
  <2>2. PICK p \in {"waiting", "failed"} : Goes(j, p)
    <3>1. JobFails(j, FALSE, "FAILED") BY <1>10 DEF WorkFails
    <3> QED BY <1>2, <3>1, FailingGoes
  <2>3. j # "notify" => scanStatus' = Under[j] BY <1>0, <1>2, <2>1, <1>10 DEF OnRung, WorkFails
  <2>4. StageGoes(j, p) BY <1>2, <2>1, <2>2, <2>3 DEF StageGoes
  <2> QED BY <1>1, <2>2, <2>4 DEF Positions
<1> QED BY <1>3, <1>4, <1>5, <1>6, <1>7, <1>8, <1>9, <1>10 DEF Inside

LEMMA StartGoes ==
  ASSUME Undisturbed, IInv, Orderly, Telling, NEW j \in Jobs, Start(j)
  PROVE  /\ pc[j] = "waiting" /\ UNCHANGED <<scanStatus, outbox, cancelKey, canceller,
                                             deadLetters, completed, failed>>
         /\ \E p \in {"begin", "work"} :
              /\ Goes(j, p)
              /\ j \in Stages => StageGoes(j, p)
              /\ j \in Analyzers => p = "work"
<1> USE DEF Orderly, Telling, IInv, TypeOK, QueueTypeOK
<1>0. /\ pc[j] = "waiting" /\ Kind(j) = j /\ DOMAIN Under = Stages \ {"notify"}
  BY MovingJobs DEF Start, Under, Stages
<1>1. UNCHANGED <<scanStatus, outbox, cancelKey, canceller, deadLetters, completed, failed>>
  BY DEF Start, apiVars, stageVars
<1> DEFINE p == IF j \in DOMAIN StartStatus THEN "begin" ELSE "work"
<1>2. p \in {"begin", "work"} OBVIOUS
<1>3. Goes(j, p)
  <2>1. Move(j, p) /\ pending' = pending /\ seen' = seen
    BY <1>0 DEF Start, Untouched
  <2>2. p # "failed" BY <1>2
  <2> HIDE DEF p
  <2> QED BY <2>1, <2>2, MovesGo
<1>4. ASSUME j \in Stages PROVE StageGoes(j, p)
  <2>1. j # "notify" => scanStatus \in {Finds[j], Under[j]} BY <1>0, <1>4 DEF OnRung
  <2>2. j # "notify" /\ p = "work" => scanStatus = Under[j]
    <3>1. j # "notify" /\ p = "work" => j = "pdf" BY <1>4 DEF Stages, StartStatus
    <3> QED BY <2>1, <3>1 DEF Finds, Under
  <2> HIDE DEF p
  <2> QED BY <1>0, <1>1, <1>2, <1>3, <1>4, <2>1, <2>2 DEF StageGoes
<1>5. j \in Analyzers => p = "work"
  <2>1. DOMAIN StartStatus \subseteq Stages BY DEF StartStatus, Stages
  <2> QED BY <2>1, JobNamesAssumption
<1> HIDE DEF p
<1> QED BY <1>0, <1>1, <1>2, <1>3, <1>4, <1>5

(* An analyzer's own work.                                                 *)
LEMMA ExecGoes ==
  ASSUME IInv, Orderly, NEW j \in Jobs, ExecSucceeds(j) \/ ExecFails(j) \/ ExecAborted(j)
  PROVE  /\ j \in Analyzers /\ pc[j] = "work"
         /\ UNCHANGED <<scanStatus, outbox, cancelKey, canceller, deadLetters,
                        completed, failed>>
         /\ \E p \in {"waiting", "record", "recordFailure", "failed"} : Goes(j, p)
<1>0. pc[j] = "work" /\ j \in Analyzers
  BY MovingJobs DEF ExecSucceeds, ExecFails, ExecAborted, Orderly
<1>1. UNCHANGED <<scanStatus, outbox, cancelKey, canceller, deadLetters, completed, failed>>
  BY DEF ExecSucceeds, ExecFails, ExecAborted, apiVars, stageVars
<1>2. CASE ExecSucceeds(j)
  <2>1. Goes(j, "record") BY <1>2, MovesGo DEF ExecSucceeds
  <2> QED BY <1>0, <1>1, <2>1
<1>3. CASE ExecAborted(j)
  <2>1. JobFails(j, FALSE, "CANCELED") BY <1>3 DEF ExecAborted
  <2>2. \E p \in {"waiting", "failed"} : Goes(j, p) BY <1>0, <2>1, FailingGoes
  <2> QED BY <1>0, <1>1, <2>2
<1>4. CASE ExecFails(j)
  <2>1. PICK passing \in BOOLEAN : Caught(j, passing) BY <1>4 DEF ExecFails
  <2>2. CASE passing /\ ~Spent(j)
    <3>1. JobFails(j, FALSE, "FAILED") BY <2>1, <2>2 DEF Caught
    <3>2. Goes(j, "waiting") BY <2>2, <3>1, RetryingGoes
    <3> QED BY <1>0, <1>1, <3>2
  <2>3. CASE ~(passing /\ ~Spent(j))
    <3>1. Goes(j, "recordFailure") BY <2>1, <2>3, MovesGo DEF Caught
    <3> QED BY <1>0, <1>1, <3>1
  <2> QED BY <2>2, <2>3
<1> QED BY <1>2, <1>3, <1>4

(* THE STATUS, STEP BY STEP.                                               *)

LEMMA RungNames ==
  /\ DOMAIN Under = Stages \ {"notify"}
  /\ {"orchestrator", "build", "normalize", "pdf", "notify"} \subseteq Stages
  /\ Stages \subseteq Jobs /\ Analyzers \subseteq Jobs /\ Stages \cap Analyzers = {}
  /\ Rank["build"] = 3 /\ Rank["normalize"] = 4 /\ Rank["pdf"] = 7 /\ Rank["notify"] = 8
  /\ \A s \in Stages : Rank[s] \in 1..8
  /\ \A s, t \in Stages : Rank[s] = Rank[t] => s = t
  /\ \A s \in DOMAIN Under :
       Finds[s] # "NONE" /\ Under[s] # "NONE" /\ "NONE" \notin MayLeave(s)
BY JobNamesAssumption DEF Under, Stages, Jobs, Rank, Finds, MayLeave, Finished

LEMMA StageTells ==
  ASSUME IInv, Orderly, Telling, NEW j \in Jobs, NEW p \in Positions, StageGoes(j, p),
         deadLetters' = deadLetters, outbox' = outbox
  PROVE  Telling'
<1> USE RungNames DEF Telling, IInv, TypeOK, QueueTypeOK
<1>0. /\ j \in Stages /\ pc[j] \notin {"absent", "completed", "failed"} /\ p # "absent"
      /\ pc' = [pc EXCEPT ![j] = p]
      /\ p = "failed" => pending' = [pending EXCEPT ![j] = "FAILED"]
      /\ p # "failed" => pending' = pending
  BY DEF StageGoes, Goes
<1>1. /\ \A t \in Stages \ {j} : pc[t] \in {"absent", "completed"}
      /\ \A k \in Jobs \ {j} : pc[k] # "failed" /\ pending[k] = "none"
      /\ pending[j] = "none"
  <2>1. \A t \in Stages \ {j} : Rank[t] < Rank[j] \/ Rank[j] < Rank[t] BY <1>0
  <2>2. \A t \in Stages \ {j} : pc[t] \in {"absent", "completed"}
    BY <1>0, <2>1, StageAlone
  <2>3. pending[j] = "none" BY <1>0 DEF Orderly, Heard
  <2> QED BY <1>0, <2>2, <2>3, StageAlone
<1>2. /\ pc'[j] = p /\ \A k \in Jobs \ {j} : pc'[k] = pc[k] /\ pending'[k] = "none"
      /\ p = "failed" => pending'[j] = "FAILED"
      /\ p # "failed" => pending'[j] = "none"
  BY <1>0, <1>1
<1>3. Shown' BY <1>1, <1>2 DEF Shown
<1>4. /\ outbox = "PROCESSED" /\ scanStatus # "NONE" /\ scanStatus' # "NONE"
      /\ pc'["orchestrator"] # "absent"
  <2>1. pc["orchestrator"] # "absent"
    <3>1. j = "orchestrator" \/ Rank["orchestrator"] < Rank[j]
      <4>1. Rank["orchestrator"] = 1 BY DEF Rank
      <4> QED BY <1>0, <4>1
    <3>2. CASE j = "orchestrator" BY <1>0, <3>2
    <3>3. CASE Rank["orchestrator"] < Rank[j] BY <1>0, <3>3 DEF Orderly, InLine
    <3> QED BY <3>1, <3>2, <3>3
  <2>2. outbox = "PROCESSED" /\ scanStatus # "NONE" BY <2>1 DEF OnRung
  <2>3. scanStatus' # "NONE" BY <1>0, <2>2 DEF StageGoes
  <2>4. pc'["orchestrator"] # "absent" BY <1>0, <1>2, <2>1
  <2> QED BY <2>2, <2>3, <2>4
<1>5. OnRung'
  <2>1. ASSUME NEW s \in DOMAIN Under
        PROVE  /\ pc'[s] \in {"waiting", "begin"} => scanStatus' \in {Finds[s], Under[s]}
               /\ pc'[s] \in {"work", "settle"} \/ pending'[s] # "none" => scanStatus' = Under[s]
               /\ pc'[s] = "add" => scanStatus' \in MayLeave(s)
    <3>1. CASE s = j BY <1>2, <2>1, <3>1 DEF StageGoes
    <3>2. CASE s # j
      <4>1. pc'[s] \in {"absent", "completed"} /\ pending'[s] = "none"
        BY <1>1, <1>2, <2>1, <3>2
      <4> QED BY <4>1
    <3> QED BY <3>1, <3>2
  <2> QED BY <1>4, <2>1 DEF OnRung, MayLeave
<1>6. InAnalysis'
  <2>1. CASE Rank[j] <= 3
    <3>1. j = "build" \/ Rank[j] < Rank["build"] BY <1>0, <2>1
    <3>2. pc'["build"] # "completed"
      <4>1. CASE j = "build" BY <1>2, <4>1 DEF StageGoes
      <4>2. CASE Rank[j] < Rank["build"]
        <5>1. pc["build"] = "absent" BY <1>0, <4>2, StageAlone
        <5> QED BY <1>2, <4>2, <5>1
      <4> QED BY <3>1, <4>1, <4>2
    <3> QED BY <3>2 DEF InAnalysis
  <2>2. CASE ~(Rank[j] <= 3)
    <3>1. Rank[j] >= 4 BY <1>0, <2>2
    <3>2. pc["normalize"] # "absent" BY <1>0, <3>1, StageAlone
    <3>3. pc'["normalize"] # "absent" BY <1>0, <1>2, <3>2
    <3> QED BY <3>3 DEF InAnalysis
  <2> QED BY <2>1, <2>2
<1>7. Published'
  <2>1. NotifierWorks => pc'["notify"] # "failed"
    BY <1>0, <1>1, <1>2 DEF StageGoes, Published
  <2>2. ASSUME pc'["pdf"] = "completed"
        PROVE  scanStatus' \in Finished \/ pc'["notify"] = "failed"
    <3>1. j # "pdf" BY <1>2, <2>2 DEF StageGoes
    <3>2. pc["pdf"] = "completed" BY <1>2, <2>2, <3>1
    <3>3. j = "notify"
      <4>1. ~(Rank[j] < Rank["pdf"]) BY <1>0, <3>2, StageAlone
      <4> QED BY <1>0, <3>1, <4>1
    <3>4. pc["notify"] # "failed" BY <1>0, <3>3
    <3> QED BY <3>2, <3>3, <3>4 DEF StageGoes, Published
  <2> QED BY <2>1, <2>2 DEF Published
<1> QED BY <1>3, <1>5, <1>6, <1>7

LEMMA AddNextTells ==
  ASSUME Undisturbed, IInv, Orderly, Telling, NEW j \in Jobs, AddNext(j)
  PROVE  Telling'
<1> USE RungNames DEF Telling, IInv, TypeOK, QueueTypeOK
<1>0. /\ pc[j] = "add" /\ j \in {"build"} \cup DOMAIN Successor /\ j \in Stages
      /\ pc' = [Added(NextJobs(j), pc) EXCEPT ![j] = "completed"] /\ pending' = pending
      /\ NextJobs(j) = IF j = "build" THEN Analyzers ELSE {Successor[j]}
      /\ UNCHANGED <<scanStatus, outbox, deadLetters>>
  BY AddNextIsOrderly DEF AddNext, apiVars, Successor, Stages
<1>1. /\ \A t \in Stages \ {j} : pc[t] \in {"absent", "completed"}
      /\ \A k \in Jobs : pc[k] # "failed" /\ pending[k] = "none"
  <2>1. \A t \in Stages \ {j} : Rank[t] < Rank[j] \/ Rank[j] < Rank[t] BY <1>0
  <2>2. \A t \in Stages \ {j} : pc[t] \in {"absent", "completed"}
    BY <1>0, <2>1, StageAlone
  <2>3. pending[j] = "none" BY <1>0 DEF Orderly, Heard
  <2> QED BY <1>0, <2>2, <2>3, StageAlone
<1>2. /\ pc'[j] = "completed"
      /\ \A k \in Jobs \ {j} : pc'[k] = IF k \in NextJobs(j) /\ pc[k] = "absent"
                                        THEN "waiting" ELSE pc[k]
  BY <1>0 DEF Added
<1>3. \A k \in Jobs : pc'[k] # "failed" BY <1>1, <1>2
<1>4. Shown' BY <1>3 DEF Shown
<1>5. scanStatus \in MayLeave(j) \/ j = "notify" BY <1>0 DEF OnRung
<1>6. OnRung'
  <2>1. ASSUME NEW s \in DOMAIN Under
        PROVE  /\ pc'[s] \in {"waiting", "begin"} => scanStatus' \in {Finds[s], Under[s]}
               /\ pc'[s] \in {"work", "settle"} \/ pending'[s] # "none" => scanStatus' = Under[s]
               /\ pc'[s] = "add" => scanStatus' \in MayLeave(s)
    <3>1. pc'[s] \in {"absent", "completed"} \/ (pc'[s] = "waiting" /\ j # "build"
                                                 /\ s = Successor[j])
      <4>1. CASE s = j BY <1>2, <4>1
      <4>2. CASE s # j
        <5>1. pc[s] \in {"absent", "completed"} BY <1>1, <2>1, <4>2
        <5>2. s \in NextJobs(j) => j # "build" /\ s = Successor[j] BY <1>0, <2>1
        <5>3. pc'[s] = IF s \in NextJobs(j) /\ pc[s] = "absent" THEN "waiting" ELSE pc[s]
          BY <1>2, <2>1, <4>2
        <5> QED BY <5>1, <5>2, <5>3
      <4> QED BY <4>1, <4>2
    <3>2. pending'[s] = "none" BY <1>0, <1>1
    <3>3. CASE pc'[s] \in {"absent", "completed"} BY <3>2, <3>3
    <3>4. CASE pc'[s] = "waiting" /\ j # "build" /\ s = Successor[j]
      <4>1. MayLeave(j) \subseteq {Finds[s]}
        BY <1>0, <2>1, <3>4 DEF MayLeave, Successor, Finds, Under
      <4>2. j # "notify" BY <1>0 DEF Successor
      <4> QED BY <1>0, <1>5, <3>2, <3>4, <4>1, <4>2
    <3> QED BY <3>1, <3>3, <3>4
  <2>2. (outbox' = "PROCESSED") <=> (pc'["orchestrator"] # "absent")
    <3>1. "orchestrator" \notin NextJobs(j) BY <1>0 DEF Successor
    <3>2. pc["orchestrator"] # "absent" <=> pc'["orchestrator"] # "absent"
      BY <1>0, <1>2, <3>1
    <3> QED BY <1>0, <3>2 DEF OnRung
  <2> QED BY <1>0, <2>1, <2>2 DEF OnRung, MayLeave
<1>7. InAnalysis'
  <2> SUFFICES ASSUME pc'["build"] = "completed", pc'["normalize"] = "absent"
               PROVE  scanStatus' = "ANALYZING"
    BY DEF InAnalysis
  <2>1. j = "build"
    <3>1. SUFFICES ASSUME j # "build" PROVE FALSE OBVIOUS
    <3>2. pc["build"] = "completed"
      <4>1. pc'["build"] = "waiting" \/ pc'["build"] = pc["build"] BY <1>2, <3>1
      <4> QED BY <4>1
    <3>3. ~(Rank[j] < Rank["build"]) BY <1>0, <3>2, StageAlone
    <3>4. Rank[j] >= 4 BY <1>0, <3>1, <3>3
    <3>5. pc["normalize"] # "absent" BY <1>0, <3>4, StageAlone
    <3> QED BY <1>2, <3>5
  <2> QED BY <1>0, <1>5, <2>1 DEF MayLeave, Under
<1>8. Published'
  <2>1. ASSUME pc'["pdf"] = "completed" PROVE scanStatus' \in Finished
    <3>1. CASE j = "pdf" BY <1>0, <1>5, <3>1 DEF MayLeave
    <3>2. CASE j # "pdf"
      <4>1. pc["pdf"] = "completed" BY <1>2, <2>1, <3>2
      <4>2. ~(Rank[j] < Rank["pdf"]) BY <1>0, <4>1, StageAlone
      <4>3. j = "notify" BY <1>0, <3>2, <4>2
      <4> QED BY <1>0, <4>3 DEF Successor
    <3> QED BY <3>1, <3>2
  <2> QED BY <1>3, <2>1 DEF Published
<1> QED BY <1>4, <1>6, <1>7, <1>8

(* An analyzer that goes on, gives up or records changes no status; while  *)
(* the stage is open, CANCELED is the work of one that was aborted.        *)
LEMMA AnalyzerTells ==
  ASSUME IInv, Orderly, Telling, NEW j \in Analyzers, NEW p \in Positions \ {"absent"},
         pc[j] \notin {"absent", "completed", "failed"},
         pc' = [pc EXCEPT ![j] = p],
         pending' = IF p = "failed" THEN [pending EXCEPT ![j] = "CANCELED"] ELSE pending,
         UNCHANGED <<scanStatus, outbox, deadLetters>>,
         \/ completed' = completed /\ failed' = failed
         \/ ~AllIn
  PROVE  Telling'
<1> USE RungNames DEF Telling, IInv, TypeOK, QueueTypeOK
<1>0. /\ pc'[j] = p /\ \A k \in Jobs \ {j} : pc'[k] = pc[k] /\ pending'[k] = pending[k]
      /\ p = "failed" => pending'[j] = "CANCELED"
      /\ \A s \in Stages : pc'[s] = pc[s] /\ pending'[s] = pending[s]
  OBVIOUS
<1>1. Shown' BY <1>0 DEF Shown
<1>2. OnRung' BY <1>0 DEF OnRung, MayLeave
<1>3. InAnalysis'
  <2> SUFFICES ASSUME pc'["build"] = "completed", pc'["normalize"] = "absent"
               PROVE  \/ scanStatus' = "ANALYZING"
                      \/ scanStatus' = "FAILED" /\ AllIn' /\ completed' = {}
                      \/ scanStatus' = "CANCELED" /\ \E a \in Analyzers : pc'[a] = "failed"
    BY DEF InAnalysis
  <2>1. \/ scanStatus = "ANALYZING"
        \/ scanStatus = "FAILED" /\ AllIn /\ completed = {}
        \/ scanStatus = "CANCELED" /\ \E a \in Analyzers : pc[a] = "failed"
    BY <1>0 DEF InAnalysis
  <2>2. CASE scanStatus = "FAILED" /\ AllIn /\ completed = {} BY <2>2 DEF AllIn
  <2>3. CASE scanStatus = "CANCELED" /\ \E a \in Analyzers : pc[a] = "failed"
    <3>1. PICK a \in Analyzers : pc[a] = "failed" BY <2>3
    <3>2. pc'[a] = "failed" BY <1>0, <3>1
    <3> QED BY <2>3, <3>2
  <2> QED BY <2>1, <2>2, <2>3
<1>4. Published' BY <1>0 DEF Published
<1> QED BY <1>1, <1>2, <1>3, <1>4

(* An analyzer that was counted did not fail, so the last to be counted    *)
(* finds the scan ANALYZING, or FAILED by another one that found nothing.  *)
LEMMA EnqueueTells ==
  ASSUME Undisturbed, IInv, Orderly, Telling, NEW j \in Jobs, EnqueueNormalize(j)
  PROVE  /\ Telling'
         /\ scanStatus' = scanStatus \/ (scanStatus = "ANALYZING" /\ scanStatus' = "FAILED")
<1> USE RungNames DEF Telling, IInv, TypeOK, QueueTypeOK
<1>0. /\ j \in Analyzers /\ AllIn /\ pending' = pending
      /\ UNCHANGED <<outbox, deadLetters, completed, failed>>
      /\ pc[j] \in {"enqueue", "enqueueFailure"}
      /\ \/ /\ completed = {} /\ scanStatus' = "FAILED"
            /\ pc' = [pc EXCEPT ![j] = "completed"]
         \/ /\ completed # {} /\ scanStatus' = scanStatus
            /\ pc' = [Added({"normalize"}, pc) EXCEPT ![j] = "completed"]
  BY EnqueueingKeeps DEF EnqueueNormalize, apiVars, stageVars
<1>1. /\ \A a \in Analyzers : pc[a] # "failed" /\ pending[a] = "none"
      /\ pc["build"] = "completed"
  <2>1. \A a \in Analyzers : pc[a] # "failed" BY <1>0 DEF AllIn, Orderly, Barrier
  <2> QED BY <1>0, <2>1 DEF Orderly, Heard, InLine
<1>2. CASE completed = {} /\ scanStatus' = "FAILED" /\ pc' = [pc EXCEPT ![j] = "completed"]
  <2>1. pc["normalize"] = "absent" BY <1>2 DEF Orderly, Barrier
  <2>2. \A s \in Stages : pc[s] \in {"absent", "completed"}
    <3>1. \A s \in Stages : Rank[s] < Rank["build"] \/ s = "build" \/ s = "normalize"
                            \/ Rank["normalize"] < Rank[s]
      OBVIOUS
    <3> QED BY <1>1, <2>1, <3>1 DEF Orderly, InLine
  <2>3. \A s \in Stages : pc'[s] = pc[s] /\ pending[s] = "none"
    <3>1. \A s \in Stages : pc'[s] = pc[s] BY <1>0, <1>2
    <3>2. \A s \in Stages : pending[s] = "none" BY <2>2 DEF Orderly, Heard
    <3> QED BY <3>1, <3>2
  <2>4. pc["pdf"] = "absent" /\ pc["orchestrator"] # "absent" /\ pc["notify"] = "absent"
    <3>1. Rank["normalize"] < Rank["pdf"] /\ Rank["normalize"] < Rank["notify"]
          /\ Rank["orchestrator"] < Rank["build"]
      BY DEF Rank
    <3> QED BY <1>1, <2>1, <3>1 DEF Orderly, InLine
  <2>5. \A k \in Jobs : pc'[k] # "failed"
    <3>1. \A k \in Jobs : pc[k] # "failed"
      BY <1>1, <2>2 DEF Jobs, Orderly, Untouched
    <3> QED BY <1>2, <3>1
  <2>6. Shown' BY <2>5 DEF Shown
  <2>7. OnRung' BY <1>0, <1>2, <2>2, <2>3, <2>4 DEF OnRung, MayLeave
  <2>8. InAnalysis' BY <1>0, <1>2 DEF InAnalysis, AllIn
  <2>9. Published' BY <2>3, <2>4 DEF Published
  <2>10. scanStatus \in {"ANALYZING", "FAILED"} BY <1>1, <2>1 DEF InAnalysis
  <2> QED BY <1>2, <2>6, <2>7, <2>8, <2>9, <2>10
<1>3. CASE /\ completed # {} /\ scanStatus' = scanStatus
           /\ pc' = [Added({"normalize"}, pc) EXCEPT ![j] = "completed"]
  <2>1. /\ pc'[j] = "completed"
        /\ \A k \in Jobs \ {j} : pc'[k] = IF k = "normalize" /\ pc[k] = "absent"
                                          THEN "waiting" ELSE pc[k]
    BY <1>3 DEF Added
  <2>2. pc'["normalize"] # "absent" BY <1>0, <2>1
  <2>3. Shown' BY <1>0, <1>3, <2>1 DEF Shown
  <2>4. OnRung'
    <3>1. ASSUME pc["normalize"] = "absent" PROVE scanStatus = "ANALYZING"
      BY <1>1, <1>3, <3>1 DEF InAnalysis
    <3>2. pending["normalize"] = "none" \/ pc["normalize"] = "failed"
      BY DEF Orderly, Heard
    <3>3. Finds["normalize"] = "ANALYZING" /\ "normalize" \in DOMAIN Under BY DEF Finds
    <3>4. \A s \in Stages \ {"normalize"} : pc'[s] = pc[s] BY <1>0, <2>1
    <3>5. pc'["normalize"] = IF pc["normalize"] = "absent" THEN "waiting" ELSE pc["normalize"]
      BY <1>0, <2>1
    <3>6. ASSUME NEW s \in DOMAIN Under
          PROVE  /\ pc'[s] \in {"waiting", "begin"} => scanStatus' \in {Finds[s], Under[s]}
                 /\ pc'[s] \in {"work", "settle"} \/ pending'[s] # "none"
                      => scanStatus' = Under[s]
                 /\ pc'[s] = "add" => scanStatus' \in MayLeave(s)
      <4>1. CASE s = "normalize" /\ pc["normalize"] = "absent"
        BY <1>0, <1>3, <3>1, <3>2, <3>3, <3>5, <4>1
      <4>2. CASE ~(s = "normalize" /\ pc["normalize"] = "absent")
        <5>1. pc'[s] = pc[s] BY <3>4, <3>5, <3>6, <4>2
        <5> QED BY <1>0, <1>3, <3>6, <5>1 DEF OnRung
      <4> QED BY <4>1, <4>2
    <3> QED BY <1>0, <1>3, <3>4, <3>6 DEF OnRung, MayLeave
  <2>5. InAnalysis' BY <2>2 DEF InAnalysis
  <2>6. Published'
    <3>1. pc'["pdf"] = pc["pdf"] /\ pc'["notify"] = pc["notify"] BY <1>0, <2>1
    <3> QED BY <1>3, <3>1 DEF Published
  <2> QED BY <1>3, <2>3, <2>4, <2>5, <2>6
<1> QED BY <1>0, <1>2, <1>3

(* A listener's write: of the stage that is under way, or of an analyzer   *)
(* whose abort keeps the stage from being complete.                        *)
LEMMA ListenerTells ==
  ASSUME IInv, Orderly, Telling, NEW j \in Jobs, ListenerWrites(j)
  PROVE  /\ Orderly' /\ Telling'
         /\ \/ scanStatus' = scanStatus
            \/ /\ scanStatus \notin Terminal \cup {"NONE"}
               /\ scanStatus' \in {"FAILED", "CANCELED"}
            \/ j = "notify" /\ ~NotifierWorks
<1> USE RungNames DEF Telling, IInv, TypeOK, QueueTypeOK
<1>0. /\ pending[j] # "none" /\ pc[j] = "failed" /\ scanStatus' = pending[j]
      /\ pending[j] = IF j \in Analyzers THEN "CANCELED" ELSE "FAILED"
      /\ pending' = [pending EXCEPT ![j] = "none"]
      /\ deadLetters' = IF pending[j] = "FAILED" THEN deadLetters \cup {j} ELSE deadLetters
      /\ UNCHANGED <<outbox, cancelKey, canceller, pc, seen, completed, failed>>
  BY DEF ListenerWrites, Orderly, Heard, apiVars, stageVars
<1>1. pending'[j] = "none" /\ \A k \in Jobs \ {j} : pending'[k] = pending[k] BY <1>0
<1>2. Orderly'
  <2>1. Untouched' /\ InLine' BY <1>0 DEF Orderly, Untouched, InLine
  <2>2. Barrier' BY <1>0 DEF Orderly, Barrier, AllIn
  <2>3. Heard' BY <1>0, <1>1 DEF Orderly, Heard
  <2> QED BY <2>1, <2>2, <2>3 DEF Orderly
<1>3. j \in Stages \cup Analyzers
  BY <1>0 DEF Orderly, Untouched, Jobs
<1>4. CASE j \in Stages
  <2>1. /\ \A t \in Stages \ {j} : pc[t] \in {"absent", "completed"}
        /\ \A k \in Jobs \ {j} : pc[k] # "failed" /\ pending[k] = "none"
    <3>1. \A t \in Stages \ {j} : Rank[t] < Rank[j] \/ Rank[j] < Rank[t] BY <1>4
    <3> QED BY <1>0, <1>4, <3>1, StageAlone
  <2>2. scanStatus' = "FAILED" /\ j \in deadLetters' BY <1>0, <1>4
  <2>3. Shown' BY <1>0, <1>4, <2>1, <2>2 DEF Shown
  <2>4. pc["orchestrator"] # "absent"
    <3>1. j = "orchestrator" \/ Rank["orchestrator"] < Rank[j]
      <4>1. Rank["orchestrator"] = 1 BY DEF Rank
      <4> QED BY <1>4, <4>1
    <3>2. CASE j = "orchestrator" BY <1>0, <3>2
    <3>3. CASE Rank["orchestrator"] < Rank[j] BY <1>0, <1>4, <3>3 DEF Orderly, InLine
    <3> QED BY <3>1, <3>2, <3>3
  <2>5. \A s \in DOMAIN Under : pc'[s] \in {"absent", "completed", "failed"}
                                /\ pending'[s] = "none"
    BY <1>0, <1>1, <2>1
  <2>6. OnRung' BY <1>0, <2>2, <2>4, <2>5 DEF OnRung, MayLeave
  <2>7. InAnalysis'
    <3>1. CASE Rank[j] <= 3
      <4>1. j = "build" \/ Rank[j] < Rank["build"] BY <1>4, <3>1
      <4>2. pc["build"] # "completed"
        <5>1. CASE j = "build" BY <1>0, <5>1
        <5>2. CASE Rank[j] < Rank["build"] BY <1>0, <1>4, <5>2, StageAlone
        <5> QED BY <4>1, <5>1, <5>2
      <4> QED BY <1>0, <4>2 DEF InAnalysis
    <3>2. CASE ~(Rank[j] <= 3)
      <4>1. Rank[j] >= 4 BY <1>4, <3>2
      <4>2. pc["normalize"] # "absent" BY <1>0, <1>4, <4>1, StageAlone
      <4> QED BY <1>0, <4>2 DEF InAnalysis
    <3> QED BY <3>1, <3>2
  <2>8. Published'
    <3>1. pc["pdf"] = "completed" => pc["notify"] = "failed"
      <4> SUFFICES ASSUME pc["pdf"] = "completed" PROVE pc["notify"] = "failed" OBVIOUS
      <4>1. j # "pdf" /\ ~(Rank[j] < Rank["pdf"]) BY <1>0, <1>4, StageAlone
      <4>2. j = "notify" BY <1>4, <4>1
      <4> QED BY <1>0, <4>2
    <3> QED BY <1>0, <3>1 DEF Published
  <2>9. \/ scanStatus \notin Terminal \cup {"NONE"}
        \/ j = "notify" /\ ~NotifierWorks
    <3>1. CASE j = "notify" BY <1>0, <3>1 DEF Published
    <3>2. CASE j # "notify"
      <4>1. scanStatus = Under[j] BY <1>0, <1>4, <3>2 DEF OnRung
      <4>2. Under[j] \notin Terminal \cup {"NONE"}
        BY <1>4, <3>2 DEF Under, Stages, Terminal, Finished
      <4> QED BY <4>1, <4>2
    <3> QED BY <3>1, <3>2
  <2> QED BY <1>2, <2>2, <2>3, <2>6, <2>7, <2>8, <2>9
<1>5. CASE j \in Analyzers
  <2>1. /\ pc["build"] = "completed" /\ pc["normalize"] = "absent" /\ ~AllIn
    <3>1. j \notin completed \cup failed BY <1>0 DEF Orderly, Barrier
    <3>2. ~AllIn BY <1>5, <3>1 DEF AllIn
    <3> QED BY <1>0, <1>5, <3>2 DEF Orderly, InLine, Barrier
  <2>2. \A s \in Stages : pc[s] \in {"absent", "completed"}
    <3>1. \A s \in Stages : Rank[s] < Rank["build"] \/ s = "build" \/ s = "normalize"
                            \/ Rank["normalize"] < Rank[s]
      OBVIOUS
    <3> QED BY <2>1, <3>1 DEF Orderly, InLine
  <2>3. scanStatus' = "CANCELED" BY <1>0, <1>5
  <2>4. Shown'
    <3> SUFFICES ASSUME NEW k \in Jobs, pc'[k] = "failed" PROVE k \in Analyzers
      BY <2>3 DEF Shown
    <3>1. pc[k] = "failed" /\ k \notin Stages /\ k \notin ApiJobs
      BY <1>0, <2>2 DEF Orderly, Untouched
    <3> QED BY <3>1 DEF Jobs
  <2>5. /\ pc["orchestrator"] # "absent" /\ pc["pdf"] = "absent" /\ pc["notify"] = "absent"
    <3>1. Rank["normalize"] < Rank["pdf"] /\ Rank["normalize"] < Rank["notify"]
          /\ Rank["orchestrator"] < Rank["build"]
      BY DEF Rank
    <3> QED BY <2>1, <3>1 DEF Orderly, InLine
  <2>6. \A s \in DOMAIN Under : pc'[s] \in {"absent", "completed"} /\ pending'[s] = "none"
    <3>1. \A s \in Stages : pending[s] = "none" BY <2>2 DEF Orderly, Heard
    <3> QED BY <1>0, <1>1, <2>2, <3>1
  <2>7. OnRung' BY <1>0, <2>3, <2>5, <2>6 DEF OnRung, MayLeave
  <2>8. InAnalysis' BY <1>0, <1>5, <2>3 DEF InAnalysis
  <2>9. Published' BY <1>0, <2>5 DEF Published
  <2>10. scanStatus = "ANALYZING" \/ scanStatus = "CANCELED" BY <2>1 DEF InAnalysis
  <2>11. scanStatus' = scanStatus \/ scanStatus \notin Terminal \cup {"NONE"}
    BY <2>3, <2>10 DEF Terminal, Finished
  <2> QED BY <1>2, <2>3, <2>4, <2>7, <2>8, <2>9, <2>11
<1> QED BY <1>3, <1>4, <1>5

LEMMA ApiTells ==
  ASSUME Undisturbed, IInv, Orderly, Telling, ApiStep
  PROVE  /\ Orderly' /\ Telling'
         /\ scanStatus' = scanStatus \/ (scanStatus = "NONE" /\ scanStatus' = "QUEUED")
<1> USE RungNames DEF Telling, IInv, TypeOK, QueueTypeOK
<1>0. CreateScan \/ RelayEnqueue
  BY DEF ApiStep, Undisturbed, CancelRead, CancelSetKey, CancelWrite, CancelLost, Orderly,
     Untouched
<1>1. /\ outbox # "PROCESSED" /\ pc["orchestrator"] = "absent"
      /\ \A k \in Jobs : pc[k] = "absent"
      /\ UNCHANGED <<cancelKey, canceller, pending, deadLetters, seen, completed, failed>>
  <2>1. outbox # "PROCESSED" BY <1>0 DEF CreateScan, RelayEnqueue, OnRung
  <2>2. pc["orchestrator"] = "absent" BY <2>1 DEF OnRung
  <2>3. \A s \in Stages : pc[s] = "absent"
    <3>1. \A s \in Stages : s = "orchestrator" \/ Rank["orchestrator"] < Rank[s]
      BY DEF Rank, Stages
    <3> QED BY <2>2, <3>1 DEF Orderly, InLine
  <2>4. \A a \in Analyzers : pc[a] = "absent" BY <2>3 DEF Orderly, InLine
  <2>5. \A k \in Jobs : pc[k] = "absent" BY <2>3, <2>4 DEF Jobs, Orderly, Untouched
  <2> QED BY <1>0, <2>1, <2>2, <2>5 DEF CreateScan, RelayEnqueue, queueVars, stageVars
<1>2. \A k \in Jobs : pending[k] = "none" BY <1>1 DEF Orderly, Heard
<1>3. \A k \in Jobs : k # "orchestrator" => pc'[k] = "absent"
  BY <1>0, <1>1 DEF CreateScan, RelayEnqueue, Added, queueVars
<1>4. pc'["orchestrator"] \in {"absent", "waiting"}
  BY <1>0, <1>1 DEF CreateScan, RelayEnqueue, Added, queueVars
<1>5. Orderly'
  <2>1. Untouched' BY <1>1, <1>3, JobNamesAssumption DEF Orderly, Untouched, Jobs
  <2>2. InLine'
    <3>1. \A k \in Stages : ~(Rank[k] < Rank["orchestrator"]) BY DEF Rank, Stages
    <3> QED BY <1>3, <3>1 DEF InLine
  <2>3. Barrier'
    <3>1. completed \cup failed = {}
      <4>1. \A a \in completed \cup failed : a \in Jobs BY DEF StageTypeOK
      <4> QED BY <1>1, <4>1 DEF Orderly, Barrier
    <3>2. \A a \in Analyzers : pc'[a] = "absent" BY <1>3
    <3>3. pc'["normalize"] = "absent" BY <1>3
    <3> QED BY <1>1, <3>1, <3>2, <3>3 DEF Barrier
  <2>4. Heard' BY <1>1, <1>2 DEF Heard
  <2> QED BY <2>1, <2>2, <2>3, <2>4 DEF Orderly
<1>6. \A k \in Jobs : pc'[k] \in {"absent", "waiting"} BY <1>3, <1>4
<1>7. Shown' /\ Published' BY <1>6 DEF Shown, Published
<1>8. InAnalysis' BY <1>6 DEF InAnalysis
<1>9. OnRung' /\ (scanStatus' = scanStatus \/ (scanStatus = "NONE" /\ scanStatus' = "QUEUED"))
  <2>0. /\ \A s \in DOMAIN Under \ {"orchestrator"} : pc'[s] = "absent"
        /\ \A s \in DOMAIN Under : pending'[s] = "none"
        /\ Finds["orchestrator"] = "QUEUED"
    BY <1>1, <1>2, <1>3 DEF Finds
  <2>1. CASE CreateScan
    <3>1. pc'["orchestrator"] = "absent" /\ scanStatus' = "QUEUED" /\ outbox' = "PENDING"
          /\ scanStatus = "NONE"
      BY <1>1, <2>1 DEF CreateScan, queueVars
    <3> QED BY <2>0, <3>1 DEF OnRung, MayLeave
  <2>2. CASE RelayEnqueue
    <3>1. pc'["orchestrator"] = "waiting" /\ scanStatus' = scanStatus /\ outbox' = "PROCESSED"
          /\ scanStatus = "QUEUED"
      BY <1>1, <2>2 DEF RelayEnqueue, Added, OnRung
    <3> QED BY <2>0, <3>1 DEF OnRung, MayLeave
  <2> QED BY <1>0, <2>1, <2>2
<1> QED BY <1>5, <1>7, <1>8, <1>9

-------------------------------------------------------------------------------
(* EVERY STEP.                                                             *)

(* The rungs that the processors climb.                                    *)
LEMMA InsideClimbs ==
  ASSUME IInv, Orderly, Telling, NEW j \in Jobs, Inside(j)
  PROVE  scanStatus' = scanStatus \/ Lifecycle!Next
<1> USE DEF Telling, Orderly
<1>0. Kind(j) = j BY MovingJobs DEF Inside, Begin, Orchestrate, Compute, WriteReport,
        RenderPdf, Consume, WorkFails, Settle
<1>1. CASE Begin(j)
  <2>1. /\ j \in DOMAIN StartStatus /\ pc[j] = "begin" /\ scanStatus' = StartStatus[j]
    BY <1>0, <1>1 DEF Begin, IInv, PositionsFit, Fits
  <2>2. j \in DOMAIN Under /\ StartStatus[j] = Under[j] BY <2>1 DEF StartStatus, Under
  <2>3. scanStatus \in {Finds[j], Under[j]} BY <2>1, <2>2 DEF OnRung
  <2>4. \/ Finds[j] = Under[j]
        \/ Finds[j] \in DOMAIN Lifecycle!Ladder /\ Under[j] = Lifecycle!Ladder[Finds[j]]
    BY <2>1 DEF StartStatus, Finds, Under, Lifecycle!Ladder
  <2> QED BY <2>1, <2>2, <2>3, <2>4 DEF Lifecycle!Next, Lifecycle!Climb
<1>2. CASE WriteReport(j)
  <2>1. j = "report" /\ pc[j] = "work" /\ scanStatus' = "REPORTING"
    BY <1>0, <1>2 DEF WriteReport
  <2>2. scanStatus = "REPORTING" BY <2>1 DEF OnRung, Under
  <2> QED BY <2>1, <2>2
<1>3. CASE Settle(j)
  <2>1. /\ pc[j] = "settle"
        /\ \/ j = "prepare" /\ scanStatus' = "ANALYZING"
           \/ j = "pdf" /\ scanStatus' \in Lifecycle!Finished
    BY <1>0, <1>3 DEF Settle, Lifecycle!Finished
  <2>2. j = "prepare" => scanStatus = "PREPARING" BY <2>1 DEF OnRung, Under
  <2>3. j = "pdf" => scanStatus = "REPORTING" BY <2>1 DEF OnRung, Under
  <2> QED BY <2>1, <2>2, <2>3
          DEF Lifecycle!Next, Lifecycle!Climb, Lifecycle!Finish, Lifecycle!Ladder
<1>4. CASE Orchestrate(j) \/ Compute(j) \/ RenderPdf(j) \/ Consume(j) \/ WorkFails(j)
  BY <1>4 DEF Orchestrate, Compute, RenderPdf, Consume, WorkFails
<1> QED BY <1>1, <1>2, <1>3, <1>4 DEF Inside

LEMMA InsideKeeps ==
  ASSUME Undisturbed, IInv, Orderly, Telling, NEW j \in Jobs, Inside(j)
  PROVE  Orderly' /\ Telling'
<1> USE DEF IInv, TypeOK, QueueTypeOK
<1>1. PICK p \in Positions : StageGoes(j, p) BY InsideGoes
<1>2. UNCHANGED <<outbox, cancelKey, canceller, deadLetters>> BY InsideGoes
<1>3. Telling' BY <1>1, <1>2, StageTells
<1>4. Orderly'
  <2>1. CASE Orchestrate(j) BY <2>1, OrchestratingKeeps
  <2>2. CASE ~Orchestrate(j)
    <3>1. completed' = completed /\ failed' = failed
      BY <2>2 DEF Inside, Begin, Compute, WriteReport, RenderPdf, Consume, WorkFails,
         Settle, stageVars
    <3>2. /\ p \in Positions \ {"absent", "enqueue", "enqueueFailure"} /\ Goes(j, p)
          /\ pc[j] \notin {"absent", "completed", "failed"} /\ j \in Stages
      BY <1>1 DEF StageGoes
    <3>3. j \notin completed \cup failed
      BY <3>2, JobNamesAssumption DEF StageTypeOK
    <3> QED BY <1>2, <3>1, <3>2, <3>3, GoingKeeps
  <2> QED BY <2>1, <2>2
<1> QED BY <1>3, <1>4

LEMMA StartOrderly ==
  ASSUME Undisturbed, IInv, Orderly, Telling, NEW j \in Jobs, Start(j)
  PROVE  Orderly' /\ Telling'
<1> USE DEF IInv, TypeOK, QueueTypeOK, StageTypeOK
<1>0. /\ pc[j] = "waiting"
      /\ UNCHANGED <<scanStatus, outbox, cancelKey, canceller, deadLetters, completed, failed>>
  BY StartGoes
<1>1. PICK p \in {"begin", "work"} : /\ Goes(j, p) /\ (j \in Stages => StageGoes(j, p))
                                     /\ (j \in Analyzers => p = "work")
  BY StartGoes
<1>2. p \in Positions \ {"absent", "enqueue", "enqueueFailure"}
  BY <1>1 DEF Positions, Active
<1>3. j \notin completed \cup failed BY <1>0 DEF Orderly, Barrier
<1>4. Orderly' BY <1>0, <1>1, <1>2, <1>3, GoingKeeps
<1>5. j \in Stages \cup Analyzers BY <1>0, MovingJobs DEF Orderly
<1>6. CASE j \in Stages
  <2>1. StageGoes(j, p) /\ p \in Positions BY <1>1, <1>2, <1>6
  <2>2. deadLetters' = deadLetters /\ outbox' = outbox BY <1>0
  <2>3. Telling' BY <2>1, <2>2, StageTells
  <2> QED BY <1>4, <2>3
<1>7. CASE j \in Analyzers
  <2>1. /\ pc' = [pc EXCEPT ![j] = p] /\ p # "failed" /\ pending' = pending
    BY <1>1 DEF Goes
  <2>2. Telling' BY <1>0, <1>2, <1>7, <2>1, AnalyzerTells
  <2> QED BY <1>4, <2>2
<1> QED BY <1>4, <1>5, <1>6, <1>7

LEMMA AnalyzerOrderly ==
  ASSUME Undisturbed, IInv, Orderly, Telling, NEW j \in Jobs, AnalyzerStep(j)
  PROVE  /\ Orderly' /\ Telling'
         /\ scanStatus' = scanStatus \/ (scanStatus = "ANALYZING" /\ scanStatus' = "FAILED")
<1> USE DEF IInv, TypeOK, QueueTypeOK, StageTypeOK
<1>1. CASE ExecSucceeds(j) \/ ExecFails(j) \/ ExecAborted(j)
  <2>1. /\ j \in Analyzers /\ pc[j] = "work"
        /\ UNCHANGED <<scanStatus, outbox, cancelKey, canceller, deadLetters,
                       completed, failed>>
    BY <1>1, ExecGoes
  <2>2. PICK p \in {"waiting", "record", "recordFailure", "failed"} : Goes(j, p)
    BY <1>1, ExecGoes
  <2>3. p \in Positions \ {"absent", "enqueue", "enqueueFailure"}
    BY <2>2 DEF Positions, Active
  <2>4. j \notin completed \cup failed BY <2>1 DEF Orderly, Barrier
  <2>5. Orderly' BY <2>1, <2>2, <2>3, <2>4, GoingKeeps
  <2>6. /\ pc' = [pc EXCEPT ![j] = p]
        /\ pending' = IF p = "failed" THEN [pending EXCEPT ![j] = "CANCELED"] ELSE pending
    BY <2>1, <2>2 DEF Goes
  <2>7. Telling' BY <2>1, <2>3, <2>6, AnalyzerTells
  <2> QED BY <2>1, <2>5, <2>7
<1>2. CASE RecordCompletion(j) \/ RecordFailure(j)
  <2>1. /\ Orderly' /\ j \in Analyzers \ (completed \cup failed)
        /\ pc' = [pc EXCEPT ![j] = pc'[j]] /\ pc'[j] \in {"count", "countFailure"}
    BY <1>2, RecordingKeeps
  <2>2. /\ UNCHANGED <<scanStatus, outbox, deadLetters, pending>>
        /\ pc[j] \notin {"absent", "completed", "failed"}
    BY <1>2 DEF RecordCompletion, RecordFailure, apiVars
  <2>3. ~AllIn BY <2>1 DEF AllIn
  <2>4. pc'[j] \in Positions \ {"absent"} /\ pc'[j] # "failed"
    BY <2>1 DEF Positions, Active
  <2>5. Telling' BY <2>1, <2>2, <2>3, <2>4, AnalyzerTells
  <2> QED BY <2>1, <2>2, <2>5
<1>3. CASE CountStage(j)
  <2>1. Orderly' /\ j \in Analyzers /\ pending' = pending BY <1>3, CountingKeeps
  <2>2. PICK p \in {"enqueue", "enqueueFailure", "completed"} : pc' = [pc EXCEPT ![j] = p]
    BY <1>3, CountingKeeps
  <2>3. /\ UNCHANGED <<scanStatus, outbox, deadLetters, completed, failed>>
        /\ pc[j] \notin {"absent", "completed", "failed"}
    BY <1>3 DEF CountStage, apiVars, stageVars
  <2>4. p \in Positions \ {"absent"} /\ p # "failed" BY <2>2 DEF Positions, Active
  <2>5. Telling' BY <2>1, <2>2, <2>3, <2>4, AnalyzerTells
  <2> QED BY <2>1, <2>3, <2>5
<1>4. CASE EnqueueNormalize(j) BY <1>4, EnqueueingKeeps, EnqueueTells
<1> QED BY <1>1, <1>2, <1>3, <1>4 DEF AnalyzerStep

LEMMA NothingDisturbs ==
  ASSUME Undisturbed, IInv, Orderly
  PROVE  /\ \A j \in ApiJobs : ~ApiAddsJob(j)
         /\ \A j \in Jobs : ~Fault(j)
<1>1. ~(faults < MaxFaults) BY DEF Undisturbed, IInv, TypeOK, QueueTypeOK
<1>2. \A j \in Jobs : ~Fault(j) BY <1>1 DEF Fault, InfraFault, Crash, Stalls, ListenerLost
<1>3. {k \in ApiJobs : pc[k] # "absent"} = {} BY DEF Orderly, Untouched
<1>4. ~(Cardinality({k \in ApiJobs : pc[k] # "absent"}) < MaxApiJobs)
  BY <1>3, FS_EmptySet DEF Undisturbed
<1> QED BY <1>2, <1>4 DEF ApiAddsJob

LEMMA UndisturbedStep ==
  ASSUME Undisturbed, IInv, Orderly, Telling, [Next]_vars
  PROVE  /\ Orderly' /\ Telling'
         /\ NotifierWorks => scanStatus' = scanStatus \/ Lifecycle!Next
<1> DEFINE Goal == /\ Orderly' /\ Telling'
                   /\ NotifierWorks => scanStatus' = scanStatus \/ Lifecycle!Next
<1>1. CASE ApiStep
  <2>1. (scanStatus = "NONE" /\ scanStatus' = "QUEUED") => Lifecycle!Next
    BY DEF Lifecycle!Next, Lifecycle!Climb, Lifecycle!Ladder
  <2> QED BY <1>1, <2>1, ApiTells
<1>2. ASSUME NEW j \in Jobs, StageStep(j) PROVE Goal
  <2>1. CASE Inside(j) BY <2>1, InsideKeeps, InsideClimbs
  <2>2. CASE AddNext(j)
    <3>1. scanStatus' = scanStatus BY <2>2 DEF AddNext
    <3> QED BY <2>2, <3>1, AddNextIsOrderly, AddNextTells
  <2> QED BY <1>2, <2>1, <2>2 DEF StageStep, Inside
<1>3. ASSUME NEW j \in Jobs, AnalyzerStep(j) PROVE Goal
  <2>1. (scanStatus = "ANALYZING" /\ scanStatus' = "FAILED") => Lifecycle!Next
    BY DEF Lifecycle!Next, Lifecycle!Abort, Lifecycle!Terminal, Lifecycle!Finished
  <2> QED BY <1>3, <2>1, AnalyzerOrderly
<1>4. ASSUME NEW j \in Jobs, Start(j) PROVE Goal
  <2>1. scanStatus' = scanStatus BY <1>4 DEF Start
  <2> QED BY <1>4, <2>1, StartOrderly
<1>5. ASSUME NEW j \in Jobs, ListenerWrites(j) PROVE Goal
  <2>1. (scanStatus \notin Terminal \cup {"NONE"} /\ scanStatus' \in {"FAILED", "CANCELED"})
          => Lifecycle!Next
    BY DEF Lifecycle!Next, Lifecycle!Abort, Lifecycle!Terminal, Lifecycle!Finished, Terminal,
       Finished
  <2> QED BY <1>5, <2>1, ListenerTells
<1>6. CASE UNCHANGED vars
  <2> USE <1>6 DEF vars, apiVars, queueVars, stageVars, reportVars
  <2>1. Untouched' /\ InLine' BY DEF Orderly, Untouched, InLine
  <2>2. Barrier' /\ Heard' BY DEF Orderly, Barrier, AllIn, Heard
  <2>3. Shown' /\ InAnalysis' /\ Published'
    BY DEF Telling, Shown, InAnalysis, AllIn, Published
  <2>4. OnRung' BY DEF Telling, OnRung, MayLeave
  <2>5. scanStatus' = scanStatus OBVIOUS
  <2> QED BY <2>1, <2>2, <2>3, <2>4, <2>5 DEF Orderly, Telling
<1> QED BY <1>1, <1>2, <1>3, <1>4, <1>5, <1>6, NothingDisturbs DEF Next, JobStep

LEMMA InitOrderly == Init => Orderly /\ Telling
<1> SUFFICES ASSUME Init PROVE Orderly /\ Telling OBVIOUS
<1> USE RungNames DEF Init
<1>1. ApiJobs \subseteq Jobs BY DEF Jobs
<1>2. Untouched /\ InLine /\ Barrier /\ Heard
  BY <1>1 DEF Untouched, InLine, Barrier, Heard
<1>3. Shown /\ InAnalysis /\ Published BY DEF Shown, InAnalysis, Published
<1>4. OnRung BY DEF OnRung
<1> QED BY <1>2, <1>3, <1>4 DEF Orderly, Telling

LEMMA OrderlyHolds == Spec => [](Undisturbed => Orderly /\ Telling)
<1>1. Init => (Undisturbed => Orderly /\ Telling) BY InitOrderly
<1>2. IInv /\ (Undisturbed => Orderly /\ Telling) /\ [Next]_vars
        => (Undisturbed => Orderly /\ Telling)'
  BY UndisturbedStep DEF Undisturbed
<1> QED BY <1>1, <1>2, Invariant, PTL DEF Spec

(* When no worker crashes, no infrastructure fails and no user interferes, *)
(* a job that failed for good shows in the scan's status, and a failed     *)
(* scan's job is in a dead-letter queue, whatever the analyzers and the    *)
(* stages do and however often they are retried.                           *)
THEOREM NoFailureIsSilent == Spec => [](Undisturbed => NoSilentFailure)
<1>1. (Undisturbed => Orderly /\ Telling) => (Undisturbed => NoSilentFailure)
  BY DEF Telling, Shown, NoSilentFailure
<1> QED BY <1>1, OrderlyHolds, PTL

(* Under the same conditions, and with notifications that are accepted, a  *)
(* finished scan stays finished once its PDF job is done.                  *)
THEOREM FinishedStaysFinished ==
  Spec => [](Undisturbed /\ NotifierWorks => PublishedStaysFinished)
<1>1. (Undisturbed => Orderly /\ Telling)
        => (Undisturbed /\ NotifierWorks => PublishedStaysFinished)
  BY DEF Telling, Published, PublishedStaysFinished
<1> QED BY <1>1, OrderlyHolds, PTL

(* The safety of RefinesLifecycle under those conditions: the status       *)
(* starts where a ScanLifecycle does, and each of its changes is a step of *)
(* one, a rung up, a finish or an abort.                                   *)
THEOREM ClimbsTheLadder ==
  Spec => /\ Lifecycle!Init
          /\ [][Undisturbed /\ NotifierWorks => Lifecycle!Next]_scanStatus
<1>1. Init => Lifecycle!Init BY DEF Init, Lifecycle!Init
<1>2. IInv /\ (Undisturbed => Orderly /\ Telling) /\ [Next]_vars
        => [Undisturbed /\ NotifierWorks => Lifecycle!Next]_scanStatus
  BY UndisturbedStep
<1> QED BY <1>1, <1>2, Invariant, OrderlyHolds, PTL DEF Spec
=============================================================================
