-------------------------- MODULE SourceIngestion ---------------------------
(* Source on its way to a scan (source-ingestion.service.ts and the creation *)
(* of scans): uploads, repository scans and scans of a stored artifact, each *)
(* a request of many steps that pays for what it makes and may end anywhere. *)
EXTENDS UsageQuota

CONSTANT MayAsk   \* [Requests -> what each may ask for]

ASSUME IngestionAssumption ==
  MayAsk \in [Requests -> SUBSET {"upload", "repository", "scan", "other"}]

VARIABLES
  req,        \* [Requests -> what the request asks for and where it is]
  run,        \* [Requests -> status of its SourceIngestionRun]
  artifact,   \* [Requests -> status of its SourceArtifact]
  files,      \* [Requests -> "none", "some" or "all" of its files are stored]
  snapshot,   \* [Requests -> it has a RepositorySourceSnapshot]
  repoScan,   \* [Requests -> status of its RepositoryScan]
  linked,     \* [Requests -> the RepositoryScan names its scan]
  scan        \* [Requests -> {} or {the request whose artifact it scans}]

rowVars == <<run, artifact, files, snapshot, repoScan, linked, scan>>
sourceVars == <<req, run, artifact, files, snapshot, repoScan, linked, scan>>

Idle == [kind |-> "none", at |-> "idle"]

SourceInit ==
  /\ req = [r \in Requests |-> Idle]
  /\ run = [r \in Requests |-> "NONE"] /\ artifact = [r \in Requests |-> "NONE"]
  /\ files = [r \in Requests |-> "none"] /\ snapshot = [r \in Requests |-> FALSE]
  /\ repoScan = [r \in Requests |-> "NONE"] /\ linked = [r \in Requests |-> FALSE]
  /\ scan = [r \in Requests |-> {}]

At(r, at) == req[r].at = at
createRun(r) == run' = [run EXCEPT ![r] = "INGESTING"]
createArtifact(r) == artifact' = [artifact EXCEPT ![r] = "INGESTING"]
createRepositorySnapshot(r) == snapshot' = [snapshot EXCEPT ![r] = TRUE]
setRepositoryScan(r, status) == repoScan' = [repoScan EXCEPT ![r] = status]
Goto(r, at) == req' = [req EXCEPT ![r].at = at]
(* A request arrives: an upload pays first, a repository scan has its row   *)
(* first, a scan finds its artifact STORED (normalizeSourceArtifactInput).  *)
(* Everything else that is paid for (validations, exports, simulations) is   *)
(* one kind, of which only the charge is modelled and which may come again. *)
Arrive(r, kind) ==
  /\ At(r, "idle") /\ kind \in MayAsk[r]
  /\ \/ kind = "upload" /\ req' = [req EXCEPT ![r] = [kind |-> kind, at |-> "payArtifact"]]
        /\ UNCHANGED repoScan
     \/ kind = "repository" /\ req' = [req EXCEPT ![r] = [kind |-> kind, at |-> "run"]]
        /\ setRepositoryScan(r, "QUEUED")
     \/ kind = "scan" /\ UNCHANGED repoScan
        /\ \E q \in Requests : artifact[q] = "STORED"
             /\ req' = [req EXCEPT ![r] = [kind |-> kind, at |-> "payScan", of |-> q]]
     \/ kind = "other" /\ req' = [req EXCEPT ![r] = [kind |-> kind, at |-> "payOther"]]
        /\ UNCHANGED repoScan
  /\ UNCHANGED <<run, artifact, files, snapshot, linked, scan, quotaVars>>

CreateRun(r) ==
  /\ At(r, "run")
  /\ createRun(r)
  /\ Goto(r, IF req[r].kind = "upload" THEN "artifact" ELSE "token")
  /\ UNCHANGED <<artifact, files, snapshot, repoScan, linked, scan, quotaVars>>

(* createInstallationAccessToken, if the app is configured at all.          *)
Token(r) ==
  /\ At(r, "token")
  /\ \/ Goto(r, "payArtifact") /\ UNCHANGED run
     \/ run' = [run EXCEPT ![r] = "FAILED"] /\ Goto(r, "report")
  /\ UNCHANGED <<artifact, files, snapshot, repoScan, linked, scan, quotaVars>>

Paying == {"payArtifact", "payScan", "payOther"}
Metric(r) == CASE At(r, "payArtifact") -> "SOURCE_ARTIFACTS"
               [] At(r, "payScan") -> "SCANS" [] OTHER -> "OTHER"

Pay(r) ==
  /\ \/ req[r].at \in Paying /\ BeginCharge(r, Metric(r))
     \/ ChargeStep(r)
  /\ UNCHANGED sourceVars

Paid(r) ==
  /\ charge[r].at = "metered"
  /\ charge' = [charge EXCEPT ![r] = NoCharge]
  /\ IF req[r].kind = "other" THEN req' = [req EXCEPT ![r] = Idle]
     ELSE Goto(r, CASE At(r, "payScan") -> "admission"
                    [] req[r].kind = "upload" -> "run" [] OTHER -> "artifact")
  /\ UNCHANGED <<rowVars, month, override, counter, meter, unlimited, unmetered>>

(* What assertAndConsume throws: caught around the creation of a repository *)
(* scan's scan, and nowhere around the payment for its artifact.            *)
NotPaid(r) ==
  /\ charge[r].at \in {"denied", "failed"}
  /\ charge' = [charge EXCEPT ![r] = NoCharge]
  /\ Goto(r, IF At(r, "payScan") /\ req[r].kind = "repository" THEN "report" ELSE "refused")
  /\ UNCHANGED <<rowVars, month, override, counter, meter, unlimited, unmetered>>

CreateArtifact(r) ==
  /\ At(r, "artifact")
  /\ createArtifact(r)
  /\ Goto(r, IF req[r].kind = "upload" THEN "evaluated" ELSE "fetch")
  /\ UNCHANGED <<run, files, snapshot, repoScan, linked, scan, quotaVars>>

(* fetchGitHubSourceFiles: the ref, the tree, every blob, or an error. *)
Fetch(r) ==
  /\ At(r, "fetch") /\ (Goto(r, "evaluated") \/ Goto(r, "fail"))
  /\ UNCHANGED <<rowVars, quotaVars>>

(* persistEvaluation with no file left by the policy. *)
Reject(r) ==
  /\ At(r, "evaluated")
  /\ run' = [run EXCEPT ![r] = "REJECTED"] /\ artifact' = [artifact EXCEPT ![r] = "REJECTED"]
  /\ Goto(r, IF req[r].kind = "upload" THEN "done" ELSE "snapshot")
  /\ UNCHANGED <<files, snapshot, repoScan, linked, scan, quotaVars>>

(* writeSourceDirectory: file by file, the manifest last. *)
Store(r) ==
  /\ At(r, "evaluated")
  /\ files' = [files EXCEPT ![r] = "some"] /\ Goto(r, "store")
  /\ UNCHANGED <<run, artifact, snapshot, repoScan, linked, scan, quotaVars>>

StoreRest(r) ==
  /\ At(r, "store")
  /\ files' = [files EXCEPT ![r] = "all"] /\ Goto(r, "complete")
  /\ UNCHANGED <<run, artifact, snapshot, repoScan, linked, scan, quotaVars>>

(* completeArtifact: one transaction. *)
Complete(r) ==
  /\ At(r, "complete")
  /\ run' = [run EXCEPT ![r] = "STORED"] /\ artifact' = [artifact EXCEPT ![r] = "STORED"]
  /\ Goto(r, IF req[r].kind = "upload" THEN "done" ELSE "snapshot")
  /\ UNCHANGED <<files, snapshot, repoScan, linked, scan, quotaVars>>

(* createRepositorySnapshot, also of a rejected artifact; scanRepository    *)
(* then goes on only with one that is STORED.                               *)
Snapshot(r) ==
  /\ At(r, "snapshot")
  /\ createRepositorySnapshot(r)
  /\ req' = [req EXCEPT ![r] = IF artifact[r] = "STORED"
                               THEN [kind |-> "repository", at |-> "payScan", of |-> r]
                               ELSE [@ EXCEPT !.at = "report"]]
  /\ UNCHANGED <<run, artifact, files, repoScan, linked, scan, quotaVars>>

(* failArtifact: the catch of ingestRepository. *)
FailArtifact(r) ==
  /\ At(r, "fail")
  /\ run' = [run EXCEPT ![r] = "FAILED"] /\ artifact' = [artifact EXCEPT ![r] = "FAILED"]
  /\ Goto(r, "report")
  /\ UNCHANGED <<files, snapshot, repoScan, linked, scan, quotaVars>>

(* updateRepositoryScan with a failed status.                               *)
Report(r) ==
  /\ At(r, "report")
  /\ setRepositoryScan(r, "FAILED") /\ Goto(r, "done")
  /\ UNCHANGED <<run, artifact, files, snapshot, linked, scan, quotaVars>>

(* assertAdmissionCapacity and the transaction that creates the scan.       *)
CreateScan(r) ==
  /\ At(r, "admission")
  /\ scan' = [scan EXCEPT ![r] = {req[r].of}]
  /\ Goto(r, IF req[r].kind = "repository" THEN "link" ELSE "done")
  /\ UNCHANGED <<run, artifact, files, snapshot, repoScan, linked, quotaVars>>

Saturated(r) ==
  /\ At(r, "admission")
  /\ Goto(r, IF req[r].kind = "repository" THEN "report" ELSE "refused")
  /\ UNCHANGED <<rowVars, quotaVars>>

LinkLater(r) ==  \* mutant: the repository scan is answered before it names its scan
  /\ At(r, "link") /\ Goto(r, "done")
  /\ UNCHANGED <<rowVars, quotaVars>>

Link(r) ==
  /\ At(r, "link")
  /\ linked' = [linked EXCEPT ![r] = TRUE] /\ Goto(r, "done")
  /\ UNCHANGED <<run, artifact, files, snapshot, repoScan, scan, quotaVars>>

(* A query or a write to the store fails. Inside ingestRepository's try it  *)
(* is caught, as is one between the scan's creation and its link; elsewhere *)
(* the request ends, as all do when the process ends.                       *)
Caught(r) ==
  IF req[r].kind # "repository" THEN "refused"
  ELSE IF req[r].at \in {"evaluated", "store", "complete", "snapshot"} THEN "fail"
  ELSE IF req[r].at \in {"admission", "link"} THEN "report" ELSE "refused"

StepFails(r) ==
  /\ req[r].at \notin {"idle", "done", "refused"} \cup Paying
  /\ failures < MaxFailures /\ failures' = failures + 1
  /\ Goto(r, Caught(r)) \/ Goto(r, "refused")
  /\ UNCHANGED <<rowVars, quotaVars>>

PaymentFails(r) ==
  /\ failures < MaxFailures /\ failures' = failures + 1
  /\ ChargeFails(r) /\ UNCHANGED sourceVars

SourceStep(r) ==
  \/ \E kind \in MayAsk[r] : Arrive(r, kind)
  \/ CreateRun(r) \/ Token(r) \/ Pay(r) \/ Paid(r) \/ NotPaid(r)
  \/ CreateArtifact(r) \/ Fetch(r) \/ Reject(r) \/ Store(r) \/ StoreRest(r) \/ Complete(r)
  \/ Snapshot(r) \/ FailArtifact(r) \/ Report(r) \/ CreateScan(r) \/ Saturated(r) \/ Link(r)

commerceVars == <<billingVars, quotaVars, sourceVars>>

CommerceInit == BillingInit /\ QuotaInit /\ SourceInit

CommerceNext ==
  \/ BillingNext /\ UNCHANGED <<quotaVars, sourceVars>>
  \/ \E r \in Requests : SourceStep(r) /\ UNCHANGED billingVars
  \/ \E r \in Requests : (StepFails(r) \/ PaymentFails(r))
       /\ UNCHANGED <<eventRow, handler, subStatus, subAge, payment, checkout, applied, deliveries>>
  \/ (Override \/ NextMonth) /\ UNCHANGED <<billingVars, sourceVars>>

CommerceSpec == CommerceInit /\ [][CommerceNext]_commerceVars

-----------------------------------------------------------------------------
(* Properties.                                                              *)

(* "Failure states are persisted as real states": a request that ran to its *)
(* end leaves no row under way, and its repository scan names the scan or   *)
(* says that there is none.                                                 *)
DoneIsSettled ==
  \A r \in Requests : At(r, "done") =>
    /\ run[r] # "INGESTING" /\ artifact[r] # "INGESTING"
    /\ repoScan[r] = "QUEUED" => linked[r] /\ scan[r] # {}

=============================================================================
