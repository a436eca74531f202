--------------------------- MODULE FindingEvidence ---------------------------
(* The rows behind the findings of one scan: the runs of its analyzers, the  *)
(* passes of its findings.normalize job, the analysis IR of its sources, and *)
(* the AI's validations of what was found.                                   *)
(*                                                                           *)
(* A pass is one execution of the job: a retry, or the execution a stalled   *)
(* job gets while the one before may still run. A transaction is a step of   *)
(* its own, or a snapshot and a commit where what it deletes was read before *)
(* others could commit. A step that throws, and a crash, is PassFails.       *)
EXTENDS FindingNormalization

CONSTANTS
  Analyzers,    \* of the scan's plan, {"slither", "mythril", ...}
  Outputs,      \* for every analyzer, the sequences of issues it may report
  MaxRuns,      \* bound: the runs of one analyzer, retries and redeliveries
  Passes,       \* 1 .. n: the executions of the normalize job
  Builds,       \* what the build and the preparation may have left
  Verdicts,     \* what a reviewer may make of a finding
  Mentions,     \* <<text, label>>: the text names the storage variable
  Validations   \* requests for an AI validation

IssueFields ==
  {"rule", "text", "matched", "severity", "confidence", "file", "contract", "line", "swcIds", "trace",
   "snippet", "given"}
Issues(output) == {issue \in ToSet(output) : issue = [field \in IssueFields |-> issue[field]]}

ASSUME FindingAssumption ==
  /\ MaxRuns \in Nat \ {0} /\ Passes \subseteq Nat
  /\ Analyzers \subseteq {"slither", "mythril", "semgrep", "aderyn", "foundry"}
  /\ \A a \in Analyzers : \A output \in Outputs[a] : output \in Seq(Issues(output))

VARIABLES
  runs,         \* AnalyzerRun rows, in the order of startedAt
  kept,         \* the stage's artifact of every completed analyzer: its run
  refused,      \* the stage's failed analyzers
  job,          \* the artifacts of the normalize job
  normalized,   \* vulnerabilities.json, the empty set before it is written
  pass,         \* the control of every pass
  rows,         \* Vulnerability rows with what belongs to them, by fingerprint
  risk,         \* the scan's risk score, -1 before it is known
  build,        \* what the build left
  irRuns, links,\* AnalysisIrRun and FindingCodeLink rows
  overlapped,   \* history: two passes were under way at a time
  asked,        \* the control of every validation
  aiRuns        \* AiValidationRun rows with what belongs to them

workerVars == <<runs, kept, refused, job>>
passVars == <<normalized, pass, rows, risk, irRuns, links, overlapped>>
aiVars == <<asked, aiRuns>>
findingVars == <<workerVars, passVars, aiVars, build>>

Idle == [at |-> "idle"]
At(p, where) == pass[p].at = where
UnderWay(p) == pass[p].at \notin {"idle", "done", "failed"}

FindingInit ==
  /\ runs = <<>> /\ kept = [a \in Analyzers |-> 0] /\ refused = {} /\ job = <<>>
  /\ normalized = {} /\ pass = [p \in Passes |-> Idle] /\ risk = -1
  /\ rows = <<>> /\ irRuns = {} /\ links = {} /\ overlapped = FALSE
  /\ build \in Builds
  /\ asked = [v \in Validations |-> Idle] /\ aiRuns = <<>>

-----------------------------------------------------------------------------
(* Analyzer runs                                                             *)

RunsOf(a) == {i \in DOMAIN runs : runs[i].analyzer = a}

startAnalyzerRun(a) ==
  /\ Cardinality(RunsOf(a)) < MaxRuns
  /\ runs' = Append(runs, [analyzer |-> a, status |-> "RUNNING", output |-> <<>>, told |-> FALSE])
  /\ UNCHANGED <<kept, refused, job, build, passVars, aiVars>>

(* The output is what lies in the run's raw artifact. FAILED is retried, the *)
(* status TOOL_NOT_INSTALLED, like a last failure, is not.                   *)
finalizeAnalyzerRun(i, status, output) ==
  /\ runs[i].status = "RUNNING" /\ (status = "COMPLETED" \/ output = <<>>)
  /\ runs' = [runs EXCEPT ![i].status = status, ![i].output = output]
  /\ UNCHANGED <<kept, refused, job, build, passVars, aiVars>>

recordAnalyzerCompletion(i) ==
  /\ runs[i].status = "COMPLETED" /\ ~ runs[i].told
  /\ runs' = [runs EXCEPT ![i].told = TRUE]
  /\ kept' = [kept EXCEPT ![runs[i].analyzer] = i]
  /\ UNCHANGED <<refused, job, build, passVars, aiVars>>

recordAnalyzerFailure(i) ==
  /\ runs[i].status = "TOOL_NOT_INSTALLED" /\ ~ runs[i].told
  /\ runs' = [runs EXCEPT ![i].told = TRUE]
  /\ refused' = refused \cup {runs[i].analyzer}
  /\ UNCHANGED <<kept, job, build, passVars, aiVars>>

(* The members of a set come in any order, and the job exists once.          *)
enqueueNormalize ==
  LET completed == {a \in Analyzers : kept[a] # 0}
  IN /\ job = <<>> /\ completed # {}
     /\ Cardinality(completed) + Cardinality(refused) >= Cardinality(Analyzers)
     /\ job' \in SetToSeqs({kept[a] : a \in completed})
     /\ UNCHANGED <<runs, kept, refused, build, passVars, aiVars>>

-----------------------------------------------------------------------------
(* A pass: vulnerabilities and their evidence                                *)

startPass(p) ==
  /\ job # <<>> /\ At(p, "idle") /\ \A q \in Passes : q < p => ~ At(q, "idle") /\ ~ At(q, "done")
  /\ overlapped' = (overlapped \/ \E q \in Passes : UnderWay(q))
  /\ pass' = [pass EXCEPT ![p] = [at |-> "normalize"]]
  /\ UNCHANGED <<normalized, rows, risk, irRuns, links, workerVars, build, aiVars>>

Artifacts == [i \in DOMAIN job |->
  [analyzer |-> runs[job[i]].analyzer, key |-> job[i], output |-> runs[job[i]].output]]

(* LocalFindingsNormalizationService.normalize: reads, computes, writes.     *)
normalizeArtifacts(p) ==
  /\ At(p, "normalize")
  /\ normalized' = normalize(Artifacts)
  /\ pass' = [pass EXCEPT ![p] = [at |-> "persist"]]
  /\ UNCHANGED <<rows, risk, irRuns, links, overlapped, workerVars, build, aiVars>>

(* The newest run of each analyzer, which need not be the artifact's.        *)
analyzerRunByAnalyzer == [a \in Analyzers |-> Max(RunsOf(a) \cup {0})]

(* Nothing found leaves the rows alone and needs no run.                     *)
readAnalyzerRuns(p) ==
  /\ At(p, "persist")
  /\ pass' = [pass EXCEPT ![p] =
       IF normalized = {} THEN [at |-> "ir"]
       ELSE [at |-> "write", newest |-> analyzerRunByAnalyzer, found |-> normalized]]
  /\ UNCHANGED <<normalized, rows, risk, irRuns, links, overlapped, workerVars, build, aiVars>>

Evidence(p, found) ==
  {[id |-> <<p, found.fingerprint, k>>, item |-> found.items[k],
    run |-> pass[p].newest[found.items[k].analyzer]] : k \in DOMAIN found.items}

(* The row as it is written; old holds the row that is there, if any. What   *)
(* was under that one is deleted, its status is kept.                        *)
toVulnerability(p, found, old) ==
  [status |-> IF old = {} THEN "OPEN" ELSE (CHOOSE row \in old : TRUE).status,
   category |-> found.category, severity |-> found.severity, confidence |-> found.confidence,
   risk |-> found.risk, scores |-> found.scores, file |-> found.file, line |-> found.line,
   contract |-> found.contract, text |-> found.text,
   evidence |-> Evidence(p, found), decisions |-> {<<p, found.scores.state>>}]
\* Mutants: the old evidence stays; the status is among what is updated.
keepEvidence(p, found, old) ==
  [toVulnerability(p, found, old) EXCEPT !.evidence = @ \cup UNION {row.evidence : row \in old}]
reopen(p, found, old) == [toVulnerability(p, found, old) EXCEPT !.status = "OPEN"]

upsertVulnerability(p, found, old) == toVulnerability(p, found, old)

persistNormalizedVulnerabilities(p) ==
  LET written == {found.fingerprint : found \in pass[p].found}
      of(mark) == CHOOSE found \in pass[p].found : found.fingerprint = mark
  IN /\ At(p, "write")
     /\ rows' = [mark \in DOMAIN rows \cup written |->
          IF mark \notin written THEN rows[mark]
          ELSE upsertVulnerability(p, of(mark), {rows[mark] : m \in {mark} \cap DOMAIN rows})]
     /\ pass' = [pass EXCEPT ![p] = [at |-> "ir"]]
     /\ UNCHANGED <<normalized, risk, irRuns, links, overlapped, workerVars, build, aiVars>>

PassFails(p) ==
  /\ UnderWay(p)
  /\ pass' = [pass EXCEPT ![p] = [at |-> "failed"]]
  /\ UNCHANGED <<normalized, rows, risk, irRuns, links, overlapped, workerVars, build, aiVars>>

(* The reviewers' side, whatever it may do to the row.                       *)
reviewFinding(mark, status) ==
  /\ mark \in DOMAIN rows /\ rows[mark].status # status
  /\ rows' = [rows EXCEPT ![mark].status = status]
  /\ UNCHANGED <<normalized, pass, risk, irRuns, links, overlapped, workerVars, build, aiVars>>

-----------------------------------------------------------------------------
(* A pass: the analysis IR                                                   *)

looksLikeSolcOutputArtifact(artifact) == artifact.readable /\ artifact.solc

(* build-info first, then standard-json or solc, artifact, anything else.    *)
findSolcArtifactCandidate(prepared) ==
  LET fits == {i \in DOMAIN prepared : prepared[i].small /\ looksLikeSolcOutputArtifact(prepared[i])}
  IN {prepared[i] : i \in {j \in fits : \A k \in fits :
          \/ prepared[j].priority < prepared[k].priority
          \/ prepared[j].priority = prepared[k].priority /\ j <= k}}

(* The newest artifact of the build, else the best of the prepared ones.     *)
candidate ==
  LET persisted == SelectSeq(build.persisted, looksLikeSolcOutputArtifact)
      prepared == findSolcArtifactCandidate(build.prepared)
  IN IF persisted # <<>> THEN persisted[1]
     ELSE IF prepared # {} THEN CHOOSE c \in prepared : TRUE
     ELSE [ast |-> "absent", symbols |-> <<>>]

extractionStatus ==
  CASE candidate.ast = "absent" -> "NOT_ASSESSED"
    [] candidate.ast = "broken" -> "FAILED"
    [] OTHER -> "EXTRACTED"

SymbolsOf(kinds) == SelectSeq(candidate.symbols, LAMBDA s : s.kind \in kinds)
LOCAL FirstOf(seq, P(_)) == LET found == SelectSeq(seq, P) IN IF found = <<>> THEN <<>> ELSE <<found[1].name>>

(* What the row of a symbol refers to; the first that fits, or nothing.      *)
findContractForFunction(s) ==
  FirstOf(SymbolsOf({"contract"}),
          LAMBDA c : c.name = s.contract /\ (s.file = "" \/ c.file = "" \/ c.file = s.file))
contractIn(symbols, s) == FirstOf(symbols, LAMBDA c : c.kind = "contract" /\ c.name = s.contract)
contractOf(s) == contractIn(candidate.symbols, s)
findFromFunction(edge) ==
  FirstOf(SymbolsOf({"function"}), LAMBDA s : s.contract = edge.contract /\ s.name = edge.name)
findToFunction(edge) ==
  FirstOf(SymbolsOf({"function"}),
          LAMBDA s : s.name = edge.callee /\ (edge.target = "" \/ s.contract = edge.target))

persistSymbols ==
  {[symbol |-> s, refers |->
      CASE s.kind = "function" -> <<findContractForFunction(s)>>
        [] s.kind \in {"modifier", "event", "stateVariable"} -> <<contractOf(s)>>
        [] s.kind = "edge" -> <<findFromFunction(s), findToFunction(s)>>
        [] OTHER -> <<>>] : s \in ToSet(candidate.symbols)}

findingRanges(row) ==
  {<<where.file, where.line>> : where \in
     {w \in {row} \cup {e.item : e \in row.evidence} : w.file # "" /\ w.line # 0}}

(* A range is a line here; a symbol spans from its first to its last.        *)
overlaps(row, s) ==
  \E range \in findingRanges(row) :
    range[1] = s.file /\ s.first # 0 /\ s.first <= range[2] /\ range[2] <= s.last

mentionsStorageEntry(row, s) ==
  /\ row.contract \in {"", s.contract}
  /\ \E text \in {row.text} \cup {e.item.text : e \in row.evidence} : <<text, s.name>> \in Mentions

(* A contract is also linked when a function of it overlaps.                 *)
linksTo(row, s) ==
  \/ s.kind \in {"contract", "function", "call"} /\ overlaps(row, s)
  \/ /\ s.kind = "contract"
     /\ \E i \in DOMAIN candidate.symbols :
          LET fn == candidate.symbols[i]
          IN fn.kind = "function" /\ overlaps(row, fn) /\ contractOf(fn) = <<s.name>>
  \/ s.kind = "storage" /\ mentionsStorageEntry(row, s)

persistFindingCodeLinks(p, found) ==
  {[ir |-> p, finding |-> pair[1], kind |-> pair[2].kind, name |-> pair[2].name] : pair \in
     {link \in (DOMAIN found) \X ToSet(candidate.symbols) : linksTo(found[link[1]], link[2])}}

(* persistForScan up to the first statement of its transaction; a statement  *)
(* deletes what was committed when it began, and an unreadable prepared file *)
(* would have failed the pass.                                               *)
deleteFindingCodeLinks(p) ==
  /\ At(p, "ir")
  /\ pass' = [pass EXCEPT ![p] = [at |-> "irRuns", links |-> links]]
  /\ UNCHANGED <<normalized, rows, risk, irRuns, links, overlapped, workerVars, build, aiVars>>

\* Mutant: the runs are not deleted.
keepIrRuns(p) ==
  /\ At(p, "irRuns")
  /\ pass' = [pass EXCEPT ![p] = [at |-> "irCommit", links |-> @.links, irRuns |-> {}]]
  /\ UNCHANGED <<normalized, rows, risk, irRuns, links, overlapped, workerVars, build, aiVars>>
deleteIrRuns(p) ==
  /\ At(p, "irRuns")
  /\ pass' = [pass EXCEPT ![p] = [at |-> "irCommit", links |-> @.links, irRuns |-> irRuns]]
  /\ UNCHANGED <<normalized, rows, risk, irRuns, links, overlapped, workerVars, build, aiVars>>

(* A link outlives its IR run when only the run is deleted.                  *)
replaceIrRun(p) ==
  LET gone == {run.id : run \in pass[p].irRuns}
      left == {IF link.ir \in gone THEN [link EXCEPT !.ir = 0] ELSE link : link \in links \ pass[p].links}
      extracted == extractionStatus = "EXTRACTED"
  IN /\ At(p, "irCommit")
     /\ irRuns' = {run \in irRuns : run.id \notin gone}
          \cup {[id |-> p, status |-> extractionStatus,
                 symbols |-> IF extracted THEN persistSymbols ELSE {}]}
     /\ links' = left \cup IF extracted THEN persistFindingCodeLinks(p, rows) ELSE {}
     /\ pass' = [pass EXCEPT ![p] = [at |-> "enqueue"]]
     /\ UNCHANGED <<normalized, rows, risk, overlapped, workerVars, build, aiVars>>

enqueueRiskScore(p) ==
  /\ At(p, "enqueue")
  /\ pass' = [pass EXCEPT ![p] = [at |-> "done"]]
  /\ UNCHANGED <<normalized, rows, risk, irRuns, links, overlapped, workerVars, build, aiVars>>

(* The job of the next stage exists once.                                    *)
scoreRisk ==
  /\ risk = -1 /\ \E p \in Passes : At(p, "done")
  /\ risk' = calculateRiskScore(normalized)
  /\ UNCHANGED <<normalized, pass, rows, irRuns, links, overlapped, workerVars, build, aiVars>>

-----------------------------------------------------------------------------
(* AI validation                                                             *)

Wait(v, where) == asked[v].at = where
RunOf(v) == aiRuns[asked[v].run]
EachFinding == {{mark} : mark \in DOMAIN rows}
Summary == {}

(* enqueueFindingValidation and enqueueScanValidation.                       *)
enqueueValidation(v, about) ==
  /\ Wait(v, "idle") /\ about \in EachFinding \cup {Summary}
  /\ asked' = [asked EXCEPT ![v] = [at |-> "queued", about |-> about, crashes |-> 0]]
  /\ UNCHANGED <<aiRuns, build, workerVars, passVars>>

Goes(v, control) == asked' = [asked EXCEPT ![v] = control]
Stays == UNCHANGED <<build, workerVars, passVars>>

NewRun(about, status) ==
  [about |-> about, status |-> status, pack |-> {}, output |-> FALSE, cited |-> {},
   validated |-> FALSE, critiques |-> {}, note |-> FALSE, usage |-> FALSE]

(* The worker's own configuration decides, not the one of the API.           *)
persistProviderNotConfigured(v) ==
  /\ Wait(v, "queued")
  /\ aiRuns' = Append(aiRuns, NewRun(asked[v].about, "PROVIDER_NOT_CONFIGURED"))
  /\ Goes(v, [at |-> "done"]) /\ Stays

(* buildFindingPack, buildScanSummaryPack: the ids of the evidence.          *)
buildPack(v) ==
  LET about == asked[v].about
      shown == IF about = Summary THEN DOMAIN rows ELSE about
  IN /\ Wait(v, "queued")
     /\ Goes(v, [at |-> "packed", about |-> about, crashes |-> asked[v].crashes,
                 pack |-> {e.id : e \in UNION {rows[mark].evidence : mark \in shown}}])
     /\ UNCHANGED aiRuns /\ Stays

createRunningRun(v) ==
  /\ Wait(v, "packed")
  /\ aiRuns' = Append(aiRuns, [NewRun(asked[v].about, "RUNNING") EXCEPT !.pack = asked[v].pack])
  /\ Goes(v, [at |-> "running", run |-> Len(aiRuns) + 1, crashes |-> asked[v].crashes]) /\ Stays

Writes(v, row, where) ==
  /\ aiRuns' = [aiRuns EXCEPT ![asked[v].run] = row]
  /\ Goes(v, [asked[v] EXCEPT !.at = where]) /\ Stays

(* An answer that the schema accepts; it may cite what it was not shown.     *)
generateJson(v, cited) ==
  /\ Wait(v, "running")
  /\ Writes(v, [RunOf(v) EXCEPT !.output = TRUE, !.cited = cited],
            IF RunOf(v).about = Summary THEN "notes" ELSE "answered")

persistFindingValidation(v) ==
  /\ Wait(v, "answered") /\ Writes(v, [RunOf(v) EXCEPT !.validated = TRUE], "critiques")

Critiqued(run) == run.cited \cap run.pack
Existing == {e.id : e \in UNION {rows[mark].evidence : mark \in DOMAIN rows}}

(* Evidence that was replaced meanwhile is a foreign key that does not exist. *)
persistCritique(v, id) ==
  /\ Wait(v, "critiques") /\ id \in (Critiqued(RunOf(v)) \ RunOf(v).critiques) \cap Existing
  /\ Writes(v, [RunOf(v) EXCEPT !.critiques = @ \cup {id}], "critiques")

persistReviewNote(v) ==
  /\ \/ Wait(v, "notes")
     \/ Wait(v, "critiques") /\ Critiqued(RunOf(v)) \subseteq RunOf(v).critiques
  /\ Writes(v, [RunOf(v) EXCEPT !.note = TRUE], "noted")

\* Mutant: the critiques are not awaited.
finalizeEarly(v) ==
  /\ asked[v].at \in {"critiques", "noted"}
  /\ Writes(v, [RunOf(v) EXCEPT !.status = "SUCCEEDED"], "succeeded")
finalizeRun(v) ==
  /\ Wait(v, "noted") /\ Writes(v, [RunOf(v) EXCEPT !.status = "SUCCEEDED"], "succeeded")

persistUsage(v) ==
  /\ Wait(v, "succeeded") /\ Writes(v, [RunOf(v) EXCEPT !.usage = TRUE], "done")

(* Whatever throws after the run was created ends it, a success included.    *)
failRun(v, status) ==
  /\ asked[v].at \notin {"idle", "queued", "packed", "done"}
  /\ status = "TIMEOUT" => Wait(v, "running")
  /\ Writes(v, [RunOf(v) EXCEPT !.status = status], "done")

(* The job begins anew; the row of the run it began stays as it is.          *)
WorkerCrashes(v) ==
  /\ asked[v].at \notin {"idle", "done"} /\ asked[v].crashes = 0
  /\ Goes(v, [at |-> "queued", crashes |-> 1,
              about |-> IF "about" \in DOMAIN asked[v] THEN asked[v].about ELSE RunOf(v).about])
  /\ UNCHANGED aiRuns /\ Stays

-----------------------------------------------------------------------------
AnalyzerStep ==
  \/ \E a \in Analyzers : startAnalyzerRun(a)
  \/ \E i \in DOMAIN runs :
       \/ \E status \in {"COMPLETED", "FAILED", "TOOL_NOT_INSTALLED"},
            output \in Outputs[runs[i].analyzer] \cup {<<>>} : finalizeAnalyzerRun(i, status, output)
       \/ recordAnalyzerCompletion(i) \/ recordAnalyzerFailure(i)
  \/ enqueueNormalize

PassStep(p) ==
  \/ startPass(p) \/ normalizeArtifacts(p) \/ readAnalyzerRuns(p)
  \/ persistNormalizedVulnerabilities(p) \/ deleteFindingCodeLinks(p)
  \/ deleteIrRuns(p) \/ replaceIrRun(p) \/ enqueueRiskScore(p) \/ PassFails(p)

ValidationStep(v) ==
  \/ \E about \in EachFinding \cup {Summary} : enqueueValidation(v, about)
  \/ persistProviderNotConfigured(v) \/ buildPack(v) \/ createRunningRun(v)
  \/ asked[v].at = "running" /\ \E cited \in {{}, RunOf(v).pack, Existing} : generateJson(v, cited)
  \/ persistFindingValidation(v) \/ \E id \in Existing : persistCritique(v, id)
  \/ persistReviewNote(v) \/ finalizeRun(v) \/ persistUsage(v)
  \/ \E status \in {"FAILED", "TIMEOUT"} : failRun(v, status)
  \/ WorkerCrashes(v)

FindingNext ==
  \/ AnalyzerStep \/ scoreRisk
  \/ \E p \in Passes : PassStep(p)
  \/ \E mark \in DOMAIN rows, status \in Verdicts : reviewFinding(mark, status)
  \/ \E v \in Validations : ValidationStep(v)

FindingSpec == FindingInit /\ [][FindingNext]_findingVars

-----------------------------------------------------------------------------
(* Properties                                                                *)

(* A declarative account of what the artifacts of the job report: the places *)
(* they name, and the evidence that each of them is owed.                    *)
Reported == UNION {ToSet(findingsOf(artifact)) : artifact \in ToSet(Artifacts)}
Owed(findings, place) ==
  UNION {ToSet(finding.items) : finding \in {other \in findings : other.dedupeKey = place}}
Cited(row) == {e.item : e \in row.evidence}

(* What the tool must do for the code to tell its findings apart: an issue it *)
(* reports twice has one category and one evidence, and semgrep gives its    *)
(* own fingerprint to one place only.                                        *)
TellsApart(a, output) ==
  \A j, k \in DOMAIN output :
    LET x == output[j]  y == output[k]
        there == x.rule = y.rule /\ x.file = y.file /\ x.line = y.line
    IN /\ there /\ x.text = y.text /\ (a = "semgrep" \/ x.contract = y.contract)
            => /\ x.matched = y.matched /\ x.swcIds = y.swcIds
               /\ x.trace = y.trace /\ x.snippet = y.snippet
       /\ a = "semgrep" /\ x.given = y.given /\ x.given # "" => there /\ x.matched = y.matched
ToolsTellApart == \A a \in Analyzers : \A output \in Outputs[a] : TellsApart(a, output)

(* However often the job ran, wholly or not, and in whatever order its       *)
(* artifacts were listed: once written, there is one finding for every place *)
(* the artifacts report, with all evidence for it exactly once and with one  *)
(* decision; and evidence names the run whose artifact it is from, unless    *)
(* its analyzer was run again.                                               *)
RowsMatchArtifacts ==
  LET findings == Reported
      places == {finding.dedupeKey : finding \in findings}
  IN DOMAIN rows # {} =>
    /\ Cardinality(DOMAIN rows) = Cardinality(places)
    /\ \A place \in places : \E mark \in DOMAIN rows : Cited(rows[mark]) = Owed(findings, place)
    /\ \A mark \in DOMAIN rows :
         /\ Cardinality(rows[mark].evidence) = Cardinality(Cited(rows[mark]))
         /\ Cardinality(rows[mark].decisions) = 1
         /\ \A e \in rows[mark].evidence :
              e.run = e.item.key \/ Cardinality(RunsOf(e.item.analyzer)) > 1

(* A pass that writes a finding again never takes back a reviewer's verdict. *)
ReviewSurvives ==
  [][pass' # pass => \A mark \in DOMAIN rows :
       mark \in DOMAIN rows' /\ rows'[mark].status = rows[mark].status]_findingVars

(* Unless passes overlapped, a scan has one IR run at most, and its links    *)
(* are those of the findings as they are, whichever passes failed between.   *)
LinksMatchRows ==
  ~ overlapped =>
    /\ Cardinality(irRuns) <= 1
    /\ {link.ir : link \in links} \subseteq {run.id : run \in irRuns}
    /\ \A run \in irRuns :
         run.status = "EXTRACTED" /\ (\A p \in Passes : ~ UnderWay(p))
           => links = persistFindingCodeLinks(run.id, rows)

(* What is shown as a success has everything that belongs to it: the answer, *)
(* the verdict, a critique of every piece of evidence it was shown and cites *)
(* and of no other, and the note.                                            *)
SucceededIsComplete ==
  \A i \in DOMAIN aiRuns :
    aiRuns[i].status = "SUCCEEDED" =>
      /\ aiRuns[i].output /\ aiRuns[i].note
      /\ aiRuns[i].about # Summary =>
           aiRuns[i].validated /\ aiRuns[i].critiques = Critiqued(aiRuns[i])
=============================================================================
