--------------------------- MODULE ThreatKnowledge ---------------------------
(* The knowledge base of threats (threat.service.ts, threat.repository.ts):  *)
(* entries with what they rest on, written row by row; signatures matched    *)
(* against the findings and alerts of a scan; and the precision of a rule,   *)
(* measured anew when a reviewer reports a false positive. No request writes *)
(* in a transaction, and each may fail between two writes.                   *)
EXTENDS Naturals, SequencesExt, FiniteSets, FiniteSetsExt

CONSTANTS
  Callers,      \* requests under way at a time
  FindingOrder, AlertOrder,  \* those of the one scan, as its query sorts them
  Signatures,
  FamilyOf,     \* [Signatures -> pattern.family, or else the kind]
  Requires,     \* [Signatures -> the phases its evidenceRequirements name]
  InCategory,   \* [Findings -> the families its category belongs to]
  InText,       \* [Findings -> the families its text speaks of]
  OfKind,       \* [Alerts -> the families its kind or severity belongs to]
  RuleOf,       \* [Findings -> the analyzer with the severity, and the externalRuleId or ""]
  Shapes,       \* what a request to create or import an entry may hold
  MaxFeedback, MaxEntries, MaxMatchings   \* bounds: what is asked for

Order == FindingOrder \o AlertOrder
Findings == ToSet(FindingOrder)
Alerts == ToSet(AlertOrder)
Subjects == Findings \cup Alerts
Phases == {"p1", "p2b", "p4", "p7", "p8", "p9"}
Rules == {RuleOf[f] : f \in Findings}
Verdicts == {"OPEN", "ACCEPTED", "FALSE_POSITIVE", "SUPPRESSED"}

ASSUME ThreatAssumption ==
  /\ FindingOrder \in Seq(Findings) /\ AlertOrder \in Seq(Alerts) /\ IsFiniteSet(Callers)
  /\ Shapes \subseteq [kind : {"entry", "signature", "import"}, own : BOOLEAN, sources : Nat, references : Nat,
                       signature : SUBSET Signatures, conditions : Nat, labels : Nat, fair : BOOLEAN]
  /\ FamilyOf \in [Signatures -> STRING] /\ Requires \in [Signatures -> SUBSET Phases]
  /\ InCategory \in [Findings -> SUBSET STRING] /\ InText \in [Findings -> SUBSET STRING]
  /\ OfKind \in [Alerts -> SUBSET STRING]
  /\ RuleOf \in [Findings -> [detector : STRING, name : STRING]]
  /\ Findings \cap Alerts = {}
  /\ {MaxFeedback, MaxEntries, MaxMatchings} \subseteq Nat

VARIABLES
  proof,     \* [Subjects -> what is kept of it: phases, "reproduced", "broken"]
  verdict,   \* [Findings -> what its review says]
  doubted,   \* findings an AI validation doubts
  feedback,  \* FalsePositiveFeedback: the finding of each report
  entries,   \* ThreatIntelEntry, each with the rows written after it
  known,     \* ThreatSignature
  matches,   \* ThreatSignatureMatch
  metrics,   \* DetectorPrecisionMetric
  matched,   \* signatures with a revision MATCH_SCAN
  call,      \* [Callers -> the request it serves]
  unmeasured, \* false positives reported by requests that failed later
  matchings, \* matchings begun
  together   \* [Signatures -> most requests that ever matched it at a time]

threatVars == <<proof, verdict, doubted, feedback, entries, known, matches, metrics, matched,
                call, unmeasured, matchings, together>>

factVars == <<proof, verdict, doubted>>
bookVars == <<entries, known>>
matchVars == <<matches, matched, matchings, together>>
metricVars == <<feedback, metrics, unmeasured>>

Idle == [at |-> "idle"]
Matching(s) == {c \in Callers : call[c].at \in {"match", "pay", "find", "put"} /\ call[c].signature = s}

ThreatInit ==
  /\ proof = [x \in Subjects |-> {}]
  /\ verdict = [f \in Findings |-> "OPEN"] /\ doubted = {}
  /\ feedback = <<>> /\ entries = <<>> /\ known = {} /\ matches = <<>> /\ metrics = <<>> /\ matched = {}
  /\ call = [c \in Callers |-> Idle]
  /\ unmeasured = 0 /\ matchings = 0 /\ together = [s \in Signatures |-> 0]

Goto(c, to) == call' = [call EXCEPT ![c] = to]

-----------------------------------------------------------------------------
(* What the other parts find out about findings and alerts.                  *)

Learn(x, what) ==
  /\ what \notin proof[x]
  /\ proof' = [proof EXCEPT ![x] = @ \cup
       CASE what = "reproduced" -> {"p7", what} [] what = "broken" -> {"p8", what} [] OTHER -> {what}]
  /\ UNCHANGED <<verdict, doubted, bookVars, matchVars, metricVars, call>>

Review(f, v) ==
  /\ v # verdict[f] /\ verdict' = [verdict EXCEPT ![f] = v]
  /\ UNCHANGED <<proof, doubted, bookVars, matchVars, metricVars, call>>

Doubt(f) ==
  /\ f \notin doubted /\ doubted' = doubted \cup {f}
  /\ proof' = [proof EXCEPT ![f] = @ \cup {"p4"}]
  /\ UNCHANGED <<verdict, bookVars, matchVars, metricVars, call>>

-----------------------------------------------------------------------------
(* Entries and signatures. A request is the rows it writes, in their order:  *)
(* a row of an entry, or a record of the revision that closes a part of it.  *)

Copies(n, row) == [i \in 1 .. n |-> row]

RevisionFirst(shape) ==  \* mutant: the revision is written with the entry
  <<"entry", "entry revised">> \o Copies(shape.sources, "source") \o Copies(shape.references, "reference")
createThreatIntel(shape) ==
  <<"entry">> \o Copies(shape.sources, "source") \o Copies(shape.references, "reference")
    \o <<"entry revised">>

createThreatSignature(shape) ==
  IF shape.signature = {} THEN <<>>
  ELSE <<"signature">> \o Copies(shape.conditions, "condition") \o <<"signature revised">>

createRiskLabel(shape) == IF shape.fair THEN "label" ELSE "refused"

importThreatIntel(shape) ==
  createThreatIntel(shape) \o createThreatSignature(shape)
    \o Copies(shape.labels, createRiskLabel(shape)) \o <<"import revised">>

Plan(shape) ==
  CASE shape.kind = "entry" -> createThreatIntel(shape)
    [] shape.kind = "signature" -> createThreatSignature(shape)
    [] shape.kind = "import" -> importThreatIntel(shape)

(* An imported entry takes the reference of the import for want of its own;  *)
(* a signature may rest on an entry; a label is only looked at when its turn *)
(* comes.                                                                    *)
HasProvenance(shape) ==
  CASE shape.kind = "entry" -> shape.own \/ shape.sources > 0
    [] shape.kind = "signature" -> shape.own \/ entries # <<>>
    [] shape.kind = "import" -> TRUE

Record(c, shape) ==
  /\ call[c] = Idle /\ Len(entries) < MaxEntries
  /\ HasProvenance(shape)
  /\ shape.signature \cap known = {}
  /\ Goto(c, [at |-> "write", left |-> Plan(shape), entry |-> Len(entries) + 1])
  /\ entries' = Append(entries, [shape |-> shape, rows |-> <<>>, cut |-> FALSE])
  /\ UNCHANGED <<factVars, known, matchVars, metricVars>>

(* The next row, of the kinds one part of the repository writes.             *)
WriteRow(c, kinds, learned) ==
  /\ call[c].at = "write" /\ call[c].left # <<>> /\ Head(call[c].left) \in kinds
  /\ entries' = [entries EXCEPT ![call[c].entry].rows = Append(@, Head(call[c].left))]
  /\ known' = known \cup learned
  /\ Goto(c, IF Len(call[c].left) = 1 THEN Idle ELSE [call[c] EXCEPT !.left = Tail(@)])
  /\ UNCHANGED <<factVars, matchVars, metricVars>>

createEntryRow(c) == WriteRow(c, {"entry", "source", "reference"}, {})
createSignatureRow(c) ==
  \/ call[c].at = "write" /\ WriteRow(c, {"signature"}, entries[call[c].entry].shape.signature)
  \/ WriteRow(c, {"condition"}, {})
createLabelRow(c) == WriteRow(c, {"label"}, {})
createRevision(c) == WriteRow(c, {"entry revised", "signature revised", "import revised"}, {})

-----------------------------------------------------------------------------
(* A signature against a scan.                                               *)

Here(x) == proof[x] \cap Phases

missingRequiredEvidence(s, x) == Requires[s] \ Here(x)

Row(s, x, status, used) ==
  [signature |-> s, about |-> x, status |-> IF used = {} THEN "INCONCLUSIVE" ELSE status,
   used |-> used, missing |-> missingRequiredEvidence(s, x)]

(* What fuzzing or a simulation has shown needs nothing else; a category     *)
(* needs all the evidence asked for, and words alone never suffice.          *)
evaluateFinding(s, f) ==
  LET family == FamilyOf[s]
  IN CASE family = "FAILED_INVARIANT_OR_FUZZ_COUNTEREXAMPLE" /\ "broken" \in proof[f] ->
            Row(s, f, "MATCHED", Here(f) \cap {"p8"})
       [] family = "REPRODUCED_LOCAL_SIMULATION" /\ "reproduced" \in proof[f] ->
            Row(s, f, "MATCHED", Here(f) \cap {"p7"})
       [] family \in InCategory[f] /\ Here(f) # {} ->
            Row(s, f, IF missingRequiredEvidence(s, f) = {} THEN "MATCHED" ELSE "PARTIAL", Here(f))
       [] family \in InText[f] /\ "p1" \in proof[f] -> Row(s, f, "PARTIAL", {"p1"})
       [] OTHER -> Row(s, f, "INCONCLUSIVE", {})

evaluateAlert(s, a) == [Row(s, a, "MATCHED", Here(a)) EXCEPT !.missing = {"p9"} \ Here(a)]

evaluateSignatureAgainstScan(s) ==
  [i \in {j \in DOMAIN Order : Order[j] \in Findings \/ FamilyOf[s] \in OfKind[Order[j]]} |->
     IF Order[i] \in Findings THEN evaluateFinding(s, Order[i]) ELSE evaluateAlert(s, Order[i])]

matchSignatureToScan(c, s) ==
  /\ call[c] = Idle /\ s \in known /\ matchings < MaxMatchings
  /\ matchings' = matchings + 1
  /\ Goto(c, [at |-> "match", signature |-> s])
  /\ together' = [together EXCEPT ![s] = Max({@, Cardinality(Matching(s)) + 1})]
  /\ UNCHANGED <<factVars, bookVars, matches, matched, metricVars>>

scanForMatching(c) ==
  /\ call[c].at = "match"
  /\ LET s == call[c].signature
     IN Goto(c, [at |-> "pay", signature |-> s, todo |-> evaluateSignatureAgainstScan(s)])
  /\ UNCHANGED <<factVars, bookVars, matchVars, metricVars>>

Turn(c) == Min(DOMAIN call[c].todo)
Candidate(c) == call[c].todo[Turn(c)]

(* The month's matches are charged one by one, each before it is written.    *)
assertAndConsume(c) ==
  /\ call[c].at = "pay" /\ DOMAIN call[c].todo # {}
  /\ Goto(c, [call[c] EXCEPT !.at = "find"])
  /\ UNCHANGED <<factVars, bookVars, matchVars, metricVars>>

Same(old, row) == old.signature = row.signature /\ old.about = row.about
SameStatus(old, row) == Same(old, row) /\ old.status = row.status  \* mutant: looked up by its status too
KeyOfMatch(old, row) == Same(old, row)

findMatch(c) ==
  /\ call[c].at = "find"
  /\ LET there == {i \in DOMAIN matches : KeyOfMatch(matches[i], Candidate(c))}
     IN \E i \in IF there = {} THEN {0} ELSE there :
          Goto(c, [at |-> "put", signature |-> call[c].signature, todo |-> call[c].todo, id |-> i])
  /\ UNCHANGED <<factVars, bookVars, matchVars, metricVars>>

(* The unique key has the alert in it, which is null in a finding's row (and *)
(* the finding in an alert's), and to the database no two nulls are equal:   *)
(* a second row is no conflict.                                              *)
putMatch(c) ==
  /\ call[c].at = "put"
  /\ LET q == call[c]  row == Candidate(c)
     IN /\ matches' = IF q.id = 0 THEN Append(matches, row) ELSE [matches EXCEPT ![q.id] = row]
        /\ Goto(c, [at |-> "pay", signature |-> q.signature, todo |-> Restrict(q.todo, DOMAIN q.todo \ {Turn(c)})])
  /\ UNCHANGED <<factVars, bookVars, matched, matchings, together, metricVars>>

MatchRevision(c) ==
  /\ call[c].at = "pay" /\ DOMAIN call[c].todo = {}
  /\ matched' = matched \cup {call[c].signature}
  /\ Goto(c, Idle)
  /\ UNCHANGED <<factVars, bookVars, matches, matchings, together, metricVars>>

-----------------------------------------------------------------------------
(* A false positive, and what it makes of the rule's precision.              *)

Reports(S) == {i \in DOMAIN feedback : feedback[i] \in S}
Of(rule) == {f \in Findings : RuleOf[f] = rule}

(* A rule without a name is measured by all that its detector found.         *)
findingsForPrecision(rule) ==
  {f \in Findings : /\ RuleOf[f].detector = rule.detector
                    /\ rule.name \in {"", RuleOf[f].name}}

computePrecisionSnapshot(rule) ==
  LET S == findingsForPrecision(rule)
      Many(P(_)) == Cardinality({f \in S : P(f)})
  IN [rule |-> rule,
      truePositives |-> Many(LAMBDA f : verdict[f] = "ACCEPTED")
        + Many(LAMBDA f : "reproduced" \in proof[f]) + Many(LAMBDA f : "broken" \in proof[f]),
      falsePositives |-> Many(LAMBDA f : verdict[f] = "FALSE_POSITIVE")
        + Many(LAMBDA f : f \in doubted) + Cardinality(Reports(S)),
      \* not a column: the reports of the rule itself that are in it
      reports |-> Cardinality(Reports(Of(rule)))]

Reporting == {c \in Callers : call[c].at \in {"report", "measure", "seek", "store"}}

(* The report is stored. `met` counts the reports of others a request saw    *)
(* come while it ran.                                                        *)
Report(c, next) ==
  /\ feedback' = Append(feedback, call[c].finding)
  /\ call' = [d \in Callers |->
       IF d = c THEN next ELSE IF d \in Reporting THEN [call[d] EXCEPT !.met = @ + 1] ELSE call[d]]
  /\ UNCHANGED <<factVars, bookVars, matchVars, metrics, unmeasured>>

Measured(c) ==
  [at |-> "seek", finding |-> call[c].finding, met |-> call[c].met,
   snapshot |-> computePrecisionSnapshot(RuleOf[call[c].finding])]

MeasureFirst(c) ==  \* mutant: the findings are read before the report is stored
  /\ call[c].at = "report"
  /\ Report(c, Measured(c))

addFalsePositiveFeedback(c, f) ==
  /\ call[c] = Idle /\ Len(feedback) + Cardinality(Reporting) < MaxFeedback
  /\ Goto(c, [at |-> "report", finding |-> f, met |-> 0])
  /\ UNCHANGED <<factVars, bookVars, matchVars, metricVars>>

createFalsePositiveFeedback(c) ==
  /\ call[c].at = "report"
  /\ Report(c, [call[c] EXCEPT !.at = "measure"])

refreshPrecisionForFinding(c) ==
  /\ call[c].at = "measure"
  /\ Goto(c, Measured(c))
  /\ UNCHANGED <<factVars, bookVars, matchVars, metricVars>>

MetricsOf(rule) == {i \in DOMAIN metrics : metrics[i].snapshot.rule = rule}

findMetric(c) ==
  /\ call[c].at = "seek"
  /\ LET there == MetricsOf(call[c].snapshot.rule)
     IN \E i \in IF there = {} THEN {0} ELSE there :
          Goto(c, [at |-> "store", finding |-> call[c].finding, met |-> call[c].met,
                   snapshot |-> call[c].snapshot, id |-> i])
  /\ UNCHANGED <<factVars, bookVars, matchVars, metricVars>>

(* The unique key refuses the second metric of a rule with a name.           *)
Conflict(c) ==
  /\ call[c].id = 0 /\ call[c].snapshot.rule.name # ""
  /\ MetricsOf(call[c].snapshot.rule) # {}

putMetric(c) ==
  /\ call[c].at = "store" /\ ~Conflict(c)
  /\ LET row == [snapshot |-> call[c].snapshot, met |-> call[c].met]
     IN metrics' = IF call[c].id = 0 THEN Append(metrics, row) ELSE [metrics EXCEPT ![call[c].id] = row]
  /\ Goto(c, Idle)
  /\ UNCHANGED <<factVars, bookVars, matchVars, feedback, unmeasured>>

-----------------------------------------------------------------------------
(* The request ends early: a query fails, the month's matches are used up,   *)
(* a label is refused, a metric is there already.                            *)
RequestFails(c) ==
  /\ call[c] # Idle
  /\ Goto(c, Idle)
  /\ entries' = IF call[c].at = "write" THEN [entries EXCEPT ![call[c].entry].cut = TRUE] ELSE entries
  /\ unmeasured' = IF c \in Reporting /\ call[c].at # "report" THEN unmeasured + 1 ELSE unmeasured
  /\ UNCHANGED <<factVars, known, matchVars, feedback, metrics>>

RequestStep(c) ==
  \/ createEntryRow(c) \/ createSignatureRow(c) \/ createLabelRow(c) \/ createRevision(c)
  \/ scanForMatching(c) \/ assertAndConsume(c) \/ findMatch(c) \/ putMatch(c) \/ MatchRevision(c)
  \/ createFalsePositiveFeedback(c) \/ refreshPrecisionForFinding(c) \/ findMetric(c) \/ putMetric(c)
  \/ RequestFails(c)

ThreatNext ==
  \/ \E x \in Subjects, what \in Phases \cup {"reproduced", "broken"} :
       (what = "p9" <=> x \in Alerts) /\ Learn(x, what)
  \/ \E f \in Findings : Doubt(f) \/ \E v \in Verdicts : Review(f, v)
  \/ \E c \in Callers :
       \/ \E shape \in Shapes : Record(c, shape)
       \/ \E s \in Signatures : matchSignatureToScan(c, s)
       \/ \E f \in Findings : addFalsePositiveFeedback(c, f)
       \/ RequestStep(c)

ThreatSpec == ThreatInit /\ [][ThreatNext]_threatVars

-----------------------------------------------------------------------------
(* Properties.                                                               *)

Count(rows, row) == Cardinality({i \in DOMAIN rows : rows[i] = row})
Whole(entry) ==
  /\ Count(entry.rows, "source") = entry.shape.sources
  /\ Count(entry.rows, "reference") = entry.shape.references
Writing(i) == \E c \in Callers : call[c].at = "write" /\ call[c].entry = i

(* A revision certifies what was done: that of an entry all its sources and  *)
(* references, that of an import its signature and labels too, that of a     *)
(* matching a match for every finding of the scan. And no entry is without   *)
(* provenance but one whose request is under way or failed.                  *)
RevisionMeansWhole ==
  /\ \A i \in DOMAIN entries :
       LET rows == entries[i].rows  shape == entries[i].shape
       IN /\ Count(rows, "entry revised") > 0 => Whole(entries[i])
          /\ Count(rows, "import revised") > 0 =>
               /\ shape.signature \subseteq known
               /\ Count(rows, "label") = shape.labels
          /\ Count(rows, "signature revised") > 0 => Count(rows, "condition") = shape.conditions
          /\ shape.kind = "entry" => shape.own \/ Count(rows, "source") > 0 \/ Writing(i) \/ entries[i].cut
  /\ \A s \in matched, f \in Findings : \E i \in DOMAIN matches : Same(matches[i], [signature |-> s, about |-> f])

(* A finding or alert has as many matches of a signature as requests ever    *)
(* matched it at a time: whoever comes later finds the row there is.         *)
OneMatchEach ==
  \A s \in Signatures, x \in Subjects :
    Cardinality({i \in DOMAIN matches : Same(matches[i], [signature |-> s, about |-> x])}) <= together[s]

(* The metric of a rule misses no more reports than came while it was being  *)
(* measured, are of requests still under way, or of requests that failed.    *)
MetricMissesOverlaps ==
  \A i \in DOMAIN metrics :
    LET measured == metrics[i].snapshot
    IN measured.rule.name # "" =>
         Cardinality(Reports(Of(measured.rule)))
           <= measured.reports + metrics[i].met + Cardinality(Reporting) + unmeasured
=============================================================================
