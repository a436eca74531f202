------------------------ MODULE FindingNormalization ------------------------
(* What the worker computes from the outputs of the analyzers: findings, the *)
(* vulnerabilities they aggregate to, their scores, and the risk of a scan.  *)
(* An output is a sequence of issues; words of a tool are strings, files,    *)
(* contracts and texts are members of small sets, 0 and "" are "absent".     *)
(* Scores are integers, percentages of what the code multiplies.             *)
EXTENDS Integers, FiniteSets, Sequences, SequencesExt

LOCAL ClampScore(hundredths) ==
  LET rounded == (hundredths + 50) \div 100
  IN IF rounded < 0 THEN 0 ELSE IF rounded > 100 THEN 100 ELSE rounded
LOCAL AtMost(a, b) == IF a < b THEN a ELSE b
LOCAL ClampFrom0(a) == IF a < 0 THEN 0 ELSE a

(* A list is a function of the places of its elements in the outputs: that of *)
(* a finding is <<artifact, issue>>, that of its k-th item <<artifact, issue, *)
(* k>>. The order of the list is the lexicographic one.                      *)
Before(p, q) == \E n \in DOMAIN p : p[n] < q[n] /\ \A m \in 1 .. n - 1 : p[m] = q[m]

(* The first element of every key; key[p] is the key of list[p].             *)
uniqueObjectsBy(list, key) ==
  Restrict(list, {p \in DOMAIN list : ~ \E q \in DOMAIN list : Before(q, p) /\ key[q] = key[p]})

-----------------------------------------------------------------------------
(* Words                                                                     *)

severityRank == [INFORMATIONAL |-> 0, LOW |-> 1, MEDIUM |-> 2, HIGH |-> 3, CRITICAL |-> 4]
confidenceRank == [LOW |-> 0, MEDIUM |-> 1, HIGH |-> 2, CONFIRMED |-> 3]

normalizeSeverity(word) ==
  CASE word \in {"critical", "blocker"} -> "CRITICAL"
    [] word \in {"high", "error"} -> "HIGH"
    [] word \in {"medium", "warning", "moderate"} -> "MEDIUM"
    [] word \in {"low", "optimization"} -> "LOW"
    [] OTHER -> "INFORMATIONAL"

normalizeConfidence(word) ==
  CASE word \in {"confirmed", "very-high", "very_high"} -> "CONFIRMED"
    [] word \in {"high", "strong"} -> "HIGH"
    [] word \in {"medium", "moderate"} -> "MEDIUM"
    [] OTHER -> "LOW"

maxSeverity(words) == CHOOSE s \in words : \A t \in words : severityRank[t] <= severityRank[s]

(* A second analyzer makes MEDIUM of them HIGH, a third makes it CONFIRMED.  *)
combineConfidence(words, analyzerCount) ==
  LET highest == CHOOSE c \in words : \A d \in words : confidenceRank[d] <= confidenceRank[c]
  IN IF analyzerCount >= 3 /\ highest # "LOW" THEN "CONFIRMED"
     ELSE IF analyzerCount >= 2 /\ highest = "MEDIUM" THEN "HIGH"
     ELSE highest

(* The patterns of the rule texts, in the order in which they are tried.     *)
ruleCategoryPatterns ==
  <<"REENTRANCY", "INTEGER_OVERFLOW", "TX_ORIGIN", "ACCESS_CONTROL", "DELEGATECALL",
    "ORACLE_MANIPULATION", "FLASH_LOAN", "SELFDESTRUCT", "UPGRADEABILITY",
    "UNSAFE_EXTERNAL_CALL", "HONEYPOT", "RUG_PULL", "INSECURE_RANDOMNESS",
    "DENIAL_OF_SERVICE", "GAS_OPTIMIZATION">>

swcCategoryMap ==
  [n \in {101, 104, 105, 106, 107, 112, 113, 115, 116, 120, 128} |->
     CASE n = 101 -> "INTEGER_OVERFLOW"      [] n = 104 -> "UNSAFE_EXTERNAL_CALL"
       [] n = 105 -> "ACCESS_CONTROL"        [] n = 106 -> "SELFDESTRUCT"
       [] n = 107 -> "REENTRANCY"            [] n = 112 -> "DELEGATECALL"
       [] n = 115 -> "TX_ORIGIN"             [] n \in {116, 120} -> "INSECURE_RANDOMNESS"
       [] n \in {113, 128} -> "DENIAL_OF_SERVICE"]

(* An SWC number decides; else the first pattern that its texts match.       *)
classifyCategory(swcIds, matched) ==
  LET mapped == SelectSeq(swcIds, LAMBDA n : n \in DOMAIN swcCategoryMap)
      tried == SelectSeq(ruleCategoryPatterns, LAMBDA c : c \in matched)
  IN IF mapped # <<>> THEN swcCategoryMap[mapped[1]]
     ELSE IF tried # <<>> THEN tried[1] ELSE "OTHER"

-----------------------------------------------------------------------------
(* One parser per analyzer                                                   *)

createFindingFingerprint(analyzer, issue, category) ==
  <<analyzer, issue.rule, category, issue.file, issue.contract, issue.line>>

(* The rule is part of the key: tools agree only when they name it alike.    *)
createDedupeKey(issue, category) ==
  <<category, issue.file, issue.rule, issue.contract, issue.line>>

(* weight: what an item contributes, in percent.                             *)
Item(type, analyzer, key, issue, text, snippet, weight) ==
  [type |-> type, analyzer |-> analyzer, file |-> issue.file, line |-> issue.line, rule |-> issue.rule,
   text |-> text, snippet |-> snippet, key |-> key, weight |-> weight]

(* weight: the one with a line, and the one without.                         *)
Parsed(analyzer, key, issue, category, confidence, snippet, weight) ==
  [analyzer |-> analyzer, rule |-> issue.rule, text |-> issue.text, category |-> category,
   severity |-> normalizeSeverity(issue.severity), confidence |-> confidence,
   file |-> issue.file, contract |-> issue.contract, line |-> issue.line,
   fingerprint |-> createFindingFingerprint(analyzer, issue, category),
   dedupeKey |-> createDedupeKey(issue, category),
   items |-> <<Item("ANALYZER", analyzer, key, issue, issue.text, snippet,
                    IF issue.file # "" /\ issue.line # 0 THEN weight[1] ELSE weight[2])>>]

slitherDetector(key, issue) ==
  Parsed("slither", key, issue, classifyCategory(<<>>, issue.matched),
         normalizeConfidence(issue.confidence), FALSE, <<80, 48>>)

(* Without a word a trace makes the confidence; the trace is evidence too.   *)
mythrilIssue(key, issue) ==
  LET confidence ==
        CASE issue.confidence = "" -> IF issue.trace THEN "HIGH" ELSE "MEDIUM"
          [] issue.confidence \in {"high", "confirmed", "medium"} -> normalizeConfidence(issue.confidence)
          [] OTHER -> "LOW"
      parsed == Parsed("mythril", key, issue, classifyCategory(issue.swcIds, issue.matched),
                       confidence, issue.snippet, <<76, 46>>)
      trace == Item("TRACE", "mythril", key, issue, "trace", FALSE, 12)
  IN IF issue.trace THEN [parsed EXCEPT !.items = Append(@, trace)] ELSE parsed

(* The tool's own fingerprint replaces the computed one.                     *)
semgrepResult(key, issue) ==
  LET parsed == Parsed("semgrep", key, [issue EXCEPT !.contract = ""], classifyCategory(<<>>, issue.matched),
                       normalizeConfidence(issue.confidence), issue.snippet, <<78, 48>>)
  IN IF issue.given = "" THEN parsed ELSE [parsed EXCEPT !.fingerprint = <<issue.given>>]

aderynIssue(key, issue) ==
  Parsed("aderyn", key, issue, classifyCategory(<<>>, issue.matched),
         normalizeConfidence(issue.confidence), issue.snippet, <<74, 44>>)

(* foundry has no parser: its artifact counts and yields nothing.            *)
findingsOf(artifact) ==
  LET parse(issue) ==
        CASE artifact.analyzer = "slither" -> slitherDetector(artifact.key, issue)
          [] artifact.analyzer = "mythril" -> mythrilIssue(artifact.key, issue)
          [] artifact.analyzer = "semgrep" -> semgrepResult(artifact.key, issue)
          [] artifact.analyzer = "aderyn" -> aderynIssue(artifact.key, issue)
  IN IF artifact.analyzer = "foundry" THEN <<>>
     ELSE [i \in DOMAIN artifact.output |-> parse(artifact.output[i])]

suppressExactDuplicateFindings(findings) ==
  uniqueObjectsBy(findings, [p \in DOMAIN findings |-> LET one == findings[p] IN
    <<one.analyzer, one.rule, one.file, one.contract, one.line, one.text>>])

-----------------------------------------------------------------------------
(* Scores                                                                    *)

severityBaseScore ==
  [INFORMATIONAL |-> 5, LOW |-> 20, MEDIUM |-> 45, HIGH |-> 75, CRITICAL |-> 95]
confidenceMultiplier == [LOW |-> 75, MEDIUM |-> 90, HIGH |-> 100, CONFIRMED |-> 108]
categoryModifier(category) ==
  CASE category \in {"ACCESS_CONTROL", "ORACLE_MANIPULATION", "FLASH_LOAN"} -> 10
    [] category = "RUG_PULL" -> 9
    [] category \in {"REENTRANCY", "DELEGATECALL", "SELFDESTRUCT", "UPGRADEABILITY"} -> 8
    [] category = "HONEYPOT" -> 7
    [] category = "DENIAL_OF_SERVICE" -> 6
    [] category \in {"TX_ORIGIN", "INSECURE_RANDOMNESS"} -> 5
    [] category \in {"INTEGER_OVERFLOW", "UNSAFE_EXTERNAL_CALL"} -> 4
    [] category = "GAS_OPTIMIZATION" -> -8
    [] OTHER -> 0

scoreFinding(finding) ==
  ClampScore(severityBaseScore[finding.severity] * confidenceMultiplier[finding.confidence]
             + 100 * categoryModifier(finding.category)
             + IF finding.file # "" THEN 200 ELSE 0)

LOCAL Agreement(count, most, each) == AtMost(most, ClampFrom0(count - 1) * each)

scoreAggregate(severity, confidence, category, analyzerCount, findingScores) ==
  ClampScore(
    Max({100 * s : s \in findingScores}
             \cup {0, severityBaseScore[severity] * confidenceMultiplier[confidence]
                      + 100 * categoryModifier(category)})
    + 100 * Agreement(analyzerCount, 10, 5))

LOCAL Located(item) == item.file # "" /\ item.line # 0

evidenceQuality(items) ==
  LET has(P(_)) == \E i \in DOMAIN items : P(items[i])
  IN IF DOMAIN items = {} THEN 0
     ELSE ClampScore(100 * (Max({items[i].weight : i \in DOMAIN items})
            + (IF has(Located) THEN 12 ELSE -10)
            + (IF has(LAMBDA item : item.snippet) THEN 6 ELSE 0)
            + (IF has(LAMBDA item : item.type = "TRACE") THEN 6 ELSE 0)
            + Agreement(Cardinality(DOMAIN items), 12, 3)))

decisionState(items, quality) ==
  IF DOMAIN items = {} THEN "NOT_ASSESSED"
  ELSE IF ~ (\E i \in DOMAIN items : Located(items[i])) \/ quality < 45 THEN "CANDIDATE"
  ELSE "SUPPORTED"

exploitabilityScore(severity, analyzerCount, traced, quality) ==
  LET base == [INFORMATIONAL |-> 5, LOW |-> 18, MEDIUM |-> 38, HIGH |-> 62, CRITICAL |-> 78]
  IN ClampScore(100 * (base[severity] + (IF traced THEN 8 ELSE 0)
                       + Agreement(analyzerCount, 10, 4) + (IF quality >= 70 THEN 5 ELSE 0)))

(* FindingScoringService.score                                               *)
score(severity, confidence, analyzerCount, items) ==
  LET quality == evidenceQuality(items)
      traced == \E i \in DOMAIN items : items[i].type = "TRACE"
      sure == ClampScore(100 * ([LOW |-> 35, MEDIUM |-> 55, HIGH |-> 75, CONFIRMED |-> 85][confidence]
                                + Agreement(analyzerCount, 10, 5)) + 15 * quality)
      exploitable == exploitabilityScore(severity, analyzerCount, traced, quality)
  IN [state |-> decisionState(items, quality), quality |-> quality, confidenceScore |-> sure,
      exploitability |-> exploitable,
      priority |-> ClampScore(45 * severityBaseScore[severity] + 30 * sure + 25 * exploitable)]

-----------------------------------------------------------------------------
(* Aggregation                                                               *)

(* The fingerprints are sorted: it is the bag of them.                       *)
createAggregateFingerprint(group) ==
  [mark \in {group[p].fingerprint : p \in DOMAIN group} |->
     Cardinality({p \in DOMAIN group : group[p].fingerprint = mark})]

itemsOf(group) ==
  [q \in UNION {{p \o <<k>> : k \in DOMAIN group[p].items} : p \in DOMAIN group} |->
     group[<<q[1], q[2]>>].items[q[3]]]
uniqueFindingEvidence(items) ==
  uniqueObjectsBy(items, [q \in DOMAIN items |-> LET t == items[q] IN
    <<t.type, t.key, t.rule, t.file, t.line, t.text>>])

(* The finding with the highest score, the first of equals, gives the place. *)
aggregateGroup(group) ==
  LET of(p) == scoreFinding(group[p])
      scores == {of(p) : p \in DOMAIN group}
      highest == {p \in DOMAIN group : of(p) = Max(scores)}
      primary == group[CHOOSE p \in highest : \A q \in highest : ~ Before(q, p)]
      analyzers == {group[p].analyzer : p \in DOMAIN group}
      severity == maxSeverity({group[p].severity : p \in DOMAIN group})
      confidence == combineConfidence({group[p].confidence : p \in DOMAIN group}, Cardinality(analyzers))
      items == uniqueFindingEvidence(itemsOf(group))
  IN [fingerprint |-> createAggregateFingerprint(group),
      category |-> primary.category, severity |-> severity, confidence |-> confidence,
      risk |-> scoreAggregate(severity, confidence, primary.category, Cardinality(analyzers), scores),
      analyzers |-> analyzers, items |-> items,
      file |-> primary.file, line |-> primary.line, contract |-> primary.contract,
      text |-> primary.text,
      scores |-> score(severity, confidence, Cardinality(analyzers), items)]

aggregate(findings) ==
  LET group(key) == {p \in DOMAIN findings : findings[p].dedupeKey = key}
  IN {aggregateGroup(Restrict(findings, group(key))) : key \in {findings[p].dedupeKey : p \in DOMAIN findings}}

(* VulnerabilityNormalizationService.normalize, artifacts in their order.    *)
allFindings(artifacts) ==
  [p \in UNION {{<<i, j>> : j \in DOMAIN findingsOf(artifacts[i])} : i \in DOMAIN artifacts} |->
     findingsOf(artifacts[p[1]])[p[2]]]
normalize(artifacts) == aggregate(suppressExactDuplicateFindings(allFindings(artifacts)))

-----------------------------------------------------------------------------
(* The risk of the scan                                                      *)

(* 10 * log10(n + 1), in hundredths, of n vulnerabilities.                   *)
LOCAL Density == <<301, 477, 602, 699, 778, 845, 903, 954, 1000>>

LOCAL Aggregate(found) ==
  LET count(s) == Cardinality({v \in found : v.severity = s})
      total == FoldLeft(LAMBDA sum, v : sum + v.risk, 0, SetToSeq(found))
      n == Cardinality(found)
      average == IF n = 0 THEN 0 ELSE (2 * total + n) \div (2 * n)
  IN 100 * average + (IF n = 0 THEN 0 ELSE Density[n])
     + 1800 * count("CRITICAL") + 1000 * count("HIGH") + 500 * count("MEDIUM")
     + 200 * count("LOW") + 50 * count("INFORMATIONAL")

calculateRiskScore(found) ==
  AtMost(10000, Max({100 * v.risk : v \in found} \cup {Aggregate(found)}))
=============================================================================
