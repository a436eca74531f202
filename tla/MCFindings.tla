----------------------------- MODULE MCFindings -----------------------------
(* Two instances in one run: each behaviour is of one of them, chosen by its *)
(* initial state.                                                            *)
EXTENDS FindingEvidence, FindingReview, TLC
CONSTANTS v1, f1, f2, t1, t2, r1, w1

VARIABLE active
mcVars == <<active, findingVars, reviewVars>>
Symmetry == Permutations({t1, t2})

-----------------------------------------------------------------------------
(* The evidence of the findings                                              *)

Issue == [rule |-> "reentrancy", text |-> "call", matched |-> {"REENTRANCY", "ACCESS_CONTROL"},
          severity |-> "high", confidence |-> "medium", file |-> "Vault.sol", contract |-> "Vault",
          line |-> 7, swcIds |-> <<>>, trace |-> FALSE, snippet |-> FALSE, given |-> ""]
Elsewhere == [Issue EXCEPT !.rule = "gas", !.text = "owner", !.matched = {"GAS_OPTIMIZATION"},
                           !.severity = "optimization", !.line = 0]
Traced == [Issue EXCEPT !.swcIds = <<107>>, !.trace = TRUE, !.confidence = "", !.text = "sequence"]
Given == [Issue EXCEPT !.severity = "error", !.given = "semgrep-1", !.snippet = TRUE, !.line = 30]

MCOutputs ==
  [slither |-> {<<Issue, Elsewhere, Issue>>}, mythril |-> {<<>>, <<Traced, Elsewhere>>},
   semgrep |-> {<<Given>>}, aderyn |-> {<<Elsewhere>>}, foundry |-> {<<>>}]

ASSUME MCToolsTellApart == ToolsTellApart

Solidity == <<
  [kind |-> "contract", name |-> "Vault", contract |-> "Vault", file |-> "Vault.sol", first |-> 1, last |-> 20],
  [kind |-> "function", name |-> "withdraw", contract |-> "Vault", file |-> "Vault.sol", first |-> 5, last |-> 9],
  [kind |-> "call", name |-> "msg.sender.call", contract |-> "Vault", file |-> "Vault.sol", first |-> 7, last |-> 7],
  [kind |-> "storage", name |-> "owner", contract |-> "Vault", file |-> "", first |-> 0, last |-> 0],
  [kind |-> "edge", name |-> "withdraw", contract |-> "Vault", callee |-> "withdraw", target |-> "",
   file |-> "Vault.sol", first |-> 7, last |-> 7]>>
Artifact == [readable |-> TRUE, solc |-> TRUE, small |-> TRUE, priority |-> 3, ast |-> "present", symbols |-> Solidity]
Bare == [persisted |-> <<>>, prepared |-> <<>>]
MCBuilds == {
  Bare,
  [persisted |-> <<[Artifact EXCEPT !.ast = "broken"]>>, prepared |-> <<Artifact>>],
  [persisted |-> <<[Artifact EXCEPT !.readable = FALSE]>>,
   prepared |-> <<[Artifact EXCEPT !.ast = "absent"], [Artifact EXCEPT !.priority = 0]>>]}
MCMentions == {<<"owner", "owner">>}

(* The analyzers run one by one in this order; one does not complete or runs *)
(* again, at any time until the job exists, and then only begins. What the   *)
(* build left, a reviewer and a validation are looked at when every analyzer *)
(* ran once and the artifacts are in that order.                             *)
Order == <<"slither", "mythril", "semgrep">>
Orderly == job = [i \in 1 .. Len(Order) |-> i] /\ Len(runs) = Len(Order)
Unasked == \A v \in Validations : asked[v] = Idle
Unreviewed == \A mark \in DOMAIN rows : rows[mark].status = "OPEN"
Troubles == {i \in DOMAIN runs' : runs'[i].status \in {"FAILED", "TOOL_NOT_INSTALLED"}}
OneByOne ==
  LET new == runs'[Len(runs')].analyzer
      settled(i) == runs[i].told \/ runs[i].status = "FAILED"
  IN IF RunsOf(new) # {} THEN new = "slither" /\ Len(runs) <= Len(Order)
     ELSE /\ \A i \in DOMAIN runs : settled(i)
          /\ \A i \in 1 .. Len(Order) : Order[i] = new => \A j \in 1 .. i - 1 : RunsOf(Order[j]) # {}
InOrder ==
  /\ Cardinality(Troubles) <= 1
  /\ Len(runs') > Len(runs) => OneByOne
  /\ job # <<>> => Len(runs') > Len(runs) /\ \A p \in Passes : pass[p].at \in {"idle", "normalize", "persist"}
  /\ build # Bare \/ Troubles # {} \/ Len(runs') > Len(Order) => \A i, j \in DOMAIN job' : i < j => job'[i] < job'[j]
  /\ build # Bare => Troubles = {} /\ Len(runs') <= Len(Order)

(* It is of the scan or of its traced finding, and while it lasts a pass may *)
(* only write its findings.                                                  *)
Validated ==
  /\ Orderly /\ Unreviewed /\ build = Bare /\ runs[2].output # <<>>
  /\ \A p \in Passes : pass[p].at \in {"idle", "write", "ir", "done", "failed"}
Asks(v) ==
  Wait(v, "idle") => asked'[v].about = Summary
                     \/ \A mark \in asked'[v].about : Cardinality(rows[mark].evidence) > 2

EvidenceNext ==
  \/ AnalyzerStep /\ InOrder
  \/ Unasked /\ scoreRisk
  \/ \E p \in Passes : (Unasked \/ At(p, "write")) /\ PassStep(p)
  \/ \E mark \in DOMAIN rows, verdict \in Verdicts :
       Orderly /\ Unreviewed /\ Unasked /\ reviewFinding(mark, verdict)
  \/ \E v \in Validations : Validated /\ ValidationStep(v) /\ Asks(v)

-----------------------------------------------------------------------------
(* Their review                                                              *)

MCMatches == r1 :> {f1, f2}

(* One finding: every operation. Two: suppressions and what they need.       *)
MayDo(t) == Found = {f1} \/ tx'[t].op.kind \in {"suppress", "unsuppress", "rule"}
Untouched == \A f \in Findings : review[f] = NoReview /\ ~patched[f]
                                 /\ \A t \in Txs : tx[t].op.kind \in {"NONE", "rule"}

ReviewPart ==
  \/ \E t \in Txs, f \in Findings : (ReviewOne(t, f) /\ MayDo(t)) \/ ReadReview(t, f) \/ WriteReview(t, f)
  \/ \E t \in Txs, r \in Rules : createSuppressionRule(t, r)
  \/ \E t \in Txs, w \in Owners : createCodeOwnerRule(t, w, Found) /\ MayDo(t)
  \/ \E t \in Txs : CommitUnmatched(t) \/ AbortReview(t)
  \/ \E r \in Rules : deleteSuppressionRule(r)
  \/ \E s \in {"ACKNOWLEDGED"} : Found = {f1} /\ updateVulnerability(f1, s)
  \/ persistNormalized(f1)
  \/ (f2 \in Found \/ Untouched) /\ persistNormalized(f2)

-----------------------------------------------------------------------------
MCInit ==
  /\ FindingInit /\ ReviewInit
  /\ active \in {"evidence", "review"}
  /\ active = "review" => build = Bare

MCNext ==
  /\ UNCHANGED active
  /\ \/ active = "evidence" /\ EvidenceNext /\ UNCHANGED reviewVars
     \/ active = "review" /\ ReviewPart /\ UNCHANGED findingVars
MCSpec == MCInit /\ [][MCNext]_mcVars
=============================================================================
