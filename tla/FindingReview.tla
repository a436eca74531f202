---------------------------- MODULE FindingReview ----------------------------
(* The review of findings (review.repository.ts): what reviewers decide about *)
(* a finding is kept in its FindingReview row and in the status of its        *)
(* Vulnerability row, which two other writers know as well: the vulnerability *)
(* endpoint, and the normalization of a scan that is tried again. Every       *)
(* operation is a transaction of Postgres at READ COMMITTED: it reads the     *)
(* committed row, then writes, and holds what it wrote until it ends.         *)
EXTENDS Naturals

CONSTANTS
  Findings,    \* fingerprints of a scan
  Txs,         \* transactions open at a time
  Rules,       \* suppression rules that may be created
  Matches,     \* [Rules -> the findings its matchers accept]
  Decisions,   \* review statuses the reviewers choose from
  Owners       \* assignees and code owners

ReviewStatuses == {"UNREVIEWED", "NEEDS_REVIEW", "ACCEPTED", "FALSE_POSITIVE",
  "RISK_ACCEPTED", "FIXED", "WONT_FIX", "DUPLICATE", "SUPPRESSED"}
VulnerabilityStatuses == {"OPEN", "ACKNOWLEDGED", "FALSE_POSITIVE",
  "ACCEPTED_RISK", "FIXED", "SUPPRESSED"}

ASSUME ReviewAssumption ==
  /\ Decisions \subseteq ReviewStatuses
  /\ Matches \in [Rules -> SUBSET Findings]

VARIABLES
  status,      \* [Findings -> Vulnerability.status, "NONE" before it is found]
  review,      \* [Findings -> its FindingReview row, or NoReview]
  rule,        \* [Rules -> "NONE", "ACTIVE" or "DELETED"]
  tx,          \* [Txs -> the transaction and how far it is, or NoTx]
  shown,       \* [Findings -> the last review status that was not SUPPRESSED]
  disturbed,   \* [Findings -> what its review remembers may be out of date]
  patched      \* [Findings -> the vulnerability endpoint wrote the status last]

reviewVars == <<status, review, rule, tx, shown, disturbed, patched>>

NoReview == [status |-> "NONE", before |-> "NONE", rule |-> "NONE", owner |-> "NONE"]
NoTx == [op |-> [kind |-> "NONE"]]
Otherwise(s, default) == IF s = "NONE" THEN default ELSE s
StatusOf(row) == Otherwise(row.status, "UNREVIEWED")
Found == {f \in Findings : status[f] # "NONE"}

ReviewTypeOK ==
  /\ status \in [Findings -> VulnerabilityStatuses \cup {"NONE"}]
  /\ review \in [Findings ->
       [status : ReviewStatuses \cup {"NONE"}, before : ReviewStatuses \cup {"NONE"},
        rule : Rules \cup {"NONE"}, owner : Owners \cup {"NONE"}]]
  /\ rule \in [Rules -> {"NONE", "ACTIVE", "DELETED"}]

ReviewInit ==
  /\ status = [f \in Findings |-> "NONE"]
  /\ review = [f \in Findings |-> NoReview]
  /\ rule = [r \in Rules |-> "NONE"]
  /\ tx = [t \in Txs |-> NoTx]
  /\ shown = [f \in Findings |-> "UNREVIEWED"]
  /\ disturbed = [f \in Findings |-> FALSE]
  /\ patched = [f \in Findings |-> FALSE]

mapReviewStatus(s) ==
  CASE s = "FALSE_POSITIVE" -> "FALSE_POSITIVE"
    [] s = "RISK_ACCEPTED" -> "ACCEPTED_RISK"
    [] s = "FIXED" -> "FIXED"
    [] s = "SUPPRESSED" -> "SUPPRESSED"
    [] OTHER -> "OPEN"

SetsStatus(o) == o.kind \in {"status", "suppress", "unsuppress", "rule"}

\* Mutant: what is suppressed already is remembered as SUPPRESSED.
SuppressForgets(o, read, row) ==
  [row EXCEPT !.status = "SUPPRESSED", !.before = StatusOf(read),
              !.rule = Otherwise(o.rule, read.rule)]

(* The row an operation leaves: `read` is what it found at first, `row` what *)
(* is there when it writes. The row a status change creates remembers       *)
(* nothing (the create branch of its upsert).                                *)
Suppress(o, read, row) ==
  [row EXCEPT
     !.status = "SUPPRESSED",
     !.before = IF StatusOf(read) = "SUPPRESSED" THEN Otherwise(read.before, "UNREVIEWED")
                                                 ELSE StatusOf(read),
     !.rule = Otherwise(o.rule, read.rule)]

changeStatus(o, read, row) ==
  [row EXCEPT
     !.status = o.status,
     !.before = IF o.status = "SUPPRESSED" /\ row # NoReview THEN StatusOf(read) ELSE "NONE"]

Unsuppress(read, row) ==
  [row EXCEPT !.status = Otherwise(read.before, "UNREVIEWED"), !.before = "NONE", !.rule = "NONE"]

ensureReview(row) == [row EXCEPT !.status = StatusOf(row)]

After(o, read, row) ==
  CASE o.kind = "status" -> changeStatus(o, read, row)
    [] o.kind \in {"suppress", "rule"} -> Suppress(o, read, row)
    [] o.kind = "unsuppress" -> Unsuppress(read, row)
    [] o.kind = "comment" -> ensureReview(row)
    [] o.kind \in {"assign", "owner"} -> [ensureReview(row) EXCEPT !.owner = o.owner]

Over(new, old) == [f \in DOMAIN new \cup DOMAIN old |-> IF f \in DOMAIN new THEN new[f] ELSE old[f]]

Written(t) == IF tx[t] = NoTx THEN {} ELSE DOMAIN tx[t].pending
LockedBy(f, t) == f \in Written(t)
Locked(f, t) == \E u \in Txs \ {t} : LockedBy(f, u)

(* A transaction begins: `at` is the finding whose row it has read last, `todo` *)
(* the ones that follow. One about a single finding begins with that read.   *)
Begin(t, o, todo, at) ==
  /\ tx[t] = NoTx
  /\ tx' = [tx EXCEPT ![t] = [op |-> o, todo |-> todo, at |-> at, pending |-> <<>>,
                              read |-> [f \in at |-> review[f]]]]
  /\ UNCHANGED <<status, review, rule, shown, disturbed, patched>>

(* An operation on one finding. A suppression may name a rule, which exists  *)
(* (the column is a foreign key).                                            *)
ReviewOne(t, f) ==
  /\ f \in Found
  /\ \/ \E s \in Decisions : Begin(t, [kind |-> "status", status |-> s], {}, {f})
     \/ \E r \in {q \in Rules : rule[q] # "NONE"} \cup {"NONE"} :
          Begin(t, [kind |-> "suppress", rule |-> r], {}, {f})
     \/ Begin(t, [kind |-> "unsuppress"], {}, {f})
     \/ Begin(t, [kind |-> "comment"], {}, {f})
     \/ \E w \in Owners : Begin(t, [kind |-> "assign", owner |-> w], {}, {f})

(* A new suppression rule, and a new code owner rule: the findings they      *)
(* match are listed as the transaction begins, later ones are not touched.   *)
createSuppressionRule(t, r) ==
  /\ rule[r] = "NONE" /\ \A u \in Txs : ~(tx[u].op.kind = "rule" /\ tx[u].op.rule = r)
  /\ Begin(t, [kind |-> "rule", rule |-> r], Found \cap Matches[r], {})

createCodeOwnerRule(t, w, findings) ==
  /\ findings \subseteq Found
  /\ Begin(t, [kind |-> "owner", owner |-> w], findings, {})

(* The transaction takes up the next finding and reads its committed row.    *)
ReadReview(t, f) ==
  /\ tx[t] # NoTx /\ tx[t].at = {} /\ f \in tx[t].todo
  /\ tx' = [tx EXCEPT ![t].todo = @ \ {f}, ![t].at = {f}, ![t].read = Over([g \in {f} |-> review[f]], @)]
  /\ UNCHANGED <<status, review, rule, shown, disturbed, patched>>

(* What a transaction remembers is out of date when another one changed the  *)
(* status after it was read, or when SUPPRESSED was put on top of SUPPRESSED.*)
Stale(o, f) ==
  \/ StatusOf(o.read[f]) # StatusOf(review[f]) \/ o.read[f].before # review[f].before
  \/ o.op.kind = "status" /\ review[f].status = "SUPPRESSED"
  \/ disturbed[f] /\ review[f].status = "SUPPRESSED"

Publish(o, rows) ==
  LET done == DOMAIN rows
      New(f) == rows[f].status
  IN /\ review' = Over(rows, review)
     /\ IF SetsStatus(o.op)
        THEN /\ status' = Over([f \in done |-> mapReviewStatus(New(f))], status)
             /\ patched' = Over([f \in done |-> FALSE], patched)
             /\ shown' = Over([f \in done |-> IF New(f) = "SUPPRESSED" THEN shown[f] ELSE New(f)], shown)
             /\ disturbed' = Over([f \in done |-> New(f) = "SUPPRESSED" /\ Stale(o, f)], disturbed)
        ELSE UNCHANGED <<status, patched, shown, disturbed>>

(* It writes the row as soon as nobody else holds it; the last write is      *)
(* committed at once, an earlier one is held until then.                     *)
WriteReview(t, f) ==
  /\ tx[t] # NoTx /\ tx[t].at = {f} /\ ~Locked(f, t)
  /\ LET rows == Over([g \in {f} |-> After(tx[t].op, tx[t].read[f], review[f])], tx[t].pending)
     IN IF tx[t].todo = {}
        THEN /\ Publish(tx[t], rows)
             /\ rule' = IF tx[t].op.kind = "rule" THEN [rule EXCEPT ![tx[t].op.rule] = "ACTIVE"] ELSE rule
             /\ tx' = [tx EXCEPT ![t] = NoTx]
        ELSE /\ tx' = [tx EXCEPT ![t].at = {}, ![t].pending = rows]
             /\ UNCHANGED <<status, review, rule, shown, disturbed, patched>>

(* A rule that matches nothing is committed alone.                           *)
CommitUnmatched(t) ==
  /\ tx[t] # NoTx /\ tx[t].at = {} /\ tx[t].todo = {}
  /\ rule' = IF tx[t].op.kind = "rule" THEN [rule EXCEPT ![tx[t].op.rule] = "ACTIVE"] ELSE rule
  /\ tx' = [tx EXCEPT ![t] = NoTx]
  /\ UNCHANGED <<status, review, shown, disturbed, patched>>

(* It ends early and leaves nothing: it ran too long, its connection is lost,*)
(* or it waits in a circle and Postgres chooses it.                          *)
AbortReview(t) ==
  /\ tx[t] # NoTx
  /\ tx' = [tx EXCEPT ![t] = NoTx]
  /\ UNCHANGED <<status, review, rule, shown, disturbed, patched>>

deleteSuppressionRule(r) ==
  /\ rule[r] = "ACTIVE"
  /\ rule' = [rule EXCEPT ![r] = "DELETED"]
  /\ UNCHANGED <<status, review, tx, shown, disturbed, patched>>

(* PATCH of a vulnerability: its status alone, the review is not looked at.  *)
updateVulnerability(f, s) ==
  /\ f \in Found /\ ~\E t \in Txs : LockedBy(f, t) /\ SetsStatus(tx[t].op)
  /\ status' = [status EXCEPT ![f] = s] /\ patched' = [patched EXCEPT ![f] = TRUE]
  /\ UNCHANGED <<review, rule, tx, shown, disturbed>>

\* Mutant: normalizing again opens the finding again.
persistAgain(f) ==
  /\ ~\E t \in Txs : LockedBy(f, t) /\ SetsStatus(tx[t].op)
  /\ status' = [status EXCEPT ![f] = "OPEN"]
  /\ UNCHANGED <<review, rule, tx, shown, disturbed, patched>>

(* Normalization of the scan: a new fingerprint becomes an OPEN finding, the *)
(* status of one that is there is left alone when the job is tried again.    *)
persistNormalized(f) ==
  /\ ~\E t \in Txs : LockedBy(f, t) /\ SetsStatus(tx[t].op)
  /\ status' = [status EXCEPT ![f] = IF @ = "NONE" THEN "OPEN" ELSE @]
  /\ UNCHANGED <<review, rule, tx, shown, disturbed, patched>>

ReviewNext ==
  \/ \E t \in Txs, f \in Findings : ReviewOne(t, f) \/ ReadReview(t, f) \/ WriteReview(t, f)
  \/ \E t \in Txs, r \in Rules : createSuppressionRule(t, r)
  \/ \E t \in Txs, w \in Owners, fs \in SUBSET Findings : createCodeOwnerRule(t, w, fs)
  \/ \E t \in Txs : CommitUnmatched(t) \/ AbortReview(t)
  \/ \E r \in Rules : deleteSuppressionRule(r)
  \/ \E f \in Findings, s \in VulnerabilityStatuses : updateVulnerability(f, s)
  \/ \E f \in Findings : persistNormalized(f)

ReviewSpec == ReviewInit /\ [][ReviewNext]_reviewVars

(* The two rows of a finding tell the same: unless the endpoint of the       *)
(* vulnerability wrote last, its status is the one that belongs to the       *)
(* review, however transactions overlap and normalization is repeated.       *)
ReviewAndFindingAgree ==
  \A f \in Findings : review[f] # NoReview /\ ~patched[f]
     => status[f] = mapReviewStatus(review[f].status)

(* What a suppressed finding remembers is the status that was last shown,    *)
(* unless another transaction changed it between the read and the write, or  *)
(* a status change put SUPPRESSED on top of it.                              *)
RemembersShown ==
  \A f \in Findings : review[f].status = "SUPPRESSED" /\ ~disturbed[f]
     => Otherwise(review[f].before, "UNREVIEWED") = shown[f]

=============================================================================
