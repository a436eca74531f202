----------------------------- MODULE MonitorRuns -----------------------------
(* The on-chain monitor (monitoring.service.ts, runOnce): a run goes through  *)
(* the active targets of a project, reads from each one's cursor the finalized*)
(* blocks it has not seen, makes alerts of the events and calls its rules     *)
(* name, moves the cursor, and at the end tells the webhooks of every alert   *)
(* it came across. Runs are requests: several may overlap, each may fail.     *)
EXTENDS Naturals, FiniteSets

CONSTANTS
  Targets,     \* monitored addresses, numbered in the order they are gone through
  Items,       \* what may appear on the chain: events and calls
  TargetOf,    \* [Items -> the target that emits it or is called]
  RulesOf,     \* [Items -> the rules that make an alert of it]
  Calls,       \* the items that are calls, read from the blocks' transactions
  Runs,        \* runs under way at a time
  MaxBlock,    \* bound: the height the chain reaches
  ReorgDepth,  \* MONITORING_REORG_DEPTH
  MaxRange,    \* MONITORING_MAX_BLOCK_RANGE
  MaxEvents,   \* MONITORING_MAX_EVENTS_PER_RUN
  Multiplier,  \* of the rule on activity drift
  MaxFailures  \* bound: failed runs

ASSUME MonitorAssumption ==
  /\ Targets \subseteq Nat \ {0} /\ Calls \subseteq Items
  /\ TargetOf \in [Items -> Targets]
  /\ {MaxBlock, ReorgDepth, MaxEvents, MaxFailures} \subseteq Nat
  /\ {MaxRange, Multiplier} \subseteq Nat \ {0}

VARIABLES
  head,        \* number of the chain's latest block
  blockOf,     \* [Items -> the block it is in, 0 when it is in none]
  active,      \* the targets whose status is ACTIVE
  cursor,      \* [Targets -> its MonitorCursor, or NoCursor]
  alerts,      \* MonitorAlert: the idempotency keys <<rule, item>>
  run,         \* [Runs -> how far it is]
  told,        \* alerts a delivery was made of
  cut,         \* items a run left out because it had its number of events
  lost,        \* alerts a failed run had in hand and no run need come to again
  failures

chainVars == <<head, blockOf>>
monitorVars == <<head, blockOf, active, cursor, alerts, run, told, cut, lost, failures>>

\* `since` is the first block the cursor's runs have looked at.
NoCursor == [block |-> 0, since |-> 0, baseline |-> 0, row |-> FALSE]
NoRun == [at |-> "idle", todo |-> {}, final |-> 0, target |-> 0, read |-> NoCursor,
          queue |-> {}, cands |-> {}, missing |-> {}, found |-> {}, events |-> 0, here |-> {}]

MinOf(S) == CHOOSE x \in S : \A y \in S : x <= y
Finalized(latest) == IF latest > ReorgDepth THEN latest - ReorgDepth ELSE 0

computeFromBlock(c, final) ==
  IF c.row THEN c.block + 1
  ELSE IF final > MaxRange THEN final - MaxRange + 1 ELSE 0
FromBlock(q) == computeFromBlock(q.read, q.final)
ToBlock(q) == MinOf({q.final, FromBlock(q) + MaxRange - 1})

MonitorInit ==
  /\ head = 0 /\ blockOf = [i \in Items |-> 0]
  /\ active = {}
  /\ cursor = [t \in Targets |-> NoCursor]
  /\ alerts = {} /\ told = {} /\ cut = {} /\ lost = {} /\ failures = 0
  /\ run = [r \in Runs |-> NoRun]

(* The chain: a block with some items, and a reorganization no deeper than   *)
(* ReorgDepth, which takes items out of the blocks it replaces.              *)
Mine(S) ==
  /\ head < MaxBlock /\ \A i \in S : blockOf[i] = 0
  /\ head' = head + 1 /\ blockOf' = [i \in Items |-> IF i \in S THEN head + 1 ELSE blockOf[i]]
  /\ UNCHANGED <<active, cursor, alerts, run, told, cut, lost, failures>>

Reorg(S) ==
  /\ S # {} /\ \A i \in S : blockOf[i] + ReorgDepth > head
  /\ blockOf' = [i \in Items |-> IF i \in S THEN 0 ELSE blockOf[i]]
  /\ UNCHANGED <<head, active, cursor, alerts, run, told, cut, lost, failures>>

(* A target is created or its status is set; a deleted one keeps its cursor, *)
(* and goes on from there when it is created again.                          *)
upsertTarget(t) == active' = active \cup {t}
createTarget(t) ==
  /\ upsertTarget(t)
  /\ UNCHANGED <<head, blockOf, cursor, alerts, run, told, cut, lost, failures>>
stopTarget(t) ==
  /\ active' = active \ {t}
  /\ UNCHANGED <<head, blockOf, cursor, alerts, run, told, cut, lost, failures>>

(* The run takes the active targets and the latest block. Without a target   *)
(* it is over, and its row says NOT_ASSESSED.                                *)
createRun == [NoRun EXCEPT !.at = "next", !.todo = active, !.final = Finalized(head)]
runOnce(r) ==
  /\ run[r].at = "idle" /\ active # {}
  /\ run' = [run EXCEPT ![r] = createRun]
  /\ UNCHANGED <<head, blockOf, active, cursor, alerts, told, cut, lost, failures>>

(* The next target, with its cursor; one that is up to date is passed over.  *)
NextTarget(r) ==
  /\ run[r].at = "next" /\ run[r].todo # {}
  /\ LET t == MinOf(run[r].todo)
         q == [run[r] EXCEPT !.todo = @ \ {t}, !.target = t, !.read = cursor[t]]
     IN run' = [run EXCEPT ![r] = IF FromBlock(q) > ToBlock(q) THEN [q EXCEPT !.target = 0]
                                                               ELSE [q EXCEPT !.at = "logs"]]
  /\ UNCHANGED <<head, blockOf, active, cursor, alerts, told, cut, lost, failures>>

InRange(q) == {i \in Items : TargetOf[i] = q.target /\ blockOf[i] > 0
                             /\ blockOf[i] \in FromBlock(q) .. ToBlock(q)}

(* Its events, as many as the run still takes.                               *)
getLogs(r) ==
  LET q == run[r]
      logs == InRange(q) \ Calls
  IN /\ q.at = "logs"
     /\ \E S \in SUBSET logs :
          /\ Cardinality(S) = MinOf({Cardinality(logs), MaxEvents - q.events})
          /\ run' = [run EXCEPT ![r] = [q EXCEPT !.at = "events", !.queue = S, !.here = S]]
          /\ cut' = cut \cup (logs \ S)
     /\ UNCHANGED <<head, blockOf, active, cursor, alerts, told, lost, failures>>

Settled(q) == q.cands = {} /\ q.missing = {}

(* An event is stored and goes through the rules.                            *)
Candidates(i) == {<<k, i>> : k \in RulesOf[i]}
persistEvent(r, i) ==
  LET q == run[r]
  IN /\ q.at = "events" /\ Settled(q) /\ i \in q.queue
     /\ run' = [run EXCEPT ![r] = [q EXCEPT !.queue = @ \ {i}, !.events = @ + 1,
                                            !.cands = Candidates(i)]]
     /\ UNCHANGED <<head, blockOf, active, cursor, alerts, told, cut, lost, failures>>

(* After the events the calls of these blocks, and then the drift of their   *)
(* number, which becomes an alert about the first of them.                   *)
scanTargetTransactions(r) ==
  LET q == run[r]
  IN /\ q.at = "events" /\ q.queue = {} /\ Settled(q)
     /\ run' = [run EXCEPT ![r] = [q EXCEPT !.at = "calls",
                  !.cands = UNION {Candidates(i) : i \in InRange(q) \cap Calls}]]
     /\ UNCHANGED <<head, blockOf, active, cursor, alerts, told, cut, lost, failures>>

Drifts(q) == q.here # {} /\ q.read.baseline > 0
             /\ Cardinality(q.here) >= q.read.baseline * Multiplier

evaluateActivityDrift(r) ==
  LET q == run[r]
  IN /\ q.at = "calls" /\ Settled(q)
     /\ \E i \in q.here \cup {0} :
          /\ i = 0 <=> ~Drifts(q)
          /\ run' = [run EXCEPT ![r] = [q EXCEPT !.at = "advance",
                       !.cands = IF i = 0 THEN {} ELSE {<<"drift", i>>}]]
     /\ UNCHANGED <<head, blockOf, active, cursor, alerts, told, cut, lost, failures>>

\* Mutant: an alert that exists is not one of this run.
createNew(r, k) ==
  /\ run[r].missing = {} /\ k \in run[r].cands
  /\ run' = [run EXCEPT ![r].cands = @ \ {k}, ![r].missing = IF k \in alerts THEN {} ELSE {k}]
  /\ UNCHANGED <<head, blockOf, active, cursor, alerts, told, cut, lost, failures>>

(* createAlert looks its key up, and inserts what is not there by a query of *)
(* its own, which fails when another run was faster. An alert that exists    *)
(* counts as one of this run.                                                *)
createAlert(r, k) ==
  /\ run[r].missing = {} /\ k \in run[r].cands
  /\ run' = [run EXCEPT ![r].cands = @ \ {k}, ![r].found = IF k \in alerts THEN @ \cup {k} ELSE @,
                        ![r].missing = IF k \in alerts THEN {} ELSE {k}]
  /\ UNCHANGED <<head, blockOf, active, cursor, alerts, told, cut, lost, failures>>

InsertAlert(r, k) ==
  /\ k \in run[r].missing /\ k \notin alerts
  /\ alerts' = alerts \cup {k}
  /\ run' = [run EXCEPT ![r].missing = {}, ![r].found = @ \cup {k}]
  /\ UNCHANGED <<head, blockOf, active, cursor, told, cut, lost, failures>>

\* Mutant: the cursor moves to the last block there is, not to the last one read.
cursorToLast(r) ==
  LET q == run[r]
      since == IF q.read.row THEN q.read.since ELSE FromBlock(q)
  IN /\ q.at = "advance" /\ Settled(q)
     /\ cursor' = [cursor EXCEPT ![q.target] =
          [block |-> q.final, since |-> since, baseline |-> Cardinality(q.here), row |-> TRUE]]
     /\ run' = [run EXCEPT ![r] = [q EXCEPT !.at = "next", !.target = 0, !.read = NoCursor, !.here = {}]]
     /\ UNCHANGED <<head, blockOf, active, alerts, told, cut, lost, failures>>

(* The cursor moves to the end of the range, whatever it is by now.          *)
upsertCursor(r) ==
  LET q == run[r]
      since == IF q.read.row THEN q.read.since ELSE FromBlock(q)
  IN /\ q.at = "advance" /\ Settled(q)
     /\ cursor' = [cursor EXCEPT ![q.target] =
          [block |-> ToBlock(q), since |-> since, baseline |-> Cardinality(q.here), row |-> TRUE]]
     /\ run' = [run EXCEPT ![r] = [q EXCEPT !.at = "next", !.target = 0, !.read = NoCursor, !.here = {}]]
     /\ UNCHANGED <<head, blockOf, active, alerts, told, cut, lost, failures>>

(* After the last target the run is completed and tells the webhooks of its  *)
(* alerts, one at a time; what a webhook answers is kept, not tried again.   *)
completeRun(r) ==
  /\ run[r].at = "next" /\ run[r].todo = {}
  /\ run' = [run EXCEPT ![r] = IF run[r].found = {} THEN NoRun
                               ELSE [NoRun EXCEPT !.at = "deliver", !.found = run[r].found]]
  /\ UNCHANGED <<head, blockOf, active, cursor, alerts, told, cut, lost, failures>>

deliverAlert(r, k) ==
  /\ run[r].at = "deliver" /\ k \in run[r].found
  /\ told' = told \cup {k}
  /\ run' = [run EXCEPT ![r] = IF run[r].found = {k} THEN NoRun ELSE [run[r] EXCEPT !.found = @ \ {k}]]
  /\ UNCHANGED <<head, blockOf, active, cursor, alerts, cut, lost, failures>>

(* A run ends: the provider fails twice, a query fails, an alert was made by *)
(* another run meanwhile, or the process ends. Nothing is told of then. Runs  *)
(* come to an alert again while its block is ahead of the cursor and of what  *)
(* each of them reads; where there is no cursor yet they may start past it.   *)
Ahead(k) ==
  LET t == TargetOf[k[2]]
  IN /\ cursor[t].row /\ cursor[t].block < blockOf[k[2]]
     /\ \A r \in Runs : run[r].target = t => FromBlock(run[r]) <= blockOf[k[2]]

Fails(r) ==
  /\ lost' = lost \cup {k \in run[r].found \ told : ~Ahead(k)}
  /\ run' = [run EXCEPT ![r] = NoRun]
  /\ UNCHANGED <<head, blockOf, active, cursor, alerts, told, cut>>

RunFails(r) ==
  /\ run[r].at # "idle" /\ failures < MaxFailures
  /\ failures' = failures + 1 /\ Fails(r)

LosesRace(r) ==
  /\ run[r].missing \cap alerts # {}
  /\ Fails(r) /\ UNCHANGED failures

MonitorNext ==
  \/ \E S \in SUBSET Items : Mine(S) \/ Reorg(S)
  \/ \E t \in Targets : createTarget(t) \/ stopTarget(t)
  \/ \E r \in Runs :
       \/ runOnce(r) \/ NextTarget(r) \/ getLogs(r) \/ scanTargetTransactions(r)
       \/ evaluateActivityDrift(r) \/ upsertCursor(r) \/ completeRun(r)
       \/ RunFails(r) \/ LosesRace(r)
       \/ \E i \in Items : persistEvent(r, i)
       \/ \E k \in run[r].cands : createAlert(r, k)
       \/ \E k \in run[r].missing : InsertAlert(r, k)
       \/ \E k \in run[r].found : deliverAlert(r, k)

MonitorSpec == MonitorInit /\ [][MonitorNext]_monitorVars

MonitorTypeOK ==
  /\ head \in 0 .. MaxBlock /\ blockOf \in [Items -> 0 .. MaxBlock] /\ active \subseteq Targets
  /\ \A t \in Targets : cursor[t].block \in 0 .. MaxBlock
  /\ told \subseteq alerts /\ lost \subseteq alerts /\ cut \subseteq Items \ Calls

(* Whatever runs overlap or fail, a cursor never passes over what a rule     *)
(* names: each of its items in a block the cursor has behind it has its      *)
(* alerts, but for what a run left out because it had its number of events.  *)
NothingPassedOver ==
  \A i \in Items \ cut : LET c == cursor[TargetOf[i]]
    IN c.row /\ blockOf[i] > 0 /\ blockOf[i] \in c.since .. c.block
       => \A k \in RulesOf[i] : <<k, i>> \in alerts

(* No alert is forgotten: while the webhooks have not been told, a run has   *)
(* it in hand, or its block is ahead of the cursor and of every run, or a run *)
(* failed that had it in hand when it was not, or a run left its event out.   *)
NothingForgotten ==
  \A k \in alerts \ (told \cup lost) :
    \/ \E r \in Runs : k \in run[r].found
    \/ k[1] = "drift" \/ k[2] \in cut
    \/ Ahead(k)
=============================================================================
