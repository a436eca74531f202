----------------------------- MODULE MCServices -----------------------------
(* Three instances in one run: each behaviour is of one of them, chosen by   *)
(* its initial state.                                                        *)
EXTENDS MonitorRuns, ThreatKnowledge, Membership, TLC

CONSTANTS i1, i2, i3, r1, r2, k1, c1, c2, g1, g2, a1, s1, s2, u1, u2, y1, y2, d1, d2

VARIABLE topic
mcVars == <<topic, monitorVars, threatVars, memberVars>>
MCSymmetry == Permutations({r1, r2}) \cup Permutations({c1, c2}) \cup Permutations({d1, d2})

-----------------------------------------------------------------------------
(* The monitor.                                                              *)

MCTargetOf == i1 :> 1 @@ i2 :> 2 @@ i3 :> 1
MCRulesOf == [i \in Items |-> {k1}]

(* The chain and the targets move while a run is idle: what a run has begun *)
(* reads neither, but for blocks that are final. Two instances:             *)
(* two targets with an item each, or one target with two events.            *)
Unseen(i) == blockOf[i] = 0 /\ i \notin cut /\ \A k \in alerts : k[2] # i
MCEnvironment ==
  /\ \E r \in Runs : run[r].at = "idle"
  /\ \/ \E S \in SUBSET (IF 2 \in active THEN {i1, i2} ELSE {i1, i3}) : Mine(S) \/ Reorg(S)
     \/ 1 \notin active /\ createTarget(1)
     \/ 1 \in active /\ 2 \notin active /\ Unseen(i3) /\ createTarget(2)
     \/ active = {1} /\ stopTarget(1)
MonitorPart ==
  \/ MCEnvironment
  \/ \E r \in Runs :
       \/ runOnce(r) \/ NextTarget(r) \/ getLogs(r) \/ scanTargetTransactions(r)
       \/ evaluateActivityDrift(r) \/ upsertCursor(r) \/ completeRun(r)
       \/ RunFails(r) \/ LosesRace(r)
       \/ \E i \in Items : persistEvent(r, i)
       \/ \E k \in run[r].cands : createAlert(r, k)
       \/ \E k \in run[r].missing : InsertAlert(r, k)
       \/ \E k \in run[r].found : deliverAlert(r, k)

-----------------------------------------------------------------------------
(* Threat knowledge.                                                         *)

MCFindings == <<g1, g2>>
MCAlerts == <<a1>>
MCFamily == s1 :> "REENTRANCY" @@ s2 :> "REPRODUCED_LOCAL_SIMULATION"
MCRequires == s1 :> {"p1", "p2b"} @@ s2 :> {}
MCCategory == g1 :> {"REENTRANCY"} @@ g2 :> {}
MCText == g1 :> {} @@ g2 :> {"REENTRANCY"}
MCKind == a1 :> {"REENTRANCY"}
MCRule == g1 :> [detector |-> "slither", name |-> "reentrancy"] @@ g2 :> [detector |-> "slither", name |-> ""]
Blank == [kind |-> "signature", own |-> TRUE, sources |-> 0, references |-> 0, signature |-> {s1}, conditions |-> 0, labels |-> 0, fair |-> TRUE]
MCShapes == {Blank, [Blank EXCEPT !.signature = {s2}, !.conditions = 1, !.own = FALSE],
  [Blank EXCEPT !.kind = "entry", !.own = FALSE, !.sources = 2, !.references = 1, !.signature = {}],
  [Blank EXCEPT !.kind = "import", !.own = FALSE, !.references = 1, !.labels = 1],
  [Blank EXCEPT !.kind = "import", !.labels = 1, !.signature = {}, !.fair = FALSE]}
(* Facts come in one order, each when a request is about to read some.       *)
Facts == <<<<g1, "p1">>, <<a1, "p9">>, <<g1, "p2b">>, <<g2, "reproduced">>, <<g1, "broken">>>>
LearnsNext ==
  \E i \in DOMAIN Facts :
    /\ \A j \in 1 .. i - 1 : Facts[j][2] \in proof[Facts[j][1]]
    /\ Learn(Facts[i][1], Facts[i][2])
Judges ==
  IF g1 \notin doubted THEN Doubt(g1)
  ELSE \E v \in {"ACCEPTED", "FALSE_POSITIVE"} : verdict[g1] = "OPEN" /\ Review(g1, v)
Reading(at) == \E c \in Callers : call[c].at = at

ThreatPart ==
  \/ Reading("match") /\ LearnsNext
  \/ Reading("measure") /\ Judges
  \/ \E c \in Callers :
       \/ \E shape \in Shapes : topic = "write" /\ Record(c, shape)
       \/ topic = "match" /\ (Record(c, Blank) \/ matchSignatureToScan(c, s1))
       \/ \E f \in Findings : topic = "report" /\ addFalsePositiveFeedback(c, f)
       \/ RequestStep(c)

-----------------------------------------------------------------------------
(* Membership.                                                               *)

MCScopes == y1 :> {"org:manage", "api_key:create"} @@ y2 :> {"projects:update"}
(* A second member at several points of his membership, and a key.           *)
Joined(status, role) == [status |-> status, role |-> role]
Seconds == {NoMember, Joined("INVITED", "DEVELOPER"), Joined("ACTIVE", "DEVELOPER"), Joined("ACTIVE", "OWNER"),
            Joined("SUSPENDED", "OWNER"), Joined("REMOVED", "OWNER")}
MembershipStart ==
  /\ org = "ACTIVE" /\ fuzzingAllowed = TRUE /\ asked = 0 /\ door = [d \in Doors |-> Closed]
  /\ \E second \in Seconds : members = u1 :> Joined("ACTIVE", "OWNER") @@ u2 :> second
  /\ keys = y1 :> "ACTIVE" @@ y2 :> "none"
  /\ onProject = u1 :> NoMember @@ u2 :> IF Live(members[u2]) /\ ~IsOwner(members[u2]) THEN [status |-> "ACTIVE"] ELSE NoMember
MCWishes ==
  {w \in Wishes : CASE w.op = "invite" -> w.who = u2
     [] w.op = "update" -> (w.role = "") # (w.status = "") /\ w.status \in {"", "ACTIVE", "SUSPENDED"}
     [] OTHER -> TRUE}
MembershipPart ==
  \E d \in Doors :
    \/ \E by \in People \cup {y1}, what \in MCWishes : Asking(d, by, what)
    \/ DoorStep(d)

-----------------------------------------------------------------------------
MCInit ==
  /\ MonitorInit /\ ThreatInit
  /\ topic \in {"monitor", "write", "match", "report", "members"}
  /\ IF topic = "members" THEN MembershipStart ELSE MembershipInit
MCNext ==
  /\ UNCHANGED topic
  /\ \/ topic = "monitor" /\ MonitorPart /\ UNCHANGED <<threatVars, memberVars>>
     \/ ThreatPart /\ UNCHANGED <<monitorVars, memberVars>>
     \/ topic = "members" /\ MembershipPart /\ UNCHANGED <<monitorVars, threatVars>>
MCSpec == MCInit /\ [][MCNext]_mcVars
=============================================================================
