------------------------------ MODULE MCWorkers ------------------------------
(* Two instances in one run: each behaviour is of the leases or of the       *)
(* executions in the sandbox, as its initial state says.                     *)
EXTENDS OrgConcurrencyLimiter, SandboxRuns, TLC

CONSTANTS h1, h2, r1, r2, p1, p2

(* One unit is 30 seconds; the lease has 4.  Queues of 10, 30 and 60 minutes. *)
ThreeJobs == 1 .. 3
MixedQueues == <<1, 3, 6>>
Elsewhere == [r \in Runs |-> h2]

VARIABLE active
mcVars == <<active, vars, sandboxVars>>

(* No lease and no job that waits for one.                                   *)
NoJobs ==
  /\ members = {} /\ left = [o \in Owners |-> 0] /\ keyLeft = 0
  /\ phase = [j \in Jobs |-> "done"] /\ running = {} /\ timer = [o \in Owners |-> 0]
  /\ missed = {} /\ alive = Workers /\ faults = 0

MCInit ==
  /\ SandboxInit
  /\ \/ active = "leases" /\ Init /\ driver = "local"
     \/ active = "sandbox" /\ NoJobs

(* What an execution does once its container is closed is seen by no other:  *)
(* nothing comes between. The second execution only shares the source with   *)
(* the first, or the source is prepared a second time.                       *)
Collecting(r) == at[r] \in {"closed", "collect", "cleanup"}
SandboxPart ==
  IF \E r \in Runs : Collecting(r)
  THEN \E r \in Runs : Collecting(r) /\ Executing(r) /\ UNCHANGED writes
  ELSE /\ SandboxNext
       /\ ~aborted'[r2] /\ flags'[r2] = {} /\ output'[r2] \in {{}, {"zero", "json"}}
       /\ at'[r2] = "closed" => box[r2] = "gone"
       /\ at'[r2] = "idle" \/ prep'[p2].at = "idle"

MCNext ==
  /\ UNCHANGED active
  /\ \/ active = "leases" /\ Next /\ UNCHANGED sandboxVars
     \/ active = "sandbox" /\ SandboxPart /\ UNCHANGED vars

MCSpec == MCInit /\ [][MCNext]_mcVars /\ Fairness /\ SandboxFairness
=============================================================================
