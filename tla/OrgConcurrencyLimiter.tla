------------------------ MODULE OrgConcurrencyLimiter ------------------------
(***************************************************************************)
(* The leases with which the workers bound the jobs of one organization    *)
(* that run at the same time: a sorted set in Redis with one member per    *)
(* execution, scored with the moment its lease runs out, changed only by   *)
(* two scripts and a ZREM.  Each execution renews its own lease from an    *)
(* interval whose length depends on the job's queue.  Time is counted in   *)
(* whole units that pass for every process and for Redis alike; what the   *)
(* code does when an interval fires happens before the next unit passes.   *)
(***************************************************************************)
EXTENDS Naturals, FiniteSets

CONSTANTS
  Workers,     \* worker processes; a restarted one has another id
  Jobs,        \* jobs of the organization
  MaxLeases,   \* DEFAULT_ORG_CONCURRENCY
  Ttl,         \* ORG_CONCURRENCY_LEASE_MS, in units of time
  RenewEvery,  \* per job: a twentieth of its queue's timeout, in units of time
  MaxFaults    \* bound: crashes, failed attempts and errors of Redis

ASSUME JobsAssumption == IsFiniteSet(Workers) /\ IsFiniteSet(Jobs)
ASSUME LeaseAssumption ==
  MaxLeases \in Nat \ {0} /\ Ttl \in Nat \ {0} /\ MaxFaults \in Nat
ASSUME RenewAssumption == RenewEvery \in [Jobs -> Nat \ {0}]

VARIABLES
  members,  \* the sorted set: executions with a lease, run out or not
  left,     \* time left of each lease
  keyLeft,  \* time left until Redis drops the whole key
  phase,    \* what BullMQ holds of each job
  running,  \* executions past the lease: <<worker, job>>
  timer,    \* time left until an execution renews its lease
  missed,   \* executions that have lost a renewal since their last good one
  alive,    \* workers that have not crashed
  faults    \* faults so far

leaseVars == <<members, left, keyLeft>>
runVars == <<phase, running, timer, missed>>
vars == <<leaseVars, runVars, alive, faults>>

(* leaseOwner: an execution is known by its worker and its job.            *)
Owners == Workers \X Jobs

Init ==
  /\ members = {} /\ left = [o \in Owners |-> 0] /\ keyLeft = 0
  /\ phase = [j \in Jobs |-> "waiting"]
  /\ running = {} /\ timer = [o \in Owners |-> 0] /\ missed = {}
  /\ alive = Workers /\ faults = 0

Fault == faults < MaxFaults /\ faults' = faults + 1

-----------------------------------------------------------------------------
(* The scripts.  ZADD and PEXPIRE, which both end with.                    *)
Touch(o, S) ==
  /\ members' = S \cup {o}
  /\ left' = [left EXCEPT ![o] = Ttl]
  /\ keyLeft' = Ttl

(* ZREMRANGEBYSCORE, which acquire starts with.                            *)
Unexpired == {o \in members : left[o] > 0}

(* Redis drops a key whose last member goes.                               *)
KeyOf(S) == IF S = {} THEN 0 ELSE keyLeft

Purge ==
  /\ members' = Unexpired /\ keyLeft' = KeyOf(Unexpired)
  /\ UNCHANGED left

(* ZREM: the release of a lease.                                           *)
Drop(o) ==
  /\ members' = members \ {o} /\ keyLeft' = KeyOf(members \ {o})
  /\ left' = [left EXCEPT ![o] = 0]

(* acquireLeaseScript, when there is a place and when there is none.       *)
Room == Cardinality(Unexpired) < MaxLeases

\* Mutant: ZADD without looking whether the lease is still there.
RenewBlind(o) == Touch(o, members)

(* renewLeaseScript.                                                       *)
RenewLease(o) ==
  IF o \in members THEN Touch(o, members) ELSE UNCHANGED leaseVars

-----------------------------------------------------------------------------
(* An execution of a job: runWithGuards.                                   *)
Ends(w, j, next) ==
  /\ running' = running \ {<<w, j>>}
  /\ timer' = [timer EXCEPT ![<<w, j>>] = 0]
  /\ missed' = missed \ {<<w, j>>}
  /\ phase' = [phase EXCEPT ![j] = next]

Takes(w, j) == w \in alive /\ phase[j] = "waiting"

(* A lease is there: the interval starts and the processor runs.           *)
Start(w, j) ==
  /\ Takes(w, j) /\ Room
  /\ Touch(<<w, j>>, Unexpired)
  /\ phase' = [phase EXCEPT ![j] = "active"]
  /\ running' = running \cup {<<w, j>>}
  /\ timer' = [timer EXCEPT ![<<w, j>>] = RenewEvery[j]]
  /\ UNCHANGED <<missed, alive, faults>>

\* Mutant: a job that found no place is not given back to the queue.
DeniedDrops(w, j) ==
  /\ Takes(w, j) /\ ~Room
  /\ Purge
  /\ phase' = [phase EXCEPT ![j] = "active"]
  /\ UNCHANGED <<running, timer, missed, alive, faults>>

(* None is: moveToDelayed.                                                 *)
Denied(w, j) ==
  /\ Takes(w, j) /\ ~Room
  /\ Purge
  /\ phase' = [phase EXCEPT ![j] = "delayed"]
  /\ UNCHANGED <<running, timer, missed, alive, faults>>

(* The answer of the script never comes: the attempt fails, and a lease    *)
(* may stay that nobody runs under.                                        *)
StartFails(w, j) ==
  /\ Takes(w, j) /\ Fault
  /\ \/ Room /\ Touch(<<w, j>>, Unexpired)
     \/ ~Room /\ Purge
     \/ UNCHANGED leaseVars
  /\ phase' = [phase EXCEPT ![j] = "delayed"]
  /\ UNCHANGED <<running, timer, missed, alive>>

(* A delayed job's time has come.                                          *)
DelayElapses(j) ==
  /\ phase[j] = "delayed"
  /\ phase' = [phase EXCEPT ![j] = "waiting"]
  /\ UNCHANGED <<leaseVars, running, timer, missed, alive, faults>>

(* The interval fires.                                                     *)
Renew(w, j) ==
  /\ <<w, j>> \in running /\ timer[<<w, j>>] = 0
  /\ RenewLease(<<w, j>>)
  /\ timer' = [timer EXCEPT ![<<w, j>>] = RenewEvery[j]]
  /\ missed' = IF <<w, j>> \in members THEN missed \ {<<w, j>>} ELSE missed
  /\ UNCHANGED <<phase, running, alive, faults>>

(* The same, and Redis is not reached: the error is logged.                *)
RenewFails(w, j) ==
  /\ <<w, j>> \in running /\ timer[<<w, j>>] = 0 /\ Fault
  /\ timer' = [timer EXCEPT ![<<w, j>>] = RenewEvery[j]]
  /\ missed' = missed \cup {<<w, j>>}
  /\ UNCHANGED <<leaseVars, phase, running, alive>>

(* The processor returns.                                                  *)
Finish(w, j) ==
  /\ <<w, j>> \in running
  /\ Drop(<<w, j>>) /\ Ends(w, j, "done")
  /\ UNCHANGED <<alive, faults>>

(* It throws, or the release does and stands for what the processor did:   *)
(* the job is to be tried again.                                           *)
Fail(w, j) ==
  /\ <<w, j>> \in running /\ Fault
  /\ Drop(<<w, j>>) \/ UNCHANGED leaseVars
  /\ Ends(w, j, "delayed")
  /\ UNCHANGED alive

(* A worker is gone with all its executions; BullMQ gives their jobs to    *)
(* other workers when it finds them stalled.  One worker always stays.     *)
Crash(w) ==
  /\ w \in alive /\ alive # {w} /\ Fault
  /\ alive' = alive \ {w}
  /\ phase' = [j \in Jobs |-> IF <<w, j>> \in running THEN "waiting" ELSE phase[j]]
  /\ running' = {o \in running : o[1] # w}
  /\ timer' = [o \in Owners |-> IF o[1] = w THEN 0 ELSE timer[o]]
  /\ missed' = {o \in missed : o[1] # w}
  /\ UNCHANGED leaseVars

(* A unit of time passes, once every interval that is due has fired.       *)
Less(n) == IF n = 0 THEN 0 ELSE n - 1

Tick ==
  /\ \A o \in running : timer[o] > 0
  /\ keyLeft' = Less(keyLeft)
  /\ left' = [o \in Owners |-> Less(left[o])]
  /\ members' = IF keyLeft' = 0 THEN {} ELSE members
  /\ timer' = [o \in Owners |-> Less(timer[o])]
  /\ UNCHANGED <<phase, running, missed, alive, faults>>

Execution(w, j) ==
  \/ Start(w, j) \/ Denied(w, j) \/ StartFails(w, j)
  \/ Renew(w, j) \/ RenewFails(w, j)
  \/ Finish(w, j) \/ Fail(w, j)

Next ==
  \/ \E w \in Workers, j \in Jobs : Execution(w, j)
  \/ \E j \in Jobs : DelayElapses(j)
  \/ \E w \in Workers : Crash(w)
  \/ Tick

Spec == Init /\ [][Next]_vars

(* Workers take the jobs that wait and processors return (withTimeout ends *)
(* them at the latest); BullMQ promotes delayed jobs; time passes.         *)
Fairness ==
  /\ \A j \in Jobs :
       /\ WF_vars(\E w \in Workers : Start(w, j) \/ Denied(w, j))
       /\ WF_vars(\E w \in Workers : Renew(w, j))
       /\ WF_vars(\E w \in Workers : Finish(w, j))
       /\ WF_vars(DelayElapses(j))
  /\ WF_vars(Tick)

FairSpec == Spec /\ Fairness

-----------------------------------------------------------------------------
(* A lease outside the set has no time left, and the key never goes before *)
(* a lease in it (PEXPIRE after every ZADD).                               *)
LeasesFit ==
  \A o \in Owners : left[o] <= keyLeft /\ (o \notin members => left[o] = 0)

(* An interval runs only while its execution does (clearInterval).         *)
IntervalsFit ==
  \A o \in Owners :
    timer[o] <= RenewEvery[o[2]] /\ (o \notin running => timer[o] = 0)

(* The types, and that an execution belongs to a worker that lives.        *)
TypeOK ==
  /\ members \subseteq Owners
  /\ left \in [Owners -> 0 .. Ttl] /\ keyLeft \in 0 .. Ttl
  /\ phase \in [Jobs -> {"waiting", "delayed", "active", "done"}]
  /\ running \subseteq alive \X Jobs /\ missed \subseteq running
  /\ timer \in [Owners -> Nat] /\ alive \subseteq Workers /\ faults \in 0 .. MaxFaults
  /\ LeasesFit /\ IntervalsFit

(* The executions whose interval is shorter than their lease and whose     *)
(* last renewal did not fail: those the leases are there to count.         *)
Punctual == {o \in running : RenewEvery[o[2]] < Ttl /\ o \notin missed}

(* Two workers that acquire, purge and renew in any order, around leases   *)
(* of executions that crashed or could not release, never let more of them *)
(* run than the organization may have.                                     *)
LimitHolds == Cardinality(Punctual) <= MaxLeases

(* The same of all executions: "workers enforce per-organization runtime   *)
(* concurrency" (production-security-review.md).  It is not so: a queue    *)
(* whose twentieth part is longer than the lease loses it before the first *)
(* renewal, and the renewal then finds nothing to renew.                   *)
AlwaysLimited == Cardinality(running) <= MaxLeases

(* Every job of the organization gets a place in the end and is done,      *)
(* though leases are lost with the workers that held them.                 *)
AllDone == \A j \in Jobs : <>(phase[j] = "done")
=============================================================================
