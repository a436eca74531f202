---------------------------- MODULE WorkersProofs ----------------------------
(* What TLAPS proves of what the workers share: the leases that bound the      *)
(* executions of an organization, for any workers, jobs, lengths of leases     *)
(* and intervals, and the executions of the scanners in their sandbox, for     *)
(* any files, preparations, executions, workers and mishaps.                   *)
EXTENDS OrgConcurrencyLimiter, SandboxRuns, FiniteSetTheorems, TLAPS

-----------------------------------------------------------------------------
(* The sorted set never has more members than the organization has places. *)
Fits == Cardinality(members) <= MaxLeases

(* A punctual execution is in it, and its lease outlives its interval.     *)
OnTime ==
  \A o \in Punctual : o \in members /\ left[o] + RenewEvery[o[2]] >= Ttl + timer[o]

(* The parts of TypeOK an action changes as a whole.                       *)
LeaseTypes ==
  members \subseteq Owners /\ left \in [Owners -> 0 .. Ttl] /\ keyLeft \in 0 .. Ttl /\ LeasesFit
TimerTypes == timer \in [Owners -> Nat] /\ IntervalsFit

IInv == TypeOK /\ Fits /\ OnTime

LEMMA OwnersFinite == IsFiniteSet(Owners)
  BY FS_Product, JobsAssumption DEF Owners

(* What a set of owners keeps of the bound.                                *)
LEMMA SubsetFits ==
  ASSUME NEW S, NEW T, S \subseteq T, T \subseteq Owners, Cardinality(T) <= MaxLeases
  PROVE  Cardinality(S) <= MaxLeases
<1>1. IsFiniteSet(T) BY OwnersFinite, FS_Subset
<1>2. IsFiniteSet(S) /\ Cardinality(S) <= Cardinality(T) BY <1>1, FS_Subset
<1> QED BY <1>1, <1>2, FS_CardinalityType, LeaseAssumption

(* And one more member, when there was room for it.                        *)
LEMMA OneMoreFits ==
  ASSUME NEW S, S \subseteq Owners, NEW o \in Owners, Cardinality(S) < MaxLeases
  PROVE  Cardinality(S \cup {o}) <= MaxLeases
<1>1. IsFiniteSet(S) BY OwnersFinite, FS_Subset
<1>2. Cardinality(S) \in Nat BY <1>1, FS_CardinalityType
<1>3. Cardinality(S \cup {o}) \in {Cardinality(S), Cardinality(S) + 1}
  BY <1>1, FS_AddElement
<1> QED BY <1>2, <1>3, LeaseAssumption

LEMMA InitHolds == Init => IInv
<1> SUFFICES ASSUME Init PROVE IInv OBVIOUS
<1>1. TypeOK BY LeaseAssumption, RenewAssumption DEF Init, TypeOK, LeasesFit, IntervalsFit, Owners
<1>2. Fits BY FS_EmptySet, LeaseAssumption DEF Init, Fits
<1>3. OnTime BY DEF Init, OnTime, Punctual
<1> QED BY <1>1, <1>2, <1>3 DEF IInv

LEMMA StepHolds == IInv /\ [Next]_vars => IInv'
<1> SUFFICES ASSUME IInv, [Next]_vars PROVE IInv' OBVIOUS
<1> USE LeaseAssumption, RenewAssumption
<1> USE DEF IInv, LeasesFit, IntervalsFit, LeaseTypes, TimerTypes
<1>1. ASSUME NEW w \in Workers, NEW j \in Jobs, Start(w, j) PROVE IInv'
  <2>1. TypeOK'
    <3>0. <<w, j>> \in Owners /\ w \in alive BY <1>1 DEF Start, Takes, Owners
    <3>1. LeaseTypes'
      BY <1>1, <3>0 DEF Start, Touch, Unexpired, TypeOK
    <3>2. TimerTypes'
      BY <1>1, <3>0 DEF Start, TypeOK
    <3>3. running' \subseteq alive' \X Jobs /\ missed' \subseteq running'
      BY <1>1, <3>0 DEF Start, TypeOK
    <3> QED BY <1>1, <3>1, <3>2, <3>3 DEF Start, TypeOK
  <2>2. Fits' BY <1>1, OneMoreFits DEF Start, Room, Touch, Unexpired, Fits, TypeOK, Owners
  <2>3. OnTime' BY <1>1 DEF Start, Touch, Unexpired, OnTime, Punctual, TypeOK, Owners
  <2> QED BY <2>1, <2>2, <2>3
<1>2. ASSUME NEW w \in Workers, NEW j \in Jobs, Denied(w, j) PROVE IInv'
  <2>1. TypeOK' BY <1>2 DEF Denied, Purge, KeyOf, Unexpired, TypeOK, Owners
  <2>2. Fits' BY <1>2, SubsetFits DEF Denied, Purge, Unexpired, Fits, TypeOK
  <2>3. OnTime' BY <1>2 DEF Denied, Purge, Unexpired, OnTime, Punctual, TypeOK, Owners
  <2> QED BY <2>1, <2>2, <2>3
<1>3. ASSUME NEW w \in Workers, NEW j \in Jobs, StartFails(w, j) PROVE IInv'
  <2>1. TypeOK'
    <3>0. <<w, j>> \in Owners BY DEF Owners
    <3>1. LeaseTypes'
      <4>1. CASE Touch(<<w, j>>, Unexpired)
        BY <4>1, <3>0 DEF Touch, Unexpired, TypeOK
      <4>2. CASE Purge
        BY <4>2 DEF Purge, KeyOf, Unexpired, TypeOK
      <4>3. CASE UNCHANGED leaseVars
        BY <4>3 DEF leaseVars, TypeOK
      <4> QED BY <1>3, <4>1, <4>2, <4>3 DEF StartFails
    <3> QED BY <1>3, <3>1 DEF StartFails, Fault, TypeOK
  <2>2. Fits'
    BY <1>3, SubsetFits, OneMoreFits
    DEF StartFails, Room, Touch, Purge, Unexpired, leaseVars, Fits, TypeOK, Owners
  <2>3. OnTime'
    BY <1>3 DEF StartFails, Touch, Purge, Unexpired, leaseVars, OnTime, Punctual, TypeOK, Owners
  <2> QED BY <2>1, <2>2, <2>3
<1>4. ASSUME NEW j \in Jobs, DelayElapses(j) PROVE IInv'
  BY <1>4 DEF DelayElapses, leaseVars, TypeOK, Fits, OnTime, Punctual
<1>5. ASSUME NEW w \in Workers, NEW j \in Jobs, Renew(w, j) PROVE IInv'
  <2>1. TypeOK'
    <3>0. <<w, j>> \in Owners BY DEF Owners
    <3>1. LeaseTypes' BY <1>5, <3>0 DEF Renew, RenewLease, Touch, leaseVars, TypeOK
    <3>2. TimerTypes' BY <1>5, <3>0 DEF Renew, TypeOK
    <3> QED BY <1>5, <3>1, <3>2 DEF Renew, TypeOK
  <2>2. Fits'
    <3>1. <<w, j>> \in members => members \cup {<<w, j>>} = members OBVIOUS
    <3> QED BY <1>5, <3>1 DEF Renew, RenewLease, Touch, leaseVars, Fits
  <2>3. OnTime' BY <1>5 DEF Renew, RenewLease, Touch, leaseVars, OnTime, Punctual, TypeOK, Owners
  <2> QED BY <2>1, <2>2, <2>3
<1>6. ASSUME NEW w \in Workers, NEW j \in Jobs, RenewFails(w, j) PROVE IInv'
  <2>1. TypeOK'
    <3>0. <<w, j>> \in Owners BY DEF Owners
    <3>1. LeaseTypes' BY <1>6 DEF RenewFails, leaseVars, TypeOK
    <3>2. TimerTypes' BY <1>6, <3>0 DEF RenewFails, TypeOK
    <3> QED BY <1>6, <3>1, <3>2 DEF RenewFails, Fault, TypeOK
  <2>2. Fits' BY <1>6 DEF RenewFails, leaseVars, Fits
  <2>3. OnTime' BY <1>6 DEF RenewFails, leaseVars, OnTime, Punctual, TypeOK, Owners
  <2> QED BY <2>1, <2>2, <2>3
<1>7. ASSUME NEW w \in Workers, NEW j \in Jobs, Finish(w, j) PROVE IInv'
  <2>1. TypeOK'
    <3>0. <<w, j>> \in Owners BY DEF Owners
    <3>1. LeaseTypes'
      BY <1>7, <3>0 DEF Finish, Drop, KeyOf, TypeOK
    <3>2. TimerTypes'
      BY <1>7, <3>0 DEF Finish, Ends, TypeOK
    <3> QED BY <1>7, <3>1, <3>2 DEF Finish, Ends, TypeOK
  <2>2. Fits' BY <1>7, SubsetFits DEF Finish, Drop, Fits, TypeOK
  <2>3. OnTime' BY <1>7 DEF Finish, Drop, Ends, OnTime, Punctual, TypeOK, Owners
  <2> QED BY <2>1, <2>2, <2>3
<1>8. ASSUME NEW w \in Workers, NEW j \in Jobs, Fail(w, j) PROVE IInv'
  <2>1. TypeOK'
    <3>0. <<w, j>> \in Owners BY DEF Owners
    <3>1. LeaseTypes'
      <4>1. CASE Drop(<<w, j>>) BY <4>1, <3>0 DEF Drop, KeyOf, TypeOK
      <4>2. CASE UNCHANGED leaseVars BY <4>2 DEF leaseVars, TypeOK
      <4> QED BY <1>8, <4>1, <4>2 DEF Fail
    <3>2. TimerTypes' BY <1>8, <3>0 DEF Fail, Ends, TypeOK
    <3> QED BY <1>8, <3>1, <3>2 DEF Fail, Fault, Ends, TypeOK
  <2>2. Fits' BY <1>8, SubsetFits DEF Fail, Drop, leaseVars, Fits, TypeOK
  <2>3. OnTime' BY <1>8 DEF Fail, Drop, Ends, leaseVars, OnTime, Punctual, TypeOK, Owners
  <2> QED BY <2>1, <2>2, <2>3
<1>9. ASSUME NEW w \in Workers, Crash(w) PROVE IInv'
  <2>1. TypeOK'
    <3>1. running' \subseteq alive' \X Jobs /\ missed' \subseteq running'
      BY <1>9 DEF Crash, TypeOK
    <3>2. TimerTypes'
      BY <1>9 DEF Crash, TypeOK, Owners
    <3>3. LeasesFit' BY <1>9 DEF Crash, leaseVars, TypeOK
    <3> QED BY <1>9, <3>1, <3>2, <3>3 DEF Crash, Fault, leaseVars, TypeOK
  <2>2. Fits' BY <1>9 DEF Crash, leaseVars, Fits
  <2>3. OnTime' BY <1>9 DEF Crash, leaseVars, OnTime, Punctual, TypeOK, Owners
  <2> QED BY <2>1, <2>2, <2>3
<1>10. ASSUME Tick PROVE IInv'
  <2>1. TypeOK'
    <3>1. LeaseTypes' BY <1>10 DEF Tick, Less, TypeOK
    <3>2. TimerTypes'
      <4>1. \A o \in Owners : RenewEvery[o[2]] \in Nat BY DEF Owners
      <4> QED BY <1>10, <4>1 DEF Tick, Less, TypeOK
    <3> QED BY <1>10, <3>1, <3>2 DEF Tick, TypeOK
  <2>2. Fits' BY <1>10, SubsetFits DEF Tick, Fits, TypeOK
  <2>3. OnTime'
    <3> SUFFICES ASSUME NEW o \in Punctual'
                 PROVE  o \in members' /\ left'[o] + RenewEvery[o[2]] >= Ttl + timer'[o]
      BY DEF OnTime
    <3>1. o \in Punctual /\ o \in Owners /\ o[2] \in Jobs
      BY <1>10 DEF Tick, Punctual, TypeOK, Owners
    <3>2. /\ left[o] \in Nat /\ timer[o] \in Nat /\ RenewEvery[o[2]] \in Nat /\ keyLeft \in Nat
          /\ left[o] <= keyLeft /\ RenewEvery[o[2]] < Ttl /\ timer[o] > 0
          /\ o \in members /\ left[o] + RenewEvery[o[2]] >= Ttl + timer[o]
      BY <1>10, <3>1 DEF Tick, Punctual, OnTime, TypeOK
    <3>3. left'[o] = left[o] - 1 /\ timer'[o] = timer[o] - 1 /\ keyLeft' = keyLeft - 1
      BY <1>10, <3>1, <3>2 DEF Tick, Less
    <3>4. keyLeft' # 0 BY <3>2, <3>3
    <3> QED BY <1>10, <3>2, <3>3, <3>4 DEF Tick
  <2> QED BY <2>1, <2>2, <2>3
<1>11. ASSUME UNCHANGED vars PROVE IInv'
  BY <1>11 DEF vars, leaseVars, runVars, TypeOK, Fits, OnTime, Punctual
<1> QED
  BY <1>1, <1>2, <1>3, <1>4, <1>5, <1>6, <1>7, <1>8, <1>9, <1>10, <1>11 DEF Next, Execution

LEMMA Invariant == Spec => []IInv
  BY InitHolds, StepHolds, PTL DEF Spec

(* The types, that the key in Redis outlives the leases in it and that an  *)
(* interval ends with its execution, for all values of the constants.      *)
THEOREM LimiterTypes == Spec => []TypeOK
<1>1. IInv => TypeOK BY DEF IInv
<1> QED BY <1>1, Invariant, PTL

(* However many workers acquire, renew, crash and lose the answers of      *)
(* Redis, no more executions of an organization run under intervals        *)
(* shorter than the lease than it may have.                                *)
THEOREM LimitIsKept == Spec => []LimitHolds
<1>1. IInv => LimitHolds
  <2> SUFFICES ASSUME IInv PROVE LimitHolds OBVIOUS
  <2>1. Punctual \subseteq members /\ members \subseteq Owners
    BY DEF IInv, OnTime, TypeOK
  <2> QED BY <2>1, SubsetFits DEF IInv, Fits, LimitHolds
<1> QED BY <1>1, Invariant, PTL

-----------------------------------------------------------------------------
(* The executions in the sandbox. Every step but the end of a worker is one   *)
(* execution's own, and what it leaves behind depends on how far it is.       *)

Before == {"idle", "resolve", "clear", "mkdir", "list", "fetch", "check"}
Ended == {"cleanup", "over", "crashed"}
Full == {"logs", "raw", "result"}

ExecTypes ==
  /\ at = [r \in Runs |-> at[r]] /\ flags = [r \in Runs |-> flags[r]]
  /\ aborted = [r \in Runs |-> aborted[r]] /\ box = [r \in Runs |-> box[r]]
  /\ output = [r \in Runs |-> output[r]] /\ kept = [r \in Runs |-> kept[r]]
  /\ ending = [r \in Runs |-> ending[r]]

(* What stopped a container is known from its start on, what it left when it  *)
(* is gone, and a status is there only at the end.                            *)
StopsFit(r) ==
  /\ flags[r] \subseteq {"canceled", "timedOut", "limit"} /\ output[r] \in {{}} \cup Outcomes
  /\ at[r] \in Before \cup {"discover", "spawn"} => flags[r] = {}
  /\ "canceled" \in flags[r] => aborted[r]
  /\ at[r] \notin Ended => ending[r] = "NONE"

EndFits(r) ==
  /\ ending[r] = "COMPLETED" => flags[r] = {} /\ output[r] = {"zero", "json"} /\ kept[r] = Full
  /\ ending[r] = "TIMEOUT" => "timedOut" \in flags[r] /\ "canceled" \notin flags[r]
  /\ ending[r] = "CANCELED" => aborted[r]
  /\ at[r] \in {"cleanup", "over"} /\ "canceled" \in flags[r] =>
       ending[r] = "CANCELED" \/ (ending[r] = "FAILED" /\ kept[r] # Full)

(* A container that was not told to stop has ended when its command has; one  *)
(* that was told is removed; and the workspace is there from the check on.    *)
TracesFit(r) ==
  /\ at[r] \in Before \cup {"discover", "spawn"} => box[r] = "none"
  /\ at[r] \in Before => r \notin space
  /\ r \notin loose =>
       /\ at[r] = "closed" /\ flags[r] = {} => box[r] # "up"
       /\ at[r] \in {"collect", "cleanup", "over"} => box[r] # "up"
       /\ at[r] = "over" => r \notin space

ExecInv == ExecTypes /\ \A r \in Runs : StopsFit(r) /\ EndFits(r) /\ TracesFit(r)

ExecFits(r) == StopsFit(r) /\ EndFits(r) /\ TracesFit(r)

(* What a step leaves of the execution s, but for a workspace removed and a   *)
(* failure of docker or the disk.                                             *)
Same(s) ==
  /\ at'[s] = at[s] /\ flags'[s] = flags[s] /\ aborted'[s] = aborted[s] /\ box'[s] = box[s]
  /\ output'[s] = output[s] /\ kept'[s] = kept[s] /\ ending'[s] = ending[s]
  /\ (s \in space' => s \in space) /\ (s \in loose => s \in loose')

LEMMA SameFits == ASSUME NEW s \in Runs, ExecFits(s), Same(s) PROVE ExecFits(s)'
BY DEF ExecFits, Same, StopsFit, EndFits, TracesFit

LEMMA OwnStep ==
  ASSUME ExecInv, NEW r \in Runs, ExecTypes', ExecFits(r)', \A s \in Runs \ {r} : Same(s)
  PROVE  ExecInv'
BY SameFits DEF ExecInv, ExecFits

LEMMA ExecInitInv == SandboxInit => ExecInv
BY DEF SandboxInit, ExecInv, ExecTypes, StopsFit, EndFits, TracesFit, Before, Ended

LEMMA NoExecution ==
  ASSUME ExecInv, UNCHANGED <<at, boxVars, endVars>>
  PROVE  ExecInv'
<1>1. ExecTypes' /\ \A s \in Runs : Same(s)
  BY DEF ExecInv, ExecTypes, boxVars, endVars, Same
<1> QED BY <1>1, SameFits DEF ExecInv, ExecFits

(* Until the workspace is there, an execution has nothing to stop or remove.  *)
LEMMA Arrives ==
  ASSUME ExecInv, NEW r \in Runs, at[r] \in Before, NEW step \in Before, Goto(r, step), UNCHANGED <<boxVars, endVars>>
  PROVE  ExecInv'
<1>1. ExecTypes' /\ at'[r] = step /\ \A s \in Runs \ {r} : Same(s)
  BY DEF ExecInv, ExecTypes, Goto, boxVars, endVars, Same
<1>2. ExecFits(r)'
  BY <1>1 DEF ExecInv, ExecFits, StopsFit, EndFits, TracesFit, Before, Ended, boxVars, endVars
<1> QED BY <1>1, <1>2, OwnStep

LEMMA EndsBefore ==
  ASSUME ExecInv, NEW r \in Runs, at[r] \in Before, NEW status \in {"FAILED", "TOOL_NOT_INSTALLED"},
         Goto(r, "over"), EndsWith(r, status), UNCHANGED <<boxVars, kept, space, loose>>
  PROVE  ExecInv'
<1>1. ExecTypes' /\ at'[r] = "over" /\ ending'[r] = status /\ \A s \in Runs \ {r} : Same(s)
  BY DEF ExecInv, ExecTypes, Goto, EndsWith, boxVars, endVars, Same
<1>2. ExecFits(r)'
  BY <1>1 DEF ExecInv, ExecFits, StopsFit, EndFits, TracesFit, Before, Ended, boxVars
<1> QED BY <1>1, <1>2, OwnStep

LEMMA MaterializeKeeps ==
  ASSUME ExecInv, NEW r \in Runs,
         \/ Execute(r) \/ resolvePreparedArtifact(r) \/ ClearTree(r) \/ MakeTree(r) \/ listKeys(r)
         \/ ListsNothing(r) \/ Fetched(r) \/ FetchFails(r)
  PROVE  ExecInv'
<1>1. at[r] \in Before
  BY DEF Execute, resolvePreparedArtifact, ClearTree, MakeTree, listKeys, ListsNothing, Fetched, FetchFails,
     Fetching, Before
<1>2. CASE \E step \in Before : Goto(r, step) /\ UNCHANGED <<boxVars, endVars>>
  BY <1>1, <1>2, Arrives
<1>3. CASE \E status \in {"FAILED", "TOOL_NOT_INSTALLED"} :
             Goto(r, "over") /\ EndsWith(r, status) /\ UNCHANGED <<boxVars, kept, space, loose>>
  BY <1>1, <1>3, EndsBefore
<1> QED BY <1>2, <1>3 DEF Execute, resolvePreparedArtifact, ClearTree, MakeTree, listKeys, ListsNothing,
        Fetched, FetchFails, EndsEarly, Before, endVars

LEMMA WorkspaceKeeps ==
  ASSUME ExecInv, NEW r \in Runs, createRunWorkspace(r) \/ discoverSourceTarget(r) \/ spawn(r) \/ SpawnFails(r)
  PROVE  ExecInv'
<1>1. CASE createRunWorkspace(r) /\ "dir" \notin tree[Disk(r)]
  BY <1>1, EndsBefore DEF createRunWorkspace, Before
<1>2. CASE createRunWorkspace(r) /\ "dir" \in tree[Disk(r)]
  <2>1. ExecTypes' /\ at[r] = "check" /\ at'[r] = "discover" /\ \A s \in Runs \ {r} : Same(s)
    BY <1>2 DEF ExecInv, ExecTypes, createRunWorkspace, Goto, boxVars, Same
  <2>2. ExecFits(r)'
    BY <1>2, <2>1 DEF createRunWorkspace, ExecInv, ExecFits, StopsFit, EndFits, TracesFit, Before, Ended, boxVars
  <2> QED BY <2>1, <2>2, OwnStep
<1>3. CASE discoverSourceTarget(r)
  <2>1. ExecTypes' /\ at[r] = "discover" /\ \A s \in Runs \ {r} : Same(s)
    BY <1>3 DEF ExecInv, ExecTypes, discoverSourceTarget, Goto, EndsWith, boxVars, Same
  <2>2. (at'[r] = "spawn" /\ ending' = ending) \/ (at'[r] = "cleanup" /\ ending'[r] = "TOOL_NOT_INSTALLED")
    BY <1>3 DEF ExecInv, ExecTypes, discoverSourceTarget, Goto, EndsWith
  <2>3. ExecFits(r)'
    BY <1>3, <2>1, <2>2 DEF discoverSourceTarget, ExecInv, ExecFits, StopsFit, EndFits, TracesFit, Before, Ended, boxVars
  <2> QED BY <2>1, <2>3, OwnStep
<1>4. CASE spawn(r)
  <2>1. ExecTypes' /\ at[r] = "spawn" /\ at'[r] = "running" /\ \A s \in Runs \ {r} : Same(s)
    BY <1>4 DEF ExecInv, ExecTypes, spawn, Goto, endVars, Same
  <2>2. ExecFits(r)'
    BY <1>4, <2>1 DEF spawn, ExecInv, ExecFits, StopsFit, EndFits, TracesFit, Before, Ended, endVars
  <2> QED BY <2>1, <2>2, OwnStep
<1>5. CASE SpawnFails(r)
  <2>1. /\ ExecTypes' /\ at[r] = "spawn" /\ at'[r] = "cleanup" /\ ending'[r] = "TOOL_NOT_INSTALLED"
        /\ \A s \in Runs \ {r} : Same(s)
    BY <1>5 DEF ExecInv, ExecTypes, SpawnFails, Goto, EndsWith, boxVars, Same
  <2>2. ExecFits(r)'
    BY <1>5, <2>1 DEF SpawnFails, ExecInv, ExecFits, StopsFit, EndFits, TracesFit, Before, Ended, boxVars
  <2> QED BY <2>1, <2>2, OwnStep
<1> QED BY <1>1, <1>2, <1>3, <1>4, <1>5

LEMMA StopKeeps ==
  ASSUME ExecInv, NEW r \in Runs, abort(r) \/ timeout(r) \/ appendBounded(r)
  PROVE  ExecInv'
<1>1. /\ ExecTypes' /\ at' = at /\ box' = box /\ output' = output /\ UNCHANGED endVars
      /\ \A s \in Runs \ {r} : Same(s)
  BY DEF ExecInv, ExecTypes, abort, timeout, appendBounded, Stops, readVars, endVars, Same
<1>2. /\ at[r] \in {"resolve", "check", "spawn", "running"} \cup Fetching
      /\ aborted'[r] \in {aborted[r], TRUE} /\ (flags'[r] # flags[r] => at[r] = "running")
      /\ flags'[r] \subseteq flags[r] \cup {"canceled", "timedOut", "limit"}
      /\ ("canceled" \in flags'[r] => "canceled" \in flags[r] \/ aborted'[r])
      /\ (aborted[r] => aborted'[r])
  <2>0. flags = [s \in Runs |-> flags[s]] /\ aborted = [s \in Runs |-> aborted[s]]
    BY DEF ExecInv, ExecTypes
  <2>1. CASE abort(r)
    <3>1. aborted'[r] /\ at[r] \in {"resolve", "check", "spawn", "running"} \cup Fetching
      BY <2>0, <2>1 DEF abort
    <3>2. flags'[r] = IF at[r] = "running" THEN flags[r] \cup {"canceled"} ELSE flags[r]
      BY <2>0, <2>1 DEF abort
    <3> QED BY <3>1, <3>2
  <2>2. CASE timeout(r) \/ appendBounded(r)
    <3>1. at[r] = "running" /\ aborted' = aborted
      BY <2>2 DEF timeout, appendBounded
    <3>2. flags'[r] = flags[r] \cup {"timedOut"} \/ flags'[r] = flags[r] \cup {"limit"}
      BY <2>0, <2>2 DEF timeout, appendBounded, Stops
    <3> QED BY <3>1, <3>2
  <2> QED BY <2>1, <2>2
<1>3. ExecFits(r)'
  BY <1>1, <1>2 DEF ExecInv, ExecFits, StopsFit, EndFits, TracesFit, Before, Ended, Fetching, endVars
<1> QED BY <1>1, <1>3, OwnStep

LEMMA ContainerKeeps ==
  ASSUME ExecInv, NEW r \in Runs, Exits(r) \/ Closed(r) \/ Killed(r) \/ removeContainer(r)
  PROVE  ExecInv'
<1>1. CASE Exits(r)
  <2>1. /\ ExecTypes' /\ at' = at /\ box[r] = "up" /\ box'[r] = "gone" /\ \A s \in Runs \ {r} : Same(s)
    BY <1>1 DEF ExecInv, ExecTypes, Exits, readVars, endVars, Same
  <2>2. output'[r] \in {output[r]} \cup Outcomes /\ (at[r] # "running" => output'[r] = output[r])
    BY <1>1 DEF ExecInv, ExecTypes, Exits
  <2>3. ExecFits(r)'
    BY <1>1, <2>1, <2>2 DEF Exits, ExecInv, ExecFits, StopsFit, EndFits, TracesFit, Before, Ended, endVars
  <2> QED BY <2>1, <2>3, OwnStep
<1>2. CASE Closed(r)
  <2>1. /\ ExecTypes' /\ at[r] = "running" /\ at'[r] = "closed" /\ box[r] = "gone" /\ \A s \in Runs \ {r} : Same(s)
    BY <1>2 DEF ExecInv, ExecTypes, Closed, Goto, boxVars, endVars, Same
  <2>2. ExecFits(r)'
    BY <1>2, <2>1 DEF Closed, ExecInv, ExecFits, StopsFit, EndFits, TracesFit, Before, Ended, boxVars, endVars
  <2> QED BY <2>1, <2>2, OwnStep
<1>3. CASE Killed(r)
  <2>1. /\ ExecTypes' /\ at[r] = "running" /\ at'[r] = "closed" /\ (flags[r] = {} => r \in loose')
        /\ loose \subseteq loose' /\ \A s \in Runs \ {r} : Same(s)
    BY <1>3 DEF ExecInv, ExecTypes, Killed, Goto, boxVars, endVars, Same
  <2>2. ExecFits(r)'
    BY <1>3, <2>1 DEF Killed, ExecInv, ExecFits, StopsFit, EndFits, TracesFit, Before, Ended, boxVars
  <2> QED BY <2>1, <2>2, OwnStep
<1>4. CASE removeContainer(r)
  <2>1. /\ ExecTypes' /\ at[r] = "closed" /\ at'[r] = "collect" /\ loose \subseteq loose'
        /\ UNCHANGED <<flags, aborted, output, kept, space, ending>> /\ \A s \in Runs \ {r} : Same(s)
    BY <1>4 DEF ExecInv, ExecTypes, removeContainer, Goto, Same
  <2>2. (flags[r] # {} => box'[r] = "gone" \/ r \in loose') /\ (flags[r] = {} => box'[r] = box[r])
    BY <1>4 DEF ExecInv, ExecTypes, removeContainer
  <2>3. ExecFits(r)'
    BY <2>1, <2>2 DEF ExecInv, ExecFits, StopsFit, EndFits, TracesFit, Before, Ended
  <2> QED BY <2>1, <2>3, OwnStep
<1> QED BY <1>1, <1>2, <1>3, <1>4

(* The status is what stopped the container, or failed to be collected.       *)
LEMMA CollectKeeps == ASSUME ExecInv, NEW r \in Runs, Collect(r) PROVE ExecInv'
<1>1. /\ ExecTypes' /\ at[r] = "collect" /\ at'[r] = "cleanup" /\ UNCHANGED <<boxVars, space, loose>>
      /\ \A s \in Runs \ {r} : Same(s)
  BY DEF ExecInv, ExecTypes, Collect, Goto, EndsWith, boxVars, Same
<1>2. \/ ending'[r] = "FAILED" /\ kept'[r] # Full
      \/ ending'[r] = classifyAnalyzerFailure(r) /\ "flood" \notin output[r] /\ kept'[r] = Full
  <2>1. Collected[1] = {} /\ Collected[2] = {"logs"} /\ Collected[3] = {"logs", "raw"} /\ Collected[4] = Full
    BY DEF Collected, Full
  <2>2. \A n \in 1 .. 3 : n = 1 \/ n = 2 \/ n = 3
    OBVIOUS
  <2>3. Collected[1] # Full /\ Collected[2] # Full /\ Collected[3] # Full
    BY <2>1 DEF Full
  <2>4. \/ ending'[r] = "FAILED" /\ \E n \in 1 .. 3 : kept'[r] = Collected[n]
        \/ ending'[r] = classifyAnalyzerFailure(r) /\ "flood" \notin output[r] /\ kept'[r] = Collected[4]
    BY DEF ExecInv, ExecTypes, Collect, EndsWith
  <2> QED BY <2>1, <2>2, <2>3, <2>4
<1>3. output[r] \in {{}} \cup Outcomes /\ flags[r] \subseteq {"canceled", "timedOut", "limit"}
      /\ ("canceled" \in flags[r] => aborted[r])
  BY DEF ExecInv, StopsFit
<1>4. /\ "canceled" \in flags[r] => classifyAnalyzerFailure(r) = "CANCELED"
      /\ classifyAnalyzerFailure(r) = "CANCELED" => "canceled" \in flags[r]
      /\ classifyAnalyzerFailure(r) = "TIMEOUT" => "timedOut" \in flags[r] /\ "canceled" \notin flags[r]
      /\ classifyAnalyzerFailure(r) = "COMPLETED" => flags[r] = {} /\ "zero" \in output[r] /\ "json" \in output[r]
  BY <1>3 DEF classifyAnalyzerFailure, getExecutionStatus
<1>5. "zero" \in output[r] /\ "json" \in output[r] /\ "flood" \notin output[r] => output[r] = {"zero", "json"}
  BY <1>3 DEF Outcomes
<1>6. EndFits(r)'
  BY <1>1, <1>2, <1>3, <1>4, <1>5 DEF EndFits, boxVars
<1>7. ExecFits(r)'
  BY <1>1, <1>6 DEF ExecInv, ExecFits, StopsFit, TracesFit, Before, Ended, boxVars
<1> QED BY <1>1, <1>7, OwnStep

LEMMA CleanupKeeps ==
  ASSUME ExecInv, NEW r \in Runs, cleanupRunWorkspace(r) \/ cleanupStale(r)
  PROVE  ExecInv'
<1>1. CASE cleanupRunWorkspace(r)
  <2>1. /\ ExecTypes' /\ at[r] = "cleanup" /\ at'[r] = "over" /\ loose \subseteq loose'
        /\ (r \notin space' \/ r \in loose') /\ UNCHANGED <<boxVars, kept, ending>>
        /\ \A s \in Runs \ {r} : Same(s)
    BY <1>1 DEF ExecInv, ExecTypes, cleanupRunWorkspace, Goto, boxVars, Same
  <2>2. ExecFits(r)'
    BY <2>1 DEF ExecInv, ExecFits, StopsFit, EndFits, TracesFit, Before, Ended, boxVars
  <2> QED BY <2>1, <2>2, OwnStep
<1>2. CASE cleanupStale(r)
  <2>1. ExecTypes' /\ \A s \in Runs : Same(s)
    BY <1>2 DEF ExecInv, ExecTypes, cleanupStale, readVars, boxVars, Same
  <2> QED BY <2>1, SameFits DEF ExecInv, ExecFits
<1> QED BY <1>1, <1>2

(* A worker that ends leaves its executions crashed.                          *)
LEMMA WorkerEndKeeps == ASSUME ExecInv, NEW h \in Hosts, WorkerEnds(h) PROVE ExecInv'
<1>1. ExecTypes' /\ UNCHANGED <<boxVars, endVars>>
      /\ \A s \in Runs : at'[s] = at[s] \/ (at'[s] = "crashed" /\ at[s] \notin {"idle", "over", "crashed"})
  BY DEF ExecInv, ExecTypes, WorkerEnds, boxVars, endVars
<1>2. ASSUME NEW s \in Runs PROVE ExecFits(s)'
  BY <1>1 DEF ExecInv, ExecFits, StopsFit, EndFits, TracesFit, Before, Ended, boxVars, endVars
<1> QED BY <1>1, <1>2 DEF ExecInv, ExecFits

LEMMA ExecStepInv ==
  ASSUME ExecInv, [SandboxNext]_sandboxVars
  PROVE  ExecInv'
<1>1. CASE UNCHANGED sandboxVars
  BY <1>1, NoExecution DEF sandboxVars, executionVars, readVars
<1>2. CASE \E p \in Preparations : Preparing(p) \/ PreparationFails(p)
  BY <1>2, NoExecution DEF Preparing, PreparationFails, Stage, ClearPrepared, MoveIntoPlace, ListPrepared,
     Uploaded, Upload, UploadMissing, executionVars, readVars
<1>3. CASE Building \/ BuildFails
  BY <1>3, NoExecution DEF Building, BuildFails, MaterializeForBuild, CreateProfile, CreateBuildRun,
     BuildBecomes, readVars
<1>4. ASSUME NEW r \in Runs, Executing(r) \/ FetchFails(r) \/ SpawnFails(r) PROVE ExecInv'
  <2>1. CASE \E f \in Files : WriteFile(r, f)
    BY <2>1, NoExecution DEF WriteFile
  <2> QED BY <1>4, <2>1, MaterializeKeeps, WorkspaceKeeps, ContainerKeeps, CollectKeeps, CleanupKeeps DEF Executing
<1>5. ASSUME NEW r \in Runs,
             abort(r) \/ timeout(r) \/ appendBounded(r) \/ Exits(r) \/ Killed(r) \/ cleanupStale(r)
      PROVE  ExecInv'
  BY <1>5, StopKeeps, ContainerKeeps, CleanupKeeps
<1>6. CASE \E h \in Hosts : WorkerEnds(h)
  BY <1>6, WorkerEndKeeps
<1> QED BY <1>1, <1>2, <1>3, <1>4, <1>5, <1>6 DEF SandboxNext

(* An execution ends as its container did.                                    *)
THEOREM ExecutionsEndAsTheyWere == SandboxSpec => []EndsAsItWas
<1>1. ExecInv => EndsAsItWas
  BY DEF ExecInv, EndFits, EndsAsItWas, Full
<1> QED BY <1>1, ExecInitInv, ExecStepInv, PTL DEF SandboxSpec

(* Nothing of an execution that is over is left behind.                       *)
THEOREM NothingIsLeft == SandboxSpec => []NothingLeft
<1>1. ExecInv => NothingLeft
  BY DEF ExecInv, TracesFit, NothingLeft
<1> QED BY <1>1, ExecInitInv, ExecStepInv, PTL DEF SandboxSpec

-----------------------------------------------------------------------------
(* The source. A disk whose tree never changed under a reader has at most one *)
(* execution fetching, with no other on it, and a tree that is whole when     *)
(* nobody fetches; the bucket has all of it when a preparation is done.       *)

Good(T) == "dir" \in T /\ Whole(T)
Sharing == {"check"} \cup Reading
Fetches(r) == at[r] \in Fetching \/ writes[r] # {}

SourceTypes ==
  /\ tree = [h \in Hosts |-> tree[h]] /\ at = [r \in Runs |-> at[r]]
  /\ writes = [r \in Runs |-> writes[r]] /\ ending = [r \in Runs |-> ending[r]]
  /\ prep = [p \in Preparations |-> prep[p]]
  /\ \A p \in Preparations : prep[p] = [at |-> prep[p].at, todo |-> prep[p].todo]
  /\ build = [at |-> build.at, sees |-> build.sees, profiles |-> build.profiles]

PrepFits(p) ==
  /\ prep[p].at \notin {"upload", "failed"} => prep[p].todo = {}
  /\ driver = "s3" /\ ~(Hosts \subseteq torn) =>
       /\ prep[p].at = "collect" /\ ~Prepared => Good(tree[PrepHost])
       /\ prep[p].at = "upload" => Files \subseteq bucket \cup prep[p].todo
       /\ prep[p].at = "done" => Whole(bucket)

BuildFits ==
  /\ build.at # "done" => \A r \in Runs : at[r] = "idle" /\ writes[r] = {}
  /\ build.at # "idle" => Prepared
  /\ build.at \in {"profile", "run", "done"} /\ torn = {} => Whole(build.sees)

ReadFits(r) ==
  /\ at[r] \in Fetching => driver = "s3"
  /\ ending[r] = "COMPLETED" => at[r] \in Ended
  /\ Disk(r) \notin torn =>
       /\ writes[r] # {} => at[r] = "fetch"
       /\ at[r] \in {"list", "fetch"} => "dir" \in tree[Disk(r)]
       /\ at[r] = "fetch" => Files \subseteq tree[Disk(r)] \cup writes[r]
       /\ at[r] \in Sharing => Good(tree[Disk(r)])
       /\ at[r] \in {"spawn", "running", "closed", "collect"} \/ ending[r] = "COMPLETED" => r \in whole

DiskFits(h) ==
  h \notin torn /\ "dir" \in tree[h] /\ (\A r \in Runs : Disk(r) = h => ~Fetches(r)) => Whole(tree[h])

Alone ==
  \A r, s \in Runs : r # s /\ Disk(r) = Disk(s) /\ Disk(r) \notin torn /\ at[r] \in Fetching
    => at[s] \notin Fetching \cup Sharing

SourceInv ==
  /\ SourceTypes /\ BuildFits /\ Alone
  /\ \A p \in Preparations : PrepFits(p)
  /\ \A r \in Runs : ReadFits(r)
  /\ \A h \in Hosts : DiskFits(h)

LEMMA DiskIsHost == ASSUME NEW r \in Runs PROVE Disk(r) \in Hosts /\ PrepHost \in Hosts
BY DEF Disk, Hosts

LEMMA SourceInitInv == SandboxInit => SourceInv
<1> SUFFICES ASSUME SandboxInit PROVE SourceInv
  OBVIOUS
<1>1. SourceTypes /\ BuildFits /\ Alone
  BY DEF SandboxInit, SourceTypes, BuildFits, Alone, Fetching
<1>2. \A p \in Preparations : PrepFits(p)
  BY DEF SandboxInit, PrepFits
<1>3. \A r \in Runs : ReadFits(r)
  BY DEF SandboxInit, ReadFits, Fetching, Sharing, Reading
<1>4. \A h \in Hosts : DiskFits(h)
  BY DEF SandboxInit, DiskFits
<1> QED BY <1>1, <1>2, <1>3, <1>4 DEF SourceInv

(* Whoever executes does so after the build, and that after a preparation.    *)
LEMMA PreparedBefore ==
  ASSUME SourceInv, NEW r \in Runs, at[r] # "idle" \/ writes[r] # {}
  PROVE  build.at = "done" /\ Prepared
BY DEF SourceInv, BuildFits

LEMMA SourceSame ==
  ASSUME SourceInv, UNCHANGED <<driver, bucket, prep, build, tree, at, writes, whole, torn, ending>>
  PROVE  SourceInv'
<1>1. SourceTypes' /\ BuildFits' /\ Alone'
  BY DEF SourceInv, SourceTypes, BuildFits, Alone, Disk, Prepared
<1>2. \A p \in Preparations : PrepFits(p)'
  BY DEF SourceInv, PrepFits, Prepared
<1>3. \A r \in Runs : ReadFits(r)'
  BY DEF SourceInv, ReadFits, Disk
<1>4. \A h \in Hosts : DiskFits(h)'
  BY DEF SourceInv, DiskFits, Disk, Fetches
<1> QED BY <1>1, <1>2, <1>3, <1>4 DEF SourceInv

(* An execution that has its source goes on with it.                          *)
LEMMA GoesOn ==
  ASSUME SourceInv, UNCHANGED <<driver, bucket, prep, build, tree, writes, torn>>, SourceTypes',
         whole \subseteq whole', NEW r \in Runs,
         \A s \in Runs \ {r} : at'[s] = at[s] /\ ending'[s] = ending[s],
         at[r] \notin Fetching \cup {"idle"}, at'[r] \notin Fetching, at'[r] \in Sharing => at[r] \in Sharing,
         ending'[r] = "COMPLETED" => at'[r] \in Ended,
         Disk(r) \notin torn /\ (at'[r] \in {"spawn", "running", "closed", "collect"} \/ ending'[r] = "COMPLETED")
           => r \in whole'
  PROVE  SourceInv'
<1>1. BuildFits' /\ \A p \in Preparations : PrepFits(p)'
  <2>1. build.at = "done"
    BY PreparedBefore
  <2> QED BY <2>1 DEF SourceInv, BuildFits, PrepFits, Prepared
<1>2. Alone'
  BY DEF SourceInv, Alone, Disk
<1>3. ASSUME NEW s \in Runs PROVE ReadFits(s)'
  <2>1. CASE s = r
    BY <2>1 DEF SourceInv, ReadFits, Disk, Fetching
  <2>2. CASE s # r
    BY <2>2 DEF SourceInv, ReadFits, Disk
  <2> QED BY <2>1, <2>2
<1>4. \A s \in Runs : Fetches(s)' <=> Fetches(s)
  BY DEF Fetches
<1>5. \A h \in Hosts : DiskFits(h)'
  BY <1>4 DEF SourceInv, DiskFits, Disk
<1> QED BY <1>1, <1>2, <1>3, <1>5 DEF SourceInv

LEMMA ReadersKeep ==
  ASSUME SourceInv, NEW r \in Runs,
         \/ createRunWorkspace(r) \/ discoverSourceTarget(r) \/ spawn(r) \/ SpawnFails(r) \/ Closed(r)
         \/ Killed(r) \/ removeContainer(r) \/ Collect(r) \/ cleanupRunWorkspace(r)
  PROVE  SourceInv'
<1>0. SourceTypes /\ ReadFits(r)
  BY DEF SourceInv
<1>1. CASE createRunWorkspace(r)
  <2>1. /\ UNCHANGED <<driver, bucket, prep, build, tree, writes, torn>> /\ whole \subseteq whole'
        /\ SourceTypes' /\ \A s \in Runs \ {r} : at'[s] = at[s] /\ ending'[s] = ending[s]
    BY <1>0, <1>1 DEF SourceTypes, createRunWorkspace, Goto, EndsWith, prepVars, endVars
  <2>2. /\ at[r] = "check"
        /\ \/ at'[r] = "discover" /\ ending' = ending
           \/ at'[r] = "over" /\ ending'[r] = "TOOL_NOT_INSTALLED"
    BY <1>0, <1>1 DEF SourceTypes, createRunWorkspace, Goto, EndsWith, endVars
  <2> QED BY <1>0, <2>1, <2>2, GoesOn DEF ReadFits, Sharing, Reading, Fetching, Ended
<1>2. CASE discoverSourceTarget(r)
  <2>1. /\ UNCHANGED <<driver, bucket, prep, build, tree, writes, torn>> /\ whole \subseteq whole'
        /\ SourceTypes' /\ \A s \in Runs \ {r} : at'[s] = at[s] /\ ending'[s] = ending[s]
    BY <1>0, <1>2 DEF SourceTypes, discoverSourceTarget, Goto, EndsWith, prepVars, endVars
  <2>2. /\ at[r] = "discover"
        /\ \/ at'[r] = "spawn" /\ ending' = ending /\ (Whole(tree[Disk(r)]) => r \in whole')
           \/ at'[r] = "cleanup" /\ ending'[r] = "TOOL_NOT_INSTALLED"
    BY <1>0, <1>2 DEF SourceTypes, discoverSourceTarget, Goto, EndsWith, endVars
  <2> QED BY <1>0, <2>1, <2>2, GoesOn DEF ReadFits, Sharing, Reading, Fetching, Ended, Good
<1>3. CASE spawn(r)
  <2>1. /\ UNCHANGED <<driver, bucket, prep, build, tree, writes, torn>> /\ whole \subseteq whole'
        /\ SourceTypes' /\ \A s \in Runs \ {r} : at'[s] = at[s] /\ ending'[s] = ending[s]
    BY <1>0, <1>3 DEF SourceTypes, spawn, Goto, EndsWith, prepVars, endVars
  <2>2. at[r] = "spawn" /\ at'[r] = "running" /\ ending' = ending
    BY <1>0, <1>3 DEF SourceTypes, spawn, Goto, EndsWith, endVars
  <2> QED BY <1>0, <2>1, <2>2, GoesOn DEF ReadFits, Sharing, Reading, Fetching, Ended
<1>4. CASE SpawnFails(r)
  <2>1. /\ UNCHANGED <<driver, bucket, prep, build, tree, writes, torn>> /\ whole \subseteq whole'
        /\ SourceTypes' /\ \A s \in Runs \ {r} : at'[s] = at[s] /\ ending'[s] = ending[s]
    BY <1>0, <1>4 DEF SourceTypes, SpawnFails, Goto, EndsWith, prepVars, endVars
  <2>2. at[r] = "spawn" /\ at'[r] = "cleanup" /\ ending'[r] = "TOOL_NOT_INSTALLED"
    BY <1>0, <1>4 DEF SourceTypes, SpawnFails, Goto, EndsWith, endVars
  <2> QED BY <1>0, <2>1, <2>2, GoesOn DEF ReadFits, Sharing, Reading, Fetching, Ended
<1>5. CASE Closed(r)
  <2>1. /\ UNCHANGED <<driver, bucket, prep, build, tree, writes, torn>> /\ whole \subseteq whole'
        /\ SourceTypes' /\ \A s \in Runs \ {r} : at'[s] = at[s] /\ ending'[s] = ending[s]
    BY <1>0, <1>5 DEF SourceTypes, Closed, Goto, EndsWith, prepVars, endVars
  <2>2. at[r] = "running" /\ at'[r] = "closed" /\ ending' = ending
    BY <1>0, <1>5 DEF SourceTypes, Closed, Goto, EndsWith, endVars
  <2> QED BY <1>0, <2>1, <2>2, GoesOn DEF ReadFits, Sharing, Reading, Fetching, Ended
<1>6. CASE Killed(r)
  <2>1. /\ UNCHANGED <<driver, bucket, prep, build, tree, writes, torn>> /\ whole \subseteq whole'
        /\ SourceTypes' /\ \A s \in Runs \ {r} : at'[s] = at[s] /\ ending'[s] = ending[s]
    BY <1>0, <1>6 DEF SourceTypes, Killed, Goto, EndsWith, prepVars, endVars
  <2>2. at[r] = "running" /\ at'[r] = "closed" /\ ending' = ending
    BY <1>0, <1>6 DEF SourceTypes, Killed, Goto, EndsWith, endVars
  <2> QED BY <1>0, <2>1, <2>2, GoesOn DEF ReadFits, Sharing, Reading, Fetching, Ended
<1>7. CASE removeContainer(r)
  <2>1. /\ UNCHANGED <<driver, bucket, prep, build, tree, writes, torn>> /\ whole \subseteq whole'
        /\ SourceTypes' /\ \A s \in Runs \ {r} : at'[s] = at[s] /\ ending'[s] = ending[s]
    BY <1>0, <1>7 DEF SourceTypes, removeContainer, Goto, EndsWith, prepVars, endVars
  <2>2. at[r] = "closed" /\ at'[r] = "collect" /\ ending' = ending
    BY <1>0, <1>7 DEF SourceTypes, removeContainer, Goto, EndsWith, endVars
  <2> QED BY <1>0, <2>1, <2>2, GoesOn DEF ReadFits, Sharing, Reading, Fetching, Ended
<1>8. CASE Collect(r)
  <2>1. /\ UNCHANGED <<driver, bucket, prep, build, tree, writes, torn>> /\ whole \subseteq whole'
        /\ SourceTypes' /\ \A s \in Runs \ {r} : at'[s] = at[s] /\ ending'[s] = ending[s]
    BY <1>0, <1>8 DEF SourceTypes, Collect, Goto, EndsWith, prepVars, endVars
  <2>2. at[r] = "collect" /\ at'[r] = "cleanup"
    BY <1>0, <1>8 DEF SourceTypes, Collect, Goto, EndsWith, endVars
  <2> QED BY <1>0, <2>1, <2>2, GoesOn DEF ReadFits, Sharing, Reading, Fetching, Ended
<1>9. CASE cleanupRunWorkspace(r)
  <2>1. /\ UNCHANGED <<driver, bucket, prep, build, tree, writes, torn>> /\ whole \subseteq whole'
        /\ SourceTypes' /\ \A s \in Runs \ {r} : at'[s] = at[s] /\ ending'[s] = ending[s]
    BY <1>0, <1>9 DEF SourceTypes, cleanupRunWorkspace, Goto, EndsWith, prepVars, endVars
  <2>2. at[r] = "cleanup" /\ at'[r] = "over" /\ ending' = ending
    BY <1>0, <1>9 DEF SourceTypes, cleanupRunWorkspace, Goto, EndsWith, endVars
  <2> QED BY <1>0, <2>1, <2>2, GoesOn DEF ReadFits, Sharing, Reading, Fetching, Ended
<1> QED BY <1>1, <1>2, <1>3, <1>4, <1>5, <1>6, <1>7, <1>8, <1>9

(* An execution looks for its tree: on a sound disk nobody fetches then.       *)
LEMMA ResolveKeeps == ASSUME SourceInv, NEW r \in Runs, resolvePreparedArtifact(r) PROVE SourceInv'
<1>0. /\ SourceTypes /\ ReadFits(r) /\ DiskFits(Disk(r)) /\ Alone /\ build.at = "done"
      /\ at[r] = "resolve" /\ UNCHANGED <<driver, bucket, prep, build, tree, writes, whole>>
  BY DiskIsHost, PreparedBefore DEF SourceInv, resolvePreparedArtifact, prepVars
<1>1. /\ SourceTypes' /\ (\A s \in Runs \ {r} : at'[s] = at[s] /\ ending'[s] = ending[s]) /\ torn \subseteq torn'
  BY <1>0 DEF SourceTypes, resolvePreparedArtifact, Goto, EndsWith
<1>2. \/ at'[r] = "check" /\ "dir" \in tree[Disk(r)] /\ ending' = ending
      \/ at'[r] = "clear" /\ "dir" \notin tree[Disk(r)] /\ ending' = ending /\ driver = "s3"
      \/ at'[r] = "over" /\ ending'[r] = "TOOL_NOT_INSTALLED"
  BY <1>0 DEF SourceTypes, resolvePreparedArtifact, Goto, EndsWith
<1>3. Disk(r) \notin torn' => \A s \in Runs : Disk(s) = Disk(r) => ~Fetches(s)
  BY <1>0 DEF resolvePreparedArtifact, Fetches, ReadFits, Fetching
<1>4. BuildFits' /\ \A p \in Preparations : PrepFits(p)'
  BY <1>0, <1>1 DEF SourceInv, BuildFits, PrepFits, Prepared
<1>5. Alone'
  <2> SUFFICES ASSUME NEW s \in Runs, NEW q \in Runs, s # q, Disk(s) = Disk(q), Disk(s) \notin torn',
                      at'[s] \in Fetching
               PROVE  at'[q] \notin Fetching \cup Sharing
    BY <1>0 DEF Alone, Disk
  <2>1. CASE s # r /\ q # r
    BY <1>0, <1>1, <2>1 DEF Alone
  <2>2. CASE q = r
    BY <1>1, <1>3, <2>2 DEF Fetches
  <2>3. CASE s = r
    <3>1. at'[r] = "clear" /\ "dir" \notin tree[Disk(r)]
      BY <1>2, <2>3 DEF Fetching
    <3>2. at[q] \notin Fetching
      BY <1>3, <2>3 DEF Fetches
    <3>3. at[q] \notin Sharing
      BY <1>1, <2>3, <3>1 DEF SourceInv, ReadFits, Good
    <3> QED BY <1>1, <2>3, <3>2, <3>3
  <2> QED BY <2>1, <2>2, <2>3
<1>6. ASSUME NEW s \in Runs PROVE ReadFits(s)'
  <2>1. CASE s = r
    <3>1. Disk(r) \notin torn' /\ "dir" \in tree[Disk(r)] => Good(tree[Disk(r)])
      BY <1>0, <1>1, <1>3 DEF DiskFits, Good
    <3> QED BY <1>0, <1>1, <1>2, <2>1, <3>1 DEF ReadFits, Disk, Fetching, Sharing, Reading, Ended
  <2>2. CASE s # r
    BY <1>0, <1>1, <2>2 DEF SourceInv, ReadFits, Disk
  <2> QED BY <2>1, <2>2
<1>7. ASSUME NEW h \in Hosts PROVE DiskFits(h)'
  <2>1. \A s \in Runs : Disk(s)' = Disk(s)
    BY <1>0 DEF Disk
  <2>2. CASE h = Disk(r) /\ Disk(r) \notin torn'
    BY <1>0, <1>1, <1>3, <2>2 DEF DiskFits
  <2>3. CASE h # Disk(r)
    BY <1>0, <1>1, <2>1, <2>3 DEF SourceInv, DiskFits, Fetches
  <2> QED BY <2>2, <2>3 DEF DiskFits
<1> QED BY <1>1, <1>4, <1>5, <1>6, <1>7 DEF SourceInv

LEMMA ExecuteKeeps == ASSUME SourceInv, NEW r \in Runs, Execute(r) PROVE SourceInv'
<1>1. /\ SourceTypes /\ SourceTypes' /\ at[r] = "idle" /\ at'[r] = "resolve" /\ build.at = "done"
      /\ UNCHANGED <<driver, bucket, prep, build, tree, writes, torn, whole, ending>>
      /\ \A s \in Runs \ {r} : at'[s] = at[s]
  BY DEF SourceInv, SourceTypes, Execute, Goto, prepVars, endVars
<1>2. BuildFits' /\ \A p \in Preparations : PrepFits(p)'
  BY <1>1 DEF SourceInv, BuildFits, PrepFits, Prepared
<1>3. Alone' /\ \A s \in Runs : Fetches(s)' <=> Fetches(s)
  BY <1>1 DEF SourceInv, Alone, Disk, Fetches, Fetching, Sharing, Reading
<1>4. \A s \in Runs : ReadFits(s)'
  BY <1>1 DEF SourceInv, ReadFits, Disk, Fetching, Sharing, Reading, Ended
<1>5. \A h \in Hosts : DiskFits(h)'
  BY <1>1, <1>3 DEF SourceInv, DiskFits, Disk
<1> QED BY <1>1, <1>2, <1>3, <1>4, <1>5 DEF SourceInv

(* A step of an execution that fetches: on a sound disk no other reads the    *)
(* tree, and the trees of the other disks stay.                               *)
LEMMA FetchStep ==
  ASSUME SourceInv, NEW r \in Runs, at[r] \in Fetching \/ writes[r] # {},
         UNCHANGED <<driver, bucket, prep, build>>, torn \subseteq torn', SourceTypes',
         \A s \in Runs \ {r} : /\ at'[s] = at[s] /\ writes'[s] = writes[s] /\ ending'[s] = ending[s]
                               /\ Disk(s) # Disk(r) \/ at[s] \notin Reading => (s \in whole => s \in whole'),
         \A h \in Hosts \ {Disk(r)} : tree'[h] = tree[h],
         ReadFits(r)',
         Disk(r) \notin torn' =>
           /\ at[r] \in Fetching
           /\ at'[r] \in Fetching \/ (Good(tree'[Disk(r)]) /\ writes'[r] = {})
  PROVE  SourceInv'
<1>1. build.at = "done" /\ Prepared /\ Prepared' /\ \A s \in Runs : Disk(s)' = Disk(s) /\ Disk(s) \in Hosts
  <2>1. build.at = "done" /\ Prepared /\ \A s \in Runs : Disk(s) \in Hosts
    BY PreparedBefore, DiskIsHost DEF Fetching
  <2>2. Prepared' /\ \A s \in Runs : Disk(s)' = Disk(s)
    BY <2>1 DEF Prepared, Disk
  <2> QED BY <2>1, <2>2
<1>2. BuildFits' /\ \A p \in Preparations : PrepFits(p)'
  BY <1>1 DEF SourceInv, BuildFits, PrepFits
<1>3. Disk(r) \notin torn' =>
        \A s \in Runs \ {r} : Disk(s) = Disk(r) => at[s] \notin Fetching \cup Sharing
  BY DEF SourceInv, Alone
<1>4. Alone'
  <2> SUFFICES ASSUME NEW s \in Runs, NEW q \in Runs, s # q, Disk(s) = Disk(q), Disk(s) \notin torn',
                      at'[s] \in Fetching
               PROVE  at'[q] \notin Fetching \cup Sharing
    BY <1>1 DEF Alone
  <2>1. CASE s # r /\ q # r
    BY <2>1 DEF SourceInv, Alone
  <2>2. CASE s = r \/ q = r
    BY <1>3, <2>2
  <2> QED BY <2>1, <2>2
<1>5. ASSUME NEW s \in Runs \ {r} PROVE ReadFits(s)'
  <2>1. CASE Disk(s) # Disk(r)
    BY <1>1, <2>1 DEF SourceInv, ReadFits
  <2>2. CASE Disk(s) = Disk(r)
    BY <1>1, <1>3, <2>2 DEF SourceInv, ReadFits, Sharing, Fetching
  <2> QED BY <2>1, <2>2
<1>6. ASSUME NEW h \in Hosts PROVE DiskFits(h)'
  <2>1. CASE h = Disk(r)
    BY <1>1, <2>1 DEF DiskFits, Fetches, Good
  <2>2. CASE h # Disk(r)
    BY <1>1, <2>2 DEF SourceInv, DiskFits, Fetches
  <2> QED BY <2>1, <2>2
<1> QED BY <1>2, <1>4, <1>5, <1>6 DEF SourceInv

(* rm, mkdir, the list of the keys, then file after file.                     *)
LEMMA FetchKeeps ==
  ASSUME SourceInv, NEW r \in Runs,
         \/ ClearTree(r) \/ MakeTree(r) \/ listKeys(r) \/ ListsNothing(r) \/ Fetched(r) \/ FetchFails(r)
         \/ \E f \in Files : WriteFile(r, f)
  PROVE  SourceInv'
<1>0. SourceTypes /\ ReadFits(r) /\ Disk(r)' = Disk(r) /\ Disk(r) \in Hosts /\ UNCHANGED <<driver, bucket, prep, build>>
  BY DiskIsHost DEF SourceInv, ClearTree, MakeTree, listKeys, ListsNothing, Fetched, FetchFails, EndsEarly,
     WriteFile, Disk, prepVars
<1>1. CASE ClearTree(r)
  <2>1. /\ SourceTypes' /\ at[r] = "clear" /\ at'[r] = "mkdir" /\ UNCHANGED <<torn, writes, ending>>
        /\ \A s \in Runs \ {r} : /\ at'[s] = at[s]
                                 /\ Disk(s) # Disk(r) \/ at[s] \notin Reading => (s \in whole => s \in whole')
        /\ \A h \in Hosts \ {Disk(r)} : tree'[h] = tree[h]
    BY <1>0, <1>1 DEF SourceTypes, ClearTree, Goto, TreeBecomes, endVars
  <2>2. ReadFits(r)'
    BY <1>0, <2>1 DEF ReadFits, Fetching, Sharing, Reading, Ended
  <2> QED BY <1>0, <2>1, <2>2, FetchStep DEF Fetching
<1>2. CASE MakeTree(r)
  <2>1. /\ SourceTypes' /\ at[r] = "mkdir" /\ at'[r] = "list" /\ UNCHANGED <<torn, writes, ending>>
        /\ \A s \in Runs \ {r} : /\ at'[s] = at[s]
                                 /\ Disk(s) # Disk(r) \/ at[s] \notin Reading => (s \in whole => s \in whole')
        /\ \A h \in Hosts \ {Disk(r)} : tree'[h] = tree[h]
        /\ tree'[Disk(r)] = tree[Disk(r)] \cup {"dir"}
    BY <1>0, <1>2 DEF SourceTypes, MakeTree, Goto, TreeBecomes, endVars
  <2>2. ReadFits(r)'
    BY <1>0, <2>1 DEF ReadFits, Fetching, Sharing, Reading, Ended
  <2> QED BY <1>0, <2>1, <2>2, FetchStep DEF Fetching
<1>3. CASE listKeys(r)
  <2>1. /\ SourceTypes' /\ at[r] = "list" /\ at'[r] = "fetch" /\ writes'[r] = bucket
        /\ UNCHANGED <<torn, tree, whole, ending>>
        /\ \A s \in Runs \ {r} : at'[s] = at[s] /\ writes'[s] = writes[s]
    BY <1>0, <1>3 DEF SourceTypes, listKeys, Goto, endVars
  <2>2. Disk(r) \notin torn => Whole(bucket)
    <3>1. Prepared /\ driver = "s3"
      BY <1>0, <2>1, PreparedBefore DEF ReadFits, Fetching
    <3> QED BY <1>0, <3>1 DEF SourceInv, PrepFits, Prepared
  <2>3. ReadFits(r)'
    BY <1>0, <2>1, <2>2 DEF ReadFits, Fetching, Sharing, Reading, Ended, Whole
  <2> QED BY <1>0, <2>1, <2>3, FetchStep DEF Fetching
<1>4. CASE ListsNothing(r) \/ FetchFails(r)
  <2>1. /\ SourceTypes' /\ at[r] \in Fetching /\ at'[r] = "over" /\ ending'[r] = "FAILED"
        /\ torn' = torn \cup {Disk(r)} /\ UNCHANGED <<tree, writes, whole>>
        /\ \A s \in Runs \ {r} : at'[s] = at[s] /\ ending'[s] = ending[s]
    BY <1>0, <1>4 DEF SourceTypes, ListsNothing, FetchFails, EndsEarly, EndsWith, Goto, Fetching
  <2>2. ReadFits(r)'
    BY <1>0, <2>1 DEF ReadFits, Fetching
  <2> QED BY <1>0, <2>1, <2>2, FetchStep
<1>5. CASE Fetched(r)
  <2>1. /\ SourceTypes' /\ at[r] = "fetch" /\ at'[r] = "check" /\ writes[r] = {}
        /\ UNCHANGED <<torn, tree, writes, whole, ending>> /\ \A s \in Runs \ {r} : at'[s] = at[s]
    BY <1>0, <1>5 DEF SourceTypes, Fetched, Goto, endVars
  <2>2. Disk(r) \notin torn => Good(tree[Disk(r)])
    BY <1>0, <2>1 DEF ReadFits, Good, Whole
  <2>3. ReadFits(r)'
    BY <1>0, <2>1, <2>2 DEF ReadFits, Fetching, Sharing, Reading, Ended
  <2> QED BY <1>0, <2>1, <2>2, <2>3, FetchStep DEF Fetching
<1>6. ASSUME NEW f \in Files, WriteFile(r, f) PROVE SourceInv'
  <2>1. /\ SourceTypes' /\ f \in writes[r] /\ writes'[r] = writes[r] \ {f} /\ UNCHANGED <<at, torn, ending>>
        /\ \A s \in Runs \ {r} : /\ writes'[s] = writes[s]
                                 /\ Disk(s) # Disk(r) \/ at[s] \notin Reading => (s \in whole => s \in whole')
        /\ \A h \in Hosts \ {Disk(r)} : tree'[h] = tree[h]
        /\ tree'[Disk(r)] = tree[Disk(r)] \cup {"dir", f}
    BY <1>0, <1>6 DEF SourceTypes, WriteFile, TreeBecomes, endVars
  <2>2. Disk(r) \notin torn => at[r] = "fetch"
    BY <1>0, <2>1 DEF ReadFits
  <2>3. ReadFits(r)'
    BY <1>0, <2>1, <2>2 DEF ReadFits, Fetching, Sharing, Reading, Ended
  <2> QED BY <1>0, <2>1, <2>2, <2>3, FetchStep DEF Fetching
<1> QED BY <1>1, <1>2, <1>3, <1>4, <1>5, <1>6

(* A worker that ends in the middle of a fetch leaves its disk torn.          *)
LEMMA WorkerEndSource == ASSUME SourceInv, NEW h \in Hosts, WorkerEnds(h) PROVE SourceInv'
<1> DEFINE C == {r \in Runs : HostOf[r] = h /\ at[r] \notin {"idle", "over", "crashed"}}
<1>1. /\ SourceTypes' /\ UNCHANGED <<driver, bucket, prep, build, tree, whole, ending>> /\ torn \subseteq torn'
      /\ \A s \in Runs : at'[s] = (IF s \in C THEN "crashed" ELSE at[s])
      /\ \A s \in Runs : writes'[s] = (IF HostOf[s] = h THEN {} ELSE writes[s])
      /\ \A s \in C : at[s] \in Fetching => Disk(s) \in torn'
  BY DEF SourceInv, SourceTypes, WorkerEnds, prepVars, endVars
<1>2. PICK r \in Runs : r \in C
  BY DEF WorkerEnds
<1>3. build.at = "done" /\ Prepared /\ Prepared' /\ \A s \in Runs : Disk(s)' = Disk(s)
  BY <1>1, <1>2, PreparedBefore DEF Prepared, Disk
<1>4. BuildFits' /\ \A p \in Preparations : PrepFits(p)'
  BY <1>1, <1>3 DEF SourceInv, BuildFits, PrepFits
<1>5. "crashed" \notin Fetching \cup Sharing \cup {"spawn", "running", "closed", "collect", "list", "fetch"}
      /\ "crashed" \in Ended
  BY DEF Fetching, Sharing, Reading, Ended
<1>6. Alone'
  <2> SUFFICES ASSUME NEW s \in Runs, NEW q \in Runs, s # q, Disk(s) = Disk(q), Disk(s) \notin torn',
                      at'[s] \in Fetching
               PROVE  at'[q] \notin Fetching \cup Sharing
    BY <1>3 DEF Alone
  <2>1. at[s] \in Fetching /\ Disk(s) \notin torn
    BY <1>1, <1>5
  <2>2. at[q] \notin Fetching \cup Sharing
    BY <2>1 DEF SourceInv, Alone
  <2> QED BY <1>1, <1>5, <2>2
<1>7. ASSUME NEW s \in Runs, Disk(s) \notin torn' PROVE Fetches(s)' <=> Fetches(s)
  <2>1. ReadFits(s) /\ Disk(s) \notin torn
    BY <1>1, <1>7 DEF SourceInv
  <2>2. CASE s \in C
    BY <1>1, <1>5, <1>7, <2>1, <2>2 DEF Fetches, ReadFits, Fetching
  <2>3. CASE s \notin C
    <3>1. at'[s] = at[s] /\ (HostOf[s] = h => at[s] \in {"idle", "over", "crashed"})
      BY <1>1, <2>3
    <3> QED BY <1>1, <2>1, <3>1 DEF Fetches, ReadFits
  <2> QED BY <2>2, <2>3
<1>8. ASSUME NEW s \in Runs PROVE ReadFits(s)'
  <2>1. ReadFits(s) /\ (Disk(s) \notin torn' => Disk(s) \notin torn)
    BY <1>1 DEF SourceInv
  <2>2. CASE s \in C
    BY <1>1, <1>3, <1>5, <2>1, <2>2 DEF ReadFits, Ended
  <2>3. CASE s \notin C
    <3>1. at'[s] = at[s] /\ (HostOf[s] = h => at[s] \in {"idle", "over", "crashed"})
      BY <1>1, <2>3
    <3>2. Disk(s) \notin torn' => writes'[s] = writes[s]
      BY <1>1, <2>1, <3>1 DEF ReadFits
    <3> QED BY <1>1, <1>3, <2>1, <3>1, <3>2 DEF ReadFits
  <2> QED BY <2>2, <2>3
<1>9. ASSUME NEW g \in Hosts PROVE DiskFits(g)'
  BY <1>1, <1>3, <1>7 DEF SourceInv, DiskFits
<1> QED BY <1>1, <1>4, <1>6, <1>8, <1>9 DEF SourceInv

(* The preparations. What a preparation does without changing a tree.         *)
LEMMA PrepStep ==
  ASSUME SourceInv, UNCHANGED <<driver, build, tree, at, writes, whole, torn, ending>>, SourceTypes',
         bucket \subseteq bucket', Prepared => Prepared', NEW p \in Preparations,
         \A q \in Preparations \ {p} : prep'[q] = prep[q],
         PrepFits(p)'
  PROVE  SourceInv'
<1>1. BuildFits' /\ Alone'
  BY DEF SourceInv, BuildFits, Alone, Disk
<1>2. ASSUME NEW q \in Preparations \ {p} PROVE PrepFits(q)'
  BY DEF SourceInv, PrepFits, Whole
<1>3. \A r \in Runs : ReadFits(r)'
  BY DEF SourceInv, ReadFits, Disk
<1>4. \A h \in Hosts : DiskFits(h)'
  BY DEF SourceInv, DiskFits, Disk, Fetches
<1> QED BY <1>1, <1>2, <1>3, <1>4 DEF SourceInv

LEMMA PrepKeeps ==
  ASSUME SourceInv, NEW p \in Preparations,
         \/ Stage(p) \/ ListPrepared(p) \/ Uploaded(p) \/ PreparationFails(p)
         \/ \E f \in Files : Upload(p, f) \/ UploadMissing(p, f)
  PROVE  SourceInv'
<1>0. /\ SourceTypes /\ PrepFits(p) /\ prep[p] = [at |-> prep[p].at, todo |-> prep[p].todo]
      /\ UNCHANGED <<driver, build, tree, at, writes, whole, torn, ending>>
  BY DEF SourceInv, SourceTypes, Stage, ListPrepared, Uploaded, PreparationFails, Upload, UploadMissing,
     executionVars, readVars, endVars
<1> DEFINE Moves(to, todo) == /\ prep'[p] = [at |-> to, todo |-> todo] /\ SourceTypes'
                              /\ \A q \in Preparations \ {p} : prep'[q] = prep[q]
<1>1. CASE Stage(p)
  <2>1. Moves("staged", prep[p].todo) /\ prep[p].at = "idle" /\ bucket' = bucket
    BY <1>0, <1>1 DEF SourceTypes, Stage, PrepGoto
  <2>2. PrepFits(p)'
    BY <1>0, <2>1 DEF PrepFits
  <2> QED BY <1>0, <2>1, <2>2, PrepStep DEF Prepared
<1>2. CASE ListPrepared(p)
  <2>1. Moves("upload", tree[PrepHost] \ {"dir"}) /\ prep[p].at = "collect" /\ bucket' = bucket
    BY <1>0, <1>2 DEF SourceTypes, ListPrepared
  <2>2. driver = "s3" /\ ~(Hosts \subseteq torn) => Files \subseteq bucket \cup (tree[PrepHost] \ {"dir"})
    <3>1. CASE Prepared
      BY <3>1 DEF SourceInv, PrepFits, Prepared, Whole
    <3>2. CASE ~Prepared
      BY <1>0, <2>1, <3>2, SandboxAssumption DEF PrepFits, Good, Whole
    <3> QED BY <3>1, <3>2
  <2>3. PrepFits(p)'
    BY <1>0, <2>1, <2>2 DEF PrepFits
  <2> QED BY <1>0, <2>1, <2>3, PrepStep DEF Prepared
<1>3. CASE Uploaded(p)
  <2>1. Moves("done", {}) /\ prep[p].at = "upload" /\ prep[p].todo = {} /\ bucket' = bucket
    BY <1>0, <1>3 DEF SourceTypes, Uploaded, PrepGoto
  <2>2. PrepFits(p)' /\ Prepared'
    BY <1>0, <2>1 DEF PrepFits, Whole, Prepared
  <2> QED BY <1>0, <2>1, <2>2, PrepStep
<1>4. CASE PreparationFails(p)
  <2>1. Moves("failed", prep[p].todo) /\ prep[p].at # "done" /\ bucket' = bucket
    BY <1>0, <1>4 DEF SourceTypes, PreparationFails, PrepGoto
  <2>2. PrepFits(p)'
    BY <1>0, <2>1 DEF PrepFits
  <2> QED BY <1>0, <2>1, <2>2, PrepStep DEF Prepared
<1>5. ASSUME NEW f \in Files, Upload(p, f) PROVE SourceInv'
  <2>1. Moves(prep[p].at, prep[p].todo \ {f}) /\ f \in prep[p].todo /\ bucket' = bucket \cup {f}
    BY <1>0, <1>5 DEF SourceTypes, Upload
  <2>2. prep[p].at \in {"upload", "failed"}
    BY <1>0, <2>1 DEF PrepFits
  <2>3. PrepFits(p)'
    BY <1>0, <2>1, <2>2 DEF PrepFits
  <2> QED BY <1>0, <2>1, <2>2, <2>3, PrepStep DEF Prepared
<1>6. ASSUME NEW f \in Files, UploadMissing(p, f) PROVE SourceInv'
  <2>1. Moves("failed", prep[p].todo \ {f}) /\ f \in prep[p].todo /\ bucket' = bucket
    BY <1>0, <1>6 DEF SourceTypes, UploadMissing
  <2>2. prep[p].at \in {"upload", "failed"}
    BY <1>0, <2>1 DEF PrepFits
  <2>3. PrepFits(p)'
    BY <1>0, <2>1 DEF PrepFits
  <2> QED BY <1>0, <2>1, <2>2, <2>3, PrepStep DEF Prepared
<1> QED BY <1>1, <1>2, <1>3, <1>4, <1>5, <1>6

(* The tree is taken away: with a reader or another preparation about, every  *)
(* disk is torn; without, nobody is there to miss it.                         *)
LEMMA ClearPreparedKeeps == ASSUME SourceInv, NEW p \in Preparations, ClearPrepared(p) PROVE SourceInv'
<1>1. /\ SourceTypes /\ SourceTypes' /\ UNCHANGED <<driver, bucket, build, at, writes, ending>>
      /\ torn \subseteq torn' /\ tree'[PrepHost] = {} /\ \A h \in Hosts \ {PrepHost} : tree'[h] = tree[h]
      /\ \A r \in Runs : Disk(r)' = Disk(r) /\ Disk(r) \in Hosts
      /\ \A r \in whole : Disk(r) # PrepHost \/ at[r] \notin Reading => r \in whole'
  <2>1. SourceTypes /\ UNCHANGED <<driver, bucket, build, at, writes, ending>> /\ torn \subseteq torn'
    BY DEF SourceInv, ClearPrepared, endVars
  <2>2. tree' = [tree EXCEPT ![PrepHost] = {}] /\ prep' = [prep EXCEPT ![p].at = "cleared"]
        /\ whole' = {r \in whole : Disk(r) = PrepHost /\ at[r] \in Reading => Whole({})}
    BY DEF ClearPrepared, PrepGoto, TreeBecomes
  <2>3. \A r \in Runs : Disk(r)' = Disk(r) /\ Disk(r) \in Hosts
    BY <2>1, DiskIsHost DEF Disk
  <2>4. PrepHost \in Hosts
    BY DEF Hosts
  <2> QED BY <2>1, <2>2, <2>3, <2>4 DEF SourceTypes
<1>2. /\ prep[p].at = "staged" /\ prep'[p].at = "cleared" /\ prep'[p].todo = {}
      /\ \A q \in Preparations \ {p} : prep'[q] = prep[q]
  BY DEF SourceInv, SourceTypes, PrepFits, ClearPrepared, PrepGoto
<1>3. Prepared' <=> Prepared
  BY <1>2 DEF Prepared
<1>4. Hosts \subseteq torn' \/ (~InUse(PrepHost) /\ \A q \in Preparations : prep[q].at \notin {"cleared", "collect", "upload"})
  BY DEF ClearPrepared
<1>5. BuildFits' /\ Alone'
  BY <1>1, <1>3 DEF SourceInv, BuildFits, Alone
<1>6. ASSUME NEW q \in Preparations PROVE PrepFits(q)'
  BY <1>1, <1>2, <1>3, <1>4 DEF SourceInv, PrepFits
<1>7. ASSUME NEW r \in Runs PROVE ReadFits(r)'
  <2>1. CASE Disk(r) # PrepHost
    BY <1>1, <2>1 DEF SourceInv, ReadFits
  <2>2. CASE Disk(r) = PrepHost /\ ~(Hosts \subseteq torn')
    <3>1. at[r] \notin Fetching \cup Sharing
      BY <1>4, <2>2 DEF InUse, Sharing
    <3> QED BY <1>1, <2>2, <3>1 DEF SourceInv, ReadFits, Fetching, Sharing
  <2>3. CASE Hosts \subseteq torn'
    BY <1>1, <2>3 DEF SourceInv, ReadFits
  <2> QED BY <2>1, <2>2, <2>3
<1>8. ASSUME NEW h \in Hosts PROVE DiskFits(h)'
  BY <1>1 DEF SourceInv, DiskFits, Fetches
<1> QED BY <1>1, <1>5, <1>6, <1>7, <1>8 DEF SourceInv

(* A prepared tree comes into its place, and is whole.                        *)
LEMMA MoveKeeps == ASSUME SourceInv, NEW p \in Preparations, MoveIntoPlace(p) PROVE SourceInv'
<1>0. SourceTypes /\ PrepFits(p) /\ prep[p] = [at |-> prep[p].at, todo |-> prep[p].todo] /\ prep[p].at = "cleared"
      /\ PrepHost \in Hosts
  BY DEF SourceInv, SourceTypes, MoveIntoPlace, Hosts
<1>1. CASE ~(tree[PrepHost] = {} \/ tree[PrepHost] = {"dir"})
  <2>1. /\ SourceTypes' /\ prep'[p] = [at |-> "failed", todo |-> prep[p].todo]
        /\ \A q \in Preparations \ {p} : prep'[q] = prep[q]
        /\ UNCHANGED <<driver, bucket, build, tree, at, writes, whole, torn, ending>>
    BY <1>0, <1>1 DEF SourceTypes, MoveIntoPlace, PrepGoto, endVars
  <2>2. PrepFits(p)'
    BY <1>0, <2>1 DEF PrepFits
  <2> QED BY <1>0, <2>1, <2>2, PrepStep DEF Prepared
<1>2. CASE tree[PrepHost] = {} \/ tree[PrepHost] = {"dir"}
  <2>1. /\ SourceTypes' /\ UNCHANGED <<driver, bucket, build, at, writes, torn, ending>>
        /\ tree'[PrepHost] = Files \cup {"dir"} /\ \A h \in Hosts \ {PrepHost} : tree'[h] = tree[h]
        /\ prep'[p] = [at |-> IF driver = "s3" THEN "collect" ELSE "done", todo |-> prep[p].todo]
        /\ \A q \in Preparations \ {p} : prep'[q] = prep[q]
    BY <1>0, <1>2 DEF SourceTypes, MoveIntoPlace, PrepGoto, TreeBecomes, endVars
  <2>2. whole' = whole /\ Good(tree'[PrepHost])
    BY <1>0, <1>2, <2>1 DEF MoveIntoPlace, TreeBecomes, Good, Whole
  <2>3. (Prepared => Prepared') /\ (driver = "s3" => Prepared' = Prepared) /\ \A r \in Runs : Disk(r)' = Disk(r)
    BY <1>0, <2>1 DEF Prepared, Disk
  <2>4. BuildFits' /\ Alone'
    BY <2>1, <2>3 DEF SourceInv, BuildFits, Alone
  <2>5. ASSUME NEW q \in Preparations PROVE PrepFits(q)'
    BY <1>0, <2>1, <2>2, <2>3 DEF SourceInv, PrepFits
  <2>6. ASSUME NEW r \in Runs PROVE ReadFits(r)'
    BY <2>1, <2>2, <2>3, DiskIsHost DEF SourceInv, ReadFits, Good, Whole
  <2>7. ASSUME NEW h \in Hosts PROVE DiskFits(h)'
    BY <2>1, <2>2, <2>3 DEF SourceInv, DiskFits, Fetches, Good
  <2> QED BY <2>1, <2>4, <2>5, <2>6, <2>7 DEF SourceInv
<1> QED BY <1>1, <1>2

(* The build sees a tree nobody fetches, or the bucket.                       *)
LEMMA BuildStep ==
  ASSUME SourceInv, UNCHANGED <<driver, bucket, prep, tree, at, writes, whole, torn, ending>>, SourceTypes', BuildFits'
  PROVE  SourceInv'
<1>1. Alone' /\ \A p \in Preparations : PrepFits(p)'
  BY DEF SourceInv, Alone, Disk, PrepFits, Prepared
<1>2. \A r \in Runs : ReadFits(r)'
  BY DEF SourceInv, ReadFits, Disk
<1>3. \A h \in Hosts : DiskFits(h)'
  BY DEF SourceInv, DiskFits, Disk, Fetches
<1> QED BY <1>1, <1>2, <1>3 DEF SourceInv

LEMMA BuildKeeps == ASSUME SourceInv, Building \/ BuildFails PROVE SourceInv'
<1>0. /\ SourceTypes /\ BuildFits /\ UNCHANGED <<driver, bucket, prep, tree, at, writes, whole, torn, ending>>
      /\ Prepared' = Prepared
  BY DEF SourceInv, Building, BuildFails, MaterializeForBuild, CreateProfile, CreateBuildRun, BuildBecomes,
     readVars, endVars, Prepared
<1>1. CASE MaterializeForBuild
  <2> DEFINE Seen(h) == IF "dir" \in tree[h] THEN tree[h]
                        ELSE IF driver = "s3" /\ bucket # {} THEN bucket \cup {"dir"} ELSE {}
  <2>0. PICK h \in Hosts : build' = [build EXCEPT !.at = IF Seen(h) = {} THEN "failed" ELSE "profile", !.sees = Seen(h)]
    BY <1>1 DEF MaterializeForBuild, BuildBecomes, Hosts
  <2>1. PICK T : T = Seen(h)
    OBVIOUS
  <2>2. build.at = "idle" /\ Prepared /\ build'.sees = T /\ build'.at = (IF T = {} THEN "failed" ELSE "profile") /\ SourceTypes'
    BY <1>0, <1>1, <2>0, <2>1 DEF MaterializeForBuild, SourceTypes
  <2>3. T # {} /\ torn = {} => Whole(T)
    <3>1. CASE "dir" \in tree[h]
      <4>1. \A r \in Runs : ~Fetches(r)
        BY <1>0, <2>2 DEF BuildFits, Fetches, Fetching
      <4> QED BY <2>1, <3>1, <4>1 DEF SourceInv, DiskFits
    <3>2. CASE "dir" \notin tree[h]
      BY <2>1, <2>2, <3>2 DEF SourceInv, PrepFits, Prepared, Whole
    <3> QED BY <3>1, <3>2
  <2>4. BuildFits'
    BY <1>0, <2>2, <2>3 DEF BuildFits
  <2> QED BY <1>0, <2>2, <2>4, BuildStep
<1>2. CASE CreateProfile \/ CreateBuildRun \/ BuildFails
  <2>1. /\ SourceTypes' /\ build'.sees = build.sees /\ build.at \in {"profile", "run"}
        /\ build'.at \in {"run", "done", "idle"}
    BY <1>0, <1>2 DEF SourceTypes, CreateProfile, CreateBuildRun, BuildFails, BuildBecomes
  <2>2. BuildFits'
    BY <1>0, <2>1 DEF BuildFits
  <2> QED BY <1>0, <2>1, <2>2, BuildStep
<1> QED BY <1>1, <1>2 DEF Building

LEMMA SourceStepInv ==
  ASSUME SourceInv, [SandboxNext]_sandboxVars
  PROVE  SourceInv'
<1>1. CASE UNCHANGED sandboxVars
  BY <1>1, SourceSame DEF sandboxVars, prepVars, executionVars, readVars, endVars
<1>2. CASE \E p \in Preparations : Preparing(p) \/ PreparationFails(p)
  BY <1>2, PrepKeeps, ClearPreparedKeeps, MoveKeeps DEF Preparing
<1>3. CASE Building \/ BuildFails
  BY <1>3, BuildKeeps
<1>4. ASSUME NEW r \in Runs, Executing(r) \/ FetchFails(r) \/ SpawnFails(r) \/ Killed(r) PROVE SourceInv'
  BY <1>4, ExecuteKeeps, ResolveKeeps, FetchKeeps, ReadersKeep DEF Executing
<1>5. ASSUME NEW r \in Runs, abort(r) \/ timeout(r) \/ appendBounded(r) \/ Exits(r) \/ cleanupStale(r)
      PROVE  SourceInv'
  BY <1>5, SourceSame DEF abort, timeout, appendBounded, Stops, Exits, cleanupStale, prepVars, readVars, endVars
<1>6. CASE \E h \in Hosts : WorkerEnds(h)
  BY <1>6, WorkerEndSource
<1> QED BY <1>1, <1>2, <1>3, <1>4, <1>5, <1>6 DEF SandboxNext

(* Scanners that COMPLETED, and the build, saw the whole source.              *)
THEOREM WholeSourceIsSeen == SandboxSpec => []SeesWholeSource
<1>1. SourceInv => SeesWholeSource
  BY DEF SourceInv, ReadFits, BuildFits, SeesWholeSource
<1> QED BY <1>1, SourceInitInv, SourceStepInv, PTL DEF SandboxSpec
==============================================================================
