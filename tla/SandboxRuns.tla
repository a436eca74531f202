----------------------------- MODULE SandboxRuns -----------------------------
(* A scan's source on its way into the containers of the scanners: prepared  *)
(* on one worker, looked at by the build, fetched by the workers that have   *)
(* none, mounted into a container that a timer, the job's signal or too much *)
(* output may stop, whose output is collected and whose traces are removed.  *)
EXTENDS Naturals, FiniteSets

CONSTANTS
  Files,         \* the files of the prepared source
  Preparations,  \* executions of source.prepare
  Runs,          \* executions of analyzer jobs; a retry is another one
  PrepHost,      \* the worker that prepares
  HostOf,        \* [Runs -> the worker of each]
  MaxMishaps      \* bound: failed calls and ended processes

Hosts == {PrepHost} \cup {HostOf[r] : r \in Runs}

ASSUME SandboxAssumption ==
  /\ IsFiniteSet(Files) /\ Files # {} /\ "dir" \notin Files
  /\ MaxMishaps \in Nat

VARIABLES
  driver,   \* ARTIFACT_STORE_DRIVER: with "local", every worker has one disk
  tree,     \* [Hosts -> what is below the prepared path: "dir", files]
  bucket,   \* the files below the prepared prefix in the object store
  prep,     \* [Preparations -> where it is, what it still has to upload]
  build,    \* where the build is, what it sees, the rows it made
  at,       \* [Runs -> the step of execute it is at]
  writes,   \* [Runs -> the files its materialization has under way]
  aborted,  \* [Runs -> its job's signal is aborted]
  flags,    \* [Runs -> why its container was told to stop]
  box,      \* [Runs -> its container: "none", "up", "gone"]
  output,     \* [Runs -> what it left: "zero" exit code, "json", a "flood" of files]
  kept,     \* [Runs -> the artifacts written for it]
  space,    \* runs whose temporary workspace is there
  ending,   \* [Runs -> the status its AnalyzerRun is about to get, or has]
  whole,    \* runs whose container and discovery have missed no file (history)
  torn,     \* disks whose tree was shared while it changed (history)
  loose,    \* runs whose container docker did not report or remove (history)
  mishaps

prepVars == <<driver, bucket, prep, build>>
boxVars == <<aborted, flags, box, output>>
endVars == <<kept, space, ending, loose>>
readVars == <<tree, at, writes, whole, torn>>
executionVars == <<readVars, boxVars, endVars, mishaps>>
sandboxVars == <<prepVars, executionVars>>

Disk(r) == IF driver = "local" THEN PrepHost ELSE HostOf[r]
Whole(T) == Files \subseteq T
Prepared == \E p \in Preparations : prep[p].at = "done"
Mishap == mishaps < MaxMishaps /\ mishaps' = mishaps + 1
Fetching == {"clear", "mkdir", "list", "fetch"}
Reading == {"discover", "spawn", "running"}
Goto(r, step) == at' = [at EXCEPT ![r] = step]

SandboxInit ==
  /\ driver \in {"local", "s3"}
  /\ tree = [h \in Hosts |-> {}] /\ bucket = {}
  /\ prep = [p \in Preparations |-> [at |-> "idle", todo |-> {}]]
  /\ build = [at |-> "idle", sees |-> {}, profiles |-> 0]
  /\ at = [r \in Runs |-> "idle"] /\ writes = [r \in Runs |-> {}]
  /\ aborted = [r \in Runs |-> FALSE] /\ flags = [r \in Runs |-> {}]
  /\ box = [r \in Runs |-> "none"] /\ output = [r \in Runs |-> {}]
  /\ kept = [r \in Runs |-> {}] /\ space = {}
  /\ ending = [r \in Runs |-> "NONE"]
  /\ whole = {} /\ torn = {} /\ loose = {} /\ mishaps = 0

(* A tree becomes T: whoever reads it and misses a file has not seen it all. *)
TreeBecomes(h, T) ==
  /\ tree' = [tree EXCEPT ![h] = T]
  /\ whole' = {r \in whole : Disk(r) = h /\ at[r] \in Reading => Whole(T)}

-----------------------------------------------------------------------------
(* LocalSourcePreparationService.prepare.                                    *)
PrepGoto(p, step) == prep' = [prep EXCEPT ![p].at = step]

(* Into a staging directory of its own: materialize, copyDirectory with its  *)
(* limits, and a look for a supported file.                                  *)
Stage(p) ==
  /\ prep[p].at = "idle" /\ PrepGoto(p, "staged")
  /\ UNCHANGED <<driver, bucket, build, executionVars>>

(* rm: the tree may be in use by then, when the job was delivered again.     *)
InUse(h) == \E r \in Runs : Disk(r) = h /\ at[r] \in {"resolve", "check"} \cup Fetching \cup Reading
ClearPrepared(p) ==
  /\ prep[p].at = "staged" /\ PrepGoto(p, "cleared")
  /\ TreeBecomes(PrepHost, {})
  /\ torn' = IF \/ InUse(PrepHost)
                \/ \E q \in Preparations : prep[q].at \in {"cleared", "collect", "upload"}
             THEN torn \cup Hosts ELSE torn
  /\ UNCHANGED <<driver, bucket, build, at, writes, boxVars, endVars, mishaps>>

(* rename, which finds a tree only if another preparation put one there.     *)
MoveIntoPlace(p) ==
  /\ prep[p].at = "cleared"
  /\ IF tree[PrepHost] = {} \/ tree[PrepHost] = {"dir"}
     THEN /\ TreeBecomes(PrepHost, Files \cup {"dir"})
          /\ PrepGoto(p, IF driver = "s3" THEN "collect" ELSE "done")
     ELSE PrepGoto(p, "failed") /\ UNCHANGED <<tree, whole>>
  /\ UNCHANGED <<driver, bucket, build, at, writes, boxVars, endVars, torn, mishaps>>

\* Mutant: the upload is not waited for.
ListAndGo(p) ==
  /\ prep[p].at = "collect"
  /\ prep' = [prep EXCEPT ![p] = [at |-> "done", todo |-> tree[PrepHost] \ {"dir"}]]
  /\ UNCHANGED <<driver, bucket, build, executionVars>>

(* uploadDirectory: what collectFiles found is put, all at once.             *)
ListPrepared(p) ==
  /\ prep[p].at = "collect"
  /\ prep' = [prep EXCEPT ![p] = [at |-> "upload", todo |-> tree[PrepHost] \ {"dir"}]]
  /\ UNCHANGED <<driver, bucket, build, executionVars>>

Upload(p, f) ==
  /\ f \in prep[p].todo /\ f \in tree[PrepHost]
  /\ bucket' = bucket \cup {f}
  /\ prep' = [prep EXCEPT ![p].todo = @ \ {f}]
  /\ UNCHANGED <<driver, build, executionVars>>

UploadMissing(p, f) ==
  /\ f \in prep[p].todo /\ f \notin tree[PrepHost]
  /\ prep' = [prep EXCEPT ![p] = [at |-> "failed", todo |-> @.todo \ {f}]]
  /\ UNCHANGED <<driver, bucket, build, executionVars>>

Uploaded(p) ==
  /\ prep[p].at = "upload" /\ prep[p].todo = {}
  /\ PrepGoto(p, "done")
  /\ UNCHANGED <<driver, bucket, build, executionVars>>

(* Any of its calls fails; puts that are under way go on.                    *)
PreparationFails(p) ==
  /\ prep[p].at \notin {"idle", "done", "failed"} /\ Mishap
  /\ PrepGoto(p, "failed")
  /\ UNCHANGED <<driver, bucket, build, readVars, boxVars, endVars>>

Preparing(p) ==
  \/ Stage(p) \/ ClearPrepared(p) \/ MoveIntoPlace(p) \/ ListPrepared(p) \/ Uploaded(p)
  \/ \E f \in Files : Upload(p, f) \/ UploadMissing(p, f)

-----------------------------------------------------------------------------
(* LocalBuildExecutionService: on a worker without the tree it fetches one   *)
(* for itself (materializePreparedSource).                                   *)
BuildBecomes(b) ==
  /\ build' = b
  /\ UNCHANGED <<driver, bucket, prep, readVars, boxVars, endVars>>

MaterializeForBuild ==
  /\ build.at = "idle" /\ Prepared
  /\ \E h \in (IF driver = "local" THEN {PrepHost} ELSE Hosts) :
       LET T == IF "dir" \in tree[h] THEN tree[h]
                ELSE IF driver = "s3" /\ bucket # {} THEN bucket \cup {"dir"} ELSE {}
       IN BuildBecomes([build EXCEPT !.at = IF T = {} THEN "failed" ELSE "profile", !.sees = T])
  /\ UNCHANGED mishaps

(* detectBuildProfile, then a profile, then a run for it, each time anew.    *)
CreateProfile ==
  /\ build.at = "profile"
  /\ BuildBecomes([build EXCEPT !.at = "run", !.profiles = @ + 1]) /\ UNCHANGED mishaps
CreateBuildRun ==
  /\ build.at = "run"
  /\ BuildBecomes([build EXCEPT !.at = "done"]) /\ UNCHANGED mishaps

BuildFails ==
  /\ build.at \in {"profile", "run"} /\ Mishap /\ BuildBecomes([build EXCEPT !.at = "idle"])

Building == MaterializeForBuild \/ CreateProfile \/ CreateBuildRun

-----------------------------------------------------------------------------
(* ContainerizedScannerExecutionService.execute. First the prepared tree:    *)
(* one that exists is taken as it is.                                        *)
Execute(r) ==
  /\ at[r] = "idle" /\ build.at = "done" /\ Goto(r, "resolve")
  /\ UNCHANGED <<prepVars, tree, writes, boxVars, endVars, whole, torn, mishaps>>

EndsWith(r, status) == ending' = [ending EXCEPT ![r] = status]

(* What is thrown before the workspace is made ends the execution. A path    *)
(* that is missing says ENOENT, and is taken for a tool that is.             *)
EndsEarly(r, status) ==
  /\ Goto(r, "over") /\ EndsWith(r, status)
  /\ UNCHANGED <<prepVars, tree, writes, boxVars, kept, space, loose, whole>>

(* exists, then materialize: the local store has nothing to fetch from.      *)
resolvePreparedArtifact(r) ==
  /\ at[r] = "resolve"
  /\ \/ "dir" \in tree[Disk(r)] /\ Goto(r, "check") /\ UNCHANGED ending
     \/ "dir" \notin tree[Disk(r)] /\ driver = "s3" /\ Goto(r, "clear") /\ UNCHANGED ending
     \/ "dir" \notin tree[Disk(r)] /\ driver = "local"
        /\ Goto(r, "over") /\ EndsWith(r, "TOOL_NOT_INSTALLED")
  /\ torn' = IF \E q \in Runs \ {r} : Disk(q) = Disk(r) /\ (at[q] \in Fetching \/ writes[q] # {})
             THEN torn \cup {Disk(r)} ELSE torn
  /\ UNCHANGED <<prepVars, tree, writes, boxVars, kept, space, loose, whole, mishaps>>

(* materialize: rm, mkdir, one page of keys, then every file at once.        *)
ClearTree(r) ==
  /\ at[r] = "clear" /\ Goto(r, "mkdir")
  /\ TreeBecomes(Disk(r), {})
  /\ UNCHANGED <<prepVars, writes, boxVars, endVars, torn, mishaps>>
MakeTree(r) ==
  /\ at[r] = "mkdir" /\ Goto(r, "list")
  /\ TreeBecomes(Disk(r), tree[Disk(r)] \cup {"dir"})
  /\ UNCHANGED <<prepVars, writes, boxVars, endVars, torn, mishaps>>
listKeys(r) ==
  /\ at[r] = "list" /\ bucket # {}
  /\ Goto(r, "fetch") /\ writes' = [writes EXCEPT ![r] = bucket]
  /\ UNCHANGED <<prepVars, tree, boxVars, endVars, whole, torn, mishaps>>
ListsNothing(r) ==
  /\ at[r] = "list" /\ bucket = {} /\ EndsEarly(r, "FAILED")
  /\ torn' = torn \cup {Disk(r)} /\ UNCHANGED mishaps

(* A file arrives, whether its execution still waits for it or not.          *)
WriteFile(r, f) ==
  /\ f \in writes[r]
  /\ writes' = [writes EXCEPT ![r] = @ \ {f}]
  /\ TreeBecomes(Disk(r), tree[Disk(r)] \cup {"dir", f})
  /\ UNCHANGED <<prepVars, at, boxVars, endVars, torn, mishaps>>
Fetched(r) ==
  /\ at[r] = "fetch" /\ writes[r] = {} /\ Goto(r, "check")
  /\ UNCHANGED <<prepVars, tree, writes, boxVars, endVars, whole, torn, mishaps>>

(* A call of it fails: what was written stays, and the next execution on     *)
(* this worker takes it for the prepared tree.                               *)
FetchFails(r) ==
  /\ at[r] \in Fetching /\ Mishap
  /\ EndsEarly(r, "FAILED") /\ torn' = torn \cup {Disk(r)}

(* ensureDirectoryExists, createRunWorkspace.                                *)
createRunWorkspace(r) ==
  /\ at[r] = "check"
  /\ IF "dir" \in tree[Disk(r)]
     THEN Goto(r, "discover") /\ space' = space \cup {r} /\ UNCHANGED ending
     ELSE Goto(r, "over") /\ EndsWith(r, "TOOL_NOT_INSTALLED") /\ UNCHANGED space
  /\ UNCHANGED <<prepVars, tree, writes, boxVars, kept, loose, whole, torn, mishaps>>

(* discoverSourceTarget reads the whole tree, and fails where there is none. *)
discoverSourceTarget(r) ==
  /\ at[r] = "discover"
  /\ IF "dir" \in tree[Disk(r)]
     THEN /\ Goto(r, "spawn") /\ UNCHANGED ending
          /\ whole' = IF Whole(tree[Disk(r)]) THEN whole \cup {r} ELSE whole
     ELSE Goto(r, "cleanup") /\ EndsWith(r, "TOOL_NOT_INSTALLED") /\ UNCHANGED whole
  /\ UNCHANGED <<prepVars, tree, writes, boxVars, kept, space, loose, torn, mishaps>>

-----------------------------------------------------------------------------
(* ContainerSandboxExecutor.execute. Docker refuses to mount what is not     *)
(* there; an abort from before this moment is never heard.                   *)
spawn(r) ==
  /\ at[r] = "spawn" /\ Goto(r, "running")
  /\ box' = [box EXCEPT ![r] = IF "dir" \in tree[Disk(r)] THEN "up" ELSE "gone"]
  /\ UNCHANGED <<prepVars, tree, writes, aborted, flags, output, endVars, whole, torn, mishaps>>

(* once(child, "close") rejects when there was nothing to spawn.             *)
SpawnFails(r) ==
  /\ at[r] = "spawn" /\ Mishap /\ Goto(r, "cleanup")
  /\ EndsWith(r, "TOOL_NOT_INSTALLED")
  /\ UNCHANGED <<prepVars, tree, writes, boxVars, kept, space, loose, whole, torn>>

Stops(r, why) ==
  /\ flags' = [flags EXCEPT ![r] = @ \cup {why}]
  /\ UNCHANGED <<prepVars, readVars, box, output, endVars, mishaps>>

(* The job's signal: a cancellation, or the queue's timer, which is as long  *)
(* as the container's (RETRY_POLICIES, timeoutByAnalyzer) and began earlier. *)
abort(r) ==
  /\ at[r] \in {"resolve", "check", "spawn", "running"} \cup Fetching /\ ~aborted[r]
  /\ aborted' = [aborted EXCEPT ![r] = TRUE]
  /\ flags' = [flags EXCEPT ![r] = IF at[r] = "running" THEN @ \cup {"canceled"} ELSE @]
  /\ UNCHANGED <<prepVars, readVars, box, output, endVars, mishaps>>

\* Mutant: the job's signal is thought to be enough.
NoTimer(r) == FALSE /\ Stops(r, "timedOut")

(* The container's own timer: not before the queue's has aborted the signal. *)
timeout(r) ==
  /\ at[r] = "running" /\ aborted[r] /\ "timedOut" \notin flags[r]
  /\ Stops(r, "timedOut") /\ UNCHANGED aborted

appendBounded(r) ==
  /\ at[r] = "running" /\ box[r] = "up" /\ "limit" \notin flags[r]
  /\ Stops(r, "limit") /\ UNCHANGED aborted

(* The tool ends by itself, or docker stop ends it.                          *)
Outcomes == {{"zero", "json"}, {"zero"}, {"json"}, {"zero", "json", "flood"}}
Exits(r) ==
  /\ box[r] = "up" /\ box' = [box EXCEPT ![r] = "gone"]
  /\ \/ at[r] = "running" /\ \E o \in Outcomes : output' = [output EXCEPT ![r] = o]
     \/ at[r] # "running" /\ UNCHANGED output
  /\ UNCHANGED <<prepVars, readVars, aborted, flags, endVars, mishaps>>

(* The docker command is closed: its container has exited, or the command    *)
(* was killed first, by the executor's SIGTERM or by somebody else.          *)
Closed(r) ==
  /\ at[r] = "running" /\ box[r] = "gone" /\ Goto(r, "closed")
  /\ UNCHANGED <<prepVars, tree, writes, boxVars, endVars, whole, torn, mishaps>>
Killed(r) ==
  /\ at[r] = "running" /\ box[r] = "up" /\ Goto(r, "closed")
  /\ \/ flags[r] # {} /\ UNCHANGED <<loose, mishaps>>
     \/ flags[r] = {} /\ Mishap /\ loose' = loose \cup {r}
  /\ UNCHANGED <<prepVars, tree, writes, boxVars, kept, space, ending, whole, torn>>

\* Mutant: the container of a run with too much output is left to --rm.
RemoveUnlessFull(r) ==
  /\ at[r] = "closed" /\ Goto(r, "collect")
  /\ box' = [box EXCEPT ![r] = IF flags[r] \cap {"timedOut", "canceled"} # {} THEN "gone" ELSE @]
  /\ UNCHANGED <<prepVars, tree, writes, aborted, flags, output, endVars, whole, torn, mishaps>>

(* rm --force; an error of it is swallowed.                                  *)
removeContainer(r) ==
  /\ at[r] = "closed" /\ Goto(r, "collect")
  /\ \/ /\ box' = [box EXCEPT ![r] = IF flags[r] # {} THEN "gone" ELSE @]
        /\ UNCHANGED <<loose, mishaps>>
     \/ flags[r] # {} /\ box[r] = "up" /\ Mishap /\ loose' = loose \cup {r} /\ UNCHANGED box
  /\ UNCHANGED <<prepVars, tree, writes, aborted, flags, output, kept, space, ending, whole, torn>>

\* Mutant: the exit code is looked at first.
ExitCodeFirst(r) ==
  IF "zero" \in output[r] THEN "COMPLETED"
  ELSE IF "canceled" \in flags[r] THEN "CANCELED"
  ELSE IF "timedOut" \in flags[r] THEN "TIMED_OUT" ELSE "FAILED"

getExecutionStatus(r) ==
  IF "canceled" \in flags[r] THEN "CANCELED"
  ELSE IF "timedOut" \in flags[r] THEN "TIMED_OUT"
  ELSE IF "limit" \in flags[r] THEN "FAILED"
  ELSE IF "zero" \in output[r] THEN "COMPLETED" ELSE "FAILED"

(* The end of execute as the processor classifies it; what cannot be parsed  *)
(* has FAILED, timed out or not.                                             *)
classifyAnalyzerFailure(r) ==
  LET status == getExecutionStatus(r)
  IN IF status = "CANCELED" THEN "CANCELED"
     ELSE IF "json" \notin output[r] THEN "FAILED"
     ELSE IF status = "TIMED_OUT" THEN "TIMEOUT" ELSE status

(* The logs, the imported output, the raw result and scanner-result.json,    *)
(* in this order: a failed write, or an output beyond the limits, throws     *)
(* before the status is looked at.                                           *)
Collected == <<{}, {"logs"}, {"logs", "raw"}, {"logs", "raw", "result"}>>
Collect(r) ==
  /\ at[r] = "collect" /\ Goto(r, "cleanup")
  /\ \/ "flood" \in output[r] /\ kept' = [kept EXCEPT ![r] = Collected[2]] /\ EndsWith(r, "FAILED")
        /\ UNCHANGED mishaps
     \/ "flood" \notin output[r] /\ EndsWith(r, classifyAnalyzerFailure(r))
        /\ kept' = [kept EXCEPT ![r] = Collected[4]] /\ UNCHANGED mishaps
     \/ Mishap /\ EndsWith(r, "FAILED")
        /\ \E n \in 1 .. 3 : kept' = [kept EXCEPT ![r] = Collected[n]]
  /\ UNCHANGED <<prepVars, tree, writes, boxVars, space, loose, whole, torn>>

(* finally: cleanupRunWorkspace, whose failure is a warning.                 *)
cleanupRunWorkspace(r) ==
  /\ at[r] = "cleanup" /\ Goto(r, "over")
  /\ \/ space' = space \ {r} /\ UNCHANGED <<loose, mishaps>>
     \/ Mishap /\ loose' = loose \cup {r} /\ UNCHANGED space
  /\ UNCHANGED <<prepVars, tree, writes, boxVars, kept, ending, whole, torn>>

(* A worker ends: nobody waits for its containers or stops them any more.    *)
WorkerEnds(h) ==
  LET C == {r \in Runs : HostOf[r] = h /\ at[r] \notin {"idle", "over", "crashed"}}
  IN /\ C # {} /\ Mishap
     /\ at' = [r \in Runs |-> IF r \in C THEN "crashed" ELSE at[r]]
     /\ writes' = [r \in Runs |-> IF HostOf[r] = h THEN {} ELSE writes[r]]
     /\ torn' = torn \cup {Disk(r) : r \in {q \in C : at[q] \in Fetching}}
     /\ UNCHANGED <<prepVars, tree, boxVars, endVars, whole>>

(* cleanupStaleRunWorkspaces, when a worker starts.                          *)
cleanupStale(r) ==
  /\ at[r] = "crashed" /\ r \in space /\ space' = space \ {r}
  /\ UNCHANGED <<prepVars, readVars, boxVars, kept, ending, loose, mishaps>>

Executing(r) ==
  \/ Execute(r) \/ resolvePreparedArtifact(r) \/ ClearTree(r) \/ MakeTree(r) \/ listKeys(r)
  \/ ListsNothing(r) \/ Fetched(r) \/ createRunWorkspace(r) \/ discoverSourceTarget(r)
  \/ spawn(r) \/ Closed(r) \/ removeContainer(r) \/ Collect(r) \/ cleanupRunWorkspace(r)
  \/ \E f \in Files : WriteFile(r, f)
Stopped(r) == flags[r] # {} /\ Exits(r)

SandboxNext ==
  \/ \E p \in Preparations : Preparing(p) \/ PreparationFails(p)
  \/ Building \/ BuildFails
  \/ \E r \in Runs :
       \/ Executing(r) \/ FetchFails(r) \/ SpawnFails(r) \/ abort(r) \/ timeout(r)
       \/ appendBounded(r) \/ Exits(r) \/ Killed(r) \/ cleanupStale(r)
  \/ \E h \in Hosts : WorkerEnds(h)

(* Calls return, the timers run down, and docker stop stops a container. A   *)
(* tool need not end by itself.                                              *)
SandboxFairness ==
  \A r \in Runs : /\ WF_sandboxVars(Executing(r)) /\ WF_sandboxVars(Stopped(r))
                  /\ WF_sandboxVars(abort(r)) /\ WF_sandboxVars(timeout(r))
SandboxSpec == SandboxInit /\ [][SandboxNext]_sandboxVars /\ SandboxFairness

-----------------------------------------------------------------------------
(* A scanner that COMPLETED, and the profile of the build, rest on the whole *)
(* prepared source: on every worker, whichever copy of the tree it read. Not *)
(* so where the tree changed while it was shared: a second execution on a    *)
(* worker finds what the first is still fetching or failed to fetch, and a   *)
(* source prepared again is taken away under those who read it.              *)
SeesWholeSource ==
  /\ \A r \in Runs : ending[r] = "COMPLETED" /\ Disk(r) \notin torn => r \in whole
  /\ build.at = "done" /\ torn = {} => Whole(build.sees)

(* An execution ends as its container did: COMPLETED only if nothing stopped *)
(* it, it exited with zero and its whole output is kept; a TIMEOUT is one    *)
(* that no signal preceded; a cancellation that was heard ends CANCELED, or  *)
(* FAILED where its output could not be collected.                           *)
EndsAsItWas ==
  \A r \in Runs :
    /\ ending[r] = "COMPLETED" =>
         flags[r] = {} /\ output[r] = {"zero", "json"} /\ kept[r] = {"logs", "raw", "result"}
    /\ ending[r] = "TIMEOUT" => "timedOut" \in flags[r] /\ "canceled" \notin flags[r]
    /\ ending[r] = "CANCELED" => aborted[r]
    /\ at[r] = "over" /\ "canceled" \in flags[r] =>
         \/ ending[r] = "CANCELED"
         \/ ending[r] = "FAILED" /\ kept[r] # {"logs", "raw", "result"}

(* Nothing of an execution that is over is left ("docker --rm removes runtime *)
(* containers after execution", "temp workspaces are cleaned after each      *)
(* run"), however it was stopped, where docker and the disk did their part.  *)
NothingLeft ==
  \A r \in Runs \ loose : at[r] = "over" => box[r] # "up" /\ r \notin space

(* Whatever the tool does, an execution ends, or its worker does.            *)
ExecutionsEnd == \A r \in Runs : at[r] = "running" ~> at[r] \in {"over", "crashed"}
=============================================================================
