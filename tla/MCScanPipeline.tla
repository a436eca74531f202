---------------------------- MODULE MCScanPipeline ----------------------------
(* Small instances of ScanPipeline for TLC. *)
EXTENDS ScanPipeline, TLC

(* Two attempts where a stage has two or more, so that each stage is tried *)
(* again once, and one for the stages whose retries look like the others'. *)
TwoAttempts == [s \in Stages |-> 2]
FewAttempts == [s \in Stages |-> IF s \in {"prepare", "report"} THEN 2 ELSE 1]
(* A crash makes a job run again without a second attempt. *)
OneAttempt == [s \in Stages |-> 1]

NoApiJobs == {}
NoKinds == [j \in NoApiJobs |-> "build"]

AnalyzerSymmetry == Permutations(Analyzers)

(* One API job of each processor; MaxApiJobs says how many a run may add.  *)
ThreeApiJobs == {"rebuild", "rescan", "revalidate"}
ThreeKinds == [rebuild |-> "build", rescan |-> CHOOSE a \in Analyzers : TRUE,
               revalidate |-> "validate"]
=============================================================================
