---------------------------- MODULE ScanLifecycle ----------------------------
(***************************************************************************)
(* What a scan's status promises its readers: it climbs the ladder of      *)
(* stages one rung at a time, may fail or be cancelled from any rung, is   *)
(* finished only from the top rung, and never leaves a terminal status.    *)
(* The statuses are those of ScanStatus in the Prisma schema; "NONE" is    *)
(* the scan that has no row yet.                                           *)
(***************************************************************************)
VARIABLE status

Ladder == [NONE |-> "QUEUED", QUEUED |-> "PREPARING", PREPARING |-> "ANALYZING",
           ANALYZING |-> "NORMALIZING", NORMALIZING |-> "SCORING",
           SCORING |-> "REPORTING"]

Finished == {"COMPLETED", "PARTIAL"}
Terminal == Finished \cup {"FAILED", "CANCELED"}

Init == status = "NONE"

(* The next stage of the pipeline starts.                                  *)
Climb == status \in DOMAIN Ladder /\ status' = Ladder[status]

(* The report is published.                                                *)
Finish == status = "REPORTING" /\ status' \in Finished

(* A stage gives up, or a cancellation is observed.                        *)
Abort == status \notin Terminal \cup {"NONE"} /\ status' \in {"FAILED", "CANCELED"}

Next == Climb \/ Finish \/ Abort

(* A scan that exists keeps moving until it reaches a terminal status.     *)
Spec == Init /\ [][Next]_status /\ WF_status(status # "NONE" /\ Next)
=============================================================================
