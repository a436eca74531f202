------------------------- MODULE MCSourceIngestion --------------------------
EXTENDS SourceIngestion, TLC

CONSTANTS e1, e2, e3, s1, r1, r2, h1, h2

MCKindOf == e1 :> "activated" @@ e2 :> "activated" @@ e3 :> "ended"
MCKeyOf == e1 :> "k1" @@ e2 :> "k1" @@ e3 :> "k2"
MCSubOf == [e \in Events |-> s1]
MCPlanLimit == [s \in Subscriptions |-> -1]
MCOverrideLimits == {-1}
MCMayAsk == r1 :> {"upload", "repository", "other"} @@ r2 :> {"upload", "repository", "scan", "other"}
MCSymmetry == Permutations({h1, h2})

(* Three instances in one run: two requests at once over the end of a month, *)
(* while an administrator changes the limit; one request while webhooks      *)
(* change the plan; and charges alone, again and again. A product would only *)
(* repeat the parts: they share the plan and the ledgers of other metrics.   *)
MCNext ==
  /\ CommerceNext
  /\ req'[r2].at # "idle" => deliveries' = 0
  /\ (\E r \in Requests : req'[r].kind = "other") \/ Total(counter', "OTHER") > 0
       => \A r \in Requests : req'[r].kind \in {"none", "other"}
  /\ Total(counter', "OTHER") <= 3
MCSpec == CommerceInit /\ [][MCNext]_commerceVars
=============================================================================
