----------------------------- MODULE UsageQuota -----------------------------
(* What an organization may consume in a month (usage-limits.service.ts and *)
(* entitlements.service.ts): a request is admitted by the plan of its       *)
(* subscription, then compared with one ledger, written to it, and written  *)
(* to a second ledger, each by a query of its own.                          *)
EXTENDS BillingWebhooks, FiniteSetsExt

CONSTANTS
  Requests,
  PlanLimit,       \* [Subscriptions -> limit of the plan], -1 without limit
  FreeLimit,       \* the limit without an active subscription
  OverrideLimits,  \* what an administrator may grant instead
  MaxLimit,        \* the largest of them
  MaxMonth         \* months the model runs for

Limits == {-1} \cup 0..MaxLimit

ASSUME QuotaAssumption ==
  /\ IsFiniteSet(Requests) /\ Requests # {}
  /\ MaxLimit \in Nat /\ MaxMonth \in Nat
  /\ PlanLimit \in [Subscriptions -> Limits]
  /\ FreeLimit \in Limits /\ OverrideLimits \subseteq Limits

Months == 0..MaxMonth
Metrics == {"SCANS", "SOURCE_ARTIFACTS", "OTHER"}

VARIABLES
  month,      \* what startOfMonth says now
  override,   \* {} or {the limit an administrator granted}
  charge,     \* [Requests -> the charge each request is making]
  counter,    \* [Metrics -> [Months -> usageCounter.used]]
  meter,      \* [Metrics -> [Months -> usageMeter.used]]
  unlimited,  \* metrics and months charged under no limit (history)
  unmetered   \* requests that died between the two ledgers (history)

quotaVars == <<month, override, charge, counter, meter, unlimited, unmetered>>

NoCharge == [at |-> "none"]

QuotaInit ==
  /\ month = 0 /\ override = {}
  /\ charge = [r \in Requests |-> NoCharge]
  /\ counter = [m \in Metrics |-> [p \in Months |-> 0]]
  /\ meter = [m \in Metrics |-> [p \in Months |-> 0]]
  /\ unlimited = {} /\ unmetered = {}

(* activePlan: an override, else the plan of the youngest of the active     *)
(* subscriptions, else the free plan.                                       *)
Youngest == {i \in Active : \A j \in Active : j <= i}
LimitNow ==
  IF override # {} THEN override
  ELSE IF Active = {} THEN {FreeLimit} ELSE {PlanLimit[subAge[i]] : i \in Youngest}

(* assertAndConsume begins with the month. *)
BeginCharge(r, m) ==
  /\ charge[r] = NoCharge
  /\ charge' = [charge EXCEPT ![r] = [at |-> "begun", metric |-> m, started |-> month]]
  /\ UNCHANGED <<month, override, counter, meter, unlimited, unmetered>>

Unlimited(l) == l = -1

(* checkEntitlement, assertEntitlement: of the month it finds, which may be *)
(* the next one.                                                            *)
Decide(r) ==
  /\ charge[r].at = "begun"
  /\ \E l \in LimitNow : LET c == charge[r]
     IN charge' = [charge EXCEPT ![r] =
          IF ~Unlimited(l) /\ meter[c.metric][month] + 1 > l
          THEN [at |-> "denied"]
          ELSE [at |-> "decided", metric |-> c.metric, started |-> c.started,
                decided |-> month, limit |-> l]]
  /\ UNCHANGED <<month, override, counter, meter, unlimited, unmetered>>

CompareLate(r) ==  \* mutant: a request may use one more than the limit
  /\ charge[r].at = "decided"
  /\ LET c == charge[r]
     IN charge' = [charge EXCEPT ![r] =
          IF ~Unlimited(c.limit) /\ counter[c.metric][c.started] > c.limit
          THEN [at |-> "denied"] ELSE [c EXCEPT !.at = "compared"]]
  /\ unlimited' = IF Unlimited(charge[r].limit)
                  THEN unlimited \cup {<<charge[r].metric, charge[r].started>>} ELSE unlimited
  /\ UNCHANGED <<month, override, counter, meter, unmetered>>

(* assertAndConsume: the counter of the month the request began in.         *)
Compare(r) ==
  /\ charge[r].at = "decided"
  /\ LET c == charge[r]
     IN charge' = [charge EXCEPT ![r] =
          IF ~Unlimited(c.limit) /\ counter[c.metric][c.started] + 1 > c.limit
          THEN [at |-> "denied"] ELSE [c EXCEPT !.at = "compared"]]
  /\ unlimited' = IF Unlimited(charge[r].limit)
                  THEN unlimited \cup {<<charge[r].metric, charge[r].started>>} ELSE unlimited
  /\ UNCHANGED <<month, override, counter, meter, unmetered>>

(* The transaction that increments the counter and writes the usage event.  *)
Charge(r) ==
  /\ charge[r].at = "compared"
  /\ LET c == charge[r]
     IN counter' = [counter EXCEPT ![c.metric][c.started] = @ + 1]
  /\ charge' = [charge EXCEPT ![r].at = "charged"]
  /\ UNCHANGED <<month, override, meter, unlimited, unmetered>>

(* consume: the meter of the month of the decision.                         *)
Meter(r) ==
  /\ charge[r].at = "charged"
  /\ LET c == charge[r]
     IN meter' = [meter EXCEPT ![c.metric][c.decided] = @ + 1]
  /\ charge' = [charge EXCEPT ![r].at = "metered"]
  /\ UNCHANGED <<month, override, counter, unlimited, unmetered>>

(* A query fails or the process ends between two of them. *)
ChargeFails(r) ==
  /\ charge[r].at \in {"begun", "decided", "compared", "charged"}
  /\ charge' = [charge EXCEPT ![r] = [at |-> "failed"]]
  /\ unmetered' = IF charge[r].at = "charged" THEN unmetered \cup {r} ELSE unmetered
  /\ UNCHANGED <<month, override, counter, meter, unlimited>>

(* createAdminOverride; revokeAdminOverride, or its expiry.                 *)
Override ==
  /\ \/ override = {} /\ override' \in {{l} : l \in OverrideLimits}
     \/ override # {} /\ override' = {}
  /\ UNCHANGED <<month, charge, counter, meter, unlimited, unmetered>>

NextMonth ==
  /\ month < MaxMonth /\ month' = month + 1
  /\ UNCHANGED <<override, charge, counter, meter, unlimited, unmetered>>

ChargeStep(r) ==
  Decide(r) \/ Compare(r) \/ Charge(r) \/ Meter(r)

-----------------------------------------------------------------------------
(* Properties.                                                              *)

(* Charges that passed the comparison and are not yet in the counter.       *)
Passed(m, p) ==
  {r \in Requests : charge[r].at = "compared" /\ charge[r].metric = m /\ charge[r].started = p}

(* Comparing and incrementing are two steps, so requests may pass the limit *)
(* together: by less than the number of requests at once, and never more,   *)
(* whatever becomes of plans and overrides in between.                      *)
OvershootBounded ==
  \A m \in Metrics, p \in Months :
    <<m, p>> \notin unlimited =>
      counter[m][p] + Cardinality(Passed(m, p)) <= MaxLimit + Cardinality(Requests) - 1

Total(ledger, m) == MapThenSumSet(LAMBDA p : ledger[m][p], Months)

=============================================================================
