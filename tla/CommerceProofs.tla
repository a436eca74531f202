-------------------------- MODULE CommerceProofs ----------------------------
(* What TLAPS proves of webhooks and quotas, for every number of events,     *)
(* deliveries, requests, failures and months.                                *)
EXTENDS SourceIngestion, FiniteSetTheorems, SequenceTheorems, TLAPS

-----------------------------------------------------------------------------
(* Webhooks.                                                                 *)

HandlerStates ==
  [at : {"waiting"}] \cup [at : {"unknown", "recorded", "subscribed", "applied"}, event : Events]

BillingTypes ==
  /\ eventRow \in [Keys -> {"NONE", "RECEIVED", "PROCESSED", "NOT_ASSESSED"}]
  /\ handler \in [Handlers -> HandlerStates]
  /\ applied \in [Events -> Nat]
  /\ subAge \in Seq(Subscriptions)

SameKey(e) == {f \in Events : KeyOf[f] = KeyOf[e]}

(* An event without a row was not applied. *)
UnrecordedUnapplied == \A e \in Events : eventRow[KeyOf[e]] = "NONE" => applied[e] = 0

(* A handler between the row and the effect is the only one of its key, and  *)
(* nothing of that key was applied.                                          *)
RecordedAlone ==
  \A h \in Handlers : handler[h].at = "recorded" =>
    /\ eventRow[KeyOf[handler[h].event]] # "NONE"
    /\ \A e \in SameKey(handler[h].event) : applied[e] = 0
    /\ \A g \in Handlers \ {h} : handler[g].at = "recorded" =>
         KeyOf[handler[g].event] # KeyOf[handler[h].event]

BillingInv == BillingTypes /\ UnrecordedUnapplied /\ RecordedAlone /\ AtMostOnce

LEMMA KeyOfEvents == \A e \in Events : KeyOf[e] \in Keys
BY DEF Keys

LEMMA BillingInitInv == BillingInit => BillingInv
<1> SUFFICES ASSUME BillingInit PROVE BillingInv
  OBVIOUS
<1> USE DEF BillingInit
<1>1. BillingTypes
  BY DEF BillingTypes, HandlerStates, Waiting
<1>2. \A h \in Handlers : handler[h].at # "recorded"
  BY DEF Waiting
<1>3. UnrecordedUnapplied /\ AtMostOnce
  BY DEF UnrecordedUnapplied, AtMostOnce
<1> QED BY <1>1, <1>2, <1>3 DEF BillingInv, RecordedAlone

LEMMA BillingStepInv ==
  ASSUME BillingInv, BillingNext
  PROVE  BillingInv'
<1> USE BillingAssumption
<1>0. BillingTypes /\ UnrecordedUnapplied /\ RecordedAlone /\ AtMostOnce
  BY DEF BillingInv
<1>k. PICK h \in Handlers :
        \/ \E e \in Events : Receive(h, e)
        \/ Record(h) \/ Apply(h) \/ CompleteCheckout(h) \/ MarkProcessed(h) \/ HandlerFails(h)
  BY DEF BillingNext
<1>h. handler[h] \in HandlerStates /\ \A g \in Handlers : handler[g] \in HandlerStates
  BY <1>0 DEF BillingTypes
<1>1. CASE \E e \in Events : Receive(h, e)
  <2> PICK e \in Events : Receive(h, e)
    BY <1>1
  <2>1. handler' = handler \/ handler' = [handler EXCEPT ![h] = [at |-> "unknown", event |-> e]]
    BY DEF Receive
  <2>2. UNCHANGED <<eventRow, applied, subAge>>
    BY DEF Receive
  <2>t. [at |-> "unknown", event |-> e] \in HandlerStates
    BY DEF HandlerStates
  <2>3. handler' \in [Handlers -> HandlerStates]
    BY <1>0, <2>1, <2>t DEF BillingTypes
  <2>4. BillingTypes'
    BY <1>0, <2>2, <2>3 DEF BillingTypes
  <2>5. \A g \in Handlers : handler'[g].at = "recorded" => handler'[g] = handler[g]
    BY <1>0, <2>1 DEF BillingTypes
  <2>6. RecordedAlone'
    BY <1>0, <2>2, <2>5 DEF RecordedAlone, SameKey
  <2> QED BY <1>0, <2>2, <2>4, <2>6 DEF BillingInv, UnrecordedUnapplied, AtMostOnce
<1>2. CASE Record(h)
  <2> DEFINE ev == handler[h].event
  <2>0. ev \in Events /\ KeyOf[ev] \in Keys
    BY <1>2, <1>h, KeyOfEvents DEF Record, HandlerStates
  <2>1. UNCHANGED <<applied, subAge>>
    BY <1>2 DEF Record
  <2>2. CASE eventRow[KeyOf[ev]] = "NONE"
    <3>1. eventRow' = [eventRow EXCEPT ![KeyOf[ev]] = "RECEIVED"] /\ handler' = [handler EXCEPT ![h].at = "recorded"]
      BY <1>2, <2>2 DEF Record, Move
    <3>2. BillingTypes'
      <4>1. [handler[h] EXCEPT !.at = "recorded"] \in HandlerStates
        BY <1>h, <1>2 DEF HandlerStates, Record
      <4>2. handler' \in [Handlers -> HandlerStates]
        BY <1>0, <3>1, <4>1 DEF BillingTypes
      <4>3. eventRow' \in [Keys -> {"NONE", "RECEIVED", "PROCESSED", "NOT_ASSESSED"}]
        BY <1>0, <3>1 DEF BillingTypes
      <4> QED BY <1>0, <2>1, <4>2, <4>3 DEF BillingTypes
    <3>3. \A e \in SameKey(ev) : applied[e] = 0
      BY <1>0, <2>2, <2>0 DEF UnrecordedUnapplied, SameKey
    <3>4. \A g \in Handlers \ {h} : handler[g].at = "recorded" => KeyOf[handler[g].event] # KeyOf[ev]
      BY <1>0, <2>2 DEF RecordedAlone
    <3>5. /\ handler'[h].event = ev
          /\ \A g \in Handlers \ {h} : handler'[g] = handler[g]
          /\ eventRow'[KeyOf[ev]] = "RECEIVED"
          /\ \A k \in Keys : eventRow[k] # "NONE" => eventRow'[k] # "NONE"
      BY <1>0, <3>1, <2>0, <1>h, <1>2 DEF BillingTypes, HandlerStates, Record
    <3>6. \A g \in Handlers : handler[g].at = "recorded" => handler[g].event \in Events
      BY <1>h DEF HandlerStates
    <3>7. RecordedAlone'
      <4> SUFFICES ASSUME NEW g \in Handlers, handler'[g].at = "recorded"
                   PROVE /\ eventRow'[KeyOf[handler'[g].event]] # "NONE"
                         /\ \A e \in SameKey(handler'[g].event) : applied'[e] = 0
                         /\ \A i \in Handlers \ {g} : handler'[i].at = "recorded" =>
                              KeyOf[handler'[i].event] # KeyOf[handler'[g].event]
        BY DEF RecordedAlone, SameKey
      <4>1. CASE g = h
        BY <4>1, <2>1, <3>3, <3>4, <3>5
      <4>2. CASE g # h
        <5>1. handler'[g] = handler[g]
          BY <4>2, <3>5
        <5>2. /\ eventRow[KeyOf[handler[g].event]] # "NONE"
              /\ \A e \in SameKey(handler[g].event) : applied[e] = 0
              /\ \A i \in Handlers \ {g} : handler[i].at = "recorded" =>
                   KeyOf[handler[i].event] # KeyOf[handler[g].event]
          BY <1>0, <5>1 DEF RecordedAlone
        <5>3. KeyOf[handler[g].event] \in Keys
          BY <3>6, <5>1, KeyOfEvents
        <5> QED BY <4>2, <5>1, <5>2, <5>3, <2>1, <3>4, <3>5
      <4> QED BY <4>1, <4>2
    <3>8. UnrecordedUnapplied'
      BY <1>0, <2>1, <3>5, KeyOfEvents DEF UnrecordedUnapplied
    <3> QED BY <1>0, <2>1, <3>2, <3>7, <3>8 DEF BillingInv, AtMostOnce
  <2>3. CASE eventRow[KeyOf[ev]] # "NONE"
    <3>1. eventRow' = eventRow /\ handler' = [handler EXCEPT ![h] = Waiting]
      BY <1>2, <2>3 DEF Record
    <3>2. BillingTypes'
      BY <1>0, <2>1, <3>1 DEF BillingTypes, HandlerStates, Waiting
    <3>3. \A g \in Handlers : handler'[g].at = "recorded" => handler'[g] = handler[g]
      BY <1>0, <3>1 DEF BillingTypes, Waiting
    <3>4. RecordedAlone'
      BY <1>0, <2>1, <3>1, <3>3 DEF RecordedAlone, SameKey
    <3> QED BY <1>0, <2>1, <3>1, <3>2, <3>4 DEF BillingInv, UnrecordedUnapplied, AtMostOnce
  <2> QED BY <2>2, <2>3
<1>3. CASE Apply(h)
  <2> DEFINE ev == handler[h].event
  <2>0. ev \in Events /\ KeyOf[ev] \in Keys
    BY <1>3, <1>h, KeyOfEvents DEF Apply, HandlerStates
  <2>1. PICK to \in {"subscribed", "applied"} : handler' = [handler EXCEPT ![h].at = to]
    BY <1>3 DEF Apply, Move
  <2>2. eventRow' = eventRow /\ applied' = [applied EXCEPT ![ev] = @ + 1]
    BY <1>3 DEF Apply
  <2>3. SubOf[ev] \in Subscriptions /\ (subAge' = subAge \/ subAge' = Append(subAge, SubOf[ev]))
    BY <1>3, <2>0 DEF Apply, BillingAssumption
  <2>4. BillingTypes'
    <3>1. [handler[h] EXCEPT !.at = to] \in HandlerStates
      BY <1>h, <1>3 DEF HandlerStates, Apply
    <3>2. handler' \in [Handlers -> HandlerStates]
      BY <1>0, <2>1, <3>1 DEF BillingTypes
    <3>3. applied' \in [Events -> Nat]
      BY <1>0, <2>0, <2>2 DEF BillingTypes
    <3>4. subAge' \in Seq(Subscriptions)
      <4>1. subAge \in Seq(Subscriptions)
        BY <1>0 DEF BillingTypes
      <4>2. Append(subAge, SubOf[ev]) \in Seq(Subscriptions)
        BY <4>1, <2>3, AppendProperties
      <4> QED BY <4>1, <4>2, <2>3
    <3> QED BY <1>0, <2>2, <3>2, <3>3, <3>4 DEF BillingTypes
  <2>5. /\ eventRow[KeyOf[ev]] # "NONE"
        /\ \A e \in SameKey(ev) : applied[e] = 0
        /\ \A g \in Handlers \ {h} : handler[g].at = "recorded" => KeyOf[handler[g].event] # KeyOf[ev]
    BY <1>0, <1>3 DEF RecordedAlone, Apply
  <2>6. \A e \in Events : applied'[e] = IF e = ev THEN applied[e] + 1 ELSE applied[e]
    BY <1>0, <2>2 DEF BillingTypes
  <2>7. /\ handler'[h].at # "recorded"
        /\ \A g \in Handlers \ {h} : handler'[g] = handler[g]
    BY <1>0, <2>1, <1>h, <1>3 DEF BillingTypes, HandlerStates, Apply
  <2>8. AtMostOnce'
    <3> SUFFICES ASSUME NEW e \in Events, NEW g \in Events, KeyOf[e] = KeyOf[g]
                 PROVE applied'[e] <= 1 /\ (e # g => applied'[e] + applied'[g] <= 1)
      BY DEF AtMostOnce
    <3>1. applied[e] \in Nat /\ applied[g] \in Nat
      BY <1>0 DEF BillingTypes
    <3>2. CASE KeyOf[e] = KeyOf[ev]
      <4>1. applied[e] = 0 /\ applied[g] = 0
        BY <2>5, <3>2 DEF SameKey
      <4> QED BY <4>1, <2>6, <2>0
    <3>3. CASE KeyOf[e] # KeyOf[ev]
      <4>1. applied[e] <= 1 /\ (e # g => applied[e] + applied[g] <= 1)
        BY <1>0, KeyOfEvents DEF AtMostOnce
      <4> QED BY <4>1, <2>6, <3>3
    <3> QED BY <3>2, <3>3
  <2>9. UnrecordedUnapplied'
    BY <1>0, <2>2, <2>5, <2>6 DEF UnrecordedUnapplied
  <2>10. RecordedAlone'
    <3> SUFFICES ASSUME NEW g \in Handlers, handler'[g].at = "recorded"
                 PROVE /\ eventRow'[KeyOf[handler'[g].event]] # "NONE"
                       /\ \A e \in SameKey(handler'[g].event) : applied'[e] = 0
                       /\ \A i \in Handlers \ {g} : handler'[i].at = "recorded" =>
                            KeyOf[handler'[i].event] # KeyOf[handler'[g].event]
      BY DEF RecordedAlone, SameKey
    <3>1. g # h /\ handler'[g] = handler[g]
      BY <2>7
    <3>2. /\ eventRow[KeyOf[handler[g].event]] # "NONE"
          /\ \A e \in SameKey(handler[g].event) : applied[e] = 0
          /\ \A i \in Handlers \ {g} : handler[i].at = "recorded" =>
               KeyOf[handler[i].event] # KeyOf[handler[g].event]
      BY <1>0, <3>1 DEF RecordedAlone
    <3>3. \A e \in SameKey(handler[g].event) : e # ev /\ e \in Events
      BY <2>5, <3>1 DEF SameKey
    <3> QED BY <2>2, <2>6, <2>7, <3>1, <3>2, <3>3
  <2> QED BY <2>4, <2>8, <2>9, <2>10 DEF BillingInv
<1>4. CASE CompleteCheckout(h)
  <2>1. handler' = [handler EXCEPT ![h].at = "applied"] /\ UNCHANGED <<eventRow, applied, subAge>>
    BY <1>4 DEF CompleteCheckout, Move
  <2>2. [handler[h] EXCEPT !.at = "applied"] \in HandlerStates
    BY <1>h, <1>4 DEF HandlerStates, CompleteCheckout
  <2>3. BillingTypes'
    BY <1>0, <2>1, <2>2 DEF BillingTypes
  <2>4. \A g \in Handlers : handler'[g].at = "recorded" => handler'[g] = handler[g]
    BY <1>0, <2>1, <1>h, <1>4 DEF BillingTypes, HandlerStates, CompleteCheckout
  <2>5. RecordedAlone'
    BY <1>0, <2>1, <2>4 DEF RecordedAlone, SameKey
  <2> QED BY <1>0, <2>1, <2>3, <2>5 DEF BillingInv, UnrecordedUnapplied, AtMostOnce
<1>5. CASE MarkProcessed(h)
  <2> DEFINE ev == handler[h].event
  <2>0. ev \in Events /\ KeyOf[ev] \in Keys
    BY <1>5, <1>h, KeyOfEvents DEF MarkProcessed, HandlerStates
  <2>1. /\ handler' = [handler EXCEPT ![h] = Waiting] /\ UNCHANGED <<applied, subAge>>
        /\ eventRow' = [eventRow EXCEPT ![KeyOf[ev]] = IF KindOf[ev] = "other" THEN "NOT_ASSESSED" ELSE "PROCESSED"]
    BY <1>5 DEF MarkProcessed
  <2>2. BillingTypes'
    BY <1>0, <2>1 DEF BillingTypes, HandlerStates, Waiting
  <2>3. \A g \in Handlers : handler'[g].at = "recorded" => handler'[g] = handler[g]
    BY <1>0, <2>1 DEF BillingTypes, Waiting
  <2>4. \A k \in Keys : eventRow'[k] = "NONE" => eventRow[k] = "NONE"
    BY <1>0, <2>1, <2>0 DEF BillingTypes
  <2>5. \A g \in Handlers : handler[g].at = "recorded" => KeyOf[handler[g].event] \in Keys
    BY <1>h, KeyOfEvents DEF HandlerStates
  <2>6. RecordedAlone'
    BY <1>0, <2>1, <2>3, <2>4, <2>5 DEF RecordedAlone, SameKey
  <2>7. UnrecordedUnapplied'
    BY <1>0, <2>1, <2>4, KeyOfEvents DEF UnrecordedUnapplied
  <2> QED BY <1>0, <2>1, <2>2, <2>6, <2>7 DEF BillingInv, AtMostOnce
<1>6. CASE HandlerFails(h)
  <2>1. handler' = [handler EXCEPT ![h] = Waiting] /\ UNCHANGED <<eventRow, applied, subAge>>
    BY <1>6 DEF HandlerFails
  <2>2. BillingTypes'
    BY <1>0, <2>1 DEF BillingTypes, HandlerStates, Waiting
  <2>3. \A g \in Handlers : handler'[g].at = "recorded" => handler'[g] = handler[g]
    BY <1>0, <2>1 DEF BillingTypes, Waiting
  <2>4. RecordedAlone'
    BY <1>0, <2>1, <2>3 DEF RecordedAlone, SameKey
  <2> QED BY <1>0, <2>1, <2>2, <2>4 DEF BillingInv, UnrecordedUnapplied, AtMostOnce
<1> QED BY <1>k, <1>1, <1>2, <1>3, <1>4, <1>5, <1>6

-----------------------------------------------------------------------------
(* Quotas.                                                                   *)

Begun == [at : {"begun"}, metric : Metrics, started : Months]
Decided == [at : {"decided", "compared", "charged", "metered"}, metric : Metrics,
            started : Months, decided : Months, limit : Limits]
Charges == [at : {"none", "denied", "failed"}] \cup Begun \cup Decided

QuotaTypes ==
  /\ month \in Months
  /\ override \subseteq Limits
  /\ charge \in [Requests -> Charges]
  /\ counter \in [Metrics -> [Months -> Nat]]
  /\ subAge \in Seq(Subscriptions)

QuotaInv == QuotaTypes /\ OvershootBounded

LEMMA PassedFinite ==
  \A m \in Metrics, p \in Months :
    /\ IsFiniteSet(Passed(m, p)) /\ Cardinality(Passed(m, p)) \in Nat
    /\ Cardinality(Passed(m, p)) <= Cardinality(Requests)
    /\ Cardinality(Requests) \in Nat
<1> TAKE m \in Metrics, p \in Months
<1>1. Passed(m, p) \in SUBSET Requests /\ IsFiniteSet(Requests)
  BY QuotaAssumption DEF Passed
<1>2. IsFiniteSet(Passed(m, p)) /\ Cardinality(Passed(m, p)) <= Cardinality(Requests)
  BY <1>1, FS_Subset
<1> QED BY <1>1, <1>2, FS_CardinalityType

(* The limit a decision is made with is a limit. *)
LEMMA LimitIsLimit ==
  ASSUME QuotaTypes, NEW l \in LimitNow
  PROVE  l \in Limits
<1>1. \A i \in Youngest : subAge[i] \in Subscriptions
  BY DEF QuotaTypes, Youngest, Active
<1>2. \A i \in Youngest : PlanLimit[subAge[i]] \in Limits
  BY <1>1, QuotaAssumption
<1> QED BY <1>2, QuotaAssumption DEF LimitNow, QuotaTypes

(* Steps after which no more charges have passed keep the bound. *)
LEMMA FewerPassed ==
  ASSUME QuotaInv, counter' = counter, unlimited \subseteq unlimited',
         \A m \in Metrics, p \in Months : Passed(m, p)' \subseteq Passed(m, p)
  PROVE  OvershootBounded'
<1> SUFFICES ASSUME NEW m \in Metrics, NEW p \in Months, <<m, p>> \notin unlimited'
             PROVE counter'[m][p] + Cardinality(Passed(m, p)')
                     <= MaxLimit + Cardinality(Requests) - 1
  BY DEF OvershootBounded
<1>1. counter[m][p] + Cardinality(Passed(m, p)) <= MaxLimit + Cardinality(Requests) - 1
  BY DEF QuotaInv, OvershootBounded
<1>2. IsFiniteSet(Passed(m, p)) /\ Cardinality(Passed(m, p)) \in Nat /\ Cardinality(Requests) \in Nat
  BY PassedFinite
<1>3. Passed(m, p)' \in SUBSET Passed(m, p)
  OBVIOUS
<1>4. IsFiniteSet(Passed(m, p)') /\ Cardinality(Passed(m, p)') <= Cardinality(Passed(m, p))
  BY <1>2, <1>3, FS_Subset
<1>5. Cardinality(Passed(m, p)') \in Nat
  BY <1>4, FS_CardinalityType
<1>6. counter[m][p] \in Nat /\ MaxLimit \in Nat
  BY QuotaAssumption DEF QuotaInv, QuotaTypes
<1> QED BY <1>1, <1>2, <1>4, <1>5, <1>6

(* A charge that moves anywhere but to "compared". *)
LEMMA ChargeMoves ==
  ASSUME QuotaInv, NEW r \in Requests, NEW c \in Charges, c.at # "compared",
         charge' = [charge EXCEPT ![r] = c],
         UNCHANGED <<month, counter>>, override' = override, subAge' = subAge,
         unlimited \subseteq unlimited'
  PROVE  QuotaInv'
<1>1. QuotaTypes'
  BY DEF QuotaInv, QuotaTypes
<1>2. \A m \in Metrics, p \in Months : Passed(m, p)' \subseteq Passed(m, p)
  BY DEF QuotaInv, QuotaTypes, Passed
<1> QED BY <1>1, <1>2, FewerPassed DEF QuotaInv

LEMMA CompareInv ==
  ASSUME QuotaInv, NEW r \in Requests, Compare(r), subAge' = subAge
  PROVE  QuotaInv'
<1> DEFINE c == charge[r]
<1>1. c \in Decided /\ c.at = "decided"
  BY DEF QuotaInv, QuotaTypes, Charges, Begun, Decided, Compare
<1>2. UNCHANGED <<month, override, counter>> /\ unlimited \subseteq unlimited'
  BY DEF Compare
<1>3. CASE ~Unlimited(c.limit) /\ counter[c.metric][c.started] + 1 > c.limit
  <2>1. charge' = [charge EXCEPT ![r] = [at |-> "denied"]]
    BY <1>3 DEF Compare
  <2>2. [at |-> "denied"] \in Charges
    BY DEF Charges
  <2> QED BY <1>2, <2>1, <2>2, ChargeMoves
<1>4. CASE ~(~Unlimited(c.limit) /\ counter[c.metric][c.started] + 1 > c.limit)
  <2> DEFINE d == [c EXCEPT !.at = "compared"]
  <2>1. charge' = [charge EXCEPT ![r] = d]
    BY <1>4 DEF Compare
  <2>2. d \in Charges /\ d.at = "compared" /\ d.metric = c.metric /\ d.started = c.started
    BY <1>1 DEF Charges, Decided
  <2>3. QuotaTypes'
    BY <1>2, <2>1, <2>2 DEF QuotaInv, QuotaTypes
  <2>4. ASSUME NEW m \in Metrics, NEW p \in Months, <<m, p>> \notin unlimited'
        PROVE counter'[m][p] + Cardinality(Passed(m, p)') <= MaxLimit + Cardinality(Requests) - 1
    <3>1. CASE m = c.metric /\ p = c.started
      <4>1. ~Unlimited(c.limit)
        BY <2>4, <3>1 DEF Compare
      <4>2. c.limit \in Limits /\ counter[m][p] \in Nat /\ MaxLimit \in Nat
        BY <1>1, QuotaAssumption DEF Decided, QuotaInv, QuotaTypes
      <4>3. counter[m][p] + 1 <= MaxLimit
        BY <4>1, <4>2, <1>4, <3>1 DEF Limits, Unlimited
      <4>4. Passed(m, p)' \in SUBSET Requests /\ IsFiniteSet(Requests)
        BY QuotaAssumption DEF Passed
      <4>5. /\ IsFiniteSet(Passed(m, p)')
            /\ Cardinality(Passed(m, p)') <= Cardinality(Requests)
        BY <4>4, FS_Subset
      <4>6. Cardinality(Passed(m, p)') \in Nat /\ Cardinality(Requests) \in Nat
        BY <4>4, <4>5, FS_CardinalityType
      <4> QED BY <1>2, <4>2, <4>3, <4>5, <4>6
    <3>2. CASE ~(m = c.metric /\ p = c.started)
      <4>1. Passed(m, p)' = Passed(m, p)
        BY <2>1, <2>2, <3>2, <1>1 DEF QuotaInv, QuotaTypes, Passed
      <4>2. <<m, p>> \notin unlimited
        BY <1>2, <2>4
      <4> QED BY <4>1, <4>2, <1>2 DEF QuotaInv, OvershootBounded
    <3> QED BY <3>1, <3>2
  <2> QED BY <2>3, <2>4 DEF QuotaInv, OvershootBounded
<1> QED BY <1>3, <1>4

LEMMA ChargeInv ==
  ASSUME QuotaInv, NEW r \in Requests, Charge(r), subAge' = subAge
  PROVE  QuotaInv'
<1> DEFINE c == charge[r]  d == [c EXCEPT !.at = "charged"]
<1>1. c \in Decided /\ c.at = "compared" /\ c.metric \in Metrics /\ c.started \in Months
  BY DEF QuotaInv, QuotaTypes, Charges, Begun, Decided, Charge
<1>2. /\ UNCHANGED <<month, override, unlimited>>
      /\ counter' = [counter EXCEPT ![c.metric][c.started] = @ + 1]
      /\ charge' = [charge EXCEPT ![r] = d]
  BY DEF Charge
<1>3. d \in Charges /\ d.at = "charged"
  BY <1>1 DEF Charges, Decided
<1>4. \A m \in Metrics, p \in Months :
        /\ counter[m][p] \in Nat
        /\ counter'[m][p] = IF m = c.metric /\ p = c.started THEN counter[m][p] + 1 ELSE counter[m][p]
  BY <1>1, <1>2 DEF QuotaInv, QuotaTypes
<1>5. counter' \in [Metrics -> [Months -> Nat]]
  BY <1>1, <1>2 DEF QuotaInv, QuotaTypes
<1>6. QuotaTypes'
  BY <1>2, <1>3, <1>5 DEF QuotaInv, QuotaTypes
<1>7. ASSUME NEW m \in Metrics, NEW p \in Months, <<m, p>> \notin unlimited
      PROVE counter'[m][p] + Cardinality(Passed(m, p)') <= MaxLimit + Cardinality(Requests) - 1
  <2>1. counter[m][p] + Cardinality(Passed(m, p)) <= MaxLimit + Cardinality(Requests) - 1
    BY <1>7 DEF QuotaInv, OvershootBounded
  <2>2. IsFiniteSet(Passed(m, p)) /\ Cardinality(Passed(m, p)) \in Nat /\ Cardinality(Requests) \in Nat
    BY PassedFinite
  <2>3. CASE m = c.metric /\ p = c.started
    <3>1. r \in Passed(m, p) /\ Passed(m, p)' = Passed(m, p) \ {r}
      BY <1>1, <1>2, <1>3, <2>3 DEF QuotaInv, QuotaTypes, Passed
    <3>2. Cardinality(Passed(m, p)') = Cardinality(Passed(m, p)) - 1
      BY <2>2, <3>1, FS_RemoveElement
    <3> QED BY <1>4, <2>1, <2>2, <2>3, <3>2, QuotaAssumption
  <2>4. CASE ~(m = c.metric /\ p = c.started)
    <3>1. Passed(m, p)' = Passed(m, p)
      BY <1>1, <1>2, <1>3, <2>4 DEF QuotaInv, QuotaTypes, Passed
    <3> QED BY <1>4, <2>1, <2>4, <3>1
  <2> QED BY <2>3, <2>4
<1> QED BY <1>2, <1>6, <1>7 DEF QuotaInv, OvershootBounded

LEMMA QuotaInitInv == CommerceInit => QuotaInv
<1> SUFFICES ASSUME CommerceInit PROVE QuotaInv
  OBVIOUS
<1> USE DEF CommerceInit, QuotaInit, BillingInit
<1>1. MaxMonth \in Nat /\ MaxLimit \in Nat /\ IsFiniteSet(Requests) /\ Requests # {}
  BY QuotaAssumption
<1>2. QuotaTypes
  <2>1. month \in Months /\ override \subseteq Limits /\ subAge \in Seq(Subscriptions)
    BY <1>1 DEF Months
  <2>2. NoCharge \in Charges
    BY DEF Charges, NoCharge
  <2>3. charge \in [Requests -> Charges]
    BY <2>2
  <2>4. counter \in [Metrics -> [Months -> Nat]]
    OBVIOUS
  <2> QED BY <2>1, <2>3, <2>4 DEF QuotaTypes
<1>3. \A m \in Metrics, p \in Months : Passed(m, p) = {} /\ counter[m][p] = 0
  BY DEF Passed, NoCharge
<1>4. Cardinality(Requests) \in Nat /\ Cardinality(Requests) # 0
  BY <1>1, FS_CardinalityType, FS_EmptySet
<1>5. \A m \in Metrics, p \in Months : counter[m][p] + Cardinality(Passed(m, p)) = 0
  <2> TAKE m \in Metrics, p \in Months
  <2>1. Passed(m, p) = {} /\ counter[m][p] = 0
    BY <1>3
  <2> QED BY <2>1, FS_EmptySet
<1>6. 0 <= MaxLimit + Cardinality(Requests) - 1
  BY <1>1, <1>4
<1>7. OvershootBounded
  BY <1>5, <1>6 DEF OvershootBounded
<1> QED BY <1>2, <1>7 DEF QuotaInv

(* One step of a request. *)
LEMMA SourceStepInv ==
  ASSUME QuotaInv, NEW r \in Requests, SourceStep(r), UNCHANGED billingVars
  PROVE  QuotaInv'
<1> USE DEF billingVars
<1>0. subAge' = subAge /\ QuotaTypes
  BY DEF QuotaInv
<1>1. CASE UNCHANGED quotaVars
  <2>1. UNCHANGED <<month, override, charge, counter, unlimited, subAge>>
    BY <1>0, <1>1 DEF quotaVars
  <2>2. QuotaTypes'
    BY <1>0, <2>1 DEF QuotaTypes
  <2>3. \A m \in Metrics, p \in Months : Passed(m, p)' \subseteq Passed(m, p)
    BY <2>1 DEF Passed
  <2> QED BY <2>1, <2>2, <2>3, FewerPassed DEF QuotaInv
<1>2. CASE Pay(r)
  <2>1. CASE BeginCharge(r, Metric(r))
    <3> DEFINE c == [at |-> "begun", metric |-> Metric(r), started |-> month]
    <3>1. c \in Charges /\ c.at # "compared"
      BY <1>0 DEF Charges, Begun, Metric, Metrics, QuotaTypes
    <3> QED BY <1>0, <2>1, <3>1, ChargeMoves DEF BeginCharge
  <2>2. CASE Decide(r)
    <3>1. PICK l \in LimitNow :
            charge' = [charge EXCEPT ![r] =
              IF ~Unlimited(l) /\ meter[charge[r].metric][month] + 1 > l
              THEN [at |-> "denied"]
              ELSE [at |-> "decided", metric |-> charge[r].metric, started |-> charge[r].started,
                    decided |-> month, limit |-> l]]
      BY <2>2 DEF Decide
    <3>2. l \in Limits
      BY <1>0, LimitIsLimit
    <3>3. charge[r] \in Begun
      BY <1>0, <2>2 DEF QuotaTypes, Charges, Begun, Decided, Decide
    <3> DEFINE d == [at |-> "decided", metric |-> charge[r].metric, started |-> charge[r].started,
                     decided |-> month, limit |-> l]
    <3>4. d \in Charges /\ d.at # "compared" /\ [at |-> "denied"] \in Charges
      BY <1>0, <3>2, <3>3 DEF Charges, Begun, Decided, QuotaTypes
    <3>5. \E c \in Charges : c.at # "compared" /\ charge' = [charge EXCEPT ![r] = c]
      BY <3>1, <3>4
    <3> QED BY <1>0, <2>2, <3>5, ChargeMoves DEF Decide
  <2>3. CASE Compare(r)
    BY <1>0, <2>3, CompareInv
  <2>4. CASE Charge(r)
    BY <1>0, <2>4, ChargeInv
  <2>5. CASE Meter(r)
    <3>1. charge[r] \in Decided
      BY <1>0, <2>5 DEF QuotaTypes, Charges, Begun, Decided, Meter
    <3> DEFINE c == [charge[r] EXCEPT !.at = "metered"]
    <3>2. c \in Charges /\ c.at # "compared"
      BY <3>1 DEF Charges, Decided
    <3> QED BY <1>0, <2>5, <3>2, ChargeMoves DEF Meter
  <2> QED BY <1>2, <2>1, <2>2, <2>3, <2>4, <2>5 DEF Pay, ChargeStep
<1>3. CASE Paid(r) \/ NotPaid(r)
  <2>1. /\ charge' = [charge EXCEPT ![r] = NoCharge]
        /\ UNCHANGED <<month, override, counter, unlimited>>
    BY <1>3 DEF Paid, NotPaid
  <2>2. NoCharge \in Charges /\ NoCharge.at # "compared"
    BY DEF NoCharge, Charges
  <2> QED BY <1>0, <2>1, <2>2, ChargeMoves
<1>4. CASE ~(Pay(r) \/ Paid(r) \/ NotPaid(r))
  <2>1. UNCHANGED quotaVars
    BY <1>4 DEF SourceStep, Arrive, CreateRun, Token, CreateArtifact, Fetch, Reject, Store,
                StoreRest, Complete, Snapshot, FailArtifact, Report, CreateScan, Saturated, Link
  <2> QED BY <2>1, <1>1
<1> QED BY <1>2, <1>3, <1>4

LEMMA CommerceStepInv ==
  ASSUME BillingInv, QuotaInv, [CommerceNext]_commerceVars
  PROVE  BillingInv' /\ QuotaInv'
<1>1. CASE BillingNext /\ UNCHANGED <<quotaVars, sourceVars>>
  <2>1. BillingInv'
    BY <1>1, BillingStepInv
  <2>2. subAge' \in Seq(Subscriptions)
    BY <2>1 DEF BillingInv, BillingTypes
  <2>3. UNCHANGED <<month, override, charge, counter, unlimited>>
    BY <1>1 DEF quotaVars
  <2>4. QuotaTypes'
    BY <2>2, <2>3 DEF QuotaInv, QuotaTypes
  <2>5. \A m \in Metrics, p \in Months : Passed(m, p)' \subseteq Passed(m, p)
    BY <2>3 DEF Passed
  <2> QED BY <2>1, <2>3, <2>4, <2>5, FewerPassed DEF QuotaInv
<1>a. ASSUME UNCHANGED <<eventRow, handler, subAge, applied>>
      PROVE  BillingInv'
  <2>1. BillingTypes'
    BY <1>a DEF BillingInv, BillingTypes
  <2>2. RecordedAlone'
    BY <1>a DEF BillingInv, RecordedAlone, SameKey
  <2> QED BY <1>a, <2>1, <2>2 DEF BillingInv, UnrecordedUnapplied, AtMostOnce
<1>2. CASE \E r \in Requests : SourceStep(r) /\ UNCHANGED billingVars
  BY <1>2, <1>a, SourceStepInv DEF billingVars
<1>3. CASE \E r \in Requests : (StepFails(r) \/ PaymentFails(r))
             /\ UNCHANGED <<eventRow, handler, subStatus, subAge, payment, checkout, applied, deliveries>>
  <2> PICK r \in Requests : StepFails(r) \/ PaymentFails(r)
    BY <1>3
  <2>0. BillingInv' /\ subAge' = subAge
    BY <1>3, <1>a
  <2>1. CASE StepFails(r)
    <3>1. UNCHANGED <<month, override, charge, counter, unlimited>>
      BY <2>1 DEF StepFails, quotaVars
    <3>2. QuotaTypes'
      BY <2>0, <3>1 DEF QuotaInv, QuotaTypes
    <3>3. \A m \in Metrics, p \in Months : Passed(m, p)' \subseteq Passed(m, p)
      BY <3>1 DEF Passed
    <3> QED BY <2>0, <3>1, <3>2, <3>3, FewerPassed DEF QuotaInv
  <2>2. CASE PaymentFails(r)
    <3>1. /\ charge' = [charge EXCEPT ![r] = [at |-> "failed"]]
          /\ UNCHANGED <<month, override, counter, unlimited>>
      BY <2>2 DEF PaymentFails, ChargeFails
    <3>2. [at |-> "failed"] \in Charges
      BY DEF Charges
    <3>3. QuotaInv'
      BY <2>0, <3>1, <3>2, ChargeMoves
    <3> QED BY <2>0, <3>3
  <2> QED BY <2>1, <2>2
<1>4. CASE (Override \/ NextMonth) /\ UNCHANGED <<billingVars, sourceVars>>
  <2>1. UNCHANGED <<charge, counter, unlimited, subAge>> /\ BillingInv'
    BY <1>4, <1>a DEF Override, NextMonth, billingVars
  <2>2. override' \subseteq Limits
    BY <1>4, QuotaAssumption DEF Override, NextMonth, QuotaInv, QuotaTypes
  <2>3. month' \in Months
    BY <1>4, QuotaAssumption DEF Override, NextMonth, QuotaInv, QuotaTypes, Months
  <2>4. QuotaTypes'
    BY <2>1, <2>2, <2>3 DEF QuotaInv, QuotaTypes
  <2>5. \A m \in Metrics, p \in Months : Passed(m, p)' \subseteq Passed(m, p)
    BY <2>1 DEF Passed
  <2> QED BY <2>1, <2>4, <2>5, FewerPassed DEF QuotaInv
<1>5. CASE UNCHANGED commerceVars
  <2>1. UNCHANGED <<eventRow, handler, subAge, applied, month, override, charge, counter, unlimited>>
    BY <1>5 DEF commerceVars, billingVars, quotaVars
  <2>2. QuotaTypes'
    BY <2>1 DEF QuotaInv, QuotaTypes
  <2>3. \A m \in Metrics, p \in Months : Passed(m, p)' \subseteq Passed(m, p)
    BY <2>1 DEF Passed
  <2> QED BY <1>a, <2>1, <2>2, <2>3, FewerPassed DEF QuotaInv
<1> QED BY <1>1, <1>2, <1>3, <1>4, <1>5 DEF CommerceNext

LEMMA CommerceInvariant == CommerceSpec => [](BillingInv /\ QuotaInv)
<1>1. CommerceInit => BillingInv /\ QuotaInv
  BY BillingInitInv, QuotaInitInv DEF CommerceInit
<1>2. BillingInv /\ QuotaInv /\ [CommerceNext]_commerceVars => (BillingInv /\ QuotaInv)'
  BY CommerceStepInv
<1> QED BY <1>1, <1>2, PTL DEF CommerceSpec

(* However often an event is delivered, to however many handlers at once and *)
(* with whatever failures, those that share its id are applied once at most. *)
THEOREM WebhooksApplyOnce == CommerceSpec => []AtMostOnce
<1>1. BillingInv /\ QuotaInv => AtMostOnce
  BY DEF BillingInv
<1> QED BY <1>1, CommerceInvariant, PTL

(* Requests that check a limit together pass it by less than their number,   *)
(* for every limit, plan, override and failure.                              *)
THEOREM LimitsHoldNearly == CommerceSpec => []OvershootBounded
<1>1. BillingInv /\ QuotaInv => OvershootBounded
  BY DEF QuotaInv
<1> QED BY <1>1, CommerceInvariant, PTL

-----------------------------------------------------------------------------
(* Requests.                                                                 *)

Asks == {"none", "upload", "repository", "scan", "other"}
Places == {"idle", "run", "token", "artifact", "fetch", "evaluated", "store", "complete", "snapshot",
           "fail", "report", "admission", "link", "done", "refused"} \cup Paying
RequestStates == [kind : Asks, at : Places] \cup [kind : Asks, at : Places, of : Requests]
Statuses == {"NONE", "INGESTING", "STORED", "REJECTED", "FAILED"}

RowTypes ==
  /\ run \in [Requests -> Statuses] /\ artifact \in [Requests -> Statuses]
  /\ repoScan \in [Requests -> {"NONE", "QUEUED", "FAILED"}]
  /\ linked \in [Requests -> BOOLEAN]
  /\ scan = [r \in Requests |-> scan[r]]
SourceTypes == req \in [Requests -> RequestStates] /\ RowTypes

(* Where only those are that have no artifact yet, and where only those whose *)
(* ingestion is over.                                                        *)
Early == {"idle", "run", "token", "payArtifact"}
Late == {"snapshot", "payScan", "admission", "link", "report", "done"}

(* A request's kind and its rows go with its place: the rows that Arrive and  *)
(* Paid rely on for a new request, and those the last steps leave.            *)
KindFits(r) ==
  /\ req[r].at = "idle" <=> req[r].kind = "none"
  /\ req[r].at = "payOther" => req[r].kind = "other"
  /\ req[r].kind = "other" => req[r].at \in {"payOther", "refused"}
  /\ req[r].kind = "upload" => req[r].at # "payScan"
  /\ req[r].kind # "repository" => repoScan[r] # "QUEUED"
  /\ req[r].kind \in {"none", "other"} => run[r] = "NONE" /\ artifact[r] = "NONE"

RowsFit(r) ==
  /\ req[r].at \in Early => artifact[r] = "NONE"
  /\ req[r].at \in Late => run[r] # "INGESTING" /\ artifact[r] # "INGESTING"
  /\ req[r].at = "link" => scan[r] # {}
  /\ req[r].at = "done" /\ repoScan[r] = "QUEUED" => linked[r] /\ scan[r] # {}

PayingOnly(r) == charge[r] # NoCharge => req[r].at \in Paying

RequestFits(r) == KindFits(r) /\ RowsFit(r) /\ PayingOnly(r)

SourceInv == SourceTypes /\ \A r \in Requests : RequestFits(r)

RowsStay(r) ==
  \A q \in Requests \ {r} :
    UNCHANGED <<run[q], artifact[q], repoScan[q], linked[q], scan[q], charge[q]>>
OthersStay(r) == RowsStay(r) /\ \A q \in Requests \ {r} : UNCHANGED req[q]

LEMMA SourceInitInv == CommerceInit => SourceInv
<1> SUFFICES ASSUME CommerceInit PROVE SourceInv
  OBVIOUS
<1> USE DEF CommerceInit, SourceInit, QuotaInit
<1>1. Idle \in RequestStates
  BY DEF Idle, RequestStates, Asks, Places
<1>2. SourceTypes
  BY <1>1 DEF SourceTypes, RowTypes, Statuses
<1>3. ASSUME NEW r \in Requests PROVE RequestFits(r)
  BY DEF Idle, RequestFits, KindFits, RowsFit, PayingOnly, Late
<1> QED BY <1>2, <1>3 DEF SourceInv

(* A step of one request keeps what holds of the others. *)
LEMMA OneMoves ==
  ASSUME SourceInv, NEW r \in Requests, SourceTypes', OthersStay(r), RequestFits(r)'
  PROVE  SourceInv'
<1>1. ASSUME NEW q \in Requests \ {r} PROVE RequestFits(q)'
  <2>1. RequestFits(q)
    BY DEF SourceInv
  <2>2. UNCHANGED <<req[q], run[q], artifact[q], repoScan[q], linked[q], scan[q], charge[q]>>
    BY DEF OthersStay, RowsStay
  <2> QED BY <2>1, <2>2 DEF RequestFits, KindFits, RowsFit, PayingOnly
<1> QED BY <1>1 DEF SourceInv

LEMMA GotoMoves ==
  ASSUME SourceTypes, NEW r \in Requests, NEW at \in Places, Goto(r, at)
  PROVE  /\ req' \in [Requests -> RequestStates]
         /\ req'[r].at = at /\ req'[r].kind = req[r].kind
         /\ \A q \in Requests \ {r} : req'[q] = req[q]
<1>1. req' = [req EXCEPT ![r].at = at] /\ req \in [Requests -> RequestStates]
  BY DEF Goto, SourceTypes
<1>2. req[r] \in RequestStates
  BY <1>1
<1>3. PICK m : m = [req[r] EXCEPT !.at = at]
  OBVIOUS
<1>4. m \in RequestStates /\ m.at = at /\ m.kind = req[r].kind
  BY <1>2, <1>3 DEF RequestStates
<1> QED BY <1>1, <1>3, <1>4

(* A step that takes one request to its next place and writes only its rows. *)
LEMMA RequestGoes ==
  ASSUME SourceInv, NEW r \in Requests, NEW at \in Places, Goto(r, at),
         RowTypes', RowsStay(r),
         at # "idle", req[r].kind # "none",
         at = "payOther" => req[r].kind = "other", at # "payScan",
         req[r].kind = "other" =>
           at \in {"payOther", "refused"} /\ run'[r] = "NONE" /\ artifact'[r] = "NONE",
         req[r].kind # "repository" => repoScan'[r] # "QUEUED",
         at \in Early => artifact'[r] = "NONE",
         at \in Late => run'[r] # "INGESTING" /\ artifact'[r] # "INGESTING",
         at = "link" => scan'[r] # {},
         at = "done" /\ repoScan'[r] = "QUEUED" => linked'[r] /\ scan'[r] # {},
         charge'[r] # NoCharge => at \in Paying
  PROVE  SourceInv'
<1>1. /\ req' \in [Requests -> RequestStates]
      /\ req'[r].at = at /\ req'[r].kind = req[r].kind
      /\ \A q \in Requests \ {r} : req'[q] = req[q]
  BY GotoMoves DEF SourceInv
<1>2. SourceTypes' /\ OthersStay(r)
  BY <1>1 DEF SourceTypes, OthersStay
<1>3. KindFits(r)'
  BY <1>1 DEF KindFits
<1>4. RowsFit(r)' /\ PayingOnly(r)'
  BY <1>1 DEF RowsFit, PayingOnly
<1> QED BY <1>2, <1>3, <1>4, OneMoves DEF RequestFits

(* Every step of a request, also one that fails. *)
LEMMA SourceStepFits ==
  ASSUME SourceInv, QuotaTypes, NEW r \in Requests, SourceStep(r) \/ StepFails(r) \/ PaymentFails(r)
  PROVE  SourceInv'
<1>0. /\ SourceTypes /\ RowTypes /\ req[r] \in RequestStates
      /\ KindFits(r) /\ RowsFit(r) /\ PayingOnly(r)
  BY DEF SourceInv, SourceTypes, RequestFits
<1>s. ASSUME UNCHANGED rowVars, \A q \in Requests \ {r} : UNCHANGED charge[q]
      PROVE  RowTypes' /\ RowsStay(r)
  BY <1>0, <1>s DEF RowTypes, RowsStay, rowVars
<1>u. ASSUME UNCHANGED quotaVars PROVE charge' = charge
  BY <1>u DEF quotaVars
<1>f. \A at \in Places \ Paying : req[r].at = at => charge[r] = NoCharge
  BY <1>0 DEF PayingOnly
<1>1. CASE \E kind \in MayAsk[r] : Arrive(r, kind)
  <2>1. PICK kind \in MayAsk[r] : Arrive(r, kind)
    BY <1>1
  <2>2. req[r].at = "idle" /\ req[r].kind = "none" /\ charge[r] = NoCharge
    BY <2>1, <1>0 DEF Arrive, At, KindFits, PayingOnly, Paying
  <2>3. UNCHANGED <<run, artifact, linked, scan, charge>>
    BY <2>1, <1>u DEF Arrive
  <2>4. /\ repoScan' = repoScan \/ repoScan' = [repoScan EXCEPT ![r] = "QUEUED"]
        /\ kind # "repository" => repoScan' = repoScan
    BY <2>1 DEF Arrive, setRepositoryScan
  <2>5. RowTypes' /\ RowsStay(r)
    BY <1>0, <2>3, <2>4 DEF RowTypes, RowsStay
  <2>6. PICK next \in RequestStates :
          /\ req' = [req EXCEPT ![r] = next]
          /\ next.kind = kind /\ next.at # "idle" /\ kind # "none"
          /\ next.at = "payOther" <=> kind = "other"
          /\ next.at \in {"payArtifact", "run", "payScan", "payOther"}
          /\ kind = "upload" => next.at # "payScan"
    <3>1. CASE kind = "upload"
      <4>1. [kind |-> kind, at |-> "payArtifact"] \in RequestStates
        BY <3>1 DEF RequestStates, Asks, Places, Paying
      <4> QED BY <2>1, <3>1, <4>1 DEF Arrive
    <3>2. CASE kind = "repository"
      <4>1. [kind |-> kind, at |-> "run"] \in RequestStates
        BY <3>2 DEF RequestStates, Asks, Places, Paying
      <4> QED BY <2>1, <3>2, <4>1 DEF Arrive
    <3>3. CASE kind = "scan"
      <4>1. PICK q \in Requests : req' = [req EXCEPT ![r] = [kind |-> kind, at |-> "payScan", of |-> q]]
        BY <2>1, <3>3 DEF Arrive
      <4>2. [kind |-> kind, at |-> "payScan", of |-> q] \in RequestStates
        BY <3>3 DEF RequestStates, Asks, Places, Paying
      <4> QED BY <3>3, <4>1, <4>2
    <3>4. CASE kind = "other"
      <4>1. [kind |-> kind, at |-> "payOther"] \in RequestStates
        BY <3>4 DEF RequestStates, Asks, Places, Paying
      <4> QED BY <2>1, <3>4, <4>1 DEF Arrive
    <3> QED BY <2>1, <3>1, <3>2, <3>3, <3>4 DEF Arrive
  <2>7. SourceTypes' /\ OthersStay(r) /\ req'[r] = next
    BY <1>0, <2>5, <2>6 DEF SourceTypes, OthersStay
  <2>8. RequestFits(r)'
    BY <1>0, <2>2, <2>3, <2>4, <2>6, <2>7 DEF RequestFits, KindFits, RowsFit, PayingOnly, Early, Late
  <2> QED BY <2>7, <2>8, OneMoves
<1>2. CASE CreateRun(r)
  <2>1. PICK at \in {"artifact", "token"} : Goto(r, at)
    BY <1>2 DEF CreateRun
  <2>2. run' = [run EXCEPT ![r] = "INGESTING"] /\ UNCHANGED <<artifact, repoScan, linked, scan, charge>>
    BY <1>2, <1>u DEF CreateRun, createRun
  <2>3. RowTypes' /\ RowsStay(r)
    BY <1>0, <2>2 DEF RowTypes, RowsStay, Statuses
  <2>4. req[r].at = "run"
    BY <1>2 DEF CreateRun, At
  <2> QED BY <1>0, <1>f, <2>1, <2>2, <2>3, <2>4, RequestGoes
          DEF KindFits, RowsFit, Early, Late, Places, Paying
<1>3. CASE Token(r)
  <2>1. PICK at \in {"payArtifact", "report"} :
          /\ Goto(r, at)
          /\ at = "payArtifact" => run' = run
          /\ at = "report" => run' = [run EXCEPT ![r] = "FAILED"]
    BY <1>3 DEF Token
  <2>2. UNCHANGED <<artifact, repoScan, linked, scan, charge>> /\ req[r].at = "token"
    BY <1>3, <1>u DEF Token, At
  <2>3. RowTypes' /\ RowsStay(r) /\ (at = "report" => run'[r] = "FAILED")
    BY <1>0, <2>1, <2>2 DEF RowTypes, RowsStay, Statuses
  <2> QED BY <1>0, <1>f, <2>1, <2>2, <2>3, RequestGoes
          DEF KindFits, RowsFit, Early, Late, Places, Paying
<1>4. CASE Pay(r) \/ PaymentFails(r)
  <2>1. UNCHANGED sourceVars
    BY <1>4 DEF Pay, PaymentFails
  <2>2. \A q \in Requests \ {r} : UNCHANGED charge[q]
    BY <1>4 DEF Pay, ChargeStep, BeginCharge, Decide, Compare, Charge, Meter, PaymentFails, ChargeFails,
                QuotaTypes
  <2>3. req[r].at \in Paying
    BY <1>4, <1>0 DEF Pay, ChargeStep, Decide, Compare, Charge, Meter, PaymentFails, ChargeFails, PayingOnly,
                      NoCharge
  <2>4. SourceTypes' /\ OthersStay(r)
    BY <1>0, <2>1, <2>2 DEF SourceTypes, RowTypes, OthersStay, RowsStay, sourceVars
  <2>5. RequestFits(r)'
    BY <1>0, <2>1, <2>3 DEF RequestFits, KindFits, RowsFit, PayingOnly, sourceVars
  <2> QED BY <2>4, <2>5, OneMoves
<1>5. CASE Paid(r)
  <2>1. /\ UNCHANGED rowVars /\ charge' = [charge EXCEPT ![r] = NoCharge]
        /\ req[r].at \in Paying
    BY <1>5, <1>0 DEF Paid, PayingOnly, NoCharge
  <2>2. UNCHANGED <<run, artifact, repoScan, linked, scan>> /\ charge'[r] = NoCharge
    BY <2>1 DEF rowVars, QuotaTypes
  <2>3. RowTypes' /\ RowsStay(r)
    BY <1>s, <2>1 DEF QuotaTypes
  <2>4. CASE req[r].kind = "other"
    <3>1. req' = [req EXCEPT ![r] = Idle]
      BY <1>5, <2>4 DEF Paid
    <3>2. Idle \in RequestStates /\ Idle.at = "idle" /\ Idle.kind = "none"
      BY DEF Idle, RequestStates, Asks, Places
    <3>3. SourceTypes' /\ OthersStay(r) /\ req'[r] = Idle
      BY <1>0, <2>3, <3>1, <3>2 DEF SourceTypes, OthersStay
    <3>4. RequestFits(r)'
      BY <1>0, <2>2, <2>4, <3>2, <3>3 DEF RequestFits, KindFits, RowsFit, PayingOnly, Late
    <3> QED BY <3>3, <3>4, OneMoves
  <2>5. CASE req[r].kind # "other"
    <3>1. PICK at \in {"admission", "run", "artifact"} :
            /\ Goto(r, at)
            /\ at = "admission" => req[r].at = "payScan"
            /\ at = "run" => req[r].at # "payScan"
      <4>1. CASE req[r].at = "payScan"
        <5>1. req[r].kind # "upload"
          BY <1>0, <4>1 DEF KindFits
        <5>2. Goto(r, "admission")
          BY <1>5, <2>5, <4>1, <5>1 DEF Paid, At
        <5> QED BY <4>1, <5>2
      <4>2. CASE req[r].at # "payScan" /\ req[r].kind = "upload"
        <5>1. Goto(r, "run")
          BY <1>5, <2>5, <4>2 DEF Paid, At
        <5> QED BY <4>2, <5>1
      <4>3. CASE req[r].at # "payScan" /\ req[r].kind # "upload"
        <5>1. Goto(r, "artifact")
          BY <1>5, <2>5, <4>3 DEF Paid, At
        <5> QED BY <4>3, <5>1
      <4> QED BY <4>1, <4>2, <4>3
    <3> QED BY <1>0, <2>1, <2>2, <2>3, <2>5, <3>1, RequestGoes
            DEF KindFits, RowsFit, Early, Late, Places, Paying
  <2> QED BY <2>4, <2>5
<1>6. CASE NotPaid(r)
  <2>1. /\ UNCHANGED rowVars /\ charge' = [charge EXCEPT ![r] = NoCharge]
        /\ req[r].at \in Paying
    BY <1>6, <1>0 DEF NotPaid, PayingOnly, NoCharge
  <2>2. UNCHANGED <<run, artifact, repoScan, linked, scan>> /\ charge'[r] = NoCharge
    BY <2>1 DEF rowVars, QuotaTypes
  <2>3. RowTypes' /\ RowsStay(r)
    BY <1>s, <2>1 DEF QuotaTypes
  <2>4. PICK at \in {"report", "refused"} :
          Goto(r, at) /\ (at = "report" => req[r].at = "payScan" /\ req[r].kind = "repository")
    BY <1>6 DEF NotPaid, At
  <2> QED BY <1>0, <2>1, <2>2, <2>3, <2>4, RequestGoes
          DEF KindFits, RowsFit, Early, Late, Places, Paying
<1>7. CASE CreateArtifact(r)
  <2>1. PICK at \in {"evaluated", "fetch"} : Goto(r, at)
    BY <1>7 DEF CreateArtifact, createArtifact
  <2>2. /\ artifact' = [artifact EXCEPT ![r] = "INGESTING"]
        /\ UNCHANGED <<run, repoScan, linked, scan, charge>> /\ req[r].at = "artifact"
    BY <1>7, <1>u DEF CreateArtifact, createArtifact, At, rowVars
  <2>3. RowTypes' /\ RowsStay(r)
    BY <1>0, <2>2 DEF RowTypes, RowsStay, Statuses
  <2> QED BY <1>0, <1>f, <2>1, <2>2, <2>3, RequestGoes
          DEF KindFits, RowsFit, Early, Late, Places, Paying
<1>8. CASE Fetch(r)
  <2>1. PICK at \in {"evaluated", "fail"} : Goto(r, at)
    BY <1>8 DEF Fetch
  <2>2. UNCHANGED <<run, artifact, repoScan, linked, scan, charge>> /\ req[r].at = "fetch"
    BY <1>8, <1>u DEF Fetch, At, rowVars
  <2>3. RowTypes' /\ RowsStay(r)
    BY <1>0, <2>2 DEF RowTypes, RowsStay, Statuses
  <2> QED BY <1>0, <1>f, <2>1, <2>2, <2>3, RequestGoes
          DEF KindFits, RowsFit, Early, Late, Places, Paying
<1>9. CASE Reject(r) \/ Complete(r)
  <2>1. PICK at \in {"done", "snapshot"} : Goto(r, at) /\ (at = "done" => req[r].kind = "upload")
    BY <1>9 DEF Reject, Complete
  <2>2. PICK to \in {"REJECTED", "STORED"} :
          run' = [run EXCEPT ![r] = to] /\ artifact' = [artifact EXCEPT ![r] = to]
    BY <1>9 DEF Reject, Complete
  <2>3. UNCHANGED <<repoScan, linked, scan, charge>> /\ req[r].at \in {"evaluated", "complete"}
    BY <1>9, <1>u DEF Reject, Complete, At
  <2>4. RowTypes' /\ RowsStay(r) /\ run'[r] = to /\ artifact'[r] = to
    BY <1>0, <2>2, <2>3 DEF RowTypes, RowsStay, Statuses
  <2> QED BY <1>0, <1>f, <2>1, <2>2, <2>3, <2>4, RequestGoes
          DEF KindFits, RowsFit, Early, Late, Places, Paying
<1>10. CASE Store(r) \/ StoreRest(r)
  <2>1. PICK at \in {"store", "complete"} : Goto(r, at)
    BY <1>10 DEF Store, StoreRest
  <2>2. /\ UNCHANGED <<run, artifact, repoScan, linked, scan, charge>>
        /\ req[r].at \in {"evaluated", "store"}
    BY <1>10, <1>u DEF Store, StoreRest, At, rowVars
  <2>3. RowTypes' /\ RowsStay(r)
    BY <1>0, <2>2 DEF RowTypes, RowsStay, Statuses
  <2> QED BY <1>0, <1>f, <2>1, <2>2, <2>3, RequestGoes
          DEF KindFits, RowsFit, Early, Late, Places, Paying
<1>11. CASE Snapshot(r)
  <2>1. req[r].at = "snapshot" /\ UNCHANGED <<run, artifact, repoScan, linked, scan, charge>>
    BY <1>11, <1>u DEF Snapshot, At
  <2>2. RowTypes' /\ RowsStay(r)
    BY <1>0, <2>1 DEF RowTypes, RowsStay
  <2>3. CASE artifact[r] = "STORED"
    <3> DEFINE next == [kind |-> "repository", at |-> "payScan", of |-> r]
    <3>1. req' = [req EXCEPT ![r] = next]
      BY <1>11, <2>3 DEF Snapshot
    <3>2. next \in RequestStates
      BY DEF RequestStates, Asks, Places, Paying
    <3>3. SourceTypes' /\ OthersStay(r) /\ req'[r] = next
      BY <1>0, <2>2, <3>1, <3>2 DEF SourceTypes, OthersStay
    <3>4. RequestFits(r)'
      BY <1>0, <2>1, <3>3 DEF RequestFits, KindFits, RowsFit, PayingOnly, Early, Late, Paying
    <3> QED BY <3>3, <3>4, OneMoves
  <2>4. CASE artifact[r] # "STORED"
    <3>1. Goto(r, "report")
      BY <1>11, <2>4 DEF Snapshot, Goto
    <3> QED BY <1>0, <1>f, <2>1, <2>2, <3>1, RequestGoes
            DEF KindFits, RowsFit, Early, Late, Places, Paying
  <2> QED BY <2>3, <2>4
<1>12. CASE FailArtifact(r)
  <2>1. PICK at \in {"report"} : Goto(r, at)
    BY <1>12 DEF FailArtifact
  <2>2. /\ run' = [run EXCEPT ![r] = "FAILED"] /\ artifact' = [artifact EXCEPT ![r] = "FAILED"]
        /\ UNCHANGED <<repoScan, linked, scan, charge>> /\ req[r].at = "fail"
    BY <1>12, <1>u DEF FailArtifact, At, rowVars
  <2>3. RowTypes' /\ RowsStay(r) /\ run'[r] = "FAILED" /\ artifact'[r] = "FAILED"
    BY <1>0, <2>2 DEF RowTypes, RowsStay, Statuses
  <2> QED BY <1>0, <1>f, <2>1, <2>2, <2>3, RequestGoes
          DEF KindFits, RowsFit, Early, Late, Places, Paying
<1>13. CASE Report(r)
  <2>1. PICK at \in {"done"} : Goto(r, at)
    BY <1>13 DEF Report, setRepositoryScan
  <2>2. /\ repoScan' = [repoScan EXCEPT ![r] = "FAILED"]
        /\ UNCHANGED <<run, artifact, linked, scan, charge>> /\ req[r].at = "report"
    BY <1>13, <1>u DEF Report, setRepositoryScan, At, rowVars
  <2>3. RowTypes' /\ RowsStay(r) /\ repoScan'[r] = "FAILED"
    BY <1>0, <2>2 DEF RowTypes, RowsStay, Statuses
  <2> QED BY <1>0, <1>f, <2>1, <2>2, <2>3, RequestGoes
          DEF KindFits, RowsFit, Early, Late, Places, Paying
<1>14. CASE CreateScan(r)
  <2>1. PICK at \in {"link", "done"} : Goto(r, at) /\ (at = "done" => req[r].kind # "repository")
    BY <1>14 DEF CreateScan
  <2>2. /\ scan' = [scan EXCEPT ![r] = {req[r].of}]
        /\ UNCHANGED <<run, artifact, repoScan, linked, charge>> /\ req[r].at = "admission"
    BY <1>14, <1>u DEF CreateScan, At
  <2>3. RowTypes' /\ RowsStay(r) /\ scan'[r] # {}
    BY <1>0, <2>2 DEF RowTypes, RowsStay
  <2> QED BY <1>0, <1>f, <2>1, <2>2, <2>3, RequestGoes
          DEF KindFits, RowsFit, Early, Late, Places, Paying
<1>15. CASE Saturated(r)
  <2>1. PICK at \in {"report", "refused"} : Goto(r, at)
    BY <1>15 DEF Saturated
  <2>2. UNCHANGED <<run, artifact, repoScan, linked, scan, charge>> /\ req[r].at = "admission"
    BY <1>15, <1>u DEF Saturated, At, rowVars
  <2>3. RowTypes' /\ RowsStay(r)
    BY <1>0, <2>2 DEF RowTypes, RowsStay, Statuses
  <2> QED BY <1>0, <1>f, <2>1, <2>2, <2>3, RequestGoes
          DEF KindFits, RowsFit, Early, Late, Places, Paying
<1>16. CASE Link(r)
  <2>1. PICK at \in {"done"} : Goto(r, at)
    BY <1>16 DEF Link
  <2>2. /\ linked' = [linked EXCEPT ![r] = TRUE]
        /\ UNCHANGED <<run, artifact, repoScan, scan, charge>> /\ req[r].at = "link"
    BY <1>16, <1>u DEF Link, At, rowVars
  <2>3. RowTypes' /\ RowsStay(r) /\ linked'[r]
    BY <1>0, <2>2 DEF RowTypes, RowsStay, Statuses
  <2> QED BY <1>0, <1>f, <2>1, <2>2, <2>3, RequestGoes
          DEF KindFits, RowsFit, Early, Late, Places, Paying
<1>17. CASE StepFails(r)
  <2>1. PICK at \in {"refused", "fail", "report"} :
          /\ Goto(r, at)
          /\ at \in {"fail", "report"} => req[r].kind = "repository"
          /\ at = "report" => req[r].at \in {"admission", "link"}
    BY <1>17 DEF StepFails, Caught
  <2>2. /\ UNCHANGED <<run, artifact, repoScan, linked, scan, charge>>
        /\ req[r].at \notin {"idle", "done", "refused"} \cup Paying
    BY <1>17, <1>u DEF StepFails, rowVars
  <2>3. RowTypes' /\ RowsStay(r)
    BY <1>0, <2>2 DEF RowTypes, RowsStay
  <2>4. charge[r] = NoCharge
    BY <1>0, <2>2 DEF PayingOnly
  <2> QED BY <1>0, <2>1, <2>2, <2>3, <2>4, RequestGoes
          DEF KindFits, RowsFit, Early, Late, Places, Paying
<1> QED BY <1>1, <1>2, <1>3, <1>4, <1>5, <1>6, <1>7, <1>8, <1>9, <1>10, <1>11, <1>12, <1>13, <1>14,
           <1>15, <1>16, <1>17 DEF SourceStep

LEMMA SourceInvariant == CommerceSpec => []SourceInv
<1>1. BillingInv /\ QuotaInv /\ SourceInv /\ [CommerceNext]_commerceVars => SourceInv'
  <2> SUFFICES ASSUME QuotaInv, SourceInv, [CommerceNext]_commerceVars PROVE SourceInv'
    OBVIOUS
  <2>1. CASE \E r \in Requests : SourceStep(r) \/ StepFails(r) \/ PaymentFails(r)
    BY <2>1, SourceStepFits DEF QuotaInv
  <2>2. CASE ~\E r \in Requests : SourceStep(r) \/ StepFails(r) \/ PaymentFails(r)
    <3>1. UNCHANGED <<sourceVars, charge>>
      BY <2>2 DEF CommerceNext, commerceVars, quotaVars, Override, NextMonth
    <3>2. SourceTypes'
      BY <3>1 DEF SourceInv, SourceTypes, RowTypes, sourceVars
    <3>3. \A r \in Requests : RequestFits(r)'
      BY <3>1 DEF SourceInv, RequestFits, KindFits, RowsFit, PayingOnly, sourceVars
    <3> QED BY <3>2, <3>3 DEF SourceInv
  <2> QED BY <2>1, <2>2
<1> QED BY <1>1, SourceInitInv, CommerceInvariant, PTL DEF CommerceSpec

(* However requests, failures and payments interleave, one that ran to its   *)
(* end leaves no row under way, and its repository scan names its scan.      *)
THEOREM RequestsSettle == CommerceSpec => []DoneIsSettled
<1>1. SourceInv => DoneIsSettled
  <2> SUFFICES ASSUME SourceInv, NEW r \in Requests, At(r, "done")
               PROVE  /\ run[r] # "INGESTING" /\ artifact[r] # "INGESTING"
                      /\ repoScan[r] = "QUEUED" => linked[r] /\ scan[r] # {}
    BY DEF DoneIsSettled
  <2> QED BY DEF SourceInv, RequestFits, RowsFit, Late, At
<1> QED BY <1>1, SourceInvariant, PTL
=============================================================================
