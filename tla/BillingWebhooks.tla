--------------------------- MODULE BillingWebhooks --------------------------
(* Webhooks of the payment provider (billing.service.ts): the provider      *)
(* sends an event until it is answered, in any order and more than once;    *)
(* the handler records the event's id, applies it and marks it processed.   *)
EXTENDS Naturals, FiniteSets, Sequences

CONSTANTS
  Events,         \* what happened at the provider
  KindOf,         \* [Events -> Kinds]
  KeyOf,          \* the providerEventId of an event: events may share one
  Subscriptions, SubOf,  \* and the subscription (or payment) it is about
  Handlers,       \* requests that may be under way at once
  MaxDeliveries,  \* requests the provider makes in all
  MaxFailures     \* handlers that die between two steps

Kinds == {"activated", "ended", "paid", "unpaid", "other"}

ASSUME BillingAssumption ==
  /\ KindOf \in [Events -> Kinds]
  /\ SubOf \in [Events -> Subscriptions]
  /\ DOMAIN KeyOf = Events
  /\ MaxDeliveries \in Nat /\ MaxFailures \in Nat

Keys == {KeyOf[e] : e \in Events}

VARIABLES
  eventRow,   \* [Keys -> status of the paymentProviderEvent row]
  handler,    \* [Handlers -> what each request is doing]
  subStatus,  \* [Subscriptions -> status of the subscription row]
  subAge,     \* subscriptions in the order in which their rows were created
  payment,    \* [Subscriptions -> status of its invoice and payment]
  checkout,   \* [Subscriptions -> status of the checkout session]
  applied,    \* [Events -> how often it was applied] (history)
  deliveries, failures

billingVars == <<eventRow, handler, subStatus, subAge, payment, checkout, applied,
                 deliveries, failures>>

Waiting == [at |-> "waiting"]

BillingInit ==
  /\ eventRow = [k \in Keys |-> "NONE"]
  /\ handler = [h \in Handlers |-> Waiting]
  /\ subStatus = [s \in Subscriptions |-> "NONE"] /\ subAge = <<>>
  /\ payment = [s \in Subscriptions |-> "NONE"]
  /\ checkout = [s \in Subscriptions |-> "CREATED"]
  /\ applied = [e \in Events |-> 0]
  /\ deliveries = 0 /\ failures = 0

Move(h, at) == handler' = [handler EXCEPT ![h].at = at]

(* handleWebhook: the signature is verified, the row looked for. An event   *)
(* that has a row is answered DUPLICATE, processed or not.                  *)
Receive(h, e) ==
  /\ handler[h] = Waiting /\ deliveries < MaxDeliveries
  /\ deliveries' = deliveries + 1
  /\ IF eventRow[KeyOf[e]] = "NONE"
     THEN handler' = [handler EXCEPT ![h] = [at |-> "unknown", event |-> e]]
     ELSE UNCHANGED handler
  /\ UNCHANGED <<eventRow, subStatus, subAge, payment, checkout, applied, failures>>

RecordAgain(h) ==  \* mutant: no unique key on the provider's event id
  /\ handler[h].at = "unknown"
  /\ eventRow' = [eventRow EXCEPT ![KeyOf[handler[h].event]] = "RECEIVED"]
  /\ Move(h, "recorded")
  /\ UNCHANGED <<subStatus, subAge, payment, checkout, applied, deliveries, failures>>

(* The row is created; its unique key refuses the second of two requests    *)
(* that both found none, which fails and leaves the provider to retry.      *)
Record(h) ==
  /\ handler[h].at = "unknown"
  /\ LET k == KeyOf[handler[h].event]
     IN IF eventRow[k] = "NONE"
        THEN eventRow' = [eventRow EXCEPT ![k] = "RECEIVED"] /\ Move(h, "recorded")
        ELSE handler' = [handler EXCEPT ![h] = Waiting] /\ UNCHANGED eventRow
  /\ UNCHANGED <<subStatus, subAge, payment, checkout, applied, deliveries, failures>>

(* The subscription's row: created or set ACTIVE, or ended if it is there.  *)
ApplyToSubscription(h, e, s) ==
  subStatus' = [subStatus EXCEPT ![s] =
    CASE KindOf[e] = "activated" -> "ACTIVE"
      [] KindOf[e] = "ended" /\ @ # "NONE" -> "CANCELED"
      [] OTHER -> @]

(* The invoice and the payment an event is about.                           *)
UpsertPayment(kind, old) ==
  CASE kind = "paid" -> "CAPTURED" [] kind = "unpaid" -> "FAILED" [] OTHER -> old

(* processStripeEvent and processRazorpayEvent, up to the checkout session. *)
Apply(h) ==
  /\ handler[h].at = "recorded"
  /\ LET e == handler[h].event  s == SubOf[e]  kind == KindOf[e]
     IN /\ ApplyToSubscription(h, e, s)
        /\ subAge' = IF kind = "activated" /\ subStatus[s] = "NONE" THEN Append(subAge, s) ELSE subAge
        /\ payment' = [payment EXCEPT ![s] = UpsertPayment(kind, @)]
        /\ applied' = [applied EXCEPT ![e] = @ + 1]
        /\ Move(h, IF kind = "activated" THEN "subscribed" ELSE "applied")
  /\ UNCHANGED <<eventRow, checkout, deliveries, failures>>

CompleteCheckout(h) ==
  /\ handler[h].at = "subscribed"
  /\ checkout' = [checkout EXCEPT ![SubOf[handler[h].event]] = "COMPLETED"]
  /\ Move(h, "applied")
  /\ UNCHANGED <<eventRow, subStatus, subAge, payment, applied, deliveries, failures>>

(* processVerifiedEvent ends: PROCESSED, or NOT_ASSESSED for other kinds. *)
MarkProcessed(h) ==
  /\ handler[h].at = "applied"
  /\ LET e == handler[h].event
     IN eventRow' = [eventRow EXCEPT ![KeyOf[e]] =
                      IF KindOf[e] = "other" THEN "NOT_ASSESSED" ELSE "PROCESSED"]
  /\ handler' = [handler EXCEPT ![h] = Waiting]
  /\ UNCHANGED <<subStatus, subAge, payment, checkout, applied, deliveries, failures>>

(* A query fails or the process ends: what was written stays. *)
HandlerFails(h) ==
  /\ handler[h] # Waiting /\ failures < MaxFailures
  /\ handler' = [handler EXCEPT ![h] = Waiting]
  /\ failures' = failures + 1
  /\ UNCHANGED <<eventRow, subStatus, subAge, payment, checkout, applied, deliveries>>

BillingNext ==
  \E h \in Handlers :
    \/ \E e \in Events : Receive(h, e)
    \/ Record(h) \/ Apply(h) \/ CompleteCheckout(h) \/ MarkProcessed(h) \/ HandlerFails(h)

(* activePlan: the youngest subscription that is active decides.            *)
Active == {i \in DOMAIN subAge : subStatus[subAge[i]] = "ACTIVE"}

-----------------------------------------------------------------------------
(* Properties.                                                              *)

(* However often and however concurrently an event is delivered, the events *)
(* with one id are applied once at most.                                    *)
AtMostOnce ==
  \A k \in Keys : \A e, f \in Events :
    KeyOf[e] = k /\ KeyOf[f] = k =>
      applied[e] <= 1 /\ (e # f => applied[e] + applied[f] <= 1)

=============================================================================
