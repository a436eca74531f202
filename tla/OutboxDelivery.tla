---------------------------- MODULE OutboxDelivery ----------------------------
(***************************************************************************)
(* What the outbox promises the rest of the system: a message that was     *)
(* created with its scan is delivered, that is, its job is added, only     *)
(* while the message is open; it is called sent only if it was delivered,  *)
(* and a message that was settled stays so.                                *)
(***************************************************************************)
CONSTANT Messages

VARIABLES state, delivered

vars == <<state, delivered>>

Init == state = [m \in Messages |-> "none"] /\ delivered = {}

Create(m) ==
  /\ state[m] = "none" /\ state' = [state EXCEPT ![m] = "open"]
  /\ UNCHANGED delivered

Deliver(m) ==
  /\ state[m] = "open" /\ delivered' = delivered \cup {m}
  /\ UNCHANGED state

Confirm(m) ==
  /\ state[m] = "open" /\ m \in delivered
  /\ state' = [state EXCEPT ![m] = "sent"] /\ UNCHANGED delivered

GiveUp(m) ==
  /\ state[m] = "open"
  /\ state' = [state EXCEPT ![m] = "given up"] /\ UNCHANGED delivered

Next == \E m \in Messages : Create(m) \/ Deliver(m) \/ Confirm(m) \/ GiveUp(m)

Spec == Init /\ [][Next]_vars
=============================================================================
