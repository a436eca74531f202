----------------------------- MODULE OutboxRelay -----------------------------
(***************************************************************************)
(* The outbox table and the relays that empty it.  Every API process runs  *)
(* processPending from a timer and, on an instance of its own, after each  *)
(* scan it creates; an instance runs one at a time (running), but nothing  *)
(* keeps two instances off the same rows except the conditional update     *)
(* with which each claims a message.  A relay works from the rows it read  *)
(* at the start, so what it knows of a message may be long out of date.    *)
(***************************************************************************)
EXTENDS Naturals, FiniteSets

CONSTANTS
  Messages,     \* outbox rows, numbered in the order of createdAt
  Relays,       \* instances of ScanOutboxRelay
  Timers,       \* those that main.ts starts; the others run after a request
  BatchSize,    \* OUTBOX_RELAY_BATCH_SIZE
  MaxAttempts,  \* OUTBOX_RELAY_MAX_ATTEMPTS
  MaxFaults     \* bound: crashes and errors of Postgres

ASSUME MessagesAssumption == Messages \subseteq Nat /\ IsFiniteSet(Messages)
ASSUME RelaysAssumption == Timers \subseteq Relays
ASSUME RelayBoundsAssumption ==
  BatchSize \in Nat \ {0} /\ MaxAttempts \in Nat \ {0} /\ MaxFaults \in Nat

VARIABLES
  status,    \* OutboxMessage.status, "NONE" before the row exists
  attempts,  \* OutboxMessage.attempts
  deferred,  \* messages whose nextAttemptAt is still to come
  queued,    \* messages whose orchestrator job is in the queue
  at,        \* where each relay is
  batch,     \* the messages each relay has read and not dealt with
  read,      \* the attempts it read of each of them
  failures,  \* failed deliveries of each message, counted to MaxAttempts
  faults     \* faults so far

rowVars == <<status, attempts, deferred>>
relayVars == <<at, batch, read>>
vars == <<rowVars, queued, relayVars, failures, faults>>

Init ==
  /\ status = [m \in Messages |-> "NONE"]
  /\ attempts = [m \in Messages |-> 0]
  /\ deferred = {} /\ queued = {}
  /\ at = [r \in Relays |-> "idle"] /\ batch = [r \in Relays |-> {}]
  /\ read = [r \in Relays |-> [m \in Messages |-> 0]]
  /\ failures = [m \in Messages |-> 0] /\ faults = 0

(* The message a relay is at: the first of its batch.                      *)
Current(r, m) == m \in batch[r] /\ \A n \in batch[r] : m <= n
Holds(r, m) == at[r] \in {"claimed", "enqueued", "caught"} /\ Current(r, m)

(* The relay is done with m and turns to the next message of its batch.    *)
Leave(r, m) ==
  /\ batch' = [batch EXCEPT ![r] = @ \ {m}]
  /\ read' = [read EXCEPT ![r][m] = 0]
  /\ at' = [at EXCEPT ![r] = IF batch[r] = {m} THEN "idle" ELSE "next"]

Goes(r, to) == at' = [at EXCEPT ![r] = to] /\ UNCHANGED <<batch, read>>

Failed(m) == failures' = [failures EXCEPT ![m] = IF @ < MaxAttempts THEN @ + 1 ELSE @]

(* ScansRepository.create: the row is written with its scan.               *)
Create(m) ==
  /\ status[m] = "NONE" /\ \A n \in Messages : n < m => status[n] # "NONE"
  /\ status' = [status EXCEPT ![m] = "PENDING"]
  /\ UNCHANGED <<attempts, deferred, queued, relayVars, failures, faults>>

(* findMany: the oldest messages that are pending and due.                 *)
Due == {m \in Messages : status[m] = "PENDING" /\ m \notin deferred}
Oldest(S) == {m \in S : Cardinality({n \in S : n < m}) < BatchSize}

Poll(r) ==
  /\ at[r] = "idle" /\ Due # {}
  /\ at' = [at EXCEPT ![r] = "next"]
  /\ batch' = [batch EXCEPT ![r] = Oldest(Due)]
  /\ read' = [read EXCEPT ![r] = [m \in Messages |-> IF m \in Oldest(Due) THEN attempts[m] ELSE 0]]
  /\ UNCHANGED <<rowVars, queued, failures, faults>>

\* Mutant: the claim does not look at the row's status again.
ClaimBlind(r, m) ==
  /\ at[r] = "next" /\ Current(r, m)
  /\ status' = [status EXCEPT ![m] = "PROCESSING"]
  /\ Goes(r, "claimed")
  /\ UNCHANGED <<attempts, deferred, queued, failures, faults>>

(* updateMany where the row is still PENDING; the relay passes over a      *)
(* message that another one claimed or dealt with.                         *)
Claim(r, m) ==
  /\ at[r] = "next" /\ Current(r, m)
  /\ \/ /\ status[m] = "PENDING"
        /\ status' = [status EXCEPT ![m] = "PROCESSING"] /\ Goes(r, "claimed")
     \/ status[m] # "PENDING" /\ Leave(r, m) /\ UNCHANGED status
  /\ UNCHANGED <<attempts, deferred, queued, failures, faults>>

(* queueProducer.enqueue: adding a job that exists changes nothing.  When  *)
(* Redis fails the job may have been added all the same.                   *)
Enqueue(r, m) ==
  /\ at[r] = "claimed" /\ Current(r, m)
  /\ queued' = queued \cup {m} /\ Goes(r, "enqueued")
  /\ UNCHANGED <<rowVars, failures, faults>>

EnqueueFails(r, m) ==
  /\ at[r] = "claimed" /\ Current(r, m)
  /\ queued' \in {queued, queued \cup {m}} /\ Goes(r, "caught") /\ Failed(m)
  /\ UNCHANGED <<rowVars, faults>>

MarkProcessed(r, m) ==
  /\ at[r] = "enqueued" /\ Current(r, m)
  /\ status' = [status EXCEPT ![m] = "PROCESSED"] /\ Leave(r, m)
  /\ UNCHANGED <<attempts, deferred, queued, failures, faults>>

(* The update is refused, or it is done and the answer lost: both end in   *)
(* the catch block of the enqueue.                                         *)
MarkFails(r, m) ==
  /\ at[r] = "enqueued" /\ Current(r, m) /\ faults < MaxFaults
  /\ status' \in {status, [status EXCEPT ![m] = "PROCESSED"]}
  /\ Goes(r, "caught") /\ Failed(m) /\ faults' = faults + 1
  /\ UNCHANGED <<attempts, deferred, queued>>

\* Mutant: the attempts that were read are written back as they are.
GiveBackUncounted(r, m) ==
  /\ at[r] = "caught" /\ Current(r, m)
  /\ attempts' = [attempts EXCEPT ![m] = read[r][m]]
  /\ status' = [status EXCEPT ![m] = IF read[r][m] >= MaxAttempts THEN "FAILED" ELSE "PENDING"]
  /\ deferred' = deferred \cup {m}
  /\ Leave(r, m)
  /\ UNCHANGED <<queued, failures, faults>>

(* The catch block: one attempt more than the relay read, whatever the row *)
(* says by now.                                                            *)
GiveBack(r, m) ==
  LET exhausted == read[r][m] + 1 >= MaxAttempts IN
  /\ at[r] = "caught" /\ Current(r, m)
  /\ attempts' = [attempts EXCEPT ![m] = read[r][m] + 1]
  /\ status' = [status EXCEPT ![m] = IF exhausted THEN "FAILED" ELSE "PENDING"]
  /\ deferred' = IF exhausted THEN deferred \ {m} ELSE deferred \cup {m}
  /\ Leave(r, m)
  /\ UNCHANGED <<queued, failures, faults>>

(* The retry delay passes.                                                 *)
DelayElapses(m) ==
  /\ m \in deferred /\ deferred' = deferred \ {m}
  /\ UNCHANGED <<status, attempts, queued, relayVars, failures, faults>>

(* The process dies, or Postgres refuses the claim or the catch block's    *)
(* update: processPending ends, and the rows stay as they are.             *)
Abandon(r) ==
  /\ at[r] # "idle" /\ faults < MaxFaults
  /\ at' = [at EXCEPT ![r] = "idle"] /\ batch' = [batch EXCEPT ![r] = {}]
  /\ read' = [read EXCEPT ![r] = [m \in Messages |-> 0]]
  /\ faults' = faults + 1
  /\ UNCHANGED <<rowVars, queued, failures>>

Handle(r, m) ==
  \/ Claim(r, m) \/ Enqueue(r, m) \/ EnqueueFails(r, m) \/ MarkProcessed(r, m)
  \/ MarkFails(r, m) \/ GiveBack(r, m)

Next ==
  \/ \E m \in Messages : Create(m) \/ DelayElapses(m)
  \/ \E r \in Relays : Poll(r) \/ Abandon(r) \/ \E m \in Messages : Handle(r, m)

Spec == Init /\ [][Next]_vars

(* Timers fire, delays pass, and every run of processPending goes on to    *)
(* its end; requests owe nothing, and whether an enqueue succeeds is up to *)
(* Redis.                                                                  *)
Fairness ==
  /\ \A m \in Messages : WF_vars(DelayElapses(m))
  /\ \A r \in Timers : WF_vars(Poll(r))
  /\ \A r \in Relays : WF_vars(\E m \in Messages : Handle(r, m))

FairSpec == Spec /\ Fairness

-------------------------------------------------------------------------------
(* PROPERTIES.                                                             *)

(* The type invariant.                                                     *)
TypeOK ==
  /\ status \in [Messages -> {"NONE", "PENDING", "PROCESSING", "PROCESSED", "FAILED"}]
  /\ attempts \in [Messages -> 0..MaxAttempts]
  /\ deferred \in SUBSET Messages /\ queued \in SUBSET Messages
  /\ at \in [Relays -> {"idle", "next", "claimed", "enqueued", "caught"}]
  /\ batch \in [Relays -> SUBSET Messages]
  /\ read \in [Relays -> [Messages -> 0..MaxAttempts]]
  /\ failures \in [Messages -> 0..MaxAttempts] /\ faults \in 0..MaxFaults

(* At most one relay holds a message, and while it does the row is claimed *)
(* (or was marked by that relay, which did not hear of it).                *)
ExclusiveClaim ==
  \A m \in Messages, r, s \in Relays :
    Holds(r, m) /\ Holds(s, m) =>
      r = s /\ status[m] \in {"PROCESSING", "PROCESSED"}

(* The relay gives a message up only after MaxAttempts failed deliveries:  *)
(* working from stale counts may cost more attempts, never fewer.          *)
GivesUpLate == \A m \in Messages : status[m] = "FAILED" => failures[m] = MaxAttempts

(* The relays implement OutboxDelivery: a settled message is final, a job  *)
(* is added only for an open message, and a sent message has its job.  A   *)
(* row that is marked while its relay is in the catch block is still open. *)
MessageState(m) ==
  CASE status[m] = "NONE" -> "none"
    [] status[m] = "FAILED" -> "given up"
    [] status[m] = "PROCESSED" /\ \A r \in Relays : ~Holds(r, m) -> "sent"
    [] OTHER -> "open"

Delivery == INSTANCE OutboxDelivery
  WITH state <- [m \in Messages |-> MessageState(m)], delivered <- queued
RefinesDelivery == Delivery!Spec

(* Without faults every message is settled in the end, although relays     *)
(* that work from stale counts may set the attempts of a message back.     *)
Settles ==
  [](faults = 0) =>
    \A m \in Messages : status[m] # "NONE" ~> status[m] \in {"PROCESSED", "FAILED"}
=============================================================================
