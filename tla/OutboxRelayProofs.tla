-------------------------- MODULE OutboxRelayProofs --------------------------
(***************************************************************************)
(* What holds of the relays for any messages, any number of relays, any    *)
(* limits and any number of faults.  The inductive invariant ties what a   *)
(* relay holds to the row: a held row is claimed, and the count the relay  *)
(* read is never ahead of the failures there really were.                  *)
(***************************************************************************)
EXTENDS OutboxRelay, TLAPS

(* What a row says of its message.                                         *)
Rows ==
  \A m \in Messages :
    /\ attempts[m] <= failures[m]
    /\ status[m] \in {"NONE", "PENDING"} => attempts[m] < MaxAttempts
    /\ status[m] = "FAILED" => failures[m] = MaxAttempts
    /\ status[m] = "PROCESSED" => m \in queued

(* What a relay read, however long ago.                                    *)
Snapshots ==
  \A r \in Relays : \A m \in batch[r] :
    read[r][m] < MaxAttempts /\ read[r][m] <= failures[m]

(* What the position of a relay says of its current message.               *)
Position(r, m) ==
  /\ at[r] \in {"claimed", "enqueued"} => status[m] = "PROCESSING"
  /\ at[r] = "enqueued" => m \in queued
  /\ at[r] = "caught" => /\ status[m] \in {"PROCESSING", "PROCESSED"}
                         /\ read[r][m] + 1 <= failures[m]

Positions == \A r \in Relays, m \in Messages : Current(r, m) => Position(r, m)

(* No two relays hold one message.                                         *)
Alone == \A m \in Messages, r, s \in Relays : Holds(r, m) /\ Holds(s, m) => r = s

IInv == TypeOK /\ Rows /\ Snapshots /\ Positions /\ Alone

-------------------------------------------------------------------------------
(* FRAMES.                                                                 *)

(* A relay is at one message only. *)
LEMMA OneCurrent ==
  ASSUME NEW r \in Relays, NEW m \in Messages, NEW n \in Messages,
         Current(r, m), Current(r, n)
  PROVE  m = n
<1>1. m <= n /\ n <= m BY DEF Current
<1> QED BY <1>1, MessagesAssumption

(* A relay that goes on keeps its batch, and the others keep everything.   *)
LEMMA GoesFrame ==
  ASSUME TypeOK, NEW r \in Relays, NEW to, Goes(r, to)
  PROVE  /\ at'[r] = to /\ \A s \in Relays : s # r => at'[s] = at[s]
         /\ \A s \in Relays, m \in Messages : Current(s, m)' <=> Current(s, m)
         /\ batch' = batch /\ read' = read
BY DEF Goes, TypeOK, Current

(* A relay that leaves a message holds none, and the others keep everything.*)
LEMMA LeaveFrame ==
  ASSUME TypeOK, NEW r \in Relays, NEW m \in Messages, Leave(r, m)
  PROVE  /\ at'[r] \in {"idle", "next"} /\ batch'[r] \subseteq batch[r]
         /\ \A n \in batch'[r] : read'[r][n] = read[r][n]
         /\ \A s \in Relays : s # r =>
              at'[s] = at[s] /\ batch'[s] = batch[s] /\ read'[s] = read[s]
         /\ \A s \in Relays, n \in Messages : s # r => (Current(s, n)' <=> Current(s, n))
         /\ at' \in [Relays -> {"idle", "next", "claimed", "enqueued", "caught"}]
         /\ batch' \in [Relays -> SUBSET Messages]
         /\ read' \in [Relays -> [Messages -> 0..MaxAttempts]]
<1>1. /\ batch' = [batch EXCEPT ![r] = @ \ {m}]
      /\ read' = [read EXCEPT ![r][m] = 0]
      /\ at' = [at EXCEPT ![r] = IF batch[r] = {m} THEN "idle" ELSE "next"]
  BY DEF Leave
<1>2. /\ at \in [Relays -> {"idle", "next", "claimed", "enqueued", "caught"}]
      /\ batch \in [Relays -> SUBSET Messages]
      /\ read \in [Relays -> [Messages -> 0..MaxAttempts]]
  BY DEF TypeOK
<1>3. \A s \in Relays : s # r => batch'[s] = batch[s]
  BY <1>1, <1>2
<1>4. read' \in [Relays -> [Messages -> 0..MaxAttempts]]
  BY <1>1, <1>2, RelayBoundsAssumption
<1>5. /\ batch'[r] = batch[r] \ {m}
      /\ \A n \in Messages : n # m => read'[r][n] = read[r][n]
      /\ batch'[r] \subseteq Messages
  BY <1>1, <1>2
<1> QED BY <1>1, <1>2, <1>3, <1>4, <1>5 DEF Current

-------------------------------------------------------------------------------
LEMMA InitIInv == Init => IInv
<1> SUFFICES ASSUME Init PROVE IInv
  OBVIOUS
<1>1. TypeOK BY RelayBoundsAssumption DEF Init, TypeOK
<1>2. Rows BY RelayBoundsAssumption DEF Init, Rows
<1>3. Snapshots BY DEF Init, Snapshots
<1>4. Positions BY DEF Init, Positions, Position
<1>5. Alone BY DEF Init, Alone, Holds
<1> QED BY <1>1, <1>2, <1>3, <1>4, <1>5 DEF IInv

(* What the claim of a message needs: no relay holds a pending one.        *)
LEMMA PendingFree ==
  ASSUME IInv, NEW m \in Messages, status[m] = "PENDING"
  PROVE  \A s \in Relays : ~Holds(s, m)
BY DEF IInv, Positions, Position, Holds

(* A relay that goes on with its message m, while everything that concerns *)
(* the other messages stays, keeps the relays' part of the invariant.      *)
LEMMA GoesKeeps ==
  ASSUME IInv, NEW r \in Relays, NEW m \in Messages, NEW to, Current(r, m), Goes(r, to),
         \A s \in Relays : s # r => ~Holds(s, m),
         \A n \in Messages : n # m =>
           /\ status'[n] = status[n] /\ failures'[n] = failures[n]
           /\ n \in queued' <=> n \in queued,
         failures'[m] >= failures[m], failures' \in [Messages -> 0..MaxAttempts],
         Position(r, m)'
  PROVE  Snapshots' /\ Positions' /\ Alone'
<1> USE DEF IInv
<1>1. /\ at'[r] = to /\ \A s \in Relays : s # r => at'[s] = at[s]
      /\ \A s \in Relays, n \in Messages : Current(s, n)' <=> Current(s, n)
      /\ batch' = batch /\ read' = read
  BY GoesFrame
<1>2. Snapshots'
  <2> SUFFICES ASSUME NEW s \in Relays, NEW n \in batch[s]
               PROVE  read[s][n] < MaxAttempts /\ read[s][n] <= failures'[n]
    BY <1>1 DEF Snapshots
  <2>1. n \in Messages BY DEF TypeOK
  <2>2. read[s][n] < MaxAttempts /\ read[s][n] <= failures[n] BY DEF Snapshots
  <2>3. failures[n] <= failures'[n] /\ failures[n] \in Nat /\ failures'[n] \in Nat /\ read[s][n] \in Nat
    BY <2>1, RelayBoundsAssumption DEF TypeOK
  <2> QED BY <2>2, <2>3
<1>3. Positions'
  <2> SUFFICES ASSUME NEW s \in Relays, NEW n \in Messages, Current(s, n)'
               PROVE  Position(s, n)'
    BY DEF Positions
  <2>1. Current(s, n) BY <1>1
  <2>2. CASE s = r BY <2>1, <2>2, OneCurrent
  <2>3. CASE s # r /\ n = m
    <3>1. at[s] \notin {"claimed", "enqueued", "caught"} BY <2>1, <2>3 DEF Holds
    <3> QED BY <3>1, <2>3, <1>1 DEF Position
  <2>4. CASE s # r /\ n # m
    <3>1. Position(s, n) BY <2>1 DEF Positions
    <3> QED BY <3>1, <2>4, <1>1 DEF Position
  <2> QED BY <2>2, <2>3, <2>4
<1>4. Alone'
  <2> SUFFICES ASSUME NEW n \in Messages, NEW s \in Relays, NEW u \in Relays,
                      Holds(s, n)', Holds(u, n)', s # u
               PROVE  FALSE
    BY DEF Alone
  <2>1. Current(s, n) /\ Current(u, n) BY <1>1 DEF Holds
  <2>2. CASE s # r /\ u # r BY <2>1, <2>2, <1>1 DEF Holds, Alone
  <2>3. CASE s = r
    <3>1. n = m /\ u # r BY <2>1, <2>3, OneCurrent
    <3> QED BY <3>1, <2>1, <1>1 DEF Holds
  <2>4. CASE u = r
    <3>1. n = m /\ s # r BY <2>1, <2>4, OneCurrent
    <3> QED BY <3>1, <2>1, <1>1 DEF Holds
  <2> QED BY <2>2, <2>3, <2>4
<1> QED BY <1>2, <1>3, <1>4

(* A relay that leaves m keeps it too, if no other relay holds m or the    *)
(* row is left alone.                                                      *)
LEMMA LeaveKeeps ==
  ASSUME IInv, NEW r \in Relays, NEW m \in Messages, Leave(r, m),
         \/ status' = status
         \/ \A s \in Relays : s # r => ~Holds(s, m),
         \A n \in Messages : n # m => status'[n] = status[n],
         failures' = failures, queued' = queued
  PROVE  Snapshots' /\ Positions' /\ Alone'
<1> USE DEF IInv
<1>1. /\ at'[r] \in {"idle", "next"} /\ batch'[r] \subseteq batch[r]
      /\ \A n \in batch'[r] : read'[r][n] = read[r][n]
      /\ \A s \in Relays : s # r =>
           at'[s] = at[s] /\ batch'[s] = batch[s] /\ read'[s] = read[s]
      /\ \A s \in Relays, n \in Messages : s # r => (Current(s, n)' <=> Current(s, n))
  BY LeaveFrame
<1>2. Snapshots' BY <1>1 DEF Snapshots
<1>3. Positions'
  <2> SUFFICES ASSUME NEW s \in Relays, NEW n \in Messages, Current(s, n)'
               PROVE  Position(s, n)'
    BY DEF Positions
  <2>1. CASE s = r BY <2>1, <1>1 DEF Position
  <2>2. CASE s # r
    <3>1. Current(s, n) /\ at'[s] = at[s] /\ read'[s] = read[s] BY <2>2, <1>1
    <3>2. Position(s, n) BY <3>1 DEF Positions
    <3>3. CASE status'[n] = status[n] BY <3>1, <3>2, <3>3 DEF Position
    <3>4. CASE status'[n] # status[n]
      <4>1. ~Holds(s, n) BY <3>4, <2>2
      <4>2. at[s] \notin {"claimed", "enqueued", "caught"} BY <4>1, <3>1 DEF Holds
      <4> QED BY <4>2, <3>1 DEF Position
    <3> QED BY <3>3, <3>4
  <2> QED BY <2>1, <2>2
<1>4. Alone'
  <2> SUFFICES ASSUME NEW n \in Messages, NEW s \in Relays, NEW u \in Relays,
                      Holds(s, n)', Holds(u, n)', s # u
               PROVE  FALSE
    BY DEF Alone
  <2>1. s # r /\ u # r BY <1>1 DEF Holds
  <2>2. Holds(s, n) /\ Holds(u, n) BY <2>1, <1>1 DEF Holds
  <2> QED BY <2>2 DEF Alone
<1> QED BY <1>2, <1>3, <1>4

-------------------------------------------------------------------------------
(* STEPS.                                                                  *)

(* Steps that move no relay.                                               *)
LEMMA RowStep ==
  ASSUME IInv, NEW m \in Messages, Create(m) \/ DelayElapses(m)
  PROVE  IInv'
<1> USE DEF IInv
<1>1. UNCHANGED <<queued, at, batch, read, failures, faults, attempts>>
  BY DEF Create, DelayElapses, relayVars
<1>2. \/ status' = status
      \/ status[m] = "NONE" /\ status' = [status EXCEPT ![m] = "PENDING"]
  BY DEF Create, DelayElapses
<1>3. TypeOK' BY <1>1, <1>2 DEF TypeOK, Create, DelayElapses
<1>4. Rows' BY <1>1, <1>2 DEF TypeOK, Rows
<1>5. Snapshots' BY <1>1 DEF Snapshots
<1>6. Positions' BY <1>1, <1>2 DEF TypeOK, Positions, Position, Current
<1>7. Alone' BY <1>1 DEF Alone, Holds, Current
<1> QED BY <1>3, <1>4, <1>5, <1>6, <1>7

(* A relay that starts over, with what it reads now or with nothing.       *)
LEMMA BatchStep ==
  ASSUME IInv, NEW r \in Relays, Poll(r) \/ Abandon(r)
  PROVE  IInv'
<1> USE DEF IInv
<1>1. UNCHANGED <<status, attempts, deferred, queued, failures>>
  BY DEF Poll, Abandon, rowVars
<1>2. /\ at' \in [Relays -> {"idle", "next", "claimed", "enqueued", "caught"}]
      /\ at'[r] \in {"idle", "next"}
      /\ batch' \in [Relays -> SUBSET Messages]
      /\ read' \in [Relays -> [Messages -> 0..MaxAttempts]]
      /\ \A s \in Relays : s # r => at'[s] = at[s] /\ batch'[s] = batch[s] /\ read'[s] = read[s]
  <2>1. CASE Poll(r)
    <3>1. Oldest(Due) \subseteq Messages BY DEF Oldest, Due
    <3>2. [m \in Messages |-> IF m \in Oldest(Due) THEN attempts[m] ELSE 0]
            \in [Messages -> 0..MaxAttempts]
      BY RelayBoundsAssumption DEF TypeOK
    <3> QED BY <2>1, <3>1, <3>2 DEF Poll, TypeOK
  <2>2. CASE Abandon(r)
    <3>1. [m \in Messages |-> 0] \in [Messages -> 0..MaxAttempts]
      BY RelayBoundsAssumption
    <3> QED BY <2>2, <3>1 DEF Abandon, TypeOK
  <2> QED BY <2>1, <2>2
<1>3. TypeOK'
  <2>1. faults' \in 0..MaxFaults
    BY RelayBoundsAssumption DEF Poll, Abandon, TypeOK
  <2> QED BY <1>1, <1>2, <2>1 DEF TypeOK
<1>4. Rows' BY <1>1 DEF Rows
<1>5. \A m \in batch'[r] : read'[r][m] < MaxAttempts /\ read'[r][m] <= failures[m]
  <2>1. CASE Poll(r)
    <3> SUFFICES ASSUME NEW m \in Oldest(Due)
                 PROVE  attempts[m] < MaxAttempts /\ attempts[m] <= failures[m]
      BY <2>1 DEF Poll, TypeOK, Oldest, Due
    <3>1. m \in Messages /\ status[m] = "PENDING" BY DEF Oldest, Due
    <3> QED BY <3>1 DEF Rows
  <2>2. CASE Abandon(r) BY <2>2 DEF Abandon, TypeOK
  <2> QED BY <2>1, <2>2
<1>6. Snapshots' BY <1>1, <1>2, <1>5 DEF Snapshots
<1>7. Positions'
  <2> SUFFICES ASSUME NEW s \in Relays, NEW m \in Messages, Current(s, m)'
               PROVE  Position(s, m)'
    BY DEF Positions
  <2>1. CASE s = r BY <2>1, <1>2 DEF Position
  <2>2. CASE s # r
    <3>1. Current(s, m) BY <2>2, <1>2 DEF Current
    <3> QED BY <3>1, <2>2, <1>1, <1>2 DEF Positions, Position
  <2> QED BY <2>1, <2>2
<1>8. Alone'
  <2> SUFFICES ASSUME NEW m \in Messages, NEW s \in Relays, NEW u \in Relays,
                      Holds(s, m)', Holds(u, m)', s # u
               PROVE  FALSE
    BY DEF Alone
  <2>1. s # r /\ u # r BY <1>2 DEF Holds
  <2>2. Holds(s, m) /\ Holds(u, m) BY <2>1, <1>2 DEF Holds, Current
  <2> QED BY <2>2 DEF Alone
<1> QED BY <1>3, <1>4, <1>6, <1>7, <1>8

(* The claim, and the message that is passed over.                         *)
LEMMA ClaimStep ==
  ASSUME IInv, NEW r \in Relays, NEW m \in Messages, Claim(r, m)
  PROVE  IInv'
<1> USE DEF IInv
<1>1. at[r] = "next" /\ Current(r, m) BY DEF Claim
<1>2. UNCHANGED <<attempts, deferred, queued, failures, faults>> BY DEF Claim
<1>3. CASE status[m] = "PENDING"
  <2>1. status' = [status EXCEPT ![m] = "PROCESSING"] /\ Goes(r, "claimed")
    BY <1>3 DEF Claim
  <2>2. TypeOK' BY <2>1, <1>2 DEF TypeOK, Goes
  <2>3. Rows' BY <2>1, <1>2 DEF Rows, TypeOK
  <2>4. Position(r, m)' BY <2>1, <1>2 DEF TypeOK, Position, Goes
  <2>5. \A s \in Relays : ~Holds(s, m) BY <1>3, PendingFree
  <2>6. \A n \in Messages : n # m => status'[n] = status[n] BY <2>1 DEF TypeOK
  <2>7. failures'[m] >= failures[m] /\ failures' \in [Messages -> 0..MaxAttempts]
    BY <1>2, RelayBoundsAssumption DEF TypeOK
  <2>8. Snapshots' /\ Positions' /\ Alone'
    BY <1>1, <1>2, <2>1, <2>4, <2>5, <2>6, <2>7, GoesKeeps
  <2> QED BY <2>2, <2>3, <2>8
<1>4. CASE status[m] # "PENDING"
  <2>1. Leave(r, m) /\ status' = status BY <1>4 DEF Claim
  <2>2. TypeOK' BY <2>1, <1>2, LeaveFrame DEF TypeOK
  <2>3. Rows' BY <2>1, <1>2 DEF Rows
  <2>4. Snapshots' /\ Positions' /\ Alone' BY <2>1, <1>2, LeaveKeeps
  <2> QED BY <2>2, <2>3, <2>4
<1> QED BY <1>3, <1>4

(* The steps in which a relay goes on with the message it holds.           *)
LEMMA HoldingStep ==
  ASSUME IInv, NEW r \in Relays, NEW m \in Messages,
         Enqueue(r, m) \/ EnqueueFails(r, m) \/ MarkFails(r, m)
  PROVE  IInv'
<1> USE DEF IInv
<1>1. at[r] \in {"claimed", "enqueued"} /\ Current(r, m)
  BY DEF Enqueue, EnqueueFails, MarkFails
<1>2. status[m] = "PROCESSING" /\ (at[r] = "enqueued" => m \in queued)
  BY <1>1 DEF Positions, Position
<1>3. \A s \in Relays : s # r => ~Holds(s, m) BY <1>1 DEF Alone, Holds
<1>4. /\ UNCHANGED <<attempts, deferred>>
      /\ \/ status' = status
         \/ at[r] = "enqueued" /\ status' = [status EXCEPT ![m] = "PROCESSED"]
      /\ queued' = queued \/ queued' = queued \cup {m}
      /\ \/ failures' = failures /\ Goes(r, "enqueued") /\ m \in queued' /\ status' = status
         \/ Failed(m) /\ Goes(r, "caught")
      /\ faults' \in 0..MaxFaults
  BY RelayBoundsAssumption DEF Enqueue, EnqueueFails, MarkFails, rowVars, TypeOK
<1>5. /\ failures' \in [Messages -> 0..MaxAttempts] /\ failures'[m] >= failures[m]
      /\ \A n \in Messages : failures'[n] >= failures[n] /\ (n # m => failures'[n] = failures[n])
      /\ failures' = failures \/ failures[m] = MaxAttempts \/ failures'[m] = failures[m] + 1
      /\ failures[m] = MaxAttempts => failures' = failures
  BY <1>4, RelayBoundsAssumption DEF TypeOK, Failed
<1>6. \A n \in Messages : n # m => status'[n] = status[n] /\ (n \in queued' <=> n \in queued)
  BY <1>4 DEF TypeOK
<1>7. TypeOK'
  <2>1. queued' \in SUBSET Messages
        /\ status' \in [Messages -> {"NONE", "PENDING", "PROCESSING", "PROCESSED", "FAILED"}]
    BY <1>4 DEF TypeOK
  <2>2. CASE Goes(r, "enqueued") BY <2>1, <2>2, <1>4, <1>5 DEF TypeOK, Goes
  <2>3. CASE Goes(r, "caught") BY <2>1, <2>3, <1>4, <1>5 DEF TypeOK, Goes
  <2> QED BY <1>4, <2>2, <2>3
<1>8. Rows'
  <2> SUFFICES ASSUME NEW n \in Messages
               PROVE  /\ attempts[n] <= failures'[n]
                      /\ status'[n] \in {"NONE", "PENDING"} => attempts[n] < MaxAttempts
                      /\ status'[n] = "FAILED" => failures'[n] = MaxAttempts
                      /\ status'[n] = "PROCESSED" => n \in queued'
    BY <1>4 DEF Rows
  <2>1. /\ attempts[n] <= failures[n]
        /\ status[n] \in {"NONE", "PENDING"} => attempts[n] < MaxAttempts
        /\ status[n] = "FAILED" => failures[n] = MaxAttempts
        /\ status[n] = "PROCESSED" => n \in queued
    BY DEF Rows
  <2>2. attempts[n] \in Nat /\ failures[n] \in Nat /\ failures'[n] \in Nat
    BY <1>5, RelayBoundsAssumption DEF TypeOK
  <2>3. CASE n # m BY <2>1, <2>2, <2>3, <1>5, <1>6
  <2>4. CASE n = m
    <3>1. status'[m] \in {"PROCESSING", "PROCESSED"} /\ (status'[m] = "PROCESSED" => m \in queued')
      BY <1>2, <1>4 DEF TypeOK
    <3> QED BY <3>1, <2>1, <2>2, <2>4, <1>5
  <2> QED BY <2>3, <2>4
<1>9. Position(r, m)'
  <2>1. CASE Goes(r, "enqueued") /\ m \in queued' /\ status' = status
    BY <2>1, <1>2 DEF Goes, TypeOK, Position
  <2>2. CASE Failed(m) /\ Goes(r, "caught")
    <3>1. at'[r] = "caught" /\ read' = read BY <2>2 DEF Goes, TypeOK
    <3>2. status'[m] \in {"PROCESSING", "PROCESSED"} BY <1>2, <1>4 DEF TypeOK
    <3>3. read[r][m] < MaxAttempts /\ read[r][m] <= failures[m]
      BY <1>1 DEF Snapshots, Current
    <3>4. failures'[m] = IF failures[m] < MaxAttempts THEN failures[m] + 1 ELSE failures[m]
      BY <2>2 DEF Failed, TypeOK
    <3>5. read[r][m] \in Nat /\ failures[m] \in 0..MaxAttempts BY RelayBoundsAssumption DEF TypeOK
    <3>6. read[r][m] + 1 <= failures'[m] BY <3>3, <3>4, <3>5, RelayBoundsAssumption
    <3> QED BY <3>1, <3>2, <3>6 DEF Position
  <2> QED BY <1>4, <2>1, <2>2
<1>10. Snapshots' /\ Positions' /\ Alone'
  <2>1. CASE Goes(r, "enqueued") BY <2>1, <1>1, <1>3, <1>5, <1>6, <1>9, GoesKeeps
  <2>2. CASE Goes(r, "caught") BY <2>2, <1>1, <1>3, <1>5, <1>6, <1>9, GoesKeeps
  <2> QED BY <1>4, <2>1, <2>2
<1> QED BY <1>7, <1>8, <1>10

(* The steps in which a relay settles the message or gives it back.        *)
LEMMA SettlingStep ==
  ASSUME IInv, NEW r \in Relays, NEW m \in Messages,
         MarkProcessed(r, m) \/ GiveBack(r, m)
  PROVE  IInv'
<1> USE DEF IInv
<1>1. at[r] \in {"enqueued", "caught"} /\ Current(r, m) /\ Leave(r, m)
  BY DEF MarkProcessed, GiveBack
<1>2. UNCHANGED <<queued, failures, faults>> BY DEF MarkProcessed, GiveBack
<1>3. \A s \in Relays : s # r => ~Holds(s, m) BY <1>1 DEF Alone, Holds
<1>4. read[r][m] \in 0..MaxAttempts /\ read[r][m] < MaxAttempts
  BY <1>1 DEF Snapshots, Current, TypeOK
<1>5. at[r] = "caught" => read[r][m] + 1 <= failures[m]
  BY <1>1 DEF Positions, Position
<1>6. /\ attempts' \in [Messages -> 0..MaxAttempts] /\ deferred' \in SUBSET Messages
      /\ status' \in [Messages -> {"NONE", "PENDING", "PROCESSING", "PROCESSED", "FAILED"}]
      /\ \A n \in Messages : n # m => status'[n] = status[n] /\ attempts'[n] = attempts[n]
  <2>1. CASE MarkProcessed(r, m) BY <2>1 DEF MarkProcessed, TypeOK
  <2>2. CASE GiveBack(r, m)
    <3>1. read[r][m] + 1 \in 0..MaxAttempts BY <1>4, RelayBoundsAssumption
    <3>2. /\ attempts' = [attempts EXCEPT ![m] = read[r][m] + 1]
          /\ \E v \in {"FAILED", "PENDING"} : status' = [status EXCEPT ![m] = v]
          /\ deferred' \in {deferred \ {m}, deferred \cup {m}}
      BY <2>2 DEF GiveBack
    <3> QED BY <3>1, <3>2 DEF TypeOK
  <2> QED BY <2>1, <2>2
<1>7. TypeOK' BY <1>1, <1>2, <1>6, LeaveFrame DEF TypeOK
<1>8. Rows'
  <2> SUFFICES ASSUME NEW n \in Messages
               PROVE  /\ attempts'[n] <= failures[n]
                      /\ status'[n] \in {"NONE", "PENDING"} => attempts'[n] < MaxAttempts
                      /\ status'[n] = "FAILED" => failures[n] = MaxAttempts
                      /\ status'[n] = "PROCESSED" => n \in queued
    BY <1>2 DEF Rows
  <2>1. /\ attempts[n] <= failures[n]
        /\ status[n] \in {"NONE", "PENDING"} => attempts[n] < MaxAttempts
        /\ status[n] = "FAILED" => failures[n] = MaxAttempts
        /\ status[n] = "PROCESSED" => n \in queued
    BY DEF Rows
  <2>2. CASE n # m BY <2>1, <2>2, <1>6
  <2>3. CASE n = m /\ MarkProcessed(r, m)
    <3>1. m \in queued BY <2>3, <1>1 DEF MarkProcessed, Positions, Position
    <3>2. status'[m] = "PROCESSED" /\ attempts' = attempts BY <2>3 DEF MarkProcessed, TypeOK
    <3> QED BY <3>1, <3>2, <2>1, <2>3
  <2>4. CASE n = m /\ GiveBack(r, m)
    <3>1. /\ attempts'[m] = read[r][m] + 1
          /\ status'[m] = IF read[r][m] + 1 >= MaxAttempts THEN "FAILED" ELSE "PENDING"
          /\ read[r][m] + 1 <= failures[m]
      BY <2>4, <1>5 DEF GiveBack, TypeOK
    <3>2. failures[m] \in 0..MaxAttempts BY DEF TypeOK
    <3> QED BY <3>1, <3>2, <2>4, <1>4, RelayBoundsAssumption
  <2> QED BY <2>2, <2>3, <2>4
<1>9. Snapshots' /\ Positions' /\ Alone' BY <1>1, <1>2, <1>3, <1>6, LeaveKeeps
<1> QED BY <1>7, <1>8, <1>9

LEMMA NextIInv == IInv /\ [Next]_vars => IInv'
<1> SUFFICES ASSUME IInv, [Next]_vars PROVE IInv'
  OBVIOUS
<1>1. CASE \E m \in Messages : Create(m) \/ DelayElapses(m) BY <1>1, RowStep
<1>2. CASE \E r \in Relays : Poll(r) \/ Abandon(r) BY <1>2, BatchStep
<1>3. CASE \E r \in Relays, m \in Messages : Handle(r, m)
  BY <1>3, ClaimStep, HoldingStep, SettlingStep DEF Handle
<1>4. CASE UNCHANGED vars
  BY <1>4 DEF vars, rowVars, relayVars, IInv, TypeOK, Rows, Snapshots, Positions,
              Position, Alone, Holds, Current
<1> QED BY <1>1, <1>2, <1>3, <1>4 DEF Next

LEMMA Invariant == Spec => []IInv
<1>1. Init => IInv BY InitIInv
<1>2. IInv /\ [Next]_vars => IInv' BY NextIInv
<1> QED BY <1>1, <1>2, PTL DEF Spec

-------------------------------------------------------------------------------
(* THEOREMS.                                                               *)

(* The outbox and its relays are well typed: in particular the attempts a  *)
(* relay writes back never exceed the limit.                               *)
THEOREM RelayTypes == Spec => []TypeOK
<1>1. IInv => TypeOK BY DEF IInv
<1> QED BY <1>1, Invariant, PTL

(* Two relays never deal with one message at the same time, however many   *)
(* instances run and whatever fails.                                       *)
THEOREM ClaimsExclude == Spec => []ExclusiveClaim
<1>1. IInv => ExclusiveClaim
  BY DEF IInv, ExclusiveClaim, Alone, Positions, Position, Holds
<1> QED BY <1>1, Invariant, PTL

(* A message is given up only after as many failures as there are attempts,*)
(* however stale the counts of the relays were.                            *)
THEOREM NoEarlyGivingUp == Spec => []GivesUpLate
<1>1. IInv => GivesUpLate BY DEF IInv, Rows, GivesUpLate
<1> QED BY <1>1, Invariant, PTL

-------------------------------------------------------------------------------
(* REFINEMENT.                                                             *)

Held(m) == \E r \in Relays : Holds(r, m)

(* The four states, from the row and from whether a relay holds it.        *)
LEMMA StateIs ==
  ASSUME TypeOK, NEW m \in Messages
  PROVE  /\ status[m] = "NONE" => MessageState(m) = "none"
         /\ status[m] \in {"PENDING", "PROCESSING"} => MessageState(m) = "open"
         /\ status[m] = "FAILED" => MessageState(m) = "given up"
         /\ status[m] = "PROCESSED" => MessageState(m) = IF Held(m) THEN "open" ELSE "sent"
BY DEF TypeOK, MessageState, Held

LEMMA SameState ==
  ASSUME TypeOK, TypeOK', NEW m \in Messages, status'[m] = status[m],
         Held(m)' <=> Held(m)
  PROVE  MessageState(m)' = MessageState(m)
BY DEF TypeOK, MessageState, Held

(* A step of a relay concerns, of the held messages, the one it is at.     *)
LEMMA OthersHeld ==
  ASSUME TypeOK, NEW r \in Relays, NEW m \in Messages, Current(r, m),
         Leave(r, m) \/ \E to \in {"claimed", "enqueued", "caught"} : Goes(r, to)
  PROVE  \A n \in Messages : n # m => (Held(n)' <=> Held(n))
<1> SUFFICES ASSUME NEW n \in Messages, n # m, NEW s \in Relays
             PROVE  Holds(s, n)' <=> Holds(s, n)
  BY DEF Held
<1>1. ~Current(r, n) BY OneCurrent
<1>2. CASE Leave(r, m)
  <2>1. CASE s = r BY <1>1, <1>2, <2>1, LeaveFrame DEF Holds
  <2>2. CASE s # r BY <1>2, <2>2, LeaveFrame DEF Holds
  <2> QED BY <2>1, <2>2
<1>3. CASE \E to \in {"claimed", "enqueued", "caught"} : Goes(r, to)
  <2>1. CASE s = r BY <1>1, <1>3, <2>1, GoesFrame DEF Holds
  <2>2. CASE s # r BY <1>3, <2>2, GoesFrame DEF Holds
  <2> QED BY <2>1, <2>2
<1> QED BY <1>2, <1>3

States == [m \in Messages |-> MessageState(m)]

(* Where nothing is held or released and no row changes, no state does.    *)
LEMMA StatesStay ==
  ASSUME TypeOK, TypeOK',
         \A m \in Messages : MessageState(m)' = MessageState(m)
  PROVE  States' = States
BY DEF States

LEMMA StateMoves ==
  ASSUME NEW m \in Messages,
         \A n \in Messages : n # m => MessageState(n)' = MessageState(n)
  PROVE  States' = [States EXCEPT ![m] = MessageState(m)']
BY DEF States

(* Create, and the steps that move no held message.                        *)
LEMMA RowRefines ==
  ASSUME IInv, IInv', NEW m \in Messages, Create(m) \/ DelayElapses(m)
  PROVE  [Delivery!Next]_(Delivery!vars)
<1> USE DEF IInv
<1>1. UNCHANGED <<queued, at, batch>> BY DEF Create, DelayElapses, relayVars
<1>2. \A n \in Messages : Held(n)' <=> Held(n) BY <1>1 DEF Held, Holds, Current
<1>3. CASE Create(m)
  <2>1. status[m] = "NONE" /\ status'[m] = "PENDING"
        /\ \A n \in Messages : n # m => status'[n] = status[n]
    BY <1>3 DEF Create, TypeOK
  <2>2. MessageState(m) = "none" /\ MessageState(m)' = "open"
    BY <2>1, StateIs DEF TypeOK, MessageState
  <2>3. \A n \in Messages : n # m => MessageState(n)' = MessageState(n)
    BY <2>1, <1>2, SameState
  <2>4. Delivery!Create(m) BY <2>2, <2>3, <1>1, StateMoves DEF Delivery!Create, States
  <2> QED BY <2>4 DEF Delivery!Next
<1>4. CASE DelayElapses(m)
  <2>1. status' = status BY <1>4 DEF DelayElapses
  <2>2. \A n \in Messages : MessageState(n)' = MessageState(n) BY <2>1, <1>2, SameState
  <2> QED BY <2>2, <1>1, StatesStay DEF Delivery!vars, States
<1> QED BY <1>3, <1>4

(* A relay that starts over may let go of a message that it had marked     *)
(* without knowing: only now is it sent.                                   *)
LEMMA BatchRefines ==
  ASSUME IInv, IInv', NEW r \in Relays, Poll(r) \/ Abandon(r)
  PROVE  [Delivery!Next]_(Delivery!vars)
<1> USE DEF IInv
<1>1. status' = status /\ queued' = queued BY DEF Poll, Abandon, rowVars
<1>2. /\ at'[r] \in {"idle", "next"}
      /\ \A s \in Relays : s # r => at'[s] = at[s] /\ batch'[s] = batch[s]
  BY DEF Poll, Abandon, TypeOK
<1>3. \A n \in Messages : ~Holds(r, n)' BY <1>2 DEF Holds
<1>4. \A n \in Messages, s \in Relays : s # r => (Holds(s, n)' <=> Holds(s, n))
  BY <1>2 DEF Holds, Current
<1>5. \A n \in Messages : ~Holds(r, n) => (Held(n)' <=> Held(n)) BY <1>3, <1>4 DEF Held
<1>6. CASE \A n \in Messages : ~Holds(r, n)
  <2>1. \A n \in Messages : MessageState(n)' = MessageState(n) BY <1>1, <1>5, <1>6, SameState
  <2> QED BY <2>1, <1>1, StatesStay DEF Delivery!vars, States
<1>7. CASE \E m \in Messages : Holds(r, m)
  <2>1. PICK m \in Messages : Holds(r, m) BY <1>7
  <2>2. \A n \in Messages : n # m => ~Holds(r, n) BY <2>1, OneCurrent DEF Holds
  <2>3. \A n \in Messages : n # m => MessageState(n)' = MessageState(n)
    BY <2>2, <1>1, <1>5, SameState
  <2>4. ~Held(m)' BY <2>1, <1>3, <1>4 DEF Held, Alone
  <2>5. status[m] \in {"PROCESSING", "PROCESSED"} BY <2>1 DEF Holds, Positions, Position
  <2>6. CASE status[m] = "PROCESSING"
    <3>1. MessageState(m)' = MessageState(m) BY <2>6, <1>1, StateIs DEF TypeOK, MessageState
    <3>2. \A n \in Messages : MessageState(n)' = MessageState(n) BY <3>1, <2>3
    <3> QED BY <3>2, <1>1, StatesStay DEF Delivery!vars, States
  <2>7. CASE status[m] = "PROCESSED"
    <3>1. MessageState(m) = "open" /\ m \in queued
      BY <2>1, <2>7, StateIs DEF Held, Rows
    <3>2. MessageState(m)' = "sent"
      BY <2>7, <2>4, <1>1 DEF TypeOK, MessageState, Held
    <3>3. Delivery!Confirm(m) BY <3>1, <3>2, <2>3, <1>1, StateMoves DEF Delivery!Confirm, States
    <3> QED BY <3>3 DEF Delivery!Next
  <2> QED BY <2>5, <2>6, <2>7
<1> QED BY <1>6, <1>7

(* The steps of a relay at its message.                                    *)
LEMMA HandleRefines ==
  ASSUME IInv, IInv', NEW r \in Relays, NEW m \in Messages, Handle(r, m)
  PROVE  [Delivery!Next]_(Delivery!vars)
<1> USE DEF IInv
<1>1. /\ Current(r, m)
      /\ Leave(r, m) \/ \E to \in {"claimed", "enqueued", "caught"} : Goes(r, to)
  BY DEF Handle, Claim, Enqueue, EnqueueFails, MarkProcessed, MarkFails, GiveBack
<1>2. \A n \in Messages : n # m => status'[n] = status[n]
  BY DEF Handle, Claim, Enqueue, EnqueueFails, MarkProcessed, MarkFails, GiveBack,
         rowVars, TypeOK
<1>3. \A n \in Messages : n # m => MessageState(n)' = MessageState(n)
  BY <1>1, <1>2, OthersHeld, SameState
<1>4. States' = [States EXCEPT ![m] = MessageState(m)'] BY <1>3, StateMoves
<1>5. MessageState(m)' = MessageState(m) => States' = States BY <1>3, StatesStay
<1>6. at[r] \in {"claimed", "enqueued"} => status[m] = "PROCESSING" /\ MessageState(m) = "open"
  BY <1>1, StateIs DEF Positions, Position
<1>7. CASE Claim(r, m)
  <2>1. queued' = queued BY <1>7 DEF Claim
  <2>2. MessageState(m)' = MessageState(m)
    <3>1. CASE status[m] = "PENDING"
      <4>1. status'[m] = "PROCESSING" BY <1>7, <3>1 DEF Claim, TypeOK
      <4> QED BY <3>1, <4>1 DEF TypeOK, MessageState
    <3>2. CASE status[m] # "PENDING"
      <4>1. status' = status /\ Leave(r, m) /\ at[r] = "next" BY <1>7, <3>2 DEF Claim
      <4>2. \A s \in Relays : Holds(s, m)' <=> Holds(s, m) BY <4>1, LeaveFrame DEF Holds
      <4> QED BY <4>1, <4>2, SameState DEF Held
    <3> QED BY <3>1, <3>2
  <2> QED BY <2>1, <2>2, <1>5 DEF Delivery!vars, States
<1>8. CASE Enqueue(r, m) \/ EnqueueFails(r, m)
  <2>1. /\ at[r] = "claimed" /\ status' = status
        /\ queued' = queued \/ queued' = queued \cup {m}
    BY <1>8 DEF Enqueue, EnqueueFails, rowVars
  <2>2. MessageState(m) = "open" /\ MessageState(m)' = "open"
    BY <2>1, <1>6 DEF TypeOK, MessageState
  <2>3. States' = States BY <2>2, <1>5
  <2>4. CASE queued' = queued BY <2>3, <2>4 DEF Delivery!vars, States
  <2>5. CASE queued' = queued \cup {m}
    <3>1. Delivery!Deliver(m) BY <2>2, <2>3, <2>5 DEF Delivery!Deliver, States
    <3> QED BY <3>1 DEF Delivery!Next
  <2> QED BY <2>1, <2>4, <2>5
<1>9. CASE MarkProcessed(r, m)
  <2>1. /\ at[r] = "enqueued" /\ status'[m] = "PROCESSED" /\ queued' = queued /\ Leave(r, m)
    BY <1>9 DEF MarkProcessed, TypeOK
  <2>2. m \in queued BY <2>1, <1>1 DEF Positions, Position
  <2>3. ~Held(m)' BY <2>1, <1>1, LeaveFrame DEF Held, Holds, Alone
  <2>4. MessageState(m) = "open" BY <2>1, <1>6
  <2>5. MessageState(m)' = "sent" BY <2>1, <2>3 DEF TypeOK, MessageState, Held
  <2>6. Delivery!Confirm(m)
    BY <2>1, <2>2, <2>4, <2>5, <1>4 DEF Delivery!Confirm, States
  <2> QED BY <2>6 DEF Delivery!Next
<1>10. CASE MarkFails(r, m)
  <2>1. /\ at[r] = "enqueued" /\ status'[m] \in {"PROCESSING", "PROCESSED"}
        /\ queued' = queued /\ Goes(r, "caught")
    BY <1>10, <1>6 DEF MarkFails, TypeOK
  <2>2. Held(m)' BY <2>1, <1>1, GoesFrame DEF Held, Holds
  <2>3. MessageState(m)' = MessageState(m)
    BY <2>1, <2>2, <1>6 DEF TypeOK, MessageState, Held
  <2> QED BY <2>1, <2>3, <1>5 DEF Delivery!vars, States
<1>11. CASE GiveBack(r, m)
  <2>1. /\ at[r] = "caught" /\ status'[m] \in {"PENDING", "FAILED"} /\ queued' = queued
    BY <1>11 DEF GiveBack, TypeOK
  <2>2. MessageState(m) = "open"
    <3>1. status[m] \in {"PROCESSING", "PROCESSED"} /\ Held(m)
      BY <2>1, <1>1 DEF Positions, Position, Held, Holds
    <3> QED BY <3>1, StateIs
  <2>3. CASE status'[m] = "PENDING"
    <3>1. MessageState(m)' = "open" BY <2>3 DEF TypeOK, MessageState
    <3> QED BY <3>1, <2>1, <2>2, <1>5 DEF Delivery!vars, States
  <2>4. CASE status'[m] = "FAILED"
    <3>1. MessageState(m)' = "given up" BY <2>4 DEF TypeOK, MessageState
    <3>2. Delivery!GiveUp(m) BY <3>1, <2>1, <2>2, <1>4 DEF Delivery!GiveUp, States
    <3> QED BY <3>2 DEF Delivery!Next
  <2> QED BY <2>1, <2>3, <2>4
<1> QED BY <1>7, <1>8, <1>9, <1>10, <1>11 DEF Handle

(* The relays implement the delivery that the outbox promises: whatever    *)
(* fails, a settled message stays settled, a job is added only for an open *)
(* message, and no message is called sent without its job.                 *)
THEOREM RelayDelivers == Spec => RefinesDelivery
<1>1. Init => Delivery!Init
  BY DEF Init, Delivery!Init, MessageState
<1>2. IInv /\ IInv' /\ [Next]_vars => [Delivery!Next]_(Delivery!vars)
  <2> SUFFICES ASSUME IInv, IInv', [Next]_vars PROVE [Delivery!Next]_(Delivery!vars)
    OBVIOUS
  <2>1. CASE \E m \in Messages : Create(m) \/ DelayElapses(m) BY <2>1, RowRefines
  <2>2. CASE \E r \in Relays : Poll(r) \/ Abandon(r) BY <2>2, BatchRefines
  <2>3. CASE \E r \in Relays, m \in Messages : Handle(r, m) BY <2>3, HandleRefines
  <2>4. CASE UNCHANGED vars
    BY <2>4 DEF vars, rowVars, relayVars, Delivery!vars, MessageState, Holds, Current
  <2> QED BY <2>1, <2>2, <2>3, <2>4 DEF Next
<1> QED BY <1>1, <1>2, Invariant, PTL DEF Spec, RefinesDelivery, Delivery!Spec
=============================================================================
