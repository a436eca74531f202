--------------------------- MODULE RequestsProofs ---------------------------
(* What TLAPS proves of the requests of users: sessions and wallets, the     *)
(* evidence asked for, the readiness reports, for every number of requests,  *)
(* sessions, reports, links, reviews and failures.                           *)
EXTENDS EvidenceRuns, ReadinessReports, UserAccess, FiniteSetTheorems, SequenceTheorems, TLAPS

-----------------------------------------------------------------------------
(* UserAccess.                                                               *)

SessionRows == [status : {"ACTIVE", "REVOKED"}, token : Nat]
Working == {"issue", "revoke", "rotate", "answer"}
Signing == {"verify", "create", "signedIn"}

Windows == [hits : Nat, expires : BOOLEAN, orphan : BOOLEAN]

StageStates ==
  [at : {"out", "admitted"}] \cup [at : {"first", "counted"}, hits : Nat]
    \cup [at : Signing, with : SUBSET Nonces]
    \cup [at : {"issue", "revoke"}, session : Nat]
    \cup [at : {"rotate", "answer"}, session : Nat, token : Nat]

(* Every row has its list of tokens, and a request works on a row there is.  *)
AccessTypes ==
  /\ second \in Nat /\ requests \in Nat /\ errors \in Nat
  /\ stage \in [Calls -> StageStates]
  /\ sessions \in Seq(SessionRows) /\ given \in Seq(Seq(Nat)) /\ Len(given) = Len(sessions)
  /\ \A c \in Calls : stage[c].at \in Working => stage[c].session \in DOMAIN sessions
  /\ raced \subseteq Nat
  /\ nonce \in [Nonces -> {"none", "stored", "gone"}] /\ signIns \in [Nonces -> Nat]
  /\ wallet \in [rows : Nat, users : Nat]
  /\ window \in Windows

Carries(c, n) == stage[c].at \in Signing /\ n \in stage[c].with

(* A nonce that can still be used was used by nobody; one that was taken is  *)
(* with one request, or has signed in, or neither.                           *)
NonceSpent ==
  /\ \A n \in Nonces : nonce[n] # "gone" => signIns[n] = 0 /\ \A c \in Calls : ~Carries(c, n)
  /\ \A n \in Nonces, c \in Calls :
       Carries(c, n) => signIns[n] = 0 /\ \A d \in Calls \ {c} : ~Carries(d, n)
  /\ \A n \in Nonces : signIns[n] <= 1

OneWallet == wallet.users = wallet.rows /\ wallet.rows <= 1

Newest(s) == given[s] # <<>> /\ sessions[s].token = given[s][Len(given[s])]

(* A session that was not raced has one request at a time, and what that     *)
(* request has written is what it is about to answer.                        *)
TokenKept(s) ==
  /\ \A c, d \in Calls : Works(c, s) /\ Works(d, s) => c = d
  /\ \A c \in Calls : Works(c, s) =>
       /\ stage[c].at = "answer" => sessions[s].token = stage[c].token
       /\ stage[c].at = "revoke" => Newest(s)
  /\ (\A c \in Calls : ~Works(c, s)) => Newest(s)

TokensKept == \A s \in DOMAIN sessions \ raced : TokenKept(s)

AccessInv == AccessTypes /\ NonceSpent /\ OneWallet /\ TokensKept

LEMMA StageDomains ==
  ASSUME NEW q \in StageStates
  PROVE  "session" \in DOMAIN q <=> q.at \in Working
BY DEF StageStates, Working, Signing

LEMMA WorksIsWorking ==
  ASSUME stage \in [Calls -> StageStates], NEW c \in Calls, NEW s
  PROVE  Works(c, s) <=> stage[c].at \in Working /\ stage[c].session = s
BY StageDomains DEF Works

(* A request moves, the others stay.                                         *)
LEMMA ThenMoves ==
  ASSUME stage \in [Calls -> StageStates], NEW c \in Calls, NEW q \in StageStates, Then(c, q)
  PROVE  /\ stage' \in [Calls -> StageStates] /\ stage'[c] = q
         /\ \A d \in Calls \ {c} : stage'[d] = stage[d]
BY DEF Then

LEMMA AccessInitInv == AccessInit => AccessInv
<1> SUFFICES ASSUME AccessInit PROVE AccessInv
  OBVIOUS
<1>1. AccessTypes
  BY DEF AccessInit, AccessTypes, StageStates, Out, Working, Windows
<1>2. NonceSpent /\ OneWallet
  BY DEF AccessInit, NonceSpent, OneWallet, Carries, Out, Signing
<1>3. TokensKept
  BY DEF AccessInit, TokensKept
<1> QED BY <1>1, <1>2, <1>3 DEF AccessInv

(* Counting, or losing the end of the window, gives a window.                *)
LEMMA WindowsStay ==
  ASSUME NEW w \in Windows
  PROVE  /\ [w EXCEPT !.hits = w.hits + 1] \in Windows
         /\ [w EXCEPT !.expires = TRUE] \in Windows
         /\ [w EXCEPT !.orphan = TRUE] \in Windows
         /\ [hits |-> 0, expires |-> FALSE, orphan |-> FALSE] \in Windows
<1>1. [w EXCEPT !.hits = w.hits + 1] \in Windows
  BY DEF Windows
<1>2. [w EXCEPT !.expires = TRUE] \in Windows /\ [w EXCEPT !.orphan = TRUE] \in Windows
  BY DEF Windows
<1>3. [hits |-> 0, expires |-> FALSE, orphan |-> FALSE] \in Windows
  BY DEF Windows
<1> QED BY <1>1, <1>2, <1>3

(* What a request carries or works on follows it; the rest is untouched.     *)
LEMMA NoncesStay ==
  ASSUME AccessInv, NEW c \in Calls, NEW q, Then(c, q), UNCHANGED <<nonce, signIns>>,
         \A n \in Nonces : q.at \in Signing /\ n \in q.with => Carries(c, n)
  PROVE  NonceSpent'
<1>1. /\ stage'[c] = q
      /\ \A d \in Calls \ {c} : stage'[d] = stage[d]
  BY DEF Then, AccessInv, AccessTypes
<1>2. \A d \in Calls, n \in Nonces : Carries(d, n)' => Carries(d, n)
  BY <1>1 DEF Carries
<1> QED BY <1>2 DEF AccessInv, NonceSpent

LEMMA TokensElsewhere ==
  ASSUME AccessTypes, NEW c \in Calls, \A d \in Calls \ {c} : stage'[d] = stage[d],
         NEW s, TokenKept(s), sessions'[s] = sessions[s], given'[s] = given[s],
         ~Works(c, s), ~Works(c, s)'
  PROVE  TokenKept(s)'
<1>1. \A d \in Calls : Works(d, s)' <=> Works(d, s)
  BY DEF Works
<1>2. \A d \in Calls : Works(d, s) => stage'[d] = stage[d]
  OBVIOUS
<1> QED BY <1>1, <1>2 DEF TokenKept, Newest

(* Every step keeps the types.                                               *)
LEMMA AccessStepTypes ==
  ASSUME AccessTypes, AccessNext
  PROVE  AccessTypes'
<1> USE DEF sessionRows, walletVars
<1>0. /\ stage \in [Calls -> StageStates]
      /\ \A c \in Calls : stage[c] \in StageStates
  BY DEF AccessTypes
<1>t. ASSUME Tick PROVE AccessTypes'
  BY <1>t DEF Tick, AccessTypes
<1>w. ASSUME WindowEnds PROVE AccessTypes'
  BY <1>w, WindowsStay DEF WindowEnds, AccessTypes
<1>e. ASSUME NEW n \in Nonces, NonceExpires(n) PROVE AccessTypes'
  BY <1>e DEF NonceExpires, AccessTypes
<1>c. ASSUME NEW c \in Calls, AccessStep(c) PROVE AccessTypes'
  <2>m. ASSUME NEW q \in StageStates, Then(c, q), UNCHANGED sessions,
               q.at \in Working => q.session \in DOMAIN sessions
        PROVE  /\ stage' \in [Calls -> StageStates]
               /\ \A d \in Calls : stage'[d].at \in Working => stage'[d].session \in DOMAIN sessions'
    <3>1. /\ stage' \in [Calls -> StageStates] /\ stage'[c] = q
          /\ \A d \in Calls \ {c} : stage'[d] = stage[d]
      BY <1>0, <2>m, ThenMoves
    <3> QED BY <3>1, <2>m DEF AccessTypes
  <2>o. Out \in StageStates /\ Out.at \notin Working
    BY DEF Out, StageStates, Working
  <2>1. CASE incr(c)
    <3> DEFINE q == [at |-> IF window.hits = 0 THEN "first" ELSE "counted", hits |-> window.hits + 1]
    <3>1. q \in StageStates /\ q.at \notin Working
      <4>1. window.hits + 1 \in Nat
        BY DEF AccessTypes, Windows
      <4> QED BY <4>1 DEF StageStates, Working
    <3>2. /\ stage' \in [Calls -> StageStates]
          /\ \A d \in Calls : stage'[d].at \in Working => stage'[d].session \in DOMAIN sessions'
      BY <2>1, <2>m, <3>1 DEF incr
    <3>3. window' \in Windows
      BY <2>1, WindowsStay DEF incr, AccessTypes
    <3>4. requests' \in Nat
      BY <2>1 DEF incr, AccessTypes
    <3> QED BY <2>1, <3>2, <3>3, <3>4 DEF incr, AccessTypes
  <2>2. CASE pexpire(c)
    <3> DEFINE q == [stage[c] EXCEPT !.at = "counted"]
    <3>1. q \in StageStates /\ q.at \notin Working
      BY <2>2, <1>0 DEF pexpire, In, StageStates, Working, Signing
    <3> QED BY <2>2, <2>m, <3>1, WindowsStay DEF pexpire, AccessTypes
  <2>3. CASE Admit(c)
    <3>1. [at |-> "admitted"] \in StageStates /\ "admitted" \notin Working
      BY DEF StageStates, Working
    <3> QED BY <2>3, <2>m, <2>o, <3>1 DEF Admit, AccessTypes
  <2>4. CASE FailOpen(c)
    <3>1. [at |-> "admitted"] \in StageStates /\ "admitted" \notin Working
      BY DEF StageStates, Working
    <3>2. /\ stage' \in [Calls -> StageStates]
          /\ \A d \in Calls : stage'[d].at \in Working => stage'[d].session \in DOMAIN sessions'
      BY <2>4, <2>m, <3>1 DEF FailOpen
    <3>3. window' \in Windows
      BY <2>4, WindowsStay DEF FailOpen, AccessTypes
    <3>4. errors' \in Nat
      BY <2>4 DEF FailOpen, AccessTypes
    <3> QED BY <2>4, <3>2, <3>3, <3>4 DEF FailOpen, AccessTypes
  <2>5. CASE RequestFails(c)
    <3>1. raced' \subseteq Nat
      BY <2>5, <1>0, StageDomains DEF RequestFails, AccessTypes, StageStates, Working, Signing
    <3>2. /\ stage' \in [Calls -> StageStates]
          /\ \A d \in Calls : stage'[d].at \in Working => stage'[d].session \in DOMAIN sessions'
      BY <2>5, <2>m, <2>o DEF RequestFails
    <3>3. window' \in Windows
      BY <2>5, WindowsStay DEF RequestFails, AccessTypes
    <3>4. errors' \in Nat
      BY <2>5 DEF RequestFails, AccessTypes
    <3> QED BY <2>5, <3>1, <3>2, <3>3, <3>4 DEF RequestFails, AccessTypes
  <2>6. CASE login(c)
    <3>1. [at |-> "signedIn", with |-> {}] \in StageStates /\ "signedIn" \notin Working
      BY DEF StageStates, Working, Signing
    <3> QED BY <2>6, <2>m, <3>1 DEF login, AccessTypes
  <2>7. CASE createSession(c)
    <3>1. Len(sessions) \in Nat /\ [status |-> "ACTIVE", token |-> Pending] \in SessionRows
      BY DEF AccessTypes, SessionRows, Pending
    <3>2. sessions' \in Seq(SessionRows) /\ Len(sessions') = Len(sessions) + 1
      BY <2>7, <3>1, AppendProperties DEF createSession, AccessTypes
    <3>3. given' \in Seq(Seq(Nat)) /\ Len(given') = Len(given) + 1
      BY <2>7, EmptySeq, AppendProperties DEF createSession, AccessTypes
    <3>4. DOMAIN sessions = 1 .. Len(sessions) /\ DOMAIN sessions' = 1 .. Len(sessions) + 1
      BY <3>2 DEF AccessTypes
    <3> DEFINE q == [at |-> "issue", session |-> Len(sessions) + 1]
    <3>5. q \in StageStates
      BY <3>1 DEF StageStates
    <3>6. /\ stage' \in [Calls -> StageStates] /\ stage'[c] = q
          /\ \A d \in Calls \ {c} : stage'[d] = stage[d]
      BY <2>7, <1>0, <3>5, ThenMoves DEF createSession
    <3>7. \A d \in Calls : stage'[d].at \in Working => stage'[d].session \in DOMAIN sessions'
      <4>1. q.session \in DOMAIN sessions' /\ DOMAIN sessions \subseteq DOMAIN sessions'
        BY <3>1, <3>4
      <4>2. \A d \in Calls : stage[d].at \in Working => stage[d].session \in DOMAIN sessions
        BY DEF AccessTypes
      <4> QED BY <4>1, <4>2, <3>6
    <3>8. signIns' \in [Nonces -> Nat]
      BY <2>7 DEF createSession, AccessTypes
    <3> QED BY <2>7, <3>2, <3>3, <3>6, <3>7, <3>8 DEF createSession, AccessTypes
  <2>8. CASE issueRefreshToken(c)
    <3> DEFINE q == [at |-> "rotate", session |-> stage[c].session, token |-> second]
    <3>1. stage[c].at \in Working /\ stage[c].session \in Nat
      BY <2>8, <1>0 DEF issueRefreshToken, In, StageStates, Working, Signing
    <3>2. q \in StageStates
      BY <3>1 DEF AccessTypes, StageStates
    <3> QED BY <2>8, <2>m, <3>1, <3>2 DEF issueRefreshToken, AccessTypes
  <2>9. CASE updateSessionRefreshHash(c)
    <3> DEFINE q == [stage[c] EXCEPT !.at = "answer"]
               i == stage[c].session
               r == [sessions[i] EXCEPT !.token = stage[c].token]
    <3>1. /\ stage[c] \in [at : {"rotate", "answer"}, session : Nat, token : Nat]
          /\ i \in DOMAIN sessions
      BY <2>9, <1>0 DEF updateSessionRefreshHash, Rotate, In, AccessTypes, StageStates, Working, Signing
    <3>2. q \in StageStates /\ q.at = "answer" /\ q.session = i
      BY <3>1 DEF StageStates
    <3>3. i \in 1 .. Len(sessions) /\ sessions[i] \in SessionRows
      BY <3>1, ElementOfSeq, LenProperties DEF AccessTypes
    <3>4. r \in SessionRows
      BY <3>1, <3>3 DEF SessionRows
    <3>5. sessions' = [sessions EXCEPT ![i] = r]
      BY <2>9 DEF updateSessionRefreshHash, Rotate
    <3>6. sessions' \in Seq(SessionRows) /\ Len(sessions') = Len(sessions)
      BY <3>3, <3>4, <3>5, ExceptSeq DEF AccessTypes
    <3>7. DOMAIN sessions' = DOMAIN sessions
      BY <3>6, LenProperties DEF AccessTypes
    <3>8. /\ stage' \in [Calls -> StageStates] /\ stage'[c] = q
          /\ \A d \in Calls \ {c} : stage'[d] = stage[d]
      BY <2>9, <1>0, <3>2, ThenMoves DEF updateSessionRefreshHash, Rotate
    <3>9. \A d \in Calls : stage'[d].at \in Working => stage'[d].session \in DOMAIN sessions'
      BY <3>1, <3>2, <3>7, <3>8 DEF AccessTypes
    <3> QED BY <2>9, <3>6, <3>8, <3>9 DEF updateSessionRefreshHash, Rotate, AccessTypes
  <2>10. CASE Answer(c)
    <3> DEFINE i == stage[c].session
    <3>1. /\ stage[c] \in [at : {"rotate", "answer"}, session : Nat, token : Nat]
          /\ i \in DOMAIN sessions
      BY <2>10, <1>0 DEF Answer, In, AccessTypes, StageStates, Working, Signing
    <3>2. i \in 1 .. Len(given) /\ given[i] \in Seq(Nat)
      BY <3>1, ElementOfSeq, LenProperties DEF AccessTypes
    <3>3. Append(given[i], stage[c].token) \in Seq(Nat)
      BY <3>1, <3>2, AppendProperties
    <3>4. given' \in Seq(Seq(Nat)) /\ Len(given') = Len(given)
      BY <2>10, <3>2, <3>3, ExceptSeq DEF Answer, AccessTypes
    <3> QED BY <2>10, <2>m, <2>o, <3>4 DEF Answer, AccessTypes
  <2>11. ASSUME NEW s \in DOMAIN sessions, NEW at \in {"issue", "revoke"},
                Then(c, [at |-> at, session |-> s]) \/ Then(c, Out), raced' = raced \/ raced' = raced \cup {s},
                UNCHANGED <<second, sessions, given, walletVars, window, requests, errors>>
         PROVE  AccessTypes'
    <3>1. s \in Nat
      BY <2>11, LenProperties DEF AccessTypes
    <3>2. [at |-> at, session |-> s] \in StageStates
      BY <3>1 DEF StageStates
    <3>3. /\ stage' \in [Calls -> StageStates]
          /\ \A d \in Calls : stage'[d].at \in Working => stage'[d].session \in DOMAIN sessions'
      BY <2>11, <2>m, <2>o, <3>2
    <3>4. raced' \subseteq Nat
      BY <2>11, <3>1 DEF AccessTypes
    <3> QED BY <2>11, <3>3, <3>4 DEF AccessTypes
  <2>12. CASE \E s \in DOMAIN sessions : \E t \in GivenTokens(s) : findSession(c, s, t) \/ logout(c, s, t)
    <3>1. PICK s \in DOMAIN sessions : \E t \in GivenTokens(s) : findSession(c, s, t) \/ logout(c, s, t)
      BY <2>12
    <3>2. \E at \in {"issue", "revoke"} : Then(c, [at |-> at, session |-> s]) \/ Then(c, Out)
      BY <3>1 DEF findSession, logout
    <3>3. /\ raced' = raced \/ raced' = raced \cup {s}
          /\ UNCHANGED <<second, sessions, given, walletVars, window, requests, errors>>
      BY <3>1 DEF findSession, logout, Race
    <3> QED BY <2>11, <3>2, <3>3
  <2>13. CASE revokeSession(c)
    <3> DEFINE i == stage[c].session
               r == [sessions[i] EXCEPT !.status = "REVOKED"]
    <3>1. stage[c].at \in Working /\ i \in DOMAIN sessions
      BY <2>13 DEF revokeSession, In, AccessTypes, Working
    <3>3. i \in 1 .. Len(sessions) /\ sessions[i] \in SessionRows
      BY <3>1, ElementOfSeq, LenProperties DEF AccessTypes
    <3>4. r \in SessionRows
      BY <3>1, <3>3 DEF SessionRows
    <3>5. sessions' = [sessions EXCEPT ![i] = r]
      BY <2>13 DEF revokeSession
    <3>6. sessions' \in Seq(SessionRows) /\ Len(sessions') = Len(sessions)
      BY <3>3, <3>4, <3>5, ExceptSeq DEF AccessTypes
    <3>7. DOMAIN sessions' = DOMAIN sessions
      BY <3>6, LenProperties DEF AccessTypes
    <3>8. /\ stage' \in [Calls -> StageStates] /\ stage'[c] = Out
          /\ \A d \in Calls \ {c} : stage'[d] = stage[d]
      BY <2>13, <1>0, <2>o, ThenMoves DEF revokeSession
    <3>9. \A d \in Calls : stage'[d].at \in Working => stage'[d].session \in DOMAIN sessions'
      BY <2>o, <3>7, <3>8 DEF AccessTypes
    <3> QED BY <2>13, <3>6, <3>8, <3>9 DEF revokeSession, AccessTypes
  <2>14. CASE verifyWallet(c)
    <3>1. \A at \in {"signedIn", "create"} :
            [stage[c] EXCEPT !.at = at] \in StageStates /\ at \notin Working
      BY <2>14, <1>0 DEF verifyWallet, In, StageStates, Working, Signing
    <3>2. \E q \in StageStates : q.at \notin Working /\ Then(c, q)
      <4>1. CASE Then(c, Out)
        BY <4>1, <2>o
      <4>2. ASSUME NEW at \in {"signedIn", "create"}, Then(c, [stage[c] EXCEPT !.at = at])
            PROVE  \E q \in StageStates : q.at \notin Working /\ Then(c, q)
        <5>1. [stage[c] EXCEPT !.at = at].at = at
          BY <2>14, <1>0 DEF verifyWallet, In, StageStates, Signing
        <5> QED BY <3>1, <4>2, <5>1
      <4> QED BY <2>14, <4>1, <4>2 DEF verifyWallet
    <3> QED BY <2>14, <2>m, <3>2 DEF verifyWallet, AccessTypes
  <2>15. CASE createWalletUser(c)
    <3>1. [stage[c] EXCEPT !.at = "signedIn"] \in StageStates /\ "signedIn" \notin Working
      BY <2>15, <1>0 DEF createWalletUser, In, StageStates, Working, Signing
    <3>2. [stage[c] EXCEPT !.at = "signedIn"].at = "signedIn"
      BY <2>15, <1>0 DEF createWalletUser, In, StageStates, Signing
    <3>3. \E q \in StageStates : q.at \notin Working /\ Then(c, q)
      BY <2>15, <2>o, <3>1, <3>2 DEF createWalletUser
    <3>4. wallet' \in [rows : Nat, users : Nat]
      BY <2>15 DEF createWalletUser, AccessTypes
    <3> QED BY <2>15, <2>m, <3>3, <3>4 DEF createWalletUser, AccessTypes
  <2>16. ASSUME NEW n \in Nonces, createWalletNonce(c, n) PROVE AccessTypes'
    BY <2>16, <2>m, <2>o DEF createWalletNonce, AccessTypes
  <2>17. ASSUME NEW n \in Nonces, consumeWalletNonce(c, n) PROVE AccessTypes'
    <3>1. [at |-> "verify", with |-> {n}] \in StageStates /\ "verify" \notin Working
      BY DEF StageStates, Working, Signing
    <3> QED BY <2>17, <2>m, <3>1 DEF consumeWalletNonce, AccessTypes
  <2> QED BY <1>c, <2>1, <2>2, <2>3, <2>4, <2>5, <2>6, <2>7, <2>8, <2>9, <2>10, <2>12, <2>13,
             <2>14, <2>15, <2>16, <2>17 DEF AccessStep, LimiterStep
<1> QED BY <1>t, <1>w, <1>e, <1>c DEF AccessNext

(* A nonce is taken by one request, that signs in once with it.              *)
LEMMA NonceStep ==
  ASSUME AccessInv, AccessNext
  PROVE  NonceSpent'
<1> USE DEF sessionRows, walletVars
<1>0. /\ AccessTypes /\ NonceSpent
      /\ stage \in [Calls -> StageStates]
      /\ \A c \in Calls : stage[c] \in StageStates
  BY DEF AccessInv, AccessTypes
<1>1. ASSUME UNCHANGED <<stage, nonce, signIns>> PROVE NonceSpent'
  BY <1>0, <1>1 DEF NonceSpent, Carries
<1>t. ASSUME Tick \/ WindowEnds PROVE NonceSpent'
  BY <1>1, <1>t DEF Tick, WindowEnds
<1>e. ASSUME NEW n \in Nonces, NonceExpires(n) PROVE NonceSpent'
  <2>1. /\ stage' = stage /\ signIns' = signIns
        /\ \A m \in Nonces : nonce'[m] # "gone" => nonce[m] # "gone"
    BY <1>e, <1>0 DEF NonceExpires, AccessTypes
  <2> QED BY <1>0, <2>1 DEF NonceSpent, Carries
<1>c. ASSUME NEW c \in Calls, AccessStep(c) PROVE NonceSpent'
  <2>m. ASSUME NEW q, Then(c, q), UNCHANGED <<nonce, signIns>>, q.at \notin Signing PROVE NonceSpent'
    BY <2>m, NoncesStay
  <2>o. Out.at \notin Signing
    BY DEF Out, Signing
  <2>1. CASE incr(c)
    BY <2>1, <2>m DEF incr, Signing
  <2>2. CASE pexpire(c)
    <3>1. [stage[c] EXCEPT !.at = "counted"].at \notin Signing
      BY <2>2, <1>0 DEF pexpire, In, StageStates, Signing
    <3> QED BY <2>2, <2>m, <3>1 DEF pexpire
  <2>3. CASE Admit(c)
    BY <2>3, <2>m, <2>o DEF Admit, Signing
  <2>4. CASE FailOpen(c)
    BY <2>4, <2>m DEF FailOpen, Signing
  <2>5. CASE RequestFails(c)
    BY <2>5, <2>m, <2>o DEF RequestFails
  <2>6. CASE login(c)
    BY <2>6, NoncesStay DEF login
  <2>7. CASE createSession(c)
    <3>1. /\ stage[c].at = "signedIn"
          /\ \A d \in Calls, n \in Nonces : Carries(d, n)' => Carries(d, n) /\ d # c
      BY <2>7, <1>0 DEF createSession, In, Then, Carries, Signing
    <3>2. /\ nonce' = nonce
          /\ \A n \in Nonces : signIns'[n] = IF Carries(c, n) THEN signIns[n] + 1 ELSE signIns[n]
      BY <2>7, <3>1, <1>0 DEF createSession, AccessTypes, Carries, Signing
    <3>3. \A n \in Nonces : Carries(c, n) =>
            nonce[n] = "gone" /\ signIns[n] = 0 /\ \A d \in Calls \ {c} : ~Carries(d, n)
      BY <1>0 DEF NonceSpent
    <3> QED BY <1>0, <3>1, <3>2, <3>3 DEF NonceSpent
  <2>8. CASE issueRefreshToken(c)
    BY <2>8, <2>m DEF issueRefreshToken, Signing
  <2>9. CASE updateSessionRefreshHash(c)
    <3>1. [stage[c] EXCEPT !.at = "answer"].at \notin Signing
      BY <2>9, <1>0 DEF updateSessionRefreshHash, Rotate, In, StageStates, Signing
    <3> QED BY <2>9, <2>m, <3>1 DEF updateSessionRefreshHash, Rotate
  <2>10. CASE Answer(c)
    BY <2>10, <2>m, <2>o DEF Answer
  <2>12. CASE \E s \in DOMAIN sessions : \E t \in GivenTokens(s) : findSession(c, s, t) \/ logout(c, s, t)
    <3>1. PICK s \in DOMAIN sessions : \E t \in GivenTokens(s) : findSession(c, s, t) \/ logout(c, s, t)
      BY <2>12
    <3>2. /\ \/ Then(c, [at |-> "issue", session |-> s]) \/ Then(c, [at |-> "revoke", session |-> s])
             \/ Then(c, Out)
          /\ UNCHANGED <<nonce, signIns>>
      BY <3>1 DEF findSession, logout
    <3> QED BY <2>m, <2>o, <3>2 DEF Signing
  <2>13. CASE revokeSession(c)
    BY <2>13, <2>m, <2>o DEF revokeSession
  <2>14. CASE verifyWallet(c)
    <3>1. ASSUME NEW at \in {"signedIn", "create"}, Then(c, [stage[c] EXCEPT !.at = at]) PROVE NonceSpent'
      <4>1. [stage[c] EXCEPT !.at = at].with = stage[c].with /\ stage[c].at \in Signing
        BY <2>14, <1>0 DEF verifyWallet, In, StageStates, Signing
      <4> QED BY <2>14, <3>1, <4>1, NoncesStay DEF verifyWallet, Carries
    <3> QED BY <2>14, <2>m, <2>o, <3>1 DEF verifyWallet
  <2>15. CASE createWalletUser(c)
    <3>1. [stage[c] EXCEPT !.at = "signedIn"].with = stage[c].with /\ stage[c].at \in Signing
      BY <2>15, <1>0 DEF createWalletUser, In, StageStates, Signing
    <3> QED BY <2>15, <2>m, <2>o, <3>1, NoncesStay DEF createWalletUser, Carries
  <2>16. ASSUME NEW n \in Nonces, createWalletNonce(c, n) PROVE NonceSpent'
    <3>1. \A m \in Nonces : nonce'[m] # "gone" => nonce[m] # "gone"
      BY <2>16, <1>0 DEF createWalletNonce, AccessTypes
    <3>2. \A d \in Calls, m \in Nonces : Carries(d, m)' => Carries(d, m)
      BY <2>16, <2>o, <1>0 DEF createWalletNonce, Then, Carries
    <3> QED BY <2>16, <1>0, <3>1, <3>2 DEF createWalletNonce, NonceSpent
  <2>17. ASSUME NEW n \in Nonces, consumeWalletNonce(c, n) PROVE NonceSpent'
    <3>1. signIns' = signIns /\ \A m \in Nonces : nonce'[m] = IF m = n THEN "gone" ELSE nonce[m]
      BY <2>17, <1>0 DEF consumeWalletNonce, AccessTypes
    <3>2. signIns[n] = 0 /\ \A d \in Calls : ~Carries(d, n)
      BY <2>17, <1>0 DEF consumeWalletNonce, NonceSpent
    <3>3. \A d \in Calls, m \in Nonces : Carries(d, m)' => Carries(d, m) \/ (d = c /\ m = n)
      BY <2>17, <1>0 DEF consumeWalletNonce, Then, Carries
    <3>4. ~Carries(c, n)' \/ \A m \in Nonces \ {n} : ~Carries(c, m)'
      BY <2>17, <1>0 DEF consumeWalletNonce, Then, Carries
    <3> QED BY <1>0, <3>1, <3>2, <3>3, <3>4 DEF NonceSpent
  <2> QED BY <1>c, <2>1, <2>2, <2>3, <2>4, <2>5, <2>6, <2>7, <2>8, <2>9, <2>10, <2>12, <2>13,
             <2>14, <2>15, <2>16, <2>17 DEF AccessStep, LimiterStep
<1> QED BY <1>t, <1>e, <1>c DEF AccessNext

LEMMA WalletStep ==
  ASSUME AccessTypes, OneWallet, AccessNext
  PROVE  OneWallet'
<1>1. wallet' = wallet \/ wallet' = [rows |-> 1, users |-> 1]
  <2>1. ASSUME NEW c \in Calls, AccessStep(c)
        PROVE  wallet' = wallet \/ wallet' = [rows |-> 1, users |-> 1]
    BY <2>1 DEF AccessStep, LimiterStep, incr, pexpire, Admit, FailOpen, RequestFails, login, createSession,
         issueRefreshToken, updateSessionRefreshHash, Rotate, Answer, findSession, logout, revokeSession,
         verifyWallet, createWalletUser, createWalletNonce, consumeWalletNonce, walletVars
  <2> QED BY <2>1 DEF AccessNext, Tick, WindowEnds, NonceExpires, walletVars
<1> QED BY <1>1 DEF OneWallet

(* The token a session holds is the one its user gets, or has got.           *)
LEMMA TokenStep ==
  ASSUME AccessInv, AccessTypes', AccessNext
  PROVE  TokensKept'
<1> USE DEF sessionRows, walletVars
<1>0. /\ AccessTypes /\ \A s \in DOMAIN sessions \ raced : TokenKept(s)
      /\ stage \in [Calls -> StageStates] /\ stage' \in [Calls -> StageStates]
      /\ \A c \in Calls : stage[c] \in StageStates
  BY DEF AccessInv, AccessTypes, TokensKept
<1>k. /\ \A d \in Calls : \A s : Works(d, s) <=> stage[d].at \in Working /\ stage[d].session = s
      /\ \A d \in Calls : \A s : Works(d, s)' <=> stage'[d].at \in Working /\ stage'[d].session = s
  BY <1>0, StageDomains DEF Works
<1>1. ASSUME UNCHANGED <<stage, sessions, given, raced>> PROVE TokensKept'
  BY <1>0, <1>1 DEF TokensKept, TokenKept, Newest, Works
<1>t. ASSUME Tick \/ WindowEnds \/ \E n \in Nonces : NonceExpires(n) PROVE TokensKept'
  BY <1>1, <1>t DEF Tick, WindowEnds, NonceExpires
<1>c. ASSUME NEW c \in Calls, AccessStep(c) PROVE TokensKept'
  <2>0. \A q : Then(c, q) => stage'[c] = q /\ \A d \in Calls \ {c} : stage'[d] = stage[d]
    BY <1>0 DEF Then
  <2>m. ASSUME NEW q, Then(c, q), UNCHANGED sessionRows, stage[c].at \notin Working, q.at \notin Working
        PROVE  TokensKept'
    <3>1. \A s : ~Works(c, s) /\ ~Works(c, s)'
      BY <1>k, <2>0, <2>m
    <3> QED BY <1>0, <2>0, <2>m, <3>1, TokensElsewhere DEF TokensKept
  <2>o. Out.at \notin Working
    BY DEF Out, Working
  <2>1. CASE incr(c)
    BY <2>1, <2>m DEF incr, In, Working
  <2>2. CASE pexpire(c)
    <3>1. [stage[c] EXCEPT !.at = "counted"].at \notin Working
      BY <2>2, <1>0 DEF pexpire, In, StageStates, Working, Signing
    <3> QED BY <2>2, <2>m, <3>1 DEF pexpire, In, Working
  <2>3. CASE Admit(c)
    BY <2>3, <2>m, <2>o DEF Admit, In, Working
  <2>4. CASE FailOpen(c)
    BY <2>4, <2>m DEF FailOpen, In, Working
  <2>5. CASE RequestFails(c)
    <3>1. Then(c, Out) /\ UNCHANGED <<sessions, given>>
      BY <2>5 DEF RequestFails
    <3>2. /\ raced \subseteq raced'
          /\ \A s : Works(c, s) => s \in raced'
      BY <2>5 DEF RequestFails, Works
    <3>3. \A s : ~Works(c, s)'
      BY <1>k, <2>0, <2>o, <3>1
    <3> QED BY <1>0, <2>0, <3>1, <3>2, <3>3, TokensElsewhere DEF TokensKept
  <2>6. CASE login(c)
    BY <2>6, <2>m DEF login, In, Working
  <2>7. CASE createSession(c)
    <3>n. PICK new : new = Len(sessions) + 1
      OBVIOUS
    <3>1. /\ stage'[c] = [at |-> "issue", session |-> new] /\ stage[c].at = "signedIn"
          /\ \A d \in Calls \ {c} : stage'[d] = stage[d]
      BY <2>7, <2>0, <3>n DEF createSession, In
    <3>2. /\ DOMAIN sessions = 1 .. Len(sessions) /\ DOMAIN sessions' = 1 .. new /\ Len(sessions) \in Nat
          /\ \A s \in DOMAIN sessions : sessions'[s] = sessions[s] /\ given'[s] = given[s]
      BY <2>7, <1>0, <3>n, AppendProperties, LenProperties DEF createSession, AccessTypes
    <3>3. raced' = raced /\ DOMAIN sessions' = DOMAIN sessions \cup {new}
      BY <2>7, <3>n, <3>2 DEF createSession
    <3>4. ASSUME NEW s \in DOMAIN sessions \ raced PROVE TokenKept(s)'
      <4>1. ~Works(c, s) /\ ~Works(c, s)'
        BY <3>n, <1>k, <3>1, <3>2 DEF Working
      <4> QED BY <1>0, <3>1, <3>2, <3>4, <4>1, TokensElsewhere
    <3>5. \A d \in Calls \ {c} : ~Works(d, new)'
      <4>1. \A d \in Calls : stage[d].at \in Working => stage[d].session \in DOMAIN sessions
        BY <1>0 DEF AccessTypes
      <4>2. new \notin DOMAIN sessions
        BY <3>n, <3>2
      <4> QED BY <1>k, <3>1, <4>1, <4>2
    <3>6. TokenKept(new)'
      BY <1>k, <3>1, <3>5 DEF TokenKept, Working
    <3> QED BY <3>n, <3>2, <3>3, <3>4, <3>6 DEF TokensKept
  <2>s. ASSUME NEW s0, stage[c].session = s0, UNCHANGED raced, stage[c].at \in Working,
               stage'[c].at \in Working => stage'[c].session = s0,
               \A d \in Calls \ {c} : stage'[d] = stage[d], DOMAIN sessions' = DOMAIN sessions,
               \A s \in DOMAIN sessions \ {s0} : sessions'[s] = sessions[s] /\ given'[s] = given[s],
               s0 \in DOMAIN sessions \ raced => TokenKept(s0)'
        PROVE  TokensKept'
    <3>1. ASSUME NEW s \in DOMAIN sessions \ raced, s # s0 PROVE TokenKept(s)'
      <4>1. ~Works(c, s) /\ ~Works(c, s)'
        BY <1>k, <2>s, <3>1
      <4> QED BY <1>0, <2>s, <3>1, <4>1, TokensElsewhere
    <3> QED BY <2>s, <3>1 DEF TokensKept
  <2>8. CASE issueRefreshToken(c)
    <3>s. PICK s0 : s0 = stage[c].session
      OBVIOUS
    <3>1. /\ stage[c].at = "issue" /\ stage'[c] = [at |-> "rotate", session |-> s0, token |-> second]
          /\ \A d \in Calls \ {c} : stage'[d] = stage[d] /\ UNCHANGED <<sessions, given, raced>>
      BY <2>8, <2>0, <3>s DEF issueRefreshToken, In
    <3>2. UNCHANGED <<sessions, given, raced>>
      BY <2>8 DEF issueRefreshToken
    <3>3. \A d \in Calls : Works(d, s0)' <=> Works(d, s0)
      BY <1>k, <3>1, <3>s DEF Working
    <3>4. Works(c, s0)
      BY <1>k, <3>1, <3>s DEF Working
    <3>5. TokenKept(s0) => TokenKept(s0)'
      BY <3>1, <3>2, <3>3, <3>4 DEF TokenKept, Newest
    <3> QED BY <1>0, <2>s, <3>s, <3>1, <3>2, <3>5 DEF Working
  <2>9. CASE updateSessionRefreshHash(c)
    <3>s. PICK s0 : s0 = stage[c].session
      OBVIOUS
    <3>1. /\ stage[c].at = "rotate" /\ stage[c] \in [at : {"rotate", "answer"}, session : Nat, token : Nat]
          /\ s0 \in DOMAIN sessions
      BY <2>9, <1>0, <3>s DEF updateSessionRefreshHash, Rotate, In, StageStates, Signing, AccessTypes, Working
    <3>2. /\ stage'[c] = [stage[c] EXCEPT !.at = "answer"]
          /\ \A d \in Calls \ {c} : stage'[d] = stage[d]
          /\ UNCHANGED <<given, raced>>
      BY <2>9, <2>0 DEF updateSessionRefreshHash, Rotate
    <3>3. stage'[c].at = "answer" /\ stage'[c].session = s0 /\ stage'[c].token = stage[c].token
      BY <3>1, <3>2, <3>s
    <3>4. /\ DOMAIN sessions' = DOMAIN sessions /\ sessions'[s0].token = stage[c].token
          /\ \A s \in DOMAIN sessions \ {s0} : sessions'[s] = sessions[s]
      <4>1. sessions[s0] \in SessionRows
        BY <1>0, <3>1, ElementOfSeq, LenProperties DEF AccessTypes
      <4> QED BY <2>9, <3>1, <4>1, <3>s DEF updateSessionRefreshHash, Rotate, SessionRows
    <3>5. \A d \in Calls : Works(d, s0)' <=> Works(d, s0)
      BY <1>k, <3>1, <3>2, <3>3, <3>s DEF Working
    <3>6. Works(c, s0)
      BY <1>k, <3>1, <3>s DEF Working
    <3>7. TokenKept(s0) => TokenKept(s0)'
      BY <3>3, <3>4, <3>5, <3>6 DEF TokenKept
    <3> QED BY <1>0, <2>s, <3>s, <3>1, <3>2, <3>3, <3>4, <3>7 DEF Working
  <2>10. CASE Answer(c)
    <3>s. PICK s0 : s0 = stage[c].session
      OBVIOUS
    <3>1. /\ stage[c].at = "answer" /\ stage[c] \in [at : {"rotate", "answer"}, session : Nat, token : Nat]
          /\ s0 \in DOMAIN sessions
      BY <2>10, <1>0, <3>s DEF Answer, In, StageStates, Signing, AccessTypes, Working
    <3>2. /\ stage'[c] = Out
          /\ \A d \in Calls \ {c} : stage'[d] = stage[d]
          /\ UNCHANGED <<sessions, raced>>
      BY <2>10, <2>0 DEF Answer
    <3>3. s0 \in 1 .. Len(given) /\ given[s0] \in Seq(Nat) /\ stage[c].token \in Nat
      BY <1>0, <3>1, ElementOfSeq, LenProperties DEF AccessTypes
    <3>4. /\ given'[s0] = Append(given[s0], stage[c].token)
          /\ \A s \in DOMAIN sessions \ {s0} : given'[s] = given[s]
      BY <2>10, <1>0, <3>3, LenProperties, <3>s DEF Answer, AccessTypes
    <3>5. given'[s0] # <<>> /\ given'[s0][Len(given'[s0])] = stage[c].token
      <4> DEFINE old == given[s0]
                 new == Append(old, stage[c].token)
      <4>1. old \in Seq(Nat) /\ stage[c].token \in Nat /\ given'[s0] = new
        BY <3>3, <3>4
      <4> HIDE DEF old
      <4>2. new # <<>> /\ new[Len(new)] = stage[c].token
        <5>1. new # <<>> /\ Len(new) = Len(old) + 1 /\ new[Len(old) + 1] = stage[c].token
          BY <4>1, AppendProperties
        <5> HIDE DEF new
        <5> QED BY <5>1
      <4> QED BY <4>1, <4>2
    <3>6. ASSUME TokenKept(s0) PROVE TokenKept(s0)'
      <4>1. Works(c, s0) /\ ~Works(c, s0)'
        BY <1>k, <2>o, <3>1, <3>2, <3>s DEF Working
      <4>2. \A d \in Calls : ~Works(d, s0)'
        BY <1>k, <3>2, <3>6, <4>1 DEF TokenKept
      <4>3. sessions[s0].token = stage[c].token
        BY <3>1, <3>6, <4>1, <3>s DEF TokenKept
      <4> QED BY <3>2, <3>5, <4>2, <4>3 DEF TokenKept, Newest
    <3> QED BY <1>0, <2>o, <2>s, <3>s, <3>1, <3>2, <3>4, <3>6 DEF Working
  <2>12. CASE \E s \in DOMAIN sessions : \E t \in GivenTokens(s) : findSession(c, s, t) \/ logout(c, s, t)
    <3>1. PICK s0 \in DOMAIN sessions : \E t \in GivenTokens(s0) : findSession(c, s0, t) \/ logout(c, s0, t)
      BY <2>12
    <3>2. /\ \/ /\ \/ Then(c, [at |-> "issue", session |-> s0])
                   \/ Then(c, [at |-> "revoke", session |-> s0])
                /\ Race(c, s0)
             \/ Then(c, Out) /\ UNCHANGED raced
          /\ UNCHANGED <<sessions, given>> /\ stage[c].at = "admitted"
      BY <3>1 DEF findSession, logout, In
    <3>3. raced \subseteq raced' /\ \A s : ~Works(c, s)
      BY <1>k, <3>2 DEF Race, Working
    <3>4. /\ \A d \in Calls \ {c} : stage'[d] = stage[d]
          /\ stage'[c] \in {[at |-> "issue", session |-> s0], [at |-> "revoke", session |-> s0], Out}
      BY <2>0, <3>2
    <3>5. ASSUME NEW s \in DOMAIN sessions \ raced', ~Works(c, s)' PROVE TokenKept(s)'
      BY <1>0, <3>2, <3>3, <3>4, <3>5, TokensElsewhere
    <3>6. ASSUME NEW s \in DOMAIN sessions \ raced', Works(c, s)' PROVE TokenKept(s)'
      <4>1. s = s0 /\ Race(c, s0)
        BY <1>k, <2>0, <2>o, <3>2, <3>6
      <4>2. \A d \in Calls : ~Works(d, s)
        BY <3>3, <3>6, <4>1 DEF Race
      <4>3. Newest(s) /\ Newest(s)'
        BY <1>0, <3>2, <3>3, <3>6, <4>2 DEF TokenKept, Newest
      <4>4. \A d \in Calls : Works(d, s)' => d = c
        BY <1>k, <3>4, <4>2
      <4>5. stage'[c].at # "answer"
        BY <3>4 DEF Out
      <4> QED BY <3>6, <4>3, <4>4, <4>5 DEF TokenKept
    <3> QED BY <3>2, <3>5, <3>6 DEF TokensKept
  <2>13. CASE revokeSession(c)
    <3>s. PICK s0 : s0 = stage[c].session
      OBVIOUS
    <3>1. stage[c].at = "revoke" /\ s0 \in DOMAIN sessions
      BY <2>13, <1>0, <3>s DEF revokeSession, In, AccessTypes, Working
    <3>2. /\ stage'[c] = Out
          /\ \A d \in Calls \ {c} : stage'[d] = stage[d]
          /\ UNCHANGED <<given, raced>>
      BY <2>13, <2>0 DEF revokeSession
    <3>3. /\ DOMAIN sessions' = DOMAIN sessions /\ sessions'[s0].token = sessions[s0].token
          /\ \A s \in DOMAIN sessions \ {s0} : sessions'[s] = sessions[s]
      <4>1. sessions[s0] \in SessionRows
        BY <1>0, <3>1, ElementOfSeq, LenProperties DEF AccessTypes
      <4> QED BY <2>13, <3>1, <4>1, <3>s DEF revokeSession, SessionRows
    <3>4. ASSUME TokenKept(s0) PROVE TokenKept(s0)'
      <4>1. Works(c, s0) /\ ~Works(c, s0)'
        BY <1>k, <2>o, <3>1, <3>2, <3>s DEF Working
      <4>2. \A d \in Calls : ~Works(d, s0)'
        BY <1>k, <3>2, <3>4, <4>1 DEF TokenKept
      <4>3. Newest(s0)
        BY <3>1, <3>4, <4>1 DEF TokenKept
      <4> QED BY <3>2, <3>3, <4>2, <4>3 DEF TokenKept, Newest
    <3> QED BY <1>0, <2>o, <2>s, <3>s, <3>1, <3>2, <3>3, <3>4 DEF Working
  <2>14. CASE verifyWallet(c)
    <3>1. ASSUME NEW at \in {"signedIn", "create"}, Then(c, [stage[c] EXCEPT !.at = at]) PROVE TokensKept'
      <4>1. [stage[c] EXCEPT !.at = at].at = at
        BY <2>14, <1>0 DEF verifyWallet, In, StageStates, Signing
      <4> QED BY <2>14, <2>m, <3>1, <4>1 DEF verifyWallet, In, Working
    <3> QED BY <2>14, <2>m, <2>o, <3>1 DEF verifyWallet, In, Working
  <2>15. CASE createWalletUser(c)
    <3>1. [stage[c] EXCEPT !.at = "signedIn"].at = "signedIn"
      BY <2>15, <1>0 DEF createWalletUser, In, StageStates, Signing
    <3> QED BY <2>15, <2>m, <2>o, <3>1 DEF createWalletUser, In, Working
  <2>16. ASSUME NEW n \in Nonces, createWalletNonce(c, n) PROVE TokensKept'
    BY <2>16, <2>m, <2>o DEF createWalletNonce, In, Working
  <2>17. ASSUME NEW n \in Nonces, consumeWalletNonce(c, n) PROVE TokensKept'
    BY <2>17, <2>m DEF consumeWalletNonce, In, Working
  <2> QED BY <1>c, <2>1, <2>2, <2>3, <2>4, <2>5, <2>6, <2>7, <2>8, <2>9, <2>10, <2>12, <2>13,
             <2>14, <2>15, <2>16, <2>17 DEF AccessStep, LimiterStep
<1> QED BY <1>t, <1>c DEF AccessNext

LEMMA AccessInvariant == AccessSpec => []AccessInv
<1>1. ASSUME AccessInv, [AccessNext]_accessVars PROVE AccessInv'
  <2>1. CASE AccessNext
    <3>1. AccessTypes'
      BY <1>1, <2>1, AccessStepTypes DEF AccessInv
    <3>2. NonceSpent' /\ TokensKept'
      BY <1>1, <2>1, <3>1, NonceStep, TokenStep
    <3>3. OneWallet'
      BY <1>1, <2>1, WalletStep DEF AccessInv
    <3> QED BY <3>1, <3>2, <3>3 DEF AccessInv
  <2>2. CASE UNCHANGED accessVars
    BY <1>1, <2>2 DEF accessVars, sessionRows, walletVars, AccessInv, AccessTypes, NonceSpent, OneWallet,
       TokensKept, TokenKept, Newest, Carries, Works
  <2> QED BY <1>1, <2>1, <2>2
<1> QED BY <1>1, AccessInitInv, PTL DEF AccessSpec

(* A user who does one thing at a time with a session holds, in the token he *)
(* was given last, the one that refreshes it (issueSessionForUser, refresh   *)
(* and logout of auth.service.ts).                                           *)
THEOREM LastTokenRefreshes == AccessSpec => []LastTokenWorks
<1>1. AccessInv => LastTokenWorks
  BY DEF AccessInv, TokensKept, TokenKept, Newest, LastTokenWorks
<1> QED BY <1>1, AccessInvariant, PTL

(* A nonce signs in once, whoever carries it, and a wallet has one user      *)
(* (consumeWalletNonce and verifyWallet of auth.service.ts).                 *)
THEOREM NonceSignsInOnce == AccessSpec => []WalletSignsInOnce
<1>1. ASSUME AccessInv PROVE WalletSignsInOnce
  <2>0. NonceSpent /\ OneWallet /\ signIns \in [Nonces -> Nat]
    BY <1>1 DEF AccessInv, AccessTypes
  <2>1. ASSUME NEW n \in Nonces
        PROVE  signIns[n] + Cardinality({c \in Calls : stage[c].at \in {"verify", "create", "signedIn"}
                                                       /\ n \in stage[c].with}) <= 1
    <3> DEFINE H == {c \in Calls : stage[c].at \in {"verify", "create", "signedIn"} /\ n \in stage[c].with}
    <3>1. \A c : c \in H <=> c \in Calls /\ Carries(c, n)
      BY DEF Carries, Signing
    <3>h. signIns[n] \in Nat /\ signIns[n] <= 1
      BY <2>0 DEF NonceSpent
    <3>2. CASE H = {}
      <4>1. Cardinality(H) = 0
        BY <3>2, FS_EmptySet
      <4> QED BY <3>h, <4>1
    <3>3. CASE H # {}
      <4>1. PICK c \in H : TRUE
        BY <3>3
      <4>2. signIns[n] = 0 /\ H = {c}
        BY <2>0, <3>1, <4>1 DEF NonceSpent
      <4>3. Cardinality(H) = 1
        BY <4>2, FS_Singleton
      <4> QED BY <4>2, <4>3
    <3> QED BY <3>2, <3>3
  <2> QED BY <2>0, <2>1 DEF OneWallet, WalletSignsInOnce
<1> QED BY <1>1, AccessInvariant, PTL

-----------------------------------------------------------------------------
(* ReadinessReports.                                                         *)

Contents == SUBSET Findings
LinkRows == [report : Nat, revoked : BOOLEAN, expired : BOOLEAN]

(* A number is that of a report there is, a document the one its report was  *)
(* written with.                                                             *)
CallFits(q) ==
  \/ q \in [at : {"free", "audit"}]
  \/ /\ \/ q \in [at : {"files", "number"}, content : Contents, hiddenThen : Contents]
        \/ q.at = "create"
     /\ q.content \in Contents /\ q.content \cap q.hiddenThen = {}
  \/ /\ \/ q \in [at : {"pay", "export"}, report : Nat, format : Formats]
        \/ q \in [at : {"exported"}, report : Nat, format : Formats, content : Contents]
           /\ q.content = reports[q.report].content
        \/ q \in [at : {"entitled"}, report : Nat]
     /\ q.report \in DOMAIN reports
  \/ q \in [at : {"found"}, link : Nat, revoked : BOOLEAN] /\ q.link \in DOMAIN links

ReportTypes ==
  /\ hidden \in Contents
  /\ call = [c \in Callers |-> call[c]] /\ \A c \in Callers : CallFits(call[c])
  /\ reports \in Seq({reports[i] : i \in DOMAIN reports})
  /\ links \in Seq(LinkRows) /\ \A l \in DOMAIN links : links[l].report \in DOMAIN reports

(* Written once: what a report holds, what was exported of it and served.    *)
Frozen ==
  /\ \A i \in DOMAIN reports : /\ reports[i].content \in Contents
                               /\ reports[i].content \cap reports[i].hiddenThen = {}
  /\ \A o \in served \cup {e \in exports : e.status = "SUCCEEDED"} :
       o.report \in DOMAIN reports /\ o.content = reports[o.report].content

ReportsInv == ReportTypes /\ Frozen

LEMMA ReportsInitInv == ReportsInit => ReportsInv
BY EmptySeq DEF ReportsInit, ReportsInv, ReportTypes, Frozen, CallFits, Free, Contents

(* Reports and links are added, none is taken away.                          *)
LEMMA CallsFitLater ==
  ASSUME NEW q, CallFits(q),
         \A i \in DOMAIN reports : i \in DOMAIN reports' /\ reports'[i] = reports[i],
         DOMAIN links \subseteq DOMAIN links'
  PROVE  CallFits(q)'
BY DEF CallFits

LEMMA GoFits ==
  ASSUME ReportTypes, NEW c \in Callers, NEW q, Go(c, q), CallFits(q)',
         \A i \in DOMAIN reports : i \in DOMAIN reports' /\ reports'[i] = reports[i],
         DOMAIN links \subseteq DOMAIN links'
  PROVE  call' = [d \in Callers |-> call'[d]] /\ \A d \in Callers : CallFits(call[d])'
<1>1. call'[c] = q /\ \A d \in Callers \ {c} : call'[d] = call[d]
  BY DEF Go, ReportTypes
<1>2. \A d \in Callers \ {c} : CallFits(call[d])'
  BY <1>1, CallsFitLater DEF ReportTypes
<1>3. call' = [d \in Callers |-> call'[d]]
  BY DEF Go, ReportTypes
<1> QED BY <1>1, <1>2, <1>3

(* A call that moves and writes nothing.                                     *)
LEMMA GoOnly ==
  ASSUME ReportsInv, NEW c \in Callers, NEW q, Go(c, q), CallFits(q), UNCHANGED <<hidden, rows>>
  PROVE  ReportsInv'
<1>1. CallFits(q)'
  BY DEF CallFits, rows
<1>2. ReportTypes'
  BY <1>1, GoFits DEF ReportsInv, ReportTypes, rows
<1>3. Frozen'
  BY DEF ReportsInv, Frozen, rows
<1> QED BY <1>2, <1>3 DEF ReportsInv

LEMMA ReportStepInv ==
  ASSUME ReportsInv, NEW c \in Callers, ReportStep(c)
  PROVE  ReportsInv'
<1>0. /\ ReportTypes /\ Frozen /\ CallFits(call[c])
      /\ CallFits(Free) /\ CallFits(Audited) /\ CallFits(Free)' /\ CallFits(Audited)'
  BY DEF ReportsInv, ReportTypes, CallFits, Free, Audited
<1>m. ASSUME NEW q, Go(c, q), CallFits(q), UNCHANGED <<hidden, rows>> PROVE ReportsInv'
  BY <1>m, GoOnly
<1>1. CASE scanForReport(c)
  <2> DEFINE q == [at |-> "files", content |-> buildReportDocument(hidden), hiddenThen |-> hidden]
  <2>1. q \in [at : {"files", "number"}, content : Contents, hiddenThen : Contents]
    BY <1>0 DEF buildReportDocument, Contents, ReportTypes
  <2>2. q.content \cap q.hiddenThen = {}
    BY DEF buildReportDocument
  <2>3. CallFits(q)
    BY <2>1, <2>2 DEF CallFits
  <2> QED BY <1>1, <1>m, <2>3 DEF scanForReport
<1>2. CASE writeArtifacts(c)
  <2>q. PICK q : q = [call[c] EXCEPT !.at = "number"]
    OBVIOUS
  <2>1. call[c] \in [at : {"files", "number"}, content : Contents, hiddenThen : Contents]
        /\ call[c].content \cap call[c].hiddenThen = {}
    BY <1>0, <1>2 DEF writeArtifacts, Does, CallFits
  <2>2. q \in [at : {"files", "number"}, content : Contents, hiddenThen : Contents]
        /\ q.content \cap q.hiddenThen = {}
    BY <2>q, <2>1
  <2>3. CallFits(q) /\ CallFits(q)'
    BY <2>2 DEF CallFits
  <2>4. ReportTypes'
    BY <1>0, <1>2, <2>q, <2>3, GoFits DEF writeArtifacts, ReportTypes
  <2>5. Frozen'
    BY <1>0, <1>2 DEF writeArtifacts, Frozen
  <2> QED BY <2>4, <2>5 DEF ReportsInv
<1>3. CASE nextVersion(c)
  <2>1. call[c].content \in Contents /\ call[c].content \cap call[c].hiddenThen = {}
    BY <1>0, <1>3 DEF nextVersion, Does, CallFits
  <2> DEFINE q == [at |-> "create", content |-> call[c].content, hiddenThen |-> call[c].hiddenThen,
                   version |-> 1 + Max(Versions \cup {0})]
  <2>2. CallFits(q)
    BY <2>1 DEF CallFits
  <2> QED BY <1>3, <1>m, <2>2 DEF nextVersion
<1>4. CASE createReport(c)
  <2>1. call[c].content \in Contents /\ call[c].content \cap call[c].hiddenThen = {}
    BY <1>0, <1>4 DEF createReport, Does, CallFits
  <2>2. PICK new : new = [version |-> call[c].version, content |-> call[c].content,
                          hiddenThen |-> call[c].hiddenThen]
    OBVIOUS
  <2> DEFINE Rows == {reports[i] : i \in DOMAIN reports} \cup {new}
  <2>3. reports \in Seq(Rows) /\ reports' = Append(reports, new)
    BY <1>0, <1>4, <2>2, SeqMonotonic DEF ReportTypes, createReport, Add
  <2>4. /\ DOMAIN reports' = DOMAIN reports \cup {Len(reports) + 1}
        /\ reports'[Len(reports) + 1] = new
        /\ \A i \in DOMAIN reports : i \in DOMAIN reports' /\ reports'[i] = reports[i]
    BY <2>3, AppendProperties, LenProperties
  <2>5. Rows = {reports'[i] : i \in DOMAIN reports'}
    BY <2>4
  <2>6. reports' \in Seq({reports'[i] : i \in DOMAIN reports'})
    BY <2>3, <2>5, AppendProperties
  <2>7. UNCHANGED <<hidden, exports, links, served>>
    BY <1>4 DEF createReport, Add
  <2>8. ReportTypes'
    BY <1>0, <1>4, <2>4, <2>6, <2>7, GoFits DEF createReport, Add, ReportTypes
  <2>9. new.content \in Contents /\ new.content \cap new.hiddenThen = {}
    BY <2>1, <2>2
  <2>10. Frozen'
    BY <1>0, <2>4, <2>7, <2>9 DEF Frozen
  <2> QED BY <2>8, <2>10 DEF ReportsInv
<1>5. CASE VersionTaken(c)
  BY <1>0, <1>5, <1>m DEF VersionTaken
<1>6. CASE PayExport(c)
  <2> DEFINE q == [call[c] EXCEPT !.at = "export"]
  <2>1. call[c] \in [at : {"pay", "export"}, report : Nat, format : Formats]
        /\ call[c].report \in DOMAIN reports
    BY <1>0, <1>6 DEF PayExport, Does, CallFits
  <2>2. q \in [at : {"pay", "export"}, report : Nat, format : Formats] /\ q.report \in DOMAIN reports
    BY <2>1
  <2>3. CallFits(q)
    BY <2>2 DEF CallFits
  <2> QED BY <1>0, <1>6, <1>m, <2>3 DEF PayExport
<1>7. CASE renderExportArtifact(c)
  <2> DEFINE q == [at |-> "exported", report |-> call[c].report, format |-> call[c].format,
                   content |-> reportToDocument(reports[call[c].report])]
  <2>1. call[c] \in [at : {"pay", "export"}, report : Nat, format : Formats]
        /\ call[c].report \in DOMAIN reports
    BY <1>0, <1>7 DEF renderExportArtifact, Does, CallFits
  <2>2. /\ q \in [at : {"exported"}, report : Nat, format : Formats, content : Contents]
        /\ q.content = reports[q.report].content /\ q.report \in DOMAIN reports
    BY <1>0, <2>1 DEF reportToDocument, Frozen
  <2>3. CallFits(q)
    BY <2>2 DEF CallFits
  <2> QED BY <1>7, <1>m, <2>3 DEF renderExportArtifact
<1>8. CASE createExport(c)
  <2>1. ReportTypes'
    BY <1>0, <1>8, GoFits DEF createExport, ReportTypes
  <2>2. ASSUME NEW e \in exports' \ exports, e.status = "SUCCEEDED"
        PROVE  e.report \in DOMAIN reports /\ e.content = reports[e.report].content
    <3>1. /\ Does(c, "exported")
          /\ e = [report |-> call[c].report, format |-> call[c].format,
                  status |-> "SUCCEEDED", content |-> call[c].content]
      BY <1>8, <2>2 DEF createExport
    <3> QED BY <1>0, <3>1 DEF Does, CallFits
  <2>3. Frozen'
    BY <1>0, <1>8, <2>2 DEF createExport, Frozen
  <2> QED BY <2>1, <2>3 DEF ReportsInv
<1>9. CASE createShareLink(c)
  <2>1. call[c].report \in DOMAIN reports /\ call[c].report \in Nat
    BY <1>0, <1>9 DEF createShareLink, Does, CallFits
  <2>2. PICK new : new = [report |-> call[c].report, revoked |-> FALSE, expired |-> FALSE]
    OBVIOUS
  <2>3. new \in LinkRows /\ new.report \in DOMAIN reports
    BY <2>1, <2>2 DEF LinkRows
  <2>4. UNCHANGED <<hidden, reports, exports, served>> /\ (links' = Append(links, new) \/ links' = links)
    BY <1>9, <2>2 DEF createShareLink
  <2>5. /\ links' \in Seq(LinkRows) /\ DOMAIN links \subseteq DOMAIN links'
        /\ \A l \in DOMAIN links' : links'[l].report \in DOMAIN reports
    <3>1. links \in Seq(LinkRows) /\ \A l \in DOMAIN links : links[l].report \in DOMAIN reports
      BY <1>0 DEF ReportTypes
    <3>2. CASE links' = links
      BY <3>1, <3>2
    <3>3. CASE links' = Append(links, new)
      <4>1. /\ links' \in Seq(LinkRows) /\ DOMAIN links' = DOMAIN links \cup {Len(links) + 1}
            /\ links'[Len(links) + 1] = new
            /\ \A l \in DOMAIN links : links'[l] = links[l]
        BY <2>3, <3>1, <3>3, AppendProperties, LenProperties
      <4> QED BY <2>3, <3>1, <4>1
    <3> QED BY <2>4, <3>2, <3>3
  <2>6. Go(c, Free) \/ Go(c, Audited)
    BY <1>9 DEF createShareLink
  <2>7. ReportTypes'
    BY <1>0, <2>4, <2>5, <2>6, GoFits DEF ReportTypes
  <2>8. Frozen'
    BY <1>0, <2>4 DEF Frozen
  <2> QED BY <2>7, <2>8 DEF ReportsInv
<1>10. CASE publicReport(c)
  <2>1. call[c].link \in DOMAIN links
    BY <1>0, <1>10 DEF publicReport, Does, CallFits
  <2>2. ReportTypes'
    BY <1>0, <1>10, GoFits DEF publicReport, ReportTypes
  <2>3. ASSUME NEW o \in served' \ served
        PROVE  o.report \in DOMAIN reports /\ o.content = reports[o.report].content
    BY <1>0, <1>10, <2>1, <2>3 DEF publicReport, ReportTypes
  <2>4. Frozen'
    BY <1>0, <1>10, <2>3 DEF publicReport, Frozen
  <2> QED BY <2>2, <2>4 DEF ReportsInv
<1>11. CASE audit(c)
  BY <1>0, <1>11, <1>m DEF audit
<1>12. CASE CallFails(c)
  BY <1>0, <1>12, <1>m DEF CallFails
<1>13. ASSUME NEW i \in DOMAIN reports,
              share(c, i) \/ revokeShareLinks(c, i) \/ \E format \in Formats : Export(c, i, format)
       PROVE  ReportsInv'
  <2>1. i \in Nat
    BY <1>0, LenProperties DEF ReportTypes
  <2>2. CASE share(c, i)
    <3>1. CallFits([at |-> "entitled", report |-> i])
      BY <2>1 DEF CallFits
    <3> QED BY <1>0, <1>m, <2>2, <3>1 DEF share
  <2>3. CASE revokeShareLinks(c, i)
    <3>1. /\ DOMAIN links = 1 .. Len(links) /\ Len(links) \in Nat
          /\ \A l \in DOMAIN links : links[l] \in LinkRows
      BY <1>0, LenProperties DEF ReportTypes
    <3>2. /\ DOMAIN links' = DOMAIN links
          /\ \A l \in DOMAIN links : links'[l] \in LinkRows /\ links'[l].report = links[l].report
      <4>1. \A r \in LinkRows : [r EXCEPT !.revoked = TRUE] \in LinkRows
                                /\ [r EXCEPT !.revoked = TRUE].report = r.report
        BY DEF LinkRows
      <4> QED BY <2>3, <3>1, <4>1 DEF revokeShareLinks
    <3>3. links' \in [1 .. Len(links) -> LinkRows]
      BY <2>3, <3>1, <3>2 DEF revokeShareLinks
    <3>4. links' \in Seq(LinkRows)
      BY <3>1, <3>3, SeqDef
    <3>5. UNCHANGED <<hidden, reports, exports, served>>
      BY <2>3 DEF revokeShareLinks
    <3>6. ReportTypes'
      BY <1>0, <2>3, <3>2, <3>4, <3>5, GoFits DEF revokeShareLinks, ReportTypes
    <3>7. Frozen'
      BY <1>0, <3>5 DEF Frozen
    <3> QED BY <3>6, <3>7 DEF ReportsInv
  <2>4. ASSUME NEW format \in Formats, Export(c, i, format) PROVE ReportsInv'
    <3>1. CallFits([at |-> "pay", report |-> i, format |-> format])
      BY <2>1 DEF CallFits
    <3> QED BY <1>m, <2>4, <3>1 DEF Export
  <2> QED BY <1>13, <2>2, <2>3, <2>4
<1>14. ASSUME NEW l \in DOMAIN links, findPublic(c, l) PROVE ReportsInv'
  <2>1. l \in Nat /\ links[l] \in LinkRows
    BY <1>0, LenProperties, ElementOfSeq DEF ReportTypes
  <2>2. CallFits([at |-> "found", link |-> l, revoked |-> links[l].revoked])
    BY <2>1 DEF CallFits, LinkRows
  <2> QED BY <1>m, <1>14, <2>2 DEF findPublic
<1> QED BY <1>1, <1>2, <1>3, <1>4, <1>5, <1>6, <1>7, <1>8, <1>9, <1>10, <1>11, <1>12, <1>13, <1>14
       DEF ReportStep

LEMMA ReportsInvariant == ReportsSpec => []ReportsInv
<1>1. ASSUME ReportsInv, [ReportsNext]_reportsVars PROVE ReportsInv'
  <2>0. ReportTypes /\ Frozen
    BY <1>1 DEF ReportsInv
  <2>1. CASE Reviewed
    <3>1. hidden' \in Contents
      BY <2>0, <2>1 DEF Reviewed, ReportTypes, Contents
    <3> QED BY <2>0, <2>1, <3>1 DEF Reviewed, rows, ReportsInv, ReportTypes, Frozen, CallFits
  <2>2. ASSUME NEW l \in DOMAIN links, Expire(l) PROVE ReportsInv'
    <3>1. l \in 1 .. Len(links) /\ links[l] \in LinkRows
      BY <2>0, LenProperties, ElementOfSeq DEF ReportTypes
    <3>2. [links[l] EXCEPT !.expired = TRUE] \in LinkRows
          /\ [links[l] EXCEPT !.expired = TRUE].report = links[l].report
      BY <3>1 DEF LinkRows
    <3>3. links' = [links EXCEPT ![l] = [links[l] EXCEPT !.expired = TRUE]]
      BY <2>2 DEF Expire
    <3>4. links' \in Seq(LinkRows) /\ DOMAIN links' = DOMAIN links
      BY <2>0, <3>1, <3>2, <3>3, ExceptSeq, LenProperties DEF ReportTypes
    <3>5. \A k \in DOMAIN links : links'[k].report = links[k].report
      BY <2>0, <3>2, <3>3 DEF ReportTypes
    <3>6. UNCHANGED <<hidden, call, reports, exports, served>>
      BY <2>2 DEF Expire
    <3> QED BY <2>0, <3>4, <3>5, <3>6 DEF ReportsInv, ReportTypes, Frozen, CallFits
  <2>3. CASE UNCHANGED reportsVars
    BY <2>0, <2>3 DEF reportsVars, ReportsInv, ReportTypes, Frozen, CallFits
  <2> QED BY <1>1, <2>1, <2>2, <2>3, ReportStepInv DEF ReportsNext
<1> QED BY <1>1, ReportsInitInv, PTL DEF ReportsSpec

(* Exports and public pages hold what their report was generated with, and   *)
(* nothing that was suppressed then (exportReport and publicReport of        *)
(* reports.service.ts).                                                      *)
THEOREM ReportsAreFrozen == ReportsSpec => []NeverRehydrated
<1>1. ReportsInv => NeverRehydrated
  BY DEF ReportsInv, Frozen, NeverRehydrated
<1> QED BY <1>1, ReportsInvariant, PTL

-----------------------------------------------------------------------------
(* EvidenceRuns.                                                             *)

Ats == {"pay", "build", "refused", "create", "ask", "output", "persist", "catch", "plan", "finish",
        "execute", "complete", "audit", "done", "lost"}
Verdicts == {"NOT_ASSESSED", "NOT_ELIGIBLE", "TOOL_NOT_INSTALLED", "INCONCLUSIVE", "FAILED", "PASSED"}
Statuses == Verdicts \cup {"NONE", "RUNNING", "PROVIDER_NOT_CONFIGURED", "SUCCEEDED", "TIMEOUT"}
Reads == SUBSET Facts

AnsweredStates ==
  [at : Ats, kind : Kinds, read : Reads, diffs : BOOLEAN, safety : {"SAFE_TO_REVIEW", "UNSAFE"}]

RequestStates ==
  [at : {"idle"}] \cup [at : Ats, kind : Kinds, read : Reads]
    \cup AnsweredStates
    \cup [at : Ats, kind : Kinds, read : Reads, status : {"FAILED", "TIMEOUT"}]
    \cup [at : Ats, kind : Kinds, read : Reads, status : Verdicts \cup {"TIMEOUT"}, verdict : Verdicts,
          output : SUBSET {"stdout", "counterexample"}]

RunRows == [status : Statuses, safety : {"NOT_ASSESSED", "SAFE_TO_REVIEW", "UNSAFE"},
            verdict : Verdicts, reviewed : BOOLEAN, rejected : BOOLEAN]

EvidenceTypes ==
  /\ facts \in Reads
  /\ req \in [Requests -> RequestStates] /\ row \in [Requests -> RunRows]
  /\ parts = [r \in Requests |-> parts[r]] /\ stored = [r \in Requests |-> stored[r]]

(* What a request has written by the time it is where it is.                 *)
BeforeRow(r) ==
  req[r].at \in {"idle", "pay", "build", "refused", "create"} =>
    /\ parts[r] = {} /\ row[r].status = "NONE" /\ row[r].verdict = "NOT_ASSESSED"
    /\ At(r, "create") /\ Is(r, "remediation") => "input" \in stored[r]

Remediating(r) ==
  req[r].at \in {"ask", "output", "persist", "catch"} =>
    /\ Is(r, "remediation") /\ parts[r] = {} /\ "input" \in stored[r]
    /\ row[r].status = "RUNNING" /\ row[r].verdict = "NOT_ASSESSED"
    /\ At(r, "persist") => "output" \in stored[r]
    /\ At(r, "catch") => req[r].status \in {"FAILED", "TIMEOUT"}
    /\ At(r, "output") \/ At(r, "persist") => req[r] \in AnsweredStates

Planning(r) ==
  req[r].at \in {"plan", "finish", "execute", "complete"} =>
    /\ ~Is(r, "remediation") /\ parts[r] \subseteq {"plan", "invariantRun"}
    /\ row[r].status = "RUNNING" /\ row[r].verdict = "NOT_ASSESSED"
    /\ At(r, "execute") => Fuzzes(r)

(* A verdict that is about to be written has its artifacts.                  *)
Completing(r) ==
  At(r, "complete") =>
    /\ req[r].verdict \in Verdicts /\ req[r].status \in Verdicts \cup {"TIMEOUT"}
    /\ req[r].output \in SUBSET {"stdout", "counterexample"} /\ req[r].output \subseteq stored[r]
    /\ req[r].verdict = "FAILED" => "counterexample" \in req[r].output
    /\ req[r].verdict = "PASSED" => "stdout" \in req[r].output /\ "counterexample" \notin req[r].output
    /\ req[r].verdict \in {"FAILED", "PASSED"} => Fuzzes(r)

Proven(r) ==
  /\ "suggestion" \in parts[r] <=> row[r].status = "SUCCEEDED"
  /\ "suggestion" \in parts[r] => {"input", "output"} \subseteq stored[r]
  /\ "diffs" \in parts[r] => Known(r, "source")
  /\ row[r].verdict = "FAILED" => "counterexample" \in parts[r] \cap stored[r]
  /\ row[r].verdict = "PASSED" => "stdout" \in stored[r] /\ "counterexample" \notin parts[r]

RequestInv(r) == BeforeRow(r) /\ Remediating(r) /\ Planning(r) /\ Completing(r) /\ Proven(r)
EvidenceInv == EvidenceTypes /\ \A r \in Requests : RequestInv(r)

LEMMA EvidenceInitInv == EvidenceInit => EvidenceInv
<1> SUFFICES ASSUME EvidenceInit PROVE EvidenceInv
  OBVIOUS
<1>1. NoRow \in RunRows /\ Idle \in RequestStates
  BY DEF NoRow, RunRows, Idle, RequestStates, Statuses, Verdicts
<1>2. EvidenceTypes
  BY <1>1 DEF EvidenceInit, EvidenceTypes, Reads
<1>3. ASSUME NEW r \in Requests PROVE RequestInv(r)
  BY DEF EvidenceInit, RequestInv, BeforeRow, Remediating, Planning, Completing, Proven, At, Idle, NoRow
<1> QED BY <1>2, <1>3 DEF EvidenceInv

(* The other requests are where they were.                                   *)
LEMMA OthersStay ==
  ASSUME NEW r \in Requests, RequestInv(r), req'[r] = req[r], row'[r] = row[r],
         parts'[r] = parts[r], stored'[r] = stored[r]
  PROVE  RequestInv(r)'
BY DEF RequestInv, BeforeRow, Remediating, Planning, Completing, Proven, At, Is, Fuzzes, Known

LEMMA RequestMoves ==
  ASSUME EvidenceTypes, NEW r \in Requests, NEW at \in Ats, Goto(r, at), ~At(r, "idle")
  PROVE  /\ req' \in [Requests -> RequestStates]
         /\ req'[r].at = at /\ req'[r].kind = req[r].kind /\ req'[r].read = req[r].read
         /\ \A o \in Requests \ {r} : req'[o] = req[o]
<1>1. req[r] \in RequestStates /\ req[r].at # "idle"
  BY DEF EvidenceTypes, At
<1>2. /\ [req[r] EXCEPT !.at = at] \in RequestStates
      /\ [req[r] EXCEPT !.at = at].at = at
      /\ [req[r] EXCEPT !.at = at].kind = req[r].kind
      /\ [req[r] EXCEPT !.at = at].read = req[r].read
  BY <1>1 DEF RequestStates, AnsweredStates
<1> QED BY <1>2 DEF EvidenceTypes, Goto

LEMMA RowMoves ==
  ASSUME EvidenceTypes, NEW r \in Requests, NEW status \in Statuses, row' = [row EXCEPT ![r].status = status]
  PROVE  /\ row' \in [Requests -> RunRows]
         /\ row'[r].status = status /\ row'[r].verdict = row[r].verdict
         /\ \A o \in Requests \ {r} : row'[o] = row[o]
<1>1. row[r] \in RunRows
  BY DEF EvidenceTypes
<1>2. /\ [row[r] EXCEPT !.status = status] \in RunRows
      /\ [row[r] EXCEPT !.status = status].status = status
      /\ [row[r] EXCEPT !.status = status].verdict = row[r].verdict
  BY <1>1 DEF RunRows
<1> QED BY <1>2 DEF EvidenceTypes

(* Only the request that moves can do harm.                                  *)
LEMMA OneMoves ==
  ASSUME EvidenceInv, EvidenceTypes', NEW r \in Requests, RequestInv(r)',
         \A o \in Requests \ {r} : req'[o] = req[o] /\ row'[o] = row[o]
                                   /\ parts'[o] = parts[o] /\ stored'[o] = stored[o]
  PROVE  EvidenceInv'
<1>1. ASSUME NEW o \in Requests \ {r} PROVE RequestInv(o)'
  BY OthersStay DEF EvidenceInv
<1> QED BY <1>1 DEF EvidenceInv

LEMMA EvidenceStepInv ==
  ASSUME EvidenceInv, NEW r \in Requests, EvidenceStep(r)
  PROVE  EvidenceInv'
<1>0. /\ EvidenceTypes /\ RequestInv(r)
      /\ req[r] \in RequestStates /\ row[r] \in RunRows /\ req[r].at # "idle"
      /\ BeforeRow(r) /\ Remediating(r) /\ Planning(r) /\ Completing(r) /\ Proven(r)
  <2>1. req[r].at # "idle"
    BY DEF EvidenceStep, Pay, RefuseRemediation, WriteInput, WritePlan, createRun, generateJson, WriteOutput,
       persistOutput, failRun, persistSimulationPlan, persistFuzzPlan, PersistParts, FinishSimulation,
       FinishFuzz, RunForge, completeSimulation, completeFuzz, CompleteWith, Audit, At
  <2> QED BY <2>1 DEF EvidenceInv, EvidenceTypes, RequestInv
<1> USE DEF At, Is
<1>g. ASSUME NEW at \in Ats, Goto(r, at)
      PROVE  /\ req' \in [Requests -> RequestStates]
             /\ req'[r].at = at /\ req'[r].kind = req[r].kind /\ req'[r].read = req[r].read
             /\ \A o \in Requests \ {r} : req'[o] = req[o]
  BY <1>0, <1>g, RequestMoves
<1>1. CASE Pay(r)
  <2>1. PICK at \in {"build", "refused"} : Goto(r, at)
    BY <1>1 DEF Pay
  <2>2. at \in Ats /\ UNCHANGED <<facts, row, parts, stored>>
    BY <1>1 DEF Pay, Ats
  <2>3. EvidenceTypes'
    BY <1>0, <1>g, <2>1, <2>2 DEF EvidenceTypes
  <2>4. RequestInv(r)'
    BY <1>0, <1>1, <1>g, <2>1, <2>2 DEF Pay, RequestInv, BeforeRow, Remediating, Planning, Completing, Proven, Known
  <2> QED BY <1>g, <2>1, <2>2, <2>3, <2>4, OneMoves
<1>2. CASE RefuseRemediation(r)
  <2>1. /\ Goto(r, "done") /\ req[r].at = "build" /\ "done" \in Ats /\ UNCHANGED <<facts, parts, stored>>
        /\ \E status \in {"NOT_ELIGIBLE", "PROVIDER_NOT_CONFIGURED"} : row' = [row EXCEPT ![r].status = status]
    BY <1>2 DEF RefuseRemediation, Create, Ats
  <2>2. PICK status \in {"NOT_ELIGIBLE", "PROVIDER_NOT_CONFIGURED"} : row' = [row EXCEPT ![r].status = status]
    BY <2>1
  <2>3. status \in Statuses /\ status # "SUCCEEDED"
    BY DEF Statuses, Verdicts
  <2>4. EvidenceTypes'
    BY <1>0, <1>g, <2>1, <2>2, <2>3, RowMoves DEF EvidenceTypes
  <2>5. RequestInv(r)'
    BY <1>0, <1>g, <2>1, <2>2, <2>3, RowMoves
       DEF RequestInv, BeforeRow, Remediating, Planning, Completing, Proven, Known
  <2>6. \A o \in Requests \ {r} : req'[o] = req[o] /\ row'[o] = row[o]
    BY <1>0, <1>g, <2>1, <2>2, <2>3, RowMoves
  <2> QED BY <2>1, <2>4, <2>5, <2>6, OneMoves
<1>3. CASE WriteInput(r)
  <2>1. /\ Goto(r, "create") /\ req[r].at = "build" /\ req[r].kind = "remediation" /\ "create" \in Ats
        /\ UNCHANGED <<facts, row, parts>> /\ stored' = [stored EXCEPT ![r] = @ \cup {"input"}]
    BY <1>3 DEF WriteInput, Ats
  <2>2. /\ stored' = [o \in Requests |-> stored'[o]] /\ stored'[r] = stored[r] \cup {"input"}
        /\ \A o \in Requests \ {r} : stored'[o] = stored[o]
    BY <1>0, <2>1 DEF EvidenceTypes
  <2>3. EvidenceTypes'
    BY <1>0, <1>g, <2>1, <2>2 DEF EvidenceTypes
  <2>4. RequestInv(r)'
    BY <1>0, <1>g, <2>1, <2>2 DEF RequestInv, BeforeRow, Remediating, Planning, Completing, Proven, Known
  <2> QED BY <1>g, <2>1, <2>2, <2>3, <2>4, OneMoves
<1>4. CASE WritePlan(r)
  <2>1. PICK more : stored' = [stored EXCEPT ![r] = @ \cup {"plan"} \cup more]
    BY <1>4 DEF WritePlan
  <2>2. /\ Goto(r, "create") /\ req[r].at = "build" /\ req[r].kind # "remediation" /\ "create" \in Ats
        /\ UNCHANGED <<facts, row, parts>>
    BY <1>0, <1>4 DEF WritePlan, Ats
  <2>3. /\ stored' = [o \in Requests |-> stored'[o]] /\ stored[r] \subseteq stored'[r]
        /\ \A o \in Requests \ {r} : stored'[o] = stored[o]
    BY <1>0, <2>1 DEF EvidenceTypes
  <2>4. EvidenceTypes'
    BY <1>0, <1>g, <2>2, <2>3 DEF EvidenceTypes
  <2>5. RequestInv(r)'
    BY <1>0, <1>g, <2>2, <2>3 DEF RequestInv, BeforeRow, Remediating, Planning, Completing, Proven, Known
  <2> QED BY <1>g, <2>2, <2>3, <2>4, <2>5, OneMoves
<1>5. CASE createRun(r)
  <2>1. /\ req[r].at = "create" /\ UNCHANGED <<facts, parts, stored>> /\ row' = [row EXCEPT ![r].status = "RUNNING"]
        /\ "RUNNING" \in Statuses /\ {"ask", "plan"} \subseteq Ats
    BY <1>5 DEF createRun, Create, Statuses, Ats
  <2>2. Goto(r, IF req[r].kind = "remediation" THEN "ask" ELSE "plan")
    BY <1>0, <1>5 DEF createRun
  <2>3. EvidenceTypes'
    BY <1>0, <1>g, <2>1, <2>2, RowMoves DEF EvidenceTypes
  <2>4. RequestInv(r)'
    BY <1>0, <1>g, <2>1, <2>2, RowMoves
       DEF RequestInv, BeforeRow, Remediating, Planning, Completing, Proven, Known
  <2>5. \A o \in Requests \ {r} : req'[o] = req[o] /\ row'[o] = row[o]
    BY <1>0, <1>g, <2>1, <2>2, RowMoves
  <2> QED BY <2>1, <2>3, <2>4, <2>5, OneMoves
<1>6. ASSUME NEW q \in RequestStates, req' = [req EXCEPT ![r] = q], UNCHANGED <<facts, row, parts, stored>>
      PROVE  /\ EvidenceTypes' /\ req'[r] = q
             /\ RequestInv(r)' => EvidenceInv'
  <2>1. EvidenceTypes' /\ req'[r] = q /\ \A o \in Requests \ {r} : req'[o] = req[o]
    BY <1>0, <1>6 DEF EvidenceTypes
  <2> QED BY <1>6, <2>1, OneMoves
<1>7. CASE generateJson(r)
  <2>1. req[r].at = "ask" /\ req[r].kind \in Kinds /\ req[r].read \in Reads
    BY <1>0, <1>7 DEF generateJson, RequestStates, AnsweredStates
  <2>2. PICK q : /\ req' = [req EXCEPT ![r] = q]
                 /\ \/ \E diffs \in BOOLEAN, safety \in {"SAFE_TO_REVIEW", "UNSAFE"} :
                         q = Answered(req[r], diffs, safety)
                    \/ \E status \in {"FAILED", "TIMEOUT"} : q = Caught(req[r], status)
    BY <1>7 DEF generateJson
  <2>3. /\ q \in RequestStates /\ q.at \in {"output", "catch"} /\ (q.at = "output" => q \in AnsweredStates)
        /\ q.kind = req[r].kind /\ q.read = req[r].read
        /\ q.at = "catch" => q.status \in {"FAILED", "TIMEOUT"}
    BY <2>1, <2>2 DEF Answered, Caught, RequestStates, AnsweredStates, Ats
  <2>4. UNCHANGED <<facts, row, parts, stored>>
    BY <1>7 DEF generateJson
  <2>5. RequestInv(r)'
    BY <1>0, <1>6, <2>1, <2>2, <2>3, <2>4 DEF RequestInv, BeforeRow, Remediating, Planning, Completing, Proven, Known
  <2> QED BY <1>6, <2>2, <2>3, <2>4, <2>5
<1>8. CASE WriteOutput(r)
  <2>1. /\ Goto(r, "persist") /\ req[r].at = "output" /\ "persist" \in Ats
        /\ UNCHANGED <<facts, row, parts>> /\ stored' = [stored EXCEPT ![r] = @ \cup {"output"}]
    BY <1>8 DEF WriteOutput, Ats
  <2>2. /\ stored' = [o \in Requests |-> stored'[o]] /\ stored'[r] = stored[r] \cup {"output"}
        /\ \A o \in Requests \ {r} : stored'[o] = stored[o]
    BY <1>0, <2>1 DEF EvidenceTypes
  <2>3. EvidenceTypes'
    BY <1>0, <1>g, <2>1, <2>2 DEF EvidenceTypes
  <2>4. req'[r] \in AnsweredStates
    <3>1. req[r] \in AnsweredStates
      BY <1>0, <2>1 DEF Remediating
    <3> QED BY <1>0, <2>1, <3>1 DEF AnsweredStates, Goto, EvidenceTypes
  <2>5. RequestInv(r)'
    BY <1>0, <1>g, <2>1, <2>2, <2>4 DEF RequestInv, BeforeRow, Remediating, Planning, Completing, Proven, Known
  <2> QED BY <1>g, <2>1, <2>2, <2>3, <2>5, OneMoves
<1>9. CASE persistOutput(r)
  <2>1. /\ Goto(r, "done") /\ req[r].at = "persist" /\ "done" \in Ats /\ UNCHANGED <<facts, stored>>
        /\ row' = [row EXCEPT ![r].status = "SUCCEEDED", ![r].safety = req[r].safety]
    BY <1>9 DEF persistOutput, Ats
  <2>2. PICK P : /\ parts' = [parts EXCEPT ![r] = P] /\ "suggestion" \in P /\ "counterexample" \notin P
                 /\ "diffs" \in P => Known(r, "source")
    <3> DEFINE P == {"suggestion", "tests", "checklist"} \cup
                      IF req[r].diffs /\ Known(r, "source") THEN {"diffs"} ELSE {}
    <3>1. "suggestion" \in P /\ "counterexample" \notin P /\ ("diffs" \in P => Known(r, "source"))
      OBVIOUS
    <3>2. parts' = [parts EXCEPT ![r] = P]
      BY <1>9 DEF persistOutput
    <3> QED BY <3>1, <3>2
  <2>3. /\ row' = [row EXCEPT ![r] = [row[r] EXCEPT !.status = "SUCCEEDED", !.safety = req[r].safety]]
        /\ [row[r] EXCEPT !.status = "SUCCEEDED", !.safety = req[r].safety] \in RunRows
        /\ [row[r] EXCEPT !.status = "SUCCEEDED", !.safety = req[r].safety].status = "SUCCEEDED"
        /\ [row[r] EXCEPT !.status = "SUCCEEDED", !.safety = req[r].safety].verdict = row[r].verdict
    <3>1. req[r].safety \in {"SAFE_TO_REVIEW", "UNSAFE"} /\ row[r] \in RunRows
      BY <1>0, <2>1 DEF Remediating, AnsweredStates
    <3> QED BY <1>0, <2>1, <3>1 DEF RunRows, Statuses, EvidenceTypes
  <2>4. /\ row' \in [Requests -> RunRows] /\ row'[r].status = "SUCCEEDED" /\ row'[r].verdict = row[r].verdict
        /\ \A o \in Requests \ {r} : row'[o] = row[o]
    BY <1>0, <2>3 DEF EvidenceTypes
  <2>5. /\ parts' = [o \in Requests |-> parts'[o]] /\ parts'[r] = P
        /\ \A o \in Requests \ {r} : parts'[o] = parts[o]
    BY <1>0, <2>2 DEF EvidenceTypes
  <2>6. EvidenceTypes'
    BY <1>0, <1>g, <2>1, <2>4, <2>5 DEF EvidenceTypes
  <2>7. RequestInv(r)'
    BY <1>0, <1>g, <2>1, <2>2, <2>4, <2>5
       DEF RequestInv, BeforeRow, Remediating, Planning, Completing, Proven, Known
  <2> QED BY <1>g, <2>1, <2>4, <2>5, <2>6, <2>7, OneMoves
<1>10. CASE failRun(r)
  <2>1. /\ Goto(r, "done") /\ req[r].at = "catch" /\ "done" \in Ats /\ UNCHANGED <<facts, parts, stored>>
        /\ row' = [row EXCEPT ![r].status = req[r].status]
    BY <1>10 DEF failRun, Ats
  <2>2. req[r].status \in Statuses /\ req[r].status # "SUCCEEDED"
    BY <1>0, <2>1 DEF Remediating, Statuses, Verdicts
  <2>3. EvidenceTypes'
    BY <1>0, <1>g, <2>1, <2>2, RowMoves DEF EvidenceTypes
  <2>4. RequestInv(r)'
    BY <1>0, <1>g, <2>1, <2>2, RowMoves
       DEF RequestInv, BeforeRow, Remediating, Planning, Completing, Proven, Known
  <2>5. \A o \in Requests \ {r} : req'[o] = req[o] /\ row'[o] = row[o]
    BY <1>0, <1>g, <2>1, <2>2, RowMoves
  <2> QED BY <2>1, <2>3, <2>4, <2>5, OneMoves
<1>11. CASE persistSimulationPlan(r) \/ persistFuzzPlan(r)
  <2>1. PICK P \in SUBSET {"plan", "invariantRun"} : PersistParts(r, P)
    BY <1>11 DEF persistSimulationPlan, persistFuzzPlan
  <2>2. /\ Goto(r, "finish") /\ req[r].at = "plan" /\ "finish" \in Ats
        /\ UNCHANGED <<facts, row, stored>>
    BY <2>1 DEF PersistParts, Ats
  <2>3. /\ parts' = [o \in Requests |-> parts'[o]] /\ parts'[r] = P
        /\ \A o \in Requests \ {r} : parts'[o] = parts[o]
    BY <1>0, <2>1 DEF PersistParts, EvidenceTypes
  <2>4. EvidenceTypes'
    BY <1>0, <1>g, <2>2, <2>3 DEF EvidenceTypes
  <2>5. RequestInv(r)'
    BY <1>0, <1>g, <2>2, <2>3
       DEF RequestInv, BeforeRow, Remediating, Planning, Completing, Proven, Known, Fuzzes
  <2> QED BY <1>g, <2>2, <2>3, <2>4, <2>5, OneMoves
<1>12. ASSUME NEW status \in Verdicts \cup {"TIMEOUT"}, NEW verdict \in Verdicts,
              NEW output \in SUBSET {"stdout", "counterexample"}, Settle(r, status, verdict, output),
              req[r].at \in {"finish", "execute"}, UNCHANGED <<facts, row, parts>>,
              stored' = [o \in Requests |-> stored'[o]], stored[r] \subseteq stored'[r], output \subseteq stored'[r],
              \A o \in Requests \ {r} : stored'[o] = stored[o],
              verdict = "FAILED" => "counterexample" \in output,
              verdict = "PASSED" => "stdout" \in output /\ "counterexample" \notin output,
              verdict \in {"FAILED", "PASSED"} => Fuzzes(r)
       PROVE  EvidenceInv'
  <2>1. PICK q : q = [at |-> "complete", kind |-> req[r].kind, read |-> req[r].read,
                      status |-> status, verdict |-> verdict, output |-> output]
    OBVIOUS
  <2>2. req[r].kind \in Kinds /\ req[r].read \in Reads
    BY <1>0 DEF RequestStates, AnsweredStates
  <2>3. q \in RequestStates
    BY <2>1, <2>2 DEF RequestStates, Ats
  <2>4. req' = [req EXCEPT ![r] = q]
    BY <1>12, <2>1 DEF Settle
  <2>5. /\ req' \in [Requests -> RequestStates] /\ req'[r] = q
        /\ \A o \in Requests \ {r} : req'[o] = req[o]
    BY <1>0, <2>3, <2>4 DEF EvidenceTypes
  <2>6. EvidenceTypes'
    BY <1>0, <1>12, <2>5 DEF EvidenceTypes
  <2>7. RequestInv(r)'
    BY <1>0, <1>12, <2>1, <2>5
       DEF RequestInv, BeforeRow, Remediating, Planning, Completing, Proven, Known, Fuzzes
  <2> QED BY <1>12, <2>5, <2>6, <2>7, OneMoves
<1>13. CASE FinishSimulation(r)
  <2>1. PICK s : s = decideSimulation(req[r].read)
    OBVIOUS
  <2>2. s \in Verdicts /\ s \notin {"FAILED", "PASSED"}
    BY <2>1 DEF decideSimulation, Verdicts
  <2>3. Settle(r, s, s, {}) /\ req[r].at = "finish" /\ UNCHANGED <<facts, row, parts, stored>>
    BY <1>13, <2>1 DEF FinishSimulation
  <2> QED BY <1>0, <1>12, <2>2, <2>3 DEF EvidenceTypes
<1>14. CASE FinishFuzz(r)
  <2>1. req[r].at = "finish" /\ Fuzzes(r) /\ UNCHANGED <<facts, row, parts, stored>>
    BY <1>14 DEF FinishFuzz
  <2>2. CASE Goto(r, "execute")
    <3>1. "execute" \in Ats
      BY DEF Ats
    <3>2. EvidenceTypes'
      BY <1>0, <1>g, <2>1, <2>2, <3>1 DEF EvidenceTypes
    <3>3. RequestInv(r)'
      BY <1>0, <1>g, <2>1, <2>2, <3>1
         DEF RequestInv, BeforeRow, Remediating, Planning, Completing, Proven, Known, Fuzzes
    <3> QED BY <1>g, <2>1, <2>2, <3>1, <3>2, <3>3, OneMoves
  <2>3. ASSUME NEW s \in Verdicts, NEW v \in Verdicts \ {"FAILED", "PASSED"}, Settle(r, s, v, {}) PROVE EvidenceInv'
    BY <1>0, <1>12, <2>1, <2>3 DEF EvidenceTypes
  <2>4. FuzzStatus(req[r].read, req[r].kind) \in {"NOT_ELIGIBLE", "TOOL_NOT_INSTALLED", "ELIGIBLE"}
    BY DEF FuzzStatus
  <2>5. {"NOT_ASSESSED", "INCONCLUSIVE"} \subseteq Verdicts \ {"FAILED", "PASSED"}
        /\ {"NOT_ELIGIBLE", "TOOL_NOT_INSTALLED", "NOT_ASSESSED", "INCONCLUSIVE"} \subseteq Verdicts
    BY DEF Verdicts
  <2>6. \/ Goto(r, "execute")
        \/ \E s \in Verdicts, v \in Verdicts \ {"FAILED", "PASSED"} : Settle(r, s, v, {})
    BY <1>14, <2>4, <2>5 DEF FinishFuzz
  <2> QED BY <2>2, <2>3, <2>6
<1>15. CASE RunForge(r)
  <2>1. req[r].at = "execute" /\ UNCHANGED <<facts, row, parts>> /\ Fuzzes(r)
    BY <1>0, <1>15 DEF RunForge, Planning
  <2>2. ASSUME NEW kept, stored' = [stored EXCEPT ![r] = @ \cup kept]
        PROVE  /\ stored' = [o \in Requests |-> stored'[o]] /\ stored'[r] = stored[r] \cup kept
               /\ \A o \in Requests \ {r} : stored'[o] = stored[o]
    BY <1>0, <2>2 DEF EvidenceTypes
  <2>3. ASSUME NEW o \in Outputs,
               LET p == parseFoundryFuzzOutput(o)
                   kept == {"stdout"} \cup IF p.kept THEN {"counterexample"} ELSE {}
               IN stored' = [stored EXCEPT ![r] = @ \cup kept] /\ Settle(r, p.status, p.verdict, kept)
        PROVE  EvidenceInv'
    <3> DEFINE p == parseFoundryFuzzOutput(o)
               kept == {"stdout"} \cup IF p.kept THEN {"counterexample"} ELSE {}
    <3>1. /\ p.status \in Verdicts \cup {"TIMEOUT"} /\ p.verdict \in Verdicts
          /\ p.verdict = "FAILED" => p.kept
          /\ p.verdict = "PASSED" => ~p.kept
      BY DEF parseFoundryFuzzOutput, Verdicts
    <3>2. /\ kept \in SUBSET {"stdout", "counterexample"} /\ "stdout" \in kept
          /\ p.kept <=> "counterexample" \in kept
      OBVIOUS
    <3> HIDE DEF p, kept
    <3>3. stored' = [stored EXCEPT ![r] = @ \cup kept] /\ Settle(r, p.status, p.verdict, kept)
      BY <2>3 DEF p, kept
    <3> QED BY <1>12, <2>1, <2>2, <3>1, <3>2, <3>3
  <2>4. ASSUME NEW kept \in SUBSET {"stdout"}, stored' = [stored EXCEPT ![r] = @ \cup kept],
               Settle(r, "FAILED", "INCONCLUSIVE", {})
        PROVE  EvidenceInv'
    <3>1. "FAILED" \in Verdicts /\ "INCONCLUSIVE" \in Verdicts
      BY DEF Verdicts
    <3>2. stored' = [o \in Requests |-> stored'[o]] /\ stored[r] \subseteq stored'[r]
          /\ \A o \in Requests \ {r} : stored'[o] = stored[o]
      BY <2>2, <2>4
    <3> QED BY <1>12, <2>1, <2>4, <3>1, <3>2
  <2> QED BY <1>15, <2>3, <2>4 DEF RunForge
<1>16. ASSUME NEW P, CompleteWith(r, P), "suggestion" \notin P, "diffs" \notin P,
              "counterexample" \in P <=> "counterexample" \in req[r].output /\ Fuzzes(r)
       PROVE  EvidenceInv'
  <2>1. /\ Goto(r, "audit") /\ req[r].at = "complete" /\ "audit" \in Ats /\ UNCHANGED <<facts, stored>>
        /\ row' = [row EXCEPT ![r].status = req[r].status, ![r].verdict = req[r].verdict]
        /\ parts' = [parts EXCEPT ![r] = @ \cup P]
    BY <1>16 DEF CompleteWith, Ats
  <2>2. req[r].verdict \in Verdicts /\ req[r].status \in Statuses /\ req[r].status # "SUCCEEDED"
    BY <1>0, <2>1 DEF Completing, Statuses, Verdicts
  <2>3. /\ row' \in [Requests -> RunRows] /\ row'[r].status = req[r].status /\ row'[r].verdict = req[r].verdict
        /\ \A o \in Requests \ {r} : row'[o] = row[o]
    <3> DEFINE n == [row[r] EXCEPT !.status = req[r].status, !.verdict = req[r].verdict]
    <3>1. n \in RunRows /\ n.status = req[r].status /\ n.verdict = req[r].verdict
      BY <1>0, <2>2 DEF RunRows
    <3>2. row' = [row EXCEPT ![r] = n]
      BY <1>0, <2>1 DEF EvidenceTypes
    <3> QED BY <1>0, <3>1, <3>2 DEF EvidenceTypes
  <2>4. /\ parts' = [o \in Requests |-> parts'[o]] /\ parts'[r] = parts[r] \cup P
        /\ \A o \in Requests \ {r} : parts'[o] = parts[o]
    BY <1>0, <2>1 DEF EvidenceTypes
  <2>5. EvidenceTypes'
    BY <1>0, <1>g, <2>1, <2>3, <2>4 DEF EvidenceTypes
  <2>6. Proven(r)'
    BY <1>0, <1>g, <1>16, <2>1, <2>2, <2>3, <2>4 DEF Planning, Completing, Proven, Known, Fuzzes
  <2>7. RequestInv(r)'
    BY <1>g, <2>1, <2>6 DEF RequestInv, BeforeRow, Remediating, Planning, Completing
  <2> QED BY <1>g, <2>1, <2>3, <2>4, <2>5, <2>7, OneMoves
<1>17. CASE completeSimulation(r)
  BY <1>16, <1>17 DEF completeSimulation, Fuzzes
<1>18. CASE completeFuzz(r)
  BY <1>16, <1>18, <1>0 DEF completeFuzz, Completing, CompleteWith
<1>19. CASE Audit(r)
  <2>1. Goto(r, "done") /\ req[r].at = "audit" /\ "done" \in Ats /\ UNCHANGED <<facts, row, parts, stored>>
    BY <1>19 DEF Audit, Ats
  <2>2. EvidenceTypes'
    BY <1>0, <1>g, <2>1 DEF EvidenceTypes
  <2>3. RequestInv(r)'
    BY <1>0, <1>g, <2>1 DEF RequestInv, BeforeRow, Remediating, Planning, Completing, Proven, Known
  <2> QED BY <1>g, <2>1, <2>2, <2>3, OneMoves
<1> QED BY <1>1, <1>2, <1>3, <1>4, <1>5, <1>7, <1>8, <1>9, <1>10, <1>11, <1>13, <1>14, <1>15, <1>17, <1>18, <1>19
       DEF EvidenceStep

LEMMA EvidenceInvariant == EvidenceSpec => []EvidenceInv
<1>1. ASSUME EvidenceInv, [EvidenceNext]_evidenceVars PROVE EvidenceInv'
  <2>0. EvidenceTypes /\ \A r \in Requests : RequestInv(r)
    BY <1>1 DEF EvidenceInv
  <2>e. ASSUME facts' \in Reads, UNCHANGED <<req, row, parts, stored>> PROVE EvidenceInv'
    BY <2>0, <2>e, OthersStay DEF EvidenceInv, EvidenceTypes
  <2>1. ASSUME NEW f \in Facts, Learn(f) PROVE EvidenceInv'
    BY <2>0, <2>1, <2>e DEF Learn, EvidenceTypes, Reads
  <2>2. ASSUME NEW r \in Requests, NEW kind \in Kinds, Request(r, kind) PROVE EvidenceInv'
    <3>1. PICK q : req' = [req EXCEPT ![r] = q] /\ q.at = "pay" /\ q \in [at : Ats, kind : Kinds, read : Reads]
      <4> DEFINE context == CASE kind = "remediation" -> RemediationContext
                              [] kind = "simulation" -> SimulationContext
                              [] kind = "fuzz" -> FuzzContext
                              [] kind = "scanFuzz" -> ScanContext
      <4>1. context \in Reads
        BY <2>0 DEF EvidenceTypes, Reads, Kinds, RemediationContext, SimulationContext, FuzzContext, ScanContext
      <4>2. req' = [req EXCEPT ![r] = [at |-> "pay", kind |-> kind, read |-> context]]
        BY <2>2 DEF Request
      <4> HIDE DEF context
      <4> DEFINE q == [at |-> "pay", kind |-> kind, read |-> context]
      <4>3. q.at = "pay" /\ q \in [at : Ats, kind : Kinds, read : Reads]
        BY <4>1 DEF Ats
      <4> QED BY <4>2, <4>3
    <3>2. UNCHANGED <<facts, row, parts, stored>> /\ At(r, "idle")
      BY <2>2 DEF Request
    <3>3. /\ req' \in [Requests -> RequestStates] /\ req'[r] = q
          /\ \A o \in Requests \ {r} : req'[o] = req[o]
      BY <2>0, <3>1 DEF EvidenceTypes, RequestStates
    <3>4. EvidenceTypes'
      BY <2>0, <3>2, <3>3 DEF EvidenceTypes
    <3>5. RequestInv(r)'
      BY <2>0, <3>1, <3>2, <3>3 DEF RequestInv, BeforeRow, Remediating, Planning, Completing, Proven, At
    <3> QED BY <1>1, <3>2, <3>3, <3>4, <3>5, OneMoves
  <2>3. ASSUME NEW r \in Requests, StepFails(r) PROVE EvidenceInv'
    <3>0. /\ UNCHANGED <<facts, row, parts, stored>> /\ ~At(r, "idle") /\ req[r] \in RequestStates
          /\ RequestInv(r)
      BY <2>0, <2>3 DEF StepFails, At, EvidenceTypes
    <3>1. CASE Goto(r, "lost")
      <4>1. "lost" \in Ats
        BY DEF Ats
      <4>2. /\ req' \in [Requests -> RequestStates] /\ req'[r].at = "lost" /\ req'[r].read = req[r].read
            /\ \A o \in Requests \ {r} : req'[o] = req[o]
        BY <2>0, <3>0, <3>1, <4>1, RequestMoves
      <4>3. EvidenceTypes'
        BY <2>0, <3>0, <4>2 DEF EvidenceTypes
      <4>4. RequestInv(r)'
        BY <3>0, <4>2 DEF RequestInv, BeforeRow, Remediating, Planning, Completing, Proven, At, Known
      <4> QED BY <1>1, <3>0, <4>2, <4>3, <4>4, OneMoves
    <3>2. CASE req[r].at \in {"ask", "output", "persist"} /\ req' = [req EXCEPT ![r] = Caught(@, "FAILED")]
      <4>1. req[r].kind \in Kinds /\ req[r].read \in Reads
        BY <3>0, <3>2 DEF RequestStates, AnsweredStates
      <4>2. Caught(req[r], "FAILED") \in RequestStates
        BY <4>1 DEF Caught, RequestStates, Ats
      <4>3. /\ req' \in [Requests -> RequestStates] /\ req'[r] = Caught(req[r], "FAILED")
            /\ \A o \in Requests \ {r} : req'[o] = req[o]
        BY <2>0, <3>2, <4>2 DEF EvidenceTypes
      <4>4. EvidenceTypes'
        BY <2>0, <3>0, <4>3 DEF EvidenceTypes
      <4>5. RequestInv(r)'
        BY <3>0, <3>2, <4>3 DEF RequestInv, BeforeRow, Remediating, Planning, Completing, Proven, At, Is, Known, Caught
      <4> QED BY <1>1, <3>0, <4>3, <4>4, <4>5, OneMoves
    <3> QED BY <2>3, <3>1, <3>2 DEF StepFails
  <2>4. ASSUME NEW r \in Requests, NEW new \in RunRows, row' = [row EXCEPT ![r] = new],
               new.status = row[r].status, new.verdict = row[r].verdict, UNCHANGED <<facts, req, parts, stored>>
        PROVE  EvidenceInv'
    <3>1. /\ row' \in [Requests -> RunRows] /\ row'[r] = new
          /\ \A o \in Requests \ {r} : row'[o] = row[o]
      BY <2>0, <2>4 DEF EvidenceTypes
    <3>2. EvidenceTypes'
      BY <2>0, <2>4, <3>1 DEF EvidenceTypes
    <3>3. RequestInv(r)'
      BY <2>0, <2>4, <3>1
         DEF RequestInv, BeforeRow, Remediating, Planning, Completing, Proven, At, Is, Fuzzes, Known
    <3> QED BY <1>1, <2>4, <3>1, <3>2, <3>3, OneMoves
  <2>5. ASSUME NEW r \in Requests, markReviewed(r) PROVE EvidenceInv'
    <3> DEFINE new == [row[r] EXCEPT !.reviewed = TRUE]
    <3>1. new \in RunRows /\ new.status = row[r].status /\ new.verdict = row[r].verdict
      BY <2>0 DEF EvidenceTypes, RunRows
    <3>2. row' = [row EXCEPT ![r] = new] /\ UNCHANGED <<facts, req, parts, stored>>
      BY <2>5 DEF markReviewed
    <3> QED BY <2>4, <3>1, <3>2
  <2>6. ASSUME NEW r \in Requests, reject(r) PROVE EvidenceInv'
    <3> DEFINE new == [row[r] EXCEPT !.rejected = TRUE, !.safety = "UNSAFE"]
    <3>1. new \in RunRows /\ new.status = row[r].status /\ new.verdict = row[r].verdict
      BY <2>0 DEF EvidenceTypes, RunRows
    <3>2. row' = [row EXCEPT ![r] = new] /\ UNCHANGED <<facts, req, parts, stored>>
      BY <2>0, <2>6 DEF reject, EvidenceTypes
    <3> QED BY <2>4, <3>1, <3>2
  <2>7. ASSUME NEW r \in Requests, NEW what, ReviewRun(r, what) PROVE EvidenceInv'
    BY <2>0, <2>7, <2>e DEF ReviewRun, EvidenceTypes
  <2>8. CASE UNCHANGED evidenceVars
    BY <2>0, <2>8, <2>e DEF evidenceVars, EvidenceTypes
  <2> QED BY <1>1, <2>1, <2>2, <2>3, <2>5, <2>6, <2>7, <2>8, EvidenceStepInv DEF EvidenceNext
<1> QED BY <1>1, EvidenceInitInv, PTL DEF EvidenceSpec

(* What is shown as proven is (the remediation, simulation and fuzzing       *)
(* services): suggestions are of accepted answers, diffs of known source,    *)
(* and what FAILED or PASSED is kept with forge's output.                    *)
THEOREM ProofsAreKept == EvidenceSpec => []ProvenByArtifacts
<1>1. EvidenceInv => ProvenByArtifacts
  BY DEF EvidenceInv, RequestInv, Proven, ProvenByArtifacts
<1> QED BY <1>1, EvidenceInvariant, PTL
=============================================================================
