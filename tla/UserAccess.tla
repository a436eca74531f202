----------------------------- MODULE UserAccess -----------------------------
(* How users reach the API: the fixed window that counts their requests in    *)
(* Redis (redis-fixed-window-rate-limiter.ts), behind it the sessions of      *)
(* auth.service.ts: password and wallet sign-in, refresh tokens that replace  *)
(* each other, logout. One user, who has a password and a wallet.             *)
EXTENDS Naturals, Sequences, FiniteSets

CONSTANTS
  Calls,        \* requests under way at a time
  Nonces,       \* wallet nonces the API makes
  Limit,        \* requests of a window
  MaxRequests,  \* bound: requests
  MaxSeconds,   \* bound: the clock, in seconds
  MaxErrors     \* bound: commands and queries that fail, processes that end

ASSUME AccessAssumption == Limit \in Nat \ {0} /\ {MaxRequests, MaxSeconds, MaxErrors} \subseteq Nat

VARIABLES
  second,    \* the time, as far as a token tells it
  stage,      \* [Calls -> where the request is]
  sessions,  \* rows of Session: status, and the token whose hash they hold
  given,     \* [session -> tokens its user was given, the newest last]
  raced,     \* sessions two requests worked on at a time, or one that failed
  nonce,     \* [Nonces -> "none", "stored" or "gone"]
  signIns,   \* [Nonces -> sessions made with it]
  wallet,    \* rows of Wallet, and those of User made for them
  window,    \* the limiter's key: the requests counted, and whether it expires
  requests, errors

accessVars == <<second, stage, sessions, given, raced, nonce, signIns, wallet, window,
                requests, errors>>
sessionRows == <<sessions, given, raced>>
walletVars == <<nonce, signIns, wallet>>

Out == [at |-> "out"]
Pending == 0  \* the hash of a session that has no token yet

AccessInit ==
  /\ second = 1 /\ stage = [c \in Calls |-> Out]
  /\ sessions = <<>> /\ given = <<>> /\ raced = {}
  /\ nonce = [n \in Nonces |-> "none"] /\ signIns = [n \in Nonces |-> 0]
  /\ wallet = [rows |-> 0, users |-> 0]
  /\ window = [hits |-> 0, expires |-> FALSE, orphan |-> FALSE]
  /\ requests = 0 /\ errors = 0

In(c, at) == stage[c].at = at
Then(c, state) == stage' = [stage EXCEPT ![c] = state]
Works(c, s) == "session" \in DOMAIN stage[c] /\ stage[c].session = s
Race(c, s) == raced' = IF \E d \in Calls \ {c} : Works(d, s) THEN raced \cup {s} ELSE raced

Tick ==
  /\ second < MaxSeconds /\ second' = second + 1
  /\ UNCHANGED <<stage, sessionRows, walletVars, window, requests, errors>>

-----------------------------------------------------------------------------
(* RedisFixedWindowRateLimiter.consume: three commands, one after another.   *)

\* Mutant: whether the window ends is left to Redis.
incrOnly(c) ==
  /\ In(c, "out") /\ requests < MaxRequests /\ requests' = requests + 1
  /\ window' = [window EXCEPT !.hits = @ + 1]
  /\ Then(c, [at |-> "counted", hits |-> window.hits + 1])
  /\ UNCHANGED <<second, sessionRows, walletVars, errors>>

incr(c) ==
  /\ In(c, "out") /\ requests < MaxRequests /\ requests' = requests + 1
  /\ window' = [window EXCEPT !.hits = @ + 1]
  /\ Then(c, [at |-> IF window.hits = 0 THEN "first" ELSE "counted", hits |-> window.hits + 1])
  /\ UNCHANGED <<second, sessionRows, walletVars, errors>>

pexpire(c) ==
  /\ In(c, "first") /\ window' = [window EXCEPT !.expires = TRUE]
  /\ Then(c, [stage[c] EXCEPT !.at = "counted"])
  /\ UNCHANGED <<second, sessionRows, walletVars, requests, errors>>

(* PTTL, and 429 for who came too late.                                      *)
Admit(c) ==
  /\ In(c, "counted")
  /\ Then(c, IF stage[c].hits > Limit THEN Out ELSE [at |-> "admitted"])
  /\ UNCHANGED <<second, sessionRows, walletVars, window, requests, errors>>

WindowEnds ==
  /\ window.expires /\ window' = [hits |-> 0, expires |-> FALSE, orphan |-> FALSE]
  /\ UNCHANGED <<second, stage, sessionRows, walletVars, requests, errors>>

(* A command fails: the store lets the request pass. What was counted stays. *)
FailOpen(c) ==
  /\ In(c, "first") \/ In(c, "counted")
  /\ errors < MaxErrors /\ errors' = errors + 1
  /\ window' = IF In(c, "first") THEN [window EXCEPT !.orphan = TRUE] ELSE window
  /\ Then(c, [at |-> "admitted"])
  /\ UNCHANGED <<second, sessionRows, walletVars, requests>>

-----------------------------------------------------------------------------
(* issueSessionForUser: a row without a token, then the token's hash.        *)

login(c) ==
  /\ In(c, "admitted") /\ Then(c, [at |-> "signedIn", with |-> {}])
  /\ UNCHANGED <<second, sessionRows, walletVars, window, requests, errors>>

createSession(c) ==
  /\ In(c, "signedIn")
  /\ sessions' = Append(sessions, [status |-> "ACTIVE", token |-> Pending])
  /\ given' = Append(given, <<>>)
  /\ signIns' = [n \in Nonces |-> IF n \in stage[c].with THEN signIns[n] + 1 ELSE signIns[n]]
  /\ Then(c, [at |-> "issue", session |-> Len(sessions) + 1])
  /\ UNCHANGED <<second, raced, nonce, wallet, window, requests, errors>>

(* A token is its session and the second it was signed in: two of the same   *)
(* second are one.                                                           *)
issueRefreshToken(c) ==
  /\ In(c, "issue")
  /\ Then(c, [at |-> "rotate", session |-> stage[c].session, token |-> second])
  /\ UNCHANGED <<second, sessionRows, walletVars, window, requests, errors>>

Rotate(c, hash) ==
  /\ In(c, "rotate")
  /\ sessions' = [sessions EXCEPT ![stage[c].session].token = hash]
  /\ Then(c, [stage[c] EXCEPT !.at = "answer"])
  /\ UNCHANGED <<second, given, raced, walletVars, window, requests, errors>>

\* Mutant: the session is touched, its hash kept.
touchOnly(c) == Rotate(c, IF sessions[stage[c].session].token = Pending
                          THEN stage[c].token ELSE sessions[stage[c].session].token)
updateSessionRefreshHash(c) == Rotate(c, stage[c].token)

Answer(c) ==
  /\ In(c, "answer") /\ Then(c, Out)
  /\ given' = [given EXCEPT ![stage[c].session] = Append(@, stage[c].token)]
  /\ UNCHANGED <<second, sessions, raced, walletVars, window, requests, errors>>

-----------------------------------------------------------------------------
(* refresh and logout find the session by the hash of the token.             *)

GivenTokens(s) == {given[s][i] : i \in DOMAIN given[s]}

findSession(c, s, token) ==
  /\ In(c, "admitted") /\ token \in GivenTokens(s)
  /\ IF sessions[s].token = token /\ sessions[s].status = "ACTIVE"
     THEN Then(c, [at |-> "issue", session |-> s]) /\ Race(c, s)
     ELSE Then(c, Out) /\ UNCHANGED raced
  /\ UNCHANGED <<second, sessions, given, walletVars, window, requests, errors>>

logout(c, s, token) ==
  /\ In(c, "admitted") /\ token \in GivenTokens(s)
  /\ IF sessions[s].token = token
     THEN Then(c, [at |-> "revoke", session |-> s]) /\ Race(c, s)
     ELSE Then(c, Out) /\ UNCHANGED raced
  /\ UNCHANGED <<second, sessions, given, walletVars, window, requests, errors>>

revokeSession(c) ==
  /\ In(c, "revoke") /\ Then(c, Out)
  /\ sessions' = [sessions EXCEPT ![stage[c].session].status = "REVOKED"]
  /\ UNCHANGED <<second, given, raced, walletVars, window, requests, errors>>

-----------------------------------------------------------------------------
(* A wallet signs a nonce.                                                   *)

createWalletNonce(c, n) ==
  /\ In(c, "admitted") /\ nonce[n] = "none"
  /\ nonce' = [nonce EXCEPT ![n] = "stored"] /\ Then(c, Out)
  /\ UNCHANGED <<second, sessionRows, signIns, wallet, window, requests, errors>>

NonceExpires(n) ==
  /\ nonce[n] = "stored" /\ nonce' = [nonce EXCEPT ![n] = "gone"]
  /\ UNCHANGED <<second, stage, sessionRows, signIns, wallet, window, requests, errors>>

\* Mutant: GET, and the key is left to expire.
readWalletNonce(c, n) ==
  /\ In(c, "admitted") /\ nonce[n] = "stored" /\ Then(c, [at |-> "verify", with |-> {n}])
  /\ UNCHANGED <<second, sessionRows, walletVars, window, requests, errors>>

(* GETDEL: whoever comes second finds nothing.                               *)
consumeWalletNonce(c, n) ==
  /\ In(c, "admitted") /\ nonce[n] = "stored" /\ nonce' = [nonce EXCEPT ![n] = "gone"]
  /\ Then(c, [at |-> "verify", with |-> {n}])
  /\ UNCHANGED <<second, sessionRows, signIns, wallet, window, requests, errors>>

(* What was signed is verified, then the wallet looked up.                   *)
verifyWallet(c) ==
  /\ In(c, "verify")
  /\ \/ Then(c, Out)
     \/ wallet.rows > 0 /\ Then(c, [stage[c] EXCEPT !.at = "signedIn"])
     \/ wallet.rows = 0 /\ Then(c, [stage[c] EXCEPT !.at = "create"])
  /\ UNCHANGED <<second, sessionRows, walletVars, window, requests, errors>>

(* User and wallet are made in one transaction; an address is unique, so     *)
(* that of two calls that found none one is refused.                         *)
createWalletUser(c) ==
  /\ In(c, "create")
  /\ IF wallet.rows = 0
     THEN /\ wallet' = [rows |-> 1, users |-> 1]
          /\ Then(c, [stage[c] EXCEPT !.at = "signedIn"])
     ELSE UNCHANGED wallet /\ Then(c, Out)
  /\ UNCHANGED <<second, sessionRows, nonce, signIns, window, requests, errors>>

(* A query fails or the process ends: the request is over.                   *)
RequestFails(c) ==
  /\ ~In(c, "out") /\ errors < MaxErrors /\ errors' = errors + 1
  /\ Then(c, Out)
  /\ raced' = IF "session" \in DOMAIN stage[c] THEN raced \cup {stage[c].session} ELSE raced
  /\ window' = IF In(c, "first") THEN [window EXCEPT !.orphan = TRUE] ELSE window
  /\ UNCHANGED <<second, sessions, given, walletVars, requests>>

LimiterStep(c) == pexpire(c) \/ Admit(c)
AccessStep(c) ==
  \/ incr(c) \/ LimiterStep(c) \/ FailOpen(c) \/ RequestFails(c)
  \/ login(c) \/ createSession(c) \/ issueRefreshToken(c) \/ updateSessionRefreshHash(c) \/ Answer(c)
  \/ \E s \in DOMAIN sessions : \E t \in GivenTokens(s) : findSession(c, s, t) \/ logout(c, s, t)
  \/ revokeSession(c) \/ verifyWallet(c) \/ createWalletUser(c)
  \/ \E n \in Nonces : createWalletNonce(c, n) \/ consumeWalletNonce(c, n)

AccessNext ==
  \/ Tick \/ WindowEnds
  \/ \E n \in Nonces : NonceExpires(n)
  \/ \E c \in Calls : AccessStep(c)

(* The commands of a request that is not cut off are executed; a key that    *)
(* expires does.                                                             *)
AccessFairness ==
  /\ WF_accessVars(WindowEnds)
  /\ \A c \in Calls : WF_accessVars(LimiterStep(c))
AccessSpec == AccessInit /\ [][AccessNext]_accessVars /\ AccessFairness

-----------------------------------------------------------------------------
(* A user who does one thing at a time with a session holds, in the token he *)
(* was given last, the one that refreshes it ("refresh token rotation"); no  *)
(* token he held before does, unless it is of the same second.               *)
LastTokenWorks ==
  \A s \in DOMAIN sessions \ raced :
    (\A c \in Calls : ~Works(c, s)) =>
      given[s] # <<>> /\ sessions[s].token = given[s][Len(given[s])]

(* A nonce signs in once, however many requests carry it, and the wallet has *)
(* one user ("wallet nonces are single-use").                                *)
WalletSignsInOnce ==
  /\ \A n \in Nonces : signIns[n] + Cardinality({c \in Calls : stage[c].at \in {"verify", "create", "signedIn"}
                                                               /\ n \in stage[c].with}) <= 1
  /\ wallet.users = wallet.rows /\ wallet.rows <= 1

(* Who was refused for too many requests is admitted again, unless a failure *)
(* left the window without an end.                                           *)
WindowsEnd == (window.hits > Limit) ~> (window.hits <= Limit \/ window.orphan)
=============================================================================
