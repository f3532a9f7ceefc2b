----------------------------- MODULE AuthServer -----------------------------
(***************************************************************************)
(* The server's half of signing in: the challenges of lib/auth/challenge.ts *)
(* and the buckets of lib/security/rateLimit.ts, which live in the memory   *)
(* of one process, and the Session rows of lib/auth/session.ts, which       *)
(* survive it.                                                             *)
(*                                                                         *)
(* A request is served in one step.  The operators below say what serving   *)
(* one does; the module that extends this one says who asks, and when.      *)
(* Time is a clock that the process only reads.                             *)
(***************************************************************************)
EXTENDS Naturals, Sequences

CONSTANTS
  Wallets,         \* wallet addresses
  NoWallet,        \* no account, no address
  ChallengeTTL,    \* CHALLENGE_TTL_MS
  SessionTTL,      \* SESSION_TTL_MS
  ClockSkew,       \* CLOCK_SKEW_MS
  ChallengeLimit,  \* requests admitted in one window of the challenge route
  Window           \* windowMs of the challenge route

ASSUME NoWalletAssumption == NoWallet \notin Wallets
ASSUME TimesAssumption ==
  /\ ChallengeTTL \in Nat /\ SessionTTL \in Nat /\ ClockSkew \in Nat
  /\ ChallengeLimit \in Nat \ {0} /\ Window \in Nat \ {0}

VARIABLES
  now,          \* Date.now()
  challenges,   \* the Map of challenges: a partial function on nonces
  issued,       \* nonces drawn so far; a nonce is its number
  bucket,       \* the caller's bucket for the challenge route
  admitted,     \* history: when this process admitted each challenge request
  grants,       \* history: every session ever created, numbered by its token
  sessions      \* tokens whose Session row exists

serverVars == <<now, challenges, issued, bucket, admitted, grants, sessions>>

Challenge == [address : Wallets, expiresAt : Nat, used : BOOLEAN]
Message == [nonce : Nat, address : Wallets, issuedAt : Nat, expiresAt : Nat]
Grant == [nonce : Nat, signer : Wallets, address : Wallets, expiresAt : Nat]

NoBucket == [count |-> 0, resetAt |-> 0]

(* A fresh process: nothing in memory. *)
EmptyMemory ==
  /\ challenges = << >>
  /\ bucket = NoBucket
  /\ admitted = << >>

ServerInit ==
  /\ now = 0
  /\ issued = 0
  /\ EmptyMemory
  /\ grants = << >>
  /\ sessions = {}

-----------------------------------------------------------------------------
(* rateLimit *)

WindowOver == bucket.resetAt <= now

(* Faulty variant: one too many *)
AdmittingOneMore == WindowOver \/ bucket.count <= ChallengeLimit

Admitting == WindowOver \/ bucket.count < ChallengeLimit

(* Faulty variant: the count of the last window goes on *)
CountWithoutReset ==
  /\ bucket' = [count |-> bucket.count + 1,
                resetAt |-> IF WindowOver THEN now + Window ELSE bucket.resetAt]
  /\ admitted' = Append(admitted, now)

Count ==
  /\ bucket' = [count |-> IF WindowOver THEN 1 ELSE bucket.count + 1,
                resetAt |-> IF WindowOver THEN now + Window ELSE bucket.resetAt]
  /\ admitted' = Append(admitted, now)

-----------------------------------------------------------------------------
(* Challenges.  A message is the challenge as the wallet is shown it: its    *)
(* application binding is the request's own origin and always consistent,    *)
(* its statement, version and chain are constants.                           *)

(* cleanup: what a new challenge leaves of the old ones *)
Live(nonce) == challenges[nonce].expiresAt > now /\ ~challenges[nonce].used

(* createChallenge *)
CreateChallenge(address) ==
  LET nonce == issued + 1
      kept == {n \in DOMAIN challenges : Live(n)}
  IN  /\ issued' = nonce
      /\ challenges' =
           [n \in kept \cup {nonce} |->
              IF n = nonce
              THEN [address |-> address, expiresAt |-> now + ChallengeTTL,
                    used |-> FALSE]
              ELSE challenges[n]]

NewMessage(address) ==
  [nonce |-> issued + 1, address |-> address, issuedAt |-> now,
   expiresAt |-> now + ChallengeTTL]

(* POST /api/auth/challenge, when it admits the caller *)
ServeChallenge(address) ==
  /\ Admitting
  /\ Count
  /\ CreateChallenge(address)
  /\ UNCHANGED <<now, grants, sessions>>

(* The times of the message itself. *)
Timely(message) ==
  /\ message.issuedAt <= now + ClockSkew
  /\ message.expiresAt > now

(* Faulty variant: the challenge of this address is accepted again *)
ConsumableAgain(message) ==
  /\ message.nonce \in DOMAIN challenges
  /\ challenges[message.nonce].expiresAt > now
  /\ challenges[message.nonce].address = message.address

(* consumeChallenge, up to its assignment *)
Consumable(message) ==
  /\ message.nonce \in DOMAIN challenges
  /\ ~challenges[message.nonce].used
  /\ challenges[message.nonce].expiresAt > now
  /\ challenges[message.nonce].address = message.address

Consume(message) ==
  challenges' = [challenges EXCEPT ![message.nonce].used = TRUE]

(* createSession *)
CreateSession(message, signer) ==
  /\ grants' = Append(grants,
                 [nonce |-> message.nonce, signer |-> signer,
                  address |-> message.address, expiresAt |-> now + SessionTTL])
  /\ sessions' = sessions \cup {Len(grants) + 1}

Verifies(message, signer) ==
  Timely(message) /\ Consumable(message) /\ signer = message.address

(* POST /api/auth/verify: verifySignedChallenge, then createSession.  The    *)
(* challenge is spent before the signer is known, also when he is wrong.     *)
ServeVerify(message, signer) ==
  /\ IF Timely(message) /\ Consumable(message)
     THEN Consume(message)
     ELSE UNCHANGED challenges
  /\ IF Verifies(message, signer)
     THEN CreateSession(message, signer)
     ELSE UNCHANGED <<grants, sessions>>
  /\ UNCHANGED <<now, issued, bucket, admitted>>

-----------------------------------------------------------------------------
(* Sessions.  A token is the number of its grant, 0 is no cookie. *)

(* validateSession, as getAuthenticatedActor uses it *)
Valid(token) == token \in sessions /\ grants[token].expiresAt > now

ActorOf(token) == IF Valid(token) THEN grants[token].address ELSE NoWallet

(* GET /api/auth/session: an expired row is deleted when it is met. *)
ServeSession(token) ==
  /\ sessions' = IF Valid(token) THEN sessions ELSE sessions \ {token}
  /\ UNCHANGED <<now, challenges, issued, bucket, admitted, grants>>

(* POST /api/auth/logout: validates, so deletes the row also when expired. *)
ServeLogout(token) ==
  /\ sessions' = sessions \ {token}
  /\ UNCHANGED <<now, challenges, issued, bucket, admitted, grants>>

(* The process restarts: its memory is gone, the database is not. *)
Restart ==
  /\ challenges' = << >>
  /\ bucket' = NoBucket
  /\ admitted' = << >>
  /\ UNCHANGED <<now, issued, grants, sessions>>

Tick ==
  /\ now' = now + 1
  /\ UNCHANGED <<challenges, issued, bucket, admitted, grants, sessions>>

-----------------------------------------------------------------------------
ServerTypeOK ==
  /\ now \in Nat /\ issued \in Nat
  /\ \A n \in DOMAIN challenges : n \in 1..issued /\ challenges[n] \in Challenge
  /\ bucket \in [count : 0..ChallengeLimit, resetAt : Nat]
  /\ admitted \in Seq(Nat)
  /\ grants \in Seq(Grant)
  /\ sessions \subseteq DOMAIN grants

(* Every session stands for one challenge, signed by the wallet that the     *)
(* session is for, and no challenge has ever stood for two: not when the     *)
(* verification is delivered twice, not after a restart that forgot which    *)
(* challenges were used.                                                     *)
SessionsWereSigned ==
  /\ \A t \in DOMAIN grants : grants[t].signer = grants[t].address
  /\ \A s, t \in DOMAIN grants : grants[s].nonce = grants[t].nonce => s = t

(* The fixed window does not promise its limit for every interval of its     *)
(* length, but nearly twice that: a window starts with an admission, so at   *)
(* most one fewer than the limit precede the boundary.  Of any 2 * limit     *)
(* admissions in a row the first and the last are at least a window apart.   *)
BurstBounded ==
  \A i \in DOMAIN admitted :
    LET j == i + 2 * ChallengeLimit - 1
    IN  j \in DOMAIN admitted => admitted[j] >= admitted[i] + Window
=============================================================================
