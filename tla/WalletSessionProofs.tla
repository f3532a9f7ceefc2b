------------------------- MODULE WalletSessionProofs -------------------------
(***************************************************************************)
(* Proofs about WalletSession and the server behind it: for any wallets,    *)
(* lifetimes, limits and window, and without the bounds of the runs.        *)
(***************************************************************************)
EXTENDS WalletSession, SequenceTheorems, TLAPS

-----------------------------------------------------------------------------
(* The server *)

Proven(w) == \E t \in DOMAIN grants : grants[t].address = w

(* The challenge of a session has been issued and, if the process still      *)
(* knows it, it is marked as used.                                          *)
NoncesAreSpent ==
  \A t \in DOMAIN grants :
    /\ grants[t].nonce \in 1..issued
    /\ grants[t].nonce \in DOMAIN challenges => challenges[grants[t].nonce].used

(* The bucket counts the admissions since its window began, which was with    *)
(* an admission; what came a full limit before that had its window over.      *)
WindowsAreCounted ==
  LET n == Len(admitted)
      first == n - bucket.count + 1
  IN  /\ \A i \in 1..n : admitted[i] <= now
      /\ \A i, j \in 1..n : i <= j => admitted[i] <= admitted[j]
      /\ bucket.count <= n
      /\ n = 0 => bucket.resetAt = 0
      /\ n > 0 => /\ bucket.count > 0
                  /\ bucket.resetAt = admitted[first] + Window
                  /\ \A i \in 1..n : i <= first - ChallengeLimit =>
                       admitted[i] + Window <= admitted[first]

ServerInv ==
  ServerTypeOK /\ NoncesAreSpent /\ SessionsWereSigned
  /\ WindowsAreCounted /\ BurstBounded

ServerStep ==
  \/ \E w \in Wallets : ServeChallenge(w)
  \/ \E message, signer : ServeVerify(message, signer)
  \/ \E token : ServeSession(token) \/ ServeLogout(token)
  \/ Restart
  \/ Tick

(* What was granted stays granted. *)
GrantsKept ==
  /\ Len(grants) <= Len(grants')
  /\ \A t \in DOMAIN grants : t \in DOMAIN grants' /\ grants'[t] = grants[t]
  /\ \A w : Proven(w) => Proven(w)'

LEMMA ServerInitOK == ServerInit => ServerInv
<1> SUFFICES ASSUME ServerInit PROVE ServerInv
  OBVIOUS
<1> USE DEF ServerInit, EmptyMemory, NoBucket
<1>1. ServerTypeOK
  <2>1. bucket \in [count : 0..ChallengeLimit, resetAt : Nat]
    BY TimesAssumption
  <2> QED BY <2>1 DEF ServerTypeOK
<1>2. NoncesAreSpent /\ SessionsWereSigned /\ BurstBounded
  BY DEF NoncesAreSpent, SessionsWereSigned, BurstBounded
<1>3. WindowsAreCounted
  BY DEF WindowsAreCounted
<1> QED BY <1>1, <1>2, <1>3 DEF ServerInv

(* An admission, by the bucket's rules, keeps the bucket's counts.           *)
LEMMA CountStep ==
  ASSUME ServerInv, Admitting, Count, now' = now
  PROVE  /\ bucket' \in [count : 0..ChallengeLimit, resetAt : Nat]
         /\ admitted' \in Seq(Nat)
         /\ WindowsAreCounted' /\ BurstBounded'
<1> DEFINE n == Len(admitted)
           c == bucket.count
<1>0. /\ admitted \in Seq(Nat)
      /\ bucket \in [count : 0..ChallengeLimit, resetAt : Nat]
  BY DEF ServerInv, ServerTypeOK
<1>1. now \in Nat
  BY DEF ServerInv, ServerTypeOK
<1>2. /\ n \in Nat /\ c \in 0..ChallengeLimit /\ bucket.resetAt \in Nat
      /\ ChallengeLimit \in Nat \ {0} /\ Window \in Nat \ {0}
  BY <1>0, TimesAssumption
<1>3. /\ admitted' \in Seq(Nat) /\ Len(admitted') = n + 1
      /\ \A i \in 1..n : admitted'[i] = admitted[i]
      /\ admitted'[n + 1] = now
  <2>1. admitted' = Append(admitted, now)
    BY DEF Count
  <2> QED BY <1>0, <1>1, <2>1, AppendProperties
<1>4. \A i \in 1..n : admitted[i] \in Nat
  BY <1>0
<1>5. /\ \A i \in 1..n : admitted[i] <= now
      /\ \A i, j \in 1..n : i <= j => admitted[i] <= admitted[j]
      /\ c <= n
  BY DEF ServerInv, WindowsAreCounted
<1>6. n > 0 => /\ c > 0
               /\ bucket.resetAt = admitted[n - c + 1] + Window
               /\ \A i \in 1..n : i <= n - c + 1 - ChallengeLimit =>
                    admitted[i] + Window <= admitted[n - c + 1]
  BY <1>2 DEF ServerInv, WindowsAreCounted
<1>7. /\ bucket'.count = IF WindowOver THEN 1 ELSE c + 1
      /\ bucket'.resetAt = IF WindowOver THEN now + Window ELSE bucket.resetAt
  BY DEF Count
<1> HIDE DEF n, c
<1>8. bucket' \in [count : 0..ChallengeLimit, resetAt : Nat]
  BY <1>0, <1>1, <1>2 DEF Count, Admitting, c
<1>9. ASSUME WindowOver
      PROVE  /\ WindowsAreCounted'
             /\ \A i \in 1..n : i + 2 * ChallengeLimit - 1 = n + 1 =>
                  now >= admitted[i] + Window
  <2>1. \A i \in 1..n : i <= n + 1 - ChallengeLimit => admitted[i] + Window <= now
    <3> SUFFICES ASSUME NEW i \in 1..n, i <= n + 1 - ChallengeLimit
                 PROVE  admitted[i] + Window <= now
      OBVIOUS
    <3> DEFINE first == n - c + 1
    <3>1. first \in 1..n /\ i <= first
      BY <1>2, <1>5, <1>6
    <3>2. admitted[i] <= admitted[first] /\ admitted[first] + Window <= now
      BY <1>1, <1>2, <1>5, <1>6, <1>9, <3>1 DEF WindowOver
    <3> QED BY <1>1, <1>2, <1>4, <3>1, <3>2
  <2>2. bucket'.count = 1 /\ bucket'.resetAt = now + Window
    BY <1>7, <1>9
  <2>3. WindowsAreCounted'
    <3>1. (n + 1) - 1 + 1 = n + 1 /\ 1 <= n + 1
      BY <1>2
    <3>2. \A i \in 1..(n + 1) : admitted'[i] <= now
      BY <1>1, <1>2, <1>3, <1>5
    <3>3. \A i, j \in 1..(n + 1) : i <= j => admitted'[i] <= admitted'[j]
      BY <1>1, <1>2, <1>3, <1>4, <1>5
    <3>4. \A i \in 1..(n + 1) : i <= (n + 1) - ChallengeLimit =>
            admitted'[i] + Window <= admitted'[n + 1]
      BY <1>2, <1>3, <2>1
    <3> QED BY <1>2, <1>3, <2>2, <3>1, <3>2, <3>3, <3>4 DEF WindowsAreCounted
  <2>4. \A i \in 1..n : i + 2 * ChallengeLimit - 1 = n + 1 => now >= admitted[i] + Window
    BY <1>1, <1>2, <1>4, <2>1
  <2> QED BY <2>3, <2>4
<1>10. ASSUME ~WindowOver
       PROVE  /\ WindowsAreCounted'
              /\ \A i \in 1..n : i + 2 * ChallengeLimit - 1 = n + 1 =>
                   now >= admitted[i] + Window
  <2> DEFINE first == n - c + 1
  <2>1. n > 0
    BY <1>1, <1>2, <1>10 DEF WindowOver, ServerInv, WindowsAreCounted, n
  <2>2. c > 0 /\ c < ChallengeLimit /\ first \in 1..n
    BY <1>2, <1>5, <1>6, <1>10, <2>1 DEF Admitting, c
  <2>3. bucket'.count = c + 1 /\ bucket'.resetAt = bucket.resetAt
    BY <1>7, <1>10
  <2>4. (n + 1) - (c + 1) + 1 = first
    BY <1>2
  <2>5. n + 1 - ChallengeLimit <= n
    BY <1>2
  <2>6. \A i \in 1..n : i <= first - ChallengeLimit => admitted[i] + Window <= admitted[first]
    BY <1>2, <1>6, <2>1
  <2>7. WindowsAreCounted'
    <3>1. bucket'.count <= n + 1 /\ admitted'[first] = admitted[first]
      BY <1>2, <1>3, <1>5, <2>2, <2>3
    <3>2. \A i \in 1..(n + 1) : admitted'[i] <= now
      BY <1>1, <1>2, <1>3, <1>5
    <3>3. \A i, j \in 1..(n + 1) : i <= j => admitted'[i] <= admitted'[j]
      BY <1>1, <1>2, <1>3, <1>4, <1>5
    <3>4. \A i \in 1..(n + 1) : i <= first - ChallengeLimit =>
            admitted'[i] + Window <= admitted'[first]
      <4> SUFFICES ASSUME NEW i \in 1..(n + 1), i <= first - ChallengeLimit
                   PROVE  admitted'[i] + Window <= admitted'[first]
        OBVIOUS
      <4>1. i \in 1..n
        BY <1>2, <2>2
      <4> QED BY <1>3, <2>6, <3>1, <4>1
    <3>5. bucket'.resetAt = admitted'[first] + Window
      BY <1>6, <2>1, <2>3, <3>1
    <3> QED BY <1>2, <1>3, <2>2, <2>3, <2>4, <3>1, <3>2, <3>3, <3>4, <3>5
            DEF WindowsAreCounted
  <2>8. \A i \in 1..n : i + 2 * ChallengeLimit - 1 = n + 1 => now >= admitted[i] + Window
    <3> SUFFICES ASSUME NEW i \in 1..n, i + 2 * ChallengeLimit - 1 = n + 1
                 PROVE  now >= admitted[i] + Window
      OBVIOUS
    <3>1. i <= first - ChallengeLimit
      BY <1>2, <2>2
    <3>2. admitted[i] + Window <= admitted[first] /\ admitted[first] <= now
      BY <1>5, <2>2, <2>6, <3>1
    <3> QED BY <1>1, <1>2, <1>4, <2>2, <3>2
  <2> QED BY <2>7, <2>8
<1>11. WindowsAreCounted'
  BY <1>9, <1>10
<1>12. \A i \in 1..n : i + 2 * ChallengeLimit - 1 = n + 1 => now >= admitted[i] + Window
  BY <1>9, <1>10
<1>13. BurstBounded'
  <2> SUFFICES ASSUME NEW i \in 1..(n + 1),
                      i + 2 * ChallengeLimit - 1 \in 1..(n + 1)
               PROVE  admitted'[i + 2 * ChallengeLimit - 1] >= admitted'[i] + Window
    BY <1>3 DEF BurstBounded
  <2> DEFINE j == i + 2 * ChallengeLimit - 1
  <2>1. i \in 1..n
    BY <1>2
  <2>2. CASE j = n + 1
    BY <1>3, <1>12, <2>1, <2>2
  <2>3. CASE j # n + 1
    <3>1. j \in 1..n
      BY <1>2, <2>3
    <3>2. admitted[j] >= admitted[i] + Window
      BY <1>1, <2>1, <3>1 DEF ServerInv, BurstBounded, n
    <3> QED BY <1>3, <2>1, <3>1, <3>2
  <2> QED BY <2>2, <2>3
<1> QED BY <1>3, <1>8, <1>11, <1>13

-----------------------------------------------------------------------------
(* Every step of the server preserves ServerInv and keeps what it granted.   *)

LEMMA TypedStep ==
  ASSUME ServerInv
  PROVE  /\ now \in Nat /\ issued \in Nat
         /\ \A n \in DOMAIN challenges :
              n \in 1..issued /\ challenges[n] \in Challenge
         /\ grants \in Seq(Grant) /\ Len(grants) \in Nat
         /\ DOMAIN grants = 1..Len(grants)
         /\ \A t \in DOMAIN grants : grants[t] \in Grant
<1>1. ServerTypeOK
  BY DEF ServerInv
<1>2. grants \in Seq(Grant)
  BY <1>1 DEF ServerTypeOK
<1> QED BY <1>1, <1>2 DEF ServerTypeOK

LEMMA ServeChallengeStep ==
  ASSUME ServerInv, NEW w \in Wallets, ServeChallenge(w)
  PROVE  ServerInv' /\ GrantsKept
<1> DEFINE nonce == issued + 1
<1>1. /\ Admitting /\ Count /\ CreateChallenge(w)
      /\ now' = now /\ grants' = grants /\ sessions' = sessions
  BY DEF ServeChallenge
<1>2. /\ bucket' \in [count : 0..ChallengeLimit, resetAt : Nat]
      /\ admitted' \in Seq(Nat)
      /\ WindowsAreCounted' /\ BurstBounded'
  BY <1>1, CountStep
<1>3. /\ issued' = nonce
      /\ DOMAIN challenges' \subseteq DOMAIN challenges \cup {nonce}
      /\ challenges'[nonce] =
           [address |-> w, expiresAt |-> now + ChallengeTTL, used |-> FALSE]
      /\ \A n \in DOMAIN challenges' : n # nonce => challenges'[n] = challenges[n]
  BY <1>1 DEF CreateChallenge, Live
<1>4. challenges'[nonce] \in Challenge
  BY <1>3, TypedStep, TimesAssumption DEF Challenge
<1>5. \A n \in DOMAIN challenges' : n \in 1..issued' /\ challenges'[n] \in Challenge
  BY <1>3, <1>4, TypedStep
<1>6. ServerTypeOK'
  BY <1>1, <1>2, <1>3, <1>5, TypedStep DEF ServerInv, ServerTypeOK
<1>7. NoncesAreSpent'
  BY <1>1, <1>3, TypedStep DEF ServerInv, NoncesAreSpent
<1>8. SessionsWereSigned' /\ GrantsKept
  BY <1>1, TypedStep DEF ServerInv, SessionsWereSigned, GrantsKept, Proven
<1> QED BY <1>2, <1>6, <1>7, <1>8 DEF ServerInv

LEMMA ServeVerifyStep ==
  ASSUME ServerInv, NEW message, NEW signer, ServeVerify(message, signer)
  PROVE  /\ ServerInv' /\ GrantsKept
         /\ Verifies(message, signer) =>
              /\ Len(grants') = Len(grants) + 1
              /\ message.address \in Wallets
              /\ grants'[Len(grants) + 1].address = message.address
              /\ Proven(message.address)'
<1>1. /\ now' = now /\ issued' = issued
      /\ bucket' = bucket /\ admitted' = admitted
  BY DEF ServeVerify
<1>2. /\ DOMAIN challenges' = DOMAIN challenges
      /\ \A n \in DOMAIN challenges :
           /\ challenges'[n] \in Challenge
           /\ challenges[n].used => challenges'[n].used
  <2>1. CASE challenges' = challenges
    BY <2>1, TypedStep
  <2>2. CASE Timely(message) /\ Consumable(message)
    <3>1. challenges' = [challenges EXCEPT ![message.nonce].used = TRUE]
      BY <2>2 DEF ServeVerify, Consume
    <3> QED BY <3>1, TypedStep DEF Challenge
  <2> QED BY <2>1, <2>2 DEF ServeVerify
<1>3. WindowsAreCounted' /\ BurstBounded'
  BY <1>1 DEF ServerInv, WindowsAreCounted, BurstBounded
<1>4. CASE ~Verifies(message, signer)
  <2>1. grants' = grants /\ sessions' = sessions
    BY <1>4 DEF ServeVerify
  <2>2. ServerTypeOK'
    BY <1>1, <1>2, <2>1, TypedStep DEF ServerInv, ServerTypeOK
  <2>3. NoncesAreSpent'
    BY <1>1, <1>2, <2>1 DEF ServerInv, NoncesAreSpent
  <2>4. SessionsWereSigned' /\ GrantsKept
    BY <2>1, TypedStep DEF ServerInv, SessionsWereSigned, GrantsKept, Proven
  <2> QED BY <1>3, <1>4, <2>2, <2>3, <2>4 DEF ServerInv
<1>5. CASE Verifies(message, signer)
  <2> DEFINE grant == [nonce |-> message.nonce, signer |-> signer,
                       address |-> message.address, expiresAt |-> now + SessionTTL]
             k == Len(grants) + 1
  <2>1. /\ message.nonce \in DOMAIN challenges
        /\ ~challenges[message.nonce].used
        /\ challenges[message.nonce].address = message.address
        /\ signer = message.address
    BY <1>5 DEF Verifies, Consumable
  <2>2. message.nonce \in 1..issued /\ message.address \in Wallets
    BY <2>1, TypedStep DEF Challenge
  <2>3. grant \in Grant
    BY <2>1, <2>2, TypedStep, TimesAssumption DEF Grant
  <2>4. grants' = Append(grants, grant) /\ sessions' = sessions \cup {k}
    BY <1>5 DEF ServeVerify, CreateSession
  <2>5. /\ grants' \in Seq(Grant) /\ Len(grants') = k /\ DOMAIN grants' = 1..k
        /\ \A t \in 1..Len(grants) : grants'[t] = grants[t]
        /\ grants'[k] = grant
    <3>1. /\ Append(grants, grant) \in Seq(Grant)
          /\ Len(Append(grants, grant)) = k
          /\ \A t \in 1..Len(grants) : Append(grants, grant)[t] = grants[t]
          /\ Append(grants, grant)[k] = grant
      BY <2>3, TypedStep, AppendProperties
    <3> QED BY <2>4, <3>1
  <2>6. challenges'[message.nonce].used
    <3>1. challenges' = [challenges EXCEPT ![message.nonce].used = TRUE]
      BY <1>5 DEF ServeVerify, Verifies, Consume
    <3> QED BY <2>1, <3>1, TypedStep DEF Challenge
  <2>7. \A t \in DOMAIN grants' : t \in DOMAIN grants \/ t = k
    BY <2>5, TypedStep
  <2>8. ServerTypeOK'
    <3>1. sessions' \subseteq DOMAIN grants'
      BY <2>4, <2>5, TypedStep DEF ServerInv, ServerTypeOK
    <3> QED BY <1>1, <1>2, <2>5, <3>1, TypedStep DEF ServerInv, ServerTypeOK
  <2>9. NoncesAreSpent'
    <3> SUFFICES ASSUME NEW t \in DOMAIN grants'
                 PROVE  /\ grants'[t].nonce \in 1..issued
                        /\ grants'[t].nonce \in DOMAIN challenges =>
                             challenges'[grants'[t].nonce].used
      BY <1>1, <1>2 DEF NoncesAreSpent
    <3>1. CASE t = k
      BY <2>2, <2>5, <2>6, <3>1
    <3>2. CASE t \in DOMAIN grants
      <4>1. grants'[t] = grants[t]
        BY <2>5, <3>2, TypedStep
      <4> QED BY <1>2, <3>2, <4>1 DEF ServerInv, NoncesAreSpent
    <3> QED BY <2>7, <3>1, <3>2
  <2>10. \A t \in DOMAIN grants : grants[t].nonce # message.nonce
    BY <2>1 DEF ServerInv, NoncesAreSpent
  <2>11. SessionsWereSigned'
    <3>1. SessionsWereSigned
      BY DEF ServerInv
    <3>2. \A t \in DOMAIN grants : t # k /\ grants'[t] = grants[t]
      BY <2>5, TypedStep
    <3>3. grants'[k].signer = grants'[k].address /\ grants'[k].nonce = message.nonce
      BY <2>1, <2>5
    <3> HIDE DEF k, grant
    <3>4. \A t \in DOMAIN grants' : grants'[t].signer = grants'[t].address
      BY <2>7, <3>1, <3>2, <3>3 DEF SessionsWereSigned
    <3>5. ASSUME NEW t \in DOMAIN grants', NEW u \in DOMAIN grants',
                 grants'[t].nonce = grants'[u].nonce
          PROVE  t = u
      BY <2>7, <2>10, <3>1, <3>2, <3>3, <3>5 DEF SessionsWereSigned
    <3> QED BY <3>4, <3>5 DEF SessionsWereSigned
  <2>12. GrantsKept /\ Proven(message.address)'
    BY <2>5, TypedStep DEF GrantsKept, Proven
  <2> QED BY <1>3, <2>2, <2>5, <2>8, <2>9, <2>11, <2>12 DEF ServerInv
<1> QED BY <1>4, <1>5

LEMMA ServerStepOK ==
  ASSUME ServerInv, ServerStep
  PROVE  ServerInv' /\ GrantsKept
<1>1. ASSUME NEW w \in Wallets, ServeChallenge(w)
      PROVE  ServerInv' /\ GrantsKept
  BY <1>1, ServeChallengeStep
<1>2. ASSUME NEW message, NEW signer, ServeVerify(message, signer)
      PROVE  ServerInv' /\ GrantsKept
  BY <1>2, ServeVerifyStep
<1>3. ASSUME UNCHANGED <<now, challenges, issued, bucket, admitted, grants>>,
             sessions' \subseteq sessions
      PROVE  ServerInv' /\ GrantsKept
  <2>1. ServerTypeOK'
    BY <1>3 DEF ServerInv, ServerTypeOK
  <2>2. NoncesAreSpent' /\ SessionsWereSigned'
    BY <1>3 DEF ServerInv, NoncesAreSpent, SessionsWereSigned
  <2>3. WindowsAreCounted' /\ BurstBounded'
    BY <1>3 DEF ServerInv, WindowsAreCounted, BurstBounded
  <2>4. GrantsKept
    BY <1>3, TypedStep DEF GrantsKept, Proven
  <2> QED BY <2>1, <2>2, <2>3, <2>4 DEF ServerInv
<1>4. ASSUME NEW token, ServeSession(token) \/ ServeLogout(token)
      PROVE  ServerInv' /\ GrantsKept
  BY <1>3, <1>4 DEF ServeSession, ServeLogout
<1>5. CASE Restart
  <2>1. /\ challenges' = << >> /\ bucket' = NoBucket /\ admitted' = << >>
        /\ UNCHANGED <<now, issued, grants, sessions>>
    BY <1>5 DEF Restart
  <2>2. ServerTypeOK'
    <3>1. bucket' \in [count : 0..ChallengeLimit, resetAt : Nat]
      BY <2>1, TimesAssumption DEF NoBucket
    <3> QED BY <2>1, <3>1 DEF ServerInv, ServerTypeOK
  <2>3. NoncesAreSpent' /\ SessionsWereSigned' /\ BurstBounded'
    BY <2>1 DEF ServerInv, NoncesAreSpent, SessionsWereSigned, BurstBounded
  <2>4. WindowsAreCounted'
    BY <2>1 DEF WindowsAreCounted, NoBucket
  <2>5. GrantsKept
    BY <2>1, TypedStep DEF GrantsKept, Proven
  <2> QED BY <2>2, <2>3, <2>4, <2>5 DEF ServerInv
<1>6. CASE Tick
  <2>1. /\ now' = now + 1
        /\ UNCHANGED <<challenges, issued, bucket, admitted, grants, sessions>>
    BY <1>6 DEF Tick
  <2>2. ServerTypeOK'
    BY <2>1 DEF ServerInv, ServerTypeOK
  <2>3. NoncesAreSpent' /\ SessionsWereSigned' /\ BurstBounded'
    BY <2>1 DEF ServerInv, NoncesAreSpent, SessionsWereSigned, BurstBounded
  <2>4. WindowsAreCounted'
    <3>1. \A i \in 1..Len(admitted) : admitted[i] \in Nat /\ admitted[i] <= now
      <4>1. admitted \in Seq(Nat)
        BY DEF ServerInv, ServerTypeOK
      <4>2. \A i \in 1..Len(admitted) : admitted[i] \in Nat
        BY <4>1
      <4>3. \A i \in 1..Len(admitted) : admitted[i] <= now
        BY DEF ServerInv, WindowsAreCounted
      <4> QED BY <4>2, <4>3
    <3>2. \A i \in 1..Len(admitted) : admitted[i] <= now + 1
      BY <3>1, TypedStep
    <3> QED BY <2>1, <3>2 DEF ServerInv, WindowsAreCounted
  <2>5. GrantsKept
    BY <2>1, TypedStep DEF GrantsKept, Proven
  <2> QED BY <2>2, <2>3, <2>4, <2>5 DEF ServerInv
<1> QED BY <1>1, <1>2, <1>4, <1>5, <1>6 DEF ServerStep

-----------------------------------------------------------------------------
(* The page *)

Labels == {"idle", "accounts", "chain", "switch", "confirm", "challenge", "sign",
           "verify", "check", "finish"}

Connect ==
  [ at : Labels, account : Accounts, message : Message \cup {NoMessage},
    signer : Accounts, fresh : BOOLEAN, verified : Accounts, current : Accounts ]

Sync ==
  [ fresh : BOOLEAN, token : Nat,
    wallet : [account : Accounts, chain : Chains \cup {"none"}],
    session : Accounts \cup {"pending"} ]

Read == [holder : Wallets, fresh : BOOLEAN]

PageTyped ==
  /\ page \in Page /\ connect \in Connect
  /\ syncs \subseteq Sync /\ reads \subseteq Read /\ due \subseteq Wallets
  /\ cookie \in Nat /\ cookie <= Len(grants)
  /\ logout \in [at : {"none", "sent", "served"}, token : Nat]
  /\ logout.token <= Len(grants)
  /\ \A s \in syncs : s.token <= Len(grants)
  /\ wallet \in [account : Accounts, chain : Chains, injected : BOOLEAN]
  /\ notices \in Nat

(* Whoever has reason to be told of a change of the wallet is listening.     *)
Listening ==
  SignedIn \/ Connecting \/ syncs # {} \/ notices > 0 => page.provider

(* What a connect() that runs may rely on when it is done *)
ConnectOK ==
  /\ Connecting => page.status \notin {"detecting", "authenticated"}
  /\ connect.at \notin {"idle", "accounts"} => connect.account # NoWallet
  /\ connect.at \in {"check", "finish"} => Proven(connect.verified)
  /\ connect.at = "finish" /\ connect.fresh /\ notices = 0 =>
       connect.current = wallet.account

(* There is one synchronisation that counts, at most, and only as long as    *)
(* the page is neither signing in nor signed in.                            *)
SyncOK ==
  /\ \A s \in syncs : s.session \notin {"pending", NoWallet} => Proven(s.session)
  /\ \A s, t \in syncs : s.fresh /\ t.fresh => s = t
  /\ \A s \in syncs : s.fresh => ~Connecting /\ ~SignedIn
  /\ \A s \in syncs : s.fresh /\ s.wallet # Unread /\ notices = 0 =>
       s.wallet.account = wallet.account /\ s.wallet.chain = wallet.chain

CookieIsOf(w) == cookie = 0 \/ grants[cookie].address = w

(* The cookie, if there is one, is that of the session: only a sign-in sets   *)
(* one, and one that does is not yet over, so that nothing else counts.      *)
CookieOK ==
  /\ SignedIn => CookieIsOf(page.session)
  /\ connect.at \in {"check", "finish"} => CookieIsOf(connect.verified)
  /\ \A s \in syncs : s.fresh =>
       /\ cookie \in {0, s.token}
       /\ s.session \notin {"pending", NoWallet} =>
            s.token # 0 /\ grants[s.token].address = s.session

(* Whose balance is on display, or may come to be *)
Holders ==
  {w \in Wallets : w \in due \/ w = page.balance
                     \/ \E r \in reads : r.fresh /\ r.holder = w}

(* A balance that may come to be on display is of the session that the page  *)
(* is in and, if it is in none, of the one that it can be restored to: they   *)
(* have the same cookie.                                                    *)
ReadOK ==
  \A w \in Holders :
    /\ ~Connecting /\ CookieIsOf(w)
    /\ SignedIn => w = page.session
    /\ \A s \in syncs : s.fresh => s.token = 0 \/ grants[s.token].address = w

PageInv ==
  /\ PageTyped /\ Listening /\ ConnectOK /\ SyncOK /\ CookieOK /\ ReadOK
  /\ SignInIsCurrent

-----------------------------------------------------------------------------
(* Facts about parts of a step *)

LEMMA StaleSyncs ==
  ASSUME PageInv
  PROVE  /\ Stale(Kept) \subseteq Sync
         /\ \A s \in Stale(Kept) :
              /\ ~s.fresh
              /\ s.token <= Len(grants)
              /\ s.session \notin {"pending", NoWallet} => Proven(s.session)
         /\ Stale(Kept) # {} => page.provider
<1>1. syncs \subseteq Sync /\ Kept \subseteq syncs
  BY DEF PageInv, PageTyped, Kept
<1> SUFFICES ASSUME NEW s \in Stale(Kept)
             PROVE  /\ s \in Sync /\ ~s.fresh /\ s.token <= Len(grants)
                    /\ s.session \notin {"pending", NoWallet} => Proven(s.session)
                    /\ page.provider
  OBVIOUS
<1>2. PICK t \in syncs : s = [t EXCEPT !.fresh = FALSE]
  BY <1>1 DEF Stale
<1>3. /\ s \in Sync /\ ~s.fresh /\ s.token = t.token /\ s.session = t.session
  BY <1>1, <1>2 DEF Sync
<1> QED BY <1>3 DEF PageInv, PageTyped, SyncOK, Listening

LEMMA StaleReads ==
  ASSUME PageInv
  PROVE  Stale(reads) \subseteq Read /\ \A r \in Stale(reads) : ~r.fresh
<1>1. reads \subseteq Read
  BY DEF PageInv, PageTyped
<1> QED BY <1>1 DEF Stale, Read

LEMMA SameGrants ==
  ASSUME ServerInv, UNCHANGED grants
  PROVE  GrantsKept
BY TypedStep DEF GrantsKept, Proven

(* A token is that of a grant, which stays. *)
LEMMA TokensKept ==
  ASSUME PageInv, ServerInv, GrantsKept
  PROVE  /\ cookie # 0 => grants'[cookie] = grants[cookie]
         /\ \A s \in syncs : s.token # 0 => grants'[s.token] = grants[s.token]
<1>1. cookie # 0 => cookie \in DOMAIN grants
  BY TypedStep DEF PageInv, PageTyped
<1>2. \A s \in syncs : s.token # 0 => s.token \in DOMAIN grants
  BY TypedStep DEF PageInv, PageTyped, Sync
<1> QED BY <1>1, <1>2 DEF GrantsKept

(* A step after which nothing counts that did not count before *)
LEMMA CookieKept ==
  ASSUME PageInv, ServerInv, GrantsKept, cookie' \in {cookie, 0},
         SignedIn' => SignedIn /\ page'.session = page.session,
         connect'.at \in {"check", "finish"} =>
           /\ connect.at \in {"check", "finish"}
           /\ connect'.verified = connect.verified,
         \A s \in syncs' : s.fresh => s \in syncs
  PROVE  CookieOK'
<1>1. ASSUME NEW w, CookieIsOf(w)
      PROVE  cookie' = 0 \/ grants'[cookie'].address = w
  BY <1>1, TokensKept DEF CookieIsOf
<1>2. SignedIn' => CookieIsOf(page.session)'
  BY <1>1 DEF PageInv, CookieOK, CookieIsOf
<1>3. connect'.at \in {"check", "finish"} => CookieIsOf(connect.verified)'
  BY <1>1 DEF PageInv, CookieOK, CookieIsOf
<1>4. ASSUME NEW s \in syncs', s.fresh
      PROVE  /\ cookie' \in {0, s.token}
             /\ s.session \notin {"pending", NoWallet} =>
                  s.token # 0 /\ grants'[s.token].address = s.session
  BY <1>4, TokensKept DEF PageInv, CookieOK
<1> QED BY <1>2, <1>3, <1>4 DEF CookieOK

LEMMA ReadsKept ==
  ASSUME PageInv, ServerInv, GrantsKept, cookie' \in {cookie, 0},
         SignedIn' => SignedIn /\ page'.session = page.session,
         Connecting' => Connecting,
         \A s \in syncs' : s.fresh => \E t \in syncs : t.fresh /\ t.token = s.token,
         Holders' \subseteq Holders
  PROVE  ReadOK'
<1> SUFFICES ASSUME NEW w \in Holders'
             PROVE  /\ ~Connecting' /\ CookieIsOf(w)'
                    /\ SignedIn' => w = page'.session
                    /\ \A s \in syncs' : s.fresh =>
                         s.token = 0 \/ grants'[s.token].address = w
  BY DEF ReadOK
<1>1. /\ ~Connecting /\ CookieIsOf(w)
      /\ SignedIn => w = page.session
      /\ \A s \in syncs : s.fresh => s.token = 0 \/ grants[s.token].address = w
  BY DEF PageInv, ReadOK
<1>2. CookieIsOf(w)'
  BY <1>1, TokensKept DEF CookieIsOf
<1>3. \A s \in syncs' : s.fresh => s.token = 0 \/ grants'[s.token].address = w
  BY <1>1, TokensKept
<1> QED BY <1>1, <1>2, <1>3

(* While the page is signing in no balance is on display, nor will one be.   *)
LEMMA NothingShown ==
  ASSUME PageInv, Connecting
  PROVE  Holders = {} /\ due = {} /\ page.balance = NoWallet /\ \A r \in reads : ~r.fresh
<1>1. Holders = {}
  BY DEF PageInv, ReadOK
<1>2. due \subseteq Wallets /\ reads \subseteq Read /\ page.balance \in Accounts
  BY DEF PageInv, PageTyped, Page
<1> QED BY <1>1, <1>2 DEF Holders, Accounts, Read

LEMMA SameHolders ==
  ASSUME page'.balance \in {page.balance, NoWallet}, due' \subseteq due,
         \A r \in reads' : r.fresh => r \in reads
  PROVE  Holders' \subseteq Holders
<1>1. NoWallet \notin Wallets
  BY NoWalletAssumption
<1> QED BY <1>1 DEF Holders

(* Steps of the server, of requests that nobody waits for, of the sign-out *)
LEMMA QuietStep ==
  ASSUME PageInv, ServerInv, GrantsKept,
         UNCHANGED <<page, connect, syncs, reads, due, wallet, notices>>,
         cookie' \in {cookie, 0},
         cookie' \in Nat, cookie' <= Len(grants)', Len(grants)' \in Nat,
         logout' \in [at : {"none", "sent", "served"}, token : Nat],
         logout'.token <= Len(grants)', Len(grants) \in Nat
  PROVE  PageInv'
<1>1. PageTyped'
  <2>1. \A s \in syncs : s.token <= Len(grants) /\ s.token \in Nat
    BY DEF PageInv, PageTyped, Sync
  <2>2. \A s \in syncs : s.token <= Len(grants)'
    BY <2>1 DEF GrantsKept
  <2> QED BY <2>2 DEF PageInv, PageTyped
<1>2. Listening'
  BY DEF PageInv, Listening, SignedIn, Connecting
<1>3. ConnectOK' /\ SyncOK'
  BY DEF PageInv, ConnectOK, SyncOK, GrantsKept, SignedIn, Connecting
<1>5. CookieOK' /\ ReadOK'
  BY CookieKept, ReadsKept, SameHolders DEF SignedIn, Connecting
<1>4. SignInIsCurrent'
  BY DEF PageInv, SignInIsCurrent, GrantsKept, Proven, SignedIn, Connecting
<1> QED BY <1>1, <1>2, <1>3, <1>4, <1>5 DEF PageInv

(* A new synchronisation *)
LEMMA SynchronizeStep ==
  ASSUME PageInv, ServerInv, NEW p \in {page, [page EXCEPT !.provider = TRUE]}, p.provider,
         Synchronize(p), Len(grants) \in Nat, notices' \in Nat,
         UNCHANGED <<grants, cookie, logout, wallet>>
  PROVE  PageInv'
<1>1. /\ page \in Page /\ connect \in Connect /\ cookie \in Nat /\ cookie <= Len(grants)
      /\ p \in Page /\ p.status = page.status /\ p.balance = page.balance
  BY DEF PageInv, PageTyped, Page
<1>2. /\ connect' = Overtaken /\ reads' = Stale(reads) /\ due' = due
      /\ reads' \subseteq Read /\ \A r \in reads' : ~r.fresh
  BY StaleReads DEF Synchronize
<1>3. /\ connect' \in Connect /\ ~connect'.fresh
      /\ connect'.at = connect.at /\ connect'.account = connect.account
      /\ connect'.verified = connect.verified
  BY <1>1, <1>2 DEF Overtaken, Connect
<1>4. /\ page' \in Page /\ page'.provider /\ page'.balance = NoWallet
      /\ ~SignedIn' /\ (Connecting => page'.status # "detecting")
  <2>1. CASE Connecting
    <3>1. page' = p /\ ~SignedIn /\ page.status # "detecting"
      BY <2>1 DEF Synchronize, PageInv, ConnectOK, SignedIn
    <3> QED BY <1>1, <2>1, <3>1, NothingShown DEF SignedIn
  <2>2. CASE ~Connecting
    <3>1. page' = [p EXCEPT !.session = NoWallet, !.balance = NoWallet,
                            !.status = "disconnected"]
      BY <2>2 DEF Synchronize
    <3>2. page' \in Page /\ page'.balance = NoWallet /\ page'.status = "disconnected"
      BY <1>1, <3>1 DEF Page, Accounts
    <3>3. page'.provider
      BY <1>1, <3>1 DEF Page
    <3> QED BY <2>2, <3>2, <3>3 DEF SignedIn
  <2> QED BY <2>1, <2>2
<1>5. Started(cookie) \in Sync /\ Started(cookie).token = cookie
      /\ Started(cookie).session = "pending" /\ Started(cookie).wallet = Unread
  BY <1>1 DEF Started, Sync, Unread, Accounts
<1>6. \A s \in syncs' : s \in Stale(Kept) \/ (s = Started(cookie) /\ ~Connecting)
  <2>1. CASE Connecting
    <3>1. syncs' = Stale(Kept)
      BY <2>1 DEF Synchronize
    <3> QED BY <3>1
  <2>2. CASE ~Connecting
    <3>1. syncs' = Stale(Kept) \cup {Started(cookie)}
      BY <2>2 DEF Synchronize
    <3> QED BY <2>2, <3>1
  <2> QED BY <2>1, <2>2
<1>7. PageTyped'
  <2>1. syncs' \subseteq Sync /\ \A s \in syncs' : s.token <= Len(grants)
    BY <1>1, <1>5, <1>6, StaleSyncs
  <2> QED BY <1>2, <1>3, <1>4, <2>1 DEF PageInv, PageTyped
<1>8. Listening'
  BY <1>4 DEF Listening
<1>9. ConnectOK'
  BY <1>3, <1>4 DEF PageInv, ConnectOK, Connecting, SignedIn, Proven
<1>10. SyncOK'
  <2>1. \A s \in syncs' : s.session \notin {"pending", NoWallet} => Proven(s.session)'
    BY <1>5, <1>6, StaleSyncs DEF Proven
  <2>2. \A s \in syncs' : s.fresh => s = Started(cookie) /\ ~Connecting
    BY <1>6, StaleSyncs
  <2> QED BY <1>3, <1>4, <1>5, <2>1, <2>2 DEF SyncOK, Connecting
<1>11. SignInIsCurrent'
  BY <1>4 DEF SignInIsCurrent
<1>12. \A s \in syncs' : s.fresh => s = Started(cookie) /\ ~Connecting
  BY <1>6, StaleSyncs
<1>13. CookieOK'
  <2>1. connect'.at \in {"check", "finish"} => CookieIsOf(connect.verified)'
    BY <1>3 DEF PageInv, CookieOK, CookieIsOf
  <2>2. \A s \in syncs' : s.fresh => cookie' = s.token /\ s.session = "pending"
    BY <1>5, <1>12
  <2> QED BY <1>4, <2>1, <2>2 DEF CookieOK
<1>14. ReadOK'
  <2> SUFFICES ASSUME NEW w \in Holders'
               PROVE  /\ ~Connecting' /\ CookieIsOf(w)'
                      /\ \A s \in syncs' : s.fresh =>
                           s.token = 0 \/ grants'[s.token].address = w
    BY <1>4 DEF ReadOK
  <2>1. w \in Holders
    BY <1>2, <1>4, NoWalletAssumption DEF Holders
  <2>2. ~Connecting /\ CookieIsOf(w)
    BY <2>1 DEF PageInv, ReadOK
  <2>3. \A s \in syncs' : s.fresh => s.token = cookie
    BY <1>5, <1>12
  <2> QED BY <1>3, <2>2, <2>3 DEF CookieIsOf, Connecting
<1> QED BY <1>7, <1>8, <1>9, <1>10, <1>11, <1>13, <1>14 DEF PageInv

-----------------------------------------------------------------------------
(* One lemma for each kind of step of the page *)

LEMMA DetectStep ==
  ASSUME PageInv, ServerInv, Detect
  PROVE  PageInv'
<1>1. UNCHANGED <<grants, cookie, logout, wallet, notices>>
  BY DEF Detect, serverVars, envVars
<1>2. page \in Page /\ Len(grants) \in Nat /\ notices' \in Nat
  BY <1>1, TypedStep DEF PageInv, PageTyped
<1>3. CASE wallet.injected
  <2> DEFINE p == [page EXCEPT !.provider = TRUE]
  <2>1. p.provider /\ Synchronize(p)
    BY <1>2, <1>3 DEF Detect, Page
  <2> QED BY <1>1, <1>2, <2>1, SynchronizeStep
<1>4. CASE ~wallet.injected
  <2>1. /\ page' = [page EXCEPT !.status = "unavailable"]
        /\ UNCHANGED <<connect, syncs, reads, due>> /\ ~SignedIn
    BY <1>4 DEF Detect, SignedIn
  <2>2. page' \in Page /\ page'.provider = page.provider /\ ~SignedIn'
        /\ page'.balance = page.balance
    BY <1>2, <2>1 DEF Page, SignedIn
  <2>3. ~Connecting
    BY DEF Detect, PageInv, ConnectOK
  <2>4. PageTyped' /\ Listening'
    BY <1>1, <2>1, <2>2 DEF PageInv, PageTyped, Listening, Connecting
  <2>5. ConnectOK' /\ SyncOK'
    BY <1>1, <2>1, <2>2, <2>3 DEF PageInv, ConnectOK, SyncOK, Connecting, Proven
  <2>6. CookieOK' /\ ReadOK' /\ SignInIsCurrent'
    BY <1>1, <2>1, <2>2, SameGrants, SameHolders, CookieKept, ReadsKept
       DEF SignInIsCurrent, Connecting
  <2> QED BY <2>4, <2>5, <2>6 DEF PageInv
<1> QED BY <1>3, <1>4

LEMMA HandleNoticeStep ==
  ASSUME PageInv, ServerInv, HandleNotice
  PROVE  PageInv'
<1>1. UNCHANGED <<grants, cookie, logout, wallet>> /\ Synchronize(page)
  BY DEF HandleNotice, serverVars
<1>2. notices' \in Nat /\ Len(grants) \in Nat
  BY TypedStep DEF HandleNotice, PageInv, PageTyped
<1>3. page.provider
  BY DEF HandleNotice, PageInv, Listening
<1> QED BY <1>1, <1>2, <1>3, SynchronizeStep

(* One of the reads of a synchronisation has been answered. *)
LEMMA AnswerStep ==
  ASSUME PageInv, ServerInv, NEW s \in syncs, NEW t \in Sync,
         t.fresh = s.fresh, t.token = s.token,
         \/ t.session = s.session
         \/ t.session # NoWallet =>
              /\ Proven(t.session)
              /\ t.token # 0 /\ grants[t.token].address = t.session,
         t.wallet = s.wallet
           \/ (t.wallet.account = wallet.account /\ t.wallet.chain = wallet.chain),
         syncs' = (syncs \ {s}) \cup {t},
         UNCHANGED <<grants, page, connect, reads, due, cookie, logout, wallet, notices>>
  PROVE  PageInv'
<1>1. \A u \in syncs' : u \in syncs \/ u = t
  OBVIOUS
<1>2. PageTyped' /\ Listening'
  BY <1>1 DEF PageInv, PageTyped, Listening, SignedIn, Connecting
<1>3. ConnectOK'
  BY DEF PageInv, ConnectOK, Connecting, Proven
<1>4. SyncOK'
  <2>1. \A u \in syncs' : u.session \notin {"pending", NoWallet} => Proven(u.session)
    BY <1>1 DEF PageInv, SyncOK
  <2>2. \A u \in syncs' : u.session \notin {"pending", NoWallet} => Proven(u.session)'
    BY <2>1 DEF Proven
  <2>3. \A u, v \in syncs' : u.fresh /\ v.fresh => u = v
    BY DEF PageInv, SyncOK
  <2>4. \A u \in syncs' : u.fresh => ~Connecting /\ ~SignedIn
    BY <1>1 DEF PageInv, SyncOK
  <2>5. \A u \in syncs' : u.fresh /\ u.wallet # Unread /\ notices = 0 =>
          u.wallet.account = wallet.account /\ u.wallet.chain = wallet.chain
    BY <1>1 DEF PageInv, SyncOK
  <2> QED BY <2>2, <2>3, <2>4, <2>5 DEF SyncOK, Connecting, SignedIn
<1>5. SignInIsCurrent'
  BY DEF PageInv, SignInIsCurrent, SignedIn, Connecting
<1>6. CookieOK'
  <2>1. \A u \in syncs' : u.fresh =>
          /\ cookie \in {0, u.token}
          /\ u.session \notin {"pending", NoWallet} =>
               u.token # 0 /\ grants[u.token].address = u.session
    BY <1>1 DEF PageInv, CookieOK
  <2> QED BY <2>1 DEF PageInv, CookieOK, CookieIsOf, SignedIn
<1>7. ReadOK'
  <2>1. \A u \in syncs' : u.fresh => \E v \in syncs : v.fresh /\ v.token = u.token
    BY <1>1
  <2> QED BY <2>1, SameGrants, SameHolders, ReadsKept DEF SignedIn, Connecting
<1> QED BY <1>2, <1>3, <1>4, <1>5, <1>6, <1>7 DEF PageInv

LEMMA SyncReadsWalletStep ==
  ASSUME PageInv, ServerInv, NEW s \in syncs, SyncReadsWallet(s)
  PROVE  PageInv'
<1> DEFINE t == [s EXCEPT !.wallet = [account |-> wallet.account, chain |-> wallet.chain]]
<1>1. s \in Sync /\ wallet \in [account : Accounts, chain : Chains, injected : BOOLEAN]
  BY DEF PageInv, PageTyped
<1>2. /\ t \in Sync /\ t.fresh = s.fresh /\ t.token = s.token /\ t.session = s.session
      /\ t.wallet.account = wallet.account /\ t.wallet.chain = wallet.chain
  BY <1>1 DEF Sync
<1>3. /\ syncs' = (syncs \ {s}) \cup {t}
      /\ UNCHANGED <<grants, page, connect, reads, due, cookie, logout, wallet, notices>>
  <2>1. [s EXCEPT !["wallet"] = [account |-> wallet.account, chain |-> wallet.chain]] = t
    OBVIOUS
  <2> QED BY <2>1 DEF SyncReadsWallet, Answer, serverVars, envVars
<1> QED BY <1>2, <1>3, AnswerStep

LEMMA SyncReadsSessionStep ==
  ASSUME PageInv, ServerInv, NEW s \in syncs, SyncReadsSession(s)
  PROVE  PageInv'
<1>1. s \in Sync
  BY DEF PageInv, PageTyped
<1>2. PICK who : /\ who = NoWallet \/ who = ActorOf(s.token)
                 /\ Answer(s, "session", who)
  BY DEF SyncReadsSession
<1>3. /\ who \in Accounts
      /\ who # NoWallet => /\ Proven(who)
                           /\ s.token # 0 /\ grants[s.token].address = who
  <2>1. CASE Valid(s.token) /\ who = ActorOf(s.token)
    <3>1. s.token \in DOMAIN grants /\ who = grants[s.token].address
      BY <2>1 DEF Valid, ActorOf, ServerInv, ServerTypeOK
    <3> QED BY <3>1, TypedStep DEF Proven, Grant, Accounts
  <2> QED BY <1>2, <2>1 DEF ActorOf, Accounts
<1> DEFINE t == [s EXCEPT !.session = who]
<1>4. /\ t \in Sync /\ t.fresh = s.fresh /\ t.token = s.token
      /\ t.wallet = s.wallet /\ t.session = who
  BY <1>1, <1>3 DEF Sync
<1>5. syncs' = (syncs \ {s}) \cup {t}
  BY <1>2 DEF Answer
<1>6. UNCHANGED <<grants, page, connect, reads, due, cookie, logout, wallet, notices>>
  BY DEF SyncReadsSession, ServeSession, serverVars, envVars
<1> QED BY <1>3, <1>4, <1>5, <1>6, AnswerStep

LEMMA SyncFailsStep ==
  ASSUME PageInv, ServerInv, NEW s \in syncs, SyncFails(s)
  PROVE  PageInv'
<1>1. /\ syncs' = syncs \ {s}
      /\ UNCHANGED <<grants, connect, reads, due, cookie, logout, wallet, notices>>
  BY DEF SyncFails, serverVars, envVars
<1>2. page \in Page
  BY DEF PageInv, PageTyped
<1>3. /\ page' \in Page /\ page'.status = page.status /\ page'.session = page.session
      /\ page'.provider = page.provider /\ page'.balance = page.balance
      /\ SignedIn => page' = page
  <2>1. CASE s.fresh
    BY <1>2, <2>1 DEF SyncFails, Page, Accounts, PageInv, SyncOK
  <2>2. CASE ~s.fresh
    BY <1>2, <2>2 DEF SyncFails
  <2> QED BY <2>1, <2>2
<1>4. PageTyped' /\ Listening'
  BY <1>1, <1>3 DEF PageInv, PageTyped, Listening, SignedIn, Connecting
<1>5. ConnectOK' /\ SyncOK'
  BY <1>1, <1>3 DEF PageInv, ConnectOK, SyncOK, SignedIn, Connecting, Proven
<1>6. SignInIsCurrent'
  BY <1>1, <1>3 DEF PageInv, SignInIsCurrent, SignedIn, Connecting
<1>7. CookieOK' /\ ReadOK'
  <2>1. SignedIn' = SignedIn /\ Connecting' = Connecting
    BY <1>1, <1>3 DEF SignedIn, Connecting
  <2> QED BY <1>1, <1>3, <2>1, SameGrants, SameHolders, CookieKept, ReadsKept
<1> QED BY <1>4, <1>5, <1>6, <1>7 DEF PageInv

LEMMA SyncArrivesStep ==
  ASSUME PageInv, ServerInv, NEW s \in syncs, SyncArrives(s)
  PROVE  PageInv'
<1>1. /\ syncs' = syncs \ {s}
      /\ s.wallet # Unread /\ s.session # "pending"
      /\ UNCHANGED <<grants, connect, reads, cookie, logout, wallet, notices>>
  BY DEF SyncArrives, serverVars, envVars
<1>2. page \in Page /\ s \in Sync /\ due \subseteq Wallets
  BY DEF PageInv, PageTyped
<1>3. CASE ~s.fresh
  <2>1. UNCHANGED <<page, due>>
    BY <1>3 DEF SyncArrives, SyncCurrent
  <2>2. PageTyped' /\ Listening'
    BY <1>1, <2>1 DEF PageInv, PageTyped, Listening, SignedIn, Connecting
  <2>3. ConnectOK' /\ SyncOK'
    BY <1>1, <2>1 DEF PageInv, ConnectOK, SyncOK, SignedIn, Connecting, Proven
  <2>4. SignInIsCurrent'
    BY <1>1, <2>1 DEF PageInv, SignInIsCurrent, SignedIn, Connecting
  <2>5. CookieOK' /\ ReadOK'
    BY <1>1, <2>1, SameGrants, SameHolders, CookieKept, ReadsKept
       DEF SignedIn, Connecting
  <2> QED BY <2>2, <2>3, <2>4, <2>5 DEF PageInv
<1>4. CASE s.fresh
  <2>1. /\ ~SignedIn /\ ~Connecting /\ page.provider
        /\ \A u \in syncs' : ~u.fresh
    BY <1>1, <1>4 DEF PageInv, SyncOK, Listening
  <2>2. page' = [page EXCEPT !.address = s.wallet.account, !.chain = s.wallet.chain,
                   !.session = IF Restores(s) THEN s.session ELSE @,
                   !.status = IF Restores(s) THEN "authenticated" ELSE @]
    BY <1>4 DEF SyncArrives, SyncCurrent
  <2>3. s.session \in Accounts
    BY <1>1, <1>2 DEF Sync
  <2>4. /\ page' \in Page /\ page'.provider /\ page'.balance = page.balance
        /\ page'.address = s.wallet.account /\ page'.chain = s.wallet.chain
        /\ Restores(s) => SignedIn' /\ page'.session = s.session
        /\ ~Restores(s) => ~SignedIn'
    BY <1>2, <2>1, <2>2, <2>3 DEF Page, Sync, SignedIn
  <2>5. ~Connecting'
    BY <1>1, <2>1 DEF Connecting
  <2>6. due' = IF Restores(s) THEN due \cup {s.session} ELSE due
    BY <1>4 DEF SyncArrives, SyncCurrent
  <2>7. Restores(s) => /\ s.session # NoWallet /\ s.session = s.wallet.account
                       /\ s.session \in Wallets /\ s.wallet.chain = "celo"
    BY <2>3 DEF Restores, Accounts
  <2>8. due' \subseteq Wallets
    BY <1>2, <2>6, <2>7
  <2>9. PageTyped' /\ Listening'
    BY <1>1, <2>4, <2>8 DEF PageInv, PageTyped, Listening
  <2>10. ConnectOK'
    BY <1>1, <2>1, <2>5 DEF PageInv, ConnectOK, Connecting
  <2>11. SyncOK'
    BY <1>1, <2>1 DEF PageInv, SyncOK, Proven
  <2>12. CASE ~Restores(s)
    <3>1. SignInIsCurrent' /\ CookieOK' /\ ReadOK'
      BY <1>1, <2>1, <2>4, <2>5, <2>6, <2>12, SameGrants, SameHolders, CookieKept,
         ReadsKept DEF SignInIsCurrent
    <3> QED BY <2>9, <2>10, <2>11, <3>1 DEF PageInv
  <2>13. CASE Restores(s)
    <3>1. Proven(s.session)
      BY <1>1, <2>7, <2>13 DEF PageInv, SyncOK
    <3>2. notices = 0 => s.wallet.account = wallet.account /\ s.wallet.chain = wallet.chain
      BY <1>1, <1>4 DEF PageInv, SyncOK
    <3>3. SignInIsCurrent'
      BY <1>1, <2>4, <2>5, <2>7, <2>13, <3>1, <3>2 DEF SignInIsCurrent, Proven
    <3>4. /\ s.token # 0 /\ grants[s.token].address = s.session
          /\ CookieIsOf(s.session)
      BY <1>1, <1>4, <2>7, <2>13 DEF PageInv, CookieOK, CookieIsOf
    <3>5. CookieOK'
      BY <1>1, <2>1, <2>4, <2>5, <2>13, <3>4 DEF CookieOK, CookieIsOf, Connecting
    <3>6. \A w \in Holders' : w = s.session
      <4>1. \A w \in Holders : w = s.session
        BY <1>4, <3>4 DEF PageInv, ReadOK
      <4>2. Holders' \subseteq Holders \cup {s.session}
        BY <1>1, <2>4, <2>6, <2>13 DEF Holders
      <4> QED BY <4>1, <4>2
    <3>7. ReadOK'
      BY <1>1, <2>1, <2>4, <2>5, <2>13, <3>4, <3>6 DEF ReadOK, CookieIsOf
    <3> QED BY <2>9, <2>10, <2>11, <3>3, <3>5, <3>7 DEF PageInv
  <2> QED BY <2>12, <2>13
<1> QED BY <1>3, <1>4 DEF PageInv, PageTyped, Sync

-----------------------------------------------------------------------------
(* connect() *)

(* What a step of connect() leaves as it is *)
Aside ==
  /\ GrantsKept /\ Len(grants) \in Nat /\ Len(grants)' \in Nat
  /\ UNCHANGED <<syncs, logout, reads>>
  /\ cookie' \in Nat /\ cookie' <= Len(grants)'
  /\ wallet' \in [account : Accounts, chain : Chains, injected : BOOLEAN]
  /\ notices' \in Nat

LEMMA AsideTyped ==
  ASSUME PageInv, Aside, page' \in Page, connect' \in Connect, due' \subseteq Wallets
  PROVE  PageTyped'
<1>1. \A s \in syncs : s.token <= Len(grants) /\ s.token \in Nat
  BY DEF PageInv, PageTyped, Sync
<1>2. logout.token \in Nat /\ logout.token <= Len(grants)
  BY DEF PageInv, PageTyped
<1>3. \A s \in syncs : s.token <= Len(grants)'
  BY <1>1 DEF Aside, GrantsKept
<1>4. logout.token <= Len(grants)'
  BY <1>2 DEF Aside, GrantsKept
<1> QED BY <1>3, <1>4 DEF PageInv, PageTyped, Aside

LEMMA AsideSyncs ==
  ASSUME PageInv, Connecting, Aside
  PROVE  SyncOK' /\ \A s \in syncs : ~s.fresh
BY DEF PageInv, SyncOK, Aside, GrantsKept

(* It is not waited for, so that nothing else of the page counts.             *)
LEMMA AsideReads ==
  ASSUME PageInv, Connecting, Aside, due' = due, page'.balance = page.balance
  PROVE  Holders' = {} /\ ReadOK'
<1>1. Holders' = {}
  BY NothingShown DEF Holders, Aside
<1> QED BY <1>1 DEF ReadOK

(* It goes on to its next await ... *)
LEMMA GoOn ==
  ASSUME PageInv, Connecting, Aside, UNCHANGED due,
         page' \in Page, page'.status = page.status,
         page'.provider = page.provider, page'.balance = page.balance,
         connect' \in Connect, connect'.at # "idle",
         connect'.at # "accounts" => connect'.account # NoWallet,
         connect'.at \in {"check", "finish"} =>
           Proven(connect.verified)' /\ CookieIsOf(connect.verified)',
         connect'.at = "finish" /\ connect'.fresh /\ notices' = 0 =>
           connect'.current = wallet'.account
  PROVE  PageInv'
<1>1. ~SignedIn /\ page.status # "detecting" /\ page.provider
  BY DEF PageInv, ConnectOK, Listening, SignedIn
<1>2. PageTyped'
  BY AsideTyped DEF PageInv, PageTyped
<1>3. Listening' /\ ConnectOK' /\ ~SignedIn'
  BY <1>1 DEF Listening, ConnectOK, SignedIn, Connecting
<1>4. SyncOK'
  BY AsideSyncs
<1>5. SignInIsCurrent' /\ CookieOK' /\ ReadOK'
  BY <1>3, AsideSyncs, AsideReads DEF SignInIsCurrent, CookieOK, Aside
<1> QED BY <1>2, <1>3, <1>4, <1>5 DEF PageInv

(* ... or ends without a sign-in. *)
LEMMA GiveUpStep ==
  ASSUME PageInv, Connecting, Aside, UNCHANGED due,
         NEW p \in Page, p.provider = page.provider, p.balance = page.balance,
         GiveUp(p)
  PROVE  PageInv'
<1>1. ~SignedIn /\ page.provider
  BY DEF PageInv, ConnectOK, Listening, SignedIn
<1>2. /\ page' \in Page /\ page'.status = "disconnected" /\ page'.provider
      /\ page'.balance = page.balance
  BY <1>1 DEF GiveUp, Page, Accounts
<1>3. connect' = Idle /\ connect' \in Connect /\ connect'.at = "idle"
  BY DEF GiveUp, Idle, Connect, Labels, Accounts
<1>4. PageTyped'
  BY <1>2, <1>3, AsideTyped DEF PageInv, PageTyped
<1>5. Listening' /\ ConnectOK' /\ ~SignedIn'
  BY <1>2, <1>3 DEF Listening, ConnectOK, SignedIn, Connecting
<1>6. SyncOK'
  BY AsideSyncs
<1>7. SignInIsCurrent' /\ CookieOK' /\ ReadOK'
  BY <1>2, <1>3, <1>5, AsideSyncs, AsideReads DEF SignInIsCurrent, CookieOK, Aside
<1> QED BY <1>4, <1>5, <1>6, <1>7 DEF PageInv

(* Nothing beyond connect, page and wallet changes. *)
LEMMA LocalAside ==
  ASSUME PageInv, ServerInv, UNCHANGED <<grants, syncs, reads, logout, cookie>>,
         wallet' \in [account : Accounts, chain : Chains, injected : BOOLEAN],
         notices' \in Nat
  PROVE  Aside
BY TypedStep DEF Aside, GrantsKept, Proven, PageInv, PageTyped

LEMMA StartConnectStep ==
  ASSUME PageInv, ServerInv, StartConnect
  PROVE  PageInv'
<1>1. /\ page \in Page /\ ~SignedIn /\ ~Connecting /\ page.status # "detecting"
      /\ due = {} /\ UNCHANGED <<grants, due, cookie, logout, wallet, notices>>
  BY DEF StartConnect, SignedIn, serverVars, envVars, PageInv, PageTyped
<1>2. CASE page.provider \/ wallet.injected
  <2>1. /\ connect' = [Idle EXCEPT !.at = "accounts"]
        /\ page' = [SignedOutPage("connecting") EXCEPT !.provider = TRUE]
        /\ syncs' = Stale(Kept) /\ reads' = Stale(reads)
    BY <1>2 DEF StartConnect
  <2>2. /\ connect' \in Connect /\ connect'.at = "accounts"
    BY <2>1 DEF Connect, Idle, Labels, Accounts
  <2>3. /\ page' \in Page /\ page'.status = "connecting" /\ page'.provider
        /\ page'.balance = NoWallet
    BY <1>1, <2>1 DEF SignedOutPage, Page, Accounts
  <2>4. PageTyped'
    BY <1>1, <2>1, <2>2, <2>3, StaleSyncs, StaleReads DEF PageInv, PageTyped
  <2>5. Listening' /\ ConnectOK' /\ ~SignedIn'
    BY <2>2, <2>3 DEF Listening, ConnectOK, SignedIn
  <2>6. SyncOK'
    <3>1. \A s \in syncs' : s.session \notin {"pending", NoWallet} => Proven(s.session)'
      BY <1>1, <2>1, StaleSyncs DEF Proven
    <3> QED BY <2>1, <3>1, StaleSyncs DEF SyncOK
  <2>7. SignInIsCurrent' /\ CookieOK'
    BY <2>1, <2>2, <2>5, StaleSyncs DEF SignInIsCurrent, CookieOK
  <2>8. ReadOK'
    <3>1. Holders' = {}
      BY <1>1, <2>1, <2>3, StaleReads, NoWalletAssumption DEF Holders
    <3> QED BY <3>1 DEF ReadOK
  <2> QED BY <2>4, <2>5, <2>6, <2>7, <2>8 DEF PageInv
<1>3. CASE ~(page.provider \/ wallet.injected)
  <2>1. /\ page' = [page EXCEPT !.status = "unavailable"]
        /\ UNCHANGED <<connect, syncs, reads>>
    BY <1>3 DEF StartConnect
  <2>2. page' \in Page /\ page'.provider = page.provider /\ ~SignedIn'
        /\ page'.balance = page.balance
    BY <1>1, <2>1 DEF Page, SignedIn
  <2>3. PageTyped' /\ Listening'
    BY <1>1, <2>1, <2>2 DEF PageInv, PageTyped, Listening, Connecting
  <2>4. ConnectOK' /\ SyncOK'
    BY <1>1, <2>1, <2>2 DEF PageInv, ConnectOK, SyncOK, Connecting, Proven
  <2>5. SignInIsCurrent' /\ CookieOK' /\ ReadOK'
    BY <1>1, <2>1, <2>2, SameGrants, SameHolders, CookieKept, ReadsKept
       DEF SignInIsCurrent, Connecting
  <2> QED BY <2>3, <2>4, <2>5 DEF PageInv
<1> QED BY <1>2, <1>3

LEMMA RequestAccountsStep ==
  ASSUME PageInv, ServerInv, RequestAccounts
  PROVE  PageInv'
<1>1. PICK account \in Accounts :
        /\ wallet' = [wallet EXCEPT !.account = account]
        /\ notices' = IF account # wallet.account THEN notices + 1 ELSE notices
        /\ IF account = NoWallet
           THEN GiveUp([page EXCEPT !.address = NoWallet])
           ELSE /\ page' = [page EXCEPT !.address = account]
                /\ connect' = [connect EXCEPT !.at = "chain", !.account = account]
  BY DEF RequestAccounts
<1>2. /\ page \in Page /\ connect \in Connect
      /\ wallet' \in [account : Accounts, chain : Chains, injected : BOOLEAN]
      /\ notices' \in Nat
  BY <1>1 DEF PageInv, PageTyped
<1>3. Connecting /\ UNCHANGED <<grants, syncs, reads, due, logout, cookie>>
  BY DEF RequestAccounts, Connecting, serverVars
<1>4. Aside
  BY <1>2, <1>3, LocalAside
<1>5. CASE account = NoWallet
  <2> DEFINE p == [page EXCEPT !.address = NoWallet]
  <2>1. p \in Page /\ p.provider = page.provider /\ p.balance = page.balance
    BY <1>2 DEF Page, Accounts
  <2>2. GiveUp(p)
    BY <1>1, <1>5
  <2> QED BY <1>3, <1>4, <2>1, <2>2, GiveUpStep
<1>6. CASE account # NoWallet
  <2>1. /\ page' \in Page /\ page'.status = page.status
        /\ page'.provider = page.provider /\ page'.balance = page.balance
    BY <1>1, <1>2, <1>6 DEF Page
  <2>2. connect' \in Connect /\ connect'.at = "chain" /\ connect'.account = account
    <3>1. connect' = [connect EXCEPT !.at = "chain", !.account = account]
      BY <1>1, <1>6
    <3>2. connect \in Connect /\ account \in Accounts /\ "chain" \in Labels
      BY <1>2 DEF Labels
    <3> QED BY <3>1, <3>2 DEF Connect
  <2> QED BY <1>3, <1>4, <1>6, <2>1, <2>2, GoOn
<1> QED BY <1>5, <1>6

LEMMA ChainConfirmedStep ==
  ASSUME PageInv, ServerInv, connect.at \in {"chain", "confirm"}, ChainConfirmed,
         UNCHANGED <<grants, syncs, reads, due, logout, cookie, wallet, notices>>
  PROVE  PageInv'
<1>1. /\ page \in Page /\ connect \in Connect /\ connect.account # NoWallet
      /\ wallet \in [account : Accounts, chain : Chains, injected : BOOLEAN]
      /\ notices \in Nat /\ Connecting
  BY DEF PageInv, PageTyped, ConnectOK, Connecting
<1>2. Aside
  BY <1>1, LocalAside
<1>3. CASE wallet.chain = "celo"
  <2>1. /\ page' \in Page /\ page'.status = page.status
        /\ page'.provider = page.provider /\ page'.balance = page.balance
    BY <1>1, <1>3 DEF ChainConfirmed, Page, Chains
  <2>2. /\ connect' \in Connect /\ connect'.at = "challenge"
        /\ connect'.account = connect.account
    <3>1. connect' = [connect EXCEPT !.at = "challenge", !.fresh = TRUE]
      BY <1>3 DEF ChainConfirmed
    <3>2. connect \in Connect /\ "challenge" \in Labels
      BY <1>1 DEF Labels
    <3> QED BY <3>1, <3>2 DEF Connect
  <2> QED BY <1>1, <1>2, <2>1, <2>2, GoOn
<1>4. CASE wallet.chain # "celo"
  <2> DEFINE p == [page EXCEPT !.chain = wallet.chain]
  <2>1. p \in Page /\ p.provider = page.provider /\ p.balance = page.balance
    BY <1>1 DEF Page
  <2>2. GiveUp(p)
    BY <1>4 DEF ChainConfirmed
  <2> QED BY <1>1, <1>2, <2>1, <2>2, GiveUpStep
<1> QED BY <1>3, <1>4

LEMMA ChainSteps ==
  ASSUME PageInv, ServerInv, ReadChain \/ SwitchChain \/ ConfirmChain
  PROVE  PageInv'
<1>1. /\ page \in Page /\ connect \in Connect /\ notices \in Nat
      /\ wallet \in [account : Accounts, chain : Chains, injected : BOOLEAN]
  BY DEF PageInv, PageTyped
<1>2. /\ UNCHANGED <<grants, syncs, reads, due, logout, cookie>>
      /\ connect.at \in {"chain", "switch", "confirm"}
  BY DEF ReadChain, SwitchChain, ConfirmChain, serverVars, envVars
<1>3. Connecting /\ connect.account # NoWallet
  BY <1>2 DEF Connecting, PageInv, ConnectOK
<1>4. ASSUME ChainConfirmed, connect.at # "switch", UNCHANGED <<wallet, notices>>
      PROVE  PageInv'
  BY <1>2, <1>4, ChainConfirmedStep
<1>5. ASSUME NEW label \in {"switch", "confirm"}, Goto(label), page' = page,
             wallet' \in [account : Accounts, chain : Chains, injected : BOOLEAN],
             notices' \in Nat
      PROVE  PageInv'
  <2>1. Aside
    BY <1>2, <1>5, LocalAside
  <2>2. connect' \in Connect /\ connect'.at = label /\ connect'.account = connect.account
    BY <1>1, <1>5 DEF Goto, Connect, Labels
  <2> QED BY <1>1, <1>2, <1>3, <1>5, <2>1, <2>2, GoOn
<1>6. CASE ReadChain
  BY <1>1, <1>4, <1>5, <1>6 DEF ReadChain, envVars
<1>7. CASE SwitchChain
  <2>1. PICK chain \in {"celo", wallet.chain} :
          /\ wallet' = [wallet EXCEPT !.chain = chain]
          /\ notices' = IF chain # wallet.chain THEN notices + 1 ELSE notices
    BY <1>7 DEF SwitchChain
  <2>2. /\ wallet' \in [account : Accounts, chain : Chains, injected : BOOLEAN]
        /\ notices' \in Nat
    BY <1>1, <2>1 DEF Chains
  <2> QED BY <1>5, <1>7, <2>2 DEF SwitchChain
<1>8. CASE ConfirmChain
  BY <1>4, <1>8 DEF ConfirmChain, envVars
<1> QED BY <1>6, <1>7, <1>8

LEMMA AskChallengeStep ==
  ASSUME PageInv, ServerInv, ServerInv', GrantsKept, AskChallenge
  PROVE  PageInv'
<1>1. /\ page \in Page /\ connect \in Connect /\ cookie \in Nat /\ cookie <= Len(grants)
      /\ wallet \in [account : Accounts, chain : Chains, injected : BOOLEAN]
      /\ notices \in Nat
  BY DEF PageInv, PageTyped
<1>2. /\ UNCHANGED <<page, syncs, reads, due, logout, cookie, wallet, notices, grants>>
      /\ connect.at = "challenge" /\ Connecting
      /\ connect' = [connect EXCEPT !.at = "sign",
                                    !.message = NewMessage(connect.account)]
  BY DEF AskChallenge, ServeChallenge, envVars, Connecting
<1>3. connect.account # NoWallet /\ connect.account \in Wallets
  BY <1>1, <1>2 DEF PageInv, ConnectOK, Connect, Accounts
<1>4. Aside
  BY <1>1, <1>2, LocalAside
<1>5. NewMessage(connect.account) \in Message
  BY <1>3, TypedStep, TimesAssumption DEF NewMessage, Message
<1>6. connect' \in Connect /\ connect'.at = "sign" /\ connect'.account = connect.account
  BY <1>1, <1>2, <1>5 DEF Connect, Labels
<1> QED BY <1>1, <1>2, <1>3, <1>4, <1>6, GoOn

LEMMA SignStep ==
  ASSUME PageInv, ServerInv, Sign
  PROVE  PageInv'
<1>1. /\ page \in Page /\ connect \in Connect /\ notices \in Nat
      /\ wallet \in [account : Accounts, chain : Chains, injected : BOOLEAN]
  BY DEF PageInv, PageTyped
<1>2. /\ UNCHANGED <<page, syncs, reads, due, logout, cookie, wallet, notices, grants>>
      /\ connect.at = "sign" /\ Connecting /\ connect.account # NoWallet
  BY DEF Sign, envVars, serverVars, Connecting, PageInv, ConnectOK
<1>3. PICK signer \in Accounts :
        connect' = [connect EXCEPT !.at = "verify", !.signer = signer]
  BY <1>1 DEF Sign, Connect
<1>4. connect' \in Connect /\ connect'.at = "verify" /\ connect'.account = connect.account
  BY <1>1, <1>3 DEF Connect, Labels
<1>5. Aside
  BY <1>1, <1>2, LocalAside
<1> QED BY <1>1, <1>2, <1>4, <1>5, GoOn

LEMMA VerifyStep ==
  ASSUME PageInv, ServerInv, Verify
  PROVE  PageInv'
<1>1. /\ page \in Page /\ connect \in Connect /\ cookie \in Nat /\ cookie <= Len(grants)
      /\ wallet \in [account : Accounts, chain : Chains, injected : BOOLEAN]
      /\ notices \in Nat
  BY DEF PageInv, PageTyped
<1>2. /\ UNCHANGED <<syncs, reads, due, logout, wallet, notices>>
      /\ connect.at = "verify" /\ Connecting /\ connect.account # NoWallet
      /\ ServeVerify(connect.message, connect.signer)
  BY DEF Verify, envVars, Connecting, PageInv, ConnectOK
<1> PICK message, signer : message = connect.message /\ signer = connect.signer
  OBVIOUS
<1>3. /\ ServerInv' /\ GrantsKept
      /\ Verifies(message, signer) =>
           /\ Len(grants') = Len(grants) + 1
           /\ message.address \in Wallets
           /\ grants'[Len(grants) + 1].address = message.address
           /\ Proven(message.address)'
  BY <1>2, ServeVerifyStep
<1>4. Len(grants) \in Nat /\ Len(grants)' \in Nat
  <2>1. grants' \in Seq(Grant)
    BY <1>3 DEF ServerInv, ServerTypeOK
  <2> QED BY <2>1, TypedStep
<1>5. CASE Verifies(message, signer)
  <2>1. /\ cookie' = Len(grants) + 1 /\ page' = page
        /\ connect' = [connect EXCEPT !.at = "check", !.verified = message.address]
    BY <1>5 DEF Verify
  <2>2. /\ connect' \in Connect /\ connect'.at = "check" /\ connect'.verified = message.address
        /\ connect'.account = connect.account
    BY <1>1, <1>3, <1>5, <2>1 DEF Connect, Labels, Accounts
  <2>3. Proven(connect.verified)' /\ CookieIsOf(connect.verified)'
    BY <1>3, <1>5, <2>1, <2>2 DEF Proven, CookieIsOf
  <2>4. Aside
    BY <1>1, <1>2, <1>3, <1>4, <1>5, <2>1 DEF Aside
  <2> QED BY <1>1, <1>2, <2>1, <2>2, <2>3, <2>4, GoOn
<1>6. CASE ~Verifies(message, signer)
  <2>1. GiveUp(page) /\ cookie' = cookie
    BY <1>6 DEF Verify
  <2>2. cookie' <= Len(grants)'
    BY <1>1, <1>3, <1>4, <2>1 DEF GrantsKept
  <2>3. Aside
    BY <1>1, <1>2, <1>3, <1>4, <2>1, <2>2 DEF Aside
  <2> QED BY <1>1, <1>2, <2>1, <2>3, GiveUpStep
<1> QED BY <1>5, <1>6

LEMMA ReadBackStep ==
  ASSUME PageInv, ServerInv, ReadBack
  PROVE  PageInv'
<1>1. /\ page \in Page /\ connect \in Connect /\ notices \in Nat
      /\ wallet \in [account : Accounts, chain : Chains, injected : BOOLEAN]
  BY DEF PageInv, PageTyped
<1>2. /\ UNCHANGED <<page, syncs, reads, due, logout, cookie, wallet, notices, grants>>
      /\ connect.at = "check" /\ Connecting /\ connect.account # NoWallet
      /\ Proven(connect.verified) /\ CookieIsOf(connect.verified)
      /\ connect' = [connect EXCEPT !.at = "finish", !.current = wallet.account]
  BY DEF ReadBack, envVars, serverVars, Connecting, PageInv, ConnectOK, CookieOK
<1>3. /\ connect' \in Connect /\ connect'.at = "finish"
      /\ connect'.account = connect.account /\ connect'.verified = connect.verified
      /\ connect'.current = wallet.account
  BY <1>1, <1>2 DEF Connect, Labels
<1>4. Proven(connect.verified)' /\ CookieIsOf(connect.verified)'
  BY <1>2, <1>3 DEF Proven, CookieIsOf
<1>5. Aside
  BY <1>1, <1>2, LocalAside
<1> QED BY <1>1, <1>2, <1>3, <1>4, <1>5, GoOn

LEMMA FinishStep ==
  ASSUME PageInv, ServerInv, Finish
  PROVE  PageInv'
<1> DEFINE account == connect.current
           seen == [page EXCEPT !.address = account, !.chain = wallet.chain]
<1>1. /\ page \in Page /\ connect \in Connect /\ due \subseteq Wallets /\ notices \in Nat
      /\ wallet \in [account : Accounts, chain : Chains, injected : BOOLEAN]
  BY DEF PageInv, PageTyped
<1>2. /\ UNCHANGED <<syncs, reads, logout, cookie, wallet, notices, grants>>
      /\ connect.at = "finish" /\ Connecting /\ connect.account # NoWallet
      /\ Proven(connect.verified) /\ page.provider /\ ~SignedIn
      /\ CookieIsOf(connect.verified)
  BY DEF Finish, envVars, serverVars, Connecting, PageInv, ConnectOK, CookieOK, Listening,
         SignedIn
<1>3. seen \in Page /\ seen.provider = page.provider /\ seen.balance = page.balance
  BY <1>1 DEF Page, Connect
<1>4. Aside
  BY <1>1, <1>2, LocalAside
<1>5. CASE StillWanted(account) /\ wallet.chain = "celo"
  <2>1. /\ page' = [seen EXCEPT !.session = account, !.status = "authenticated"]
        /\ due' = due \cup {account}
        /\ connect' = Idle
    BY <1>5 DEF Finish
  <2>2. /\ connect.fresh /\ account = connect.account /\ connect.verified = account
        /\ account \in Wallets
    BY <1>1, <1>2, <1>5 DEF StillWanted, Connect, Accounts
  <2>3. /\ page' \in Page /\ page'.session = account /\ page'.address = account
        /\ page'.chain = "celo" /\ page'.provider /\ page'.balance = NoWallet
        /\ SignedIn'
    BY <1>1, <1>2, <1>5, <2>1, <2>2, NothingShown DEF Page, SignedIn, Accounts
  <2>4. connect' \in Connect /\ connect'.at = "idle"
    BY <2>1 DEF Idle, Connect, Labels, Accounts
  <2>5. due' \subseteq Wallets
    BY <1>1, <2>1, <2>2
  <2>6. PageTyped'
    BY <1>4, <2>3, <2>4, <2>5, AsideTyped
  <2>7. Listening' /\ ConnectOK'
    BY <2>3, <2>4 DEF Listening, ConnectOK, Connecting
  <2>8. SyncOK'
    BY <1>2, <1>4, AsideSyncs
  <2>9. notices = 0 => wallet.account = account
    BY <1>2, <2>2 DEF PageInv, ConnectOK
  <2>10. SignInIsCurrent'
    BY <1>2, <1>5, <2>2, <2>3, <2>4, <2>9 DEF SignInIsCurrent, Connecting, Proven
  <2>11. CookieOK'
    BY <1>2, <1>4, <2>2, <2>3, <2>4, AsideSyncs DEF CookieOK, CookieIsOf
  <2>12. ReadOK'
    <3>1. \A w \in Holders' : w = account
      BY <1>2, <2>1, <2>3, NothingShown, NoWalletAssumption DEF Holders
    <3> QED BY <1>2, <1>4, <2>2, <2>3, <2>4, <3>1, AsideSyncs
            DEF ReadOK, CookieIsOf, Connecting
  <2> QED BY <2>6, <2>7, <2>8, <2>10, <2>11, <2>12 DEF PageInv
<1>6. CASE ~(StillWanted(account) /\ wallet.chain = "celo")
  <2>1. GiveUp(seen) /\ UNCHANGED due
    BY <1>6 DEF Finish
  <2> QED BY <1>2, <1>3, <1>4, <2>1, GiveUpStep
<1> QED BY <1>5, <1>6

LEMMA ConnectFailsStep ==
  ASSUME PageInv, ServerInv, ConnectFails
  PROVE  PageInv'
<1>1. /\ page \in Page /\ notices \in Nat
      /\ wallet \in [account : Accounts, chain : Chains, injected : BOOLEAN]
  BY DEF PageInv, PageTyped
<1>2. /\ UNCHANGED <<syncs, reads, due, logout, cookie, wallet, notices, grants>>
      /\ Connecting /\ GiveUp(page)
  BY DEF ConnectFails, envVars, serverVars
<1>3. Aside
  BY <1>1, <1>2, LocalAside
<1> QED BY <1>1, <1>2, <1>3, GiveUpStep

-----------------------------------------------------------------------------
(* The balance, the sign-out, and everyone else *)

LEMMA BalanceStep ==
  ASSUME PageInv, ServerInv, RunBalanceEffect \/ RefreshBalance \/ BalanceArrives
  PROVE  PageInv'
<1>1. /\ page \in Page /\ reads \subseteq Read /\ due \subseteq Wallets
      /\ UNCHANGED <<connect, syncs, logout, cookie, wallet, notices, grants>>
  BY DEF RunBalanceEffect, RefreshBalance, BalanceArrives, envVars, serverVars, PageInv,
         PageTyped
<1>2. /\ reads' \subseteq Read /\ due' \subseteq Wallets
      /\ page' \in Page
      /\ \A w \in Holders' : w \in Holders \/ (SignedIn /\ w = page.session)
      /\ page'.status = page.status /\ page'.session = page.session
      /\ page'.address = page.address /\ page'.chain = page.chain
      /\ page'.provider = page.provider
  <2>1. CASE RunBalanceEffect
    <3>1. PICK holder \in due : /\ due' = due \ {holder} /\ page' = page
                               /\ reads' = reads \cup {[holder |-> holder, fresh |-> TRUE]}
      BY <2>1 DEF RunBalanceEffect, StartRead
    <3>2. [holder |-> holder, fresh |-> TRUE] \in Read
      BY <1>1 DEF Read
    <3>3. Holders' \subseteq Holders
      BY <3>1 DEF Holders
    <3> QED BY <1>1, <3>1, <3>2, <3>3
  <2>2. CASE RefreshBalance
    <3>1. page.session \in Wallets /\ SignedIn
      BY <1>1, <2>2 DEF RefreshBalance, PageInv, SignInIsCurrent, Page, Accounts
    <3> DEFINE r == [holder |-> page.session, fresh |-> TRUE]
    <3>2. reads' = reads \cup {r} /\ page' = page /\ due' = due
      BY <2>2 DEF RefreshBalance, StartRead
    <3>3. r \in Read
      BY <3>1 DEF Read
    <3>4. \A w \in Holders' : w \in Holders \/ w = page.session
      BY <3>2 DEF Holders
    <3> QED BY <1>1, <3>1, <3>2, <3>3, <3>4
  <2>3. CASE BalanceArrives
    <3>1. PICK r \in reads, shown \in BOOLEAN :
            /\ reads' = reads \ {r} /\ due' = due
            /\ page' = IF ReadCurrent(r)
                       THEN [page EXCEPT !.balance = IF shown THEN r.holder ELSE NoWallet]
                       ELSE page
      BY <2>3 DEF BalanceArrives
    <3>2. r.holder \in Wallets
      BY <1>1, <3>1 DEF Read
    <3>3. /\ page' \in Page
          /\ page'.status = page.status /\ page'.session = page.session
          /\ page'.address = page.address /\ page'.chain = page.chain
          /\ page'.provider = page.provider
          /\ page'.balance \in {page.balance, NoWallet}
               \/ (r.fresh /\ page'.balance = r.holder)
      BY <1>1, <3>1, <3>2 DEF ReadCurrent, Page, Accounts
    <3>4. Holders' \subseteq Holders
      BY <3>1, <3>3, NoWalletAssumption DEF Holders
    <3> QED BY <1>1, <3>1, <3>3, <3>4
  <2> QED BY <1>1, <2>1, <2>2, <2>3
<1>3. SignedIn' = SignedIn /\ Connecting' = Connecting
  BY <1>1, <1>2 DEF SignedIn, Connecting
<1>4. PageTyped' /\ Listening'
  BY <1>1, <1>2, <1>3 DEF PageInv, PageTyped, Listening
<1>5. ConnectOK' /\ SyncOK'
  BY <1>1, <1>2, <1>3 DEF PageInv, ConnectOK, SyncOK, Proven
<1>6. SignInIsCurrent'
  BY <1>1, <1>2, <1>3 DEF PageInv, SignInIsCurrent
<1>7. CookieOK'
  BY <1>1, <1>2, <1>3, SameGrants, CookieKept
<1>8. ReadOK'
  <2> SUFFICES ASSUME NEW w \in Holders'
               PROVE  /\ ~Connecting /\ CookieIsOf(w)
                      /\ SignedIn => w = page.session
                      /\ \A s \in syncs : s.fresh => s.token = 0 \/ grants[s.token].address = w
    BY <1>1, <1>2, <1>3 DEF ReadOK, CookieIsOf
  <2>1. CASE w \in Holders
    BY <2>1 DEF PageInv, ReadOK
  <2>2. CASE SignedIn /\ w = page.session
    BY <2>2 DEF PageInv, CookieOK, SyncOK, SignInIsCurrent
  <2> QED BY <1>2, <2>1, <2>2
<1> QED BY <1>4, <1>5, <1>6, <1>7, <1>8 DEF PageInv

LEMMA DisconnectStep ==
  ASSUME PageInv, ServerInv, Disconnect
  PROVE  PageInv'
<1>1. /\ page \in Page /\ connect \in Connect /\ cookie \in Nat /\ cookie <= Len(grants)
      /\ SignedIn /\ ~Connecting /\ page.provider
      /\ UNCHANGED <<grants, due, cookie, wallet, notices>>
  BY DEF Disconnect, serverVars, envVars, PageInv, PageTyped, SignInIsCurrent, Listening
<1>2. /\ page' = SignedOutPage("disconnected") /\ connect' = Overtaken
      /\ syncs' = Stale(Kept) /\ reads' = Stale(reads)
      /\ logout' = [at |-> "sent", token |-> cookie]
  BY DEF Disconnect
<1>3. /\ page' \in Page /\ page'.status = "disconnected" /\ page'.provider
      /\ page'.balance = NoWallet
  BY <1>1, <1>2 DEF SignedOutPage, Page, Accounts
<1>4. connect' \in Connect /\ connect'.at = "idle"
  BY <1>1, <1>2 DEF Overtaken, Connect, Connecting
<1>5. /\ logout' \in [at : {"none", "sent", "served"}, token : Nat]
      /\ logout'.token <= Len(grants)
  BY <1>1, <1>2
<1>6. PageTyped'
  BY <1>1, <1>2, <1>3, <1>4, <1>5, StaleSyncs, StaleReads DEF PageInv, PageTyped
<1>7. Listening' /\ ConnectOK' /\ ~SignedIn'
  BY <1>3, <1>4 DEF Listening, ConnectOK, SignedIn, Connecting
<1>8. SyncOK'
  <2>1. \A s \in syncs' : s.session \notin {"pending", NoWallet} => Proven(s.session)'
    BY <1>1, <1>2, StaleSyncs DEF Proven
  <2> QED BY <1>2, <2>1, StaleSyncs DEF SyncOK
<1>9. SignInIsCurrent'
  BY <1>7 DEF SignInIsCurrent
<1>10. CookieOK' /\ ReadOK'
  <2>1. /\ \A s \in syncs' : ~s.fresh
        /\ \A r \in reads' : ~r.fresh
    BY <1>2, StaleSyncs, StaleReads
  <2>2. Connecting' = Connecting
    BY <1>1, <1>4 DEF Connecting
  <2> QED BY <1>1, <1>3, <1>4, <1>7, <2>1, <2>2, SameGrants, SameHolders, CookieKept,
             ReadsKept
<1> QED BY <1>6, <1>7, <1>8, <1>9, <1>10 DEF PageInv

LEMMA QuietSteps ==
  ASSUME PageInv, ServerInv, ServerInv', GrantsKept,
         \/ VerifyUnanswered \/ LogoutServed \/ LogoutArrives \/ LogoutLost
         \/ ServerEvents
  PROVE  PageInv'
<1>1. UNCHANGED <<page, connect, syncs, reads, due, wallet, notices>>
  BY DEF VerifyUnanswered, LogoutServed, LogoutArrives, LogoutLost, ServerEvents,
         pageVars, envVars
<1>2. Len(grants) \in Nat /\ Len(grants)' \in Nat /\ Len(grants) <= Len(grants)'
  <2>1. grants' \in Seq(Grant)
    BY DEF ServerInv, ServerTypeOK
  <2> QED BY <2>1, TypedStep DEF GrantsKept
<1>3. /\ cookie \in Nat /\ cookie <= Len(grants)
      /\ logout \in [at : {"none", "sent", "served"}, token : Nat]
      /\ logout.token <= Len(grants)
  BY DEF PageInv, PageTyped
<1>4. cookie' \in {cookie, 0}
  BY DEF VerifyUnanswered, LogoutServed, LogoutArrives, LogoutLost, ServerEvents
<1>5. cookie' \in Nat /\ cookie' <= Len(grants)'
  BY <1>2, <1>3, <1>4
<1>6. \/ logout' = logout \/ logout' = [at |-> "none", token |-> 0]
      \/ logout' = [logout EXCEPT !.at = "served"]
  BY DEF VerifyUnanswered, LogoutServed, LogoutArrives, LogoutLost, ServerEvents
<1>7. /\ logout' \in [at : {"none", "sent", "served"}, token : Nat]
      /\ logout'.token <= Len(grants)'
  BY <1>2, <1>3, <1>6
<1> QED BY <1>1, <1>2, <1>4, <1>5, <1>7, QuietStep

LEMMA WalletSteps ==
  ASSUME PageInv, ServerInv, WalletChanges \/ InjectLate
  PROVE  PageInv'
<1>1. /\ UNCHANGED <<page, connect, syncs, reads, due, logout, cookie, grants>>
  BY DEF WalletChanges, InjectLate, serverVars, pageVars
<1>2. wallet \in [account : Accounts, chain : Chains, injected : BOOLEAN] /\ notices \in Nat
  BY DEF PageInv, PageTyped
<1>3. /\ wallet' \in [account : Accounts, chain : Chains, injected : BOOLEAN]
      /\ notices' \in Nat
      /\ notices' > 0 => page.provider
      /\ page.provider /\ notices' = 0 =>
           notices = 0 /\ wallet'.account = wallet.account /\ wallet'.chain = wallet.chain
  <2>1. CASE InjectLate
    BY <1>2, <2>1 DEF InjectLate, PageInv, Listening
  <2>2. CASE WalletChanges
    <3>1. wallet' \in [account : Accounts, chain : Chains, injected : BOOLEAN]
      BY <1>2, <2>2 DEF WalletChanges
    <3>2. notices' = IF page.provider THEN notices + 1 ELSE notices
      BY <2>2 DEF WalletChanges
    <3> QED BY <1>2, <3>1, <3>2 DEF PageInv, Listening
  <2> QED BY <2>1, <2>2
<1>4. PageTyped' /\ Listening'
  BY <1>1, <1>3 DEF PageInv, PageTyped, Listening, SignedIn, Connecting
<1>5. ConnectOK'
  BY <1>1, <1>3 DEF PageInv, ConnectOK, SignedIn, Connecting, Proven, Listening
<1>6. SyncOK'
  BY <1>1, <1>3 DEF PageInv, SyncOK, SignedIn, Connecting, Proven, Listening
<1>7. SignInIsCurrent'
  BY <1>1, <1>3 DEF PageInv, SignInIsCurrent, SignedIn, Connecting, Listening
<1>8. CookieOK' /\ ReadOK'
  BY <1>1, SameGrants, SameHolders, CookieKept, ReadsKept DEF SignedIn, Connecting
<1> QED BY <1>4, <1>5, <1>6, <1>7, <1>8 DEF PageInv

-----------------------------------------------------------------------------
LEMMA InitOK == Init => ServerInv /\ PageInv
<1> SUFFICES ASSUME Init PROVE ServerInv /\ PageInv
  OBVIOUS
<1>1. ServerInv /\ Len(grants) = 0
  BY ServerInitOK DEF Init, ServerInit
<1>2. /\ page = [provider |-> FALSE, status |-> "detecting", address |-> NoWallet,
                 session |-> NoWallet, chain |-> "none", balance |-> NoWallet]
      /\ connect = Idle /\ syncs = {} /\ reads = {} /\ due = {} /\ cookie = 0 /\ notices = 0
      /\ logout = [at |-> "none", token |-> 0]
      /\ wallet \in [account : Accounts, chain : Chains, injected : BOOLEAN]
  BY DEF Init
<1>3. page \in Page
  BY <1>2 DEF Page, Accounts
<1>4. connect \in Connect /\ connect.at = "idle"
  BY <1>2 DEF Idle, Connect, Labels, Accounts
<1>5. PageTyped
  BY <1>1, <1>2, <1>3, <1>4 DEF PageTyped
<1>6. /\ Listening /\ ConnectOK /\ SyncOK /\ CookieOK /\ ReadOK
      /\ SignInIsCurrent
  BY <1>2, <1>4, NoWalletAssumption
     DEF Listening, ConnectOK, SyncOK, CookieOK, ReadOK, Holders, SignInIsCurrent,
         SignedIn, Connecting
<1> QED BY <1>1, <1>5, <1>6 DEF PageInv

(* What a step of the page is to the server *)
LEMMA ServerPart ==
  ASSUME PageInv, Next
  PROVE  ServerStep \/ UNCHANGED serverVars
<1>1. CASE Detect \/ HandleNotice \/ StartConnect \/ RunBalanceEffect
           \/ RefreshBalance \/ BalanceArrives \/ Disconnect \/ LogoutArrives \/ LogoutLost
  BY <1>1 DEF Detect, HandleNotice, StartConnect, RunBalanceEffect, RefreshBalance, BalanceArrives,
              Disconnect, LogoutArrives, LogoutLost
<1>2. CASE SyncSteps
  BY <1>2 DEF SyncSteps, SyncReadsWallet, SyncReadsSession, SyncFails, SyncArrives,
              ServerStep
<1>3. CASE ConnectSteps
  <2>1. CASE RequestAccounts \/ ReadChain \/ SwitchChain \/ ConfirmChain \/ Sign
             \/ ReadBack \/ Finish \/ ConnectFails
    BY <2>1 DEF RequestAccounts, ReadChain, SwitchChain, ConfirmChain, Sign, ReadBack,
                Finish, ConnectFails
  <2>2. CASE AskChallenge
    <3>1. connect.account \in Wallets
      BY <2>2 DEF AskChallenge, PageInv, PageTyped, ConnectOK, Connect, Accounts
    <3> QED BY <2>2, <3>1 DEF AskChallenge, ServerStep
  <2>3. CASE Verify \/ VerifyUnanswered
    BY <2>3 DEF Verify, VerifyUnanswered, ServerStep
  <2> QED BY <1>3, <2>1, <2>2, <2>3 DEF ConnectSteps
<1>4. CASE LogoutServed
  BY <1>4 DEF LogoutServed, ServerStep
<1>5. CASE Environment
  BY <1>5 DEF Environment, WalletChanges, InjectLate, ServerEvents, ServerStep
<1> QED BY <1>1, <1>2, <1>3, <1>4, <1>5 DEF Next

LEMMA StutterOK ==
  ASSUME ServerInv, PageInv, UNCHANGED vars
  PROVE  ServerInv' /\ PageInv'
<1>1. UNCHANGED <<now, challenges, issued, bucket, admitted, grants, sessions>>
  BY DEF vars, serverVars
<1>2. ServerInv'
  BY <1>1 DEF ServerInv, ServerTypeOK, NoncesAreSpent, SessionsWereSigned,
              WindowsAreCounted, BurstBounded
<1>3. UNCHANGED <<page, connect, syncs, reads, due, logout, cookie, wallet, notices>>
  BY DEF vars, pageVars, envVars
<1>4. GrantsKept /\ Len(grants) \in Nat
  BY <1>1, TypedStep DEF GrantsKept, Proven
<1>5. PageInv'
  BY <1>1, <1>3, <1>4, QuietStep DEF PageInv, PageTyped
<1> QED BY <1>2, <1>5

LEMMA StepOK == ServerInv /\ PageInv /\ [Next]_vars => ServerInv' /\ PageInv'
<1> SUFFICES ASSUME ServerInv, PageInv, [Next]_vars
             PROVE  ServerInv' /\ PageInv'
  OBVIOUS
<1>1. CASE UNCHANGED vars
  BY <1>1, StutterOK
<1>2. CASE Next
  <2>1. ServerInv' /\ GrantsKept
    <3>1. CASE ServerStep
      BY <3>1, ServerStepOK
    <3>2. CASE UNCHANGED serverVars
      <4>1. UNCHANGED <<now, challenges, issued, bucket, admitted, grants, sessions>>
        BY <3>2 DEF serverVars
      <4>2. ServerInv'
        BY <4>1 DEF ServerInv, ServerTypeOK, NoncesAreSpent, SessionsWereSigned,
                    WindowsAreCounted, BurstBounded
      <4> QED BY <4>1, <4>2, TypedStep DEF GrantsKept, Proven
    <3> QED BY <1>2, <3>1, <3>2, ServerPart
  <2>2. CASE SyncSteps
    <3>1. PICK s \in syncs : SyncReadsWallet(s) \/ SyncReadsSession(s)
                               \/ SyncFails(s) \/ SyncArrives(s)
      BY <2>2 DEF SyncSteps
    <3>2. CASE SyncReadsWallet(s)
      BY <2>1, <3>1, <3>2, SyncReadsWalletStep
    <3>3. CASE SyncReadsSession(s)
      BY <2>1, <3>1, <3>3, SyncReadsSessionStep
    <3>4. CASE SyncFails(s)
      BY <2>1, <3>1, <3>4, SyncFailsStep
    <3>5. CASE SyncArrives(s)
      BY <2>1, <3>1, <3>5, SyncArrivesStep
    <3> QED BY <2>1, <3>1, <3>2, <3>3, <3>4, <3>5
  <2>3. CASE ConnectSteps
    BY <2>1, <2>3, RequestAccountsStep, ChainSteps, AskChallengeStep, SignStep, VerifyStep,
       QuietSteps, ReadBackStep, FinishStep, ConnectFailsStep DEF ConnectSteps
  <2>4. CASE Environment
    BY <2>1, <2>4, WalletSteps, QuietSteps DEF Environment
  <2>5. PageInv'
    BY <1>2, <2>1, <2>2, <2>3, <2>4, DetectStep, HandleNoticeStep, StartConnectStep,
       BalanceStep, DisconnectStep, QuietSteps DEF Next
  <2> QED BY <2>1, <2>5
<1> QED BY <1>1, <1>2

(* The inductive invariant of a page and its server                          *)
THEOREM SignInIsSafe == Spec => [](ServerInv /\ PageInv)
BY InitOK, StepOK, PTL DEF Spec

(* Type correctness of the page, its requests and the server.                *)
THEOREM SignInTypeOK == Spec => []TypeOK
<1>1. ServerInv /\ PageInv => TypeOK
  <2> SUFFICES ASSUME ServerInv, PageInv PROVE TypeOK
    OBVIOUS
  <2>1. ServerTypeOK /\ Len(grants) \in Nat
    BY TypedStep DEF ServerInv
  <2>2. PageTyped
    BY DEF PageInv
  <2>3. \A s \in syncs : s.fresh \in BOOLEAN /\ s.token \in 0..Len(grants)
    BY <2>1, <2>2 DEF PageTyped, Sync
  <2>4. logout \in [at : {"none", "sent", "served"}, token : 0..Len(grants)]
    BY <2>1, <2>2 DEF PageTyped
  <2>5. cookie \in 0..Len(grants)
    BY <2>1, <2>2 DEF PageTyped
  <2> QED BY <2>1, <2>2, <2>3, <2>4, <2>5 DEF TypeOK, PageTyped, Connect, Labels, Read
<1> QED BY <1>1, SignInIsSafe, PTL

(* However often challenges are repeated, verifications are delivered twice   *)
(* or the server forgets, every session was signed for once, by its wallet    *)
(* (verifySignedChallenge, consumeChallenge).                                *)
THEOREM EverySessionWasSigned == Spec => []SessionsWereSigned
<1>1. ServerInv => SessionsWereSigned
  BY DEF ServerInv
<1> QED BY <1>1, SignInIsSafe, PTL

(* Any 2 * limit admissions in a row take longer than a window (rateLimit).   *)
THEOREM BurstsAreBounded == Spec => []BurstBounded
<1>1. ServerInv => BurstBounded
  BY DEF ServerInv
<1> QED BY <1>1, SignInIsSafe, PTL

(* A page that is signed in is signed in as the account the wallet is on,     *)
(* once it has heard of every change (synchronize, connect).                  *)
THEOREM SignedInAsTheWallet == Spec => []SignInIsCurrent
<1>1. PageInv => SignInIsCurrent
  BY DEF PageInv
<1> QED BY <1>1, SignInIsSafe, PTL

(* The balance on display is that of the session (refreshBalance).            *)
THEOREM BalanceOfTheSession == Spec => []BalanceIsOfSession
<1>1. PageInv => BalanceIsOfSession
  BY DEF PageInv, PageTyped, ReadOK, Holders, Page, Accounts, BalanceIsOfSession
<1> QED BY <1>1, SignInIsSafe, PTL
=============================================================================
