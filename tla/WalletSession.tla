--------------------------- MODULE WalletSession ---------------------------
(***************************************************************************)
(* Signing in from one page: components/wallet/WalletProvider.tsx, the      *)
(* injected wallet behind it (lib/wallet/eip1193.ts) and the requests of    *)
(* lib/auth/client.ts, against the server of AuthServer.                    *)
(*                                                                         *)
(* The wallet is its user's: its account and chain change under the page,   *)
(* before it is told.  The provider numbers these changes (walletRevision)  *)
(* and every operation compares the number it captured when it resumes.     *)
(* Only that comparison is kept: an operation is fresh until the number     *)
(* moves on.                                                               *)
(***************************************************************************)
EXTENDS AuthServer, FiniteSets

CONSTANTS
  MaxEvents,      \* bound: changes of the wallet, ticks, restarts, other clients
  MaxSyncs,       \* bound: synchronisations running at a time
  MaxChallenges   \* bound: challenges issued

VARIABLES
  page,      \* what WalletProvider renders from
  connect,   \* the connect() that is running, and where it awaits
  syncs,     \* the synchronize() calls that are running
  reads,     \* the balance reads that are running
  due,       \* the sessions whose balance effect has not run yet
  logout,    \* the sign-out request
  cookie,    \* the browser's session cookie
  wallet,    \* the injected wallet
  notices,   \* accountsChanged and chainChanged events not yet handled
  happened   \* how many events the environment has had

pageVars == <<page, connect, syncs, reads, due>>
envVars == <<wallet, notices, happened>>
vars == <<serverVars, pageVars, logout, cookie, envVars>>

Chains == {"celo", "other"}
Accounts == Wallets \cup {NoWallet}

Page ==
  [ provider : BOOLEAN,
    status   : {"detecting", "unavailable", "disconnected", "connecting",
                "authenticated"},
    address  : Accounts,
    session  : Accounts,
    chain    : Chains \cup {"none"},
    balance  : Accounts ]         \* whose balance is on display

NoMessage ==
  [nonce |-> 0, address |-> NoWallet, issuedAt |-> 0, expiresAt |-> 0]

Idle ==
  [ at |-> "idle", account |-> NoWallet, message |-> NoMessage,
    signer |-> NoWallet, fresh |-> FALSE, verified |-> NoWallet,
    current |-> NoWallet ]

Unread == [account |-> NoWallet, chain |-> "none"]

(* What one synchronize() has read so far. *)
Started(token) ==
  [fresh |-> TRUE, token |-> token, wallet |-> Unread, session |-> "pending"]

SignedIn == page.status = "authenticated"
Connecting == connect.at # "idle"

Init ==
  /\ ServerInit
  /\ page = [ provider |-> FALSE, status |-> "detecting", address |-> NoWallet,
              session |-> NoWallet, chain |-> "none", balance |-> NoWallet ]
  /\ connect = Idle
  /\ syncs = {}
  /\ reads = {}
  /\ due = {}
  /\ logout = [at |-> "none", token |-> 0]
  /\ cookie = 0
  /\ wallet \in [account : Accounts, chain : Chains, injected : BOOLEAN]
  /\ notices = 0
  /\ happened = 0

-----------------------------------------------------------------------------
(* ++walletRevision: whatever runs has captured an older number. *)

Stale(ops) == {[op EXCEPT !.fresh = FALSE] : op \in ops}

(* What a synchronisation needs to restore a sign-in *)
Restores(s) ==
  /\ s.wallet.chain = "celo"
  /\ s.wallet.account # NoWallet /\ s.session = s.wallet.account

(* An overtaken synchronisation goes on only to have its answers discarded.  *)
(* One that waits for them, or that would not sign the page in, is dropped    *)
(* here; one that would is kept: discarding it is what SyncArrives is about. *)
Kept ==
  {s \in syncs : s.wallet # Unread /\ s.session # "pending" /\ Restores(s)}

Overtaken == [connect EXCEPT !.fresh = FALSE]

SignedOutPage(status) ==
  [page EXCEPT !.session = NoWallet, !.balance = NoWallet, !.status = status]

(* synchronize(), up to its first await.  p is the page it finds. *)
Synchronize(p) ==
  /\ reads' = Stale(reads) /\ UNCHANGED due
  /\ connect' = Overtaken
  /\ IF Connecting
     THEN page' = p /\ syncs' = Stale(Kept)
     ELSE /\ page' = [p EXCEPT !.session = NoWallet, !.balance = NoWallet,
                               !.status = "disconnected"]
          /\ syncs' = Stale(Kept) \cup {Started(cookie)}

(* The mount effect, and the effect on the provider that it triggers. *)
Detect ==
  /\ page.status = "detecting"
  /\ IF wallet.injected
     THEN Synchronize([page EXCEPT !.provider = TRUE])
     ELSE /\ page' = [page EXCEPT !.status = "unavailable"]
          /\ UNCHANGED <<connect, syncs, reads, due>>
  /\ UNCHANGED <<serverVars, logout, cookie, envVars>>

(* onWalletChange *)
HandleNotice ==
  /\ notices > 0 /\ Cardinality(syncs) < MaxSyncs
  /\ notices' = notices - 1
  /\ Synchronize(page)
  /\ UNCHANGED <<serverVars, logout, cookie, wallet, happened>>

-----------------------------------------------------------------------------
(* The reads of one synchronisation, which run at the same time.  The two    *)
(* that the wallet answers, account and chain, are one step: a change        *)
(* between them would be told to the page like a change after them.          *)

Answer(s, field, value) ==
  syncs' = (syncs \ {s}) \cup {[s EXCEPT ![field] = value]}

SyncReadsWallet(s) ==
  /\ s.wallet = Unread
  /\ Answer(s, "wallet", [account |-> wallet.account, chain |-> wallet.chain])
  /\ UNCHANGED <<serverVars, page, connect, reads, due, logout, cookie, envVars>>

(* fetchSession: a refusal and a failed request are both null. *)
SyncReadsSession(s) ==
  /\ s.session = "pending"
  /\ \/ ServeSession(s.token) /\ Answer(s, "session", ActorOf(s.token))
     \/ Answer(s, "session", NoWallet) /\ UNCHANGED serverVars
  /\ UNCHANGED <<page, connect, reads, due, logout, cookie, envVars>>

(* The wallet rejects one of its two reads. *)
SyncFails(s) ==
  /\ s.wallet = Unread
  /\ syncs' = syncs \ {s}
  /\ page' = IF s.fresh THEN [page EXCEPT !.address = NoWallet, !.chain = "none"]
             ELSE page
  /\ UNCHANGED <<serverVars, connect, reads, due, logout, cookie, envVars>>

(* revision === walletRevision.current *)
SyncCurrent(s) == s.fresh

(* The rest of synchronize(); the render that signs the page in has a        *)
(* balance effect to run.                                                   *)
SyncArrives(s) ==
  /\ s.wallet # Unread /\ s.session # "pending"
  /\ syncs' = syncs \ {s}
  /\ IF SyncCurrent(s)
     THEN page' = [page EXCEPT !.address = s.wallet.account,
                     !.chain = s.wallet.chain,
                     !.session = IF Restores(s) THEN s.session ELSE @,
                     !.status = IF Restores(s) THEN "authenticated" ELSE @]
     ELSE UNCHANGED page
  /\ due' = IF SyncCurrent(s) /\ Restores(s) THEN due \cup {s.session} ELSE due
  /\ UNCHANGED <<serverVars, connect, reads, logout, cookie, envVars>>

SyncSteps ==
  \E s \in syncs :
    SyncReadsWallet(s) \/ SyncReadsSession(s) \/ SyncFails(s) \/ SyncArrives(s)

-----------------------------------------------------------------------------
(* refreshBalance *)

StartRead(holder) == reads' = reads \cup {[holder |-> holder, fresh |-> TRUE]}

(* The effect of the render that signed the page in, which React runs some   *)
(* time after it has shown that render: a change of the wallet or a sign-out *)
(* may have come between.  It reads for the session of that render, but the  *)
(* revision it captures is the one of now.                                  *)
RunBalanceEffect ==
  \E holder \in due :
    /\ due' = due \ {holder}
    /\ StartRead(holder)
    /\ UNCHANGED <<serverVars, page, connect, syncs, logout, cookie, envVars>>

(* The Refresh button *)
RefreshBalance ==
  /\ SignedIn /\ reads = {}
  /\ StartRead(page.session)
  /\ UNCHANGED <<serverVars, page, connect, syncs, due, logout, cookie, envVars>>

(* Faulty variant: the balance of whoever was signed in then *)
ReadCurrentAlways(r) == TRUE

ReadCurrent(r) == r.fresh

(* The balance arrives, or the read fails and there is none. *)
BalanceArrives ==
  \E r \in reads, shown \in BOOLEAN :
    /\ reads' = reads \ {r}
    /\ page' = IF ReadCurrent(r)
               THEN [page EXCEPT !.balance = IF shown THEN r.holder ELSE NoWallet]
               ELSE page
    /\ UNCHANGED <<serverVars, connect, syncs, due, logout, cookie, envVars>>

-----------------------------------------------------------------------------
(* connect(): one step for each await. *)

Goto(label) == connect' = [connect EXCEPT !.at = label]

(* WalletControl offers connect() unless detecting or signed in; before it is *)
(* rendered again to offer it, the effects of its last render have run.       *)
StartConnect ==
  /\ ~Connecting /\ page.status \notin {"detecting", "authenticated"}
  /\ due = {}
  /\ IF page.provider \/ wallet.injected
     THEN /\ connect' = [Idle EXCEPT !.at = "accounts"]
          /\ page' = [SignedOutPage("connecting") EXCEPT !.provider = TRUE]
          /\ syncs' = Stale(Kept)
          /\ reads' = Stale(reads)
     ELSE /\ page' = [page EXCEPT !.status = "unavailable"]
          /\ UNCHANGED <<connect, syncs, reads>>
  /\ UNCHANGED <<serverVars, due, logout, cookie, envVars>>

(* The catch and finally of connect(), and its two early returns. *)
GiveUp(p) ==
  /\ page' = [p EXCEPT !.session = NoWallet, !.status = "disconnected"]
  /\ connect' = Idle

(* eth_requestAccounts: the user shares an account, or shares none. *)
RequestAccounts ==
  /\ connect.at = "accounts"
  /\ \E account \in Accounts :
       /\ wallet.account # NoWallet => account = wallet.account
       /\ wallet' = [wallet EXCEPT !.account = account]
       /\ notices' = IF account # wallet.account THEN notices + 1 ELSE notices
       /\ IF account = NoWallet
          THEN GiveUp([page EXCEPT !.address = NoWallet])
          ELSE /\ page' = [page EXCEPT !.address = account]
               /\ connect' = [connect EXCEPT !.at = "chain", !.account = account]
  /\ UNCHANGED <<serverVars, syncs, reads, due, logout, cookie, happened>>

(* The end of ensureCeloChain; the sign-in captures its revision. *)
ChainConfirmed ==
  IF wallet.chain = "celo"
  THEN /\ connect' = [connect EXCEPT !.at = "challenge", !.fresh = TRUE]
       /\ page' = [page EXCEPT !.chain = "celo"]
  ELSE GiveUp([page EXCEPT !.chain = wallet.chain])

(* ensureCeloChain, its first read *)
ReadChain ==
  /\ connect.at = "chain"
  /\ IF wallet.chain = "celo" THEN ChainConfirmed
     ELSE Goto("switch") /\ UNCHANGED page
  /\ UNCHANGED <<serverVars, syncs, reads, due, logout, cookie, envVars>>

(* wallet_switchEthereumChain, granted; a wallet may not do what it grants. *)
SwitchChain ==
  /\ connect.at = "switch"
  /\ \E chain \in {"celo", wallet.chain} :
       /\ wallet' = [wallet EXCEPT !.chain = chain]
       /\ notices' = IF chain # wallet.chain THEN notices + 1 ELSE notices
  /\ Goto("confirm")
  /\ UNCHANGED <<serverVars, page, syncs, reads, due, logout, cookie, happened>>

ConfirmChain ==
  /\ connect.at = "confirm"
  /\ ChainConfirmed
  /\ UNCHANGED <<serverVars, syncs, reads, due, logout, cookie, envVars>>

AskChallenge ==
  /\ connect.at = "challenge" /\ issued < MaxChallenges
  /\ ServeChallenge(connect.account)
  /\ connect' = [connect EXCEPT !.at = "sign", !.message = NewMessage(connect.account)]
  /\ UNCHANGED <<page, syncs, reads, due, logout, cookie, envVars>>

(* personal_sign: with the account asked for, or, in a wallet that signs     *)
(* with whatever is selected, with that one.                                *)
Sign ==
  /\ connect.at = "sign"
  /\ \E signer \in {connect.account, wallet.account} \ {NoWallet} :
       connect' = [connect EXCEPT !.at = "verify", !.signer = signer]
  /\ UNCHANGED <<serverVars, page, syncs, reads, due, logout, cookie, envVars>>

(* The request is served and its answer, with the cookie, arrives. *)
Verify ==
  /\ connect.at = "verify"
  /\ ServeVerify(connect.message, connect.signer)
  /\ IF Verifies(connect.message, connect.signer)
     THEN /\ cookie' = Len(grants) + 1
          /\ connect' = [connect EXCEPT !.at = "check", !.verified = connect.message.address]
          /\ UNCHANGED page
     ELSE GiveUp(page) /\ UNCHANGED cookie
  /\ UNCHANGED <<syncs, reads, due, logout, envVars>>

(* The request is served, its answer is lost: the browser has the POST      *)
(* delivered once more, or has it fail (ConnectFails).                      *)
VerifyUnanswered ==
  /\ connect.at = "verify"
  /\ Verifies(connect.message, connect.signer)
  /\ ServeVerify(connect.message, connect.signer)
  /\ UNCHANGED <<pageVars, logout, cookie, envVars>>

(* Faulty variant: an overtaken sign-in counts *)
StillWantedAnyway(account) ==
  account = connect.account /\ connect.verified = connect.account

StillWanted(account) ==
  connect.fresh /\ account = connect.account /\ connect.verified = connect.account

(* The account is read back ... *)
ReadBack ==
  /\ connect.at = "check"
  /\ connect' = [connect EXCEPT !.at = "finish", !.current = wallet.account]
  /\ UNCHANGED <<serverVars, page, syncs, reads, due, logout, cookie, envVars>>

(* ... and the chain, and all of it is compared with what was asked for. *)
Finish ==
  /\ connect.at = "finish"
  /\ LET account == connect.current
         seen == [page EXCEPT !.address = account, !.chain = wallet.chain]
     IN  IF StillWanted(account) /\ wallet.chain = "celo"
         THEN /\ page' = [seen EXCEPT !.session = account, !.status = "authenticated"]
              /\ due' = due \cup {account}
              /\ connect' = Idle
         ELSE GiveUp(seen) /\ UNCHANGED due
  /\ UNCHANGED <<serverVars, syncs, reads, logout, cookie, envVars>>

(* A wallet request is refused, or an HTTP request fails or is refused. *)
ConnectFails ==
  /\ Connecting
  /\ GiveUp(page)
  /\ UNCHANGED <<serverVars, syncs, reads, due, logout, cookie, envVars>>

ConnectSteps ==
  \/ RequestAccounts \/ ReadChain \/ SwitchChain \/ ConfirmChain
  \/ AskChallenge \/ Sign \/ Verify \/ VerifyUnanswered
  \/ ReadBack \/ Finish \/ ConnectFails

-----------------------------------------------------------------------------
(* disconnect(), offered in the panel of a signed-in page *)

Disconnect ==
  /\ SignedIn /\ logout.at = "none"
  /\ page' = SignedOutPage("disconnected")
  /\ connect' = Overtaken
  /\ syncs' = Stale(Kept)
  /\ reads' = Stale(reads)
  /\ logout' = [at |-> "sent", token |-> cookie]
  /\ UNCHANGED <<serverVars, due, cookie, envVars>>

LogoutServed ==
  /\ logout.at = "sent"
  /\ ServeLogout(logout.token)
  /\ logout' = [logout EXCEPT !.at = "served"]
  /\ UNCHANGED <<pageVars, cookie, envVars>>

(* The answer clears whatever cookie there is by now ... *)
LogoutArrives ==
  /\ logout.at = "served"
  /\ cookie' = 0
  /\ logout' = [at |-> "none", token |-> 0]
  /\ UNCHANGED <<serverVars, pageVars, envVars>>

(* ... or the request or its answer is lost, and none is cleared. *)
LogoutLost ==
  /\ logout.at # "none"
  /\ logout' = [at |-> "none", token |-> 0]
  /\ UNCHANGED <<serverVars, pageVars, cookie, envVars>>

-----------------------------------------------------------------------------
(* The user and his wallet, the server and its clock *)

Happens == happened < MaxEvents /\ happened' = happened + 1

(* A wallet changes; the page hears of it if it listens. *)
WalletChanges ==
  /\ Happens
  /\ wallet' \in {[wallet EXCEPT !.account = a] : a \in Accounts \ {wallet.account}}
             \cup {[wallet EXCEPT !.chain = c] : c \in Chains \ {wallet.chain}}
  /\ notices' = IF page.provider THEN notices + 1 ELSE notices
  /\ UNCHANGED <<serverVars, pageVars, logout, cookie>>

(* A wallet that injects itself after the page has mounted *)
InjectLate ==
  /\ ~wallet.injected
  /\ wallet' = [wallet EXCEPT !.injected = TRUE]
  /\ UNCHANGED <<serverVars, pageVars, logout, cookie, notices, happened>>

(* Another client behind the same address asks for a challenge; the server   *)
(* restarts; time passes.                                                   *)
ServerEvents ==
  /\ Happens
  /\ \/ issued < MaxChallenges /\ \E w \in Wallets : ServeChallenge(w)
     \/ Restart
     \/ Tick
  /\ UNCHANGED <<pageVars, logout, cookie, wallet, notices>>

Environment == WalletChanges \/ InjectLate \/ ServerEvents

Next ==
  \/ Detect \/ HandleNotice \/ SyncSteps
  \/ StartConnect \/ ConnectSteps
  \/ RunBalanceEffect \/ RefreshBalance \/ BalanceArrives
  \/ Disconnect \/ LogoutServed \/ LogoutArrives \/ LogoutLost
  \/ Environment

Spec == Init /\ [][Next]_vars

-----------------------------------------------------------------------------
TypeOK ==
  /\ ServerTypeOK
  /\ page \in Page
  /\ connect.at \in {"idle", "accounts", "chain", "switch", "confirm",
                     "challenge", "sign", "verify", "check", "finish"}
  /\ connect.account \in Accounts /\ connect.signer \in Accounts
  /\ connect.current \in Accounts
  /\ connect.verified \in Accounts /\ connect.fresh \in BOOLEAN
  /\ connect.message \in Message \cup {NoMessage}
  /\ \A s \in syncs : s.fresh \in BOOLEAN /\ s.token \in 0..Len(grants)
  /\ reads \subseteq [holder : Wallets, fresh : BOOLEAN] /\ due \subseteq Wallets
  /\ cookie \in 0..Len(grants)
  /\ logout \in [at : {"none", "sent", "served"}, token : 0..Len(grants)]
  /\ wallet \in [account : Accounts, chain : Chains, injected : BOOLEAN]
  /\ notices \in Nat

(* A page that says it is signed in names a wallet that proved itself to the *)
(* server, is not signing in at the same time, and, once it has heard of     *)
(* every change of the wallet, it is the account and the chain that the      *)
(* wallet is on: neither a sign-in nor a synchronisation that a change has   *)
(* overtaken can bring the former account back.                             *)
SignInIsCurrent ==
  SignedIn =>
    /\ ~Connecting
    /\ page.session # NoWallet /\ page.session = page.address
    /\ page.chain = "celo"
    /\ \E t \in DOMAIN grants : grants[t].address = page.session
    /\ notices = 0 => wallet.account = page.session /\ wallet.chain = "celo"

(* The balance in the header, which WalletControl shows when it is signed    *)
(* in, is that of the account beside it: a read that was started for another *)
(* account is not shown, although the effect that starts one for the session *)
(* of its render may run after the next change of the wallet and so count as *)
(* current.                                                                 *)
BalanceIsOfSession ==
  SignedIn /\ page.balance # NoWallet => page.balance = page.session
=============================================================================
