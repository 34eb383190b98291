------------------------------ MODULE Payments ------------------------------
(***************************************************************************)
(* What the API does between /build and /execute, for payments and         *)
(* donations, and between POST /receive and POST /receive/commit, for      *)
(* Bitcoin receives: a build is kept in memory for a few minutes, the user *)
(* signs it, and a second request consumes it and sends the transaction to *)
(* the paymaster.  A receive then records the escrow that its transaction  *)
(* has funded and asks Atomiq for the deposit address.                     *)
(*                                                                         *)
(* The two caches are twins and are modelled as one.  A client may post    *)
(* the same build again, late, after a restart, or for another account.    *)
(* What later happens to the row of a receive is in SwapSync.              *)
(***************************************************************************)
EXTENDS Naturals, FiniteSets

CONSTANTS
  Requests,     \* requests the API serves at once
  Accounts,
  Builds,       \* build ids that may be generated
  Receives,     \* those of Bitcoin receives, the others are payments
  TTL,          \* TTL_MS, in ticks
  None,         \* no build, no account
  MaxTime,      \* bound: the clock
  MaxRestarts   \* bound: restarts of the API process

PaymentsAssumption ==
  /\ Receives \subseteq Builds /\ None \notin Builds /\ None \notin Accounts
  /\ TTL \in Nat /\ MaxTime \in Nat /\ MaxRestarts \in Nat

VARIABLES
  born,      \* build ids generated so far
  cache,     \* the entries of the cache, with their owner and createdAt
  req,       \* what each request does
  tx,        \* the transaction of each build, as Starknet knows it
  row,       \* the row of bim_swaps of each receive
  now,       \* the clock
  restarts,  \* counted against MaxRestarts
  sent,      \* history: transactions sent for each build
  asked,     \* history: receives whose completion Atomiq was asked for
  shown      \* history: receives whose deposit address was answered

vars == <<born, cache, req, tx, row, now, restarts, sent, asked, shown>>

Entry == [owner : Accounts, createdAt : 0 .. MaxTime]

\* Where a request awaits; the last five are of receives alone.
Position ==
  {"idle", "building", "submitting", "describing",
   "waiting", "recording", "locating", "completing", "saving"}

\* age is that of the build when the request consumed it.
Handler ==
  [pc : Position, build : Builds \cup {None}, account : Accounts \cup {None}, age : 0 .. MaxTime]

Idle == [pc |-> "idle", build |-> None, account |-> None, age |-> 0]

Executing == Position \ {"idle", "building"}

TypeOK ==
  /\ born \in SUBSET Builds
  /\ \E ids \in SUBSET born : cache \in [ids -> Entry]
  /\ req \in [Requests -> Handler]
  /\ \A r \in Requests :
       req[r].pc \in Executing => req[r].build \in born \ DOMAIN cache
  /\ tx \in [Builds -> {"none", "pending", "succeeded", "reverted"}]
  /\ row \in [Builds -> {"none", "committed", "paid"}]
  /\ now \in 0 .. MaxTime /\ restarts \in 0 .. MaxRestarts
  /\ sent \in [Builds -> Nat]
  /\ asked \in SUBSET Receives /\ shown \in SUBSET Receives

Init ==
  /\ born = {} /\ cache = [b \in {} |-> None]
  /\ req = [r \in Requests |-> Idle]
  /\ tx = [b \in Builds |-> "none"] /\ row = [b \in Builds |-> "none"]
  /\ now = 0 /\ restarts = 0
  /\ sent = [b \in Builds |-> 0] /\ asked = {} /\ shown = {}

Goes(r, pc) == req' = [req EXCEPT ![r].pc = pc]

Ends(r) == req' = [req EXCEPT ![r] = Idle]

-----------------------------------------------------------------------------
(* The build cache.                                                        *)

Expired(entry) == now - entry.createdAt > TTL

\* consume: the entry goes whether or not it is still good.
Consumed(b) == [id \in DOMAIN cache \ {b} |-> cache[id]]

\* set, which then cleans up.
Set(b, entry) ==
  LET kept == {id \in DOMAIN cache : ~Expired(cache[id])} IN
  [id \in kept \cup {b} |-> IF id = b THEN entry ELSE cache[id]]

-----------------------------------------------------------------------------
(* POST /build and POST /receive.                                          *)

\* The request awaits quotes, balances and the typed data of AVNU.
StartBuild(r, a) ==
  /\ req[r].pc = "idle"
  /\ req' = [req EXCEPT ![r].pc = "building", ![r].account = a]
  /\ UNCHANGED <<born, cache, tx, row, now, restarts, sent, asked, shown>>

CacheBuild(r, b) ==
  /\ req[r].pc = "building" /\ b \notin born
  /\ born' = born \cup {b}
  /\ cache' = Set(b, [owner |-> req[r].account, createdAt |-> now])
  /\ Ends(r)
  /\ UNCHANGED <<tx, row, now, restarts, sent, asked, shown>>

-----------------------------------------------------------------------------
(* POST /execute and POST /receive/commit.  No await separates the look    *)
(* into the cache from the removal.                                        *)

\* Faulty: the build is removed when the execution has succeeded.
ConsumeLater(r, b, a) ==
  /\ req[r].pc = "idle" /\ b \in DOMAIN cache /\ ~Expired(cache[b]) /\ cache[b].owner = a
  /\ req' = [req EXCEPT ![r] = [pc |-> "submitting", build |-> b, account |-> a,
                                age |-> now - cache[b].createdAt]]
  /\ UNCHANGED <<born, cache, tx, row, now, restarts, sent, asked, shown>>

\* The build is there, in time and the caller's.
Consume(r, b, a) ==
  /\ req[r].pc = "idle" /\ b \in DOMAIN cache /\ ~Expired(cache[b]) /\ cache[b].owner = a
  /\ cache' = Consumed(b)
  /\ req' = [req EXCEPT ![r] = [pc |-> "submitting", build |-> b, account |-> a,
                                age |-> now - cache[b].createdAt]]
  /\ UNCHANGED <<born, tx, row, now, restarts, sent, asked, shown>>

\* BuildExpiredError or ForbiddenError: the build is consumed all the same.
Refuse(r, b, a) ==
  /\ req[r].pc = "idle" /\ b \in DOMAIN cache
  /\ Expired(cache[b]) \/ cache[b].owner # a
  /\ cache' = Consumed(b)
  /\ UNCHANGED <<born, req, tx, row, now, restarts, sent, asked, shown>>

\* The request answers an error; what it has done stays done.
RequestFails(r) ==
  /\ req[r].pc # "idle"
  /\ Ends(r)
  /\ UNCHANGED <<born, cache, tx, row, now, restarts, sent, asked, shown>>

\* executeSignedCalls: the paymaster sends the transaction, and its answer
\* arrives or is lost.
Submit(r) ==
  LET b == req[r].build IN
  /\ req[r].pc = "submitting"
  /\ tx' = [tx EXCEPT ![b] = "pending"]
  /\ sent' = [sent EXCEPT ![b] = @ + 1]
  /\ Goes(r, IF b \in Receives THEN "waiting" ELSE "describing") \/ Ends(r)
  /\ UNCHANGED <<born, cache, row, now, restarts, asked, shown>>

\* The description of a payment is saved and the payment answered.
SaveDescription(r) ==
  /\ req[r].pc = "describing"
  /\ Ends(r)
  /\ UNCHANGED <<born, cache, tx, row, now, restarts, sent, asked, shown>>

\* waitForTransaction returns for a reverted transaction as well, and the
\* status in its answer is not looked at.
WaitForTransaction(r) ==
  /\ req[r].pc = "waiting" /\ tx[req[r].build] \in {"succeeded", "reverted"}
  /\ Goes(r, "recording")
  /\ UNCHANGED <<born, cache, tx, row, now, restarts, sent, asked, shown>>

\* Faulty: the row is left to the completion.
SaveBitcoinCommitLater(r) ==
  /\ req[r].pc = "recording"
  /\ Goes(r, "locating")
  /\ UNCHANGED <<born, cache, tx, row, now, restarts, sent, asked, shown>>

SaveBitcoinCommit(r) ==
  /\ req[r].pc = "recording"
  /\ row' = [row EXCEPT ![req[r].build] = "committed"]
  /\ Goes(r, "locating")
  /\ UNCHANGED <<born, cache, tx, now, restarts, sent, asked, shown>>

\* completeBitcoinToStarknet reads the row and calls the gateway.
CompleteBitcoinToStarknet(r) ==
  /\ req[r].pc = "locating"
  /\ asked' = asked \cup {req[r].build}
  /\ Goes(r, "completing")
  /\ UNCHANGED <<born, cache, tx, row, now, restarts, sent, shown>>

\* Faulty: the address is taken without waiting for the commit.
DepositAddressAtOnce(r) ==
  /\ req[r].pc = "completing"
  /\ Goes(r, "saving")
  /\ UNCHANGED <<born, cache, tx, row, now, restarts, sent, asked, shown>>

\* The SDK has seen the commit within 90 s and gives the address.
GetDepositAddress(r) ==
  /\ req[r].pc = "completing" /\ tx[req[r].build] = "succeeded"
  /\ Goes(r, "saving")
  /\ UNCHANGED <<born, cache, tx, row, now, restarts, sent, asked, shown>>

\* The row has its address, is paid, and the address is answered.
SaveCompleted(r) ==
  /\ req[r].pc = "saving"
  /\ row' = [row EXCEPT ![req[r].build] = "paid"]
  /\ shown' = shown \cup {req[r].build}
  /\ Ends(r)
  /\ UNCHANGED <<born, cache, tx, now, restarts, sent, asked>>

-----------------------------------------------------------------------------
(* Starknet, the clock and the process.                                    *)

IncludeTransaction(b) ==
  /\ tx[b] = "pending"
  /\ \E outcome \in {"succeeded", "reverted"} : tx' = [tx EXCEPT ![b] = outcome]
  /\ UNCHANGED <<born, cache, req, row, now, restarts, sent, asked, shown>>

Tick ==
  /\ now < MaxTime /\ now' = now + 1
  /\ UNCHANGED <<born, cache, req, tx, row, restarts, sent, asked, shown>>

\* The caches are in memory.
Restart ==
  /\ restarts < MaxRestarts /\ restarts' = restarts + 1
  /\ cache' = [b \in {} |-> None]
  /\ req' = [r \in Requests |-> Idle]
  /\ UNCHANGED <<born, tx, row, now, sent, asked, shown>>

Building ==
  \E r \in Requests : (\E a \in Accounts : StartBuild(r, a)) \/ \E b \in Builds : CacheBuild(r, b)

Execution ==
  \E r \in Requests :
    \/ \E b \in Builds, a \in Accounts : Consume(r, b, a) \/ Refuse(r, b, a)
    \/ Submit(r) \/ SaveDescription(r)

Receiving ==
  \E r \in Requests :
    \/ WaitForTransaction(r) \/ SaveBitcoinCommit(r) \/ CompleteBitcoinToStarknet(r)
    \/ GetDepositAddress(r) \/ SaveCompleted(r)

Next ==
  \/ Building \/ Execution \/ Receiving
  \/ \E r \in Requests : RequestFails(r)
  \/ \E b \in Builds : IncludeTransaction(b)
  \/ Tick \/ Restart

Spec == Init /\ [][Next]_vars

-----------------------------------------------------------------------------
(* Properties.                                                             *)

\* A build is executed at most once, however often it is posted and whatever
\* answer was lost: one signature sends one transaction.
ExecutedOnce == \A b \in Builds : sent[b] <= 1

\* No build is executed after its life, although expired entries stay in the
\* cache until the next build.
ExecutedInTime == \A r \in Requests : req[r].pc \in Executing => req[r].age <= TTL

\* receive-bitcoin-swap-commit.md: from the call that completes a receive on,
\* whatever fails or crashes, the row the monitor needs is in the database.
AskedIsRecorded == \A b \in asked : row[b] # "none"

\* A user is shown a deposit address only for an escrow that is funded, and
\* the row of that address is the one the monitor will follow.
ShownIsEscrowed == \A b \in shown : tx[b] = "succeeded" /\ row[b] = "paid"
=============================================================================
