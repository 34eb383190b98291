------------------------------ MODULE Accounts ------------------------------
(***************************************************************************)
(* One account of BIM: its row in bim_accounts, its sessions, the WebAuthn *)
(* challenges issued for it and the deployment of its contract through the *)
(* AVNU paymaster.  Registrations, logins, authenticated requests and the  *)
(* background wait for a deployment run concurrently; each reads an entity *)
(* and saves the whole row after other awaits.                             *)
(*                                                                         *)
(* starknetAddress is computed from the public key, set with the first     *)
(* "deploying" and never unset: it is left out.  The row is never deleted. *)
(***************************************************************************)
EXTENDS Naturals, FiniteSets

CONSTANTS
  Requests,         \* requests the API serves at once
  Challenges,       \* challenges that may be issued
  Registration,     \* the one of /register/begin bound to this account's id, the
                    \* others are of /login/begin
  Sessions,         \* session ids that may be generated
  Hashes,           \* hashes of the deployment transactions that may be sent
  None,             \* null
  Empty,            \* the '' that the atomic lock writes for the hash
  MaxCrashes        \* bound: crashes of the API process

ASSUME AccountsAssumption ==
  /\ Registration \in Challenges
  /\ None \notin Hashes \cup Challenges \cup Sessions
  /\ Empty \notin Hashes \cup {None}
  /\ MaxCrashes \in Nat

VARIABLES
  row,        \* the row of bim_accounts: status and deploymentTxHash
  challenge,  \* the rows of bim_challenges
  session,    \* the rows of bim_sessions
  req,        \* what each request does and holds
  tx,         \* the deployment transactions, as Starknet knows them
  contract,   \* the account contract is at its address
  opened,     \* history: sessions opened with each challenge
  crashes     \* counted against MaxCrashes

vars == <<row, challenge, session, req, tx, contract, opened, crashes>>

AccountStatus == {"absent", "pending", "deploying", "deployed", "failed"}

Account == [status : AccountStatus, hash : Hashes \cup {None, Empty}]

NoAccount == [status |-> "absent", hash |-> None]

\* Where a request awaits; mem is the entity it holds.
Position ==
  {"idle", "consuming", "finding", "opening", "renewing", "authenticated",
   "claiming", "submitting", "savingHash", "waiting", "checking", "savingResult"}

Handler == [pc : Position, ch : Challenges \cup {None}, sid : Sessions \cup {None}, mem : Account]

Idle == [pc |-> "idle", ch |-> None, sid |-> None, mem |-> NoAccount]

TypeOK ==
  /\ row \in Account
  /\ challenge \in [Challenges -> {"none", "open", "used", "expired"}]
  /\ session \in [Sessions -> {"none", "live", "expired", "deleted"}]
  /\ req \in [Requests -> Handler]
  /\ \A r \in Requests : req[r].pc \in {"waiting", "checking"} => req[r].mem.hash \in Hashes
  /\ tx \in [Hashes -> {"none", "pending", "succeeded", "reverted"}]
  /\ contract \in BOOLEAN
  /\ opened \in [Challenges -> Nat]
  /\ crashes \in 0 .. MaxCrashes

Init ==
  /\ row = NoAccount
  /\ challenge = [c \in Challenges |-> "none"]
  /\ session = [s \in Sessions |-> "none"]
  /\ req = [r \in Requests |-> Idle]
  /\ tx = [h \in Hashes |-> "none"]
  /\ contract = FALSE
  /\ opened = [c \in Challenges |-> 0]
  /\ crashes = 0

\* Request r goes on to await at pc; it holds the rest unchanged.
Goes(r, pc) == req' = [req EXCEPT ![r].pc = pc]

GoesWith(r, pc, mem) == req' = [req EXCEPT ![r].pc = pc, ![r].mem = mem]

Ends(r) == req' = [req EXCEPT ![r] = Idle]

\* save: every column of the entity, but drizzle leaves undefined ones alone.
\* toAccount makes undefined of null only: a '' that was read is written back.
Saved(mem) == [mem EXCEPT !.hash = IF @ = None THEN row.hash ELSE @]

-----------------------------------------------------------------------------
(* Challenges: /register/begin and /login/begin, and their single use.     *)

IssueChallenge(c) ==
  /\ challenge[c] = "none"
  /\ c # Registration => row # NoAccount
  /\ challenge' = [challenge EXCEPT ![c] = "open"]
  /\ UNCHANGED <<row, session, req, tx, contract, opened, crashes>>

ExpireChallenge(c) ==
  /\ challenge[c] = "open"
  /\ challenge' = [challenge EXCEPT ![c] = "expired"]
  /\ UNCHANGED <<row, session, req, tx, contract, opened, crashes>>

\* POST /register/complete or /login/complete, sent once or again.  The check
\* that the username is free says nothing here: another name passes it.
PostComplete(r, c) ==
  /\ req[r].pc = "idle" /\ challenge[c] # "none"
  /\ req' = [req EXCEPT ![r].pc = "consuming", ![r].ch = c]
  /\ UNCHANGED <<row, challenge, session, tx, contract, opened, crashes>>

AfterConsume(r) ==
  IF req[r].ch = Registration
  THEN GoesWith(r, "opening", [status |-> "pending", hash |-> None])
  ELSE Goes(r, "finding")

\* Faulty: the UPDATE does not test used.
ConsumeAgain(r) ==
  /\ req[r].pc = "consuming"
  /\ challenge[req[r].ch] \in {"open", "used"}
  /\ challenge' = [challenge EXCEPT ![req[r].ch] = "used"]
  /\ AfterConsume(r)
  /\ UNCHANGED <<row, session, tx, contract, opened, crashes>>

\* consumeById: one UPDATE ... WHERE not used and not expired.
ConsumeById(r) ==
  /\ req[r].pc = "consuming"
  /\ challenge[req[r].ch] = "open"
  /\ challenge' = [challenge EXCEPT ![req[r].ch] = "used"]
  /\ AfterConsume(r)
  /\ UNCHANGED <<row, session, tx, contract, opened, crashes>>

\* The request answers an error (used or expired challenge, bad credential,
\* unknown account, a database or network failure) or, once authenticated,
\* was for a route that is not modelled here.  What it wrote stays.
RequestFails(r) ==
  /\ req[r].pc \in {"consuming", "finding", "opening", "renewing", "authenticated",
                    "claiming", "submitting", "savingHash", "savingResult"}
  /\ Ends(r)
  /\ UNCHANGED <<row, challenge, session, tx, contract, opened, crashes>>

FindAccount(r) ==
  /\ req[r].pc = "finding"
  /\ row # NoAccount
  /\ GoesWith(r, "opening", row)
  /\ UNCHANGED <<row, challenge, session, tx, contract, opened, crashes>>

\* The credential is verified and the transaction commits: the entity saved,
\* its sessions deleted, a new one inserted.  Its first statement locks the
\* account's row, so that transactions of one account follow one another.
OpenSession(r) ==
  /\ req[r].pc = "opening"
  /\ \E s \in Sessions :
       /\ session[s] = "none"
       /\ session' = [t \in Sessions |->
                        IF t = s THEN "live"
                        ELSE IF session[t] = "none" THEN "none" ELSE "deleted"]
  /\ row' = Saved(req[r].mem)
  /\ opened' = [opened EXCEPT ![req[r].ch] = @ + 1]
  /\ Ends(r)
  /\ UNCHANGED <<challenge, tx, contract, crashes>>

-----------------------------------------------------------------------------
(* Sessions.                                                               *)

ExpireSession(s) ==
  /\ session[s] = "live"
  /\ session' = [session EXCEPT ![s] = "expired"]
  /\ UNCHANGED <<row, challenge, req, tx, contract, opened, crashes>>

Logout(s) ==
  /\ session[s] \in {"live", "expired"}
  /\ session' = [session EXCEPT ![s] = "deleted"]
  /\ UNCHANGED <<row, challenge, req, tx, contract, opened, crashes>>

\* Faulty: neither a missing nor an expired session is refused.
AcceptAnyCookie(r, s) ==
  /\ req[r].pc = "idle" /\ session[s] # "none"
  /\ req' = [req EXCEPT ![r].pc = "renewing", ![r].sid = s]
  /\ UNCHANGED <<row, challenge, session, tx, contract, opened, crashes>>

\* The auth middleware, or GET /session: validate reads the session, then the
\* account, which is there.
FindSession(r, s) ==
  /\ req[r].pc = "idle" /\ session[s] = "live"
  /\ req' = [req EXCEPT ![r].pc = "renewing", ![r].sid = s]
  /\ UNCHANGED <<row, challenge, session, tx, contract, opened, crashes>>

\* The renewed session is upserted, wherever the row has gone since.
RenewSession(r) ==
  /\ req[r].pc = "renewing"
  /\ session' = [session EXCEPT ![req[r].sid] = "live"]
  /\ req' = [req EXCEPT ![r].pc = "authenticated", ![r].sid = None]
  /\ UNCHANGED <<row, challenge, tx, contract, opened, crashes>>

-----------------------------------------------------------------------------
(* POST /account/deploy, which reads the account again.                    *)

MarkAs(mem, status) == [mem EXCEPT !.status = status]

\* Faulty: a deployment without a transaction is left as it is.
DeployFindHashOnly(r) ==
  /\ req[r].pc = "authenticated"
  /\ \/ row.status = "deploying" /\ row.hash \in Hashes /\ GoesWith(r, "waiting", row)
     \/ row.status \in {"pending", "failed"} /\ GoesWith(r, "claiming", row)
     \/ row.status = "deployed" /\ Ends(r)
     \/ row.status = "deploying" /\ row.hash \notin Hashes /\ Ends(r)
  /\ UNCHANGED <<row, challenge, session, tx, contract, opened, crashes>>

\* deploy: the account is recovered when it is deploying (it has failed when
\* it has no transaction), refused when it is deployed.
Deploy(r) ==
  /\ req[r].pc = "authenticated"
  /\ \/ /\ row.status = "deploying" /\ row.hash \notin Hashes
        /\ GoesWith(r, "savingResult", MarkAs(row, "failed"))
     \/ row.status = "deploying" /\ row.hash \in Hashes /\ GoesWith(r, "waiting", row)
     \/ row.status \in {"pending", "failed"} /\ GoesWith(r, "claiming", row)
     \/ row.status = "deployed" /\ Ends(r)
  /\ UNCHANGED <<row, challenge, session, tx, contract, opened, crashes>>

\* The atomic lock: one UPDATE ... WHERE status is pending or failed.
MarkAsDeploying(r) ==
  /\ req[r].pc = "claiming"
  /\ row.status \in {"pending", "failed"}
  /\ row' = [status |-> "deploying", hash |-> Empty]
  /\ Goes(r, "submitting")
  /\ UNCHANGED <<challenge, session, tx, contract, opened, crashes>>

\* The paymaster sends transaction h; its answer arrives, or is lost.
Submit(r, h) ==
  /\ req[r].pc = "submitting" /\ tx[h] = "none"
  /\ tx' = [tx EXCEPT ![h] = "pending"]
  /\ \/ GoesWith(r, "savingHash", [status |-> "deploying", hash |-> h])
     \/ Ends(r)
  /\ UNCHANGED <<row, challenge, session, contract, opened, crashes>>

\* The hash is saved and the request answered; the wait goes on without it.
SaveHash(r) ==
  /\ req[r].pc = "savingHash"
  /\ row' = Saved(req[r].mem)
  /\ Goes(r, "waiting")
  /\ UNCHANGED <<challenge, session, tx, contract, opened, crashes>>

\* waitForTransaction returns a receipt, of a success or of a revert.
WaitReturns(r) ==
  /\ req[r].pc = "waiting" /\ tx[req[r].mem.hash] \in {"succeeded", "reverted"}
  /\ Goes(r, "checking")
  /\ UNCHANGED <<row, challenge, session, tx, contract, opened, crashes>>

\* waitForTransaction throws: it has given up, or the RPC has failed.
WaitThrows(r) ==
  /\ req[r].pc = "waiting"
  /\ GoesWith(r, "savingResult", MarkAs(req[r].mem, "failed"))
  /\ UNCHANGED <<row, challenge, session, tx, contract, opened, crashes>>

\* Faulty: a receipt is enough.
CheckReceiptOnly(r) ==
  /\ req[r].pc = "checking"
  /\ GoesWith(r, "savingResult", MarkAs(req[r].mem, "deployed"))
  /\ UNCHANGED <<row, challenge, session, tx, contract, opened, crashes>>

\* isDeployed answers FALSE for an error of the RPC too.
CheckDeployed(r) ==
  /\ req[r].pc = "checking"
  /\ \/ contract /\ GoesWith(r, "savingResult", MarkAs(req[r].mem, "deployed"))
     \/ GoesWith(r, "savingResult", MarkAs(req[r].mem, "failed"))
  /\ UNCHANGED <<row, challenge, session, tx, contract, opened, crashes>>

SaveResult(r) ==
  /\ req[r].pc = "savingResult"
  /\ row' = Saved(req[r].mem)
  /\ Ends(r)
  /\ UNCHANGED <<challenge, session, tx, contract, opened, crashes>>

-----------------------------------------------------------------------------
(* Starknet, and the process.                                              *)

\* A second deployment at the same address reverts.
IncludeTransaction(h) ==
  /\ tx[h] = "pending"
  /\ \/ ~contract /\ contract' = TRUE /\ tx' = [tx EXCEPT ![h] = "succeeded"]
     \/ UNCHANGED contract /\ tx' = [tx EXCEPT ![h] = "reverted"]
  /\ UNCHANGED <<row, challenge, session, req, opened, crashes>>

\* Also what becomes of a background wait whose save throws: nothing catches
\* the rejection and Node ends the process.
Crash ==
  /\ crashes < MaxCrashes
  /\ crashes' = crashes + 1
  /\ req' = [r \in Requests |-> Idle]
  /\ UNCHANGED <<row, challenge, session, tx, contract, opened>>

Authentication ==
  \/ \E c \in Challenges : IssueChallenge(c) \/ ExpireChallenge(c)
  \/ \E r \in Requests :
       (\E c \in Challenges : PostComplete(r, c)) \/ ConsumeById(r) \/ FindAccount(r) \/ OpenSession(r)

SessionUse ==
  \/ \E s \in Sessions : ExpireSession(s) \/ Logout(s)
  \/ \E r \in Requests : (\E s \in Sessions : FindSession(r, s)) \/ RenewSession(r)

Deployment ==
  \E r \in Requests :
    \/ Deploy(r) \/ MarkAsDeploying(r) \/ (\E h \in Hashes : Submit(r, h)) \/ SaveHash(r)
    \/ WaitReturns(r) \/ WaitThrows(r) \/ CheckDeployed(r) \/ SaveResult(r)

Next ==
  \/ Authentication \/ SessionUse \/ Deployment
  \/ \E r \in Requests : RequestFails(r)
  \/ \E h \in Hashes : IncludeTransaction(h)
  \/ Crash

Spec == Init /\ [][Next]_vars

(***************************************************************************)
(* A deploy request goes on by itself: its awaits end, and the database    *)
(* does not refuse its last save for ever.  Nothing is assumed of the user *)
(* or of Starknet.                                                         *)
(***************************************************************************)
Fairness ==
  \A r \in Requests :
    /\ WF_vars(WaitReturns(r) \/ WaitThrows(r))
    /\ WF_vars(CheckDeployed(r))
    /\ WF_vars(SaveResult(r) \/ (req[r].pc = "savingResult" /\ RequestFails(r)))
    /\ SF_vars(SaveResult(r))

FairSpec == Spec /\ Fairness

-----------------------------------------------------------------------------
(* Properties.                                                             *)

\* A challenge opens at most one session, however often and at whatever time
\* its completion is posted: so nothing registers over an existing account.
ChallengeOpensOneSession == \A c \in Challenges : opened[c] <= 1

\* An account is shown as deployed, or about to be saved as deployed by any
\* handler, stale or not, only when its contract is on chain.
DeployedIsOnChain ==
  /\ row.status = "deployed" => contract
  /\ \A r \in Requests : req[r].mem.status = "deployed" => contract

\* A deployed account names the transaction of its deployment: a save of an
\* entity read after a lock may erase the hash of the row, but it then takes
\* the status back to "deploying" with it.
DeployedHasHash ==
  /\ row.status = "deployed" => row.hash \in Hashes
  /\ \A r \in Requests : req[r].mem.status = "deployed" => req[r].mem.hash \in Hashes

\* A session that was deleted, by a logout or by a later login, and that no
\* request had read before, is never valid again.
Over(s) == session[s] = "deleted" /\ \A r \in Requests : req[r].sid # s

DeletedSessionStaysDeleted == [][\A s \in Sessions : Over(s) => Over(s)']_vars

\* As long as the user keeps asking for the deployment, the account is never
\* stuck in deploying: a crash after the lock is recovered from.
NeverStuckDeploying ==
  []<><<\E r \in Requests : Deploy(r)>>_vars
    => (row.status = "deploying" ~> row.status # "deploying")

-----------------------------------------------------------------------------
\* account-deployer.service.ts: "Only one concurrent request can win this
\* transition", and the call of the paymaster is "safe - we own the deploying
\* state": no two requests are between their lock and the save of their hash.
OneSubmission ==
  \A r, t \in Requests :
    req[r].pc \in {"submitting", "savingHash"} /\ req[t].pc \in {"submitting", "savingHash"}
      => r = t
=============================================================================
