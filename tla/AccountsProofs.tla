--------------------------- MODULE AccountsProofs ---------------------------
(***************************************************************************)
(* Proofs about Accounts, for any number of requests, challenges, sessions *)
(* and transactions.  The invariant says what an entity in the memory of a *)
(* request may hold, since any of them may be saved over the row later.    *)
(***************************************************************************)
EXTENDS Accounts, TLAPS

\* An entity shown as deployed has its contract, as c says, and its transaction.
Sound(e, c) == e.status = "deployed" => c /\ e.hash \in Hashes

\* What handler h may hold: a sound entity, with a hash where it awaits one.
HandlerOK(h, c) ==
  /\ Sound(h.mem, c)
  /\ h.pc \in {"savingHash", "waiting", "checking"} => h.mem.hash \in Hashes

IInv ==
  /\ TypeOK
  /\ Sound(row, contract)
  /\ \A r \in Requests : HandlerOK(req[r], contract)

USE DEF Position, AccountStatus

\* The initial states are well typed.
LEMMA InitTypeOK == ASSUME Init PROVE TypeOK
<1>1. row \in Account /\ Idle \in Handler
  BY DEF Init, Account, NoAccount, Handler, Idle
<1>2. req \in [Requests -> Handler]
  BY <1>1 DEF Init
<1>3. \A r \in Requests : req[r].pc \in {"waiting", "checking"} => req[r].mem.hash \in Hashes
  BY DEF Init, Idle
<1>4. challenge \in [Challenges -> {"none", "open", "used", "expired"}]
  BY DEF Init
<1>5. session \in [Sessions -> {"none", "live", "expired", "deleted"}]
  BY DEF Init
<1>6. tx \in [Hashes -> {"none", "pending", "succeeded", "reverted"}]
  BY DEF Init
<1>7. contract \in BOOLEAN
  BY Zenon DEF Init
<1>8. opened \in [Challenges -> Nat] /\ crashes \in 0 .. MaxCrashes
  BY AccountsAssumption DEF Init
<1> QED BY <1>1, <1>2, <1>3, <1>4, <1>5, <1>6, <1>7, <1>8, Zenon DEF TypeOK

\* Saving an entity makes a row of the right type, whatever columns it leaves.
LEMMA SavedType ==
  ASSUME TypeOK, NEW mem \in Account
  PROVE  Saved(mem) \in Account
  BY DEF TypeOK, Account, Saved

\* A saved entity is sound when it was: a deployed one brings its own hash.
LEMMA SavedSound ==
  ASSUME TypeOK, NEW mem \in Account, NEW c, Sound(mem, c)
  PROVE  Sound(Saved(mem), c)
  BY AccountsAssumption DEF TypeOK, Account, Saved, Sound

\* The three ways a request goes on keep the type of what the requests hold.
LEMMA RequestType ==
  ASSUME TypeOK, NEW r \in Requests,
         \/ \E pc \in Position : Goes(r, pc)
         \/ \E pc \in Position, mem \in Account : GoesWith(r, pc, mem)
         \/ Ends(r)
  PROVE  req' \in [Requests -> Handler]
<1>1. req \in [Requests -> Handler] /\ Idle \in Handler
  BY DEF TypeOK, Handler, Idle, NoAccount, Account
<1>2. ASSUME NEW pc \in Position, Goes(r, pc) PROVE req' \in [Requests -> Handler]
  BY <1>1, <1>2 DEF Goes, Handler
<1>3. ASSUME NEW pc \in Position, NEW mem \in Account, GoesWith(r, pc, mem)
      PROVE  req' \in [Requests -> Handler]
  BY ZenonT(30), <1>1, <1>3 DEF GoesWith, Handler
<1>4. CASE Ends(r)
  BY <1>1, <1>4 DEF Ends
<1> QED BY <1>2, <1>3, <1>4

\* A request that goes on with a sound entity leaves every handler sound.
LEMMA GoesWithOK ==
  ASSUME IInv, UNCHANGED contract, NEW r \in Requests,
         NEW pc \in Position, NEW mem \in Account, Sound(mem, contract),
         pc \in {"savingHash", "waiting", "checking"} => mem.hash \in Hashes,
         GoesWith(r, pc, mem)
  PROVE  \A q \in Requests : HandlerOK(req[q], contract)'
<1> SUFFICES ASSUME NEW q \in Requests PROVE HandlerOK(req'[q], contract)
  OBVIOUS
<1>1. q = r => req'[q].pc = pc /\ req'[q].mem = mem
  BY DEF GoesWith, IInv, TypeOK, Handler
<1>2. q # r => req'[q] = req[q]
  BY DEF GoesWith, IInv, TypeOK
<1>3. CASE q = r
  BY <1>1, <1>3 DEF HandlerOK
<1>4. CASE q # r
  BY <1>2, <1>4 DEF IInv
<1> QED BY <1>3, <1>4

\* One that only moves on keeps the entity it holds.
LEMMA GoesOK ==
  ASSUME IInv, UNCHANGED contract, NEW r \in Requests, NEW pc \in Position,
         pc \in {"savingHash", "waiting", "checking"} => req[r].mem.hash \in Hashes,
         Goes(r, pc)
  PROVE  \A q \in Requests : HandlerOK(req[q], contract)'
<1> SUFFICES ASSUME NEW q \in Requests PROVE HandlerOK(req'[q], contract)
  OBVIOUS
<1>1. q = r => req'[q].pc = pc /\ req'[q].mem = req[q].mem
  BY DEF Goes, IInv, TypeOK, Handler
<1>2. q # r => req'[q] = req[q]
  BY DEF Goes, IInv, TypeOK
<1>3. CASE q = r
  BY <1>1, <1>3 DEF HandlerOK, IInv
<1>4. CASE q # r
  BY <1>2, <1>4 DEF IInv
<1> QED BY <1>3, <1>4

\* One that ends holds nothing.
LEMMA EndsOK ==
  ASSUME IInv, UNCHANGED contract, NEW r \in Requests, Ends(r)
  PROVE  \A q \in Requests : HandlerOK(req[q], contract)'
<1> SUFFICES ASSUME NEW q \in Requests PROVE HandlerOK(req'[q], contract)
  OBVIOUS
<1>1. req'[q] = req[q] \/ req'[q] = Idle
  BY DEF Ends, IInv, TypeOK
<1>2. HandlerOK(Idle, contract)
  BY DEF HandlerOK, Sound, Idle, NoAccount
<1> QED BY <1>1, <1>2 DEF IInv

\* The type of the variables that are neither the row nor the requests.
OthersOK ==
  /\ challenge \in [Challenges -> {"none", "open", "used", "expired"}]
  /\ session \in [Sessions -> {"none", "live", "expired", "deleted"}]
  /\ tx \in [Hashes -> {"none", "pending", "succeeded", "reverted"}]
  /\ contract \in BOOLEAN
  /\ opened \in [Challenges -> Nat]
  /\ crashes \in 0 .. MaxCrashes

\* The invariant after a step, from what the step did to each part.
LEMMA Parts ==
  ASSUME OthersOK', row' \in Account, req' \in [Requests -> Handler],
         Sound(row, contract)', \A q \in Requests : HandlerOK(req[q], contract)'
  PROVE  IInv'
<1>1. \A r \in Requests :
        req'[r].pc \in {"waiting", "checking"} => req'[r].mem.hash \in Hashes
  BY DEF HandlerOK
<1> QED BY <1>1 DEF IInv, TypeOK, OthersOK

\* Steps that change one handler and neither the row nor the contract.
LEMMA HandlerStep ==
  ASSUME IInv, OthersOK', UNCHANGED <<row, contract>>, NEW r \in Requests,
         \/ \E pc \in Position \ {"savingHash", "waiting", "checking"} : Goes(r, pc)
         \/ req[r].pc \in {"savingHash", "waiting", "checking"}
              /\ \E pc \in Position : Goes(r, pc)
         \/ \E pc \in Position, mem \in Account :
              /\ Sound(mem, contract)
              /\ pc \in {"savingHash", "waiting", "checking"} => mem.hash \in Hashes
              /\ GoesWith(r, pc, mem)
         \/ Ends(r)
  PROVE  IInv'
<1>1. req' \in [Requests -> Handler]
  BY RequestType DEF IInv
<1>2. ASSUME NEW pc \in Position, Goes(r, pc),
             \/ pc \notin {"savingHash", "waiting", "checking"}
             \/ req[r].pc \in {"savingHash", "waiting", "checking"}
      PROVE  \A q \in Requests : HandlerOK(req[q], contract)'
  <2>1. pc \in {"savingHash", "waiting", "checking"} => req[r].mem.hash \in Hashes
    BY <1>2 DEF IInv, HandlerOK
  <2> QED BY <1>2, <2>1, GoesOK
<1>3. \A q \in Requests : HandlerOK(req[q], contract)'
  BY <1>2, GoesWithOK, EndsOK
<1>4. row' \in Account /\ Sound(row, contract)'
  BY DEF IInv, TypeOK
<1> QED BY <1>1, <1>3, <1>4, Parts

\* Steps that change neither the row, the requests nor the contract.
LEMMA OtherStep ==
  ASSUME IInv, OthersOK', UNCHANGED <<row, req, contract>>
  PROVE  IInv'
  BY Parts DEF IInv, TypeOK

\* Steps that save the entity of a request over the row.
LEMMA SaveStep ==
  ASSUME IInv, OthersOK', UNCHANGED contract, NEW r \in Requests,
         row' = Saved(req[r].mem),
         \/ req[r].pc = "savingHash" /\ Goes(r, "waiting")
         \/ Ends(r)
  PROVE  IInv'
<1>1. req[r].mem \in Account /\ Sound(req[r].mem, contract)
  BY DEF IInv, TypeOK, Handler, HandlerOK
<1>2. row' \in Account /\ Sound(row', contract)
  BY <1>1, SavedType, SavedSound DEF IInv
<1>3. req' \in [Requests -> Handler]
  BY RequestType DEF IInv
<1>4. req[r].pc = "savingHash" => req[r].mem.hash \in Hashes
  BY DEF IInv, HandlerOK
<1>5. \A q \in Requests : HandlerOK(req[q], contract)'
  BY <1>4, GoesOK, EndsOK
<1> QED BY <1>2, <1>3, <1>5, Parts

\* Challenges, logins and registrations keep the invariant.
LEMMA AuthenticationStep == ASSUME IInv, Authentication PROVE IInv'
<1> USE DEF Authentication
<1>1. ASSUME NEW c \in Challenges, IssueChallenge(c) PROVE IInv'
  BY <1>1, OtherStep DEF IssueChallenge, IInv, TypeOK, OthersOK
<1>2. ASSUME NEW c \in Challenges, ExpireChallenge(c) PROVE IInv'
  BY <1>2, OtherStep DEF ExpireChallenge, IInv, TypeOK, OthersOK
<1>3. ASSUME NEW r \in Requests, NEW c \in Challenges, PostComplete(r, c) PROVE IInv'
  <2>1. OthersOK' /\ row' \in Account /\ Sound(row, contract)'
    BY <1>3 DEF PostComplete, IInv, TypeOK, OthersOK
  <2>2. req' \in [Requests -> Handler]
    BY <1>3 DEF PostComplete, IInv, TypeOK, Handler
  <2>3. ASSUME NEW q \in Requests PROVE HandlerOK(req'[q], contract')
    <3>1. \/ req'[q] = req[q]
          \/ req'[q].pc = "consuming" /\ req'[q].mem = req[q].mem
      BY <1>3 DEF PostComplete, IInv, TypeOK, Handler
    <3>2. HandlerOK(req[q], contract) /\ contract' = contract
      BY <1>3 DEF PostComplete, IInv
    <3> QED BY <3>1, <3>2 DEF HandlerOK
  <2> QED BY <2>1, <2>2, <2>3, Parts
<1>4. ASSUME NEW r \in Requests, ConsumeById(r) PROVE IInv'
  <2>1. OthersOK' /\ UNCHANGED <<row, contract>>
    BY <1>4 DEF ConsumeById, IInv, TypeOK, OthersOK
  <2>2. \/ \E mem \in Account : Sound(mem, contract) /\ GoesWith(r, "opening", mem)
        \/ Goes(r, "finding")
    BY <1>4 DEF ConsumeById, AfterConsume, Account, Sound
  <2> QED BY <2>1, <2>2, HandlerStep
<1>5. ASSUME NEW r \in Requests, FindAccount(r) PROVE IInv'
  <2>1. OthersOK' /\ UNCHANGED <<row, contract>>
    BY <1>5 DEF FindAccount, IInv, TypeOK, OthersOK
  <2>2. row \in Account /\ Sound(row, contract) /\ GoesWith(r, "opening", row)
    BY <1>5 DEF FindAccount, IInv, TypeOK
  <2> QED BY <2>1, <2>2, HandlerStep
<1>6. ASSUME NEW r \in Requests, OpenSession(r) PROVE IInv'
  <2>1. session' \in [Sessions -> {"none", "live", "expired", "deleted"}]
    BY <1>6 DEF OpenSession, IInv, TypeOK
  <2>2. opened' \in [Challenges -> Nat]
    <3>1. opened \in [Challenges -> Nat]
      BY DEF IInv, TypeOK
    <3>2. opened' = [opened EXCEPT ![req[r].ch] = opened[req[r].ch] + 1]
      BY <1>6 DEF OpenSession
    <3> DEFINE ch == req[r].ch
    <3>3. ch \in Challenges \cup {None}
      BY DEF IInv, TypeOK, Handler
    <3>4. CASE ch \in Challenges
      <4>1. opened[ch] + 1 \in Nat
        BY <3>1, <3>4
      <4> HIDE DEF ch
      <4> QED BY <3>1, <3>2, <3>4, <4>1 DEF ch
    <3>5. CASE ch \notin Challenges
      BY <3>1, <3>2, <3>5
    <3> QED BY <3>4, <3>5
  <2>3. OthersOK'
    BY <1>6, <2>1, <2>2 DEF OpenSession, IInv, TypeOK, OthersOK
  <2> QED BY <1>6, <2>3, SaveStep DEF OpenSession
<1> QED BY <1>1, <1>2, <1>3, <1>4, <1>5, <1>6

\* The use, renewal and end of sessions keep it.
LEMMA SessionStep == ASSUME IInv, SessionUse PROVE IInv'
<1> USE DEF SessionUse
<1>1. ASSUME NEW s \in Sessions, ExpireSession(s) PROVE IInv'
  BY <1>1, OtherStep DEF ExpireSession, IInv, TypeOK, OthersOK
<1>2. ASSUME NEW s \in Sessions, Logout(s) PROVE IInv'
  BY <1>2, OtherStep DEF Logout, IInv, TypeOK, OthersOK
<1>3. ASSUME NEW r \in Requests, NEW s \in Sessions, FindSession(r, s) PROVE IInv'
  <2>1. OthersOK' /\ row' \in Account /\ Sound(row, contract)'
    BY <1>3 DEF FindSession, IInv, TypeOK, OthersOK
  <2>2. req' \in [Requests -> Handler]
    <3>1. req \in [Requests -> Handler]
      BY DEF IInv, TypeOK
    <3>2. req' = [req EXCEPT ![r].pc = "renewing", ![r].sid = s]
      BY <1>3 DEF FindSession
    <3> QED BY ZenonT(30), <3>1, <3>2 DEF Handler
  <2>3. ASSUME NEW q \in Requests PROVE HandlerOK(req'[q], contract')
    <3>1. \/ req'[q] = req[q]
          \/ req'[q].pc = "renewing" /\ req'[q].mem = req[q].mem
      BY <1>3 DEF FindSession, IInv, TypeOK, Handler
    <3>2. HandlerOK(req[q], contract) /\ contract' = contract
      BY <1>3 DEF FindSession, IInv
    <3> QED BY <3>1, <3>2 DEF HandlerOK
  <2> QED BY <2>1, <2>2, <2>3, Parts
<1>4. ASSUME NEW r \in Requests, RenewSession(r) PROVE IInv'
  <2>1. OthersOK' /\ row' \in Account /\ Sound(row, contract)'
    BY <1>4 DEF RenewSession, IInv, TypeOK, OthersOK
  <2>2. req' \in [Requests -> Handler]
    BY <1>4 DEF RenewSession, IInv, TypeOK, Handler
  <2>3. ASSUME NEW q \in Requests PROVE HandlerOK(req'[q], contract')
    <3>1. \/ req'[q] = req[q]
          \/ req'[q].pc = "authenticated" /\ req'[q].mem = req[q].mem
      BY <1>4 DEF RenewSession, IInv, TypeOK, Handler
    <3>2. HandlerOK(req[q], contract) /\ contract' = contract
      BY <1>4 DEF RenewSession, IInv
    <3> QED BY <3>1, <3>2 DEF HandlerOK
  <2> QED BY <2>1, <2>2, <2>3, Parts
<1> QED BY <1>1, <1>2, <1>3, <1>4

\* The deployment keeps it: an entity becomes deployed only after the check,
\* and what a request awaits with was locked or read with its hash.
LEMMA DeploymentStep == ASSUME IInv, Deployment PROVE IInv'
<1> USE DEF Deployment
<1>1. ASSUME NEW r \in Requests, Deploy(r) PROVE IInv'
  <2>1. OthersOK' /\ UNCHANGED <<row, contract>>
    BY <1>1 DEF Deploy, IInv, TypeOK, OthersOK
  <2>2. row \in Account /\ Sound(row, contract)
    BY DEF IInv, TypeOK
  <2>3. MarkAs(row, "failed") \in Account /\ Sound(MarkAs(row, "failed"), contract)
    BY <2>2 DEF Account, MarkAs, Sound
  <2>4. \/ GoesWith(r, "savingResult", MarkAs(row, "failed"))
        \/ row.hash \in Hashes /\ GoesWith(r, "waiting", row)
        \/ GoesWith(r, "claiming", row)
        \/ Ends(r)
    BY <1>1 DEF Deploy
  <2> QED BY <2>1, <2>2, <2>3, <2>4, HandlerStep
<1>2. ASSUME NEW r \in Requests, MarkAsDeploying(r) PROVE IInv'
  <2>1. OthersOK' /\ UNCHANGED contract
    BY <1>2 DEF MarkAsDeploying, IInv, TypeOK, OthersOK
  <2>2. row' \in Account /\ Sound(row', contract)
    BY <1>2 DEF MarkAsDeploying, Account, Sound
  <2>3. Goes(r, "submitting")
    BY <1>2 DEF MarkAsDeploying
  <2>4. req' \in [Requests -> Handler]
    BY <2>3, RequestType DEF IInv
  <2>5. \A q \in Requests : HandlerOK(req[q], contract)'
    BY <2>1, <2>3, GoesOK
  <2> QED BY <2>1, <2>2, <2>4, <2>5, Parts
<1>3. ASSUME NEW r \in Requests, NEW h \in Hashes, Submit(r, h) PROVE IInv'
  <2>1. OthersOK' /\ UNCHANGED <<row, contract>>
    BY <1>3 DEF Submit, IInv, TypeOK, OthersOK
  <2> DEFINE mem == [status |-> "deploying", hash |-> h]
  <2>2. mem \in Account /\ Sound(mem, contract) /\ mem.hash \in Hashes
    BY DEF Account, Sound
  <2>3. GoesWith(r, "savingHash", mem) \/ Ends(r)
    BY <1>3 DEF Submit
  <2> HIDE DEF mem
  <2> QED BY <2>1, <2>2, <2>3, HandlerStep
<1>4. ASSUME NEW r \in Requests, SaveHash(r) PROVE IInv'
  <2>1. OthersOK'
    BY <1>4 DEF SaveHash, IInv, TypeOK, OthersOK
  <2> QED BY <1>4, <2>1, SaveStep DEF SaveHash
<1>5. ASSUME NEW r \in Requests, WaitReturns(r) PROVE IInv'
  <2>1. OthersOK' /\ UNCHANGED <<row, contract>>
    BY <1>5 DEF WaitReturns, IInv, TypeOK, OthersOK
  <2>2. req[r].pc = "waiting" /\ Goes(r, "checking")
    BY <1>5 DEF WaitReturns
  <2> QED BY <2>1, <2>2, HandlerStep
<1>6. ASSUME NEW r \in Requests, WaitThrows(r) PROVE IInv'
  <2>1. OthersOK' /\ UNCHANGED <<row, contract>>
    BY <1>6 DEF WaitThrows, IInv, TypeOK, OthersOK
  <2>2. req[r].mem \in Account
    BY DEF IInv, TypeOK, Handler
  <2> DEFINE mem == MarkAs(req[r].mem, "failed")
  <2>3. mem \in Account /\ Sound(mem, contract)
    BY <2>2 DEF Account, Sound, MarkAs
  <2>4. GoesWith(r, "savingResult", mem)
    BY <1>6 DEF WaitThrows
  <2> HIDE DEF mem
  <2> QED BY <2>1, <2>3, <2>4, HandlerStep
<1>7. ASSUME NEW r \in Requests, CheckDeployed(r) PROVE IInv'
  <2>1. OthersOK' /\ UNCHANGED <<row, contract>>
    BY <1>7 DEF CheckDeployed, IInv, TypeOK, OthersOK
  <2>2. req[r].mem \in Account /\ req[r].mem.hash \in Hashes
    BY <1>7 DEF CheckDeployed, IInv, TypeOK, Handler
  <2>3. contract => Sound(MarkAs(req[r].mem, "deployed"), contract)
    BY <2>2 DEF Account, Sound, MarkAs
  <2>4. Sound(MarkAs(req[r].mem, "failed"), contract)
    BY <2>2 DEF Account, Sound, MarkAs
  <2>5. \A st \in AccountStatus : MarkAs(req[r].mem, st) \in Account
    BY <2>2 DEF Account, MarkAs
  <2>6. \/ contract /\ GoesWith(r, "savingResult", MarkAs(req[r].mem, "deployed"))
        \/ GoesWith(r, "savingResult", MarkAs(req[r].mem, "failed"))
    BY <1>7 DEF CheckDeployed
  <2>7. \E mem \in Account : Sound(mem, contract) /\ GoesWith(r, "savingResult", mem)
    BY <2>3, <2>4, <2>5, <2>6
  <2> QED BY <2>1, <2>7, HandlerStep
<1>8. ASSUME NEW r \in Requests, SaveResult(r) PROVE IInv'
  <2>1. OthersOK'
    BY <1>8 DEF SaveResult, IInv, TypeOK, OthersOK
  <2> QED BY <1>8, <2>1, SaveStep DEF SaveResult
<1> QED BY <1>1, <1>2, <1>3, <1>4, <1>5, <1>6, <1>7, <1>8

\* A contract, once deployed, stays: what was sound remains so.
LEMMA IncludeStep ==
  ASSUME IInv, NEW h \in Hashes, IncludeTransaction(h)
  PROVE  IInv'
<1>1. contract => contract'
  BY DEF IncludeTransaction
<1>2. OthersOK' /\ row' = row /\ req' = req
  BY DEF IncludeTransaction, IInv, TypeOK, OthersOK
<1>3. row' \in Account /\ req' \in [Requests -> Handler]
  BY <1>2 DEF IInv, TypeOK
<1>4. Sound(row, contract)' /\ \A q \in Requests : HandlerOK(req[q], contract)'
  BY <1>1, <1>2 DEF IInv, Sound, HandlerOK
<1> QED BY <1>2, <1>3, <1>4, Parts

\* A crash forgets what the requests held.
LEMMA CrashStep == ASSUME IInv, Crash PROVE IInv'
<1>1. crashes' \in 0 .. MaxCrashes
  <2>1. crashes \in 0 .. MaxCrashes /\ crashes < MaxCrashes /\ crashes' = crashes + 1
    BY DEF Crash, IInv, TypeOK
  <2> QED BY <2>1, AccountsAssumption
<1>2. OthersOK' /\ row' \in Account /\ Sound(row, contract)'
  BY <1>1 DEF Crash, IInv, TypeOK, OthersOK
<1>3. Idle \in Handler
  BY DEF Idle, Handler, NoAccount, Account
<1>4. HandlerOK(Idle, contract')
  BY DEF HandlerOK, Sound, Idle, NoAccount
<1>5. req' \in [Requests -> Handler] /\ \A q \in Requests : HandlerOK(req[q], contract)'
  BY <1>3, <1>4 DEF Crash
<1> QED BY <1>2, <1>5, Parts

\* Every step keeps the invariant.
LEMMA InvariantStep == ASSUME IInv, [Next]_vars PROVE IInv'
<1>1. ASSUME NEW r \in Requests, RequestFails(r) PROVE IInv'
  <2>1. OthersOK' /\ UNCHANGED <<row, contract>> /\ Ends(r)
    BY <1>1 DEF RequestFails, IInv, TypeOK, OthersOK
  <2> QED BY <2>1, HandlerStep
<1>2. CASE UNCHANGED vars
  <2>1. OthersOK' /\ UNCHANGED <<row, req, contract>>
    BY <1>2 DEF vars, IInv, TypeOK, OthersOK
  <2> QED BY <2>1, OtherStep
<1> QED BY <1>1, <1>2, AuthenticationStep, SessionStep, DeploymentStep, IncludeStep, CrashStep
        DEF Next

\* The invariant of an account and of everything that may be saved over it.
THEOREM InvariantAlways == Spec => []IInv
<1>1. Init => IInv
  <2>1. ASSUME Init PROVE Sound(row, contract) /\ \A r \in Requests : HandlerOK(req[r], contract)
    BY <2>1 DEF Init, Sound, HandlerOK, NoAccount, Idle
  <2> QED BY <2>1, InitTypeOK DEF IInv
<1> QED BY <1>1, InvariantStep, PTL DEF Spec

\* The variables keep their types, and a request awaits a transaction only
\* with its hash.
THEOREM TypeOKAlways == Spec => []TypeOK
<1>1. IInv => TypeOK
  BY DEF IInv
<1> QED BY <1>1, InvariantAlways, PTL

\* No interleaving of deployments, recoveries and stale logins shows an
\* account as deployed without its contract.
THEOREM DeployedIsOnChainAlways == Spec => []DeployedIsOnChain
<1>1. IInv => DeployedIsOnChain
  BY DEF IInv, HandlerOK, Sound, DeployedIsOnChain
<1> QED BY <1>1, InvariantAlways, PTL

\* Nor without the hash of its deployment, although the lock erases it and a
\* save of an entity read after the lock erases it again.
THEOREM DeployedHasHashAlways == Spec => []DeployedHasHash
<1>1. IInv => DeployedHasHash
  BY DEF IInv, HandlerOK, Sound, DeployedHasHash
<1> QED BY <1>1, InvariantAlways, PTL

(***************************************************************************)
(* Challenges and sessions.                                                *)
(***************************************************************************)

\* How a step may move a request that consumes no challenge: it stays, ends, does
\* something else, or goes on from the account to the session.
Moved(q) ==
  \/ req'[q] = req[q]
  \/ req'[q].pc \notin {"consuming", "finding", "opening"}
  \/ req[q].pc = "finding" /\ req'[q].pc = "opening" /\ req'[q].ch = req[q].ch

LEMMA WaysToGo ==
  ASSUME TypeOK, NEW r \in Requests, NEW pc \in Position,
         Goes(r, pc) \/ \E mem \in Account : GoesWith(r, pc, mem)
  PROVE  /\ req'[r].pc = pc /\ req'[r].ch = req[r].ch /\ req'[r].sid = req[r].sid
         /\ \A q \in Requests : q # r => req'[q] = req[q]
  BY DEF Goes, GoesWith, TypeOK, Handler

LEMMA WayToEnd ==
  ASSUME TypeOK, NEW r \in Requests, Ends(r)
  PROVE  \A q \in Requests : req'[q] = IF q = r THEN Idle ELSE req[q]
  BY DEF Ends, TypeOK

\* The challenge of request r is consumed, and its session not yet opened.
Consumed(h, c) == h.pc \in {"finding", "opening"} /\ h.ch = c

\* A consumed challenge is used, and is with one request or has opened its session.
ChallengesOK ==
  /\ \A r \in Requests : req[r].pc \in {"consuming", "finding", "opening"} => req[r].ch \in Challenges
  /\ \A c \in Challenges :
       /\ opened[c] \in {0, 1}
       /\ opened[c] = 1 => challenge[c] = "used"
       /\ \A r \in Requests : Consumed(req[r], c) => challenge[c] = "used" /\ opened[c] = 0
       /\ \A r, t \in Requests : Consumed(req[r], c) /\ Consumed(req[t], c) => r = t

LEMMA IdleHasNoChallenge == \A c : ~Consumed(Idle, c)
  BY DEF Consumed, Idle

\* A step that moves requests and no challenge.
LEMMA QuietStep ==
  ASSUME ChallengesOK, UNCHANGED <<challenge, opened>>, \A q \in Requests : Moved(q)
  PROVE  ChallengesOK'
<1>1. ASSUME NEW q \in Requests, NEW c, Consumed(req'[q], c) PROVE Consumed(req[q], c)
  BY <1>1, IdleHasNoChallenge DEF Moved, Consumed
<1>2. ASSUME NEW q \in Requests, req'[q].pc \in {"consuming", "finding", "opening"}
      PROVE  req'[q].ch \in Challenges
  BY <1>2 DEF Moved, Idle, ChallengesOK
<1>. QED BY <1>1, <1>2 DEF ChallengesOK

LEMMA IssueOK ==
  ASSUME ChallengesOK, IInv, NEW c \in Challenges, IssueChallenge(c) \/ ExpireChallenge(c)
  PROVE  ChallengesOK'
<1>1. UNCHANGED <<req, opened>> /\ challenge[c] # "used"
  BY DEF IssueChallenge, ExpireChallenge
<1>2. \A d \in Challenges \ {c} : challenge'[d] = challenge[d]
  BY DEF IssueChallenge, ExpireChallenge, IInv, TypeOK
<1>. QED BY <1>1, <1>2 DEF ChallengesOK

LEMMA PostOK ==
  ASSUME ChallengesOK, IInv, NEW r \in Requests, NEW c \in Challenges, PostComplete(r, c)
  PROVE  ChallengesOK'
<1>1. /\ req'[r].pc = "consuming" /\ req'[r].ch = c
      /\ \A q \in Requests : q # r => req'[q] = req[q]
  BY DEF PostComplete, IInv, TypeOK, Handler
<1>2. ASSUME NEW q \in Requests, NEW d, Consumed(req'[q], d) PROVE Consumed(req[q], d)
  BY <1>1, <1>2 DEF Consumed
<1>. QED BY <1>1, <1>2 DEF ChallengesOK, PostComplete

LEMMA ConsumeOK ==
  ASSUME ChallengesOK, IInv, NEW r \in Requests, ConsumeById(r)
  PROVE  ChallengesOK'
<1> DEFINE c == req[r].ch
<1>1. c \in Challenges /\ challenge[c] = "open"
  BY DEF ConsumeById, ChallengesOK
<1>2. /\ req'[r].pc \in {"finding", "opening"} /\ req'[r].ch = c
      /\ \A q \in Requests : q # r => req'[q] = req[q]
  <2>1. [status |-> "pending", hash |-> None] \in Account
    BY DEF Account
  <2>. QED BY <2>1, WaysToGo DEF ConsumeById, AfterConsume, IInv
<1>3. /\ challenge'[c] = "used" /\ opened' = opened
      /\ \A d \in Challenges \ {c} : challenge'[d] = challenge[d]
  BY <1>1 DEF ConsumeById, IInv, TypeOK
<1>4. \A q \in Requests : ~Consumed(req[q], c)
  BY <1>1 DEF ChallengesOK
<1>5. opened[c] = 0
  BY <1>1 DEF ChallengesOK
<1>6. \A q \in Requests, d \in Challenges :
        Consumed(req'[q], d) => (q = r /\ d = c) \/ (q # r /\ Consumed(req[q], d))
  BY <1>2 DEF Consumed
<1>7. \A q \in Requests :
        req'[q].pc \in {"consuming", "finding", "opening"} => req'[q].ch \in Challenges
  BY <1>1, <1>2 DEF ChallengesOK
<1> HIDE DEF c
<1>8. ASSUME NEW d \in Challenges
      PROVE  /\ opened'[d] \in {0, 1}
             /\ opened'[d] = 1 => challenge'[d] = "used"
             /\ \A q \in Requests : Consumed(req'[q], d) => challenge'[d] = "used" /\ opened'[d] = 0
             /\ \A q, t \in Requests : Consumed(req'[q], d) /\ Consumed(req'[t], d) => q = t
  <2>1. CASE d = c
    BY <1>3, <1>4, <1>5, <1>6, <2>1
  <2>2. CASE d # c
    <3>1. challenge'[d] = challenge[d] /\ opened'[d] = opened[d]
      BY <1>3, <2>2
    <3>2. \A q \in Requests : Consumed(req'[q], d) => Consumed(req[q], d)
      BY <1>6, <2>2
    <3>. QED BY <3>1, <3>2 DEF ChallengesOK
  <2>. QED BY <2>1, <2>2
<1>. QED BY <1>7, <1>8 DEF ChallengesOK

LEMMA OpenOK ==
  ASSUME ChallengesOK, IInv, NEW r \in Requests, OpenSession(r)
  PROVE  ChallengesOK'
<1> DEFINE c == req[r].ch
<1>1. c \in Challenges /\ Consumed(req[r], c) /\ challenge[c] = "used" /\ opened[c] = 0
  BY DEF OpenSession, ChallengesOK, Consumed
<1>2. \A q \in Requests : req'[q] = IF q = r THEN Idle ELSE req[q]
  BY WayToEnd DEF OpenSession, IInv
<1>3. /\ opened'[c] = 1 /\ challenge' = challenge
      /\ \A d \in Challenges \ {c} : opened'[d] = opened[d]
  BY <1>1 DEF OpenSession, IInv, TypeOK
<1>4. \A q \in Requests, d \in Challenges :
        Consumed(req'[q], d) => q # r /\ Consumed(req[q], d) /\ d # c
  BY <1>1, <1>2, IdleHasNoChallenge DEF ChallengesOK
<1>5. \A q \in Requests :
        req'[q].pc \in {"consuming", "finding", "opening"} => req'[q].ch \in Challenges
  BY <1>2 DEF ChallengesOK, Idle
<1> HIDE DEF c
<1>. QED BY <1>1, <1>3, <1>4, <1>5 DEF ChallengesOK

\* No step opens a second session with a challenge.
LEMMA ChallengesStep == ASSUME IInv, ChallengesOK, [Next]_vars PROVE ChallengesOK'
<1> USE DEF IInv
<1>1. CASE Authentication
  <2>1. ASSUME NEW r \in Requests, FindAccount(r) PROVE ChallengesOK'
    <3>1. row \in Account
      BY DEF TypeOK
    <3>2. \A q \in Requests : Moved(q)
      BY <2>1, <3>1, WaysToGo DEF FindAccount, Moved
    <3>. QED BY <2>1, <3>2, QuietStep DEF FindAccount
  <2>. QED BY <1>1, <2>1, IssueOK, PostOK, ConsumeOK, OpenOK DEF Authentication
<1>2. CASE SessionUse
  <2>1. ASSUME NEW s \in Sessions, ExpireSession(s) \/ Logout(s) PROVE ChallengesOK'
    BY <2>1, QuietStep DEF ExpireSession, Logout, Moved
  <2>2. ASSUME NEW r \in Requests, NEW s \in Sessions, FindSession(r, s) PROVE ChallengesOK'
    <3>1. \A q \in Requests : Moved(q)
      BY <2>2 DEF FindSession, Moved, TypeOK, Handler
    <3>. QED BY <2>2, <3>1, QuietStep DEF FindSession
  <2>3. ASSUME NEW r \in Requests, RenewSession(r) PROVE ChallengesOK'
    <3>1. \A q \in Requests : Moved(q)
      BY <2>3 DEF RenewSession, Moved, TypeOK, Handler
    <3>. QED BY <2>3, <3>1, QuietStep DEF RenewSession
  <2>. QED BY <1>2, <2>1, <2>2, <2>3 DEF SessionUse
<1>3. ASSUME NEW r \in Requests, UNCHANGED <<challenge, opened>>,
             \/ Ends(r)
             \/ \E pc \in Position \ {"consuming", "finding", "opening"} :
                  Goes(r, pc) \/ \E mem \in Account : GoesWith(r, pc, mem)
      PROVE  ChallengesOK'
  <2>1. \A q \in Requests : Moved(q)
    BY <1>3, WaysToGo, WayToEnd DEF Moved, Idle
  <2>. QED BY <1>3, <2>1, QuietStep
<1>4. CASE Deployment
  <2> SUFFICES ASSUME NEW r \in Requests,
                      \/ Deploy(r) \/ MarkAsDeploying(r) \/ (\E h \in Hashes : Submit(r, h))
                      \/ SaveHash(r) \/ WaitReturns(r) \/ WaitThrows(r) \/ CheckDeployed(r)
                      \/ SaveResult(r)
               PROVE  ChallengesOK'
    BY <1>4 DEF Deployment
  <2>1. /\ row \in Account /\ req[r].mem \in Account
        /\ \A mem \in Account, status \in AccountStatus : MarkAs(mem, status) \in Account
        /\ \A h \in Hashes : [status |-> "deploying", hash |-> h] \in Account
    BY DEF TypeOK, Handler, Account, MarkAs
  <2>2. CASE Deploy(r)
    BY <1>3, <2>1, <2>2 DEF Deploy
  <2>3. CASE MarkAsDeploying(r) \/ SaveHash(r) \/ WaitReturns(r) \/ SaveResult(r)
    BY <1>3, <2>3 DEF MarkAsDeploying, SaveHash, WaitReturns, SaveResult
  <2>4. CASE \E h \in Hashes : Submit(r, h)
    BY <1>3, <2>1, <2>4 DEF Submit
  <2>5. CASE WaitThrows(r) \/ CheckDeployed(r)
    BY <1>3, <2>1, <2>5 DEF WaitThrows, CheckDeployed
  <2>. QED BY <2>2, <2>3, <2>4, <2>5
<1>5. ASSUME NEW r \in Requests, RequestFails(r) PROVE ChallengesOK'
  BY <1>3, <1>5 DEF RequestFails
<1>6. CASE (\E h \in Hashes : IncludeTransaction(h)) \/ UNCHANGED vars
  BY <1>6, QuietStep DEF IncludeTransaction, vars, Moved
<1>7. CASE Crash
  <2>1. \A q \in Requests : Moved(q)
    BY <1>7 DEF Crash, Moved, Idle
  <2>. QED BY <1>7, <2>1, QuietStep DEF Crash
<1>. QED BY <1>1, <1>2, <1>4, <1>5, <1>6, <1>7 DEF Next

\* A challenge opens one session at most, however often its completion is posted
\* and whatever else goes on: the UPDATE that consumes it is the only guard.
THEOREM ChallengeAlwaysOpensOneSession == Spec => []ChallengeOpensOneSession
<1>1. Init => ChallengesOK
  BY DEF Init, ChallengesOK, Consumed, Idle
<1>2. ChallengesOK => ChallengeOpensOneSession
  BY DEF ChallengesOK, ChallengeOpensOneSession
<1>. QED BY <1>1, <1>2, ChallengesStep, InvariantAlways, PTL DEF Spec

\* A step brings back no session that is over: only the renewal of a session that a
\* request has read writes one that was deleted.
LEMMA OverStep ==
  ASSUME IInv, [Next]_vars, NEW s \in Sessions, Over(s)
  PROVE  Over(s)'
<1> USE DEF IInv
<1>1. None # s
  BY AccountsAssumption
<1>2. ASSUME session'[s] = "deleted",
             \A q \in Requests : req'[q].sid \in {req[q].sid, None}
      PROVE  Over(s)'
  BY <1>1, <1>2 DEF Over
<1>3. ASSUME NEW r \in Requests, session'[s] = "deleted",
             \/ Ends(r)
             \/ \E pc \in Position :
                  Goes(r, pc) \/ \E mem \in Account : GoesWith(r, pc, mem)
      PROVE  Over(s)'
  BY <1>2, <1>3, WaysToGo, WayToEnd DEF Idle
<1>4. CASE Authentication
  <2>1. ASSUME NEW c \in Challenges, IssueChallenge(c) \/ ExpireChallenge(c) PROVE Over(s)'
    BY <2>1 DEF IssueChallenge, ExpireChallenge, Over
  <2>2. ASSUME NEW r \in Requests, NEW c \in Challenges, PostComplete(r, c) PROVE Over(s)'
    BY <2>2, <1>2 DEF PostComplete, Over, TypeOK, Handler
  <2>3. ASSUME NEW r \in Requests, ConsumeById(r) \/ FindAccount(r) PROVE Over(s)'
    <3>1. row \in Account /\ [status |-> "pending", hash |-> None] \in Account
      BY DEF TypeOK, Account
    <3>. QED BY <1>3, <2>3, <3>1 DEF ConsumeById, AfterConsume, FindAccount, Over
  <2>4. ASSUME NEW r \in Requests, OpenSession(r) PROVE Over(s)'
    <3>1. session'[s] = "deleted"
      BY <2>4 DEF OpenSession, Over
    <3>. QED BY <1>3, <2>4, <3>1 DEF OpenSession
  <2>. QED BY <1>4, <2>1, <2>2, <2>3, <2>4 DEF Authentication
<1>5. CASE SessionUse
  <2>1. ASSUME NEW t \in Sessions, ExpireSession(t) \/ Logout(t) PROVE Over(s)'
    BY <2>1 DEF ExpireSession, Logout, Over, TypeOK
  <2>2. ASSUME NEW r \in Requests, NEW t \in Sessions, FindSession(r, t) PROVE Over(s)'
    <3>1. t # s /\ session'[s] = "deleted"
      BY <2>2 DEF FindSession, Over
    <3>2. \A q \in Requests : req'[q].sid = req[q].sid \/ req'[q].sid = t
      BY <2>2 DEF FindSession, TypeOK, Handler
    <3>. QED BY <3>1, <3>2 DEF Over
  <2>3. ASSUME NEW r \in Requests, RenewSession(r) PROVE Over(s)'
    <3>1. req[r].sid # s
      BY DEF Over
    <3>2. session'[s] = "deleted"
      BY <2>3, <3>1 DEF RenewSession, Over, TypeOK
    <3>3. \A q \in Requests : req'[q].sid \in {req[q].sid, None}
      BY <2>3 DEF RenewSession, TypeOK, Handler
    <3>. QED BY <1>2, <3>2, <3>3
  <2>. QED BY <1>5, <2>1, <2>2, <2>3 DEF SessionUse
<1>6. CASE Deployment
  <2> SUFFICES ASSUME NEW r \in Requests,
                      \/ Deploy(r) \/ MarkAsDeploying(r) \/ (\E h \in Hashes : Submit(r, h))
                      \/ SaveHash(r) \/ WaitReturns(r) \/ WaitThrows(r) \/ CheckDeployed(r)
                      \/ SaveResult(r)
               PROVE  Over(s)'
    BY <1>6 DEF Deployment
  <2>1. /\ row \in Account /\ req[r].mem \in Account
        /\ \A mem \in Account, status \in AccountStatus : MarkAs(mem, status) \in Account
        /\ \A h \in Hashes : [status |-> "deploying", hash |-> h] \in Account
    BY DEF TypeOK, Handler, Account, MarkAs
  <2>2. CASE Deploy(r)
    BY <1>3, <2>1, <2>2 DEF Deploy, Over
  <2>3. CASE MarkAsDeploying(r) \/ SaveHash(r) \/ WaitReturns(r) \/ SaveResult(r)
    BY <1>3, <2>3 DEF MarkAsDeploying, SaveHash, WaitReturns, SaveResult, Over
  <2>4. CASE \E h \in Hashes : Submit(r, h)
    BY <1>3, <2>1, <2>4 DEF Submit, Over
  <2>5. CASE WaitThrows(r) \/ CheckDeployed(r)
    BY <1>3, <2>1, <2>5 DEF WaitThrows, CheckDeployed, Over
  <2>. QED BY <2>2, <2>3, <2>4, <2>5
<1>7. ASSUME NEW r \in Requests, RequestFails(r) PROVE Over(s)'
  BY <1>3, <1>7 DEF RequestFails, Over
<1>8. CASE (\E h \in Hashes : IncludeTransaction(h)) \/ UNCHANGED vars
  BY <1>8 DEF IncludeTransaction, vars, Over
<1>9. CASE Crash
  BY <1>2, <1>9 DEF Crash, Idle, Over
<1>. QED BY <1>4, <1>5, <1>6, <1>7, <1>8, <1>9 DEF Next

\* Deleted by a logout or a later login, and read by nobody before, a session never
\* comes back (SessionValidator, SessionRepository).
THEOREM DeletedSessionAlwaysStaysDeleted == Spec => DeletedSessionStaysDeleted
<1>1. IInv /\ [Next]_vars => [\A s \in Sessions : Over(s) => Over(s)']_vars
  BY OverStep
<1>. QED BY <1>1, InvariantAlways, PTL DEF Spec, DeletedSessionStaysDeleted

=============================================================================
