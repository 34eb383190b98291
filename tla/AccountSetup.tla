---------------------------- MODULE AccountSetup ----------------------------
(***************************************************************************)
(* The page that follows a sign-up: it asks for the deployment of the      *)
(* account, then polls its status each second.  The page may be left or    *)
(* loaded again at any time, the polls overlap, every answer may be late,  *)
(* an error, or lost, and the API may restart.  The account is reduced     *)
(* here to its status and whether the hash of its transaction is known;    *)
(* Accounts has the rest.                                                  *)
(***************************************************************************)
EXTENDS Naturals

CONSTANTS MaxCalls,   \* bounds: requests under way at once,
          MaxVisits   \* and loads of the page

SetupAssumption == MaxCalls \in Nat \ {0} /\ MaxVisits \in Nat \ {0}

VARIABLES
  status,     \* bim_accounts: status,
  hash,       \* and whether a deployment_tx_hash is there
  waits,      \* waits for a confirmation in the background of the API
  place,      \* the page on screen
  pollTimer,  \* AccountSetupPage: an interval runs
  failed,     \* AccountSetupPage.failed
  call,       \* the requests under way
  visits      \* loads of the page so far

vars == <<status, hash, waits, place, pollTimer, failed, call, visits>>
account == <<status, hash>>
client == <<place, pollTimer, failed, visits>>

Slots == 1 .. MaxCalls

\* page: the load of the page that awaits the answer.
Calls == [op : {"none", "deploy", "status"}, page : 0 .. MaxVisits,
          pc : {"sent", "found", "locked", "stuck", "waiting", "answered"},
          ans : {"none", "ok", "pending", "deploying", "deployed", "failed",
                 "state", "error"}]

NoCall == [op |-> "none", page |-> 0, pc |-> "sent", ans |-> "none"]

TypeOK ==
  /\ status \in {"pending", "deploying", "deployed", "failed"} /\ hash \in BOOLEAN
  /\ waits \in 0 .. MaxVisits
  /\ place \in {"setup", "home", "away"}
  /\ pollTimer \in BOOLEAN /\ failed \in BOOLEAN
  /\ call \in [Slots -> Calls] /\ visits \in 1 .. MaxVisits

Free == {c \in Slots : call[c].op = "none"}

Ask(c, op, page) == call' = [call EXCEPT ![c] = [NoCall EXCEPT !.op = op, !.page = page]]

\* The user arrives from the sign-up, or by the page's address with an account
\* that an earlier visit has left in any status.
Init ==
  /\ status \in {"pending", "deploying", "deployed", "failed"} /\ hash \in BOOLEAN
  /\ status = "pending" => ~hash
  /\ status = "deployed" => hash
  /\ waits = 0
  /\ place = "setup" /\ pollTimer = FALSE /\ failed = FALSE /\ visits = 1
  /\ call = [c \in Slots |-> IF c = 1 THEN [NoCall EXCEPT !.op = "deploy", !.page = 1] ELSE NoCall]

\* Before the page has ever been opened.
Closed ==
  /\ status = "pending" /\ hash = FALSE /\ waits = 0
  /\ place = "away" /\ pollTimer = FALSE /\ failed = FALSE /\ visits = 1
  /\ call = [c \in Slots |-> NoCall]

-----------------------------------------------------------------------------
(* The page.                                                               *)

\* ngOnInit, after a reload: whatever the last page awaited is forgotten.
Load ==
  /\ visits < MaxVisits
  /\ visits' = visits + 1
  /\ \E c \in Free : Ask(c, "deploy", visits + 1)
  /\ place' = "setup" /\ pollTimer' = FALSE /\ failed' = FALSE
  /\ UNCHANGED <<account, waits>>

\* The page is destroyed; what it has asked for is still awaited.
Leave ==
  /\ place = "setup"
  /\ place' = "away" /\ pollTimer' = FALSE
  /\ UNCHANGED <<account, waits, failed, call, visits>>

\* Each tick asks, whatever is under way.
CheckDeploymentStatus ==
  /\ pollTimer
  /\ \E c \in Free : Ask(c, "status", visits)
  /\ UNCHANGED <<account, waits, client>>

Forget(c) == call' = [call EXCEPT ![c] = NoCall]

\* HTTP_STATUS, 400 if none is given.
HttpStatus(error) ==
  CASE error = "state" -> 400 [] error = "error" -> 500 [] OTHER -> 0

\* triggerDeployment: a refusal for the status means it is being deployed.
DeployAnswered(c) ==
  /\ call[c].op = "deploy" /\ call[c].pc = "answered"
  /\ Forget(c)
  /\ IF call[c].page # visits THEN UNCHANGED <<pollTimer, failed>>
     ELSE IF call[c].ans = "ok" \/ HttpStatus(call[c].ans) = 400
     THEN pollTimer' = TRUE /\ UNCHANGED failed
     ELSE failed' = TRUE /\ UNCHANGED pollTimer
  /\ UNCHANGED <<account, waits, place, visits>>

\* Faulty: the page waits for "deployed" alone.
ShowDeployed(ans) ==
  IF ans = "deployed" THEN pollTimer' = FALSE /\ place' = "home" /\ UNCHANGED failed
  ELSE UNCHANGED <<pollTimer, place, failed>>

\* checkDeploymentStatus, once answered.
ShowStatus(ans) ==
  IF ans = "deployed" THEN pollTimer' = FALSE /\ place' = "home" /\ UNCHANGED failed
  ELSE IF ans \in {"failed", "error"} THEN pollTimer' = FALSE /\ failed' = TRUE /\ UNCHANGED place
  ELSE UNCHANGED <<pollTimer, place, failed>>

StatusAnswered(c) ==
  /\ call[c].op = "status" /\ call[c].pc = "answered"
  /\ Forget(c)
  /\ IF call[c].page = visits THEN ShowStatus(call[c].ans)
     ELSE UNCHANGED <<pollTimer, place, failed>>
  /\ UNCHANGED <<account, waits, visits>>

\* The network fails: both are taken for a failure.  A deployment that was
\* sent goes on, awaited by no page.
Lose(c) ==
  /\ call[c].op # "none" /\ call[c].page = visits
  /\ call' = [call EXCEPT ![c] = IF @.op = "deploy" /\ @.pc # "answered"
                                 THEN [@ EXCEPT !.page = 0] ELSE NoCall]
  /\ failed' = TRUE
  /\ pollTimer' = (pollTimer /\ call[c].op = "deploy")
  /\ UNCHANGED <<account, waits, place, visits>>

-----------------------------------------------------------------------------
(* The API.                                                                *)

Goes(c, pc) == call' = [call EXCEPT ![c].pc = pc]
Answer(c, ans) == call' = [call EXCEPT ![c].pc = "answered", ![c].ans = ans]

\* AccountDeployer.deploy reads the account.
FindAccount(c) ==
  /\ call[c].op = "deploy" /\ call[c].pc = "sent"
  /\ CASE status \in {"pending", "failed"} -> Goes(c, "found")      \* canDeploy
       [] status = "deploying" /\ hash -> Goes(c, "waiting")
       [] status = "deploying" /\ ~hash -> Goes(c, "stuck")
       [] status = "deployed" -> Answer(c, "state")
  /\ UNCHANGED <<account, waits, client>>

\* markAsDeploying: one request wins the row, whose hash is emptied.
Lock(c) ==
  /\ call[c].op = "deploy" /\ call[c].pc = "found"
  /\ IF status \in {"pending", "failed"}
     THEN status' = "deploying" /\ hash' = FALSE /\ Goes(c, "locked")
     ELSE Answer(c, "state") /\ UNCHANGED account
  /\ UNCHANGED <<waits, client>>

\* The paymaster has accepted: the hash is saved, with the status, and the
\* confirmation is awaited in the background.
Submit(c) ==
  /\ call[c].op = "deploy" /\ call[c].pc = "locked"
  /\ status' = "deploying" /\ hash' = TRUE /\ waits' = waits + 1
  /\ Answer(c, "ok")
  /\ UNCHANGED client

\* waitForDeploymentConfirmation ends, and saves; or its save fails, unheard.
Confirm ==
  /\ waits > 0
  /\ waits' = waits - 1
  /\ \/ status' \in {"deployed", "failed"} /\ hash' = TRUE
     \/ UNCHANGED account
  /\ UNCHANGED <<call, client>>

\* recoverStuckDeployment waits for the same transaction; or, if its save of
\* "deployed" fails, is refused by its own markAsFailed.
Recover(c) ==
  /\ call[c].op = "deploy" /\ call[c].pc = "waiting"
  /\ \/ status' = "deployed" /\ hash' = TRUE /\ Answer(c, "ok")
     \/ status' = "failed" /\ hash' = TRUE /\ Answer(c, "state")
     \/ Answer(c, "state") /\ UNCHANGED account
  /\ UNCHANGED <<waits, client>>

\* Without a hash, it gives the deployment up, with what it has read.
GiveUp(c) ==
  /\ call[c].op = "deploy" /\ call[c].pc = "stuck"
  /\ status' = "failed" /\ hash' = FALSE
  /\ Answer(c, "state")
  /\ UNCHANGED <<waits, client>>

GetDeploymentStatus(c) ==
  /\ call[c].op = "status" /\ call[c].pc = "sent"
  /\ Answer(c, status)
  /\ UNCHANGED <<account, waits, client>>

UnderWay(c) == call[c].op # "none" /\ call[c].pc # "answered"

\* The database or the paymaster fails: a 500 or a 502.
Fails(c) ==
  /\ UnderWay(c)
  /\ Answer(c, "error")
  /\ UNCHANGED <<account, waits, client>>

\* The API restarts: the waits are gone, and so are the requests, which the
\* page takes for failed.
Restart ==
  /\ waits > 0 \/ \E c \in Slots : UnderWay(c)
  /\ waits' = 0
  /\ call' = [c \in Slots |->
                IF UnderWay(c) THEN [call[c] EXCEPT !.pc = "answered", !.ans = "error"]
                ELSE call[c]]
  /\ UNCHANGED <<account, client>>

Serve(c) ==
  \/ FindAccount(c) \/ Lock(c) \/ Submit(c) \/ Recover(c) \/ GiveUp(c)
  \/ GetDeploymentStatus(c)
Hear(c) == DeployAnswered(c) \/ StatusAnswered(c)

Next ==
  \/ Load \/ Leave \/ CheckDeploymentStatus \/ Confirm \/ Restart
  \/ \E c \in Slots : Serve(c) \/ Fails(c) \/ Hear(c) \/ Lose(c)

Spec == Init /\ [][Next]_vars

\* Requests are served and answered, the transaction ends, the timer ticks.
Fairness ==
  /\ WF_vars(CheckDeploymentStatus) /\ WF_vars(Confirm)
  /\ \A c \in Slots : WF_vars(Serve(c)) /\ WF_vars(Hear(c))

FairSpec == Spec /\ Fairness

-----------------------------------------------------------------------------
\* Nobody is at the deployment any more: the request that had locked the row
\* was refused by the paymaster, or a restart or a save that fails has cut off
\* the wait for its confirmation.  Only another load of the page, which asks
\* for the deployment again, takes it up; the poll of a page does not.
Abandoned ==
  /\ status = "deploying" /\ waits = 0
  /\ \A c \in Slots : call[c].op = "deploy" => call[c].pc \in {"sent", "answered"}

\* A user who waits while somebody is at the deployment is told its outcome:
\* the page is not left before a spinner by an answer that is late, refused
\* for another request's lock, or by a deployment that fails and is retried.
OutcomeIsShown == []<>(place # "setup" \/ failed \/ Abandoned)
=============================================================================
