------------------------------ MODULE SwapSync ------------------------------
(***************************************************************************)
(* The rows of bim_swaps and everything that writes them: the requests     *)
(* that create a swap (SwapCoordinator), the status requests of the        *)
(* frontend (SwapReader.fetchStatus) and the SwapMonitor's polling loop,   *)
(* with its claims of forward swaps.                                       *)
(*                                                                         *)
(* Every handler is asynchronous: it reads a row, awaits Atomiq, then      *)
(* writes the whole row back, and other handlers run at each await.  A     *)
(* handler is a process with the entity it holds (mem); the processes are  *)
(* the monitor, one per API client, and, for each swap, the request that   *)
(* creates it, which is named by the swap.                                 *)
(***************************************************************************)
EXTENDS SwapEntity, FiniteSets

CONSTANTS
  Swaps,        \* swap ids
  Direction,    \* the direction of each swap
  Clients,      \* API clients polling GET /swap/:id/status
  Monitor,      \* the SwapMonitor
  NoSwap,       \* what an idle process works on
  Cooldown,     \* claimCooldownMs, in ticks
  MaxCreated,   \* bound: swaps that are created
  MaxTime,      \* bound: ticks of the clock
  MaxPolls,     \* bound: status requests, all clients together
  MaxCrashes    \* bound: restarts of the API process

ASSUME SwapsAssumption ==
  /\ Direction \in [Swaps -> Directions]
  /\ NoSwap \notin Swaps
  /\ Monitor \notin Swaps \cup Clients
  /\ Clients \cap Swaps = {}
ASSUME BoundsAssumption ==
  /\ Cooldown \in Nat /\ MaxCreated \in Nat
  /\ MaxTime \in Nat /\ MaxPolls \in Nat /\ MaxCrashes \in Nat

VARIABLES
  sdk,       \* state of each swap at Atomiq
  forgotten, \* whether the SDK storage has lost the swap
  escrow,    \* bitcoin_to_starknet: the commit was accepted on Starknet
  row,       \* bim_swaps
  proc,      \* what each process is doing, on which swap, with which entity
  todo,      \* active swaps left in the monitor's current iteration
  now,       \* the clock
  loop,      \* the monitor: its interval runs, it is about to stop, or it has
  recorded,  \* history: time of the last claim attempt that reached the database
  polls,     \* status requests made, counted against MaxPolls
  crashes    \* restarts, counted against MaxCrashes

vars == <<sdk, forgotten, escrow, row, proc, todo, loop, now, recorded, polls, crashes>>

Procs == Clients \cup {Monitor} \cup Swaps

Time == 0 .. MaxTime

HandlerPc ==
  {"idle",                                     \* between two requests or polls
   "asking", "saving", "synced",               \* fetchStatus
   "claiming", "confirming",                   \* claimForwardSwap
   "recording", "recorded",                    \* recordClaimAttempt
   "quoted", "committed", "saved", "waiting", "addressed", "stored",  \* creating a swap
   "done", "failed"}                           \* and its outcome

Handler == [pc : HandlerPc, swap : Swaps \cup {NoSwap}, mem : SwapRow(Time)]

Idle == [pc |-> "idle", swap |-> NoSwap, mem |-> AbsentRow]

TypeOK ==
  /\ sdk \in [Swaps -> AtomiqState]
  /\ forgotten \in [Swaps -> BOOLEAN]
  /\ escrow \in [Swaps -> BOOLEAN]
  /\ row \in [Swaps -> SwapRow(Time)]
  /\ proc \in [Procs -> Handler]
  /\ todo \in SUBSET Swaps
  /\ loop \in {"running", "stopping", "stopped"}
  /\ now \in Time
  /\ recorded \in [Swaps -> Time \cup {NoAttempt}]
  /\ polls \in 0 .. MaxPolls
  /\ crashes \in 0 .. MaxCrashes

Init ==
  /\ sdk = [s \in Swaps |-> 0]
  /\ forgotten = [s \in Swaps |-> FALSE]
  /\ escrow = [s \in Swaps |-> FALSE]
  /\ row = [s \in Swaps |-> AbsentRow]
  /\ proc = [p \in Procs |-> Idle]
  /\ todo = {}
  /\ loop = "running"
  /\ now = 0
  /\ recorded = [s \in Swaps |-> NoAttempt]
  /\ polls = 0
  /\ crashes = 0

Terminal(s, swap) == IsTerminal(swap.status, Direction[s])

\* DrizzleSwapRepository.findActive.
ActiveSwaps == {s \in Swaps : row[s].status # AbsentStatus /\ ~Terminal(s, row[s])}

Enter(p, pc) == proc' = [proc EXCEPT ![p].pc = pc]
EnterWith(p, pc, swap) == proc' = [proc EXCEPT ![p].pc = pc, ![p].mem = swap]
Finish(p) == proc' = [proc EXCEPT ![p] = Idle]

-----------------------------------------------------------------------------
(* Atomiq, the chains, the clock (external).                               *)

\* Atomiq's side of swap s moves on.
AtomiqStep(s) ==
  /\ proc[s].pc # "idle"
  /\ \E st \in AtomiqState :
       /\ <<sdk[s], st>> \in AtomiqSteps(Direction[s])
       /\ Direction[s] = BitcoinToStarknet =>
            /\ <<sdk[s], st>> \in CommitSteps => escrow[s]
            /\ <<sdk[s], st>> \in DepositSteps => proc[s].pc = "done"
       /\ sdk' = [sdk EXCEPT ![s] = st]
  /\ UNCHANGED <<forgotten, escrow, row, proc, todo, loop, now, recorded, polls, crashes>>

\* The SDK storage no longer has the swap.
Forget(s) ==
  /\ proc[s].pc # "idle" /\ ~forgotten[s]
  /\ forgotten' = [forgotten EXCEPT ![s] = TRUE]
  /\ UNCHANGED <<sdk, escrow, row, proc, todo, loop, now, recorded, polls, crashes>>

Tick ==
  /\ now < MaxTime
  /\ now' = now + 1
  /\ UNCHANGED <<sdk, forgotten, escrow, row, proc, todo, loop, recorded, polls, crashes>>

-----------------------------------------------------------------------------
(* The request that creates a swap: createLightningToStarknet and          *)
(* createStarknetTo* quote and save; the Bitcoin flow quotes (prepare),    *)
(* commits on Starknet, saves the commit and completes it.                 *)

\* The gateway creates the swap at the LP; no row yet.
Quote(s) ==
  /\ proc[s].pc = "idle"
  /\ Cardinality({t \in Swaps : proc[t].pc # "idle"}) < MaxCreated
  /\ proc' = [proc EXCEPT ![s] = [pc |-> "quoted", swap |-> s, mem |-> AbsentRow]]
  /\ UNCHANGED <<sdk, forgotten, escrow, row, todo, loop, now, recorded, polls, crashes>>

\* The user's commit was executed on Starknet; it may have reverted.
CommitOnChain(s) ==
  /\ Direction[s] = BitcoinToStarknet /\ proc[s].pc = "quoted"
  /\ \E accepted \in BOOLEAN : escrow' = [escrow EXCEPT ![s] = accepted]
  /\ Enter(s, "committed")
  /\ UNCHANGED <<sdk, forgotten, row, todo, loop, now, recorded, polls, crashes>>

\* The first save of the row: pending, or committed by saveBitcoinCommit.
SaveNew(s) ==
  /\ proc[s].pc = IF Direction[s] = BitcoinToStarknet THEN "committed" ELSE "quoted"
  /\ row' = [row EXCEPT ![s] = CreatedRow(Direction[s])]
  /\ Enter(s, IF Direction[s] = BitcoinToStarknet THEN "saved" ELSE "stored")
  /\ UNCHANGED <<sdk, forgotten, escrow, todo, loop, now, recorded, polls, crashes>>

\* completeBitcoinToStarknet reads the row it has just saved, ...
FindCommitted(s) ==
  /\ Direction[s] = BitcoinToStarknet /\ proc[s].pc = "saved"
  /\ EnterWith(s, "waiting", row[s])
  /\ UNCHANGED <<sdk, forgotten, escrow, row, todo, loop, now, recorded, polls, crashes>>

\* ... waits until the SDK sees the commit, ...
GetDepositAddress(s) ==
  /\ Direction[s] = BitcoinToStarknet /\ proc[s].pc = "waiting"
  /\ ~forgotten[s] /\ sdk[s] = 1
  /\ EnterWith(s, "addressed", WithDepositAddress(proc[s].mem))
  /\ UNCHANGED <<sdk, forgotten, escrow, row, todo, loop, now, recorded, polls, crashes>>

\* ... and saves the address.
SaveCompleted(s) ==
  /\ proc[s].pc = "addressed"
  /\ row' = [row EXCEPT ![s] = proc[s].mem]
  /\ Enter(s, "stored")
  /\ UNCHANGED <<sdk, forgotten, escrow, todo, loop, now, recorded, polls, crashes>>

\* The route calls ensureRunning, a no-op unless the monitor has stopped, and
\* answers.
EnsureRunning(s) ==
  /\ proc[s].pc = "stored"
  /\ loop' = IF loop = "stopped" THEN "running" ELSE loop
  /\ Enter(s, "done")
  /\ UNCHANGED <<sdk, forgotten, escrow, row, todo, now, recorded, polls, crashes>>

\* Any step of the request may throw: the LP, the 90 s wait, the database, or
\* what follows the save, as the build of a payment.  The route answers an
\* error, without ensureRunning.
CreationFails(s) ==
  /\ proc[s].pc \in {"quoted", "committed", "saved", "waiting", "addressed", "stored"}
  /\ Enter(s, "failed")
  /\ UNCHANGED <<sdk, forgotten, escrow, row, todo, loop, now, recorded, polls, crashes>>

-----------------------------------------------------------------------------
(* SwapReader.fetchStatus, by a client or by the monitor.                  *)

\* Faulty: no isTerminal guard.
ReadAnyRow(p, s) ==
  /\ proc[p].pc = "idle"
  /\ proc' = [proc EXCEPT ![p] = [pc |-> "asking", swap |-> s, mem |-> row[s]]]

\* fetchStatus reads the row of s: a terminal swap is answered as it is.
Read(p, s) ==
  /\ proc[p].pc = "idle"
  /\ ~Terminal(s, row[s])
  /\ proc' = [proc EXCEPT ![p] = [pc |-> "asking", swap |-> s, mem |-> row[s]]]

StatusRequest(c, s) ==
  /\ polls < MaxPolls
  /\ row[s].status # AbsentStatus
  /\ Read(c, s)
  /\ polls' = polls + 1
  /\ UNCHANGED <<sdk, forgotten, escrow, row, todo, loop, now, recorded, crashes>>

\* What getSwapStatus says of s, as the status syncWithAtomiq writes.
SyncedStatus(s) ==
  IF forgotten[s] THEN "lost" ELSE TranscribedStatus(sdk[s], Direction[s])

\* fetchStatus is over: the client has its answer, the monitor goes on.
Synced(p, swap) ==
  IF p = Monitor THEN EnterWith(p, "synced", swap) ELSE Finish(p)

\* Faulty: a status that is terminal for the other directions is never left.
AnswerUnlessExpired(p) ==
  LET s == proc[p].swap IN
  /\ proc[p].pc = "asking"
  /\ IF SyncedStatus(s) = NoStatus \/ proc[p].mem.status \in TerminalStatus
     THEN Synced(p, proc[p].mem)
     ELSE EnterWith(p, "saving", MarkAs(proc[p].mem, SyncedStatus(s)))
  /\ UNCHANGED <<sdk, forgotten, escrow, row, todo, loop, now, recorded, polls, crashes>>

\* Atomiq answers; the entity is marked, and will be saved.
Answer(p) ==
  LET s == proc[p].swap IN
  /\ proc[p].pc = "asking"
  /\ IF SyncedStatus(s) = NoStatus
     THEN Synced(p, proc[p].mem)
     ELSE EnterWith(p, "saving", MarkAs(proc[p].mem, SyncedStatus(s)))
  /\ UNCHANGED <<sdk, forgotten, escrow, row, todo, loop, now, recorded, polls, crashes>>

\* Faulty: an error is taken for a swap that the SDK has lost.
AnswerFailsAsLost(p) ==
  /\ proc[p].pc = "asking"
  /\ EnterWith(p, "saving", MarkAs(proc[p].mem, "lost"))
  /\ UNCHANGED <<sdk, forgotten, escrow, row, todo, loop, now, recorded, polls, crashes>>

\* getSwapStatus throws: the error is logged, the entity is as it was read.
AnswerFails(p) ==
  /\ proc[p].pc = "asking"
  /\ Synced(p, proc[p].mem)
  /\ UNCHANGED <<sdk, forgotten, escrow, row, todo, loop, now, recorded, polls, crashes>>

\* The whole row is overwritten with the entity.
Save(p) ==
  /\ proc[p].pc = "saving"
  /\ row' = [row EXCEPT ![proc[p].swap] = proc[p].mem]
  /\ Synced(p, proc[p].mem)
  /\ UNCHANGED <<sdk, forgotten, escrow, todo, loop, now, recorded, polls, crashes>>

\* The save throws: swallowed too, but the entity keeps its new status.
SaveFails(p) ==
  /\ proc[p].pc = "saving"
  /\ Synced(p, proc[p].mem)
  /\ UNCHANGED <<sdk, forgotten, escrow, row, todo, loop, now, recorded, polls, crashes>>

-----------------------------------------------------------------------------
(* The SwapMonitor's iteration, one active swap after the other, and its   *)
(* auto-stop.  The module SwapMonitor has its timer and its counters.      *)

Rests == loop = "running" /\ proc[Monitor].pc = "idle" /\ todo = {}

\* The last of the idle iterations has read that there is no active swap ...
IdleIteration ==
  /\ Rests /\ ActiveSwaps = {}
  /\ loop' = "stopping"
  /\ UNCHANGED <<sdk, forgotten, escrow, row, proc, todo, now, recorded, polls, crashes>>

\* ... and stops the monitor, whatever was saved meanwhile.
AutoStop ==
  /\ loop = "stopping"
  /\ loop' = "stopped"
  /\ UNCHANGED <<sdk, forgotten, escrow, row, proc, todo, now, recorded, polls, crashes>>

BeginIteration ==
  /\ Rests /\ ActiveSwaps # {}
  /\ todo' = ActiveSwaps
  /\ UNCHANGED <<sdk, forgotten, escrow, row, proc, loop, now, recorded, polls, crashes>>

\* processActiveSwap calls fetchStatus.
ProcessActiveSwap(s) ==
  /\ proc[Monitor].pc = "idle" /\ s \in todo
  /\ todo' = todo \ {s}
  /\ \/ Read(Monitor, s)
     \/ Terminal(s, row[s]) /\ UNCHANGED proc
  /\ UNCHANGED <<sdk, forgotten, escrow, row, loop, now, recorded, polls, crashes>>

CanClaim(swap) == ~HasRecentClaimAttempt(swap, now, Cooldown)

\* Faulty: only Lightning swaps are claimed.
DecideLightningOnly ==
  LET m == proc[Monitor] IN
  /\ m.pc = "synced"
  /\ IF /\ m.mem.status = "claimable" /\ CanClaim(m.mem)
        /\ Direction[m.swap] = LightningToStarknet
     THEN Enter(Monitor, "claiming")
     ELSE Finish(Monitor)
  /\ UNCHANGED <<sdk, forgotten, escrow, row, todo, loop, now, recorded, polls, crashes>>

Decide ==
  LET m == proc[Monitor] IN
  /\ m.pc = "synced"
  /\ IF m.mem.status = "claimable" /\ IsForwardSwap(Direction[m.swap]) /\ CanClaim(m.mem)
     THEN Enter(Monitor, "claiming")
     ELSE Finish(Monitor)
  /\ UNCHANGED <<sdk, forgotten, escrow, row, todo, loop, now, recorded, polls, crashes>>

\* claimForwardSwap: the claim transaction is submitted.
SubmitClaim ==
  /\ proc[Monitor].pc = "claiming"
  /\ ~forgotten[proc[Monitor].swap] /\ sdk[proc[Monitor].swap] = 2
  /\ Enter(Monitor, "confirming")
  /\ UNCHANGED <<sdk, forgotten, escrow, row, todo, loop, now, recorded, polls, crashes>>

\* It returns a transaction hash, ours or the watchtower's.
ClaimReturns ==
  /\ \/ proc[Monitor].pc = "confirming"
     \/ /\ proc[Monitor].pc = "claiming"
        /\ ~forgotten[proc[Monitor].swap] /\ sdk[proc[Monitor].swap] = 3
  /\ Enter(Monitor, "recording")
  /\ UNCHANGED <<sdk, forgotten, escrow, row, todo, loop, now, recorded, polls, crashes>>

\* It throws: the swap is unknown, not claimable, or the claim reverted.
ClaimThrows ==
  /\ proc[Monitor].pc \in {"claiming", "confirming"}
  /\ ~forgotten[proc[Monitor].swap] => sdk[proc[Monitor].swap] # 3
  /\ Finish(Monitor)
  /\ UNCHANGED <<sdk, forgotten, escrow, row, todo, loop, now, recorded, polls, crashes>>

\* recordClaimAttempt: reads the row again, ...
FindClaimed ==
  /\ proc[Monitor].pc = "recording"
  /\ EnterWith(Monitor, "recorded", RecordClaimAttempt(row[proc[Monitor].swap], now))
  /\ UNCHANGED <<sdk, forgotten, escrow, row, todo, loop, now, recorded, polls, crashes>>

\* ... and writes it back whole.
SaveClaimAttempt ==
  LET m == proc[Monitor] IN
  /\ m.pc = "recorded"
  /\ row' = [row EXCEPT ![m.swap] = m.mem]
  /\ recorded' = [recorded EXCEPT ![m.swap] = m.mem.attempt]
  /\ Finish(Monitor)
  /\ UNCHANGED <<sdk, forgotten, escrow, todo, loop, now, polls, crashes>>

\* A database error in recordClaimAttempt is logged by claimSwap.
RecordFails ==
  /\ proc[Monitor].pc \in {"recording", "recorded"}
  /\ Finish(Monitor)
  /\ UNCHANGED <<sdk, forgotten, escrow, row, todo, loop, now, recorded, polls, crashes>>

-----------------------------------------------------------------------------
\* The API process restarts, and with it the monitor: what the handlers held
\* is gone.
Crash ==
  /\ crashes < MaxCrashes
  /\ crashes' = crashes + 1
  /\ todo' = {} /\ loop' = "running"
  /\ proc' = [p \in Procs |->
                IF p \notin Swaps THEN Idle
                ELSE IF proc[p].pc \in {"idle", "done"} THEN proc[p]
                ELSE [proc[p] EXCEPT !.pc = "failed"]]
  /\ UNCHANGED <<sdk, forgotten, escrow, row, now, recorded, polls>>

External == Tick \/ \E s \in Swaps : AtomiqStep(s) \/ Forget(s)

Creation ==
  \E s \in Swaps :
    \/ Quote(s) \/ CommitOnChain(s) \/ SaveNew(s)
    \/ FindCommitted(s) \/ GetDepositAddress(s) \/ SaveCompleted(s)
    \/ EnsureRunning(s) \/ CreationFails(s)

FetchStatus ==
  \E p \in Clients \cup {Monitor} : Answer(p) \/ AnswerFails(p) \/ Save(p) \/ SaveFails(p)

Polling == \E c \in Clients, s \in Swaps : StatusRequest(c, s)

Monitoring ==
  \/ IdleIteration \/ AutoStop \/ BeginIteration \/ Decide
  \/ \E s \in Swaps : ProcessActiveSwap(s)
  \/ SubmitClaim \/ ClaimReturns \/ ClaimThrows
  \/ FindClaimed \/ SaveClaimAttempt \/ RecordFails

Next == External \/ Creation \/ Polling \/ FetchStatus \/ Monitoring \/ Crash

Spec == Init /\ [][Next]_vars

(***************************************************************************)
(* While the monitor runs its timer fires and its awaits end; Atomiq and   *)
(* the database fail now and then but not for ever; a request comes to its *)
(* end.  Nothing is assumed of Atomiq's own progress or of the clients.    *)
(***************************************************************************)
MonitorStep ==
  \/ Answer(Monitor) \/ AnswerFails(Monitor) \/ Save(Monitor) \/ SaveFails(Monitor)
  \/ Monitoring

Fairness ==
  /\ WF_vars(MonitorStep)
  /\ \A s \in Swaps :
       /\ SF_vars(Answer(Monitor) /\ proc[Monitor].swap = s)
       /\ SF_vars(Save(Monitor) /\ proc[Monitor].swap = s)
  /\ \A c \in Clients :
       WF_vars(Answer(c) \/ AnswerFails(c)) /\ WF_vars(Save(c) \/ SaveFails(c))
  /\ \A s \in Swaps :
       WF_vars(CreationFails(s) \/ SaveNew(s) \/ SaveCompleted(s) \/ EnsureRunning(s))

FairSpec == Spec /\ Fairness

-----------------------------------------------------------------------------
(* Properties.                                                             *)

\* The status of entity e, of swap s, is not terminal or is Atomiq's.
IsTrue(s, e) ==
  Terminal(s, e) =>
    \/ e.status = TranscribedStatus(sdk[s], Direction[s])
    \/ e.status = "lost" /\ forgotten[s]

\* A terminal status, in the database or in a handler about to write it, is
\* what Atomiq says of the swap now: no stale read, late save or mistaken
\* mapping leaves a swap settled in the backend that Atomiq may still move.
TerminalIsTrue ==
  \A s \in Swaps :
    /\ IsTrue(s, row[s])
    /\ \A p \in Procs : proc[p].swap = s => IsTrue(s, proc[p].mem)

PaidWithAddress(s, e) ==
  Direction[s] = BitcoinToStarknet /\ e.status = "paid" => e.address

\* A bitcoin_to_starknet row is only ever paid with its deposit address: the
\* status comes with the address from completeBitcoinToStarknet, and no sync
\* of the same swap writes it from an entity read before the address.
PaidHasAddress ==
  \A s \in Swaps :
    /\ PaidWithAddress(s, row[s])
    /\ \A p \in Procs : proc[p].swap = s => PaidWithAddress(s, proc[p].mem)

\* A process is at work on swap s and may still write it.
InFlight(p, s) == proc[p].swap = s /\ proc[p].pc \notin {"idle", "done", "failed"}

Settled(s) ==
  row[s].status # AbsentStatus /\ Terminal(s, row[s]) /\ \A p \in Procs : ~InFlight(p, s)

\* A terminal swap that no handler holds is settled for good: fetchStatus
\* never syncs it and the monitor never picks it up again (what the isTerminal
\* guard does ensure), whatever Atomiq, clients and restarts do.
SettledForGood == [][\A s \in Swaps : Settled(s) => Settled(s)' /\ row'[s] = row[s]]_vars

\* How Atomiq has ended a swap, as the backend would transcribe it.
EndOf(s) ==
  LET st == TranscribedStatus(sdk[s], Direction[s])
  IN  IF IsTerminal(st, Direction[s]) THEN st ELSE NoStatus

Lifecycle == INSTANCE SwapLifecycle
  WITH status <- [s \in Swaps |-> row[s].status], end <- [s \in Swaps |-> EndOf(s)]

\* The rows implement the lifecycle that the front end is modelled against:
\* whoever writes them, a swap appears once, in the status its direction
\* starts with, keeps to the statuses of its direction, and has a final one
\* only when Atomiq has ended the swap so, which it does not undo, or lost it.
LifecycleSpec == Lifecycle!Spec

\* The row of a swap shows what Atomiq says of it, unless it was settled
\* before Atomiq forgot the swap.
InStep(s) ==
  \/ row[s].status = AbsentStatus
  \/ SyncedStatus(s) = NoStatus
  \/ row[s].status = SyncedStatus(s)
  \/ Terminal(s, row[s])

\* The row of a swap ends up in step, whatever stale statuses were written on
\* the way, for as long as the monitor has not stopped: a monitor that runs
\* misses no active swap, however the request that created it ended.
EventuallyInStep == \A s \in Swaps : <>[](InStep(s) \/ loop = "stopped")

\* A funded forward swap does not wait for ever: while Atomiq has it claimable
\* and the monitor runs, it gets to claimForwardSwap, or an attempt is on
\* record.
FundedGetsClaimed ==
  \A s \in Swaps :
    LET Claimable == ~forgotten[s] /\ sdk[s] = 2 /\ IsForwardSwap(Direction[s])
    IN  (row[s].status # AbsentStatus /\ Claimable)
          ~> \/ ~Claimable
             \/ loop = "stopped"
             \/ proc[Monitor].pc = "claiming" /\ proc[Monitor].swap = s
             \/ row[s].attempt # NoAttempt

-----------------------------------------------------------------------------
(* What the documentation says and the code does not do.                   *)

\* swap-reader.service.ts:78-80: a double claim is prevented by the recorded
\* attempt, which the monitor consults.  But a status request that read the
\* row before the attempt was recorded saves the row whole, without it.
ClaimsRespectCooldown ==
  proc[Monitor].pc = "claiming" =>
    LET last == recorded[proc[Monitor].swap] IN last = NoAttempt \/ now - last >= Cooldown

\* swap-reader.service.ts:121: the guard of fetchStatus protects a terminal
\* swap against regressing.  But the guard is of the row as it was read.
TerminalStays ==
  [][\A s \in Swaps : Terminal(s, row[s]) => row'[s].status = row[s].status]_vars

\* swap-coordinator.service.ts:214-218: with its commit saved, a Bitcoin swap
\* is tracked by the monitor even if the steps after the save fail.  But
\* nothing starts a stopped monitor when they do.
CommittedIsTracked ==
  \A s \in Swaps : row[s].status = "committed" ~> InStep(s)
=============================================================================
