--------------------------- MODULE SwapSyncProofs ---------------------------
(***************************************************************************)
(* Proofs about SwapSync, for any swaps, directions, clients and bounds,   *)
(* and about the reading of Atomiq's states it rests on, for every state   *)
(* of every direction: which status is transcribed, and that a status the  *)
(* backend treats as terminal is one the SDK does not leave.               *)
(***************************************************************************)
EXTENDS SwapSync, TLAPS

-----------------------------------------------------------------------------
(* The states of Atomiq.                                                   *)

\* The else-if chain of syncWithAtomiq gives each flag a rank of its own.
LEMMA RanksDiffer ==
  /\ \A f \in Flags : Priority[f] \in 1 .. 7
  /\ \A f, g \in Flags : Priority[f] = Priority[g] => f = g
<1>1. /\ Priority["completed"] = 1 /\ Priority["claimable"] = 2 /\ Priority["paid"] = 3
      /\ Priority["refundable"] = 4 /\ Priority["refunded"] = 5 /\ Priority["failed"] = 6
      /\ Priority["expired"] = 7
  BY DEF Priority
<1>. QED BY <1>1 DEF Flags

\* It picks one of the flags that are set, and the one that comes first.
LEMMA TopFlagIsFirst ==
  ASSUME NEW flags \in SUBSET Flags, NEW f \in flags,
         \A g \in flags : Priority[f] <= Priority[g]
  PROVE  TopFlag(flags) = f
<1>1. /\ TopFlag(flags) \in flags
      /\ \A g \in flags : Priority[TopFlag(flags)] <= Priority[g]
  BY DEF TopFlag
<1>2. Priority[TopFlag(flags)] = Priority[f]
  BY <1>1, RanksDiffer
<1>. QED BY <1>1, <1>2, RanksDiffer

\* Which flag comes first, for the sets of flags that the mapping returns.
LEMMA TopFlags ==
  /\ \A f \in Flags : TopFlag({f}) = f
  /\ TopFlag({"paid", "claimable"}) = "claimable"
  /\ TopFlag({"paid", "completed"}) = "completed"
  /\ TopFlag({"paid", "claimable", "completed"}) = "completed"
<1>1. ASSUME NEW f \in Flags PROVE TopFlag({f}) = f
  BY RanksDiffer, TopFlagIsFirst
<1>2. /\ Priority["completed"] = 1 /\ Priority["claimable"] = 2 /\ Priority["paid"] = 3
  BY DEF Priority
<1>3. \A f \in {"paid", "claimable"} : Priority["claimable"] <= Priority[f]
  BY <1>2
<1>4. \A f \in {"paid", "claimable", "completed"} : Priority["completed"] <= Priority[f]
  BY <1>2
<1>5. TopFlag({"paid", "claimable"}) = "claimable"
  BY <1>3, TopFlagIsFirst DEF Flags
<1>6. TopFlag({"paid", "completed"}) = "completed"
  BY <1>4, TopFlagIsFirst DEF Flags
<1>7. TopFlag({"paid", "claimable", "completed"}) = "completed"
  BY <1>4, TopFlagIsFirst DEF Flags
<1>. QED BY <1>1, <1>5, <1>6, <1>7

\* What is transcribed for a Lightning receive, state by state.
LEMMA LightningTable ==
  LET status(st) == TranscribedStatus(st, LightningToStarknet) IN
  /\ status(-4) = "failed" /\ status(-3) = "expired" /\ status(-2) = NoStatus
  /\ status(-1) = "failed" /\ status(0) = NoStatus /\ status(1) = "paid"
  /\ status(2) = "claimable" /\ status(3) = "completed" /\ status(4) = "claimable"
<1> DEFINE flags(st) == MapAtomiqState(st, LightningToStarknet)
<1> USE DEF MapAtomiqState, MapNegativeState, MapNonNegativeState, When,
        MapLightningToStarknetNegative, PaidThreshold, ClaimableThreshold, IsForwardSwap,
        ForwardDirections, ReverseDirections, LightningToStarknet, BitcoinToStarknet,
        StarknetToLightning, StarknetToBitcoin
<1>1. /\ flags(-4) = {"failed"} /\ flags(-3) = {"expired"} /\ flags(-2) = {}
      /\ flags(-1) = {"failed"}
  OBVIOUS
<1>2. flags(0) = {} /\ flags(1) = {"paid"}
  OBVIOUS
<1>3. flags(2) = {"paid", "claimable"} /\ flags(4) = {"paid", "claimable"}
  OBVIOUS
<1>4. flags(3) = {"paid", "claimable", "completed"}
  OBVIOUS
<1> HIDE DEF flags
<1>. QED BY <1>1, <1>2, <1>3, <1>4, TopFlags DEF TranscribedStatus, flags, Flags

\* The same for a Bitcoin receive: the Starknet commit is no payment.
LEMMA BitcoinTable ==
  LET status(st) == TranscribedStatus(st, BitcoinToStarknet) IN
  /\ status(-4) = "failed" /\ status(-3) = "expired" /\ status(-2) = "expired"
  /\ status(-1) = NoStatus /\ status(0) = NoStatus /\ status(1) = NoStatus
  /\ status(2) = "claimable" /\ status(3) = "completed" /\ status(4) = "claimable"
<1> DEFINE flags(st) == MapAtomiqState(st, BitcoinToStarknet)
<1> USE DEF MapAtomiqState, MapNegativeState, MapNonNegativeState, When,
        MapBitcoinToStarknetNegative, PaidThreshold, ClaimableThreshold, IsForwardSwap,
        ForwardDirections, ReverseDirections, LightningToStarknet, BitcoinToStarknet,
        StarknetToLightning, StarknetToBitcoin
<1>1. /\ flags(-4) = {"failed"} /\ flags(-3) = {"expired"} /\ flags(-2) = {"expired"}
      /\ flags(-1) = {}
  OBVIOUS
<1>2. flags(0) = {} /\ flags(1) = {}
  OBVIOUS
<1>3. flags(2) = {"paid", "claimable"} /\ flags(4) = {"paid", "claimable"}
  OBVIOUS
<1>4. flags(3) = {"paid", "claimable", "completed"}
  OBVIOUS
<1> HIDE DEF flags
<1>. QED BY <1>1, <1>2, <1>3, <1>4, TopFlags DEF TranscribedStatus, flags, Flags

\* The same for the two kinds of payment: they are never claimable.
LEMMA ReverseTable ==
  ASSUME NEW d \in ReverseDirections
  PROVE  LET status(st) == TranscribedStatus(st, d) IN
         /\ status(-4) = "failed" /\ status(-3) = "refunded" /\ status(-2) = "expired"
         /\ status(-1) = NoStatus /\ status(0) = NoStatus /\ status(1) = "paid"
         /\ status(2) = "paid" /\ status(3) = "completed" /\ status(4) = "refundable"
<1> DEFINE flags(st) == MapAtomiqState(st, d)
<1> USE DEF MapAtomiqState, MapNegativeState, MapNonNegativeState, When,
        MapReverseNegative, PaidThreshold, ClaimableThreshold, IsForwardSwap,
        ForwardDirections, LightningToStarknet, BitcoinToStarknet
<1>0. d \notin ForwardDirections /\ d # LightningToStarknet /\ d # BitcoinToStarknet
  BY DEF ReverseDirections, StarknetToLightning, StarknetToBitcoin
<1>1. /\ flags(-4) = {"failed"} /\ flags(-3) = {"refunded"} /\ flags(-2) = {"expired"}
      /\ flags(-1) = {}
  BY <1>0
<1>2. /\ flags(0) = {} /\ flags(1) = {"paid"} /\ flags(2) = {"paid"}
      /\ flags(4) = {"refundable"}
  BY <1>0
<1>3. flags(3) = {"paid", "completed"}
  BY <1>0
<1> HIDE DEF flags
<1>. QED BY <1>1, <1>2, <1>3, TopFlags DEF TranscribedStatus, flags, Flags

\* What is transcribed is a status of the row, never one that only the
\* backend gives: a created, committed or lost swap.
LEMMA TranscribedType ==
  ASSUME NEW st \in AtomiqState, NEW d \in Directions
  PROVE  /\ TranscribedStatus(st, d) \in SwapStatus \cup {NoStatus}
         /\ TranscribedStatus(st, d) \notin {"pending", "committed", "lost", AbsentStatus}
         /\ d = BitcoinToStarknet => TranscribedStatus(st, d) # "paid"
<1>1. st \in {-4, -3, -2, -1, 0, 1, 2, 3, 4}
  BY DEF AtomiqState
<1>2. CASE d = LightningToStarknet
  BY <1>1, <1>2, LightningTable
     DEF SwapStatus, NoStatus, AbsentStatus, LightningToStarknet, BitcoinToStarknet
<1>3. CASE d = BitcoinToStarknet
  BY <1>1, <1>3, BitcoinTable DEF SwapStatus, NoStatus, AbsentStatus
<1>4. CASE d \in ReverseDirections
  <2>1. d # BitcoinToStarknet
    BY <1>4 DEF ReverseDirections, BitcoinToStarknet, StarknetToLightning, StarknetToBitcoin
  <2>. QED BY <1>1, <1>4, <2>1, ReverseTable DEF SwapStatus, NoStatus, AbsentStatus
<1>. QED BY <1>2, <1>3, <1>4 DEF Directions, ForwardDirections

\* A status the backend treats as terminal is one Atomiq no longer changes:
\* a step of the SDK out of such a state transcribes to the same status.
LEMMA TerminalIsFinal ==
  ASSUME NEW d \in Directions, NEW x \in AtomiqState, NEW y \in AtomiqState,
         <<x, y>> \in AtomiqSteps(d), IsTerminal(TranscribedStatus(x, d), d)
  PROVE  TranscribedStatus(y, d) = TranscribedStatus(x, d)
<1> USE DEF IsTerminal, TerminalStatus, NoStatus
<1>1. CASE d = LightningToStarknet
  <2>1. <<x, y>> \in LightningToStarknetSteps
    BY <1>1 DEF AtomiqSteps
  <2>2. x \notin {0, 1, 2, -2}
    BY <1>1, LightningTable
  <2>3. x = -1 /\ y = -4
    BY <2>1, <2>2 DEF LightningToStarknetSteps
  <2>. QED BY <1>1, <2>3, LightningTable
<1>2. CASE d = BitcoinToStarknet
  <2>1. <<x, y>> \in BitcoinToStarknetSteps
    BY <1>2 DEF AtomiqSteps, LightningToStarknet, BitcoinToStarknet
  <2>2. x \notin {0, -1, 1, 2, -3}
    BY <1>2, BitcoinTable
  <2>. QED BY <2>1, <2>2 DEF BitcoinToStarknetSteps
<1>3. CASE d \in ReverseDirections
  <2>0. d # LightningToStarknet /\ d # BitcoinToStarknet
    BY <1>3 DEF ReverseDirections, LightningToStarknet, BitcoinToStarknet,
                StarknetToLightning, StarknetToBitcoin
  <2>1. <<x, y>> \in ReverseSteps
    BY <1>3, <2>0 DEF AtomiqSteps
  <2>2. x \notin {0, -1, 1, 2, 4}
    BY <1>3, ReverseTable
  <2>. QED BY <2>1, <2>2 DEF ReverseSteps
<1>. QED BY <1>1, <1>2, <1>3 DEF Directions, ForwardDirections

-----------------------------------------------------------------------------
(* The rows of the swaps.                                                  *)

\* A process that is not idle works on a swap; a creation works on its own.
WorksOnSwap ==
  /\ \A p \in Procs : proc[p].pc # "idle" => proc[p].swap \in Swaps
  /\ \A s \in Swaps : proc[s].swap \in {s, NoSwap} /\ (proc[s].pc # "idle" => proc[s].swap = s)

Typed == TypeOK /\ WorksOnSwap

\* Every entity written in one step is typed.
LEMMA EntityTypes ==
  ASSUME NEW d \in Directions
  PROVE  /\ AbsentRow \in SwapRow(Time)
         /\ CreatedRow(d) \in SwapRow(Time)
         /\ \A e \in SwapRow(Time), t \in Time : RecordClaimAttempt(e, t) \in SwapRow(Time)
         /\ \A e \in SwapRow(Time) : WithDepositAddress(e) \in SwapRow(Time)
         /\ \A e \in SwapRow(Time), st \in SwapStatus : MarkAs(e, st) \in SwapRow(Time)
BY DEF AbsentRow, CreatedRow, SwapRow, RecordClaimAttempt, WithDepositAddress, MarkAs,
       SwapStatus, AbsentStatus, NoAttempt

\* What fetchStatus writes is a status.
LEMMA SyncedType ==
  ASSUME TypeOK, NEW s \in Swaps
  PROVE  SyncedStatus(s) \in SwapStatus \cup {NoStatus}
BY SwapsAssumption, TranscribedType DEF SyncedStatus, TypeOK, SwapStatus

\* What a process may become: the three ways the handlers update proc.
LEMMA EnterTyped ==
  ASSUME Typed, NEW p \in Procs, NEW pc \in HandlerPc \ {"idle"},
         proc[p].swap \in Swaps, Enter(p, pc)
  PROVE  proc' \in [Procs -> Handler] /\ WorksOnSwap'
BY SwapsAssumption DEF Typed, TypeOK, WorksOnSwap, Enter, Handler, Procs

\* A handler that moves on with a typed entity stays typed.
LEMMA EnterWithTyped ==
  ASSUME Typed, NEW p \in Procs, NEW pc \in HandlerPc \ {"idle"},
         NEW mem \in SwapRow(Time), proc[p].swap \in Swaps, EnterWith(p, pc, mem)
  PROVE  proc' \in [Procs -> Handler] /\ WorksOnSwap'
BY SMTT(30), SwapsAssumption DEF Typed, TypeOK, WorksOnSwap, EnterWith, Handler, Procs

\* A handler that ends leaves a typed idle process behind.
LEMMA FinishTyped ==
  ASSUME Typed, NEW p \in Clients \cup {Monitor}, Finish(p)
  PROVE  proc' \in [Procs -> Handler] /\ WorksOnSwap'
<1>1. Idle \in Handler
  BY EntityTypes, SwapsAssumption DEF Idle, Handler, HandlerPc, AbsentRow, SwapRow, NoAttempt, AbsentStatus
<1>. QED BY <1>1, SwapsAssumption DEF Typed, TypeOK, WorksOnSwap, Finish, Idle, Procs

\* The end of fetchStatus is one or the other.
LEMMA SyncedTyped ==
  ASSUME Typed, NEW p \in Clients \cup {Monitor}, NEW mem \in SwapRow(Time),
         proc[p].swap \in Swaps, Synced(p, mem)
  PROVE  proc' \in [Procs -> Handler] /\ WorksOnSwap'
<1>1. CASE p = Monitor
  BY <1>1, EnterWithTyped DEF Synced, HandlerPc, Procs
<1>2. CASE p # Monitor
  BY <1>2, FinishTyped DEF Synced
<1>. QED BY <1>1, <1>2

\* The types hold when the server starts.
LEMMA TypedInit == Init => Typed
<1> SUFFICES ASSUME Init PROVE Typed
  OBVIOUS
<1>1. AbsentRow \in SwapRow(Time) /\ Idle \in Handler
  BY DEF Idle, Handler, HandlerPc, AbsentRow, SwapRow, NoAttempt, AbsentStatus
<1>2. 0 \in AtomiqState /\ 0 \in Time /\ 0 \in 0 .. MaxPolls /\ 0 \in 0 .. MaxCrashes
  BY BoundsAssumption DEF AtomiqState, Time
<1>3. TypeOK
  BY <1>1, <1>2 DEF Init, TypeOK
<1>4. WorksOnSwap
  BY DEF Init, WorksOnSwap, Idle, Procs
<1>. QED BY <1>3, <1>4 DEF Typed

\* Every step keeps the types.
LEMMA TypedStep == Typed /\ [Next]_vars => Typed'
<1> SUFFICES ASSUME Typed, [Next]_vars PROVE Typed'
  OBVIOUS
<1> USE DEF Typed
<1>1. ASSUME NEW s \in Swaps, AtomiqStep(s) PROVE Typed'
  BY <1>1 DEF AtomiqStep, TypeOK, WorksOnSwap
<1>2. ASSUME NEW s \in Swaps, Forget(s) PROVE Typed'
  BY <1>2 DEF Forget, TypeOK, WorksOnSwap
<1>3. ASSUME Tick PROVE Typed'
  BY <1>3, BoundsAssumption DEF Tick, TypeOK, WorksOnSwap, Time
<1>4. ASSUME NEW s \in Swaps, Quote(s) PROVE Typed'
  <2> DEFINE h == [pc |-> "quoted", swap |-> s, mem |-> AbsentRow]
  <2>1. proc' = [proc EXCEPT ![s] = h] /\ s \in Procs
    BY <1>4 DEF Quote, Procs
  <2>2. h \in Handler /\ h.swap = s
    BY EntityTypes, SwapsAssumption DEF Handler, HandlerPc
  <2>3. proc' \in [Procs -> Handler] /\ WorksOnSwap'
    <3> HIDE DEF h
    <3>. QED BY <2>1, <2>2, SwapsAssumption DEF TypeOK, WorksOnSwap, Procs
  <2>. QED BY <1>4, <2>3 DEF Quote, TypeOK
<1>5. ASSUME NEW s \in Swaps, CommitOnChain(s) PROVE Typed'
  <2>1. proc' \in [Procs -> Handler] /\ WorksOnSwap'
    BY <1>5, EnterTyped DEF CommitOnChain, HandlerPc, Procs, WorksOnSwap
  <2>. QED BY <1>5, <2>1 DEF CommitOnChain, TypeOK
<1>6. ASSUME NEW s \in Swaps, SaveNew(s) PROVE Typed'
  <2>1. proc' \in [Procs -> Handler] /\ WorksOnSwap'
    BY <1>6, EnterTyped DEF SaveNew, HandlerPc, Procs, WorksOnSwap
  <2>. QED BY <1>6, <2>1, EntityTypes, SwapsAssumption DEF SaveNew, TypeOK
<1>7. ASSUME NEW s \in Swaps, FindCommitted(s) PROVE Typed'
  <2>1. proc' \in [Procs -> Handler] /\ WorksOnSwap'
    BY <1>7, EnterWithTyped DEF FindCommitted, HandlerPc, Procs, WorksOnSwap, TypeOK
  <2>. QED BY <1>7, <2>1 DEF FindCommitted, TypeOK
<1>8. ASSUME NEW s \in Swaps, GetDepositAddress(s) PROVE Typed'
  <2>1. WithDepositAddress(proc[s].mem) \in SwapRow(Time)
    BY EntityTypes, SwapsAssumption DEF TypeOK, Handler, Procs
  <2>2. proc' \in [Procs -> Handler] /\ WorksOnSwap'
    BY <1>8, <2>1, EnterWithTyped DEF GetDepositAddress, HandlerPc, Procs, WorksOnSwap
  <2>. QED BY <1>8, <2>2 DEF GetDepositAddress, TypeOK
<1>9. ASSUME NEW s \in Swaps, SaveCompleted(s) PROVE Typed'
  <2>1. proc' \in [Procs -> Handler] /\ WorksOnSwap'
    BY <1>9, EnterTyped DEF SaveCompleted, HandlerPc, Procs, WorksOnSwap
  <2>. QED BY <1>9, <2>1 DEF SaveCompleted, TypeOK, Handler, Procs
<1>10. ASSUME NEW s \in Swaps, CreationFails(s) PROVE Typed'
  <2>1. proc' \in [Procs -> Handler] /\ WorksOnSwap'
    BY <1>10, EnterTyped DEF CreationFails, HandlerPc, Procs, WorksOnSwap
  <2>. QED BY <1>10, <2>1 DEF CreationFails, TypeOK
<1>a. ASSUME NEW s \in Swaps, EnsureRunning(s) PROVE Typed'
  <2>1. proc' \in [Procs -> Handler] /\ WorksOnSwap'
    BY <1>a, EnterTyped DEF EnsureRunning, HandlerPc, Procs, WorksOnSwap
  <2>. QED BY <1>a, <2>1 DEF EnsureRunning, TypeOK
<1>11. ASSUME NEW p \in Clients \cup {Monitor}, NEW s \in Swaps, Read(p, s)
       PROVE  proc' \in [Procs -> Handler] /\ WorksOnSwap'
  BY <1>11, SwapsAssumption DEF Read, TypeOK, WorksOnSwap, Handler, HandlerPc, Procs
<1>12. ASSUME NEW c \in Clients, NEW s \in Swaps, StatusRequest(c, s) PROVE Typed'
  BY <1>11, <1>12, BoundsAssumption DEF StatusRequest, TypeOK
<1>13. ASSUME NEW p \in Clients \cup {Monitor}, Answer(p) PROVE Typed'
  <2>1. proc[p].swap \in Swaps /\ proc[p].mem \in SwapRow(Time) /\ p \in Procs
    BY <1>13 DEF Answer, TypeOK, WorksOnSwap, Handler, Procs
  <2>2. CASE SyncedStatus(proc[p].swap) = NoStatus
    BY <1>13, <2>1, <2>2, SyncedTyped DEF Answer, TypeOK
  <2>3. CASE SyncedStatus(proc[p].swap) # NoStatus
    <3>1. MarkAs(proc[p].mem, SyncedStatus(proc[p].swap)) \in SwapRow(Time)
      BY <2>1, <2>3, SyncedType, EntityTypes, SwapsAssumption
    <3>. QED BY <1>13, <2>1, <2>3, <3>1, EnterWithTyped DEF Answer, TypeOK, HandlerPc
  <2>. QED BY <2>2, <2>3
<1>14. ASSUME NEW p \in Clients \cup {Monitor}, AnswerFails(p) \/ Save(p) \/ SaveFails(p)
       PROVE  Typed'
  <2>1. proc[p].swap \in Swaps /\ proc[p].mem \in SwapRow(Time)
    BY <1>14 DEF AnswerFails, Save, SaveFails, TypeOK, WorksOnSwap, Handler, Procs
  <2>2. proc' \in [Procs -> Handler] /\ WorksOnSwap'
    BY <1>14, <2>1, SyncedTyped DEF AnswerFails, Save, SaveFails
  <2>. QED BY <1>14, <2>1, <2>2 DEF AnswerFails, Save, SaveFails, TypeOK
<1>15. ASSUME BeginIteration \/ IdleIteration \/ AutoStop PROVE Typed'
  BY <1>15 DEF BeginIteration, IdleIteration, AutoStop, ActiveSwaps, TypeOK, WorksOnSwap
<1>16. ASSUME NEW s \in Swaps, ProcessActiveSwap(s) PROVE Typed'
  BY <1>11, <1>16 DEF ProcessActiveSwap, TypeOK, WorksOnSwap
<1>17. ASSUME Decide \/ SubmitClaim \/ ClaimReturns \/ ClaimThrows \/ RecordFails PROVE Typed'
  <2>1. proc[Monitor].swap \in Swaps /\ Monitor \in Procs
    BY <1>17 DEF Decide, SubmitClaim, ClaimReturns, ClaimThrows, RecordFails, WorksOnSwap, Procs
  <2>2. proc' \in [Procs -> Handler] /\ WorksOnSwap'
    BY <1>17, <2>1, EnterTyped, FinishTyped
       DEF Decide, SubmitClaim, ClaimReturns, ClaimThrows, RecordFails, HandlerPc
  <2>. QED BY <1>17, <2>2 DEF Decide, SubmitClaim, ClaimReturns, ClaimThrows, RecordFails, TypeOK
<1>18. ASSUME FindClaimed PROVE Typed'
  <2>1. proc[Monitor].swap \in Swaps /\ Monitor \in Procs
    BY <1>18 DEF FindClaimed, WorksOnSwap, Procs
  <2>2. RecordClaimAttempt(row[proc[Monitor].swap], now) \in SwapRow(Time)
    BY <2>1, EntityTypes, SwapsAssumption DEF TypeOK
  <2>. QED BY <1>18, <2>1, <2>2, EnterWithTyped DEF FindClaimed, TypeOK, HandlerPc
<1>19. ASSUME SaveClaimAttempt PROVE Typed'
  <2>1. proc[Monitor].mem \in SwapRow(Time)
    BY DEF TypeOK, Handler, Procs
  <2>2. proc' \in [Procs -> Handler] /\ WorksOnSwap'
    BY <1>19, FinishTyped DEF SaveClaimAttempt
  <2>. QED BY <1>19, <2>1, <2>2 DEF SaveClaimAttempt, TypeOK, SwapRow
<1>20. ASSUME Crash PROVE Typed'
  <2>1. Idle \in Handler
    BY DEF Idle, Handler, HandlerPc, AbsentRow, SwapRow, NoAttempt, AbsentStatus
  <2>2. proc' \in [Procs -> Handler]
    BY <1>20, <2>1 DEF Crash, TypeOK, Handler, HandlerPc
  <2>3. WorksOnSwap'
    BY <1>20, SwapsAssumption DEF Crash, TypeOK, WorksOnSwap, Idle, Handler, Procs
  <2>. QED BY <1>20, <2>2, <2>3, BoundsAssumption DEF Crash, TypeOK
<1>21. CASE UNCHANGED vars
  BY <1>21 DEF vars, TypeOK, WorksOnSwap
<1>. QED
  BY <1>1, <1>2, <1>3, <1>4, <1>5, <1>6, <1>7, <1>8, <1>9, <1>10, <1>a, <1>12, <1>13, <1>14,
     <1>15, <1>16, <1>17, <1>18, <1>19, <1>20, <1>21
  DEF Next, External, Creation, FetchStatus, Polling, Monitoring

\* The types hold in every behaviour, for any swaps, clients and bounds.
THEOREM TypeCorrect == Spec => []TypeOK
<1>1. Typed => TypeOK
  BY DEF Typed
<1>. QED BY <1>1, TypedInit, TypedStep, PTL DEF Spec

-----------------------------------------------------------------------------
(* TerminalIsTrue and PaidHasAddress.  Each says something of every entity *)
(* of a swap: its row and the copies that handlers hold and will write.    *)

\* The entity that SwapLifecycle extends is that of SwapSync.
LEMMA SameEntity ==
  /\ Lifecycle!ReverseDirections = ReverseDirections
  /\ Lifecycle!AbsentStatus = AbsentStatus /\ Lifecycle!NoStatus = NoStatus
  /\ \A d : Lifecycle!CreatedRow(d) = CreatedRow(d)
  /\ \A st, d : Lifecycle!IsTerminal(st, d) = IsTerminal(st, d)
BY DEF Lifecycle!ReverseDirections, ReverseDirections, Lifecycle!StarknetToLightning,
       StarknetToLightning, Lifecycle!StarknetToBitcoin, StarknetToBitcoin,
       Lifecycle!AbsentStatus, AbsentStatus, Lifecycle!NoStatus, NoStatus,
       Lifecycle!CreatedRow, CreatedRow, Lifecycle!AbsentRow, AbsentRow, Lifecycle!NoAttempt,
       NoAttempt, Lifecycle!BitcoinToStarknet, BitcoinToStarknet,
       Lifecycle!IsTerminal, IsTerminal, Lifecycle!TerminalStatus, TerminalStatus

\* The statuses that SwapLifecycle names for each direction.
LEMMA StatusesOf ==
  ASSUME NEW d \in Directions
  PROVE  /\ {"paid", "expired", "failed", "completed", "lost"} \subseteq Lifecycle!Statuses(d)
         /\ CreatedRow(d).status \in Lifecycle!Statuses(d)
         /\ AbsentStatus \notin Lifecycle!Statuses(d)
         /\ \A st \in AtomiqState :
              TranscribedStatus(st, d) \in Lifecycle!Statuses(d) \cup {NoStatus}
<1>1. /\ {"paid", "expired", "failed", "completed", "lost"} \subseteq Lifecycle!Statuses(d)
      /\ d \in ReverseDirections =>
           {"pending", "refundable", "refunded"} \subseteq Lifecycle!Statuses(d)
      /\ d \notin ReverseDirections =>
           {CreatedRow(d).status, "claimable"} \subseteq Lifecycle!Statuses(d)
  BY SameEntity DEF Lifecycle!Statuses
<1>2. CreatedRow(d).status = IF d = BitcoinToStarknet THEN "committed" ELSE "pending"
  BY DEF CreatedRow, AbsentRow
<1>3. CreatedRow(d).status \in Lifecycle!Statuses(d)
  BY <1>1, <1>2 DEF ReverseDirections, BitcoinToStarknet, StarknetToLightning, StarknetToBitcoin
<1>4. AbsentStatus \notin Lifecycle!Statuses(d)
  BY <1>2, SameEntity DEF Lifecycle!Statuses, AbsentStatus
<1>5. ASSUME NEW st \in AtomiqState
      PROVE  TranscribedStatus(st, d) \in Lifecycle!Statuses(d) \cup {NoStatus}
  <2>1. st \in {-4, -3, -2, -1, 0, 1, 2, 3, 4}
    BY DEF AtomiqState
  <2>2. CASE d \in ReverseDirections
    BY <1>1, <2>1, <2>2, ReverseTable
  <2>3. CASE d \notin ReverseDirections
    <3>1. d = LightningToStarknet \/ d = BitcoinToStarknet
      BY <2>3 DEF Directions, ForwardDirections
    <3>. QED BY <1>1, <2>1, <2>3, <3>1, LightningTable, BitcoinTable
  <2>. QED BY <2>2, <2>3
<1>. QED BY <1>1, <1>3, <1>4, <1>5

\* Entity e of swap s is good when Atomiq has the swap in state st.
Good(s, e, st, gone) ==
  /\ e.status \in Lifecycle!Statuses(Direction[s]) \cup {AbsentStatus}
  /\ Terminal(s, e) => \/ e.status = TranscribedStatus(st, Direction[s])
                       \/ e.status = "lost" /\ gone
  /\ PaidWithAddress(s, e)

GoodNow(s, e) == Good(s, e, sdk[s], forgotten[s])

AllGood ==
  \A s \in Swaps :
    /\ GoodNow(s, row[s])
    /\ \A p \in Procs : proc[p].swap = s => GoodNow(s, proc[p].mem)

\* All entities after the step, seen with what Atomiq said before it.
GoodAfter ==
  \A s \in Swaps :
    /\ GoodNow(s, row'[s])
    /\ \A p \in Procs : proc'[p].swap = s => GoodNow(s, proc'[p].mem)

\* Among others, that is the two invariants, of every entity stored or held.
LEMMA AllGoodMeans == AllGood => TerminalIsTrue /\ PaidHasAddress
BY DEF AllGood, GoodNow, Good, TerminalIsTrue, IsTrue, PaidHasAddress

\* Atomiq only takes its own steps, and never finds a forgotten swap again.
LEMMA AtomiqMoves ==
  ASSUME Typed, [Next]_vars, NEW s \in Swaps
  PROVE  /\ sdk'[s] = sdk[s] \/ <<sdk[s], sdk'[s]>> \in AtomiqSteps(Direction[s])
         /\ forgotten[s] => forgotten'[s]
<1>1. ASSUME NEW t \in Swaps, AtomiqStep(t)
      PROVE  /\ sdk'[s] = sdk[s] \/ <<sdk[s], sdk'[s]>> \in AtomiqSteps(Direction[s])
             /\ forgotten'[s] = forgotten[s]
  BY <1>1 DEF AtomiqStep, Typed, TypeOK
<1>2. ASSUME NEW t \in Swaps, Forget(t) PROVE sdk' = sdk /\ (forgotten[s] => forgotten'[s])
  BY <1>2 DEF Forget, Typed, TypeOK
<1>3. \/ \E t \in Swaps : AtomiqStep(t) \/ Forget(t)
      \/ sdk' = sdk /\ forgotten' = forgotten
  BY DEF Next, vars, External, Tick, Creation, FetchStatus, Polling, Monitoring, Crash,
         Quote, CommitOnChain, SaveNew, FindCommitted, GetDepositAddress, SaveCompleted,
         EnsureRunning, CreationFails, StatusRequest, Answer, AnswerFails, Save, SaveFails, BeginIteration,
         IdleIteration, AutoStop, ProcessActiveSwap, Decide, SubmitClaim, ClaimReturns, ClaimThrows, FindClaimed,
         SaveClaimAttempt, RecordFails
<1>. QED BY <1>1, <1>2, <1>3

\* An entity stays good whatever Atomiq does, because a status that is
\* terminal is one that Atomiq does not change any more.
LEMMA GoodStays ==
  ASSUME Typed, Typed', [Next]_vars, NEW s \in Swaps, NEW e, GoodNow(s, e)
  PROVE  Good(s, e, sdk'[s], forgotten'[s])
<1>1. /\ sdk[s] \in AtomiqState /\ sdk'[s] \in AtomiqState /\ Direction[s] \in Directions
  BY SwapsAssumption DEF Typed, TypeOK
<1>2. CASE Terminal(s, e) /\ e.status = TranscribedStatus(sdk[s], Direction[s])
  <2>1. TranscribedStatus(sdk'[s], Direction[s]) = TranscribedStatus(sdk[s], Direction[s])
    BY <1>1, <1>2, AtomiqMoves, TerminalIsFinal DEF Terminal
  <2>. QED BY <1>2, <2>1 DEF Good, GoodNow
<1>3. CASE ~(Terminal(s, e) /\ e.status = TranscribedStatus(sdk[s], Direction[s]))
  BY <1>3, AtomiqMoves DEF Good, GoodNow
<1>. QED BY <1>2, <1>3

\* So a step that replaces no entity by a bad one keeps all of them good.
LEMMA GoodPreserved ==
  ASSUME Typed, Typed', [Next]_vars, GoodAfter
  PROVE  AllGood'
<1>1. ASSUME NEW s \in Swaps PROVE GoodNow(s, row[s])'
  BY GoodStays DEF GoodAfter, GoodNow, Good, Terminal, PaidWithAddress
<1>2. ASSUME NEW s \in Swaps, NEW p \in Procs, proc'[p].swap = s PROVE GoodNow(s, proc[p].mem)'
  BY <1>2, GoodStays DEF GoodAfter, GoodNow, Good, Terminal, PaidWithAddress
<1>. QED BY <1>1, <1>2 DEF AllGood

\* The entities the code makes out of good ones are good.
LEMMA GoodMade ==
  ASSUME Typed, NEW s \in Swaps, NEW e \in SwapRow(Time), GoodNow(s, e)
  PROVE  /\ GoodNow(s, CreatedRow(Direction[s]))
         /\ GoodNow(s, WithDepositAddress(e))
         /\ \A t \in Time : GoodNow(s, RecordClaimAttempt(e, t))
         /\ SyncedStatus(s) # NoStatus => GoodNow(s, MarkAs(e, SyncedStatus(s)))
<1> USE DEF GoodNow, Good, Terminal, PaidWithAddress, IsTerminal, TerminalStatus
<1>0. Direction[s] \in Directions
  BY SwapsAssumption
<1>1. GoodNow(s, CreatedRow(Direction[s]))
  <2>1. CreatedRow(Direction[s]).status \in {"pending", "committed"}
    BY DEF CreatedRow, AbsentRow
  <2>. QED BY <1>0, <2>1, StatusesOf
<1>2. GoodNow(s, WithDepositAddress(e))
  <2>1. WithDepositAddress(e).status = "paid" /\ WithDepositAddress(e).address
    BY DEF WithDepositAddress, SwapRow
  <2>. QED BY <1>0, <2>1, StatusesOf
<1>3. ASSUME NEW t \in Time PROVE GoodNow(s, RecordClaimAttempt(e, t))
  BY DEF RecordClaimAttempt, SwapRow
<1>4. ASSUME SyncedStatus(s) # NoStatus PROVE GoodNow(s, MarkAs(e, SyncedStatus(s)))
  <2>1. MarkAs(e, SyncedStatus(s)).status = SyncedStatus(s)
    BY DEF MarkAs, SwapRow
  <2>2. Direction[s] = BitcoinToStarknet => SyncedStatus(s) # "paid"
    BY SwapsAssumption, TranscribedType DEF SyncedStatus, Typed, TypeOK
  <2>3. SyncedStatus(s) \in Lifecycle!Statuses(Direction[s])
    BY <1>0, <1>4, StatusesOf DEF SyncedStatus, Typed, TypeOK
  <2>. QED BY <2>1, <2>2, <2>3 DEF SyncedStatus
<1>. QED BY <1>1, <1>2, <1>3, <1>4

\* Handlers that only move on carry their entity with them.
LEMMA CarriedByEnter ==
  ASSUME Typed, AllGood, NEW p \in Procs, NEW pc, row' = row,
         Enter(p, pc) \/ Finish(p)
  PROVE  GoodAfter
<1>1. \A q \in Procs : proc'[q].swap \in Swaps =>
         proc'[q].swap = proc[q].swap /\ proc'[q].mem = proc[q].mem
  BY SwapsAssumption DEF Enter, Finish, Idle, Typed, TypeOK, Handler
<1>. QED BY <1>1 DEF GoodAfter, AllGood

\* Handlers that move on with another good entity carry good ones.
LEMMA CarriedByEnterWith ==
  ASSUME Typed, AllGood, NEW p \in Procs, NEW pc, NEW mem, row' = row,
         EnterWith(p, pc, mem), GoodNow(proc[p].swap, mem)
  PROVE  GoodAfter
<1>1. \A q \in Procs \ {p} : proc'[q] = proc[q]
  BY DEF EnterWith, Typed, TypeOK
<1>2. proc'[p].swap = proc[p].swap /\ proc'[p].mem = mem
  BY DEF EnterWith, Typed, TypeOK, Handler
<1>. QED BY <1>1, <1>2 DEF GoodAfter, AllGood

\* A write puts a good entity in the row of its swap.
LEMMA CarriedByWrite ==
  ASSUME Typed, AllGood, NEW s \in Swaps, NEW e, GoodNow(s, e), row' = [row EXCEPT ![s] = e],
         \A q \in Procs : proc'[q].swap \in Swaps =>
           proc'[q].swap = proc[q].swap /\ proc'[q].mem = proc[q].mem
  PROVE  GoodAfter
BY DEF GoodAfter, AllGood, Typed, TypeOK

\* Starting or ending on an entity leaves the entities held as they are.
LEMMA HeldKept ==
  ASSUME Typed, NEW p \in Procs, NEW pc, NEW mem,
         \/ Enter(p, pc) \/ Finish(p)
         \/ EnterWith(p, pc, mem) /\ mem = proc[p].mem
  PROVE  \A q \in Procs : proc'[q].swap \in Swaps =>
           proc'[q].swap = proc[q].swap /\ proc'[q].mem = proc[q].mem
BY SwapsAssumption DEF Enter, Finish, EnterWith, Idle, Typed, TypeOK, Handler

\* There is nothing yet when the server starts.
LEMMA GoodInit == Init => AllGood
BY SwapsAssumption
   DEF Init, AllGood, GoodNow, Good, Terminal, IsTerminal, TerminalStatus, PaidWithAddress,
       AbsentRow, AbsentStatus, Idle

\* Every step leaves only good entities.
LEMMA GoodStep == Typed /\ Typed' /\ AllGood /\ [Next]_vars => GoodAfter
<1> SUFFICES ASSUME Typed, Typed', AllGood, [Next]_vars PROVE GoodAfter
  OBVIOUS
<1>0. \A s \in Swaps : s \in Procs /\ row[s] \in SwapRow(Time) /\ GoodNow(s, row[s])
  BY DEF Procs, Typed, TypeOK, AllGood
<1>a. ASSUME NEW p \in Procs, proc[p].pc # "idle"
      PROVE  /\ proc[p].swap \in Swaps /\ proc[p].mem \in SwapRow(Time)
             /\ GoodNow(proc[p].swap, proc[p].mem)
             /\ p \in Swaps => proc[p].swap = p
  BY <1>a DEF Typed, TypeOK, WorksOnSwap, AllGood, Handler
<1>1. ASSUME proc' = proc, row' = row PROVE GoodAfter
  BY <1>1 DEF GoodAfter, AllGood
<1>2. ASSUME NEW s \in Swaps, AtomiqStep(s) \/ Forget(s) PROVE GoodAfter
  BY <1>1, <1>2 DEF AtomiqStep, Forget
<1>3. ASSUME NEW s \in Swaps, Quote(s) PROVE GoodAfter
  <2>1. \A q \in Procs \ {s} : proc'[q] = proc[q]
    BY <1>3 DEF Quote, Typed, TypeOK
  <2>2. proc'[s].mem = AbsentRow /\ proc'[s].swap = s
    BY <1>0, <1>3 DEF Quote, Typed, TypeOK, Handler
  <2>3. GoodNow(s, AbsentRow)
    BY DEF GoodNow, Good, Terminal, IsTerminal, TerminalStatus, PaidWithAddress, AbsentRow,
           AbsentStatus
  <2>. QED BY <1>3, <2>1, <2>2, <2>3 DEF Quote, GoodAfter, AllGood
<1>4. ASSUME NEW s \in Swaps, CommitOnChain(s) \/ EnsureRunning(s) \/ CreationFails(s)
      PROVE  GoodAfter
  BY <1>0, <1>4, CarriedByEnter DEF CommitOnChain, EnsureRunning, CreationFails
<1>5. ASSUME NEW s \in Swaps, SaveNew(s) PROVE GoodAfter
  <2>1. GoodNow(s, CreatedRow(Direction[s]))
    BY <1>0, GoodMade
  <2>. QED BY <1>0, <1>5, <2>1, HeldKept, CarriedByWrite DEF SaveNew
<1>6. ASSUME NEW s \in Swaps, FindCommitted(s) PROVE GoodAfter
  <2>1. proc[s].swap = s
    BY <1>0, <1>6, <1>a DEF FindCommitted
  <2>. QED BY <1>0, <1>6, <2>1, CarriedByEnterWith DEF FindCommitted
<1>7. ASSUME NEW s \in Swaps, GetDepositAddress(s) PROVE GoodAfter
  <2>1. proc[s].swap = s /\ GoodNow(s, WithDepositAddress(proc[s].mem))
    BY <1>0, <1>7, <1>a, GoodMade DEF GetDepositAddress
  <2>. QED BY <1>0, <1>7, <2>1, CarriedByEnterWith DEF GetDepositAddress
<1>8. ASSUME NEW s \in Swaps, SaveCompleted(s) PROVE GoodAfter
  <2>1. GoodNow(s, proc[s].mem)
    BY <1>0, <1>8, <1>a DEF SaveCompleted
  <2>. QED BY <1>0, <1>8, <2>1, HeldKept, CarriedByWrite DEF SaveCompleted
<1>9. ASSUME NEW p \in Clients \cup {Monitor}, NEW s \in Swaps, Read(p, s), row' = row
      PROVE  GoodAfter
  <2>1. \A q \in Procs \ {p} : proc'[q] = proc[q]
    BY <1>9 DEF Read, Typed, TypeOK
  <2>2. proc'[p].mem = row[s] /\ proc'[p].swap = s
    BY <1>9 DEF Read, Typed, TypeOK, Procs
  <2>. QED BY <1>0, <1>9, <2>1, <2>2 DEF GoodAfter, AllGood
<1>10. ASSUME NEW c \in Clients, NEW s \in Swaps, StatusRequest(c, s) PROVE GoodAfter
  BY <1>9, <1>10 DEF StatusRequest
<1>11. ASSUME NEW p \in Clients \cup {Monitor}, row' = row,
              NEW mem, proc[p].swap \in Swaps, GoodNow(proc[p].swap, mem), Synced(p, mem)
       PROVE  GoodAfter
  BY <1>11, CarriedByEnter, CarriedByEnterWith DEF Synced, Procs
<1>12. ASSUME NEW p \in Clients \cup {Monitor}, Answer(p) PROVE GoodAfter
  <2>1. p \in Procs /\ proc[p].pc # "idle"
    BY <1>12 DEF Procs, Answer
  <2>2. CASE SyncedStatus(proc[p].swap) = NoStatus
    BY <1>a, <1>11, <1>12, <2>1, <2>2 DEF Answer
  <2>3. CASE SyncedStatus(proc[p].swap) # NoStatus
    <3>1. GoodNow(proc[p].swap, MarkAs(proc[p].mem, SyncedStatus(proc[p].swap)))
      BY <1>a, <2>1, <2>3, GoodMade
    <3>. QED BY <1>12, <2>1, <2>3, <3>1, CarriedByEnterWith DEF Answer
  <2>. QED BY <2>2, <2>3
<1>13. ASSUME NEW p \in Clients \cup {Monitor}, AnswerFails(p) \/ SaveFails(p) PROVE GoodAfter
  BY <1>a, <1>11, <1>13 DEF AnswerFails, SaveFails, Procs
<1>14. ASSUME NEW p \in Clients \cup {Monitor}, Save(p) PROVE GoodAfter
  <2>1. p \in Procs /\ proc[p].pc # "idle"
    BY <1>14 DEF Procs, Save
  <2>. QED BY <1>a, <1>14, <2>1, HeldKept, CarriedByWrite DEF Save, Synced
<1>15. ASSUME BeginIteration \/ IdleIteration \/ AutoStop \/ Tick PROVE GoodAfter
  BY <1>1, <1>15 DEF BeginIteration, IdleIteration, AutoStop, Tick
<1>16. ASSUME NEW s \in Swaps, ProcessActiveSwap(s) PROVE GoodAfter
  BY <1>1, <1>9, <1>16 DEF ProcessActiveSwap
<1>17. ASSUME Decide \/ SubmitClaim \/ ClaimReturns \/ ClaimThrows \/ RecordFails PROVE GoodAfter
  BY <1>17, CarriedByEnter
     DEF Decide, SubmitClaim, ClaimReturns, ClaimThrows, RecordFails, Procs
<1>18. ASSUME FindClaimed PROVE GoodAfter
  <2>1. Monitor \in Procs /\ proc[Monitor].swap \in Swaps
    BY <1>18, <1>a DEF FindClaimed, Procs
  <2>2. GoodNow(proc[Monitor].swap, RecordClaimAttempt(row[proc[Monitor].swap], now))
    BY <1>0, <2>1, GoodMade DEF Typed, TypeOK
  <2>. QED BY <1>18, <2>1, <2>2, CarriedByEnterWith DEF FindClaimed
<1>19. ASSUME SaveClaimAttempt PROVE GoodAfter
  <2>1. Monitor \in Procs /\ proc[Monitor].pc # "idle"
    BY <1>19 DEF SaveClaimAttempt, Procs
  <2>. QED BY <1>a, <1>19, <2>1, HeldKept, CarriedByWrite DEF SaveClaimAttempt
<1>20. ASSUME Crash PROVE GoodAfter
  <2>1. \A q \in Procs : proc'[q].swap \in Swaps =>
           proc'[q].swap = proc[q].swap /\ proc'[q].mem = proc[q].mem
    BY <1>20, SwapsAssumption DEF Crash, Idle, Typed, TypeOK, Handler
  <2>. QED BY <1>20, <2>1 DEF Crash, GoodAfter, AllGood
<1>21. CASE UNCHANGED vars
  BY <1>1, <1>21 DEF vars
<1>. QED
  BY <1>2, <1>3, <1>4, <1>5, <1>6, <1>7, <1>8, <1>10, <1>12, <1>13, <1>14, <1>15, <1>16, <1>17,
     <1>18, <1>19, <1>20, <1>21
  DEF Next, External, Creation, FetchStatus, Polling, Monitoring

\* Every entity is good in every behaviour.
LEMMA GoodInvariant == Spec => []AllGood
<1>1. Typed /\ AllGood /\ [Next]_vars => Typed' /\ AllGood'
  BY TypedStep, GoodStep, GoodPreserved
<1>. QED BY <1>1, TypedInit, GoodInit, PTL DEF Spec

\* No interleaving of the monitor, the clients, the creating requests, their
\* failures and restarts leaves a swap settled in the backend which Atomiq may
\* still move.
THEOREM TerminalIsAlwaysTrue == Spec => []TerminalIsTrue
<1>1. AllGood => TerminalIsTrue
  BY AllGoodMeans
<1>. QED BY <1>1, GoodInvariant, PTL

\* A Bitcoin swap is never shown as paid without the address to pay to.
THEOREM PaidAlwaysHasAddress == Spec => []PaidHasAddress
<1>1. AllGood => PaidHasAddress
  BY AllGoodMeans
<1>. QED BY <1>1, GoodInvariant, PTL

-----------------------------------------------------------------------------
(* SettledForGood.  A step that writes a row belongs to a process that is  *)
(* already in flight on it; a process gets in flight by reading an active  *)
(* row, or as the creation of a swap that has no row yet.                  *)

\* A swap that nobody has asked for has no row, and nobody works on it.
Born ==
  \A s \in Swaps : proc[s].pc = "idle" =>
    /\ row[s].status = AbsentStatus
    /\ s \notin todo
    /\ \A p \in Procs : proc[p].pc # "idle" => proc[p].swap # s

Others(p) == \A q \in Procs \ {p} : proc'[q] = proc[q]

\* Nothing is held or written; an iteration may begin or skip a swap.
StaysPut ==
  /\ proc' = proc /\ row' = row
  /\ \A s \in todo' : s \in todo \/ row[s].status # AbsentStatus

\* Process p, in flight, goes on with its swap, which alone it may write, or ends.
Moves(p) ==
  /\ proc[p].pc \notin {"idle", "done", "failed"} /\ Others(p)
  /\ \/ proc'[p].swap = proc[p].swap /\ proc'[p].pc # "idle"
     \/ p \notin Swaps /\ proc'[p].pc = "idle"
  /\ \A s \in Swaps : s # proc[p].swap => row'[s] = row[s]
  /\ todo' = todo

\* Process p takes up swap s, to create it or because it is active.
Starts(p, s) ==
  /\ proc[p].pc = "idle" /\ Others(p)
  /\ proc'[p].swap = s /\ proc'[p].pc # "idle"
  /\ p = s \/ (p \notin Swaps /\ proc[s].pc # "idle" /\ ~Terminal(s, row[s]))
  /\ row' = row /\ \A t \in todo' : t \in todo

\* Entering, entering with an entity and finishing are moves of the process.
LEMMA HandlersMove ==
  ASSUME Typed, NEW p \in Procs, proc[p].pc \notin {"idle", "done", "failed"},
         NEW pc \in HandlerPc \ {"idle"}, NEW mem,
         \/ Enter(p, pc) \/ EnterWith(p, pc, mem)
         \/ p \notin Swaps /\ (Finish(p) \/ Synced(p, mem)),
         \A s \in Swaps : s # proc[p].swap => row'[s] = row[s], todo' = todo
  PROVE  Moves(p)
<1>1. CASE Enter(p, pc)
  BY <1>1 DEF Enter, Moves, Others, Typed, TypeOK, Handler
<1>2. ASSUME NEW at \in HandlerPc \ {"idle"}, EnterWith(p, at, mem) PROVE Moves(p)
  BY <1>2 DEF EnterWith, Moves, Others, Typed, TypeOK, Handler
<1>3. CASE p \notin Swaps /\ Finish(p)
  BY <1>3 DEF Finish, Idle, Moves, Others, Typed, TypeOK
<1>4. CASE p \notin Swaps /\ Synced(p, mem)
  BY <1>2, <1>3, <1>4 DEF Synced, HandlerPc
<1>. QED BY <1>1, <1>2, <1>3, <1>4

\* Reading an active row that exists is a start.
LEMMA ReadStarts ==
  ASSUME Typed, Born, NEW p \in Clients \cup {Monitor}, NEW s \in Swaps, Read(p, s),
         row[s].status # AbsentStatus \/ s \in todo, row' = row, \A t \in todo' : t \in todo
  PROVE  Starts(p, s)
BY SwapsAssumption DEF Read, Starts, Others, Born, Typed, TypeOK, Handler, Procs

\* Every step is of one of these kinds, or a restart.
LEMMA StepKinds ==
  ASSUME Typed, Born, [Next]_vars
  PROVE  \/ StaysPut \/ Crash
         \/ \E p \in Procs : Moves(p) \/ \E s \in Swaps : Starts(p, s)
<1> DEFINE Goal == \/ StaysPut \/ Crash
                   \/ \E p \in Procs : Moves(p) \/ \E s \in Swaps : Starts(p, s)
<1>0. /\ Monitor \in Procs /\ Monitor \notin Swaps
      /\ \A s \in Swaps : s \in Procs /\ (proc[s].pc # "idle" => proc[s].swap = s)
      /\ \A p \in Clients \cup {Monitor} : p \in Procs /\ p \notin Swaps
  BY SwapsAssumption DEF Procs, Typed, WorksOnSwap
<1>1. ASSUME External PROVE Goal
  BY <1>1 DEF External, Tick, AtomiqStep, Forget, StaysPut
<1>2. ASSUME NEW s \in Swaps, Quote(s) PROVE Goal
  <2>1. proc'[s] = [pc |-> "quoted", swap |-> s, mem |-> AbsentRow] /\ Others(s)
    BY <1>0, <1>2 DEF Quote, Others, Typed, TypeOK
  <2>2. Starts(s, s)
    BY <1>2, <2>1 DEF Quote, Starts
  <2>. QED BY <1>0, <2>2
<1>3. ASSUME NEW s \in Swaps,
             \/ CommitOnChain(s) \/ SaveNew(s) \/ FindCommitted(s)
             \/ GetDepositAddress(s) \/ SaveCompleted(s) \/ EnsureRunning(s) \/ CreationFails(s)
      PROVE  Goal
  <2>1. proc[s].pc \notin {"idle", "done", "failed"}
    BY <1>3 DEF CommitOnChain, SaveNew, FindCommitted, GetDepositAddress, SaveCompleted,
                EnsureRunning, CreationFails
  <2>2. todo' = todo /\ \A t \in Swaps : t # s => row'[t] = row[t]
    BY <1>3 DEF CommitOnChain, SaveNew, FindCommitted, GetDepositAddress, SaveCompleted,
                EnsureRunning, CreationFails, Typed, TypeOK
  <2>3. \/ \E pc \in HandlerPc \ {"idle"} : Enter(s, pc)
        \/ \E pc \in HandlerPc \ {"idle"}, mem \in {row[s], WithDepositAddress(proc[s].mem)} :
             EnterWith(s, pc, mem)
    BY <1>3 DEF CommitOnChain, SaveNew, FindCommitted, GetDepositAddress, SaveCompleted,
                EnsureRunning, CreationFails, HandlerPc
  <2>4. Moves(s)
    BY <1>0, <2>1, <2>2, <2>3, HandlersMove
  <2>. QED BY <1>0, <2>4
<1>4. ASSUME NEW c \in Clients, NEW s \in Swaps, StatusRequest(c, s) PROVE Goal
  BY <1>0, <1>4, ReadStarts DEF StatusRequest
<1>5. ASSUME NEW p \in Clients \cup {Monitor},
             Answer(p) \/ AnswerFails(p) \/ Save(p) \/ SaveFails(p)
      PROVE  Goal
  <2>1. proc[p].pc \notin {"idle", "done", "failed"}
    BY <1>5 DEF Answer, AnswerFails, Save, SaveFails
  <2>2. todo' = todo /\ \A t \in Swaps : t # proc[p].swap => row'[t] = row[t]
    BY <1>5 DEF Answer, AnswerFails, Save, SaveFails, Typed, TypeOK
  <2>3. \/ Synced(p, proc[p].mem)
        \/ EnterWith(p, "saving", MarkAs(proc[p].mem, SyncedStatus(proc[p].swap)))
    BY <1>5 DEF Answer, AnswerFails, Save, SaveFails
  <2>4. Moves(p)
    BY SMTT(30), <1>0, <2>1, <2>2, <2>3, HandlersMove DEF HandlerPc
  <2>. QED BY <1>0, <2>4
<1>6. ASSUME BeginIteration \/ IdleIteration \/ AutoStop PROVE Goal
  BY <1>6 DEF BeginIteration, IdleIteration, AutoStop, ActiveSwaps, StaysPut
<1>7. ASSUME NEW s \in Swaps, ProcessActiveSwap(s) PROVE Goal
  <2>1. s \in todo /\ row' = row /\ \A t \in todo' : t \in todo
    BY <1>7 DEF ProcessActiveSwap
  <2>2. CASE Read(Monitor, s)
    BY <1>0, <2>1, <2>2, ReadStarts
  <2>3. CASE UNCHANGED proc
    BY <2>1, <2>3 DEF StaysPut
  <2>. QED BY <1>7, <2>2, <2>3 DEF ProcessActiveSwap
<1>8. ASSUME \/ Decide \/ SubmitClaim \/ ClaimReturns \/ ClaimThrows
             \/ FindClaimed \/ SaveClaimAttempt \/ RecordFails
      PROVE  Goal
  <2>1. proc[Monitor].pc \notin {"idle", "done", "failed"}
    BY <1>8 DEF Decide, SubmitClaim, ClaimReturns, ClaimThrows, FindClaimed, SaveClaimAttempt,
                RecordFails
  <2>2. todo' = todo /\ \A t \in Swaps : t # proc[Monitor].swap => row'[t] = row[t]
    BY <1>8 DEF Decide, SubmitClaim, ClaimReturns, ClaimThrows, FindClaimed, SaveClaimAttempt,
                RecordFails, Typed, TypeOK
  <2>3. \/ \E pc \in HandlerPc \ {"idle"} : Enter(Monitor, pc)
        \/ EnterWith(Monitor, "recorded", RecordClaimAttempt(row[proc[Monitor].swap], now))
        \/ Finish(Monitor)
    BY <1>8 DEF Decide, SubmitClaim, ClaimReturns, ClaimThrows, FindClaimed, SaveClaimAttempt,
                RecordFails, HandlerPc
  <2>4. Moves(Monitor)
    BY <1>0, <2>1, <2>2, <2>3, HandlersMove DEF HandlerPc
  <2>. QED BY <1>0, <2>4
<1>9. CASE UNCHANGED vars
  BY <1>9 DEF vars, StaysPut
<1>. QED
  BY <1>1, <1>2, <1>3, <1>4, <1>5, <1>6, <1>7, <1>8, <1>9
  DEF Next, Creation, FetchStatus, Polling, Monitoring

\* No row, no iteration and no other process precedes the request for a swap.
LEMMA BornStep == Typed /\ Typed' /\ Born /\ [Next]_vars => Born'
<1> SUFFICES ASSUME Typed, Typed', Born, [Next]_vars, NEW s \in Swaps, proc'[s].pc = "idle"
             PROVE  /\ row'[s].status = AbsentStatus
                    /\ s \notin todo'
                    /\ \A p \in Procs : proc'[p].pc # "idle" => proc'[p].swap # s
  BY DEF Born
<1>0. s \in Procs /\ \A p \in Procs : proc[p].pc # "idle" => proc[p].swap \in Swaps
  BY DEF Procs, Typed, WorksOnSwap
<1>1. CASE StaysPut
  BY <1>1 DEF StaysPut, Born
<1>2. CASE Crash
  <2>1. proc[s].pc = "idle" /\ row' = row /\ todo' = {}
    BY <1>0, <1>2 DEF Crash
  <2>2. \A p \in Procs : proc'[p].pc # "idle" => proc[p].pc # "idle" /\ proc'[p].swap = proc[p].swap
    BY <1>2 DEF Crash, Idle, Typed, TypeOK, Handler
  <2>. QED BY <2>1, <2>2 DEF Born
<1>3. ASSUME NEW p \in Procs, Moves(p)
      PROVE  /\ row'[s].status = AbsentStatus
             /\ s \notin todo'
             /\ \A q \in Procs : proc'[q].pc # "idle" => proc'[q].swap # s
  <2>1. proc[s].pc = "idle"
    BY <1>0, <1>3 DEF Moves, Others
  <2>. QED BY <1>3, <2>1 DEF Moves, Others, Born
<1>4. ASSUME NEW p \in Procs, NEW t \in Swaps, Starts(p, t)
      PROVE  /\ row'[s].status = AbsentStatus
             /\ s \notin todo'
             /\ \A q \in Procs : proc'[q].pc # "idle" => proc'[q].swap # s
  <2>1. proc[s].pc = "idle" /\ s # p
    BY <1>0, <1>4 DEF Starts, Others
  <2>2. t # s
    BY <1>4, <2>1 DEF Starts
  <2>. QED BY <1>4, <2>1, <2>2 DEF Starts, Others, Born
<1>. QED BY <1>1, <1>2, <1>3, <1>4, StepKinds

\* A settled swap keeps its row, and nobody takes it up.
LEMMA SettledStep ==
  ASSUME Typed, Typed', Born, [Next]_vars, NEW s \in Swaps, Settled(s)
  PROVE  Settled(s)' /\ row'[s] = row[s]
<1>0. /\ s \in Procs /\ row[s].status # AbsentStatus /\ Terminal(s, row[s])
      /\ \A p \in Procs : ~InFlight(p, s)
  BY DEF Settled, Procs
<1> SUFFICES row'[s] = row[s] /\ \A p \in Procs : ~InFlight(p, s)'
  BY <1>0 DEF Settled, Terminal
<1>1. CASE StaysPut
  BY <1>0, <1>1 DEF StaysPut, InFlight
<1>2. CASE Crash
  <2>1. \A p \in Procs : \/ proc'[p].pc \in {"idle", "done", "failed"}
                         \/ proc'[p] = proc[p]
    BY <1>2 DEF Crash, Idle, Typed, TypeOK, Handler
  <2>. QED BY <1>0, <1>2, <2>1 DEF Crash, InFlight
<1>3. ASSUME NEW p \in Procs, Moves(p)
      PROVE  row'[s] = row[s] /\ \A q \in Procs : ~InFlight(q, s)'
  <2>1. proc[p].swap # s
    BY <1>0, <1>3 DEF Moves, InFlight
  <2>. QED BY <1>0, <1>3, <2>1 DEF Moves, Others, InFlight
<1>4. ASSUME NEW p \in Procs, NEW t \in Swaps, Starts(p, t)
      PROVE  row'[s] = row[s] /\ \A q \in Procs : ~InFlight(q, s)'
  <2>1. t # s
    BY <1>0, <1>4 DEF Starts, Born
  <2>. QED BY <1>0, <1>4, <2>1 DEF Starts, Others, InFlight
<1>. QED BY <1>1, <1>2, <1>3, <1>4, StepKinds

\* A terminal swap that no handler holds keeps its row for good: no poll, no
\* iteration, no restart and no step of Atomiq brings it back (the isTerminal
\* guard of fetchStatus and findActive).
THEOREM SettledIsForGood == Spec => SettledForGood
<1>1. Init => Born
  BY SwapsAssumption DEF Init, Born, Idle, AbsentRow, Procs
<1>2. Typed /\ Born /\ [Next]_vars => Typed' /\ Born'
  BY TypedStep, BornStep
<1>3. Typed /\ Born /\ [Next]_vars
        => [\A s \in Swaps : Settled(s) => Settled(s)' /\ row'[s] = row[s]]_vars
  BY <1>2, SettledStep
<1>. QED BY <1>1, <1>2, <1>3, TypedInit, PTL DEF Spec, SettledForGood

-----------------------------------------------------------------------------
(* The rows implement SwapLifecycle.  A status is written where there is a *)
(* row, except by the request that creates it, which finds none: this is   *)
(* the part of the argument that AllGood does not have.                    *)

\* A handler at these points has found, or written, the row of its swap ...
Found == {"asking", "saving", "synced", "claiming", "confirming", "recording", "recorded",
          "saved", "waiting", "addressed", "stored"}

\* ... and at these it is about to write it again.
Writing == {"saving", "recorded", "addressed"}

Stored ==
  /\ \A s \in Swaps :
       /\ s \in todo => row[s].status # AbsentStatus
       /\ proc[s].pc \in {"quoted", "committed"} => row[s].status = AbsentStatus
  /\ \A p \in Procs :
       /\ proc[p].pc \in Found => row[proc[p].swap].status # AbsentStatus
       /\ proc[p].pc \in Writing => proc[p].mem.status # AbsentStatus

\* Where handler p, at one of these points, may be after a step.
GoesOn(p) ==
  \/ proc'[p].pc \in {"idle", "done", "failed"}
  \/ /\ proc'[p].pc \in Found /\ proc'[p].swap = proc[p].swap
     /\ proc'[p].pc \in Writing => proc'[p].mem.status # AbsentStatus

\* It keeps Stored by writing nothing, or what it holds when it may write.
LEMMA StoredKept ==
  ASSUME Typed, Stored, NEW p \in Procs, proc[p].pc \in Found, Others(p), GoesOn(p),
         \/ row' = row
         \/ /\ proc[p].pc \in Writing
            /\ row' = [row EXCEPT ![proc[p].swap] = proc[p].mem],
         \A s \in todo' : s \in todo
  PROVE  Stored'
<1>0. proc[p].swap \in Swaps
  BY DEF Typed, WorksOnSwap, Found
<1>1. \A s \in Swaps : row[s].status # AbsentStatus => row'[s].status # AbsentStatus
  BY <1>0 DEF Stored, Typed, TypeOK
<1>2. \A s \in Swaps : row[s].status = AbsentStatus => row'[s].status = AbsentStatus
  BY <1>0 DEF Stored, Typed, TypeOK
<1>3. ASSUME NEW s \in Swaps
      PROVE  /\ s \in todo' => row'[s].status # AbsentStatus
             /\ proc'[s].pc \in {"quoted", "committed"} => row'[s].status = AbsentStatus
  <2>1. s = p => proc'[s].pc \notin {"quoted", "committed"}
    BY DEF GoesOn, Found
  <2>2. s # p => proc'[s] = proc[s]
    BY DEF Others, Procs
  <2>. QED BY <1>1, <1>2, <2>1, <2>2 DEF Stored
<1>4. ASSUME NEW q \in Procs
      PROVE  /\ proc'[q].pc \in Found => row'[proc'[q].swap].status # AbsentStatus
             /\ proc'[q].pc \in Writing => proc'[q].mem.status # AbsentStatus
  <2>1. CASE q = p
    BY <1>0, <1>1, <2>1 DEF Stored, GoesOn, Found, Writing
  <2>2. CASE q # p
    <3>1. proc'[q] = proc[q]
      BY <2>2 DEF Others
    <3>2. proc[q].pc \in Found => proc[q].swap \in Swaps
      BY DEF Typed, WorksOnSwap, Found
    <3>. QED BY <1>1, <3>1, <3>2 DEF Stored
  <2>. QED BY <2>1, <2>2
<1>. QED BY <1>3, <1>4 DEF Stored

\* How a handler gets there by one of its three updates of proc.
LEMMA GoesOnBy ==
  ASSUME Typed, NEW p \in Procs, NEW pc \in Found, NEW mem,
         \/ Enter(p, pc) /\ pc \notin Writing
         \/ EnterWith(p, pc, mem) /\ (pc \in Writing => mem.status # AbsentStatus)
         \/ Finish(p)
  PROVE  Others(p) /\ GoesOn(p)
BY DEF Enter, EnterWith, Finish, Idle, Others, GoesOn, Typed, TypeOK, Handler

\* Every step keeps it.
LEMMA StoredStep == Typed /\ Typed' /\ AllGood /\ Born /\ Stored /\ [Next]_vars => Stored'
<1> SUFFICES ASSUME Typed, Typed', AllGood, Born, Stored, [Next]_vars PROVE Stored'
  OBVIOUS
<1> DEFINE m == proc[Monitor]
<1>0. /\ Monitor \in Procs /\ Monitor \notin Swaps
      /\ \A s \in Swaps : s \in Procs /\ (proc[s].pc # "idle" => proc[s].swap = s)
      /\ \A p \in Clients \cup {Monitor} : p \in Procs /\ p \notin Swaps
      /\ \A p \in Procs : proc[p].pc # "idle" => proc[p].swap \in Swaps
  BY SwapsAssumption DEF Procs, Typed, WorksOnSwap
<1>1. ASSUME proc' = proc, row' = row, \A s \in todo' : s \in todo \/ row[s].status # AbsentStatus
      PROVE  Stored'
  BY <1>1 DEF Stored
<1>2. ASSUME External \/ BeginIteration \/ IdleIteration \/ AutoStop PROVE Stored'
  BY <1>1, <1>2 DEF External, Tick, AtomiqStep, Forget, BeginIteration, IdleIteration, AutoStop,
                    ActiveSwaps
<1>3. ASSUME NEW s \in Swaps, Quote(s) PROVE Stored'
  <2>1. /\ row[s].status = AbsentStatus /\ proc'[s].pc = "quoted" /\ row' = row /\ todo' = todo
        /\ \A q \in Procs : q # s => proc'[q] = proc[q]
    BY <1>0, <1>3 DEF Quote, Born, Typed, TypeOK
  <2>2. "quoted" \notin Found /\ "quoted" \notin Writing
    BY DEF Found, Writing
  <2>. QED BY <1>0, <2>1, <2>2 DEF Stored
<1>4. ASSUME NEW s \in Swaps, CommitOnChain(s) PROVE Stored'
  <2>1. /\ proc[s].pc = "quoted" /\ proc'[s].pc = "committed" /\ row' = row /\ todo' = todo
        /\ \A q \in Procs : q # s => proc'[q] = proc[q]
    BY <1>0, <1>4 DEF CommitOnChain, Enter, Typed, TypeOK, Handler
  <2>2. "committed" \notin Found /\ "committed" \notin Writing
    BY DEF Found, Writing
  <2>. QED BY <1>0, <2>1, <2>2 DEF Stored
<1>5. ASSUME NEW s \in Swaps, SaveNew(s) PROVE Stored'
  <2>1. /\ proc[s].swap = s /\ todo' = todo
        /\ proc'[s].pc \in {"saved", "stored"} /\ proc'[s].swap = s
        /\ \A q \in Procs : q # s => proc'[q] = proc[q]
    BY <1>0, <1>5 DEF SaveNew, Enter, Typed, TypeOK, Handler
  <2>2. /\ row'[s].status # AbsentStatus
        /\ \A t \in Swaps : t # s => row'[t] = row[t]
    <3>1. CreatedRow(Direction[s]).status # AbsentStatus
      BY StatusesOf, SwapsAssumption
    <3>. QED BY <1>5, <3>1 DEF SaveNew, Typed, TypeOK
  <2>3. ASSUME NEW t \in Swaps
        PROVE  /\ t \in todo' => row'[t].status # AbsentStatus
               /\ proc'[t].pc \in {"quoted", "committed"} => row'[t].status = AbsentStatus
    BY <1>0, <2>1, <2>2 DEF Stored
  <2>4. ASSUME NEW q \in Procs
        PROVE  /\ proc'[q].pc \in Found => row'[proc'[q].swap].status # AbsentStatus
               /\ proc'[q].pc \in Writing => proc'[q].mem.status # AbsentStatus
    <3>1. CASE q = s
      BY <2>1, <2>2, <3>1 DEF Writing
    <3>2. CASE q # s
      <4>1. proc'[q] = proc[q] /\ (proc[q].pc \in Found => proc[q].swap \in Swaps)
        BY <1>0, <2>1, <3>2 DEF Found
      <4>. QED BY <2>2, <4>1 DEF Stored
    <3>. QED BY <3>1, <3>2
  <2>. QED BY <2>3, <2>4 DEF Stored
<1>6. ASSUME NEW s \in Swaps,
             FindCommitted(s) \/ GetDepositAddress(s) \/ SaveCompleted(s) \/ EnsureRunning(s)
      PROVE  Stored'
  <2>1. /\ proc[s].pc \in {"saved", "waiting", "addressed", "stored"} /\ todo' = todo
        /\ \/ row' = row
           \/ proc[s].pc = "addressed" /\ row' = [row EXCEPT ![proc[s].swap] = proc[s].mem]
    BY <1>0, <1>6 DEF FindCommitted, GetDepositAddress, SaveCompleted, EnsureRunning
  <2>2. Others(s) /\ GoesOn(s)
    <3>1. CASE FindCommitted(s)
      BY <1>0, <3>1, GoesOnBy DEF FindCommitted, Found, Writing
    <3>2. CASE GetDepositAddress(s)
      <4>1. WithDepositAddress(proc[s].mem).status # AbsentStatus
        BY <1>0 DEF WithDepositAddress, AbsentStatus, Typed, TypeOK, Handler, SwapRow
      <4>. QED BY <1>0, <3>2, <4>1, GoesOnBy DEF GetDepositAddress, Found
    <3>3. CASE SaveCompleted(s)
      BY <1>0, <3>3, GoesOnBy DEF SaveCompleted, Found, Writing
    <3>4. CASE EnsureRunning(s)
      BY <1>0, <3>4 DEF EnsureRunning, Enter, Others, GoesOn, Typed, TypeOK, Handler
    <3>. QED BY <1>6, <3>1, <3>2, <3>3, <3>4
  <2>. QED BY <1>0, <2>1, <2>2, StoredKept DEF Found, Writing
<1>7. ASSUME NEW s \in Swaps, CreationFails(s) PROVE Stored'
  <2>1. /\ row' = row /\ todo' = todo /\ proc'[s].pc = "failed"
        /\ \A q \in Procs : q # s => proc'[q] = proc[q]
    BY <1>0, <1>7 DEF CreationFails, Enter, Typed, TypeOK, Handler
  <2>2. "failed" \notin Found /\ "failed" \notin Writing
    BY DEF Found, Writing
  <2>. QED BY <1>0, <2>1, <2>2 DEF Stored
<1>8. ASSUME NEW p \in Clients \cup {Monitor}, NEW s \in Swaps, Read(p, s), row' = row,
             row[s].status # AbsentStatus, \A t \in todo' : t \in todo
      PROVE  Stored'
  <2>1. /\ proc'[p].pc = "asking" /\ proc'[p].swap = s
        /\ \A q \in Procs : q # p => proc'[q] = proc[q]
    BY <1>0, <1>8 DEF Read, Typed, TypeOK
  <2>2. "asking" \notin Writing
    BY DEF Writing
  <2>. QED BY <1>0, <1>8, <2>1, <2>2 DEF Stored
<1>9. ASSUME NEW c \in Clients, NEW s \in Swaps, StatusRequest(c, s) PROVE Stored'
  BY <1>8, <1>9 DEF StatusRequest
<1>10. ASSUME NEW s \in Swaps, ProcessActiveSwap(s) PROVE Stored'
  BY <1>1, <1>8, <1>10 DEF ProcessActiveSwap, Stored
<1>11. ASSUME NEW p \in Clients \cup {Monitor},
              Answer(p) \/ AnswerFails(p) \/ Save(p) \/ SaveFails(p)
       PROVE  Stored'
  <2>1. /\ p \in Procs /\ proc[p].pc \in {"asking", "saving"} /\ todo' = todo
        /\ \/ row' = row
           \/ proc[p].pc = "saving" /\ row' = [row EXCEPT ![proc[p].swap] = proc[p].mem]
    BY <1>0, <1>11 DEF Answer, AnswerFails, Save, SaveFails
  <2>2. ASSUME NEW mem, Synced(p, mem) PROVE Others(p) /\ GoesOn(p)
    BY <2>1, <2>2, GoesOnBy DEF Synced, Found, Writing
  <2>3. Others(p) /\ GoesOn(p)
    <3>1. CASE EnterWith(p, "saving", MarkAs(proc[p].mem, SyncedStatus(proc[p].swap)))
               /\ SyncedStatus(proc[p].swap) # NoStatus
      <4>1. MarkAs(proc[p].mem, SyncedStatus(proc[p].swap)).status # AbsentStatus
        <5>1. proc[p].swap \in Swaps /\ proc[p].mem \in SwapRow(Time)
          BY <1>0, <2>1 DEF Typed, TypeOK, Handler
        <5>2. SyncedStatus(proc[p].swap) \in SwapStatus
          BY <3>1, <5>1, SyncedType DEF Typed
        <5>. QED BY <5>1, <5>2 DEF MarkAs, SwapRow, SwapStatus, AbsentStatus
      <4>. QED BY <2>1, <3>1, <4>1, GoesOnBy DEF Found
    <3>. QED BY <1>11, <2>2, <3>1 DEF Answer, AnswerFails, Save, SaveFails
  <2>. QED BY <2>1, <2>3, StoredKept DEF Found, Writing
<1>12. ASSUME \/ Decide \/ SubmitClaim \/ ClaimReturns \/ ClaimThrows
              \/ FindClaimed \/ SaveClaimAttempt \/ RecordFails
       PROVE  Stored'
  <2>1. /\ m.pc \in {"synced", "claiming", "confirming", "recording", "recorded"}
        /\ todo' = todo
        /\ row' = row \/ (m.pc = "recorded" /\ row' = [row EXCEPT ![m.swap] = m.mem])
    BY <1>12 DEF Decide, SubmitClaim, ClaimReturns, ClaimThrows, FindClaimed, SaveClaimAttempt,
                 RecordFails
  <2>2. m.swap \in Swaps /\ row[m.swap].status # AbsentStatus /\ row[m.swap] \in SwapRow(Time)
    BY <1>0, <2>1 DEF Stored, Found, Typed, TypeOK
  <2>3. \/ Finish(Monitor)
        \/ \E pc \in {"claiming", "confirming", "recording"} : Enter(Monitor, pc)
        \/ EnterWith(Monitor, "recorded", RecordClaimAttempt(row[m.swap], now))
    BY <1>12 DEF Decide, SubmitClaim, ClaimReturns, ClaimThrows, FindClaimed, SaveClaimAttempt,
                 RecordFails
  <2>4. RecordClaimAttempt(row[m.swap], now).status # AbsentStatus
    BY <2>2 DEF RecordClaimAttempt, SwapRow
  <2>5. Others(Monitor) /\ GoesOn(Monitor)
    BY <1>0, <2>3, <2>4, GoesOnBy DEF Found, Writing
  <2>. QED BY <1>0, <2>1, <2>5, StoredKept DEF Found, Writing
<1>13. ASSUME Crash PROVE Stored'
  <2>1. row' = row /\ todo' = {}
    BY <1>13 DEF Crash
  <2>2. \A q \in Procs : proc'[q].pc \in {"idle", "failed"} \/ proc'[q] = proc[q]
    BY <1>13 DEF Crash, Idle, Typed, TypeOK, Handler
  <2>3. {"idle", "failed"} \cap Found = {} /\ {"idle", "failed"} \cap Writing = {}
    BY DEF Found, Writing
  <2>. QED BY <1>0, <2>1, <2>2, <2>3 DEF Stored
<1>14. CASE UNCHANGED vars
  BY <1>1, <1>14 DEF vars
<1>. QED
  BY <1>2, <1>3, <1>4, <1>5, <1>6, <1>7, <1>9, <1>10, <1>11, <1>12, <1>13, <1>14
  DEF Next, Creation, FetchStatus, Polling, Monitoring

\* What the lifecycle is shown.
Statuses == [s \in Swaps |-> row[s].status]
Ends == [s \in Swaps |-> EndOf(s)]

\* Writing a good entity that has a status over a row is a move.
LEMMA WriteIsMove ==
  ASSUME Typed, NEW x \in Swaps, NEW e, GoodNow(x, e), e.status # AbsentStatus,
         row[x].status # AbsentStatus, row' = [row EXCEPT ![x] = e],
         UNCHANGED <<sdk, forgotten>>
  PROVE  Lifecycle!Next
<1>1. Statuses' = [Statuses EXCEPT ![x] = e.status] /\ Ends' = Ends
  BY DEF Statuses, Ends, EndOf, Typed, TypeOK
<1>2. e.status \in Lifecycle!MayHold(x)
  <2>1. e.status \in Lifecycle!Statuses(Direction[x])
    BY DEF GoodNow, Good
  <2>2. CASE ~Terminal(x, e)
    BY <2>1, <2>2, SameEntity DEF Lifecycle!MayHold, Lifecycle!Final, Terminal
  <2>3. CASE Terminal(x, e) /\ e.status = "lost" /\ forgotten[x]
    BY <2>3 DEF Lifecycle!MayHold
  <2>4. CASE Terminal(x, e) /\ e.status = TranscribedStatus(sdk[x], Direction[x])
    <3>1. EndOf(x) = e.status /\ e.status # NoStatus
      BY <2>4 DEF EndOf, Terminal, IsTerminal, TerminalStatus, NoStatus
    <3>. QED BY <3>1, SameEntity DEF Lifecycle!MayHold
  <2>. QED BY <2>2, <2>3, <2>4 DEF GoodNow, Good
<1>3. Lifecycle!Move(x)
  BY <1>1, <1>2, SameEntity DEF Lifecycle!Move, Statuses, Ends
<1>. QED BY <1>3 DEF Lifecycle!Next

\* Every step of SwapSync is one of SwapLifecycle, or a stutter.
LEMMA LifecycleStep ==
  Typed /\ Typed' /\ AllGood /\ Born /\ Stored /\ [Next]_vars
    => [Lifecycle!Next]_<<Statuses, Ends, forgotten>>
<1> SUFFICES ASSUME Typed, Typed', AllGood, Born, Stored, [Next]_vars
             PROVE  [Lifecycle!Next]_<<Statuses, Ends, forgotten>>
  OBVIOUS
<1>1. CASE row' = row /\ sdk' = sdk /\ forgotten' = forgotten
  BY <1>1 DEF Statuses, Ends, EndOf
<1>2. ASSUME NEW s \in Swaps, AtomiqStep(s)
      PROVE  [Lifecycle!Next]_<<Statuses, Ends, forgotten>>
  <2>1. /\ row' = row /\ forgotten' = forgotten /\ \A t \in Swaps : t # s => sdk'[t] = sdk[t]
        /\ <<sdk[s], sdk'[s]>> \in AtomiqSteps(Direction[s])
        /\ sdk[s] \in AtomiqState /\ sdk'[s] \in AtomiqState /\ Direction[s] \in Directions
    BY <1>2, SwapsAssumption DEF AtomiqStep, Typed, TypeOK
  <2>2. Statuses' = Statuses /\ Ends' = [Ends EXCEPT ![s] = EndOf(s)']
    BY <2>1 DEF Statuses, Ends, EndOf
  <2>3. CASE EndOf(s) # NoStatus
    <3>1. EndOf(s)' = EndOf(s)
      BY <2>1, <2>3, TerminalIsFinal DEF EndOf
    <3>. QED BY <2>1, <2>2, <3>1 DEF Ends
  <2>4. CASE EndOf(s)' = NoStatus /\ EndOf(s) = NoStatus
    BY <2>1, <2>2, <2>4 DEF Ends
  <2>5. CASE EndOf(s)' # NoStatus /\ EndOf(s) = NoStatus
    <3>1. /\ EndOf(s)' \in Lifecycle!Statuses(Direction[s])
          /\ IsTerminal(EndOf(s)', Direction[s]) /\ EndOf(s)' # "lost"
      BY <2>1, <2>5, StatusesOf, TranscribedType DEF EndOf
    <3>2. EndOf(s)' \in Lifecycle!Final(s) \ {"lost"}
      BY <3>1, SameEntity DEF Lifecycle!Final
    <3>3. Lifecycle!End(s)
      BY <2>1, <2>2, <2>5, <3>2, SameEntity DEF Lifecycle!End, Statuses, Ends
    <3>. QED BY <3>3 DEF Lifecycle!Next
  <2>. QED BY <2>3, <2>4, <2>5
<1>3. ASSUME NEW s \in Swaps, Forget(s)
      PROVE  [Lifecycle!Next]_<<Statuses, Ends, forgotten>>
  BY <1>3 DEF Forget, Lifecycle!Next, Lifecycle!Forget, EndOf
<1>4. ASSUME NEW s \in Swaps, SaveNew(s)
      PROVE  [Lifecycle!Next]_<<Statuses, Ends, forgotten>>
  <2>1. /\ row' = [row EXCEPT ![s] = CreatedRow(Direction[s])] /\ row[s].status = AbsentStatus
        /\ sdk' = sdk /\ forgotten' = forgotten
    BY <1>4 DEF SaveNew, Stored
  <2>2. /\ Statuses' = [Statuses EXCEPT ![s] = CreatedRow(Direction[s]).status]
        /\ Ends' = Ends
    BY <2>1 DEF Statuses, Ends, EndOf, Typed, TypeOK
  <2>3. Lifecycle!Open(s)
    BY <2>1, <2>2, SameEntity DEF Lifecycle!Open, Statuses, Ends
  <2>. QED BY <2>3 DEF Lifecycle!Next
<1>5. ASSUME NEW p \in Procs, proc[p].pc \in Writing,
             row' = [row EXCEPT ![proc[p].swap] = proc[p].mem], UNCHANGED <<sdk, forgotten>>
      PROVE  [Lifecycle!Next]_<<Statuses, Ends, forgotten>>
  <2>1. proc[p].swap \in Swaps /\ proc[p].pc \in Found
    BY <1>5 DEF Typed, WorksOnSwap, Writing, Found
  <2>2. /\ GoodNow(proc[p].swap, proc[p].mem) /\ proc[p].mem.status # AbsentStatus
        /\ row[proc[p].swap].status # AbsentStatus
    BY <1>5, <2>1 DEF AllGood, Stored
  <2>. QED BY <1>5, <2>1, <2>2, WriteIsMove
<1>6. ASSUME NEW s \in Swaps, SaveCompleted(s)
      PROVE  [Lifecycle!Next]_<<Statuses, Ends, forgotten>>
  BY <1>5, <1>6 DEF SaveCompleted, Typed, WorksOnSwap, Procs, Writing
<1>7. ASSUME NEW p \in Clients \cup {Monitor}, Save(p)
      PROVE  [Lifecycle!Next]_<<Statuses, Ends, forgotten>>
  BY <1>5, <1>7 DEF Save, Procs, Writing
<1>8. ASSUME SaveClaimAttempt PROVE [Lifecycle!Next]_<<Statuses, Ends, forgotten>>
  BY <1>5, <1>8 DEF SaveClaimAttempt, Procs, Writing
<1>9. \/ row' = row /\ sdk' = sdk /\ forgotten' = forgotten
      \/ \E s \in Swaps : AtomiqStep(s) \/ Forget(s) \/ SaveNew(s) \/ SaveCompleted(s)
      \/ \E p \in Clients \cup {Monitor} : Save(p)
      \/ SaveClaimAttempt
  BY DEF Next, vars, External, Tick, Creation, Quote, CommitOnChain, FindCommitted,
         GetDepositAddress, EnsureRunning, CreationFails, Polling, StatusRequest, FetchStatus,
         Answer, AnswerFails, SaveFails, Monitoring, IdleIteration, AutoStop, BeginIteration,
         ProcessActiveSwap, Decide, SubmitClaim, ClaimReturns, ClaimThrows, FindClaimed,
         RecordFails, Crash
<1>. QED BY <1>1, <1>2, <1>3, <1>4, <1>6, <1>7, <1>8, <1>9

\* The rows of SwapSync implement the lifecycle that the front end relies on,
\* whatever the monitor, the clients, the creating requests and the restarts
\* do: the first status is the one the swap starts with, and a final one is
\* how Atomiq has ended the swap, or "lost" when it has forgotten it.
THEOREM RowsFollowLifecycle == Spec => LifecycleSpec
<1>1. Init => Lifecycle!Init
  <2> SUFFICES ASSUME Init PROVE Lifecycle!Init
    OBVIOUS
  <2>1. Statuses = [s \in Swaps |-> AbsentStatus] /\ forgotten = [s \in Swaps |-> FALSE]
    BY DEF Init, Statuses, AbsentRow
  <2>2. ASSUME NEW s \in Swaps PROVE EndOf(s) = NoStatus
    <3>1. Direction[s] \in Directions
      BY SwapsAssumption
    <3>2. TranscribedStatus(0, Direction[s]) = NoStatus
      BY <3>1, LightningTable, BitcoinTable, ReverseTable DEF Directions, ForwardDirections
    <3>. QED BY <3>2 DEF Init, EndOf
  <2>. QED BY <2>1, <2>2, SameEntity DEF Lifecycle!Init, Statuses
<1>2. Init => Born /\ Stored
  BY SwapsAssumption
     DEF Init, Born, Stored, Idle, AbsentRow, Procs, Found, Writing
<1>3. Typed /\ AllGood /\ Born /\ Stored /\ [Next]_vars
        => Typed' /\ AllGood' /\ Born' /\ Stored'
  BY TypedStep, GoodStep, GoodPreserved, BornStep, StoredStep
<1>4. Typed /\ Typed' /\ AllGood /\ Born /\ Stored /\ [Next]_vars
        => [Lifecycle!Next]_<<Statuses, Ends, forgotten>>
  BY LifecycleStep
<1>. QED
  BY <1>1, <1>2, <1>3, <1>4, TypedInit, GoodInit, PTL
  DEF Spec, LifecycleSpec, Lifecycle!Spec, Statuses, Ends
=============================================================================
