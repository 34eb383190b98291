----------------------------- MODULE MCOutcomes -----------------------------
(***************************************************************************)
(* Four parts of the system in which somebody waits for an outcome, and    *)
(* which share no state: the operations of the Atomiq gateway, the tabs    *)
(* that poll a swap, the page that polls a deployment and the history that *)
(* is scrolled.  A run follows some of them, one in each behaviour; the    *)
(* others stay as they are, with nothing under way.                        *)
(***************************************************************************)
EXTENDS AtomiqStates

CONSTANTS Callers, Monitor, Swaps, WithBounty, NoSwap, NoOutage,
          Tabs, MAX_SWAPS, MAX_CONSECUTIVE_ERRORS,
          MaxCalls, MaxVisits,
          PAGE_SIZE, MaxIndexed, MaxReorgs, MaxRequests, Undefined,
          Parts     \* the parts that a run follows

\* Each swap is named by its direction.
MCDirection ==
  [s \in Swaps |->
     CASE s = "lightning" -> LightningToStarknet
       [] s = "bitcoin"   -> BitcoinToStarknet
       [] s = "reverse"   -> StarknetToBitcoin]

VARIABLES
  part,
  swapper, made, isInitialized, op, saved, answered, escrow, claimKnown, refunds, health,
  unverified,
  swapStatus, end, forgotten, age, disk, tab, told, misrouted,
  status, hash, waits, place, pollTimer, failed, call, visits,
  indexed, reorgs, transactions, hasMore, isLoadingMore, offset, isRefreshing, requests, watching

G == INSTANCE AtomiqGateway
T == INSTANCE SwapTracking WITH status <- swapStatus, Direction <- MCDirection
A == INSTANCE AccountSetup
H == INSTANCE TransactionHistory

ASSUME OutcomesAssumption ==
  G!GatewayAssumption /\ T!TrackingAssumption /\ A!SetupAssumption /\ H!HistoryAssumption

gateway == <<swapper, made, isInitialized, op, saved, answered, escrow, claimKnown, refunds,
             health, unverified>>
tracking == <<swapStatus, end, forgotten, age, disk, tab, told, misrouted>>
setup == <<status, hash, waits, place, pollTimer, failed, call, visits>>
history == <<indexed, reorgs, transactions, hasMore, isLoadingMore, offset, isRefreshing,
             requests, watching>>

outcomes == <<part, gateway, tracking, setup, history>>

OutcomesInit ==
  /\ part \in Parts
  /\ G!Init /\ T!TrackingInit
  /\ IF part = "setup" THEN A!Init ELSE A!Closed
  /\ IF part = "history" THEN H!Init ELSE H!Closed

FollowGateway ==
  part = "gateway" /\ G!Next /\ UNCHANGED <<part, tracking, setup, history>>
FollowTracking ==
  part = "tracking" /\ T!TrackingNext /\ UNCHANGED <<part, gateway, setup, history>>
FollowSetup ==
  part = "setup" /\ A!Next /\ UNCHANGED <<part, gateway, tracking, history>>
FollowHistory ==
  part = "history" /\ H!Next /\ UNCHANGED <<part, gateway, tracking, setup>>

OutcomesNext == FollowGateway \/ FollowTracking \/ FollowSetup \/ FollowHistory

\* Of a part that is not followed, no fair action is enabled.
OutcomesSpec ==
  OutcomesInit /\ [][OutcomesNext]_outcomes /\ G!Fairness /\ A!Fairness /\ H!Fairness
TrackingSpec == OutcomesInit /\ [][OutcomesNext]_outcomes /\ T!Fairness

-----------------------------------------------------------------------------
\* No bounty is refunded twice or to the wrong claim (AtomiqGateway).
BountyRefundedOnce == G!BountyRefundedOnce

\* No operation of the gateway waits for ever (AtomiqGateway).
OperationsEnd == G!OperationsEnd

\* What is shown as the end of a swap is true (SwapTracking).
FinalIsTrue == T!FinalIsTrue

\* The end of a swap is announced once (SwapTracking).
EndIsToldOnce == T!EndIsToldOnce

\* A swap that is polled to its end is shown ended (SwapTracking).
EndIsShown == T!EndIsShown

\* A user who waits for a deployment is told its outcome (AccountSetup).
OutcomeIsShown == A!OutcomeIsShown

\* Who scrolls the history gets to its end (TransactionHistory).
ScrollEnds == H!ScrollEnds
=============================================================================
