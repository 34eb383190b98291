---------------------------- MODULE AtomiqGateway ---------------------------
(***************************************************************************)
(* The gateway every handler of the API shares to reach Atomiq.  It builds *)
(* the SDK's swapper when the first operation needs it, creates swaps,     *)
(* waits for commits, reads statuses, claims forward swaps for the user    *)
(* and sends the bounty of the claim back, and it tells the registry of    *)
(* healths what each answer says of Atomiq.                                *)
(*                                                                         *)
(* Each caller is one operation under way; what lies between two awaits is *)
(* one step.  The SDK keeps its swaps in the database, which survives the  *)
(* restarts of the process; the swapper does not.                          *)
(***************************************************************************)
EXTENDS Naturals, FiniteSets, HealthRegistry

CONSTANTS
  Callers,     \* operations of requests
  Monitor,     \* the monitor's operation, the only one that claims
  Swaps,
  WithBounty,  \* swaps whose claimer gets a bounty
  NoSwap

GatewayAssumption ==
  /\ Monitor \notin Callers /\ NoSwap \notin Swaps /\ WithBounty \subseteq Swaps
  /\ IsFiniteSet(Callers)

Ops == Callers \cup {Monitor}

\* One swapper more than the operations that may each be building one.
Instances == 1 .. Cardinality(Ops) + 1

VARIABLES
  swapper,        \* the swapper in use, 0 before the first
  made,           \* what became of each swapper that was built
  isInitialized,
  op,             \* the operations under way
  saved,          \* the table atomiq_swaps
  answered,       \* swaps whose creation was answered, which have a row
  escrow,         \* the escrow of each swap on Starknet
  claimKnown,     \* swaps the SDK has saved as claimed
  refunds,        \* bounties sent to the user of each swap
  health,         \* the registry's record of Atomiq
  unverified      \* history: claims whose sender could not be read

sdk == <<swapper, made, isInitialized>>
store == <<saved, answered>>
chain == <<escrow, refunds, unverified>>
vars == <<swapper, made, isInitialized, op, saved, answered, escrow, claimKnown,
          refunds, health, unverified>>

Creations ==
  {"lightning_to_starknet", "starknet_to_lightning", "bitcoin_to_starknet", "starknet_to_bitcoin"}

Kind == Creations \cup {"complete", "status", "limits", "claim"}

Idle == [pc |-> "idle", kind |-> "none", swap |-> NoSwap, mine |-> 0]

TypeOK ==
  /\ swapper \in Instances \cup {0}
  /\ made \in [Instances -> {"none", "initialising", "ready", "failed"}]
  /\ isInitialized \in BOOLEAN
  /\ op \in [Ops -> [pc : {"idle", "ensuring", "initialising", "calling", "quoted", "committing",
                           "claiming", "submitted", "verifying", "refunding", "diagnosing"},
                     kind : Kind \cup {"none"}, swap : Swaps \cup {NoSwap},
                     mine : Instances \cup {0}]]
  /\ answered \subseteq saved /\ saved \subseteq Swaps
  /\ escrow \in [Swaps -> {"none", "committed", "backend", "watchtower"}]
  /\ claimKnown \subseteq Swaps /\ refunds \in [Swaps -> Nat]
  /\ health \in ComponentHealth({0})
  /\ unverified \subseteq Swaps

Init ==
  /\ swapper = 0 /\ made = [i \in Instances |-> "none"] /\ isInitialized = FALSE
  /\ op = [o \in Ops |-> Idle]
  /\ saved = {} /\ answered = {}
  /\ escrow = [s \in Swaps |-> "none"] /\ claimKnown = {}
  /\ refunds = [s \in Swaps |-> 0]
  /\ health = Declared
  /\ unverified = {}

Goes(o, pc) == op' = [op EXCEPT ![o].pc = pc]
Ends(o) == op' = [op EXCEPT ![o] = Idle]

MarkHealthy == health' = ReportHealthy(health)

\* Only kinds that say the network or the proxy failed flip the health.
HandleAtomiqFailure(kind) ==
  health' = IF IsInfraFailure(kind) THEN ReportDown(health, 0) ELSE health

\* sanitizeAtomiqError: an HTML body is Cloudflare's or a proxy's page,
\* words of the message tell timeouts and the network, the rest is unknown.
SdkErrors == {"cloudflare_tunnel", "html_response", "network", "timeout", "unknown"}

\* What each creation takes for an answer of Atomiq about the request: its
\* catch block becomes SwapAmountError, or LightningInvoiceExpiredError.
LightningReceiveAnswers == {"out of bounds", "fee too high"}
LightningPayAnswers     == {"expired", "out of bounds", "fee too high"}
BitcoinReceiveAnswers   == {"out of bounds", "fee too high"}
BitcoinPayAnswers       == {"out of bounds", "fee too high"}

Functional(kind) ==
  CASE kind = "lightning_to_starknet" -> LightningReceiveAnswers
    [] kind = "starknet_to_lightning" -> LightningPayAnswers
    [] kind = "bitcoin_to_starknet"   -> BitcoinReceiveAnswers
    [] kind = "starknet_to_bitcoin"   -> BitcoinPayAnswers
    [] OTHER -> {}

\* The creations that extract and validate commit calls after their quote; a
\* Lightning receive is answered with its invoice.
ExtractCommitCalls == Creations \ {"lightning_to_starknet"}

-----------------------------------------------------------------------------
(* The storage of the SDK, a table of the database.                        *)

\* CREATE TABLE IF NOT EXISTS.
InitStorage(table) == table

\* An insertion, or an update on conflict.
Save(table, s) == table \cup {s}

\* getSwapById is a query by id; null when there is no row.
InStorage(table, s) == s \in table

-----------------------------------------------------------------------------
(* Initialization.                                                         *)

\* The status of a swap is asked of its row, a completion of a swap whose
\* commit was sent, a claim of a swap that is paid.
Begin(o, kind, s) ==
  /\ op[o].pc = "idle"
  /\ o = Monitor <=> kind \in {"claim", "status"}
  /\ kind \in Creations => s \notin saved
  /\ kind \in {"status", "complete"} => s \in answered
  /\ kind = "claim" => s \in answered /\ escrow[s] # "none"
  /\ kind = "limits" <=> s = NoSwap
  /\ op' = [op EXCEPT ![o] = [Idle EXCEPT !.pc = "ensuring", !.kind = kind, !.swap = s]]
  /\ UNCHANGED <<sdk, store, escrow, claimKnown, refunds, health, unverified>>

\* ensureInitialized returns at once.
EnsureDone(o) ==
  /\ op[o].pc = "ensuring" /\ isInitialized
  /\ Goes(o, "calling")
  /\ UNCHANGED <<sdk, store, escrow, claimKnown, refunds, health, unverified>>

Free(i) == i # swapper /\ \A o \in Ops : op[o].mine # i

\* initialize makes a swapper the gateway's own before it awaits its init.
BeginInitialize(o) ==
  /\ op[o].pc = "ensuring" /\ ~isInitialized
  /\ \E i \in Instances :
       /\ Free(i) /\ \A j \in 1 .. i - 1 : ~Free(j)
       /\ swapper' = i
       /\ made' = [j \in Instances |-> IF j = i THEN "initialising"
                                       ELSE IF Free(j) THEN "none" ELSE made[j]]
       /\ op' = [op EXCEPT ![o].pc = "initialising", ![o].mine = i]
  /\ UNCHANGED <<isInitialized, store, escrow, claimKnown, refunds, health, unverified>>

\* swapper.init has created the tables that were missing and read them.
Initialized(o) ==
  /\ op[o].pc = "initialising"
  /\ made' = [made EXCEPT ![op[o].mine] = "ready"] /\ isInitialized' = TRUE
  /\ saved' = InitStorage(saved)
  /\ op' = [op EXCEPT ![o].pc = "calling", ![o].mine = 0]
  /\ MarkHealthy
  /\ UNCHANGED <<swapper, answered, escrow, claimKnown, refunds, unverified>>

\* The operation ends with ExternalServiceError; the swapper stays.
InitializeFails(o, kind) ==
  /\ op[o].pc = "initialising"
  /\ made' = [made EXCEPT ![op[o].mine] = "failed"]
  /\ HandleAtomiqFailure(kind)
  /\ Ends(o)
  /\ UNCHANGED <<swapper, isInitialized, store, escrow, claimKnown, refunds, unverified>>

-----------------------------------------------------------------------------
(* Operations on an initialized gateway.                                   *)

Usable(o) == op[o].pc = "calling" /\ made[swapper] = "ready"

\* The storage and the intermediaries of a swapper that is not initialized
\* throw: no known kind of error.
CallsUnready(o) ==
  /\ op[o].pc = "calling" /\ made[swapper] # "ready"
  /\ HandleAtomiqFailure("unknown")
  /\ Ends(o)
  /\ UNCHANGED <<sdk, store, escrow, claimKnown, refunds, unverified>>

\* The SDK has its quote and saves the swap, not committed yet.
Quoted(o) ==
  /\ Usable(o) /\ op[o].kind \in Creations
  /\ saved' = Save(saved, op[o].swap) /\ answered' = answered
  /\ Goes(o, "quoted")
  /\ UNCHANGED <<sdk, escrow, claimKnown, refunds, health, unverified>>

\* The creation is answered, after its commit calls if it has any.
Created(o) ==
  /\ op[o].pc = "quoted"
  /\ answered' = answered \cup {op[o].swap} /\ saved' = saved
  /\ MarkHealthy /\ Ends(o)
  /\ UNCHANGED <<sdk, escrow, claimKnown, refunds, unverified>>

\* SwapAmountError or LightningInvoiceExpiredError: Atomiq has answered.
Rejected(o, reason) ==
  /\ Usable(o) /\ reason \in Functional(op[o].kind)
  /\ MarkHealthy /\ Ends(o)
  /\ UNCHANGED <<sdk, store, escrow, claimKnown, refunds, unverified>>

\* A quote, a commit, a read or a claim fails.  The limits are read from
\* memory; nothing is reported of an error there.
CallFails(o, kind) ==
  /\ \/ Usable(o) /\ op[o].kind \notin {"limits", "claim"}
     \/ op[o].pc = "quoted" /\ op[o].kind \in ExtractCommitCalls
  /\ HandleAtomiqFailure(kind) /\ Ends(o)
  /\ UNCHANGED <<sdk, store, escrow, claimKnown, refunds, unverified>>

GetLimits(o) ==
  /\ Usable(o) /\ op[o].kind = "limits"
  /\ Ends(o)
  /\ UNCHANGED <<sdk, store, escrow, claimKnown, refunds, health, unverified>>

\* The state is read whether or not _sync could refresh it.
GetSwapStatus(o) ==
  /\ Usable(o) /\ op[o].kind = "status" /\ InStorage(saved, op[o].swap)
  /\ MarkHealthy /\ Ends(o)
  /\ UNCHANGED <<sdk, store, escrow, claimKnown, refunds, unverified>>

\* The caller is told the swap has expired and will mark it as lost.
StatusNotFound(o) ==
  /\ Usable(o) /\ op[o].kind = "status" /\ ~InStorage(saved, op[o].swap)
  /\ Ends(o)
  /\ UNCHANGED <<sdk, store, escrow, claimKnown, refunds, health, unverified>>

WaitTillCommited(o) ==
  /\ Usable(o) /\ op[o].kind = "complete" /\ InStorage(saved, op[o].swap)
  /\ Goes(o, "committing")
  /\ UNCHANGED <<sdk, store, escrow, claimKnown, refunds, health, unverified>>

Commited(o) ==
  /\ op[o].pc = "committing" /\ escrow[op[o].swap] # "none"
  /\ MarkHealthy /\ Ends(o)
  /\ UNCHANGED <<sdk, store, escrow, claimKnown, refunds, unverified>>

\* Faulty: the wait has no deadline.
WaitsForCommit(o) == Commited(o)

\* After 90 s the gateway aborts the wait.  The message of the abort makes
\* it a timeout, whatever kept the commit away.
CommitAborted(o) ==
  /\ op[o].pc = "committing"
  /\ HandleAtomiqFailure("timeout") /\ Ends(o)
  /\ UNCHANGED <<sdk, store, escrow, claimKnown, refunds, unverified>>

-----------------------------------------------------------------------------
(* Claiming a forward swap and refunding the bounty.                       *)

StartClaim(o) ==
  /\ Usable(o) /\ op[o].kind = "claim" /\ InStorage(saved, op[o].swap)
  /\ Goes(o, "claiming")
  /\ UNCHANGED <<sdk, store, escrow, claimKnown, refunds, health, unverified>>

\* The swap is read outside the try: a failure is not reported.
ClaimNotRead(o) ==
  /\ Usable(o) /\ op[o].kind = "claim"
  /\ Ends(o)
  /\ UNCHANGED <<sdk, store, escrow, claimKnown, refunds, health, unverified>>

\* Faulty: a swap that is already claimed is taken for one just claimed.
ClaimedAgain(o) ==
  /\ op[o].pc = "claiming" /\ escrow[op[o].swap] \in {"backend", "watchtower"}
  /\ claimKnown' = claimKnown \cup {op[o].swap}
  /\ MarkHealthy /\ Goes(o, "verifying")
  /\ UNCHANGED <<sdk, store, escrow, refunds, unverified>>

\* claim throws and the state of the swap is 3 or more, as the SDK had it
\* saved or has just found out.
AlreadyClaimed(o) ==
  /\ op[o].pc = "claiming" /\ escrow[op[o].swap] \in {"backend", "watchtower"}
  /\ claimKnown' = claimKnown \cup {op[o].swap}
  /\ MarkHealthy /\ Goes(o, "diagnosing")
  /\ UNCHANGED <<sdk, store, escrow, refunds, unverified>>

\* claim throws and the state is less than 3: before the transaction was
\* sent, or while its confirmation was awaited.
ClaimFails(o, kind) ==
  /\ op[o].pc \in {"claiming", "submitted"} /\ op[o].swap \notin claimKnown
  /\ HandleAtomiqFailure(kind) /\ Ends(o)
  /\ UNCHANGED <<sdk, store, escrow, claimKnown, refunds, unverified>>

\* The claim pays the user and gives the bounty to its sender.
SubmitClaim(o) ==
  /\ op[o].pc = "claiming" /\ escrow[op[o].swap] = "committed"
  /\ escrow' = [escrow EXCEPT ![op[o].swap] = "backend"]
  /\ Goes(o, "submitted")
  /\ UNCHANGED <<sdk, store, claimKnown, refunds, health, unverified>>

\* claim returns: with the hash of our transaction, or, when ours could not
\* be sent since the swap is claimed, with that of the claim there is.
ClaimReturns(o) ==
  LET s == op[o].swap IN
  /\ \/ op[o].pc = "submitted"
     \/ op[o].pc = "claiming" /\ s \notin claimKnown /\ escrow[s] \in {"backend", "watchtower"}
  /\ claimKnown' = claimKnown \cup {s}
  /\ MarkHealthy /\ Goes(o, "verifying")
  /\ UNCHANGED <<sdk, store, escrow, refunds, unverified>>

\* The sender of the transaction decides.  No bounty, nothing to refund.
IsClaimTxFromBackend(o) ==
  LET s == op[o].swap IN
  /\ op[o].pc = "verifying"
  /\ IF escrow[s] = "backend"
     THEN IF s \in WithBounty THEN Goes(o, "refunding") ELSE Ends(o)
     ELSE Goes(o, "diagnosing")
  /\ UNCHANGED <<sdk, store, escrow, claimKnown, refunds, health, unverified>>

\* The transaction cannot be read or names no sender: assumed ours.
SenderUnknown(o) ==
  LET s == op[o].swap IN
  /\ op[o].pc = "verifying"
  /\ unverified' = unverified \cup {s}
  /\ IF s \in WithBounty THEN Goes(o, "refunding") ELSE Ends(o)
  /\ UNCHANGED <<sdk, store, escrow, claimKnown, refunds, health>>

RefundBounty(o) ==
  /\ op[o].pc = "refunding"
  /\ refunds' = [refunds EXCEPT ![op[o].swap] = @ + 1]
  /\ Ends(o)
  /\ UNCHANGED <<sdk, store, escrow, claimKnown, health, unverified>>

\* Logged for a refund by hand, and never tried again.  The diagnosis only
\* logs too.
GiveUp(o) ==
  /\ op[o].pc \in {"refunding", "diagnosing"}
  /\ Ends(o)
  /\ UNCHANGED <<sdk, store, escrow, claimKnown, refunds, health, unverified>>

-----------------------------------------------------------------------------
(* The rest of the world.                                                  *)

\* The user, or the intermediary, commits; a watchtower may claim.
EscrowMoves(s) ==
  /\ \/ escrow[s] = "none" /\ s \in answered /\ escrow' = [escrow EXCEPT ![s] = "committed"]
     \/ escrow[s] = "committed" /\ escrow' = [escrow EXCEPT ![s] = "watchtower"]
  /\ UNCHANGED <<sdk, op, store, claimKnown, refunds, health, unverified>>

\* checkHealth at start-up reports by itself.
CheckHealth ==
  /\ MarkHealthy \/ \E kind \in SdkErrors : HandleAtomiqFailure(kind)
  /\ health' # health
  /\ UNCHANGED <<sdk, op, store, escrow, claimKnown, refunds, unverified>>

Restart ==
  /\ swapper' = 0 /\ made' = [i \in Instances |-> "none"] /\ isInitialized' = FALSE
  /\ op' = [o \in Ops |-> Idle]
  /\ health' = Declared
  /\ UNCHANGED <<store, escrow, claimKnown, refunds, unverified>>

\* What an operation does by itself, or an answer it is given.
Step(o) ==
  \/ EnsureDone(o) \/ BeginInitialize(o) \/ Initialized(o)
  \/ CallsUnready(o)
  \/ Quoted(o) \/ Created(o) \/ GetLimits(o) \/ GetSwapStatus(o) \/ StatusNotFound(o)
  \/ WaitTillCommited(o) \/ Commited(o) \/ CommitAborted(o)
  \/ StartClaim(o) \/ ClaimNotRead(o) \/ AlreadyClaimed(o) \/ SubmitClaim(o) \/ ClaimReturns(o)
  \/ IsClaimTxFromBackend(o) \/ SenderUnknown(o) \/ RefundBounty(o) \/ GiveUp(o)
  \/ \E kind \in SdkErrors : InitializeFails(o, kind) \/ CallFails(o, kind) \/ ClaimFails(o, kind)
  \/ \E reason \in Functional(op[o].kind) : Rejected(o, reason)

Next ==
  \/ \E o \in Ops, kind \in Kind, s \in Swaps \cup {NoSwap} : Begin(o, kind, s)
  \/ \E o \in Ops : Step(o)
  \/ \E s \in Swaps : EscrowMoves(s)
  \/ CheckHealth \/ Restart

Spec == Init /\ [][Next]_vars

\* The SDK answers or fails in the end, but for the wait for a commit.
Fairness == \A o \in Ops : WF_vars(Step(o))

FairSpec == Spec /\ Fairness

-----------------------------------------------------------------------------
(* Properties.                                                             *)

\* A bounty is refunded once at most, and one that the watchtower has kept
\* is not, unless the sender of the claim could not be read: the backend
\* pays no user twice however often a claim is tried again, after failures
\* of its confirmation and after restarts.
BountyRefundedOnce ==
  \A s \in Swaps :
    /\ refunds[s] <= (IF s \in WithBounty THEN 1 ELSE 0)
    /\ refunds[s] > 0 => s \in claimKnown /\ (escrow[s] = "backend" \/ s \in unverified)

\* No operation waits for ever, although commits may never come.
OperationsEnd == \A o \in Ops : op[o].pc # "idle" ~> op[o].pc = "idle"

=============================================================================
