---------------------------- MODULE AtomiqStates ----------------------------
(***************************************************************************)
(* What the Atomiq SDK reports about a swap and how the backend reads it:  *)
(* the numeric states of the three SDK swap classes, their mapping to the  *)
(* flags of AtomiqSwapStatus (packages/atomiq, mapAtomiqStateToStatus) and *)
(* the status that SwapReader.syncWithAtomiq transcribes from those flags. *)
(* A flag record of seven booleans is the set of the flags that are true.  *)
(***************************************************************************)
EXTENDS Integers

LightningToStarknet == "lightning_to_starknet"
BitcoinToStarknet   == "bitcoin_to_starknet"
StarknetToLightning == "starknet_to_lightning"
StarknetToBitcoin   == "starknet_to_bitcoin"

ReverseDirections == {StarknetToLightning, StarknetToBitcoin}
ForwardDirections == {LightningToStarknet, BitcoinToStarknet}
Directions        == ForwardDirections \cup ReverseDirections

IsForwardSwap(d) == d \in ForwardDirections

AtomiqState == -4 .. 4

Flags == {"completed", "claimable", "paid", "refundable", "refunded",
          "failed", "expired"}

-----------------------------------------------------------------------------
(* mapAtomiqStateToStatus.                                                 *)

When(flag, condition) == IF condition THEN {flag} ELSE {}

MapLightningToStarknetNegative(state) ==
  When("expired", state = -3) \cup When("failed", state \notin {-2, -3})

\* Faulty: an expired address is final although the deposit may still come.
ExpiredAddressIsFailed(state) ==
  When("expired", state = -2) \cup When("failed", state \notin {-1, -2})

MapBitcoinToStarknetNegative(state) ==
  When("expired", state \in {-2, -3}) \cup When("failed", state \notin {-1, -2, -3})

MapReverseNegative(state) ==
  When("expired", state = -2) \cup When("refunded", state = -3)
    \cup When("failed", state \notin {-1, -2, -3})

MapNegativeState(state, d) ==
  CASE d = LightningToStarknet   -> MapLightningToStarknetNegative(state)
    [] d = BitcoinToStarknet     -> MapBitcoinToStarknetNegative(state)
    [] d \in ReverseDirections   -> MapReverseNegative(state)

\* Faulty: a committed Bitcoin swap counts as paid.
CommittedIsPaid(d) == 1

PaidThreshold(d)    == IF d = BitcoinToStarknet THEN 2 ELSE 1
ClaimableThreshold  == 2

\* Faulty: claimable is not restricted to forward swaps.
AnySwapClaimable(state, d) ==
  IF state = 4 /\ d \in ReverseDirections
  THEN {"refundable"}
  ELSE When("paid", state >= PaidThreshold(d))
         \cup When("claimable", state >= ClaimableThreshold)
         \cup When("completed", state = 3)

MapNonNegativeState(state, d) ==
  IF state = 4 /\ d \in ReverseDirections
  THEN {"refundable"}
  ELSE When("paid", state >= PaidThreshold(d))
         \cup When("claimable", IsForwardSwap(d) /\ state >= ClaimableThreshold)
         \cup When("completed", state = 3)

MapAtomiqState(state, d) ==
  IF state < 0 THEN MapNegativeState(state, d) ELSE MapNonNegativeState(state, d)

-----------------------------------------------------------------------------
(* syncWithAtomiq: the else-if chain over the flags, as a priority.        *)

Priority == [completed |-> 1, claimable |-> 2, paid |-> 3, refundable |-> 4,
             refunded  |-> 5, failed    |-> 6, expired |-> 7]

NoStatus == "none"

TopFlag(flags) ==
  CHOOSE f \in flags : \A g \in flags : Priority[f] <= Priority[g]

\* The status written for a swap the SDK knows; NoStatus when nothing is.
TranscribedStatus(state, d) ==
  LET flags == MapAtomiqState(state, d)
  IN  IF flags = {} THEN NoStatus ELSE TopFlag(flags)

-----------------------------------------------------------------------------
(* The transitions of the SDK's swap objects (external), as the comments   *)
(* of atomiq-state-mapping.ts describe the states: soft-expired quotes may *)
(* be revived by _sync, an expired Bitcoin address may still receive the   *)
(* deposit, an HTLC past its safe window can no longer be claimed.         *)

LightningToStarknetSteps ==
  {<<0, 1>>, <<0, -2>>, <<1, -2>>, <<-2, 1>>, <<-2, 2>>, <<-2, -3>>,
   <<1, 2>>, <<2, 3>>, <<2, -1>>, <<-1, -4>>}

BitcoinToStarknetSteps ==
  {<<0, 1>>, <<0, -1>>, <<-1, 1>>, <<-1, -2>>, <<1, 2>>, <<1, -3>>,
   <<-3, 2>>, <<-3, -4>>, <<2, 3>>}

ReverseSteps ==
  {<<0, 1>>, <<0, -1>>, <<-1, 1>>, <<-1, -2>>, <<1, 2>>, <<1, 3>>, <<2, 3>>,
   <<1, 4>>, <<4, -3>>}

AtomiqSteps(d) ==
  IF d = LightningToStarknet THEN LightningToStarknetSteps
  ELSE IF d = BitcoinToStarknet THEN BitcoinToStarknetSteps
  ELSE ReverseSteps

\* Steps that need the escrow of a bitcoin_to_starknet swap on chain, and
\* steps that need a Bitcoin deposit, hence an address the user was given.
CommitSteps  == {<<0, 1>>, <<-1, 1>>}
DepositSteps == {<<1, 2>>, <<-3, 2>>}
=============================================================================
