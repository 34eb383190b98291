----------------------------- MODULE MCServices ------------------------------
(***************************************************************************)
(* Two services that run by themselves and share no state, model-checked   *)
(* in one run: the swap monitor and the indexer.  A behaviour follows one  *)
(* of them; the other is not there.                                        *)
(***************************************************************************)
EXTENDS SwapMonitor, MCIndexer

VARIABLE part

swaps == vars
blocks == <<chain, since, cursor, rows, pc, accounts, fetchedAt, selected, now, failures, reorgs,
            lag, owed, due>>

services == <<part, swaps, blocks>>

\* No process of the API, and no block: no fair action is enabled.
NoMonitor ==
  /\ active = {} /\ unseen = {} /\ request = [s \in Swaps |-> "none"]
  /\ monitor = NewMonitor /\ intervals = 0 /\ process = "down" /\ restarts = 0
  /\ invocation = [i \in Invocations |-> Returned]

NoIndexer == Wbtc!Init /\ since = [a \in Addresses |-> Never]

ServicesInit ==
  /\ part \in {"monitor", "indexer"}
  /\ IF part = "monitor" THEN Init ELSE NoMonitor
  /\ IF part = "indexer" THEN Wbtc!Init ELSE NoIndexer

FollowMonitor == part = "monitor" /\ Next /\ UNCHANGED <<part, blocks>>
FollowIndexer == part = "indexer" /\ Wbtc!Next /\ UNCHANGED <<part, swaps>>

ServicesNext == FollowMonitor \/ FollowIndexer

ServicesSpec ==
  ServicesInit /\ [][ServicesNext]_services /\ Fairness /\ Wbtc!Fairness
=============================================================================
