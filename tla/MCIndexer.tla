----------------------------- MODULE MCIndexer -----------------------------
(***************************************************************************)
(* Indexer, with blocks for TLC: a payment with its fee, a swap that pays  *)
(* one of its own senders back, and a block without transfers.             *)
(***************************************************************************)
EXTENDS Naturals, Sequences

CONSTANTS Parties, Addresses, Blocks, TTL, Never, MaxTime, MaxHeight, MaxFailures, MaxReorgs

VARIABLES
  chain, since, cursor, rows, pc, accounts, fetchedAt, selected, now, failures, reorgs, lag,
  owed, due

Wbtc == INSTANCE Indexer

ASSUME BlocksAssumption == Wbtc!IndexerAssumption

IndexerSpec == Wbtc!Spec

\* Each row has the whole amount of what it stands for (Indexer).
AmountIsTotal == Wbtc!AmountIsTotal

\* No transfer of a known account is missed (Indexer).
NothingMissed == Wbtc!NothingMissed

\* What an account spends and receives at once is in the history twice (Indexer).
BothRecorded == Wbtc!BothRecorded

\* The indexer gets to the end of the chain (Indexer).
CatchesUp == Wbtc!CatchesUp

-----------------------------------------------------------------------------
Transfer(tx, from, to, amount) == [tx |-> tx, from |-> from, to |-> to, amount |-> amount]

MCBlocks(a, b, x) ==
  { <<>>,
    <<Transfer("t1", a, x, 1), Transfer("t1", a, b, 5), Transfer("t2", x, a, 2)>>,
    <<Transfer("t3", x, a, 3), Transfer("t3", a, x, 4)>> }

MCParties == {"a", "b", "x"}
MCAddresses == {"a", "b"}
MCBlocksOfThree == MCBlocks("a", "b", "x")
=============================================================================
