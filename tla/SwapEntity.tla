----------------------------- MODULE SwapEntity -----------------------------
(***************************************************************************)
(* The Swap entity of packages/domain and its row in bim_swaps, reduced to *)
(* the columns that the swap services read back or overwrite: the status,  *)
(* the time of the last claim attempt and the Bitcoin deposit address.     *)
(***************************************************************************)
EXTENDS AtomiqStates

SwapStatus == {"pending", "committed", "paid", "claimable", "completed",
               "expired", "refundable", "refunded", "failed", "lost"}

AbsentStatus == "absent"   \* there is no row for this swap yet
NoAttempt    == -1         \* lastClaimAttemptAt IS NULL

\* A row, or an entity read from one, with claim attempts at times in T.
SwapRow(T) == [status  : SwapStatus \cup {AbsentStatus},
               attempt : T \cup {NoAttempt},
               address : BOOLEAN]

AbsentRow == [status |-> AbsentStatus, attempt |-> NoAttempt, address |-> FALSE]

\* createLightningToStarknet, createStarknetTo*: pending;
\* createBitcoinToStarknetCommitted: committed, with no deposit address.
CreatedRow(d) ==
  [AbsentRow EXCEPT !.status = IF d = BitcoinToStarknet THEN "committed" ELSE "pending"]

TerminalStatus == {"completed", "expired", "failed", "refunded", "lost"}

\* Swap.isTerminal; DrizzleSwapRepository.findActive selects the others.
IsTerminal(status, d) ==
  status \in TerminalStatus /\ ~(status = "expired" /\ d = BitcoinToStarknet)

\* Swap.recordClaimAttempt and Swap.hasRecentClaimAttempt.
RecordClaimAttempt(swap, now) == [swap EXCEPT !.attempt = now]

HasRecentClaimAttempt(swap, now, within) ==
  swap.attempt # NoAttempt /\ now - swap.attempt < within

\* completeBitcoinToStarknet: setDepositAddress, then markAsPaid.
WithDepositAddress(swap) == [swap EXCEPT !.address = TRUE, !.status = "paid"]

MarkAs(swap, status) == [swap EXCEPT !.status = status]

\* Swap.getProgress.
Progress(status) ==
  CASE status = "committed" -> 10
    [] status = "paid"      -> 33
    [] status = "claimable" -> 50
    [] status = "completed" -> 100
    [] OTHER                -> 0
=============================================================================
