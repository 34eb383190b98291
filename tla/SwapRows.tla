------------------------------ MODULE SwapRows ------------------------------
(***************************************************************************)
(* How DrizzleSwapRepository keeps a Swap in its row of bim_swaps and      *)
(* reads it back.  The status comes with data of its own (a hash, an error *)
(* text, the time it was reached) that share nullable columns; the upsert  *)
(* of an existing row writes some columns only.  SwapSync treats a save as *)
(* the replacement of the row: the theorems of ApiProofs say why it        *)
(* may.  The columns that every row has and no code changes after the      *)
(* insert (id, amount, destination, description, account, expiry and       *)
(* creation time) are one value, base.                                     *)
(***************************************************************************)
EXTENDS SwapEntity

CONSTANTS Base, Text, Time,
          Null                 \* a column that is NULL, a field that is absent

Nullable(S) == S \cup {Null}

-----------------------------------------------------------------------------
(* The entity.                                                             *)

HashStatus == {"committed", "completed"}
TextStatus == HashStatus \cup {"failed"}

\* SwapState: beside its status, a text in three of them and, unless it is
\* pending, the time at which it was reached.
State ==
  {state \in [status : SwapStatus, text : Nullable(Text), at : Nullable(Time)] :
     /\ state.status \notin TextStatus => state.text = Null
     /\ state.status = "pending" => state.at = Null}

LightningDirections == {LightningToStarknet, StarknetToLightning}

\* SwapData: which fields there are depends on the direction.
Data ==
  {data \in [direction : Directions, base : Base, source : Nullable(Text),
             invoice : Nullable(Text), deposit : Nullable(Text),
             attemptAt : Nullable(Time), claimTx : Nullable(Text)] :
     /\ data.direction \notin ReverseDirections => data.source = Null
     /\ data.direction \notin LightningDirections => data.invoice = Null
     /\ data.direction = LightningToStarknet => data.deposit = Null}

Swap == [data : Data, state : State]

\* markAsCommitted ... markAsLost: a new state, nothing of the old one kept.
Marked(swap, status, text, time) ==
  [swap EXCEPT !.state =
     [status |-> status,
      text   |-> IF status \in TextStatus THEN text ELSE Null,
      at     |-> time]]

WithAddress(swap, address) ==
  IF swap.data.direction = BitcoinToStarknet
  THEN [swap EXCEPT !.data.deposit = address]
  ELSE swap

WithClaimAttempt(swap, hash, time) ==
  [swap EXCEPT !.data.attemptAt = time, !.data.claimTx = hash]

\* What the methods of a Swap can make of it.
Changes(swap) ==
  {Marked(swap, status, text, time) :
     status \in SwapStatus \ {"pending"}, text \in Text, time \in Time}
  \cup {WithAddress(swap, address) : address \in Text}
  \cup {WithClaimAttempt(swap, hash, time) : hash \in Text, time \in Time}

\* getTxHash: of a claimable swap, the claim that Atomiq has not reported yet.
TxHash(swap) ==
  CASE swap.state.status \in HashStatus -> swap.state.text
    [] swap.state.status = "claimable"  -> swap.data.claimTx
    [] OTHER                            -> Null

-----------------------------------------------------------------------------
(* The row.                                                                *)

TimeColumn ==
  [committed  |-> "confirmedAt",  paid     |-> "paidAt",
   claimable  |-> "claimableAt",  completed |-> "completedAt",
   expired    |-> "expiredAt",    refundable |-> "refundableAt",
   refunded   |-> "refundedAt",   failed   |-> "failedAt",
   lost       |-> "lostAt"]

TimeColumns == {TimeColumn[status] : status \in DOMAIN TimeColumn}

StateToColumns(state) ==
  [status       |-> state.status,
   txHash       |-> IF state.status \in HashStatus THEN state.text ELSE Null,
   errorMessage |-> IF state.status = "failed" THEN state.text ELSE Null,
   times        |-> [column \in TimeColumns |->
                       IF state.status # "pending" /\ column = TimeColumn[state.status]
                       THEN state.at ELSE Null]]

ColumnsToState(columns) ==
  [status |-> columns.status,
   text   |-> CASE columns.status \in HashStatus -> columns.txHash
                [] columns.status = "failed"     -> columns.errorMessage
                [] OTHER                         -> Null,
   at     |-> IF columns.status = "pending" THEN Null
              ELSE columns.times[TimeColumn[columns.status]]]

\* The insert of save: a field that the direction does not have is NULL.
Inserted(swap) ==
  [direction |-> swap.data.direction, base |-> swap.data.base,
   source    |-> swap.data.source,    invoice |-> swap.data.invoice,
   deposit   |-> swap.data.deposit,   attemptAt |-> swap.data.attemptAt,
   claimTx   |-> swap.data.claimTx,   columns |-> StateToColumns(swap.state)]

\* Its onConflictDoUpdate, over the row the swap has already.
Upserted(row, swap) ==
  [row EXCEPT !.columns   = StateToColumns(swap.state),
              !.attemptAt = swap.data.attemptAt,
              !.claimTx   = swap.data.claimTx,
              !.deposit   = swap.data.deposit]

\* toSwap and buildSwapData: each direction reads its own columns.
ToSwap(row) ==
  [data  |-> [direction |-> row.direction, base |-> row.base,
              source    |-> IF row.direction \in ReverseDirections THEN row.source ELSE Null,
              invoice   |-> IF row.direction \in LightningDirections THEN row.invoice ELSE Null,
              deposit   |-> IF row.direction # LightningToStarknet THEN row.deposit ELSE Null,
              attemptAt |-> row.attemptAt, claimTx |-> row.claimTx],
   state |-> ColumnsToState(row.columns)]

\* The selection of findActive.
IsActiveRow(row) ==
  \/ row.columns.status \notin TerminalStatus
  \/ row.columns.status = "expired" /\ row.direction = BitcoinToStarknet

-----------------------------------------------------------------------------
\* What SwapSync keeps of a swap.
Reduced(swap) ==
  [status  |-> swap.state.status,
   attempt |-> IF swap.data.attemptAt = Null THEN NoAttempt ELSE swap.data.attemptAt,
   address |-> swap.data.direction = BitcoinToStarknet /\ swap.data.deposit # Null]
=============================================================================
