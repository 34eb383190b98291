------------------------------ MODULE Indexer ------------------------------
(***************************************************************************)
(* The Apibara indexer of WBTC transfers: blocks come in order, the        *)
(* transfers of each are matched with the accounts, and rows are inserted  *)
(* into bim_transactions.  The rows of a block and the cursor of the       *)
(* stream are committed by one transaction of the storage plugin, which    *)
(* also removes the rows of blocks that the chain abandons.                *)
(*                                                                         *)
(* A crash loses the account cache and replays the block it was at.  An    *)
(* address stands for its account; decoding and padding are left out.      *)
(***************************************************************************)
EXTENDS Naturals, Sequences

CONSTANTS
  Parties,     \* Starknet addresses
  Addresses,   \* those of accounts, or that will be
  Blocks,      \* blocks that may come: sequences of transfers
  TTL,         \* ACCOUNT_CACHE_TTL_MS, in ticks
  Never,       \* no account with this address, no fetch yet
  MaxTime,     \* bound: the clock
  MaxHeight,   \* bound: blocks on the chain
  MaxFailures, \* bound: blocks that fail and restarts of the indexer
  MaxReorgs    \* bound: reorganisations of the chain

Transfers == [tx : STRING, from : Parties, to : Parties, amount : Nat]

IndexerAssumption ==
  /\ Addresses \subseteq Parties /\ Blocks \subseteq Seq(Transfers)
  /\ TTL \in Nat /\ MaxTime \in Nat /\ MaxHeight \in Nat /\ Never \notin Nat
  /\ MaxFailures \in Nat /\ MaxReorgs \in Nat

VARIABLES
  chain,      \* the blocks the stream has to deliver, in order
  since,      \* when the API saved the address of each account
  cursor,     \* height of the last block committed
  rows,       \* bim_transactions
  pc,         \* where transform awaits
  accounts,   \* AccountCache.accounts
  fetchedAt,  \* AccountCache.lastFetchedAt
  selected,   \* what the SELECT under way has read, and when
  now, failures, reorgs,  \* counted against their bounds
  lag,        \* history: how long the SELECT of the cache took
  owed,       \* history: accounts older than the cache when the block came
  due         \* history: the accounts owed their rows, for each height

vars == <<chain, since, cursor, rows, pc, accounts, fetchedAt, selected, now, failures, reorgs,
          lag, owed, due>>
cache == <<accounts, fetchedAt, lag>>
process == <<pc, cache, selected, owed>>

NothingSelected == [accounts |-> {}, at |-> 0]

Transaction ==
  [tx : STRING, account : Addresses, type : {"spent", "receipt"}, amount : Nat,
   from : Parties, to : Parties, block : 1 .. MaxHeight]

TypeOK ==
  /\ chain \in Seq(Blocks) /\ Len(chain) <= MaxHeight
  /\ since \in [Addresses -> (0 .. MaxTime) \cup {Never}]
  /\ cursor \in 0 .. Len(chain)
  /\ rows \in SUBSET Transaction
  /\ pc \in {"idle", "fetching", "selected", "writing"}
  /\ accounts \in SUBSET Addresses
  /\ fetchedAt \in (0 .. MaxTime) \cup {Never} /\ lag \in 0 .. MaxTime
  /\ selected \in [accounts : SUBSET Addresses, at : 0 .. MaxTime]
  /\ now \in 0 .. MaxTime /\ failures \in 0 .. MaxFailures /\ reorgs \in 0 .. MaxReorgs
  /\ owed \in SUBSET Addresses
  /\ due \in SUBSET ((1 .. MaxHeight) \X Addresses)
  /\ pc # "idle" => cursor < Len(chain)
  /\ pc = "writing" => owed \subseteq accounts

Init ==
  /\ chain = <<>> /\ cursor = 0 /\ rows = {}
  /\ since \in [Addresses -> {0, Never}]
  /\ pc = "idle" /\ accounts = {} /\ fetchedAt = Never /\ lag = 0 /\ owed = {}
  /\ selected = NothingSelected
  /\ now = 0 /\ failures = 0 /\ reorgs = 0 /\ due = {}

Known == {a \in Addresses : since[a] # Never}

-----------------------------------------------------------------------------
(* TransactionMatcher.                                                     *)

Row(t, account, type) ==
  [tx |-> t.tx, account |-> account, type |-> type, amount |-> t.amount,
   from |-> t.from, to |-> t.to, block |-> cursor + 1]

\* The rows of one transfer, then those of all, in order.
RowsOf(t) ==
  (IF t.from \in accounts THEN <<Row(t, t.from, "spent")>> ELSE <<>>) \o
  (IF t.to \in accounts THEN <<Row(t, t.to, "receipt")>> ELSE <<>>)

Matched(transfers) ==
  LET upTo[n \in 0 .. Len(transfers)] ==
        IF n = 0 THEN <<>> ELSE upTo[n - 1] \o RowsOf(transfers[n])
  IN  upTo[Len(transfers)]

\* Faulty: the amount is that of the largest transfer.
LargestRow(matched, i) ==
  LET group == {j \in DOMAIN matched :
                  /\ matched[j].tx = matched[i].tx /\ matched[j].account = matched[i].account
                  /\ matched[j].type = matched[i].type}
  IN  CHOOSE row \in {matched[j] : j \in group} :
        \A j \in group : matched[j].amount <= row.amount

\* The amounts added up over the positions of a group, in order.
Total(list, group) ==
  LET upTo[n \in 0 .. Len(list)] ==
        IF n = 0 THEN 0 ELSE upTo[n - 1] + IF n \in group THEN list[n].amount ELSE 0
  IN  upTo[Len(list)]

\* mergeMulticallRows, for the group of the row at i: the amounts are added,
\* the addresses are those of the first largest.
MergedRow(matched, i) ==
  LET group == {j \in DOMAIN matched :
                  /\ matched[j].tx = matched[i].tx /\ matched[j].account = matched[i].account
                  /\ matched[j].type = matched[i].type}
      largest == CHOOSE j \in group : \A k \in group :
                   \/ matched[k].amount < matched[j].amount
                   \/ matched[k].amount = matched[j].amount /\ j <= k
  IN  [matched[largest] EXCEPT !.amount = Total(matched, group)]

\* onConflictDoNothing: the table is unique on the hash and the account, so
\* of all the rows of these two the first in order is inserted.
Inserted(matched) ==
  {MergedRow(matched, i) : i \in {j \in DOMAIN matched :
     LET SameKey(row) == row.tx = matched[j].tx /\ row.account = matched[j].account IN
     /\ \A k \in DOMAIN matched : SameKey(matched[k]) => j <= k
     /\ \A row \in rows : ~SameKey(row)}}

-----------------------------------------------------------------------------
(* transform: one block at a time.                                         *)

\* Faulty: the cache is filled once.
FreshOnceFetched == fetchedAt # Never

Fresh == fetchedAt # Never /\ now - fetchedAt < TTL

\* A block without transfers returns at once.
SkipEmptyBlock ==
  /\ pc = "idle" /\ cursor < Len(chain) /\ chain[cursor + 1] = <<>>
  /\ cursor' = cursor + 1
  /\ UNCHANGED <<chain, since, rows, process, now, failures, reorgs, due>>

Transform ==
  /\ pc = "idle" /\ cursor < Len(chain) /\ chain[cursor + 1] # <<>>
  /\ pc' = IF Fresh THEN "writing" ELSE "fetching"
  /\ owed' = {a \in Known : since[a] + TTL + lag <= now}
  /\ UNCHANGED <<chain, since, cursor, rows, cache, selected, now, failures, reorgs, due>>

\* AccountCache.get: the SELECT, then, when its answer is here, the stamp.
SelectAccounts ==
  /\ pc = "fetching" /\ pc' = "selected"
  /\ selected' = [accounts |-> Known, at |-> now]
  /\ UNCHANGED <<chain, since, cursor, rows, cache, now, failures, reorgs, owed, due>>

StampCache ==
  /\ pc = "selected" /\ pc' = "writing"
  /\ accounts' = selected.accounts /\ fetchedAt' = now
  /\ lag' = now - selected.at
  /\ selected' = NothingSelected
  /\ UNCHANGED <<chain, since, cursor, rows, now, failures, reorgs, owed, due>>

\* Faulty: nothing is committed for a block that concerns nobody.
WriteOrWait ==
  /\ pc = "writing" /\ Inserted(Matched(chain[cursor + 1])) # {}
  /\ rows' = rows \cup Inserted(Matched(chain[cursor + 1]))
  /\ due' = due \cup ({cursor + 1} \X owed)
  /\ cursor' = cursor + 1
  /\ pc' = "idle" /\ owed' = {}
  /\ UNCHANGED <<chain, since, cache, selected, now, failures, reorgs>>

\* match and write, then the commit of the storage.
Write ==
  /\ pc = "writing"
  /\ rows' = rows \cup Inserted(Matched(chain[cursor + 1]))
  /\ due' = due \cup ({cursor + 1} \X owed)
  /\ cursor' = cursor + 1
  /\ pc' = "idle" /\ owed' = {}
  /\ UNCHANGED <<chain, since, cache, selected, now, failures, reorgs>>

\* The block throws and transform swallows it: the storage commits the cursor
\* without the rows, or cannot and the process ends.
BlockFails ==
  /\ pc # "idle" /\ failures < MaxFailures
  /\ failures' = failures + 1
  /\ pc' = "idle" /\ owed' = {} /\ selected' = NothingSelected
  /\ cursor' = cursor + 1
  /\ UNCHANGED <<chain, since, rows, cache, now, reorgs, due>>

Restart ==
  /\ failures < MaxFailures
  /\ failures' = failures + 1
  /\ pc' = "idle" /\ owed' = {} /\ selected' = NothingSelected
  /\ accounts' = {} /\ fetchedAt' = Never /\ lag' = 0
  /\ UNCHANGED <<chain, since, cursor, rows, now, reorgs, due>>

-----------------------------------------------------------------------------
(* Starknet, the stream and the API.                                       *)

\* A transaction is on the chain once.
NewBlock(b) ==
  /\ Len(chain) < MaxHeight
  /\ \A i \in DOMAIN chain, m \in DOMAIN b :
       \A n \in DOMAIN chain[i] : chain[i][n].tx # b[m].tx
  /\ chain' = Append(chain, b)
  /\ UNCHANGED <<since, cursor, rows, process, now, failures, reorgs, due>>

\* The stream tells of abandoned blocks between two blocks.
Invalidate(height) ==
  /\ pc = "idle" /\ height < Len(chain) /\ reorgs < MaxReorgs
  /\ reorgs' = reorgs + 1
  /\ chain' = SubSeq(chain, 1, height)
  /\ cursor' = IF cursor <= height THEN cursor ELSE height
  /\ rows' = {row \in rows : row.block <= height}
  /\ due' = {d \in due : d[1] <= height}
  /\ UNCHANGED <<since, process, now, failures>>

\* AccountDeployer saves the address with its lock.
SaveAddress(a) ==
  /\ since[a] = Never
  /\ since' = [since EXCEPT ![a] = now]
  /\ UNCHANGED <<chain, cursor, rows, process, now, failures, reorgs, due>>

Tick ==
  /\ now < MaxTime /\ now' = now + 1
  /\ UNCHANGED <<chain, since, cursor, rows, process, failures, reorgs, due>>

TransformStep == SkipEmptyBlock \/ Transform \/ SelectAccounts \/ StampCache \/ Write

Next ==
  \/ TransformStep \/ BlockFails \/ Restart
  \/ \E b \in Blocks : NewBlock(b)
  \/ \E height \in 0 .. MaxHeight : Invalidate(height)
  \/ \E a \in Addresses : SaveAddress(a)
  \/ Tick

Spec == Init /\ [][Next]_vars

\* The stream delivers, the database answers, and a process that ended is
\* started again; that a block fails is bounded.
Fairness == WF_vars(TransformStep)

-----------------------------------------------------------------------------
(* Properties.                                                             *)

\* The transfers of a row's block that a row stands for.
Part(row) ==
  {n \in DOMAIN chain[row.block] :
     LET t == chain[row.block][n] IN
     /\ t.tx = row.tx
     /\ row.account = IF row.type = "spent" THEN t.from ELSE t.to}

\* A row carries all that its account spent, or received, in the transaction,
\* and the addresses of a transfer of it, after replays, reorganisations and
\* conflicts: a part is never recorded for the whole.
AmountIsTotal ==
  \A row \in rows :
    /\ row.block <= cursor
    /\ row.amount = Total(chain[row.block], Part(row))
    /\ \E n \in Part(row) :
         row.from = chain[row.block][n].from /\ row.to = chain[row.block][n].to

Takes(a, type, height, tx) ==
  \E n \in DOMAIN chain[height] :
    LET t == chain[height][n] IN t.tx = tx /\ a = IF type = "spent" THEN t.from ELSE t.to

Recorded(a, types, height, tx) ==
  \E row \in rows : row.tx = tx /\ row.account = a /\ row.type \in types /\ row.block = height

\* A transaction that concerns an account leaves a row in its history, of one
\* type or the other, if the account was there when the cache was filled: if
\* it was older, when the block came, than the life of a cache and the time
\* that the SELECT of the cache took.  Of a block that fails nothing is said.
NothingMissed ==
  \A d \in due : \A n \in DOMAIN chain[d[1]] :
    LET tx == chain[d[1]][n].tx IN
    (\E type \in {"spent", "receipt"} : Takes(d[2], type, d[1], tx))
      => Recorded(d[2], {"spent", "receipt"}, d[1], tx)

\* An account that spends and receives in one transaction has both in its
\* history: what mergeMulticallRows says of the unique constraint.  (It does
\* not hold: the constraint has no type in it.)
BothRecorded ==
  \A d \in due : \A n \in DOMAIN chain[d[1]] : \A type \in {"spent", "receipt"} :
    LET tx == chain[d[1]][n].tx IN
    Takes(d[2], type, d[1], tx) => Recorded(d[2], {type}, d[1], tx)

\* No block stops the indexer: it gets to the end of the chain again and
\* again.
CatchesUp == []<>(cursor = Len(chain))
=============================================================================
