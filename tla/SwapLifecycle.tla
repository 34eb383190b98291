--------------------------- MODULE SwapLifecycle ----------------------------
(***************************************************************************)
(* What the backend promises of the status of a swap, with no rows,        *)
(* handlers or clocks.  It is not that a final status stays: a handler     *)
(* that read the swap before may save an older status over it.  It is that *)
(* a final status is never made up: it is how Atomiq ended the swap, which *)
(* it does once, or "lost" for a swap that the SDK has forgotten.          *)
(***************************************************************************)
EXTENDS SwapEntity

CONSTANTS Swaps, Direction

VARIABLES
  status,    \* the status that the API has of each swap
  end,       \* how Atomiq has ended it, NoStatus until it has
  forgotten  \* whether the SDK storage has lost it

\* The statuses of each kind of swap.
Statuses(d) ==
  {"paid", "expired", "failed", "completed", "lost"} \cup
    IF d \in ReverseDirections THEN {"pending", "refundable", "refunded"}
                               ELSE {CreatedRow(d).status, "claimable"}

Final(s) == {st \in Statuses(Direction[s]) : IsTerminal(st, Direction[s])}

\* What the status of s may be, once it has one.
MayHold(s) ==
  (Statuses(Direction[s]) \ Final(s))
    \cup ({end[s]} \ {NoStatus})
    \cup (IF forgotten[s] THEN {"lost"} ELSE {})

Init ==
  /\ status = [s \in Swaps |-> AbsentStatus]
  /\ end = [s \in Swaps |-> NoStatus]
  /\ forgotten = [s \in Swaps |-> FALSE]

Open(s) ==
  /\ status[s] = AbsentStatus
  /\ status' = [status EXCEPT ![s] = CreatedRow(Direction[s]).status]
  /\ UNCHANGED <<end, forgotten>>

\* Atomiq ends the swap, for good.
End(s) ==
  /\ end[s] = NoStatus
  /\ \E st \in Final(s) \ {"lost"} : end' = [end EXCEPT ![s] = st]
  /\ UNCHANGED <<status, forgotten>>

Forget(s) ==
  /\ ~forgotten[s]
  /\ forgotten' = [forgotten EXCEPT ![s] = TRUE]
  /\ UNCHANGED <<status, end>>

\* Any handler saves the status it has transcribed, or one it read earlier.
Move(s) ==
  /\ status[s] # AbsentStatus
  /\ \E st \in MayHold(s) : status' = [status EXCEPT ![s] = st]
  /\ UNCHANGED <<end, forgotten>>

Next == \E s \in Swaps : Open(s) \/ End(s) \/ Forget(s) \/ Move(s)

Spec == Init /\ [][Next]_<<status, end, forgotten>>
=============================================================================
