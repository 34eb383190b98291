------------------------- MODULE SwapMonitorProofs --------------------------
(***************************************************************************)
(* Proofs about the two processes that run on their own: SwapMonitor, for  *)
(* any swaps, any number of invocations and any configuration of the       *)
(* monitor; then the indexer, for any addresses and blocks.  A total over  *)
(* a list is unfolded by the least number that it could fail for.          *)
(***************************************************************************)
EXTENDS SwapMonitor, MCIndexer, WellFoundedInduction, SequenceTheorems, TLAPS

UnderWay(i) == invocation[i].pc # "returned"

\* iterating is the lock of runIteration.
Guarded ==
  /\ OneIterationAtATime
  /\ \A i \in Invocations : UnderWay(i) => monitor.iterating

\* The timer field and the runtime agree with running; in a process that is
\* up only an iteration stops the monitor, as the last thing it does, and it
\* is stopped as soon as it has been idle for long enough.
TimerHeld ==
  /\ monitor.timer = monitor.running
  /\ NoLeakedInterval
  /\ process = "down" => ~monitor.running /\ ~monitor.iterating
  /\ process = "up" /\ ~monitor.running => ~monitor.iterating
  /\ monitor.running \/ monitor.iterating => monitor.idle < MaxIdleIterations

\* What a snapshot lacks of the active swaps has become active since.
SnapshotFresh ==
  \A i \in Invocations :
    invocation[i].pc = "read" => active \subseteq unseen \cup invocation[i].todo

Inv == TypeOK /\ Guarded /\ TimerHeld /\ SnapshotFresh /\ OnlyUnseenLeftBehind

\* The fields stay typed when they are set as the code sets them.
LEMMA FieldTypes ==
  /\ NewMonitor \in MonitorFields
  /\ \A m \in MonitorFields :
       /\ Started(m) \in MonitorFields
       /\ Stopped(m) \in MonitorFields
       /\ \A b \in BOOLEAN : [m EXCEPT !.iterating = b] \in MonitorFields
       /\ \A n \in 0 .. MaxIdleIterations : [m EXCEPT !.idle = n] \in MonitorFields
       /\ \A n \in 0 .. KeepaliveInterval - 1 :
            [m EXCEPT !.idle = 0, !.quiet = n] \in MonitorFields
<1>1. 0 \in 0 .. MaxIdleIterations /\ 0 \in 0 .. KeepaliveInterval - 1
  BY ConfigAssumption
<1>. QED BY <1>1 DEF NewMonitor, MonitorFields, Started, Stopped

\* The invariant holds when the server starts.
LEMMA InvInit == Init => Inv
<1> SUFFICES ASSUME Init PROVE Inv
  OBVIOUS
<1>1. monitor \in MonitorFields
  BY FieldTypes DEF Init
<1>2. TypeOK
  BY <1>1, ConfigAssumption DEF Init, TypeOK, Returned, Position
<1>3. Guarded /\ SnapshotFresh
  BY DEF Init, Guarded, OneIterationAtATime, UnderWay, SnapshotFresh, Returned
<1>4. TimerHeld /\ OnlyUnseenLeftBehind
  BY ConfigAssumption
     DEF Init, Started, NewMonitor, TimerHeld, NoLeakedInterval, OnlyUnseenLeftBehind
<1>. QED BY <1>2, <1>3, <1>4 DEF Inv

\* start() finds no interval to leak.
LEMMA StartStep ==
  ASSUME Inv, Start
  PROVE  /\ monitor' \in MonitorFields
         /\ monitor'.running /\ monitor'.timer /\ intervals' = 1
         /\ monitor'.iterating = monitor.iterating
         /\ monitor'.idle < MaxIdleIterations
<1>1. CASE monitor.running
  BY <1>1 DEF Inv, TypeOK, Start, TimerHeld, NoLeakedInterval
<1>2. CASE ~monitor.running
  <2>1. monitor' = Started(monitor) /\ intervals' = 1 /\ monitor \in MonitorFields
    BY <1>2 DEF Inv, TypeOK, Start, TimerHeld, NoLeakedInterval
  <2>2. monitor' \in MonitorFields
    BY <2>1, FieldTypes
  <2>3. monitor'.running /\ monitor'.timer /\ monitor'.iterating = monitor.iterating
    BY <2>1 DEF Started, MonitorFields
  <2>4. monitor'.idle < MaxIdleIterations
    BY <2>1, ConfigAssumption DEF Started, MonitorFields
  <2>. QED BY <2>1, <2>2, <2>3, <2>4
<1>. QED BY <1>1, <1>2

\* stop() clears the only interval there is.
LEMMA StopStep ==
  ASSUME Inv, ClearInterval
  PROVE  intervals' = 0
BY DEF Inv, TypeOK, ClearInterval, TimerHeld, NoLeakedInterval

\* An iteration that returns gives up the lock it alone held.
LEMMA ReturnStep ==
  ASSUME Inv, NEW i \in Invocations, UnderWay(i), NEW m \in MonitorFields, Return(i, m)
  PROVE  /\ invocation' \in [Invocations -> [pc : Position, todo : SUBSET Swaps]]
         /\ monitor' = [m EXCEPT !.iterating = FALSE] /\ monitor' \in MonitorFields
         /\ Guarded' /\ SnapshotFresh'
<1>1. \A j \in Invocations \ {i} : ~UnderWay(j) /\ invocation'[j] = invocation[j]
  BY DEF Inv, TypeOK, Guarded, OneIterationAtATime, UnderWay, Return
<1>2. invocation'[i] = Returned
  BY DEF Inv, TypeOK, Return
<1>3. invocation' \in [Invocations -> [pc : Position, todo : SUBSET Swaps]]
  BY DEF Inv, TypeOK, Return, Returned, Position
<1>4. monitor' = [m EXCEPT !.iterating = FALSE] /\ monitor' \in MonitorFields
  BY DEF Return, MonitorFields
<1>5. \A j \in Invocations : ~UnderWay(j)'
  BY <1>1, <1>2 DEF UnderWay, Returned
<1>6. Guarded' /\ SnapshotFresh'
  BY <1>5 DEF Guarded, OneIterationAtATime, UnderWay, SnapshotFresh
<1>. QED BY <1>3, <1>4, <1>6

\* An iteration that goes on with a snapshot keeps the lock and the snapshot.
LEMMA GoOnStep ==
  ASSUME Inv, NEW i \in Invocations, UnderWay(i),
         invocation'[i].pc \in {"pinging", "processing"},
         \A j \in Invocations \ {i} : invocation'[j] = invocation[j],
         monitor'.iterating = monitor.iterating
  PROVE  Guarded' /\ SnapshotFresh'
<1>1. \A j \in Invocations \ {i} : ~UnderWay(j)
  BY DEF Inv, TypeOK, Guarded, OneIterationAtATime, UnderWay
<1>2. monitor.iterating
  BY DEF Inv, TypeOK, Guarded
<1>. QED BY <1>1, <1>2
         DEF Inv, TypeOK, Position, Guarded, OneIterationAtATime, UnderWay, SnapshotFresh

\* Every step keeps the invariant.
LEMMA InvStep == Inv /\ [Next]_vars => Inv'
<1> SUFFICES ASSUME Inv, [Next]_vars PROVE Inv'
  OBVIOUS
<1>. USE DEF Inv
<1>1. ASSUME NEW s \in Swaps, SaveSwap(s) PROVE Inv'
  BY <1>1 DEF SaveSwap, TypeOK, Guarded, OneIterationAtATime, UnderWay, TimerHeld,
              NoLeakedInterval, SnapshotFresh, OnlyUnseenLeftBehind
<1>2. ASSUME NEW s \in Swaps, EnsureRunning(s) PROVE Inv'
  <2>1. TypeOK'
    BY <1>2, StartStep DEF EnsureRunning, TypeOK
  <2>2. Guarded' /\ SnapshotFresh'
    BY <1>2, StartStep DEF EnsureRunning, Guarded, OneIterationAtATime, UnderWay, SnapshotFresh
  <2>3. TimerHeld' /\ OnlyUnseenLeftBehind'
    BY <1>2, StartStep
       DEF EnsureRunning, TypeOK, MonitorFields, TimerHeld, NoLeakedInterval, OnlyUnseenLeftBehind
  <2>. QED BY <2>1, <2>2, <2>3
<1>3. ASSUME NEW s \in Swaps, RequestFails(s) \/ ClientSettles(s) PROVE Inv'
  BY <1>3 DEF RequestFails, ClientSettles, TypeOK, Guarded, OneIterationAtATime, UnderWay,
              TimerHeld, NoLeakedInterval, SnapshotFresh, OnlyUnseenLeftBehind
<1>4. ASSUME NEW i \in Invocations, RunIteration(i) PROVE Inv'
  <2>1. \A j \in Invocations : ~UnderWay(j)
    BY <1>4 DEF RunIteration, Guarded
  <2>2. /\ \A j \in Invocations \ {i} : invocation'[j] = invocation[j]
        /\ invocation'[i].pc = "reading" /\ monitor'.iterating
    BY <1>4 DEF RunIteration, TypeOK, MonitorFields
  <2>3. TypeOK'
    BY <1>4 DEF RunIteration, TypeOK, MonitorFields, Position
  <2>4. Guarded' /\ SnapshotFresh'
    BY <1>4, <2>1, <2>2
       DEF RunIteration, Guarded, OneIterationAtATime, UnderWay, SnapshotFresh
  <2>5. monitor.running
    BY <1>4 DEF RunIteration, TimerHeld, NoLeakedInterval, TypeOK
  <2>6. TimerHeld' /\ OnlyUnseenLeftBehind'
    BY <1>4, <2>5
       DEF RunIteration, TypeOK, MonitorFields, TimerHeld, NoLeakedInterval, OnlyUnseenLeftBehind
  <2>. QED BY <2>3, <2>4, <2>6
<1>5. ASSUME NEW i \in Invocations, GetActiveSwaps(i) PROVE Inv'
  <2>1. /\ monitor.iterating
        /\ \A j \in Invocations \ {i} : ~UnderWay(j) /\ invocation'[j] = invocation[j]
    BY <1>5 DEF GetActiveSwaps, TypeOK, Guarded, OneIterationAtATime, UnderWay
  <2>2. invocation'[i] = [pc |-> "read", todo |-> active]
    BY <1>5 DEF GetActiveSwaps, TypeOK
  <2>3. TypeOK'
    BY <1>5 DEF GetActiveSwaps, TypeOK, Position
  <2>4. Guarded' /\ SnapshotFresh'
    BY <1>5, <2>1, <2>2
       DEF GetActiveSwaps, Guarded, OneIterationAtATime, UnderWay, SnapshotFresh
  <2>5. TimerHeld' /\ OnlyUnseenLeftBehind'
    BY <1>5, <2>1 DEF GetActiveSwaps, TimerHeld, NoLeakedInterval, OnlyUnseenLeftBehind
  <2>. QED BY <2>3, <2>4, <2>5
<1>6. ASSUME NEW i \in Invocations, IterationFails(i) \/ IterationEnds(i) PROVE Inv'
  <2>1. UnderWay(i) /\ Return(i, monitor) /\ monitor \in MonitorFields
    BY <1>6 DEF IterationFails, IterationEnds, UnderWay, TypeOK
  <2>2. TypeOK' /\ Guarded' /\ SnapshotFresh'
    BY <1>6, <2>1, ReturnStep DEF IterationFails, IterationEnds, TypeOK
  <2>3. monitor' = [monitor EXCEPT !.iterating = FALSE]
    BY <2>1, ReturnStep
  <2>4. TimerHeld' /\ OnlyUnseenLeftBehind'
    BY <1>6, <2>1, <2>3
       DEF IterationFails, IterationEnds, MonitorFields, TimerHeld, NoLeakedInterval,
           OnlyUnseenLeftBehind
  <2>. QED BY <2>2, <2>4
<1>7. ASSUME NEW i \in Invocations, HandleIdleIteration(i) PROVE Inv'
  <2> DEFINE counted == [monitor EXCEPT !.idle = monitor.idle + 1]
  <2>1. UnderWay(i) /\ active \subseteq unseen
    BY <1>7 DEF HandleIdleIteration, UnderWay, SnapshotFresh
  <2>2. counted \in MonitorFields /\ Stopped(counted) \in MonitorFields
    <3>1. monitor.idle + 1 \in 0 .. MaxIdleIterations /\ monitor \in MonitorFields
      BY <2>1, ConfigAssumption DEF TypeOK, MonitorFields, Guarded, TimerHeld
    <3>. QED BY <3>1, FieldTypes
  <2>3. CASE monitor.idle + 1 >= MaxIdleIterations
    <3>1. Return(i, Stopped(counted)) /\ intervals' = 0
      BY <1>7, <2>3, StopStep DEF HandleIdleIteration
    <3>2. monitor' = [Stopped(counted) EXCEPT !.iterating = FALSE]
      BY <2>1, <2>2, <3>1, ReturnStep
    <3>3. ~monitor'.running /\ ~monitor'.timer /\ ~monitor'.iterating
      BY <3>2, <2>2 DEF Stopped, MonitorFields, TypeOK
    <3>4. TypeOK' /\ Guarded' /\ SnapshotFresh'
      BY <1>7, <2>1, <2>2, <3>1, ReturnStep DEF HandleIdleIteration, TypeOK
    <3>5. TimerHeld' /\ OnlyUnseenLeftBehind'
      BY <1>7, <2>1, <3>1, <3>3, <3>4
         DEF HandleIdleIteration, TypeOK, MonitorFields, TimerHeld, NoLeakedInterval,
             OnlyUnseenLeftBehind
    <3>. QED BY <3>4, <3>5
  <2>4. CASE ~(monitor.idle + 1 >= MaxIdleIterations)
    <3>1. Return(i, counted) /\ intervals' = intervals
      BY <1>7, <2>4 DEF HandleIdleIteration
    <3>2. monitor' = [counted EXCEPT !.iterating = FALSE]
      BY <2>1, <2>2, <3>1, ReturnStep
    <3>3. TypeOK' /\ Guarded' /\ SnapshotFresh'
      BY <1>7, <2>1, <2>2, <3>1, ReturnStep DEF HandleIdleIteration, TypeOK
    <3>4. /\ monitor'.running = monitor.running /\ monitor'.timer = monitor.timer
          /\ ~monitor'.iterating /\ monitor'.idle < MaxIdleIterations
      BY <2>4, <3>2, ConfigAssumption DEF TypeOK, MonitorFields
    <3>5. TimerHeld' /\ OnlyUnseenLeftBehind'
      BY <1>7, <3>1, <3>4
         DEF HandleIdleIteration, TimerHeld, NoLeakedInterval, OnlyUnseenLeftBehind
    <3>. QED BY <3>3, <3>5
  <2>. QED BY <2>3, <2>4
<1>8. ASSUME NEW i \in Invocations, HandleActiveIteration(i) PROVE Inv'
  <2>1. /\ UnderWay(i) /\ invocation'[i].pc \in {"pinging", "processing"}
        /\ \A j \in Invocations \ {i} : invocation'[j] = invocation[j]
    BY <1>8 DEF HandleActiveIteration, UnderWay, TypeOK
  <2> DEFINE n == IF monitor.quiet + 1 >= KeepaliveInterval THEN 0 ELSE monitor.quiet + 1
  <2>2. n \in 0 .. KeepaliveInterval - 1 /\ monitor' = [monitor EXCEPT !.idle = 0, !.quiet = n]
    <3>1. n \in 0 .. KeepaliveInterval - 1
      BY ConfigAssumption DEF TypeOK, MonitorFields
    <3>2. monitor' = [monitor EXCEPT !.idle = 0, !.quiet = n]
      BY <1>8 DEF HandleActiveIteration
    <3>. QED BY <3>1, <3>2
  <2> HIDE DEF n
  <2>3. monitor' \in MonitorFields
    BY <2>2, FieldTypes DEF TypeOK
  <2>4. /\ monitor'.running = monitor.running /\ monitor'.timer = monitor.timer
        /\ monitor'.iterating = monitor.iterating /\ monitor'.idle = 0
    BY <2>2 DEF TypeOK, MonitorFields
  <2>5. invocation' \in [Invocations -> [pc : Position, todo : SUBSET Swaps]]
    BY <1>8 DEF HandleActiveIteration, TypeOK, Position
  <2>6. TypeOK' /\ Guarded' /\ SnapshotFresh'
    BY <1>8, <2>1, <2>3, <2>4, <2>5, GoOnStep DEF HandleActiveIteration, TypeOK
  <2>7. TimerHeld' /\ OnlyUnseenLeftBehind'
    BY <1>8, <2>4, ConfigAssumption
       DEF HandleActiveIteration, TimerHeld, NoLeakedInterval, OnlyUnseenLeftBehind
  <2>. QED BY <2>6, <2>7
<1>9. ASSUME NEW i \in Invocations, KeepaliveReturns(i) PROVE Inv'
  <2>1. /\ UnderWay(i) /\ invocation'[i].pc = "processing"
        /\ \A j \in Invocations \ {i} : invocation'[j] = invocation[j]
    BY <1>9 DEF KeepaliveReturns, UnderWay, TypeOK
  <2>2. invocation' \in [Invocations -> [pc : Position, todo : SUBSET Swaps]]
    BY <1>9 DEF KeepaliveReturns, TypeOK, Position
  <2>3. TypeOK' /\ Guarded' /\ SnapshotFresh'
    BY <1>9, <2>1, <2>2, GoOnStep DEF KeepaliveReturns, TypeOK
  <2>. QED BY <1>9, <2>3
           DEF KeepaliveReturns, TimerHeld, NoLeakedInterval, OnlyUnseenLeftBehind
<1>10. ASSUME NEW i \in Invocations, NEW s \in Swaps, ProcessActiveSwap(i, s) PROVE Inv'
  <2>1. /\ UnderWay(i) /\ invocation'[i].pc = "processing"
        /\ \A j \in Invocations \ {i} : invocation'[j] = invocation[j]
    BY <1>10 DEF ProcessActiveSwap, UnderWay, TypeOK
  <2>2. invocation' \in [Invocations -> [pc : Position, todo : SUBSET Swaps]]
    BY <1>10 DEF ProcessActiveSwap, TypeOK, Position
  <2>3. active' \subseteq active
    BY <1>10 DEF ProcessActiveSwap
  <2>4. TypeOK' /\ Guarded' /\ SnapshotFresh'
    BY <1>10, <2>1, <2>2, <2>3, GoOnStep DEF ProcessActiveSwap, TypeOK
  <2>. QED BY <1>10, <2>3, <2>4
           DEF ProcessActiveSwap, TimerHeld, NoLeakedInterval, OnlyUnseenLeftBehind
<1>11. ASSUME Shutdown PROVE Inv'
  <2>1. intervals' = 0
    BY <1>11, StopStep DEF Shutdown
  <2>2. TypeOK'
    BY <1>11, <2>1 DEF Shutdown, TypeOK, MonitorFields, Stopped
  <2>3. /\ ~monitor'.running /\ ~monitor'.timer
        /\ monitor'.iterating = monitor.iterating /\ monitor'.idle = monitor.idle
    BY <1>11 DEF Shutdown, TypeOK, MonitorFields, Stopped
  <2>4. Guarded' /\ SnapshotFresh'
    BY <1>11, <2>3 DEF Shutdown, Guarded, OneIterationAtATime, UnderWay, SnapshotFresh
  <2>5. TimerHeld' /\ OnlyUnseenLeftBehind'
    BY <1>11, <2>1, <2>2, <2>3
       DEF Shutdown, TypeOK, MonitorFields, TimerHeld, NoLeakedInterval, OnlyUnseenLeftBehind
  <2>. QED BY <2>2, <2>4, <2>5
<1>12. ASSUME StopReturns \/ Crash PROVE Inv'
  <2>1. ProcessEnds
    BY <1>12 DEF StopReturns, Crash
  <2>2. NewMonitor \in MonitorFields
    BY ConfigAssumption DEF NewMonitor, MonitorFields
  <2>3. TypeOK'
    BY <2>1, <2>2 DEF ProcessEnds, TypeOK, Returned, Position
  <2>4. Guarded' /\ SnapshotFresh'
    BY <2>1 DEF ProcessEnds, Guarded, OneIterationAtATime, UnderWay, SnapshotFresh, Returned
  <2>5. TimerHeld' /\ OnlyUnseenLeftBehind'
    BY <2>1 DEF ProcessEnds, NewMonitor, TimerHeld, NoLeakedInterval, OnlyUnseenLeftBehind
  <2>. QED BY <2>3, <2>4, <2>5
<1>13. ASSUME Boot PROVE Inv'
  <2>1. TypeOK'
    BY <1>13, StartStep, ConfigAssumption DEF Boot, TypeOK
  <2>2. Guarded' /\ SnapshotFresh'
    BY <1>13, StartStep DEF Boot, Guarded, OneIterationAtATime, UnderWay, SnapshotFresh
  <2>3. TimerHeld' /\ OnlyUnseenLeftBehind'
    BY <1>13, StartStep
       DEF Boot, TypeOK, MonitorFields, TimerHeld, NoLeakedInterval, OnlyUnseenLeftBehind
  <2>. QED BY <2>1, <2>2, <2>3
<1>14. CASE UNCHANGED vars
  BY <1>14 DEF vars, TypeOK, Guarded, OneIterationAtATime, UnderWay, TimerHeld,
               NoLeakedInterval, SnapshotFresh, OnlyUnseenLeftBehind
<1>. QED
  BY <1>1, <1>2, <1>3, <1>4, <1>5, <1>6, <1>7, <1>8, <1>9, <1>10, <1>11, <1>12, <1>13, <1>14
  DEF Next, Requests, Step

\* The inductive invariant holds in every behaviour.
LEMMA Invariant == Spec => []Inv
BY InvInit, InvStep, PTL DEF Spec

\* The types hold in every behaviour.
THEOREM MonitorTypeCorrect == Spec => []TypeOK
<1>1. Inv => TypeOK
  BY DEF Inv
<1>. QED BY <1>1, Invariant, PTL

\* Iterations never overlap, however many times the timer fires.
THEOREM IterationsNeverOverlap == Spec => []OneIterationAtATime
<1>1. Inv => OneIterationAtATime
  BY DEF Inv, Guarded
<1>. QED BY <1>1, Invariant, PTL

\* No sequence of starts, stops and restarts leaks an interval.
THEOREM IntervalsNeverLeak == Spec => []NoLeakedInterval
<1>1. Inv => NoLeakedInterval
  BY DEF Inv, TimerHeld
<1>. QED BY <1>1, Invariant, PTL

\* The auto-stop only leaves behind swaps that its last snapshot lacked.
THEOREM AutoStopLeavesOnlyUnseen == Spec => []OnlyUnseenLeftBehind
<1>1. Inv => OnlyUnseenLeftBehind
  BY DEF Inv
<1>. QED BY <1>1, Invariant, PTL

(***************************************************************************)
(* Sums and matches, by induction on how far they have come.               *)
(***************************************************************************)

LEMMA LeastNat ==
  ASSUME NEW ns, ns \subseteq Nat, ns # {}
  PROVE  \E n \in ns : \A k \in ns : n <= k
<1>1. IsWellFoundedOn(OpToRel(<, Nat), Nat)
  BY NatLessThanWellFounded
<1>2. PICK n \in ns : \A k \in ns : ~(<<k, n>> \in OpToRel(<, Nat))
  BY <1>1, WFMin
<1>3. \A k \in ns : ~(k < n)
  BY <1>2 DEF OpToRel
<1>4. QED
  BY <1>3

\* What holds of 0 and of n when it does of n - 1 holds up to any number.
LEMMA UpTo ==
  ASSUME NEW last \in Nat, NEW good, 0 \in good,
         \A n \in 1 .. last : n - 1 \in good => n \in good
  PROVE  \A n \in 0 .. last : n \in good
<1> DEFINE bad == {n \in 0 .. last : n \notin good}
<1> SUFFICES ASSUME bad # {} PROVE FALSE
  OBVIOUS
<1>1. bad \subseteq Nat
  OBVIOUS
<1>2. PICK n \in bad : \A k \in bad : n <= k
  <2> HIDE DEF bad
  <2> QED
    BY <1>1, LeastNat
<1>3. n # 0 /\ n \in 1 .. last /\ n - 1 \in 0 .. last
  OBVIOUS
<1>4. n - 1 \notin bad
  BY <1>2, <1>3
<1> QED
  BY <1>3, <1>4

\* A function that is computed from its value one before.
Iterates(f, last, V, base, step) ==
  /\ f \in [0 .. last -> V] /\ f[0] = base
  /\ \A n \in 1 .. last : f[n] = step[n][f[n - 1]]

Steps(last, V) == [1 .. last -> [V -> V]]

LEMMA Iterated ==
  ASSUME NEW last \in Nat, NEW V, NEW base \in V, NEW step \in Steps(last, V)
  PROVE  \E f : Iterates(f, last, V, base, step)
<1> USE DEF Steps
<1> DEFINE good == {m \in 0 .. last :
             \E f \in [0 .. m -> V] :
               f[0] = base /\ \A n \in 1 .. m : f[n] = step[n][f[n - 1]]}
<1>1. 0 \in good
  <2> DEFINE f == [n \in 0 .. 0 |-> base]
  <2>1. f \in [0 .. 0 -> V] /\ f[0] = base /\ \A n \in 1 .. 0 : f[n] = step[n][f[n - 1]]
    OBVIOUS
  <2> HIDE DEF f
  <2> QED
    BY <2>1
<1>2. ASSUME NEW m \in 1 .. last, m - 1 \in good PROVE m \in good
  <2>1. PICK f \in [0 .. m - 1 -> V] :
          f[0] = base /\ \A n \in 1 .. m - 1 : f[n] = step[n][f[n - 1]]
    BY <1>2
  <2> DEFINE g == [n \in 0 .. m |-> IF n = m THEN step[m][f[m - 1]] ELSE f[n]]
  <2>2. /\ f[m - 1] \in V /\ step[m] \in [V -> V]
    OBVIOUS
  <2>3. g \in [0 .. m -> V]
    BY <2>2
  <2>4. \A n \in 0 .. m - 1 : g[n] = f[n]
    OBVIOUS
  <2>5. g[m] = step[m][f[m - 1]]
    OBVIOUS
  <2> HIDE DEF g
  <2>6. g[0] = base /\ g[m - 1] = f[m - 1]
    BY <2>1, <2>4
  <2>7. ASSUME NEW n \in 1 .. m PROVE g[n] = step[n][g[n - 1]]
    <3>1. CASE n = m
      BY <3>1, <2>5, <2>6
    <3>2. CASE n # m
      <4>1. n \in 1 .. m - 1 /\ n \in 0 .. m - 1 /\ n - 1 \in 0 .. m - 1
        BY <3>2
      <4> QED
        BY <4>1, <2>1, <2>4
    <3> QED
      BY <3>1, <3>2
  <2>8. \E x \in [0 .. m -> V] : x[0] = base /\ \A n \in 1 .. m : x[n] = step[n][x[n - 1]]
    BY <2>3, <2>6, <2>7
  <2> QED
    BY <2>8
<1>3. last \in good
  <2> HIDE DEF good
  <2>1. \A n \in 0 .. last : n \in good
    BY <1>1, <1>2, UpTo
  <2> QED
    BY <2>1
<1> QED
  BY <1>3 DEF Iterates

\* A row, or a transfer, has an amount.
Adds(list, group, n) == IF n \in group THEN list[n].amount ELSE 0

Summed(list, group, f) ==
  f = [n \in 0 .. Len(list) |->
         IF n = 0 THEN 0 ELSE f[n - 1] + IF n \in group THEN list[n].amount ELSE 0]

LEMMA TotalUnfolds ==
  ASSUME NEW list, NEW group, NEW g, Summed(list, group, g)
  PROVE  \E f : Summed(list, group, f) /\ Wbtc!Total(list, group) = f[Len(list)]
BY DEF Wbtc!Total, Summed

LEMMA TotalUpTo ==
  ASSUME NEW E, \A e \in E : e.amount \in Nat, NEW list \in Seq(E), NEW group
  PROVE  \E f \in [0 .. Len(list) -> Nat] :
           /\ f[0] = 0
           /\ \A n \in 1 .. Len(list) : f[n] = f[n - 1] + Adds(list, group, n)
           /\ Wbtc!Total(list, group) = f[Len(list)]
<1>0. Len(list) \in Nat /\ \A n \in 1 .. Len(list) : Adds(list, group, n) \in Nat
  BY DEF Adds
<1> DEFINE step == [n \in 1 .. Len(list) |-> [v \in Nat |-> v + Adds(list, group, n)]]
<1>1. step \in [1 .. Len(list) -> [Nat -> Nat]]
  BY <1>0
<1>2. \A n \in 1 .. Len(list), v \in Nat : step[n][v] = v + Adds(list, group, n)
  OBVIOUS
<1> HIDE DEF step
<1>3. PICK g : Iterates(g, Len(list), Nat, 0, step)
  <2>1. step \in Steps(Len(list), Nat) /\ Len(list) \in Nat
    BY <1>0, <1>1 DEF Steps
  <2> QED
    BY <2>1, Iterated
<1>a. /\ g \in [0 .. Len(list) -> Nat] /\ g[0] = 0
      /\ \A n \in 1 .. Len(list) : g[n] = step[n][g[n - 1]]
  BY <1>3 DEF Iterates
<1>4. \A n \in 1 .. Len(list) : g[n] = g[n - 1] + Adds(list, group, n)
  <2> TAKE n \in 1 .. Len(list)
  <2>0. n - 1 \in 0 .. Len(list)
    BY <1>0
  <2>1. g[n - 1] \in Nat
    BY <1>a, <2>0
  <2> QED
    BY <1>2, <1>a, <2>1
<1>5. Summed(list, group, g)
  <2>1. \A n \in 0 .. Len(list) :
          g[n] = IF n = 0 THEN 0 ELSE g[n - 1] + IF n \in group THEN list[n].amount ELSE 0
    BY <1>0, <1>a, <1>4 DEF Adds
  <2>2. g = [n \in 0 .. Len(list) |-> g[n]]
    BY <1>a
  <2> QED
    BY <2>1, <2>2 DEF Summed
<1>6. PICK f : Summed(list, group, f) /\ Wbtc!Total(list, group) = f[Len(list)]
  BY <1>5, TotalUnfolds
<1>7. /\ f[0] = 0 /\ DOMAIN f = 0 .. Len(list)
      /\ \A n \in 1 .. Len(list) : f[n] = f[n - 1] + Adds(list, group, n)
  <2>1. \A n \in 0 .. Len(list) :
          f[n] = IF n = 0 THEN 0 ELSE f[n - 1] + IF n \in group THEN list[n].amount ELSE 0
    BY <1>6 DEF Summed
  <2>2. DOMAIN f = 0 .. Len(list)
    BY <1>6 DEF Summed
  <2>3. 0 \in 0 .. Len(list) /\ \A n \in 1 .. Len(list) : n \in 0 .. Len(list) /\ n # 0
    BY <1>0
  <2> QED
    BY <2>1, <2>2, <2>3 DEF Adds
<1>8. f \in [0 .. Len(list) -> Nat]
  <2> DEFINE good == {n \in 0 .. Len(list) : f[n] \in Nat}
  <2>1. 0 \in good
    BY <1>0, <1>7
  <2>2. \A n \in 1 .. Len(list) : n - 1 \in good => n \in good
    BY <1>0, <1>7
  <2> HIDE DEF good
  <2>3. \A n \in 0 .. Len(list) : n \in good
    BY <1>0, <2>1, <2>2, UpTo
  <2>4. \A n \in 0 .. Len(list) : f[n] \in Nat
    BY <2>3 DEF good
  <2>5. f = [n \in 0 .. Len(list) |-> f[n]]
    BY <1>6 DEF Summed
  <2> QED
    BY <2>4, <2>5
<1> QED
  BY <1>6, <1>7, <1>8

(***************************************************************************)
(* What is matched with the accounts.                                      *)
(***************************************************************************)

Entry == [tx : STRING, account : Addresses, type : {"spent", "receipt"}, amount : Nat,
          from : Parties, to : Parties, block : Nat]

SameKind(e, row) == e.tx = row.tx /\ e.account = row.account /\ e.type = row.type

Alike(list, row) == {j \in DOMAIN list : SameKind(list[j], row)}

\* A row more of a kind adds its amount to the kind.
LEMMA TotalAppend ==
  ASSUME NEW list \in Seq(Entry), NEW e \in Entry, NEW row
  PROVE  Wbtc!Total(Append(list, e), Alike(Append(list, e), row)) =
           Wbtc!Total(list, Alike(list, row)) + IF SameKind(e, row) THEN e.amount ELSE 0
<1> DEFINE more == Append(list, e)
<1> DEFINE l == Len(list)
<1>0. l \in Nat /\ more \in Seq(Entry) /\ Len(more) = l + 1 /\ l + 1 \in 1 .. Len(more)
  OBVIOUS
<1>a. (\A n \in 1 .. l : more[n] = list[n]) /\ more[l + 1] = e
  OBVIOUS
<1>e. \A x \in Entry : x.amount \in Nat
  BY DEF Entry
<1> HIDE DEF more
<1>1. PICK f \in [0 .. Len(list) -> Nat] :
        /\ f[0] = 0
        /\ \A n \in 1 .. Len(list) : f[n] = f[n - 1] + Adds(list, Alike(list, row), n)
        /\ Wbtc!Total(list, Alike(list, row)) = f[Len(list)]
  BY <1>e, TotalUpTo
<1>2. PICK g \in [0 .. Len(more) -> Nat] :
        /\ g[0] = 0
        /\ \A n \in 1 .. Len(more) : g[n] = g[n - 1] + Adds(more, Alike(more, row), n)
        /\ Wbtc!Total(more, Alike(more, row)) = g[Len(more)]
  BY <1>0, <1>e, TotalUpTo
<1>3. \A n \in 1 .. l : Adds(more, Alike(more, row), n) = Adds(list, Alike(list, row), n)
  <2> TAKE n \in 1 .. l
  <2>1. n \in DOMAIN list /\ n \in DOMAIN more /\ more[n] = list[n]
    BY <1>0, <1>a
  <2> QED
    BY <2>1 DEF Adds, Alike
<1>4. Adds(more, Alike(more, row), l + 1) = IF SameKind(e, row) THEN e.amount ELSE 0
  <2>1. l + 1 \in DOMAIN more /\ more[l + 1] = e
    BY <1>0, <1>a
  <2> QED
    BY <2>1 DEF Adds, Alike
<1> DEFINE good == {n \in 0 .. l : g[n] = f[n]}
<1>5. 0 \in good
  BY <1>0, <1>1, <1>2
<1>6. ASSUME NEW n \in 1 .. l, n - 1 \in good PROVE n \in good
  <2>1. n \in 1 .. Len(more) /\ n \in 0 .. l
    BY <1>0
  <2>2. g[n - 1] = f[n - 1]
    BY <1>6
  <2>3. g[n] = f[n]
    BY <1>1, <1>2, <1>3, <2>1, <2>2
  <2> QED
    BY <2>1, <2>3
<1> HIDE DEF good
<1>7. l \in good
  <2>1. \A n \in 0 .. l : n \in good
    BY <1>0, <1>5, <1>6, UpTo
  <2> QED
    BY <1>0, <2>1
<1>8. g[l] = f[l]
  BY <1>7 DEF good
<1>9. g[l + 1] = g[l] + Adds(more, Alike(more, row), l + 1)
  <2>1. l + 1 - 1 = l
    BY <1>0
  <2> QED
    BY <1>0, <1>2, <2>1
<1> QED
  BY <1>0, <1>1, <1>2, <1>4, <1>8, <1>9 DEF more

LEMMA IndexerBounds ==
  /\ Addresses \subseteq Parties /\ Blocks \subseteq Seq(Wbtc!Transfers)
  /\ TTL \in Nat /\ MaxTime \in Nat /\ MaxHeight \in Nat /\ Never \notin Nat
  /\ MaxFailures \in Nat /\ MaxReorgs \in Nat
BY BlocksAssumption DEF BlocksAssumption, Wbtc!IndexerAssumption

\* The list with the row of one side of a transfer, when that is an account.
Taken(list, t, party, type) ==
  IF party \in accounts THEN Append(list, Wbtc!Row(t, party, type)) ELSE list

TakenOf(list, t) == Taken(Taken(list, t, t.from, "spent"), t, t.to, "receipt")

LEMMA TakenStays ==
  ASSUME cursor \in Nat, accounts \subseteq Addresses,
         NEW list \in Seq(Entry), NEW t \in Wbtc!Transfers,
         NEW party \in Parties, NEW type \in {"spent", "receipt"}
  PROVE  /\ Taken(list, t, party, type) \in Seq(Entry)
         /\ party \in accounts =>
              /\ Wbtc!Row(t, party, type) \in Entry
              /\ Wbtc!Row(t, party, type).account = party
<1>1. ASSUME party \in accounts
      PROVE  Wbtc!Row(t, party, type) \in Entry /\ Wbtc!Row(t, party, type).account = party
  <2>1. party \in Addresses /\ cursor + 1 \in Nat
    BY <1>1
  <2> QED
    BY <2>1 DEF Wbtc!Row, Entry, Wbtc!Transfers
<1>2. \A e \in Entry : Append(list, e) \in Seq(Entry)
  OBVIOUS
<1> QED
  BY <1>1, <1>2 DEF Taken

LEMMA RowsAreTaken ==
  ASSUME cursor \in Nat, accounts \subseteq Addresses,
         NEW list \in Seq(Entry), NEW t \in Wbtc!Transfers
  PROVE  list \o Wbtc!RowsOf(t) = TakenOf(list, t) /\ TakenOf(list, t) \in Seq(Entry)
<1>0. t.from \in Parties /\ t.to \in Parties
  BY DEF Wbtc!Transfers
<1> DEFINE a == Wbtc!Row(t, t.from, "spent")
<1> DEFINE b == Wbtc!Row(t, t.to, "receipt")
<1>1. (t.from \in accounts => a \in Entry) /\ (t.to \in accounts => b \in Entry)
  BY <1>0, TakenStays
<1>2. TakenOf(list, t) \in Seq(Entry)
  BY <1>0, TakenStays DEF TakenOf
<1>3. Wbtc!RowsOf(t) = (IF t.from \in accounts THEN <<a>> ELSE <<>>)
                         \o (IF t.to \in accounts THEN <<b>> ELSE <<>>)
  BY DEF Wbtc!RowsOf
<1>4. TakenOf(list, t) =
        LET one == IF t.from \in accounts THEN Append(list, a) ELSE list
        IN  IF t.to \in accounts THEN Append(one, b) ELSE one
  BY DEF TakenOf, Taken
<1> HIDE DEF a, b
<1>5. ASSUME NEW x \in Entry
      PROVE  /\ list \o (<<x>> \o <<>>) = Append(list, x)
             /\ list \o (<<>> \o <<x>>) = Append(list, x)
             /\ \A y \in Entry : list \o (<<x>> \o <<y>>) = Append(Append(list, x), y)
  <2>1. <<x>> \in Seq(Entry) /\ <<x>> \o <<>> = <<x>> /\ <<>> \o <<x>> = <<x>>
    OBVIOUS
  <2>2. list \o <<x>> = Append(list, x)
    OBVIOUS
  <2>3. ASSUME NEW y \in Entry
        PROVE  list \o (<<x>> \o <<y>>) = Append(Append(list, x), y)
    <3>1. <<y>> \in Seq(Entry) /\ Append(list, x) \in Seq(Entry)
      OBVIOUS
    <3>2. (list \o <<x>>) \o <<y>> = list \o (<<x>> \o <<y>>)
      BY <2>1, <3>1, ConcatAssociative
    <3>3. Append(Append(list, x), y) = Append(list, x) \o <<y>>
      BY <3>1, AppendIsConcat
    <3> QED
      BY <2>2, <3>2, <3>3
  <2> QED
    BY <2>1, <2>2, <2>3
<1>6. list \o (<<>> \o <<>>) = list
  <2>1. <<>> \in Seq(Entry)
    OBVIOUS
  <2>2. <<>> \o <<>> = <<>>
    BY <2>1, ConcatEmptySeq
  <2>3. list \o <<>> = list
    BY ConcatEmptySeq
  <2> QED
    BY <2>2, <2>3
<1>7. CASE t.from \in accounts /\ t.to \in accounts
  <2>1. Wbtc!RowsOf(t) = <<a>> \o <<b>>
    BY <1>3, <1>7
  <2>2. TakenOf(list, t) = Append(Append(list, a), b)
    BY <1>4, <1>7
  <2>3. a \in Entry /\ b \in Entry
    BY <1>1, <1>7
  <2>4. list \o (<<a>> \o <<b>>) = Append(Append(list, a), b)
    BY <1>5, <2>3
  <2> QED
    BY <1>2, <2>1, <2>2, <2>4
<1>8. CASE t.from \in accounts /\ t.to \notin accounts
  BY <1>1, <1>3, <1>2, <1>4, <1>5, <1>8
<1>9. CASE t.from \notin accounts /\ t.to \in accounts
  BY <1>1, <1>3, <1>2, <1>4, <1>5, <1>9
<1>10. CASE t.from \notin accounts /\ t.to \notin accounts
  BY <1>2, <1>3, <1>4, <1>6, <1>10
<1> QED
  BY <1>2, <1>7, <1>8, <1>9, <1>10

\* The list of a block's rows, one transfer after the other.
MatchedBy(transfers, f) ==
  f = [n \in 0 .. Len(transfers) |->
         IF n = 0 THEN <<>> ELSE f[n - 1] \o Wbtc!RowsOf(transfers[n])]

LEMMA MatchedUnfolds ==
  ASSUME NEW transfers, NEW g, MatchedBy(transfers, g)
  PROVE  \E f : MatchedBy(transfers, f) /\ Wbtc!Matched(transfers) = f[Len(transfers)]
BY DEF Wbtc!Matched, MatchedBy

LEMMA MatchedUpTo ==
  ASSUME cursor \in Nat, accounts \subseteq Addresses, NEW transfers \in Seq(Wbtc!Transfers)
  PROVE  \E f \in [0 .. Len(transfers) -> Seq(Entry)] :
           /\ f[0] = <<>>
           /\ \A n \in 1 .. Len(transfers) : f[n] = TakenOf(f[n - 1], transfers[n])
           /\ Wbtc!Matched(transfers) = f[Len(transfers)]
<1> DEFINE last == Len(transfers)
<1>0. last \in Nat /\ <<>> \in Seq(Entry) /\ \A n \in 1 .. last : transfers[n] \in Wbtc!Transfers
  OBVIOUS
<1>1. \A n \in 1 .. last, v \in Seq(Entry) :
        /\ v \o Wbtc!RowsOf(transfers[n]) = TakenOf(v, transfers[n])
        /\ TakenOf(v, transfers[n]) \in Seq(Entry)
  BY <1>0, RowsAreTaken
<1> DEFINE step == [n \in 1 .. last |-> [v \in Seq(Entry) |-> TakenOf(v, transfers[n])]]
<1>2. step \in Steps(last, Seq(Entry))
  BY <1>1 DEF Steps
<1>3. \A n \in 1 .. last, v \in Seq(Entry) : step[n][v] = TakenOf(v, transfers[n])
  OBVIOUS
<1> HIDE DEF step
<1>4. PICK g : Iterates(g, last, Seq(Entry), <<>>, step)
  BY <1>0, <1>2, Iterated
<1>5. /\ g \in [0 .. last -> Seq(Entry)] /\ g[0] = <<>>
      /\ \A n \in 1 .. last : g[n] = step[n][g[n - 1]]
  BY <1>4 DEF Iterates
<1>6. \A n \in 1 .. last : g[n] = g[n - 1] \o Wbtc!RowsOf(transfers[n])
  <2> TAKE n \in 1 .. last
  <2>1. n - 1 \in 0 .. last
    BY <1>0
  <2>2. g[n - 1] \in Seq(Entry)
    BY <1>5, <2>1
  <2> QED
    BY <1>1, <1>3, <1>5, <2>2
<1>7. MatchedBy(transfers, g)
  <2>1. \A n \in 0 .. last : n = 0 \/ n \in 1 .. last
    BY <1>0
  <2>2. \A n \in 0 .. last :
          g[n] = IF n = 0 THEN <<>> ELSE g[n - 1] \o Wbtc!RowsOf(transfers[n])
    BY <1>5, <1>6, <2>1
  <2>3. g = [n \in 0 .. last |-> g[n]]
    BY <1>5
  <2> QED
    BY <2>2, <2>3 DEF MatchedBy
<1>8. PICK f : MatchedBy(transfers, f) /\ Wbtc!Matched(transfers) = f[last]
  BY <1>7, MatchedUnfolds
<1>9. /\ f = [n \in 0 .. last |-> f[n]] /\ f[0] = <<>>
      /\ \A n \in 1 .. last : f[n] = f[n - 1] \o Wbtc!RowsOf(transfers[n])
  <2>1. 0 \in 0 .. last /\ \A n \in 1 .. last : n \in 0 .. last /\ n # 0
    BY <1>0
  <2> QED
    BY <1>8, <2>1 DEF MatchedBy
<1> DEFINE good == {n \in 0 .. last : f[n] \in Seq(Entry)}
<1>10. 0 \in good
  BY <1>0, <1>9
<1>11. ASSUME NEW n \in 1 .. last, n - 1 \in good PROVE n \in good
  <2>1. f[n] = TakenOf(f[n - 1], transfers[n]) /\ f[n] \in Seq(Entry)
    BY <1>1, <1>9, <1>11
  <2> QED
    BY <1>0, <2>1
<1> HIDE DEF good
<1>12. \A n \in 0 .. last : n \in good
  BY <1>0, <1>10, <1>11, UpTo
<1>13. \A n \in 0 .. last : f[n] \in Seq(Entry)
  BY <1>12 DEF good
<1>14. f \in [0 .. last -> Seq(Entry)]
  BY <1>9, <1>13
<1>15. \A n \in 1 .. last : f[n] = TakenOf(f[n - 1], transfers[n])
  <2> TAKE n \in 1 .. last
  <2>1. n - 1 \in 0 .. last
    BY <1>0
  <2> QED
    BY <1>1, <1>9, <1>13, <2>1
<1> QED
  BY <1>8, <1>9, <1>14, <1>15

\* The side of a transfer that a row of a type is for.
Side(t, type) == IF type = "spent" THEN t.from ELSE t.to

\* The transfers of a block that a row stands for.
PartOf(block, row) ==
  {n \in DOMAIN block : block[n].tx = row.tx /\ row.account = Side(block[n], row.type)}

ComesFrom(e, t) ==
  /\ e.tx = t.tx /\ e.account = Side(t, e.type) /\ e.account \in accounts
  /\ e.amount = t.amount /\ e.from = t.from /\ e.to = t.to /\ e.block = cursor + 1

\* What is taken of a transfer: its two sides, no more.
LEMMA TakenIs ==
  ASSUME cursor \in Nat, accounts \subseteq Addresses,
         NEW list \in Seq(Entry), NEW t \in Wbtc!Transfers, NEW type \in {"spent", "receipt"}
  PROVE  LET new == Taken(list, t, Side(t, type), type) IN
         /\ new \in Seq(Entry) /\ Len(list) <= Len(new)
         /\ \A j \in 1 .. Len(list) : new[j] = list[j]
         /\ \A j \in 1 .. Len(new) : j \in 1 .. Len(list) \/ ComesFrom(new[j], t)
         /\ Side(t, type) \in accounts =>
              \E j \in 1 .. Len(new) : new[j].tx = t.tx /\ new[j].account = Side(t, type)
         /\ \A row : Wbtc!Total(new, Alike(new, row)) =
              Wbtc!Total(list, Alike(list, row)) +
                IF /\ Side(t, type) \in accounts
                   /\ t.tx = row.tx /\ Side(t, type) = row.account /\ type = row.type
                THEN t.amount ELSE 0
<1> DEFINE party == Side(t, type)
<1> DEFINE e == Wbtc!Row(t, party, type)
<1> DEFINE new == Taken(list, t, party, type)
<1>0. party \in Parties
  BY DEF Side, Wbtc!Transfers
<1>1. /\ e.tx = t.tx /\ e.account = party /\ e.type = type /\ e.amount = t.amount
      /\ e.from = t.from /\ e.to = t.to /\ e.block = cursor + 1
  BY DEF Wbtc!Row
<1>2. new \in Seq(Entry) /\ (party \in accounts => e \in Entry)
  BY <1>0, TakenStays
<1>3. \A row : Wbtc!Total(list, Alike(list, row)) \in Nat
  <2>1. \A x \in Entry : x.amount \in Nat
    BY DEF Entry
  <2> TAKE row
  <2>2. PICK f \in [0 .. Len(list) -> Nat] : Wbtc!Total(list, Alike(list, row)) = f[Len(list)]
    BY <2>1, TotalUpTo
  <2>3. Len(list) \in 0 .. Len(list)
    OBVIOUS
  <2> QED
    BY <2>2, <2>3
<1>4. CASE party \in accounts
  <2>1. new = Append(list, e) /\ e \in Entry
    BY <1>2, <1>4 DEF Taken
  <2>2. \A row : Wbtc!Total(Append(list, e), Alike(Append(list, e), row)) =
                   Wbtc!Total(list, Alike(list, row)) + IF SameKind(e, row) THEN e.amount ELSE 0
    BY <2>1, TotalAppend
  <2>3. ComesFrom(e, t)
    BY <1>1, <1>4 DEF ComesFrom
  <2> HIDE DEF e, new, party
  <2>4. /\ Len(list) \in Nat /\ Len(Append(list, e)) = Len(list) + 1
        /\ \A j \in 1 .. Len(list) : Append(list, e)[j] = list[j]
        /\ Append(list, e)[Len(list) + 1] = e
    OBVIOUS
  <2>5. \A j \in 1 .. Len(new) : j \in 1 .. Len(list) \/ new[j] = e
    BY <2>1, <2>4
  <2>6. Len(list) + 1 \in 1 .. Len(new) /\ new[Len(list) + 1] = e
    BY <2>1, <2>4
  <2>7. \A row : Wbtc!Total(new, Alike(new, row)) =
          Wbtc!Total(list, Alike(list, row)) +
            IF party \in accounts /\ t.tx = row.tx /\ party = row.account /\ type = row.type
            THEN t.amount ELSE 0
    BY <1>1, <1>4, <2>1, <2>2 DEF SameKind
  <2>8. Len(list) <= Len(new) /\ \A j \in 1 .. Len(list) : new[j] = list[j]
    BY <2>1, <2>4
  <2>9. \E j \in 1 .. Len(new) : new[j].tx = t.tx /\ new[j].account = party
    BY <1>1, <2>6
  <2>10. \A j \in 1 .. Len(new) : j \in 1 .. Len(list) \/ ComesFrom(new[j], t)
    BY <2>3, <2>5
  <2> QED
    BY <1>2, <2>7, <2>8, <2>9, <2>10 DEF new, party
<1>5. CASE party \notin accounts
  <2>1. new = list
    BY <1>5 DEF Taken
  <2>2. \A row : Wbtc!Total(list, Alike(list, row)) + 0 = Wbtc!Total(list, Alike(list, row))
    BY <1>3
  <2> HIDE DEF party, new
  <2> QED
    BY <1>2, <1>5, <2>1, <2>2 DEF new, party
<1> QED
  BY <1>4, <1>5

\* What a list becomes with the rows of a transfer.
Grows(list, t, new) ==
  /\ new \in Seq(Entry) /\ Len(list) <= Len(new)
  /\ \A j \in 1 .. Len(list) : new[j] = list[j]
  /\ \A j \in 1 .. Len(new) : j \in 1 .. Len(list) \/ ComesFrom(new[j], t)
  /\ \A a \in {t.from, t.to} \cap accounts :
       \E j \in 1 .. Len(new) : new[j].tx = t.tx /\ new[j].account = a
  /\ \A row : row.account \in accounts /\ row.type \in {"spent", "receipt"} =>
       Wbtc!Total(new, Alike(new, row)) =
         Wbtc!Total(list, Alike(list, row)) +
           IF t.tx = row.tx /\ row.account = Side(t, row.type) THEN t.amount ELSE 0

LEMMA TakenOfIs ==
  ASSUME cursor \in Nat, accounts \subseteq Addresses,
         NEW list \in Seq(Entry), NEW t \in Wbtc!Transfers
  PROVE  Grows(list, t, TakenOf(list, t))
<1> DEFINE one == Taken(list, t, Side(t, "spent"), "spent")
<1> DEFINE new == Taken(one, t, Side(t, "receipt"), "receipt")
<1>0. TakenOf(list, t) = new /\ Side(t, "spent") = t.from /\ Side(t, "receipt") = t.to
  BY DEF TakenOf, Side
<1>1. /\ one \in Seq(Entry) /\ Len(list) <= Len(one)
      /\ \A j \in 1 .. Len(list) : one[j] = list[j]
      /\ \A j \in 1 .. Len(one) : j \in 1 .. Len(list) \/ ComesFrom(one[j], t)
      /\ t.from \in accounts =>
           \E j \in 1 .. Len(one) : one[j].tx = t.tx /\ one[j].account = t.from
      /\ \A row : Wbtc!Total(one, Alike(one, row)) =
           Wbtc!Total(list, Alike(list, row)) +
             IF /\ t.from \in accounts
                /\ t.tx = row.tx /\ t.from = row.account /\ "spent" = row.type
             THEN t.amount ELSE 0
  <2>1. "spent" \in {"spent", "receipt"}
    OBVIOUS
  <2>2. LET x == Taken(list, t, Side(t, "spent"), "spent") IN
        /\ x \in Seq(Entry) /\ Len(list) <= Len(x)
        /\ \A j \in 1 .. Len(list) : x[j] = list[j]
        /\ \A j \in 1 .. Len(x) : j \in 1 .. Len(list) \/ ComesFrom(x[j], t)
        /\ Side(t, "spent") \in accounts =>
             \E j \in 1 .. Len(x) : x[j].tx = t.tx /\ x[j].account = Side(t, "spent")
        /\ \A row : Wbtc!Total(x, Alike(x, row)) =
             Wbtc!Total(list, Alike(list, row)) +
               IF /\ Side(t, "spent") \in accounts
                  /\ t.tx = row.tx /\ Side(t, "spent") = row.account /\ "spent" = row.type
               THEN t.amount ELSE 0
    BY <2>1, TakenIs
  <2> QED
    BY <1>0, <2>2
<1> HIDE DEF one
<1>2. /\ new \in Seq(Entry) /\ Len(one) <= Len(new)
      /\ \A j \in 1 .. Len(one) : new[j] = one[j]
      /\ \A j \in 1 .. Len(new) : j \in 1 .. Len(one) \/ ComesFrom(new[j], t)
      /\ t.to \in accounts =>
           \E j \in 1 .. Len(new) : new[j].tx = t.tx /\ new[j].account = t.to
      /\ \A row : Wbtc!Total(new, Alike(new, row)) =
           Wbtc!Total(one, Alike(one, row)) +
             IF /\ t.to \in accounts
                /\ t.tx = row.tx /\ t.to = row.account /\ "receipt" = row.type
             THEN t.amount ELSE 0
  <2>1. "receipt" \in {"spent", "receipt"}
    OBVIOUS
  <2>2. LET x == Taken(one, t, Side(t, "receipt"), "receipt") IN
        /\ x \in Seq(Entry) /\ Len(one) <= Len(x)
        /\ \A j \in 1 .. Len(one) : x[j] = one[j]
        /\ \A j \in 1 .. Len(x) : j \in 1 .. Len(one) \/ ComesFrom(x[j], t)
        /\ Side(t, "receipt") \in accounts =>
             \E j \in 1 .. Len(x) : x[j].tx = t.tx /\ x[j].account = Side(t, "receipt")
        /\ \A row : Wbtc!Total(x, Alike(x, row)) =
             Wbtc!Total(one, Alike(one, row)) +
               IF /\ Side(t, "receipt") \in accounts
                  /\ t.tx = row.tx /\ Side(t, "receipt") = row.account /\ "receipt" = row.type
               THEN t.amount ELSE 0
    BY <1>1, <2>1, TakenIs
  <2> QED
    BY <1>0, <2>2
<1> HIDE DEF new
<1>3. Len(list) \in Nat /\ Len(one) \in Nat /\ Len(new) \in Nat
  BY <1>1, <1>2
<1>4. Len(list) <= Len(new) /\ \A j \in 1 .. Len(list) : new[j] = list[j]
  BY <1>1, <1>2, <1>3
<1>5. \A j \in 1 .. Len(new) : j \in 1 .. Len(list) \/ ComesFrom(new[j], t)
  BY <1>1, <1>2, <1>3
<1>6. ASSUME NEW a \in {t.from, t.to} \cap accounts
      PROVE  \E j \in 1 .. Len(new) : new[j].tx = t.tx /\ new[j].account = a
  <2>1. CASE a = t.to
    BY <1>2, <2>1
  <2>2. CASE a = t.from
    <3>1. PICK j \in 1 .. Len(one) : one[j].tx = t.tx /\ one[j].account = t.from
      BY <1>1, <2>2
    <3>2. j \in 1 .. Len(new) /\ new[j] = one[j]
      BY <1>2, <1>3
    <3> QED
      BY <2>2, <3>1, <3>2
  <2> QED
    BY <2>1, <2>2
<1>7. ASSUME NEW row, row.account \in accounts, row.type \in {"spent", "receipt"}
      PROVE  Wbtc!Total(new, Alike(new, row)) =
               Wbtc!Total(list, Alike(list, row)) +
                 IF t.tx = row.tx /\ row.account = Side(t, row.type) THEN t.amount ELSE 0
  <2>0. Wbtc!Total(list, Alike(list, row)) \in Nat /\ t.amount \in Nat
    <3>1. \A x \in Entry : x.amount \in Nat
      BY DEF Entry
    <3>2. PICK f \in [0 .. Len(list) -> Nat] : Wbtc!Total(list, Alike(list, row)) = f[Len(list)]
      BY <3>1, TotalUpTo
    <3>3. Len(list) \in 0 .. Len(list)
      BY <1>3
    <3> QED
      BY <3>2, <3>3 DEF Wbtc!Transfers
  <2>1. Wbtc!Total(one, Alike(one, row)) =
          Wbtc!Total(list, Alike(list, row)) +
            IF /\ t.from \in accounts
               /\ t.tx = row.tx /\ t.from = row.account /\ "spent" = row.type
            THEN t.amount ELSE 0
    BY <1>1
  <2>2. Wbtc!Total(new, Alike(new, row)) =
          Wbtc!Total(one, Alike(one, row)) +
            IF /\ t.to \in accounts
               /\ t.tx = row.tx /\ t.to = row.account /\ "receipt" = row.type
            THEN t.amount ELSE 0
    BY <1>2
  <2>3. CASE row.type = "spent"
    BY <1>7, <2>0, <2>1, <2>2, <2>3 DEF Side
  <2>4. CASE row.type = "receipt"
    BY <1>7, <2>0, <2>1, <2>2, <2>4 DEF Side
  <2> QED
    BY <1>7, <2>3, <2>4
<1> QED
  BY <1>0, <1>2, <1>4, <1>5, <1>6, <1>7 DEF Grows

\* Of a block: each row comes from a transfer of it, each account of a transfer
\* has a row, and the rows of a kind add up to the transfers that they stand for.
LEMMA MatchedIs ==
  ASSUME cursor \in Nat, accounts \subseteq Addresses, NEW transfers \in Seq(Wbtc!Transfers)
  PROVE  LET m == Wbtc!Matched(transfers) IN
         /\ m \in Seq(Entry)
         /\ \A j \in 1 .. Len(m) : \E n \in 1 .. Len(transfers) : ComesFrom(m[j], transfers[n])
         /\ \A n \in 1 .. Len(transfers) :
              \A a \in {transfers[n].from, transfers[n].to} \cap accounts :
                \E j \in 1 .. Len(m) : m[j].tx = transfers[n].tx /\ m[j].account = a
         /\ \A row : row.account \in accounts /\ row.type \in {"spent", "receipt"} =>
              Wbtc!Total(m, Alike(m, row)) = Wbtc!Total(transfers, PartOf(transfers, row))
<1> DEFINE last == Len(transfers)
<1>0. last \in Nat /\ \A n \in 1 .. last : transfers[n] \in Wbtc!Transfers
  OBVIOUS
<1>1. PICK f \in [0 .. last -> Seq(Entry)] :
        /\ f[0] = <<>>
        /\ \A n \in 1 .. last : f[n] = TakenOf(f[n - 1], transfers[n])
        /\ Wbtc!Matched(transfers) = f[last]
  BY MatchedUpTo
<1>2. ASSUME NEW n \in 1 .. last
      PROVE  Grows(f[n - 1], transfers[n], f[n]) /\ f[n - 1] \in Seq(Entry)
  <2>1. n - 1 \in 0 .. last
    BY <1>0
  <2>2. f[n - 1] \in Seq(Entry) /\ transfers[n] \in Wbtc!Transfers
    BY <1>0, <2>1
  <2>3. f[n] = TakenOf(f[n - 1], transfers[n])
    BY <1>1
  <2> QED
    BY <2>2, <2>3, TakenOfIs
<1> DEFINE come == {m \in 0 .. last :
      \A j \in 1 .. Len(f[m]) : \E n \in 1 .. m : ComesFrom(f[m][j], transfers[n])}
<1>3. 0 \in come
  BY <1>0, <1>1
<1>4. ASSUME NEW n \in 1 .. last, n - 1 \in come PROVE n \in come
  <2>1. \A j \in 1 .. Len(f[n - 1]) : \E k \in 1 .. n - 1 : ComesFrom(f[n - 1][j], transfers[k])
    BY <1>4
  <2>2. ASSUME NEW j \in 1 .. Len(f[n]) PROVE \E k \in 1 .. n : ComesFrom(f[n][j], transfers[k])
    <3>1. CASE j \in 1 .. Len(f[n - 1])
      <4>1. f[n][j] = f[n - 1][j]
        BY <1>2, <3>1 DEF Grows
      <4>2. \A k \in 1 .. n - 1 : k \in 1 .. n
        BY <1>0
      <4> QED
        BY <2>1, <3>1, <4>1, <4>2
    <3>2. CASE j \notin 1 .. Len(f[n - 1])
      <4>1. ComesFrom(f[n][j], transfers[n]) /\ n \in 1 .. n
        BY <1>0, <1>2, <3>2 DEF Grows
      <4> QED
        BY <4>1
    <3> QED
      BY <3>1, <3>2
  <2> QED
    BY <1>0, <2>2
<1> HIDE DEF come
<1>5. last \in come
  <2>1. \A n \in 0 .. last : n \in come
    BY <1>0, <1>3, <1>4, UpTo
  <2> QED
    BY <1>0, <2>1
<1> DEFINE have == {m \in 0 .. last : \A n \in 1 .. m :
      \A a \in {transfers[n].from, transfers[n].to} \cap accounts :
        \E j \in 1 .. Len(f[m]) : f[m][j].tx = transfers[n].tx /\ f[m][j].account = a}
<1>6. 0 \in have
  BY <1>0
<1>7. ASSUME NEW m \in 1 .. last, m - 1 \in have PROVE m \in have
  <2>1. \A n \in 1 .. m - 1 : \A a \in {transfers[n].from, transfers[n].to} \cap accounts :
          \E j \in 1 .. Len(f[m - 1]) :
            f[m - 1][j].tx = transfers[n].tx /\ f[m - 1][j].account = a
    BY <1>7
  <2>2. ASSUME NEW n \in 1 .. m, NEW a \in {transfers[n].from, transfers[n].to} \cap accounts
        PROVE  \E j \in 1 .. Len(f[m]) : f[m][j].tx = transfers[n].tx /\ f[m][j].account = a
    <3>1. CASE n = m
      BY <1>2, <3>1 DEF Grows
    <3>2. CASE n # m
      <4>1. n \in 1 .. m - 1
        BY <1>0, <3>2
      <4>2. PICK j \in 1 .. Len(f[m - 1]) :
              f[m - 1][j].tx = transfers[n].tx /\ f[m - 1][j].account = a
        BY <2>1, <4>1
      <4>3. /\ f[m][j] = f[m - 1][j] /\ Len(f[m - 1]) <= Len(f[m])
            /\ f[m - 1] \in Seq(Entry) /\ f[m] \in Seq(Entry)
        BY <1>2 DEF Grows
      <4>4. j \in 1 .. Len(f[m])
        BY <4>3
      <4> QED
        BY <4>2, <4>3, <4>4
    <3> QED
      BY <3>1, <3>2
  <2> QED
    BY <1>0, <2>2
<1> HIDE DEF have
<1>8. last \in have
  <2>1. \A n \in 0 .. last : n \in have
    BY <1>0, <1>6, <1>7, UpTo
  <2> QED
    BY <1>0, <2>1
<1>9. ASSUME NEW row, row.account \in accounts, row.type \in {"spent", "receipt"}
      PROVE  Wbtc!Total(f[last], Alike(f[last], row))
               = Wbtc!Total(transfers, PartOf(transfers, row))
  <2>1. \A t \in Wbtc!Transfers : t.amount \in Nat
    BY DEF Wbtc!Transfers
  <2>2. PICK g \in [0 .. last -> Nat] :
          /\ g[0] = 0
          /\ \A n \in 1 .. last : g[n] = g[n - 1] + Adds(transfers, PartOf(transfers, row), n)
          /\ Wbtc!Total(transfers, PartOf(transfers, row)) = g[last]
    BY <2>1, TotalUpTo
  <2> DEFINE sums == {n \in 0 .. last : Wbtc!Total(f[n], Alike(f[n], row)) = g[n]}
  <2>3. 0 \in sums
    <3>1. <<>> \in Seq(Entry) /\ Len(<<>>) = 0 /\ \A x \in Entry : x.amount \in Nat
      BY DEF Entry
    <3>2. PICK z \in [0 .. Len(<<>>) -> Nat] :
            z[0] = 0 /\ Wbtc!Total(<<>>, Alike(<<>>, row)) = z[Len(<<>>)]
      BY <3>1, TotalUpTo
    <3>3. Wbtc!Total(<<>>, Alike(<<>>, row)) = 0
      BY <3>1, <3>2
    <3>4. f[0] = <<>> /\ 0 \in 0 .. last /\ g[0] = 0
      BY <1>0, <1>1, <2>2
    <3>5. Wbtc!Total(f[0], Alike(f[0], row)) = g[0]
      BY <3>3, <3>4
    <3> QED
      BY <3>4, <3>5
  <2>4. ASSUME NEW n \in 1 .. last, n - 1 \in sums PROVE n \in sums
    <3>1. Wbtc!Total(f[n], Alike(f[n], row)) =
            Wbtc!Total(f[n - 1], Alike(f[n - 1], row)) +
              IF transfers[n].tx = row.tx /\ row.account = Side(transfers[n], row.type)
              THEN transfers[n].amount ELSE 0
      BY <1>2, <1>9 DEF Grows
    <3>2. n \in DOMAIN transfers
      BY <1>0
    <3>3. Adds(transfers, PartOf(transfers, row), n) =
            IF transfers[n].tx = row.tx /\ row.account = Side(transfers[n], row.type)
            THEN transfers[n].amount ELSE 0
      BY <3>2 DEF Adds, PartOf
    <3>4. Wbtc!Total(f[n - 1], Alike(f[n - 1], row)) = g[n - 1]
      BY <2>4
    <3>5. Wbtc!Total(f[n], Alike(f[n], row)) = g[n]
      BY <2>2, <3>1, <3>3, <3>4
    <3> QED
      BY <1>0, <3>5
  <2> HIDE DEF sums
  <2>5. last \in sums
    <3>1. \A n \in 0 .. last : n \in sums
      BY <1>0, <2>3, <2>4, UpTo
    <3> QED
      BY <1>0, <3>1
  <2> QED
    BY <2>2, <2>5 DEF sums
<1>10. f[last] \in Seq(Entry)
  <2>1. last \in 0 .. last
    BY <1>0
  <2> QED
    BY <2>1
<1>11. \A j \in 1 .. Len(f[last]) : \E n \in 1 .. last : ComesFrom(f[last][j], transfers[n])
  BY <1>5 DEF come
<1>12. \A n \in 1 .. last : \A a \in {transfers[n].from, transfers[n].to} \cap accounts :
         \E j \in 1 .. Len(f[last]) :
           f[last][j].tx = transfers[n].tx /\ f[last][j].account = a
  BY <1>8 DEF have
<1>13. Wbtc!Matched(transfers) = f[last]
  BY <1>1
<1> QED
  BY <1>9, <1>10, <1>11, <1>12, <1>13

LEMMA TotalIsNat ==
  ASSUME NEW list \in Seq(Entry), NEW group
  PROVE  Wbtc!Total(list, group) \in Nat
<1>1. \A x \in Entry : x.amount \in Nat
  BY DEF Entry
<1>2. PICK f \in [0 .. Len(list) -> Nat] : Wbtc!Total(list, group) = f[Len(list)]
  BY <1>1, TotalUpTo
<1>3. Len(list) \in 0 .. Len(list)
  OBVIOUS
<1> QED
  BY <1>2, <1>3

\* The first of the largest rows.
Leads(list, group, j) ==
  \A k \in group :
    \/ list[k].amount < list[j].amount
    \/ list[k].amount = list[j].amount /\ j <= k

LEMMA LargestFound ==
  ASSUME NEW list \in Seq(Entry), NEW group, group \subseteq 1 .. Len(list), group # {}
  PROVE  \E j \in group : Leads(list, group, j)
<1>0. Len(list) \in Nat /\ \A k \in group : k \in Nat /\ list[k].amount \in Nat
  <2>1. \A k \in 1 .. Len(list) : list[k] \in Entry
    OBVIOUS
  <2>2. \A x \in Entry : x.amount \in Nat
    BY DEF Entry
  <2>3. Len(list) \in Nat /\ \A k \in group : k \in 1 .. Len(list)
    OBVIOUS
  <2> QED
    BY <2>1, <2>2, <2>3
<1> DEFINE part(n) == group \cap (1 .. n)
<1> DEFINE good == {n \in 0 .. Len(list) :
             part(n) = {} \/ \E j \in part(n) : Leads(list, part(n), j)}
<1>1. 0 \in good
  <2>1. part(0) = {}
    <3>1. \A k \in 1 .. 0 : FALSE
      OBVIOUS
    <3> QED
      BY <3>1
  <2>2. 0 \in 0 .. Len(list)
    BY <1>0
  <2> HIDE DEF part
  <2> QED
    BY <2>1, <2>2
<1>2. ASSUME NEW n \in 1 .. Len(list), n - 1 \in good PROVE n \in good
  <2>1. CASE n \notin group
    <3>1. part(n) = part(n - 1)
      BY <1>0, <2>1
    <3> HIDE DEF part
    <3> QED
      BY <1>0, <1>2, <3>1
  <2>2. CASE n \in group
    <3>1. /\ part(n) = part(n - 1) \cup {n}
          /\ \A k \in part(n - 1) :
               k < n /\ k \in Nat /\ list[k].amount \in Nat
          /\ n \in Nat /\ list[n].amount \in Nat
      BY <1>0, <2>2
    <3> HIDE DEF part
    <3>2. part(n - 1) = {} \/ \E j \in part(n - 1) : Leads(list, part(n - 1), j)
      BY <1>2
    <3>3. \E j \in part(n) : Leads(list, part(n), j)
      <4>1. CASE part(n - 1) = {}
        BY <1>0, <2>2, <3>1, <4>1 DEF Leads
      <4>2. CASE part(n - 1) # {}
        <5>1. PICK j \in part(n - 1) : Leads(list, part(n - 1), j)
          BY <3>2, <4>2
        <5>2. CASE list[n].amount <= list[j].amount
          <6>1. list[n].amount < list[j].amount \/ (list[n].amount = list[j].amount /\ j <= n)
            BY <3>1, <5>2
          <6>2. Leads(list, part(n), j)
            BY <3>1, <5>1, <6>1 DEF Leads
          <6> QED
            BY <3>1, <6>2
        <5>3. CASE ~(list[n].amount <= list[j].amount)
          <6>1. ASSUME NEW k \in part(n - 1) PROVE list[k].amount < list[n].amount
            <7>1. list[k].amount <= list[j].amount
              BY <3>1, <5>1 DEF Leads
            <7> QED
              BY <3>1, <5>3, <7>1
          <6>2. Leads(list, part(n), n)
            BY <3>1, <6>1 DEF Leads
          <6> QED
            BY <3>1, <6>2
        <5> QED
          BY <5>2, <5>3
      <4> QED
        BY <4>1, <4>2
    <3> QED
      BY <1>0, <3>3
  <2> QED
    BY <2>1, <2>2
<1>3. part(Len(list)) = group
  BY <1>0
<1> HIDE DEF good
<1>4. Len(list) \in good
  <2>1. \A n \in 0 .. Len(list) : n \in good
    BY <1>0, <1>1, <1>2, UpTo
  <2> QED
    BY <1>0, <2>1
<1> QED
  BY <1>3, <1>4 DEF good

\* A merged row is of its kind, with the sum of the kind.
LEMMA MergedIs ==
  ASSUME NEW list \in Seq(Entry), NEW i \in DOMAIN list
  PROVE  /\ Wbtc!MergedRow(list, i) \in Entry
         /\ SameKind(Wbtc!MergedRow(list, i), list[i])
         /\ Wbtc!MergedRow(list, i).amount = Wbtc!Total(list, Alike(list, list[i]))
         /\ \E j \in DOMAIN list :
              /\ SameKind(list[j], list[i])
              /\ Wbtc!MergedRow(list, i).from = list[j].from
              /\ Wbtc!MergedRow(list, i).to = list[j].to
              /\ Wbtc!MergedRow(list, i).block = list[j].block
<1> DEFINE group == Alike(list, list[i])
<1> DEFINE largest == CHOOSE j \in group : \A k \in group :
                        \/ list[k].amount < list[j].amount
                        \/ list[k].amount = list[j].amount /\ j <= k
<1> DEFINE sum == Wbtc!Total(list, group)
<1>1. Wbtc!MergedRow(list, i) = [list[largest] EXCEPT !.amount = sum]
  BY DEF Wbtc!MergedRow, Alike, SameKind
<1>2. group \subseteq 1 .. Len(list) /\ i \in group
  BY DEF Alike, SameKind
<1>3. \E j \in group : \A k \in group :
         \/ list[k].amount < list[j].amount
         \/ list[k].amount = list[j].amount /\ j <= k
  <2> HIDE DEF group
  <2>1. \E j \in group : Leads(list, group, j)
    BY <1>2, LargestFound
  <2> QED
    BY <2>1 DEF Leads
<1>4. largest \in group
  BY <1>3
<1>5. sum \in Nat
  BY TotalIsNat
<1> HIDE DEF largest, sum
<1>6. largest \in DOMAIN list /\ SameKind(list[largest], list[i]) /\ list[largest] \in Entry
  BY <1>4 DEF Alike
<1>7. /\ [list[largest] EXCEPT !.amount = sum] \in Entry
      /\ SameKind([list[largest] EXCEPT !.amount = sum], list[i])
      /\ [list[largest] EXCEPT !.amount = sum].amount = sum
      /\ [list[largest] EXCEPT !.amount = sum].from = list[largest].from
      /\ [list[largest] EXCEPT !.amount = sum].to = list[largest].to
      /\ [list[largest] EXCEPT !.amount = sum].block = list[largest].block
  BY <1>5, <1>6 DEF Entry, SameKind
<1> QED
  BY <1>1, <1>6, <1>7 DEF sum

\* The list of a kind stands for the transfers of a kind.
LEMMA KindIsSide ==
  ASSUME NEW e, NEW row, SameKind(e, row), NEW block
  PROVE  PartOf(block, row) = PartOf(block, e)
BY DEF SameKind, PartOf

\* A row that stands for the transfers of a block.
StandsFor(row, block) ==
  /\ row.amount = Wbtc!Total(block, PartOf(block, row))
  /\ \E n \in PartOf(block, row) : row.from = block[n].from /\ row.to = block[n].to

SameKey(row, tx, account) == row.tx = tx /\ row.account = account

Found(list, tx, account) == {j \in DOMAIN list : SameKey(list[j], tx, account)}

\* The rows inserted for a block.
LEMMA InsertedIs ==
  ASSUME cursor \in Nat, accounts \subseteq Addresses, NEW block \in Seq(Wbtc!Transfers)
  PROVE  LET new == Wbtc!Inserted(Wbtc!Matched(block)) IN
         /\ \A row \in new : row \in Entry /\ row.block = cursor + 1 /\ StandsFor(row, block)
         /\ \A n \in DOMAIN block : \A a \in {block[n].from, block[n].to} \cap accounts :
              \E row \in rows \cup new : SameKey(row, block[n].tx, a)
<1> DEFINE m == Wbtc!Matched(block)
<1> DEFINE firsts ==
      {j \in DOMAIN m :
         /\ \A k \in DOMAIN m : SameKey(m[k], m[j].tx, m[j].account) => j <= k
         /\ \A row \in rows : ~SameKey(row, m[j].tx, m[j].account)}
<1>1. Wbtc!Inserted(m) = {Wbtc!MergedRow(m, i) : i \in firsts}
  BY DEF Wbtc!Inserted, SameKey
<1>2. /\ m \in Seq(Entry)
      /\ \A j \in 1 .. Len(m) : \E n \in 1 .. Len(block) : ComesFrom(m[j], block[n])
      /\ \A n \in 1 .. Len(block) :
           \A a \in {block[n].from, block[n].to} \cap accounts :
             \E j \in 1 .. Len(m) : m[j].tx = block[n].tx /\ m[j].account = a
      /\ \A row : row.account \in accounts /\ row.type \in {"spent", "receipt"} =>
           Wbtc!Total(m, Alike(m, row)) = Wbtc!Total(block, PartOf(block, row))
  BY MatchedIs
<1> HIDE DEF m
<1>3. DOMAIN m = 1 .. Len(m) /\ DOMAIN block = 1 .. Len(block) /\ Len(m) \in Nat
  BY <1>2
<1>4. ASSUME NEW i \in DOMAIN m
      PROVE  LET row == Wbtc!MergedRow(m, i) IN
             row \in Entry /\ row.block = cursor + 1 /\ StandsFor(row, block) /\ SameKind(row, m[i])
  <2> DEFINE row == Wbtc!MergedRow(m, i)
  <2>1. /\ row \in Entry /\ SameKind(row, m[i])
        /\ row.amount = Wbtc!Total(m, Alike(m, m[i]))
    BY <1>2, MergedIs
  <2>2. PICK j \in DOMAIN m :
          /\ SameKind(m[j], m[i])
          /\ row.from = m[j].from /\ row.to = m[j].to /\ row.block = m[j].block
    BY <1>2, MergedIs
  <2> HIDE DEF row
  <2>3. PICK n \in 1 .. Len(block) : ComesFrom(m[j], block[n])
    BY <1>2, <1>3
  <2>4. m[i] \in Entry
    BY <1>2
  <2>5. m[i].account \in accounts /\ m[i].type \in {"spent", "receipt"}
    BY <2>2, <2>3, <2>4 DEF ComesFrom, SameKind, Entry
  <2>6. Wbtc!Total(m, Alike(m, m[i])) = Wbtc!Total(block, PartOf(block, m[i]))
    BY <1>2, <2>5
  <2>7. PartOf(block, m[i]) = PartOf(block, row)
    BY <2>1, KindIsSide
  <2>8. n \in PartOf(block, row)
    BY <1>3, <2>1, <2>2, <2>3 DEF PartOf, ComesFrom, SameKind
  <2>9. row.from = block[n].from /\ row.to = block[n].to /\ row.block = cursor + 1
    BY <2>2, <2>3 DEF ComesFrom
  <2>10. StandsFor(row, block)
    BY <2>1, <2>6, <2>7, <2>8, <2>9 DEF StandsFor
  <2> QED
    BY <2>1, <2>9, <2>10 DEF row
<1>5. ASSUME NEW n \in DOMAIN block, NEW a \in {block[n].from, block[n].to} \cap accounts
      PROVE  \E row \in rows \cup Wbtc!Inserted(m) : SameKey(row, block[n].tx, a)
  <2> DEFINE found == Found(m, block[n].tx, a)
  <2>1. found # {} /\ found \subseteq Nat
    <3>1. n \in 1 .. Len(block)
      BY <1>3
    <3>2. PICK j \in 1 .. Len(m) : m[j].tx = block[n].tx /\ m[j].account = a
      BY <1>2, <3>1
    <3>3. j \in found
      BY <1>3, <3>2 DEF Found, SameKey
    <3>4. found \subseteq 1 .. Len(m)
      BY <1>3 DEF Found
    <3> QED
      BY <1>3, <3>3, <3>4
  <2>2. PICK j \in found : \A k \in found : j <= k
    <3> HIDE DEF found
    <3> QED
      BY <2>1, LeastNat
  <2>3. j \in DOMAIN m /\ SameKey(m[j], block[n].tx, a)
    BY DEF Found
  <2>4. CASE \E row \in rows : SameKey(row, m[j].tx, m[j].account)
    BY <2>3, <2>4 DEF SameKey
  <2>5. CASE ~ \E row \in rows : SameKey(row, m[j].tx, m[j].account)
    <3>1. \A k \in DOMAIN m : SameKey(m[k], m[j].tx, m[j].account) => j <= k
      BY <2>2, <2>3 DEF Found, SameKey
    <3>2. j \in firsts
      BY <2>3, <2>5, <3>1
    <3>3. Wbtc!MergedRow(m, j) \in Wbtc!Inserted(m)
      BY <1>1, <3>2
    <3>4. SameKey(Wbtc!MergedRow(m, j), block[n].tx, a)
      BY <1>4, <2>3 DEF SameKind, SameKey
    <3> QED
      BY <3>3, <3>4
  <2> QED
    BY <2>4, <2>5
<1>6. \A row \in Wbtc!Inserted(m) :
        row \in Entry /\ row.block = cursor + 1 /\ StandsFor(row, block)
  BY <1>1, <1>4
<1> QED
  BY <1>5, <1>6 DEF m

(***************************************************************************)
(* The invariant of the indexer.                                           *)
(***************************************************************************)

\* A row is of a block that is behind the cursor, and stands for transfers of it.
RowsFit == \A row \in rows : row.block <= cursor /\ StandsFor(row, chain[row.block])

\* What is owed of a height is behind the cursor, and in the table.
DueFit ==
  \A d \in due :
    /\ d[1] <= cursor
    /\ \A n \in DOMAIN chain[d[1]] :
         d[2] \in {chain[d[1]][n].from, chain[d[1]][n].to} =>
           \E row \in rows : SameKey(row, chain[d[1]][n].tx, d[2]) /\ row.block = d[1]

\* A transaction is in one block of the chain.
TxOnce ==
  \A i, j \in DOMAIN chain : \A m \in DOMAIN chain[i], n \in DOMAIN chain[j] :
    chain[i][m].tx = chain[j][n].tx => i = j

\* The cache has each account that was saved before its SELECT, which it was
\* stamped after by the lag.
CacheFits ==
  /\ \A a \in Wbtc!Known : since[a] <= now
  /\ fetchedAt # Never =>
       fetchedAt <= now /\ \A a \in Wbtc!Known : since[a] + lag < fetchedAt => a \in accounts
  /\ pc = "fetching" => owed \subseteq Wbtc!Known
  /\ pc = "selected" =>
       /\ selected.at <= now /\ owed \subseteq selected.accounts
       /\ \A a \in Wbtc!Known : since[a] < selected.at => a \in selected.accounts

IndexerInv == Wbtc!TypeOK /\ RowsFit /\ DueFit /\ TxOnce /\ CacheFits

\* Blocks on the chain are blocks, and the cursor is on it.
LEMMA OnChain ==
  ASSUME Wbtc!TypeOK
  PROVE  /\ Len(chain) \in Nat /\ DOMAIN chain = 1 .. Len(chain) /\ cursor \in Nat
         /\ \A i \in 1 .. Len(chain) :
              chain[i] \in Blocks /\ chain[i] \in Seq(Wbtc!Transfers)
BY IndexerBounds DEF Wbtc!TypeOK

\* What changes neither the chain nor the table leaves the rows as they were.
LEMMA SameTable ==
  ASSUME Wbtc!TypeOK, RowsFit, DueFit, TxOnce,
         chain' = chain, rows' = rows, due' = due, cursor' \in Nat, cursor <= cursor'
  PROVE  RowsFit' /\ DueFit' /\ TxOnce'
<1>1. \A row \in rows : row.block \in Nat
  BY DEF Wbtc!TypeOK, Wbtc!Transaction
<1>2. \A d \in due : d[1] \in Nat
  BY DEF Wbtc!TypeOK
<1>3. \A n \in Nat : n <= cursor => n <= cursor'
  BY OnChain
<1> QED
  BY <1>1, <1>2, <1>3 DEF RowsFit, DueFit, TxOnce, StandsFor, PartOf, SameKey

LEMMA InitIndexer ==
  ASSUME Wbtc!Init PROVE IndexerInv
<1>1. since \in [Addresses -> (0 .. MaxTime) \cup {Never}] /\ \A a \in Wbtc!Known : since[a] = 0
  BY IndexerBounds DEF Wbtc!Init, Wbtc!Known
<1>2. chain = <<>> /\ chain \in Seq(Blocks) /\ Len(chain) = 0 /\ DOMAIN chain = {}
  <2>1. <<>> \in Seq(Blocks) /\ Len(<<>>) = 0 /\ DOMAIN <<>> = {}
    OBVIOUS
  <2> QED
    BY <2>1 DEF Wbtc!Init
<1>3. Wbtc!TypeOK
  BY <1>1, <1>2, IndexerBounds DEF Wbtc!Init, Wbtc!TypeOK, Wbtc!NothingSelected
<1>4. TxOnce
  BY <1>2 DEF TxOnce
<1>5. RowsFit /\ DueFit /\ CacheFits
  BY <1>1 DEF Wbtc!Init, RowsFit, DueFit, CacheFits
<1> QED
  BY <1>3, <1>4, <1>5 DEF IndexerInv

LEMMA SkipEmptyBlockKeeps ==
  ASSUME IndexerInv, Wbtc!SkipEmptyBlock PROVE IndexerInv'
<1> USE DEF IndexerInv
<1>1. /\ cursor' = cursor + 1 /\ cursor < Len(chain) /\ pc = "idle"
      /\ chain' = chain /\ since' = since /\ rows' = rows /\ pc' = pc /\ accounts' = accounts
      /\ fetchedAt' = fetchedAt /\ now' = now
      /\ lag' = lag /\ selected' = selected /\ owed' = owed /\ failures' = failures
      /\ reorgs' = reorgs /\ due' = due
  BY DEF Wbtc!SkipEmptyBlock, Wbtc!process, Wbtc!cache
<1>2. cursor' \in 0 .. Len(chain) /\ cursor <= cursor' /\ cursor' \in Nat
  BY <1>1, OnChain
<1>3. Wbtc!TypeOK'
  BY <1>1, <1>2 DEF Wbtc!TypeOK
<1>4. RowsFit' /\ DueFit' /\ TxOnce'
  BY <1>1, <1>2, SameTable
<1>5. CacheFits'
  BY <1>1 DEF CacheFits, Wbtc!Known
<1> QED
  BY <1>3, <1>4, <1>5

LEMMA TransformKeeps ==
  ASSUME IndexerInv, Wbtc!Transform PROVE IndexerInv'
<1> USE DEF IndexerInv
<1>1. /\ chain' = chain /\ since' = since /\ cursor' = cursor /\ rows' = rows
      /\ accounts' = accounts /\ fetchedAt' = fetchedAt /\ now' = now
      /\ lag' = lag /\ selected' = selected
      /\ failures' = failures /\ reorgs' = reorgs /\ due' = due /\ cursor < Len(chain)
      /\ owed' = {a \in Wbtc!Known : since[a] + TTL + lag <= now}
      /\ pc' = IF Wbtc!Fresh THEN "writing" ELSE "fetching"
  BY DEF Wbtc!Transform, Wbtc!cache
<1>2. owed' \subseteq Wbtc!Known /\ Wbtc!Known \subseteq Addresses
  BY <1>1 DEF Wbtc!Known
<1>3. ASSUME Wbtc!Fresh, NEW a \in owed' PROVE a \in accounts
  <2>1. /\ a \in Wbtc!Known /\ since[a] + TTL + lag <= now /\ since[a] \in Nat
        /\ lag \in Nat
    BY <1>1, <1>3, IndexerBounds DEF Wbtc!Known, Wbtc!TypeOK
  <2>2. fetchedAt \in Nat /\ fetchedAt # Never /\ now \in Nat /\ now - fetchedAt < TTL
    BY <1>3, IndexerBounds DEF Wbtc!Fresh, Wbtc!TypeOK
  <2>3. since[a] + lag < fetchedAt
    BY <2>1, <2>2, IndexerBounds
  <2> QED
    BY <2>1, <2>2, <2>3 DEF CacheFits
<1>4. Wbtc!TypeOK'
  BY <1>1, <1>2, <1>3 DEF Wbtc!TypeOK
<1>5. cursor' \in Nat /\ cursor <= cursor'
  BY <1>1, OnChain
<1>6. RowsFit' /\ DueFit' /\ TxOnce'
  BY <1>1, <1>5, SameTable
<1>7. CacheFits'
  BY <1>1, <1>2 DEF CacheFits, Wbtc!Known
<1> QED
  BY <1>4, <1>6, <1>7

\* The SELECT has all the accounts that are there.
LEMMA SelectAccountsKeeps ==
  ASSUME IndexerInv, Wbtc!SelectAccounts PROVE IndexerInv'
<1> USE DEF IndexerInv
<1>1. /\ chain' = chain /\ since' = since /\ cursor' = cursor /\ rows' = rows
      /\ accounts' = accounts /\ fetchedAt' = fetchedAt /\ lag' = lag /\ now' = now
      /\ owed' = owed /\ failures' = failures /\ reorgs' = reorgs /\ due' = due
      /\ selected' = [accounts |-> Wbtc!Known, at |-> now]
      /\ pc = "fetching" /\ pc' = "selected"
  BY DEF Wbtc!SelectAccounts, Wbtc!cache
<1>2. Wbtc!Known' = Wbtc!Known /\ Wbtc!Known \subseteq Addresses /\ owed \subseteq Wbtc!Known
  BY <1>1 DEF Wbtc!Known, CacheFits
<1>3. now \in 0 .. MaxTime /\ now \in Nat
  BY IndexerBounds DEF Wbtc!TypeOK
<1>4. Wbtc!TypeOK'
  BY <1>1, <1>2, <1>3 DEF Wbtc!TypeOK
<1>5. cursor' \in Nat /\ cursor <= cursor'
  BY <1>1, OnChain
<1>6. RowsFit' /\ DueFit' /\ TxOnce'
  BY <1>1, <1>5, SameTable
<1>7. CacheFits'
  BY <1>1, <1>2, <1>3 DEF CacheFits
<1> QED
  BY <1>4, <1>6, <1>7

\* The accounts saved since are missing, and are younger than the SELECT.
LEMMA StampCacheKeeps ==
  ASSUME IndexerInv, Wbtc!StampCache PROVE IndexerInv'
<1> USE DEF IndexerInv
<1>1. /\ chain' = chain /\ since' = since /\ cursor' = cursor /\ rows' = rows
      /\ accounts' = selected.accounts /\ fetchedAt' = now /\ lag' = now - selected.at
      /\ now' = now /\ owed' = owed /\ failures' = failures /\ reorgs' = reorgs /\ due' = due
      /\ selected' = [accounts |-> {}, at |-> 0]
      /\ pc = "selected" /\ pc' = "writing"
  BY DEF Wbtc!StampCache, Wbtc!NothingSelected
<1>2. /\ Wbtc!Known' = Wbtc!Known
      /\ selected.at <= now /\ owed \subseteq selected.accounts
      /\ \A a \in Wbtc!Known : since[a] < selected.at => a \in selected.accounts
  BY <1>1 DEF Wbtc!Known, CacheFits
<1>3. /\ selected.accounts \subseteq Addresses
      /\ selected.at \in Nat /\ now \in Nat /\ now \in 0 .. MaxTime /\ MaxTime \in Nat
      /\ \A a \in Wbtc!Known : since[a] \in Nat
  BY IndexerBounds DEF Wbtc!TypeOK, Wbtc!Known
<1>4. lag' \in 0 .. MaxTime /\ 0 \in 0 .. MaxTime
  BY <1>1, <1>2, <1>3
<1>5. Wbtc!TypeOK'
  BY <1>1, <1>2, <1>3, <1>4 DEF Wbtc!TypeOK
<1>6. cursor' \in Nat /\ cursor <= cursor'
  BY <1>1, OnChain
<1>7. RowsFit' /\ DueFit' /\ TxOnce'
  BY <1>1, <1>6, SameTable
<1>8. \A a \in Wbtc!Known : since[a] + lag' < now => since[a] < selected.at
  BY <1>1, <1>3
<1>9. CacheFits'
  BY <1>1, <1>2, <1>3, <1>8 DEF CacheFits
<1> QED
  BY <1>5, <1>7, <1>9

\* The rows that were there are of other blocks, so what is owed is inserted.
LEMMA WriteKeeps ==
  ASSUME IndexerInv, Wbtc!Write PROVE IndexerInv'
<1> USE DEF IndexerInv
<1> DEFINE block == chain[cursor + 1]
<1> DEFINE new == Wbtc!Inserted(Wbtc!Matched(block))
<1>1. /\ chain' = chain /\ since' = since /\ cursor' = cursor + 1 /\ rows' = rows \cup new
      /\ accounts' = accounts /\ fetchedAt' = fetchedAt /\ lag' = lag /\ now' = now /\ owed' = {}
      /\ selected' = selected
      /\ failures' = failures /\ reorgs' = reorgs
      /\ due' = due \cup ({cursor + 1} \X owed)
      /\ pc = "writing" /\ pc' = "idle"
  BY DEF Wbtc!Write, Wbtc!cache
<1>2. /\ cursor < Len(chain) /\ owed \subseteq accounts /\ accounts \subseteq Addresses
      /\ Len(chain) <= MaxHeight /\ rows \in SUBSET Wbtc!Transaction
  BY <1>1 DEF Wbtc!TypeOK
<1>3. /\ cursor \in Nat /\ cursor + 1 \in 1 .. Len(chain) /\ cursor + 1 \in 1 .. MaxHeight
      /\ DOMAIN chain = 1 .. Len(chain) /\ cursor + 1 \in DOMAIN chain
  BY <1>2, OnChain, IndexerBounds
<1>4. block \in Seq(Wbtc!Transfers)
  BY <1>3, OnChain
<1> HIDE DEF block
<1>5. /\ \A row \in new : row \in Entry /\ row.block = cursor + 1 /\ StandsFor(row, block)
      /\ \A n \in DOMAIN block : \A a \in {block[n].from, block[n].to} \cap accounts :
           \E row \in rows \cup new : SameKey(row, block[n].tx, a)
  BY <1>2, <1>3, <1>4, InsertedIs
<1> HIDE DEF new
<1>6. \A row \in new : row \in Wbtc!Transaction
  BY <1>3, <1>5 DEF Entry, Wbtc!Transaction
<1>7. Wbtc!TypeOK'
  <2>1. due' \in SUBSET ((1 .. MaxHeight) \X Addresses)
    BY <1>1, <1>2, <1>3 DEF Wbtc!TypeOK
  <2>2. rows' \in SUBSET Wbtc!Transaction /\ cursor' \in 0 .. Len(chain')
    BY <1>1, <1>2, <1>3, <1>6
  <2> QED
    BY <1>1, <2>1, <2>2 DEF Wbtc!TypeOK
<1>8. RowsFit'
  <2>1. ASSUME NEW row \in rows' PROVE row.block <= cursor + 1 /\ StandsFor(row, chain[row.block])
    <3>1. CASE row \in rows
      <4>1. row.block \in Nat /\ row.block <= cursor /\ StandsFor(row, chain[row.block])
        BY <1>2, <3>1 DEF RowsFit, Wbtc!Transaction
      <4> QED
        BY <1>3, <4>1
    <3>2. CASE row \in new
      BY <1>3, <1>5, <3>2 DEF block
    <3> QED
      BY <1>1, <2>1, <3>1, <3>2
  <2> QED
    BY <1>1, <2>1 DEF RowsFit, StandsFor, PartOf
<1>9. ASSUME NEW n \in DOMAIN block, NEW a \in owed, a \in {block[n].from, block[n].to}
      PROVE  \E row \in new : SameKey(row, block[n].tx, a)
  <2>1. PICK row \in rows \cup new : SameKey(row, block[n].tx, a)
    BY <1>2, <1>5, <1>9
  <2>2. CASE row \in rows
    <3>1. /\ row.block <= cursor /\ StandsFor(row, chain[row.block])
          /\ row.block \in 1 .. MaxHeight
      BY <1>2, <2>2 DEF RowsFit, Wbtc!Transaction
    <3>2. row.block \in DOMAIN chain /\ row.block # cursor + 1
      BY <1>2, <1>3, <3>1, OnChain
    <3>3. PICK k \in PartOf(chain[row.block], row) : TRUE
      BY <3>1 DEF StandsFor
    <3>4. k \in DOMAIN chain[row.block] /\ chain[row.block][k].tx = block[n].tx
      BY <2>1, <3>3 DEF PartOf, SameKey
    <3> QED
      BY <1>3, <3>2, <3>4 DEF TxOnce, block
  <2> QED
    BY <2>1, <2>2
<1>10. DueFit'
  <2>1. ASSUME NEW d \in due, NEW n \in DOMAIN chain[d[1]],
               d[2] \in {chain[d[1]][n].from, chain[d[1]][n].to}
        PROVE  \E row \in rows' : SameKey(row, chain[d[1]][n].tx, d[2]) /\ row.block = d[1]
    BY <1>1, <2>1 DEF DueFit
  <2>2. ASSUME NEW d \in {cursor + 1} \X owed, NEW n \in DOMAIN chain[d[1]],
               d[2] \in {chain[d[1]][n].from, chain[d[1]][n].to}
        PROVE  \E row \in rows' : SameKey(row, chain[d[1]][n].tx, d[2]) /\ row.block = d[1]
    <3>1. d[1] = cursor + 1 /\ d[2] \in owed /\ chain[d[1]] = block
      BY DEF block
    <3>2. PICK row \in new : SameKey(row, block[n].tx, d[2])
      BY <1>9, <2>2, <3>1
    <3> QED
      BY <1>1, <1>5, <3>1, <3>2
  <2>3. \A d \in due : d[1] \in Nat /\ d[1] <= cursor
    BY DEF DueFit, Wbtc!TypeOK
  <2>4. \A d \in due' : d[1] <= cursor + 1
    BY <1>1, <1>3, <2>3
  <2> QED
    BY <1>1, <2>1, <2>2, <2>4 DEF DueFit, SameKey
<1>11. TxOnce' /\ CacheFits'
  BY <1>1 DEF TxOnce, CacheFits, Wbtc!Known
<1> QED
  BY <1>7, <1>8, <1>10, <1>11

LEMMA FailKeeps ==
  ASSUME IndexerInv, Wbtc!BlockFails \/ Wbtc!Restart PROVE IndexerInv'
<1> USE DEF IndexerInv
<1>1. /\ chain' = chain /\ since' = since /\ rows' = rows /\ now' = now /\ due' = due
      /\ reorgs' = reorgs /\ failures < MaxFailures /\ failures' = failures + 1
      /\ pc' = "idle" /\ owed' = {} /\ selected' = [accounts |-> {}, at |-> 0]
  BY DEF Wbtc!BlockFails, Wbtc!Restart, Wbtc!NothingSelected
<1>2. failures' \in 0 .. MaxFailures
  BY <1>1, IndexerBounds DEF Wbtc!TypeOK
<1>3. \/ /\ pc # "idle" /\ cursor' = cursor + 1
         /\ accounts' = accounts /\ fetchedAt' = fetchedAt /\ lag' = lag
      \/ cursor' = cursor /\ accounts' = {} /\ fetchedAt' = Never /\ lag' = 0
  BY DEF Wbtc!BlockFails, Wbtc!Restart, Wbtc!cache
<1>4. cursor' \in 0 .. Len(chain) /\ cursor' \in Nat /\ cursor <= cursor'
  <2>1. pc # "idle" => cursor < Len(chain)
    BY DEF Wbtc!TypeOK
  <2> QED
    BY <1>3, <2>1, OnChain DEF Wbtc!TypeOK
<1>5. Wbtc!TypeOK'
  BY <1>1, <1>2, <1>3, <1>4, IndexerBounds DEF Wbtc!TypeOK
<1>6. RowsFit' /\ DueFit' /\ TxOnce'
  BY <1>1, <1>4, SameTable
<1>7. CacheFits'
  BY <1>1, <1>3 DEF CacheFits, Wbtc!Known
<1> QED
  BY <1>5, <1>6, <1>7

\* A block whose transactions are on no other block.
LEMMA NewBlockKeeps ==
  ASSUME IndexerInv, NEW b \in Blocks, Wbtc!NewBlock(b) PROVE IndexerInv'
<1> USE DEF IndexerInv
<1>1. /\ since' = since /\ cursor' = cursor /\ rows' = rows /\ pc' = pc
      /\ accounts' = accounts /\ fetchedAt' = fetchedAt /\ now' = now
      /\ lag' = lag /\ selected' = selected /\ owed' = owed
      /\ failures' = failures /\ reorgs' = reorgs /\ due' = due
      /\ chain' = Append(chain, b) /\ Len(chain) < MaxHeight
      /\ \A i \in DOMAIN chain, m \in DOMAIN b :
           \A n \in DOMAIN chain[i] : chain[i][n].tx # b[m].tx
  BY DEF Wbtc!NewBlock, Wbtc!process, Wbtc!cache
<1>2. chain \in Seq(Blocks) /\ Len(chain) \in Nat /\ DOMAIN chain = 1 .. Len(chain)
  BY OnChain DEF Wbtc!TypeOK
<1>3. /\ chain' \in Seq(Blocks) /\ Len(chain') = Len(chain) + 1
      /\ DOMAIN chain' = 1 .. Len(chain) + 1
      /\ chain'[Len(chain) + 1] = b
      /\ \A i \in 1 .. Len(chain) : chain'[i] = chain[i]
  BY <1>1, <1>2
<1>4. Wbtc!TypeOK'
  <2>1. /\ Len(chain') <= MaxHeight /\ cursor' \in 0 .. Len(chain')
        /\ cursor < Len(chain) => cursor < Len(chain')
    BY <1>1, <1>2, <1>3, IndexerBounds DEF Wbtc!TypeOK
  <2> QED
    BY <1>1, <1>3, <2>1 DEF Wbtc!TypeOK
<1>5. RowsFit'
  <2>1. ASSUME NEW row \in rows PROVE row.block <= cursor /\ StandsFor(row, chain'[row.block])
    <3>1. row.block \in Nat /\ 1 <= row.block /\ row.block <= cursor
      BY DEF RowsFit, Wbtc!TypeOK, Wbtc!Transaction
    <3>2. row.block \in 1 .. Len(chain)
      BY <1>2, <3>1 DEF Wbtc!TypeOK
    <3> QED
      BY <1>3, <3>1, <3>2 DEF RowsFit
  <2> QED
    BY <1>1, <2>1 DEF RowsFit, StandsFor, PartOf
<1>6. DueFit'
  <2>1. ASSUME NEW d \in due PROVE d[1] <= cursor /\ chain'[d[1]] = chain[d[1]]
    <3>1. d[1] \in Nat /\ 1 <= d[1] /\ d[1] <= cursor
      BY DEF DueFit, Wbtc!TypeOK
    <3>2. d[1] \in 1 .. Len(chain)
      BY <1>2, <3>1 DEF Wbtc!TypeOK
    <3> QED
      BY <1>3, <3>1, <3>2
  <2>2. ASSUME NEW d \in due, NEW n \in DOMAIN chain'[d[1]],
               d[2] \in {chain'[d[1]][n].from, chain'[d[1]][n].to}
        PROVE  \E row \in rows : SameKey(row, chain'[d[1]][n].tx, d[2]) /\ row.block = d[1]
    BY <2>1, <2>2 DEF DueFit
  <2> QED
    BY <1>1, <2>1, <2>2 DEF DueFit, SameKey
<1>7. TxOnce'
  <2>1. ASSUME NEW i \in DOMAIN chain', NEW j \in DOMAIN chain',
               NEW m \in DOMAIN chain'[i], NEW n \in DOMAIN chain'[j],
               chain'[i][m].tx = chain'[j][n].tx
        PROVE  i = j
    <3>1. CASE i \in DOMAIN chain /\ j \in DOMAIN chain
      BY <1>2, <1>3, <2>1, <3>1 DEF TxOnce
    <3>2. CASE i \in DOMAIN chain /\ j \notin DOMAIN chain
      <4>1. j = Len(chain) + 1
        BY <1>2, <1>3, <3>2
      <4>2. chain'[i] = chain[i] /\ chain'[j] = b
        BY <1>2, <1>3, <3>2, <4>1
      <4> QED
        BY <1>1, <2>1, <3>2, <4>2
    <3>3. CASE i \notin DOMAIN chain /\ j \in DOMAIN chain
      <4>1. i = Len(chain) + 1
        BY <1>2, <1>3, <3>3
      <4>2. chain'[j] = chain[j] /\ chain'[i] = b
        BY <1>2, <1>3, <3>3, <4>1
      <4> QED
        BY <1>1, <2>1, <3>3, <4>2
    <3>4. CASE i \notin DOMAIN chain /\ j \notin DOMAIN chain
      BY <1>2, <1>3, <3>4
    <3> QED
      BY <3>1, <3>2, <3>3, <3>4
  <2> QED
    BY <2>1 DEF TxOnce
<1>8. CacheFits'
  BY <1>1 DEF CacheFits, Wbtc!Known
<1> QED
  BY <1>4, <1>5, <1>6, <1>7, <1>8

\* The rows of the blocks that are abandoned go with them.
LEMMA InvalidateKeeps ==
  ASSUME IndexerInv, NEW height \in 0 .. MaxHeight, Wbtc!Invalidate(height)
  PROVE  IndexerInv'
<1> USE DEF IndexerInv
<1>1. /\ since' = since /\ pc' = pc /\ accounts' = accounts /\ fetchedAt' = fetchedAt
      /\ lag' = lag /\ selected' = selected /\ owed' = owed /\ now' = now /\ failures' = failures
      /\ pc = "idle" /\ height < Len(chain) /\ reorgs < MaxReorgs /\ reorgs' = reorgs + 1
      /\ chain' = SubSeq(chain, 1, height)
      /\ cursor' = (IF cursor <= height THEN cursor ELSE height)
      /\ rows' = {row \in rows : row.block <= height}
      /\ due' = {d \in due : d[1] <= height}
  BY DEF Wbtc!Invalidate, Wbtc!process, Wbtc!cache
<1>2. /\ chain \in Seq(Blocks) /\ Len(chain) \in Nat /\ DOMAIN chain = 1 .. Len(chain)
      /\ height \in Nat /\ cursor \in Nat /\ Len(chain) <= MaxHeight
  BY OnChain, IndexerBounds DEF Wbtc!TypeOK
<1>3. /\ chain' \in Seq(Blocks) /\ Len(chain') = height /\ DOMAIN chain' = 1 .. height
      /\ \A i \in 1 .. height : chain'[i] = chain[i] /\ i \in DOMAIN chain
  <2>1. height \in 0 .. Len(chain) /\ \A i \in 1 .. height : i \in 1 .. Len(chain)
    BY <1>1, <1>2
  <2>2. SubSeq(chain, 1, height) \in Seq(Blocks) /\ Len(SubSeq(chain, 1, height)) = height
    BY <1>2, <2>1
  <2>3. \A i \in 1 .. height : SubSeq(chain, 1, height)[i] = chain[i]
    BY <1>2, <2>1
  <2>4. DOMAIN chain' = 1 .. height
    BY <1>1, <2>2
  <2> QED
    BY <1>1, <1>2, <2>1, <2>2, <2>3, <2>4
<1>4. cursor' \in 0 .. height /\ (\A n \in Nat : n <= cursor /\ n <= height => n <= cursor')
  BY <1>1, <1>2
<1>5. Wbtc!TypeOK'
  <2>1. reorgs' \in 0 .. MaxReorgs
    BY <1>1, IndexerBounds DEF Wbtc!TypeOK
  <2>2. Len(chain') <= MaxHeight
    BY <1>1, <1>2, <1>3, IndexerBounds
  <2>3. rows' \in SUBSET Wbtc!Transaction /\ due' \in SUBSET ((1 .. MaxHeight) \X Addresses)
    BY <1>1 DEF Wbtc!TypeOK
  <2> QED
    BY <1>1, <1>3, <1>4, <2>1, <2>2, <2>3 DEF Wbtc!TypeOK
<1>6. RowsFit'
  <2>1. ASSUME NEW row \in rows' PROVE row.block <= cursor' /\ StandsFor(row, chain'[row.block])
    <3>1. /\ row \in rows /\ row.block <= height /\ row.block \in Nat /\ 1 <= row.block
          /\ row.block <= cursor /\ StandsFor(row, chain[row.block])
      BY <1>1, <2>1 DEF RowsFit, Wbtc!TypeOK, Wbtc!Transaction
    <3>2. row.block \in 1 .. height
      BY <1>2, <3>1
    <3> QED
      BY <1>3, <1>4, <3>1, <3>2
  <2> QED
    BY <2>1 DEF RowsFit, StandsFor, PartOf
<1>7. DueFit'
  <2>1. ASSUME NEW d \in due'
        PROVE  /\ d \in due /\ d[1] <= cursor' /\ chain'[d[1]] = chain[d[1]] /\ d[1] <= height
    <3>1. d \in due /\ d[1] <= height /\ d[1] \in Nat /\ 1 <= d[1] /\ d[1] <= cursor
      BY <1>1, <2>1 DEF DueFit, Wbtc!TypeOK
    <3>2. d[1] \in 1 .. height
      BY <1>2, <3>1
    <3> QED
      BY <1>3, <1>4, <3>1, <3>2
  <2>2. ASSUME NEW d \in due', NEW n \in DOMAIN chain'[d[1]],
               d[2] \in {chain'[d[1]][n].from, chain'[d[1]][n].to}
        PROVE  \E row \in rows' : SameKey(row, chain'[d[1]][n].tx, d[2]) /\ row.block = d[1]
    <3>1. PICK row \in rows : SameKey(row, chain[d[1]][n].tx, d[2]) /\ row.block = d[1]
      BY <2>1, <2>2 DEF DueFit
    <3> QED
      BY <1>1, <2>1, <3>1
  <2> QED
    BY <2>1, <2>2 DEF DueFit, SameKey
<1>8. TxOnce'
  BY <1>3 DEF TxOnce
<1>9. CacheFits'
  BY <1>1 DEF CacheFits, Wbtc!Known
<1> QED
  BY <1>5, <1>6, <1>7, <1>8, <1>9

LEMMA SaveAddressKeeps ==
  ASSUME IndexerInv, NEW a \in Addresses, Wbtc!SaveAddress(a) PROVE IndexerInv'
<1> USE DEF IndexerInv
<1>1. /\ chain' = chain /\ cursor' = cursor /\ rows' = rows /\ pc' = pc
      /\ accounts' = accounts /\ fetchedAt' = fetchedAt /\ now' = now
      /\ lag' = lag /\ selected' = selected /\ owed' = owed
      /\ failures' = failures /\ reorgs' = reorgs /\ due' = due
      /\ since[a] = Never /\ since' = [since EXCEPT ![a] = now]
  BY DEF Wbtc!SaveAddress, Wbtc!process, Wbtc!cache
<1>2. /\ since \in [Addresses -> (0 .. MaxTime) \cup {Never}] /\ now \in 0 .. MaxTime /\ now \in Nat
      /\ now # Never
  BY IndexerBounds DEF Wbtc!TypeOK
<1>3. since' \in [Addresses -> (0 .. MaxTime) \cup {Never}]
  BY <1>1, <1>2
<1>4. Wbtc!TypeOK'
  BY <1>1, <1>3 DEF Wbtc!TypeOK
<1>5. cursor' \in Nat /\ cursor <= cursor'
  BY <1>1, OnChain
<1>6. RowsFit' /\ DueFit' /\ TxOnce'
  BY <1>1, <1>5, SameTable
<1>7. Wbtc!Known' = Wbtc!Known \cup {a} /\ a \notin Wbtc!Known
      /\ since'[a] = now /\ \A x \in Wbtc!Known : since'[x] = since[x]
  BY <1>1, <1>2 DEF Wbtc!Known
<1>8. (fetchedAt # Never => fetchedAt \in Nat) /\ lag \in Nat /\ selected.at \in Nat
  BY IndexerBounds DEF Wbtc!TypeOK
<1>9. CacheFits'
  BY <1>1, <1>2, <1>7, <1>8 DEF CacheFits
<1> QED
  BY <1>4, <1>6, <1>9

LEMMA TickKeeps ==
  ASSUME IndexerInv, Wbtc!Tick PROVE IndexerInv'
<1> USE DEF IndexerInv
<1>1. /\ chain' = chain /\ since' = since /\ cursor' = cursor /\ rows' = rows /\ pc' = pc
      /\ accounts' = accounts /\ fetchedAt' = fetchedAt
      /\ lag' = lag /\ selected' = selected /\ owed' = owed
      /\ failures' = failures /\ reorgs' = reorgs /\ due' = due
      /\ now < MaxTime /\ now' = now + 1
  BY DEF Wbtc!Tick, Wbtc!process, Wbtc!cache
<1>2. now \in Nat /\ now' \in 0 .. MaxTime /\ \A n \in Nat : n <= now => n <= now'
  BY <1>1, IndexerBounds DEF Wbtc!TypeOK
<1>3. Wbtc!TypeOK'
  BY <1>1, <1>2 DEF Wbtc!TypeOK
<1>4. cursor' \in Nat /\ cursor <= cursor'
  BY <1>1, OnChain
<1>5. RowsFit' /\ DueFit' /\ TxOnce'
  BY <1>1, <1>4, SameTable
<1>6. /\ \A a \in Wbtc!Known : since[a] \in Nat
      /\ fetchedAt # Never => fetchedAt \in Nat
      /\ selected.at \in Nat /\ Wbtc!Known' = Wbtc!Known
  BY <1>1, IndexerBounds DEF Wbtc!TypeOK, Wbtc!Known
<1>7. CacheFits'
  BY <1>1, <1>2, <1>6 DEF CacheFits
<1> QED
  BY <1>3, <1>5, <1>7

LEMMA IndexerNext ==
  ASSUME IndexerInv, [Wbtc!Next]_Wbtc!vars PROVE IndexerInv'
<1>1. CASE Wbtc!Next
  BY <1>1, SkipEmptyBlockKeeps, TransformKeeps, SelectAccountsKeeps, StampCacheKeeps, WriteKeeps,
     FailKeeps, NewBlockKeeps, InvalidateKeeps, SaveAddressKeeps, TickKeeps
     DEF Wbtc!Next, Wbtc!TransformStep
<1>2. CASE UNCHANGED Wbtc!vars
  <2>1. /\ chain' = chain /\ since' = since /\ cursor' = cursor /\ rows' = rows /\ pc' = pc
        /\ accounts' = accounts /\ fetchedAt' = fetchedAt /\ now' = now
        /\ lag' = lag /\ selected' = selected /\ failures' = failures /\ reorgs' = reorgs
        /\ owed' = owed /\ due' = due
    BY <1>2 DEF Wbtc!vars
  <2>2. Wbtc!TypeOK'
    BY <2>1 DEF IndexerInv, Wbtc!TypeOK
  <2>3. RowsFit' /\ DueFit' /\ TxOnce'
    BY <2>1, SameTable, OnChain DEF IndexerInv
  <2>4. CacheFits'
    BY <2>1 DEF IndexerInv, CacheFits, Wbtc!Known
  <2> QED
    BY <2>2, <2>3, <2>4 DEF IndexerInv
<1> QED
  BY <1>1, <1>2

\* Whatever blocks come, fail, are replayed or abandoned, and whenever addresses
\* are saved, the rows, what is owed and the cache stay in these relations.
THEOREM IndexerHolds == IndexerSpec => []IndexerInv
<1>1. Wbtc!Init => IndexerInv
  BY InitIndexer
<1>2. IndexerInv /\ [Wbtc!Next]_Wbtc!vars => IndexerInv'
  BY IndexerNext
<1> QED
  BY <1>1, <1>2, PTL DEF IndexerSpec, Wbtc!Spec

\* Each row has the whole amount that its account spent or received in the
\* transaction (transaction-matcher's merge of the rows of a multicall).
THEOREM AmountAlwaysTotal == IndexerSpec => []AmountIsTotal
<1>1. IndexerInv => AmountIsTotal
  <2>1. ASSUME RowsFit PROVE AmountIsTotal
    <3>1. \A row : row.block <= cursor /\ StandsFor(row, chain[row.block]) =>
            /\ row.block <= cursor
            /\ row.amount = Wbtc!Total(chain[row.block], Wbtc!Part(row))
            /\ \E n \in Wbtc!Part(row) :
                 row.from = chain[row.block][n].from /\ row.to = chain[row.block][n].to
      BY DEF StandsFor, PartOf, Side, Wbtc!Part
    <3> QED
      BY <2>1, <3>1 DEF RowsFit, AmountIsTotal, Wbtc!AmountIsTotal
  <2> QED
    BY <2>1 DEF IndexerInv
<1> QED
  BY <1>1, IndexerHolds, PTL

\* A transaction of an account that was saved before the cache could miss it
\* leaves a row of one type or the other, unless the block failed (AccountCache,
\* its time to live and the time that its SELECT took).
THEOREM NothingEverMissed == IndexerSpec => []NothingMissed
<1>1. IndexerInv => NothingMissed
  <2>1. ASSUME DueFit, NEW d \in due, NEW n \in DOMAIN chain[d[1]],
               NEW type \in {"spent", "receipt"}, Wbtc!TypeOK,
               Wbtc!Takes(d[2], type, d[1], chain[d[1]][n].tx)
        PROVE  Wbtc!Recorded(d[2], {"spent", "receipt"}, d[1], chain[d[1]][n].tx)
    <3>1. PICK k \in DOMAIN chain[d[1]] :
            /\ chain[d[1]][k].tx = chain[d[1]][n].tx
            /\ d[2] \in {chain[d[1]][k].from, chain[d[1]][k].to}
      BY <2>1 DEF Wbtc!Takes
    <3>2. PICK row \in rows : SameKey(row, chain[d[1]][k].tx, d[2]) /\ row.block = d[1]
      BY <2>1, <3>1 DEF DueFit
    <3>3. row.type \in {"spent", "receipt"}
      BY <2>1 DEF Wbtc!TypeOK, Wbtc!Transaction
    <3> QED
      BY <3>1, <3>2, <3>3 DEF Wbtc!Recorded, SameKey
  <2> QED
    BY <2>1 DEF IndexerInv, NothingMissed, Wbtc!NothingMissed
<1> QED
  BY <1>1, IndexerHolds, PTL
=============================================================================
