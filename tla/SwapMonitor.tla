---------------------------- MODULE SwapMonitor -----------------------------
(***************************************************************************)
(* The life of the SwapMonitor (apps/api): its interval timer, the guard   *)
(* against overlapping iterations, the auto-stop after idle iterations and *)
(* ensureRunning, called by the requests that create swaps.  SwapSync says *)
(* what an iteration does to one swap; here a swap is only active or not.  *)
(*                                                                         *)
(* JavaScript runs each synchronous stretch to its end, so a step is what  *)
(* happens between two awaits.  Each firing of the timer is an invocation  *)
(* of runIteration; nothing but the code keeps two from being under way.   *)
(***************************************************************************)
EXTENDS Integers, FiniteSets

CONSTANTS
  Swaps,              \* swap ids
  Invocations,        \* calls of runIteration that may be under way at once
  MaxIdleIterations,  \* maxIdleIterations
  KeepaliveInterval,  \* keepaliveIntervalIterations
  MaxRestarts         \* bound: restarts of the API process

ASSUME ConfigAssumption ==
  MaxIdleIterations \in Nat \ {0} /\ KeepaliveInterval \in Nat \ {0} /\ MaxRestarts \in Nat

VARIABLES
  active,     \* swaps whose row findActive selects
  request,    \* how far the request that creates each swap is
  monitor,    \* the fields of the SwapMonitor object
  intervals,  \* intervals the runtime still fires, held in timer or leaked
  invocation, \* each invocation's position, and the swaps it has yet to process
  process,    \* "up", "stopping" while shutdown awaits stop(), or "down"
  unseen,     \* history: swaps made active since findActive last answered
  restarts    \* counted against MaxRestarts

vars == <<active, request, monitor, intervals, invocation, process, unseen, restarts>>

\* timer is TRUE for timer # null; idle is idleIterations and quiet is
\* iterationsSinceLastKeepalive; knownActiveSwapIds only serves the log.
MonitorFields ==
  [running : BOOLEAN, timer : BOOLEAN, iterating : BOOLEAN,
   idle : 0 .. MaxIdleIterations, quiet : 0 .. KeepaliveInterval - 1]

NewMonitor ==
  [running |-> FALSE, timer |-> FALSE, iterating |-> FALSE, idle |-> 0, quiet |-> 0]

Position == {"returned", "reading", "read", "pinging", "processing"}

Returned == [pc |-> "returned", todo |-> {}]

TypeOK ==
  /\ active \in SUBSET Swaps
  /\ request \in [Swaps -> {"none", "saved", "answered", "failed"}]
  /\ monitor \in MonitorFields
  /\ intervals \in Nat
  /\ invocation \in [Invocations -> [pc : Position, todo : SUBSET Swaps]]
  /\ process \in {"up", "stopping", "down"}
  /\ unseen \in SUBSET Swaps
  /\ restarts \in 0 .. MaxRestarts

-----------------------------------------------------------------------------
(* start and stop.                                                         *)

Started(m) == [m EXCEPT !.running = TRUE, !.timer = TRUE, !.idle = 0]

Start ==
  IF monitor.running
  THEN UNCHANGED <<monitor, intervals>>
  ELSE monitor' = Started(monitor) /\ intervals' = intervals + 1

Stopped(m) == [m EXCEPT !.running = FALSE, !.timer = FALSE]

\* Of stop(), clearInterval: only the interval held in timer is cleared.
ClearInterval == intervals' = IF monitor.timer THEN intervals - 1 ELSE intervals

\* The server has just called swapMonitor.start(); earlier runs may have left
\* active swaps in the database.
Init ==
  /\ active \in SUBSET Swaps
  /\ request = [s \in Swaps |-> IF s \in active THEN "answered" ELSE "none"]
  /\ monitor = Started(NewMonitor)
  /\ intervals = 1
  /\ invocation = [i \in Invocations |-> Returned]
  /\ process = "up"
  /\ unseen = active
  /\ restarts = 0

-----------------------------------------------------------------------------
(* The routes that create swaps, and what else makes a swap (in)active.    *)

\* The row is in the database; the route has not called ensureRunning yet.
SaveSwap(s) ==
  /\ process # "down" /\ request[s] = "none"
  /\ request' = [request EXCEPT ![s] = "saved"]
  /\ active' = active \cup {s} /\ unseen' = unseen \cup {s}
  /\ UNCHANGED <<monitor, intervals, invocation, process, restarts>>

EnsureRunning(s) ==
  /\ process # "down" /\ request[s] = "saved"
  /\ request' = [request EXCEPT ![s] = "answered"]
  /\ Start
  /\ UNCHANGED <<active, invocation, process, unseen, restarts>>

\* POST /receive/commit throws after the row was saved: no ensureRunning.
RequestFails(s) ==
  /\ request[s] = "saved"
  /\ request' = [request EXCEPT ![s] = "failed"]
  /\ UNCHANGED <<active, monitor, intervals, invocation, process, unseen, restarts>>

\* A status request of the frontend finds the swap settled.
ClientSettles(s) ==
  /\ process # "down" /\ s \in active
  /\ active' = active \ {s}
  /\ UNCHANGED <<request, monitor, intervals, invocation, process, unseen, restarts>>

-----------------------------------------------------------------------------
(* runIteration.                                                           *)

\* The timer fires; with an iteration under way the call returns at once.
RunIteration(i) ==
  /\ process # "down" /\ intervals > 0
  /\ invocation[i].pc = "returned"
  /\ ~monitor.iterating
  /\ monitor' = [monitor EXCEPT !.iterating = TRUE]
  /\ invocation' = [invocation EXCEPT ![i].pc = "reading"]
  /\ UNCHANGED <<active, request, intervals, process, unseen, restarts>>

\* The database takes its snapshot of the active swaps.
GetActiveSwaps(i) ==
  /\ invocation[i].pc = "reading"
  /\ invocation' = [invocation EXCEPT ![i] = [pc |-> "read", todo |-> active]]
  /\ unseen' = {}
  /\ UNCHANGED <<active, request, monitor, intervals, process, restarts>>

\* The finally block, run on what the iteration made of the monitor.
Return(i, m) ==
  /\ monitor' = [m EXCEPT !.iterating = FALSE]
  /\ invocation' = [invocation EXCEPT ![i] = Returned]

\* Faulty: an error of the database is taken for an empty answer.
FailedReadIsEmpty(i) ==
  /\ invocation[i].pc = "reading"
  /\ invocation' = [invocation EXCEPT ![i].pc = "read"]
  /\ UNCHANGED <<active, request, monitor, intervals, process, unseen, restarts>>

\* Faulty: no finally block.
IterationFailsLocked(i) ==
  /\ invocation[i].pc = "reading"
  /\ invocation' = [invocation EXCEPT ![i] = Returned]
  /\ UNCHANGED <<active, request, monitor, intervals, process, unseen, restarts>>

\* getActiveSwaps throws: logged and swallowed.
IterationFails(i) ==
  /\ invocation[i].pc = "reading"
  /\ Return(i, monitor)
  /\ UNCHANGED <<active, request, intervals, process, unseen, restarts>>

\* Faulty: idleIterations is not incremented.
IdleNotCounted(i) ==
  /\ invocation[i].pc = "read" /\ invocation[i].todo = {}
  /\ Return(i, monitor)
  /\ UNCHANGED <<active, request, intervals, process, unseen, restarts>>

\* handleIdleIteration, with the auto-stop: iterating is already FALSE when
\* stop() looks, and no timer fires before the finally block.
HandleIdleIteration(i) ==
  LET idle == monitor.idle + 1
      counted == [monitor EXCEPT !.idle = idle]
  IN
  /\ invocation[i].pc = "read" /\ invocation[i].todo = {}
  /\ IF idle >= MaxIdleIterations
     THEN Return(i, Stopped(counted)) /\ ClearInterval
     ELSE Return(i, counted) /\ UNCHANGED intervals
  /\ UNCHANGED <<active, request, process, unseen, restarts>>

\* trackActiveSwaps (logging only) and keepaliveIfNeeded.
HandleActiveIteration(i) ==
  LET due == monitor.quiet + 1 >= KeepaliveInterval IN
  /\ invocation[i].pc = "read" /\ invocation[i].todo # {}
  /\ monitor' = [monitor EXCEPT !.idle = 0, !.quiet = IF due THEN 0 ELSE @ + 1]
  /\ invocation' = [invocation EXCEPT ![i].pc = IF due THEN "pinging" ELSE "processing"]
  /\ UNCHANGED <<active, request, intervals, process, unseen, restarts>>

\* The ping answers, fails or times out after 5 s.
KeepaliveReturns(i) ==
  /\ invocation[i].pc = "pinging"
  /\ invocation' = [invocation EXCEPT ![i].pc = "processing"]
  /\ UNCHANGED <<active, request, monitor, intervals, process, unseen, restarts>>

\* processActiveSwap, whose errors are swallowed: the swap may be settled.
ProcessActiveSwap(i, s) ==
  /\ invocation[i].pc = "processing" /\ s \in invocation[i].todo
  /\ invocation' = [invocation EXCEPT ![i].todo = @ \ {s}]
  /\ active' \in {active, active \ {s}}
  /\ UNCHANGED <<request, monitor, intervals, process, unseen, restarts>>

IterationEnds(i) ==
  /\ invocation[i].pc = "processing" /\ invocation[i].todo = {}
  /\ Return(i, monitor)
  /\ UNCHANGED <<active, request, intervals, process, unseen, restarts>>

-----------------------------------------------------------------------------
(* shutdown() of main.ts, and the process.                                 *)

\* SIGTERM: requests are still served while shutdown awaits stop().
Shutdown ==
  /\ process = "up"
  /\ process' = "stopping"
  /\ monitor' = Stopped(monitor) /\ ClearInterval
  /\ UNCHANGED <<active, request, invocation, unseen, restarts>>

\* The process is gone, with everything it had in memory.
ProcessEnds ==
  /\ process' = "down"
  /\ monitor' = NewMonitor /\ intervals' = 0
  /\ invocation' = [i \in Invocations |-> Returned]
  /\ request' = [s \in Swaps |-> IF request[s] = "saved" THEN "failed" ELSE request[s]]
  /\ UNCHANGED <<active, unseen, restarts>>

\* stop() has seen iterating FALSE; the database is closed and Node exits.
StopReturns == process = "stopping" /\ ~monitor.iterating /\ ProcessEnds

Crash == process # "down" /\ ProcessEnds

\* A new container boots and calls start().
Boot ==
  /\ process = "down" /\ restarts < MaxRestarts
  /\ process' = "up" /\ restarts' = restarts + 1
  /\ Start
  /\ UNCHANGED <<active, request, invocation, unseen>>

Requests ==
  \E s \in Swaps : SaveSwap(s) \/ EnsureRunning(s) \/ RequestFails(s) \/ ClientSettles(s)

Step(i) ==
  \/ GetActiveSwaps(i) \/ IterationFails(i)
  \/ HandleIdleIteration(i) \/ HandleActiveIteration(i) \/ KeepaliveReturns(i)
  \/ \E s \in Swaps : ProcessActiveSwap(i, s)
  \/ IterationEnds(i)

Next ==
  \/ Requests
  \/ \E i \in Invocations : RunIteration(i) \/ Step(i)
  \/ Shutdown \/ StopReturns \/ Crash \/ Boot

Spec == Init /\ [][Next]_vars

(***************************************************************************)
(* An interval fires again and again, awaits end, and the database answers *)
(* sooner or later.  Nothing is assumed of requests or of the container.   *)
(***************************************************************************)
Fairness ==
  /\ WF_vars(\E i \in Invocations : RunIteration(i))
  /\ \A i \in Invocations : WF_vars(Step(i))
  /\ SF_vars(\E i \in Invocations : GetActiveSwaps(i))

FairSpec == Spec /\ Fairness

-----------------------------------------------------------------------------
(* Properties.                                                             *)

\* Two iterations never overlap, however long their awaits last and whatever
\* starts and stops the timer meanwhile: SwapSync may model one monitor.
OneIterationAtATime ==
  \A i, j \in Invocations :
    invocation[i].pc # "returned" /\ invocation[j].pc # "returned" => i = j

\* start, stop, ensureRunning and the auto-stop never leak an interval: the
\* runtime fires one when the monitor is running and none when it is not.
NoLeakedInterval == intervals = IF monitor.running THEN 1 ELSE 0

\* The auto-stop leaves no active swap behind but those saved, or becoming
\* active, after the last iteration had read the active swaps.
OnlyUnseenLeftBehind == process = "up" /\ ~monitor.running => active \subseteq unseen

\* While the monitor runs, an active swap is visited by an iteration: neither
\* a failed read, a ping nor another swap keeps it waiting for ever.
Visited(s) == \E i \in Invocations : invocation[i].pc = "processing" /\ s \in invocation[i].todo

ActiveGetsVisited ==
  \A s \in Swaps :
    monitor.running /\ s \in active ~> Visited(s) \/ s \notin active \/ ~monitor.running

\* With nothing active any more the monitor stops and its interval with it,
\* so that the container may scale to zero.
StopsWhenIdle == <>[](active = {}) => <>[](intervals = 0)

-----------------------------------------------------------------------------
=============================================================================
