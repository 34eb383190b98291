---------------------------- MODULE SwapTracking ----------------------------
(***************************************************************************)
(* How the tabs of a browser follow the swaps of a user: SwapStorageService *)
(* with its list in localStorage, shared by the tabs and rewritten whole by *)
(* each, SwapPollingService with one poll per swap, and the status route    *)
(* they ask.  The statuses that the API has of a swap are those of          *)
(* SwapLifecycle, which SwapSync implements: a final one may be overwritten *)
(* by an older one for a while.                                             *)
(***************************************************************************)
EXTENDS SwapLifecycle, SequencesExt, FiniteSets

CONSTANTS Tabs,
          MAX_SWAPS,                \* swaps kept by removeOldSwaps
          MAX_CONSECUTIVE_ERRORS

TrackingAssumption ==
  /\ IsFiniteSet(Tabs) /\ IsFiniteSet(Swaps)
  /\ Direction \in [Swaps -> Directions]
  /\ MAX_SWAPS \in Nat \ {0} /\ MAX_CONSECUTIVE_ERRORS \in Nat \ {0}

VARIABLES
  age,      \* of each swap: "young", "old" (5 minutes) or "aged" (7 days)
  disk,     \* localStorage["bim:swaps"], newest first
  tab,      \* the two services of each tab
  told,     \* by each tab, of each swap: how often each final status was announced
  misrouted \* swaps for which something else than the API answered 404

lifecycle == <<status, end, forgotten>>
vars == <<lifecycle, age, disk, tab, told, misrouted>>

Ages == {"young", "old", "aged"}

StoredSwap == [id : Swaps, lastKnownStatus : SwapStatus]

-----------------------------------------------------------------------------
(* model/swap.ts, swap-storage.service.ts.                                 *)

\* Faulty: an expired Bitcoin swap is taken for a finished one.
IsTerminalWhateverDirection(st, direction) == st \in TerminalStatus

IsTerminalStatus(st, direction) ==
  /\ ~(st = "expired" /\ direction = BitcoinToStarknet)
  /\ st \in {"completed", "expired", "refunded", "failed", "lost"}

Ended(stored) == IsTerminalStatus(stored.lastKnownStatus, Direction[stored.id])

\* Array.filter, of the elements in a set: first[n] has those of the first n.
Filter(list, wanted) ==
  LET first[n \in 0 .. Len(list)] ==
        IF n = 0 THEN <<>>
        ELSE IF list[n] \in wanted THEN Append(first[n - 1], list[n]) ELSE first[n - 1]
  IN  first[Len(list)]

Find(list, s) == Filter(list, {stored \in ToSet(list) : stored.id = s})

SaveSwap(list, s) ==
  <<[id |-> s, lastKnownStatus |-> "pending"]>>
    \o Filter(list, {stored \in ToSet(list) : stored.id # s})

\* Faulty: the status is changed in the list that is shown, not on disk.
PersistNothing(updated) == disk

PersistToStorage(updated) == updated

UpdateSwapStatus(list, s, st) ==
  [i \in DOMAIN list |->
     IF list[i].id = s THEN [list[i] EXCEPT !.lastKnownStatus = st] ELSE list[i]]

GetActiveSwaps(list) == {stored.id : stored \in {x \in ToSet(list) : ~Ended(x)}}

RemoveOldSwaps(list) ==
  LET kept == Filter(list, {x \in ToSet(list) : age[x.id] # "aged" \/ ~Ended(x)})
  IN  SubSeq(kept, 1, IF Len(kept) < MAX_SWAPS THEN Len(kept) ELSE MAX_SWAPS)

-----------------------------------------------------------------------------
(* A poll: an interval of 5 s that lapses after 5 minutes but stays in      *)
(* activePolls, the request under way and the consecutive errors.           *)

NoPoll  == [state |-> "none", request |-> "none", consecutiveErrors |-> 0]
NewPoll == [NoPoll EXCEPT !.state = "running"]

\* What a request may bring back: a status, a 404 or another error.
Answers == SwapStatus \cup {"not found", "error"}

Poll == [state : {"none", "running", "lapsed"},
         request : Answers \cup {"none", "asked"},
         consecutiveErrors : 0 .. MAX_CONSECUTIVE_ERRORS - 1]

\* A tab in which no page has injected the services yet.
NotStarted == [started |-> FALSE, visible |-> TRUE, swaps |-> <<>>,
               poll |-> [s \in Swaps |-> NoPoll]]

TypeOK ==
  /\ status \in [Swaps -> SwapStatus \cup {AbsentStatus}]
  /\ end \in [Swaps -> SwapStatus \cup {NoStatus}] /\ forgotten \in [Swaps -> BOOLEAN]
  /\ age \in [Swaps -> Ages]
  /\ disk \in Seq(StoredSwap)
  /\ tab \in [Tabs -> [started : BOOLEAN, visible : BOOLEAN, swaps : Seq(StoredSwap),
                       poll : [Swaps -> Poll]]]
  /\ told \in [Tabs -> [Swaps -> [TerminalStatus -> Nat]]]
  /\ misrouted \subseteq Swaps

TrackingInit ==
  /\ Init
  /\ age = [s \in Swaps |-> "young"]
  /\ disk = <<>>
  /\ tab = [t \in Tabs |-> NotStarted]
  /\ told = [t \in Tabs |-> [s \in Swaps |-> [st \in TerminalStatus |-> 0]]]
  /\ misrouted = {}

\* startPolling: not twice, and not for a stored swap that has ended.
StartPolling(list, polls, s) ==
  IF polls[s].state # "none" \/ \E stored \in ToSet(Find(list, s)) : Ended(stored)
  THEN polls
  ELSE [polls EXCEPT ![s] = NewPoll]

StopPolling(polls, s) == [polls EXCEPT ![s] = NoPoll]

\* resumeActiveSwaps: the active swaps younger than five minutes.
ResumeActiveSwaps(list, polls) ==
  [s \in Swaps |->
     IF s \in GetActiveSwaps(list) /\ age[s] = "young"
     THEN StartPolling(list, polls, s)[s] ELSE polls[s]]

IncrementErrors(polls, s) ==
  IF polls[s].consecutiveErrors + 1 >= MAX_CONSECUTIVE_ERRORS
  THEN StopPolling(polls, s)
  ELSE [polls EXCEPT ![s].consecutiveErrors = @ + 1, ![s].request = "none"]

ResetErrors(polls, s) ==
  [polls EXCEPT ![s].consecutiveErrors = 0, ![s].request = "none"]

-----------------------------------------------------------------------------
(* The pages.                                                              *)

\* The first page that pays or receives creates the services of the tab.
StartServices(t) ==
  /\ ~tab[t].started
  /\ LET list == RemoveOldSwaps(disk) IN
     /\ disk' = IF Len(list) # Len(disk) THEN list ELSE disk
     /\ tab' = [tab EXCEPT ![t].started = TRUE, ![t].swaps = list,
                           ![t].poll = ResumeActiveSwaps(list, @)]
  /\ UNCHANGED <<lifecycle, age, told, misrouted>>

\* A receive or a payment has returned: the swap is saved and polled.
HandleSuccess(t, s) ==
  /\ tab[t].started
  /\ Open(s)
  /\ LET list == SaveSwap(tab[t].swaps, s) IN
     /\ disk' = list
     /\ tab' = [tab EXCEPT ![t].swaps = list, ![t].poll = StartPolling(list, @, s)]
  /\ UNCHANGED <<age, told, misrouted>>

\* The tab is reloaded, or closed and opened again.
Reload(t) ==
  /\ tab[t].started
  /\ tab' = [tab EXCEPT ![t] = NotStarted]
  /\ UNCHANGED <<lifecycle, age, disk, told, misrouted>>

\* setupVisibilityHandler.
Hide(t) ==
  /\ tab[t].started /\ tab[t].visible
  /\ tab' = [tab EXCEPT ![t].visible = FALSE]
  /\ UNCHANGED <<lifecycle, age, disk, told, misrouted>>

Show(t) ==
  /\ ~tab[t].visible
  /\ tab' = [tab EXCEPT ![t].visible = TRUE,
                        ![t].poll = ResumeActiveSwaps(tab[t].swaps, @)]
  /\ UNCHANGED <<lifecycle, age, disk, told, misrouted>>

-----------------------------------------------------------------------------
(* A poll and the status route.                                            *)

\* A tick drops the request under way, if any (switchMap).
Tick(t, s) ==
  /\ tab[t].poll[s].state = "running" /\ tab[t].visible
  /\ tab' = [tab EXCEPT ![t].poll[s].request = "asked"]
  /\ UNCHANGED <<lifecycle, age, disk, told, misrouted>>

\* takeWhile completes the interval; a request under way is still answered.
Lapse(t, s) ==
  /\ tab[t].poll[s].state = "running"
  /\ tab' = [tab EXCEPT ![t].poll[s].state = "lapsed"]
  /\ UNCHANGED <<lifecycle, age, disk, told, misrouted>>

\* GET /status/:swapId shows "claimable" as "paid".
PublicStatus(st) == IF st = "claimable" THEN "paid" ELSE st

\* fetchStatus answers a final status as it is in the row.  Over another it
\* transcribes what Atomiq says, which it answers whether or not it is saved.
ServeStatus(t, s) ==
  /\ tab[t].poll[s].request = "asked"
  /\ \E st \in IF status[s] \in Final(s) THEN {status[s]} ELSE MayHold(s) :
       tab' = [tab EXCEPT ![t].poll[s].request = PublicStatus(st)]
  /\ UNCHANGED <<lifecycle, age, disk, told, misrouted>>

\* The request fails: no session or another's, no network, no database.
RequestFails(t, s) ==
  /\ tab[t].poll[s].request = "asked"
  /\ tab' = [tab EXCEPT ![t].poll[s].request = "error"]
  /\ UNCHANGED <<lifecycle, age, disk, told, misrouted>>

\* The API has the row of every swap it opened: only another server, say in
\* the course of a deployment, answers that there is none.
Misroute(t, s) ==
  /\ tab[t].poll[s].request = "asked"
  /\ tab' = [tab EXCEPT ![t].poll[s].request = "not found"]
  /\ misrouted' = misrouted \cup {s}
  /\ UNCHANGED <<lifecycle, age, disk, told>>

\* The NOTIFICATIONS of a final status; the others are not counted.
Announced(s, st) ==
  CASE Direction[s] = LightningToStarknet -> st \in {"completed", "expired", "failed", "lost"}
    [] Direction[s] = BitcoinToStarknet   -> st \in {"completed", "failed", "lost"}
    [] Direction[s] \in ReverseDirections -> st \in {"completed", "refunded", "failed", "lost"}

ShowStatusNotification(t, s, st) ==
  told' = IF Announced(s, st) THEN [told EXCEPT ![t][s][st] = @ + 1] ELSE told

\* Faulty: only a status that is further on than the stored one is kept.
KeepFurthest(t, s) ==
  LET st      == tab[t].poll[s].request
      stored  == Find(tab[t].swaps, s)
      updated == IF stored # <<>> /\ Progress(st) > Progress(stored[1].lastKnownStatus)
                 THEN UpdateSwapStatus(tab[t].swaps, s, st) ELSE tab[t].swaps
      polls   == ResetErrors(tab[t].poll, s)
  IN  /\ st \in SwapStatus
      /\ disk' = PersistToStorage(updated)
      /\ tab' = [tab EXCEPT ![t].swaps = updated, ![t].poll = polls]
      /\ UNCHANGED <<lifecycle, age, told, misrouted>>

\* The tap of startPolling: store, tell a change, stop at the end.
HandleStatus(t, s) ==
  LET st      == tab[t].poll[s].request
      stored  == Find(tab[t].swaps, s)
      updated == UpdateSwapStatus(tab[t].swaps, s, st)
      polls   == ResetErrors(tab[t].poll, s)
  IN  /\ st \in SwapStatus
      /\ disk' = PersistToStorage(updated)
      /\ tab' = [tab EXCEPT
           ![t].swaps = updated,
           ![t].poll = IF IsTerminalStatus(st, Direction[s]) THEN StopPolling(polls, s)
                       ELSE polls]
      /\ IF stored # <<>> /\ stored[1].lastKnownStatus # st
         THEN ShowStatusNotification(t, s, st) ELSE UNCHANGED told
      /\ UNCHANGED <<lifecycle, age, misrouted>>

\* The catchError of startPolling.
HandleNotFound(t, s) ==
  /\ tab[t].poll[s].request = "not found"
  /\ LET updated == UpdateSwapStatus(tab[t].swaps, s, "lost") IN
     /\ disk' = PersistToStorage(updated)
     /\ tab' = [tab EXCEPT ![t].swaps = updated, ![t].poll = StopPolling(@, s)]
  /\ UNCHANGED <<lifecycle, age, told, misrouted>>

HandleError(t, s) ==
  /\ tab[t].poll[s].request = "error"
  /\ tab' = [tab EXCEPT ![t].poll = IncrementErrors(@, s)]
  /\ UNCHANGED <<lifecycle, age, disk, told, misrouted>>

-----------------------------------------------------------------------------
\* The swap moves at Atomiq, and its row in the database, and time passes.
StatusMoves ==
  /\ \E s \in Swaps : End(s) \/ Forget(s) \/ Move(s)
  /\ UNCHANGED <<age, disk, tab, told, misrouted>>

GrowOlder(s) ==
  /\ status[s] # AbsentStatus /\ age[s] # "aged"
  /\ age' = [age EXCEPT ![s] = IF @ = "young" THEN "old" ELSE "aged"]
  /\ UNCHANGED <<lifecycle, disk, tab, told, misrouted>>

TrackingNext ==
  \/ StatusMoves
  \/ \E s \in Swaps : GrowOlder(s)
  \/ \E t \in Tabs : StartServices(t) \/ Reload(t) \/ Hide(t) \/ Show(t)
  \/ \E t \in Tabs, s \in Swaps :
       \/ HandleSuccess(t, s) \/ Tick(t, s) \/ Lapse(t, s)
       \/ ServeStatus(t, s) \/ RequestFails(t, s) \/ Misroute(t, s)
       \/ HandleStatus(t, s) \/ HandleNotFound(t, s) \/ HandleError(t, s)

TrackingSpec == TrackingInit /\ [][TrackingNext]_vars

\* The interval fires again and again while the tab is visible, and the user
\* comes back to the tab; the API answers, now and then at least within the
\* interval, so that the answer is handled before the next tick drops it.
Fairness ==
  /\ \A t \in Tabs, s \in Swaps :
       /\ SF_vars(Tick(t, s)) /\ SF_vars(ServeStatus(t, s)) /\ SF_vars(HandleStatus(t, s))
  /\ \A t \in Tabs : WF_vars(Show(t))

-----------------------------------------------------------------------------
\* What a tab knows of a swap.
Known(list, s) == {stored.lastKnownStatus : stored \in ToSet(Find(list, s))}

\* A tab stops asking for a swap that it holds for finished, so what it shows
\* then must not change any more: it is how Atomiq has ended the swap for good,
\* whatever row the API may still write over it, or "lost" if the SDK has
\* forgotten the swap or something that is not the API answered that there is
\* none.
FinalIsTrue ==
  \A t \in Tabs, s \in Swaps : \A st \in Known(tab[t].swaps, s) \cup Known(disk, s) :
    IsTerminalStatus(st, Direction[s]) =>
      st = end[s] \/ (st = "lost" /\ (forgotten[s] \/ s \in misrouted))

\* Reloads, lapsed polls and answers that were under way do not announce the
\* end of a swap twice: what a tab has told, the disk remembers. (With a
\* second tab, which rewrites the disk from its own older list, it may.)
EndIsToldOnce ==
  Cardinality(Tabs) = 1 =>
    \A t \in Tabs, s \in Swaps : \A st \in TerminalStatus :
      /\ told[t][s][st] <= 1
      /\ told[t][s][st] = 1 => \A other \in TerminalStatus \ {st} : told[t][s][other] = 0

\* A tab that polls a swap whose row is final gets to show an end of it, unless
\* the poll is given up (lapsed, in error, or the tab reloaded) or the row is
\* taken back by an older status.
EndIsShown ==
  \A t \in Tabs, s \in Swaps :
    tab[t].poll[s].state = "running" /\ IsTerminal(status[s], Direction[s])
      ~> \/ \E st \in Known(tab[t].swaps, s) : IsTerminal(st, Direction[s])
         \/ tab[t].poll[s].state # "running"
         \/ ~IsTerminal(status[s], Direction[s])
=============================================================================
