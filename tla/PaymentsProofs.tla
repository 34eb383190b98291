--------------------------- MODULE PaymentsProofs ---------------------------
(***************************************************************************)
(* Proofs about Payments, for any number of requests, accounts and builds  *)
(* and any life of a build.  The invariant says that a build is in one     *)
(* place only: not born, in the cache, with one request, or over.          *)
(***************************************************************************)
EXTENDS Payments, TLAPS

\* The steps of a receive alone.
ReceiveSteps == {"waiting", "recording", "locating", "completing", "saving"}

\* What handler h may have in hand.
HandlerOK(h) ==
  /\ h.pc \in Executing =>
       /\ h.build \in born /\ h.build \notin DOMAIN cache
       /\ h.age <= TTL /\ h.build \notin shown
  /\ h.pc = "building" => h.account \in Accounts
  /\ h.pc \in ReceiveSteps => h.build \in Receives
  /\ h.pc = "submitting" => sent[h.build] = 0 /\ tx[h.build] = "none"
  /\ h.pc \in {"locating", "completing", "saving"} => row[h.build] # "none"
  /\ h.pc = "saving" => tx[h.build] = "succeeded"

\* No two requests execute the same build.
OneHolder ==
  \A r, t \in Requests :
    req[r].pc \in Executing /\ req[t].pc \in Executing /\ req[r].build = req[t].build => r = t

\* A build nobody has consumed has had no effect.
UnusedOK ==
  \A b \in Builds :
    b \notin born \/ b \in DOMAIN cache => sent[b] = 0 /\ tx[b] = "none" /\ b \notin shown

CacheOK == \A b \in DOMAIN cache : cache[b].createdAt <= now

IInv ==
  /\ TypeOK /\ CacheOK /\ OneHolder /\ UnusedOK
  /\ \A r \in Requests : HandlerOK(req[r])
  /\ ExecutedOnce /\ AskedIsRecorded /\ ShownIsEscrowed

USE DEF Position, Executing, ReceiveSteps

-----------------------------------------------------------------------------
(* Types.                                                                  *)

\* The cache, without the existential of its type.
LEMMA CacheType ==
  ASSUME TypeOK
  PROVE  DOMAIN cache \subseteq born /\ cache \in [DOMAIN cache -> Entry]
  BY DEF TypeOK

\* Each variable but the cache and the requests, typed.
LEMMA Types ==
  ASSUME TypeOK
  PROVE  /\ born \in SUBSET Builds /\ req \in [Requests -> Handler]
         /\ tx \in [Builds -> {"none", "pending", "succeeded", "reverted"}]
         /\ row \in [Builds -> {"none", "committed", "paid"}]
         /\ now \in 0 .. MaxTime /\ restarts \in 0 .. MaxRestarts
         /\ sent \in [Builds -> Nat]
         /\ asked \in SUBSET Receives /\ shown \in SUBSET Receives
  BY DEF TypeOK

\* Idle is a handler, and holds nothing.
LEMMA IdleOK ==
  ASSUME PaymentsAssumption
  PROVE  Idle \in Handler /\ Idle.pc = "idle" /\ HandlerOK(Idle)
  BY DEF PaymentsAssumption, Idle, Handler, HandlerOK

\* The initial states satisfy the invariant.
LEMMA InitIInv == ASSUME PaymentsAssumption, Init PROVE IInv
<1>1. req \in [Requests -> Handler] /\ \A r \in Requests : req[r] = Idle
  BY IdleOK DEF Init
<1>2. DOMAIN cache = {} /\ cache \in [{} -> Entry]
  BY DEF Init
<1>3. TypeOK
  <2>1. \E ids \in SUBSET born : cache \in [ids -> Entry]
    BY <1>2
  <2>2. \A r \in Requests : req[r].pc \notin Executing
    BY <1>1, IdleOK
  <2>3. /\ born \in SUBSET Builds /\ asked \in SUBSET Receives /\ shown \in SUBSET Receives
        /\ now \in 0 .. MaxTime /\ restarts \in 0 .. MaxRestarts
    BY DEF PaymentsAssumption, Init
  <2>4. /\ tx \in [Builds -> {"none", "pending", "succeeded", "reverted"}]
        /\ row \in [Builds -> {"none", "committed", "paid"}]
        /\ sent \in [Builds -> Nat]
    BY DEF Init
  <2> QED BY <1>1, <2>1, <2>2, <2>3, <2>4 DEF TypeOK
<1>4. CacheOK /\ OneHolder /\ UnusedOK
  BY <1>1, <1>2, IdleOK DEF Init, CacheOK, OneHolder, UnusedOK
<1>5. \A r \in Requests : HandlerOK(req[r])
  BY <1>1, IdleOK
<1>6. ExecutedOnce /\ AskedIsRecorded /\ ShownIsEscrowed
  BY DEF Init, ExecutedOnce, AskedIsRecorded, ShownIsEscrowed
<1> QED BY <1>3, <1>4, <1>5, <1>6 DEF IInv

\* What a request that goes on keeps, and that the others keep all.
LEMMA GoesFacts ==
  ASSUME TypeOK, NEW r \in Requests, NEW pc \in Position, Goes(r, pc)
  PROVE  /\ req' \in [Requests -> Handler]
         /\ req'[r].pc = pc /\ req'[r].build = req[r].build /\ req'[r].age = req[r].age
         /\ \A q \in Requests \ {r} : req'[q] = req[q]
  BY Types DEF Goes, Handler

\* A request that ends is idle.
LEMMA EndsFacts ==
  ASSUME PaymentsAssumption, TypeOK, NEW r \in Requests, Ends(r)
  PROVE  /\ req' \in [Requests -> Handler]
         /\ req'[r] = Idle
         /\ \A q \in Requests \ {r} : req'[q] = req[q]
  BY Types, IdleOK DEF Ends

-----------------------------------------------------------------------------
(* Steps of one request.                                                   *)

\* The build that request r executes.
Holds(r, b) == req[r].pc \in Executing /\ req[r].build = b

\* A step of one request that takes no build, and touches what concerns the
\* one it holds only, leaves the other requests and the unused builds alone.
LEMMA OthersOK ==
  ASSUME IInv, NEW r \in Requests, UNCHANGED <<born, cache>>,
         \A q \in Requests \ {r} : req'[q] = req[q],
         req'[r].pc \in Executing => Holds(r, req'[r].build),
         \A b \in Builds : ~Holds(r, b) =>
           /\ sent'[b] = sent[b] /\ tx'[b] = tx[b] /\ row'[b] = row[b]
           /\ b \in shown' => b \in shown
  PROVE  /\ OneHolder' /\ UnusedOK'
         /\ \A q \in Requests \ {r} : HandlerOK(req[q])'
<1>1. OneHolder'
  BY DEF IInv, OneHolder, Holds
<1>2. \A b \in Builds : b \notin born \/ b \in DOMAIN cache => ~Holds(r, b)
  BY DEF IInv, HandlerOK, Holds
<1>3. UnusedOK'
  BY <1>2 DEF IInv, UnusedOK
<1>4. ASSUME NEW q \in Requests \ {r} PROVE HandlerOK(req[q])'
  <2>1. HandlerOK(req[q]) /\ req'[q] = req[q]
    BY DEF IInv
  <2>2. CASE req[q].pc \in Executing
    <3> DEFINE b == req[q].build
    <3>1. b \in Builds /\ ~Holds(r, b)
      BY <2>1, <2>2, Types DEF IInv, HandlerOK, OneHolder, Holds
    <3>2. /\ sent'[b] = sent[b] /\ tx'[b] = tx[b] /\ row'[b] = row[b]
          /\ b \in shown' => b \in shown
      BY <3>1
    <3> QED BY <2>1, <3>2 DEF HandlerOK
  <2>3. CASE req[q].pc \notin Executing
    BY <2>1, <2>3 DEF HandlerOK
  <2> QED BY <2>2, <2>3
<1> QED BY <1>1, <1>3, <1>4

\* The type of the state after a step of one request.
LEMMA RequestTypeOK ==
  ASSUME IInv, NEW r \in Requests, UNCHANGED <<born, cache, now, restarts>>,
         req' \in [Requests -> Handler],
         \A q \in Requests \ {r} : req'[q] = req[q],
         req'[r].pc \in Executing => Holds(r, req'[r].build),
         tx' \in [Builds -> {"none", "pending", "succeeded", "reverted"}],
         row' \in [Builds -> {"none", "committed", "paid"}],
         sent' \in [Builds -> Nat],
         asked' \in SUBSET Receives, shown' \in SUBSET Receives
  PROVE  TypeOK' /\ CacheOK'
<1>1. ASSUME NEW q \in Requests, req'[q].pc \in Executing
      PROVE  req'[q].build \in born' \ DOMAIN cache'
  BY <1>1 DEF IInv, HandlerOK, Holds
<1>2. CacheOK'
  BY DEF IInv, CacheOK
<1>3. \E ids \in SUBSET born' : cache' \in [ids -> Entry]
  BY DEF IInv, TypeOK
<1>4. /\ born' \in SUBSET Builds /\ now' \in 0 .. MaxTime /\ restarts' \in 0 .. MaxRestarts
  BY Types DEF IInv
<1> QED BY <1>1, <1>2, <1>3, <1>4 DEF TypeOK

\* A request that goes on and changes nothing else keeps the invariant when
\* it may hold at its new position what it holds.
LEMMA GoesOK ==
  ASSUME IInv, NEW r \in Requests, NEW pc \in Executing, Goes(r, pc),
         UNCHANGED <<born, cache, tx, row, now, restarts, sent, shown>>,
         req[r].pc \in ReceiveSteps,
         pc \in ReceiveSteps,
         pc \in {"locating", "completing", "saving"} => row[req[r].build] # "none",
         pc = "saving" => tx[req[r].build] = "succeeded",
         asked' \subseteq asked \cup {req[r].build},
         req[r].build \in asked' => row[req[r].build] # "none"
  PROVE  IInv'
<1>0. TypeOK
  BY DEF IInv
<1>1. /\ req' \in [Requests -> Handler] /\ \A q \in Requests \ {r} : req'[q] = req[q]
      /\ req'[r].pc = pc /\ req'[r].build = req[r].build /\ req'[r].age = req[r].age
  BY <1>0, GoesFacts
<1>2. HandlerOK(req[r]) /\ Holds(r, req'[r].build) /\ req[r].build \in Receives
  BY <1>1 DEF IInv, HandlerOK, Holds
<1>3. /\ \A q \in Requests \ {r} : HandlerOK(req[q])'
      /\ OneHolder' /\ UnusedOK'
  BY <1>1, <1>2, OthersOK
<1>4. HandlerOK(req[r])'
  BY <1>1, <1>2 DEF HandlerOK
<1>5. asked' \in SUBSET Receives
  BY <1>0, <1>2, Types
<1>6. TypeOK' /\ CacheOK'
  BY <1>0, <1>1, <1>2, <1>5, Types, RequestTypeOK
<1>7. AskedIsRecorded' /\ ShownIsEscrowed' /\ ExecutedOnce'
  BY DEF IInv, AskedIsRecorded, ShownIsEscrowed, ExecutedOnce
<1> QED BY <1>3, <1>4, <1>6, <1>7 DEF IInv

\* So does a request that ends, or starts to build, and changes nothing else.
LEMMA LetsGoOK ==
  ASSUME IInv, NEW r \in Requests,
         req' \in [Requests -> Handler], \A q \in Requests \ {r} : req'[q] = req[q],
         req'[r].pc \notin Executing,
         req'[r].pc = "building" => req'[r].account \in Accounts,
         UNCHANGED <<born, cache, tx, row, now, restarts, sent, asked, shown>>
  PROVE  IInv'
<1>1. /\ \A q \in Requests \ {r} : HandlerOK(req[q])'
      /\ OneHolder' /\ UnusedOK'
  BY OthersOK
<1>2. HandlerOK(req[r])'
  BY DEF HandlerOK
<1>3. TypeOK' /\ CacheOK'
  BY Types, RequestTypeOK DEF IInv
<1>4. AskedIsRecorded' /\ ShownIsEscrowed' /\ ExecutedOnce'
  BY DEF IInv, AskedIsRecorded, ShownIsEscrowed, ExecutedOnce
<1> QED BY <1>1, <1>2, <1>3, <1>4 DEF IInv

-----------------------------------------------------------------------------
(* The actions of a request that executes.                                 *)

\* The transaction of a build is sent by the one request that consumed it,
\* and for the first time.
LEMMA SubmitOK ==
  ASSUME PaymentsAssumption, IInv, NEW r \in Requests, Submit(r)
  PROVE  IInv'
<1> DEFINE b == req[r].build
<1>0. TypeOK /\ HandlerOK(req[r]) /\ req[r].pc = "submitting"
  BY DEF IInv, Submit
<1>1. /\ b \in Builds /\ sent[b] = 0 /\ tx[b] = "none" /\ b \notin shown
      /\ b \in born /\ b \notin DOMAIN cache /\ req[r].age <= TTL
  BY <1>0, Types DEF HandlerOK
<1>2. PICK pc \in {"waiting", "describing"} :
        (Goes(r, pc) \/ Ends(r)) /\ (pc = "waiting" => b \in Receives)
  BY DEF Submit
<1>3. /\ req' \in [Requests -> Handler] /\ \A q \in Requests \ {r} : req'[q] = req[q]
      /\ \/ req'[r].pc = pc /\ req'[r].build = b /\ req'[r].age = req[r].age
         \/ req'[r] = Idle
  BY <1>0, <1>2, GoesFacts, EndsFacts
<1>4. /\ sent' \in [Builds -> Nat] /\ sent'[b] = 1
      /\ tx' \in [Builds -> {"none", "pending", "succeeded", "reverted"}]
      /\ \A c \in Builds \ {b} : sent'[c] = sent[c] /\ tx'[c] = tx[c]
  BY <1>0, <1>1, Types DEF Submit
<1>5. UNCHANGED <<born, cache, row, now, restarts, asked, shown>>
  BY DEF Submit
<1>6. req'[r].pc \in Executing => Holds(r, req'[r].build)
  BY <1>0, <1>3, IdleOK DEF Holds
<1>7. \A c \in Builds : ~Holds(r, c) => sent'[c] = sent[c] /\ tx'[c] = tx[c]
  BY <1>0, <1>4 DEF Holds
<1>8. /\ \A q \in Requests \ {r} : HandlerOK(req[q])'
      /\ OneHolder' /\ UnusedOK'
  BY <1>3, <1>5, <1>6, <1>7, OthersOK
<1>9. HandlerOK(req[r])'
  <2>1. CASE req'[r] = Idle
    BY <2>1, IdleOK DEF HandlerOK
  <2>2. CASE req'[r].pc = pc /\ req'[r].build = b /\ req'[r].age = req[r].age
    BY <1>1, <1>2, <1>5, <2>2 DEF HandlerOK
  <2> QED BY <1>3, <2>1, <2>2
<1>10. TypeOK' /\ CacheOK'
  BY <1>0, <1>3, <1>4, <1>5, <1>6, Types, RequestTypeOK
<1>11. AskedIsRecorded' /\ ShownIsEscrowed'
  <2>1. \A c \in shown : c # b /\ c \in Builds
    BY <1>0, <1>1, Types DEF PaymentsAssumption
  <2> QED BY <1>4, <1>5, <2>1 DEF IInv, AskedIsRecorded, ShownIsEscrowed
<1>12. ExecutedOnce'
  BY <1>4 DEF IInv, ExecutedOnce
<1> QED BY <1>8, <1>9, <1>10, <1>11, <1>12 DEF IInv

\* The row of a receive is there before its completion is asked for.
LEMMA SaveBitcoinCommitOK ==
  ASSUME PaymentsAssumption, IInv, NEW r \in Requests, SaveBitcoinCommit(r)
  PROVE  IInv'
<1> DEFINE b == req[r].build
<1>0. TypeOK /\ HandlerOK(req[r]) /\ req[r].pc = "recording"
  BY DEF IInv, SaveBitcoinCommit
<1>1. /\ b \in Builds /\ b \in Receives /\ b \notin shown
      /\ b \in born /\ b \notin DOMAIN cache /\ req[r].age <= TTL
  BY <1>0, Types DEF HandlerOK
<1>3. /\ req' \in [Requests -> Handler] /\ \A q \in Requests \ {r} : req'[q] = req[q]
      /\ req'[r].pc = "locating" /\ req'[r].build = b /\ req'[r].age = req[r].age
  BY <1>0, GoesFacts DEF SaveBitcoinCommit
<1>4. /\ row' \in [Builds -> {"none", "committed", "paid"}] /\ row'[b] = "committed"
      /\ \A c \in Builds \ {b} : row'[c] = row[c]
  BY <1>0, <1>1, Types DEF SaveBitcoinCommit
<1>5. UNCHANGED <<born, cache, tx, now, restarts, sent, asked, shown>>
  BY DEF SaveBitcoinCommit
<1>6. Holds(r, req'[r].build)
  BY <1>0, <1>3 DEF Holds
<1>7. \A c \in Builds : ~Holds(r, c) => row'[c] = row[c]
  BY <1>0, <1>4 DEF Holds
<1>8. /\ \A q \in Requests \ {r} : HandlerOK(req[q])'
      /\ OneHolder' /\ UnusedOK'
  BY <1>3, <1>5, <1>6, <1>7, OthersOK
<1>9. HandlerOK(req[r])'
  BY <1>1, <1>3, <1>4, <1>5 DEF HandlerOK
<1>10. TypeOK' /\ CacheOK'
  BY <1>0, <1>3, <1>4, <1>5, <1>6, Types, RequestTypeOK
<1>11. AskedIsRecorded' /\ ShownIsEscrowed' /\ ExecutedOnce'
  <2>1. (\A c \in shown : c # b /\ c \in Builds) /\ \A c \in asked : c \in Builds
    BY <1>0, <1>1, Types DEF PaymentsAssumption
  <2> QED BY <1>4, <1>5, <2>1 DEF IInv, AskedIsRecorded, ShownIsEscrowed, ExecutedOnce
<1> QED BY <1>8, <1>9, <1>10, <1>11 DEF IInv

\* An address is answered by the request that saw the commit succeed, which
\* then lets the build go.
LEMMA SaveCompletedOK ==
  ASSUME PaymentsAssumption, IInv, NEW r \in Requests, SaveCompleted(r)
  PROVE  IInv'
<1> DEFINE b == req[r].build
<1>0. TypeOK /\ HandlerOK(req[r]) /\ req[r].pc = "saving"
  BY DEF IInv, SaveCompleted
<1>1. /\ b \in Builds /\ b \in Receives /\ tx[b] = "succeeded"
      /\ b \in born /\ b \notin DOMAIN cache
  BY <1>0, Types DEF HandlerOK
<1>3. /\ req' \in [Requests -> Handler] /\ \A q \in Requests \ {r} : req'[q] = req[q]
      /\ req'[r] = Idle
  BY <1>0, EndsFacts DEF SaveCompleted
<1>4. /\ row' \in [Builds -> {"none", "committed", "paid"}] /\ row'[b] = "paid"
      /\ \A c \in Builds \ {b} : row'[c] = row[c]
      /\ shown' = shown \cup {b}
  BY <1>0, <1>1, Types DEF SaveCompleted
<1>5. UNCHANGED <<born, cache, tx, now, restarts, sent, asked>>
  BY DEF SaveCompleted
<1>6. req'[r].pc \notin Executing
  BY <1>3, IdleOK
<1>7. \A c \in Builds : ~Holds(r, c) => row'[c] = row[c] /\ (c \in shown' => c \in shown)
  BY <1>0, <1>4 DEF Holds
<1>8. /\ \A q \in Requests \ {r} : HandlerOK(req[q])'
      /\ OneHolder' /\ UnusedOK'
  BY <1>3, <1>5, <1>6, <1>7, OthersOK
<1>9. HandlerOK(req[r])'
  BY <1>3, IdleOK DEF HandlerOK
<1>10. TypeOK' /\ CacheOK'
  <2>1. shown' \in SUBSET Receives /\ asked' \in SUBSET Receives
    BY <1>0, <1>1, <1>4, <1>5, Types
  <2> QED BY <1>0, <1>3, <1>4, <1>5, <1>6, <2>1, Types, RequestTypeOK
<1>11. AskedIsRecorded' /\ ShownIsEscrowed' /\ ExecutedOnce'
  <2>1. (\A c \in shown : c \in Builds) /\ \A c \in asked : c \in Builds
    BY <1>0, Types DEF PaymentsAssumption
  <2> QED BY <1>1, <1>4, <1>5, <2>1 DEF IInv, AskedIsRecorded, ShownIsEscrowed, ExecutedOnce
<1> QED BY <1>8, <1>9, <1>10, <1>11 DEF IInv

-----------------------------------------------------------------------------
(* The actions on the cache, and those of the world.                       *)

\* What is left of a cache without some of its entries.
LEMMA SmallerCache ==
  ASSUME IInv, NEW kept \in SUBSET (DOMAIN cache), cache' = [id \in kept |-> cache[id]],
         UNCHANGED <<born, now>>
  PROVE  /\ DOMAIN cache' = kept /\ CacheOK'
         /\ \E ids \in SUBSET born' : cache' \in [ids -> Entry]
<1>1. DOMAIN cache \subseteq born /\ cache \in [DOMAIN cache -> Entry]
  BY CacheType DEF IInv
<1>2. DOMAIN cache' = kept /\ cache' \in [kept -> Entry]
  BY <1>1
<1>3. CacheOK'
  BY DEF IInv, CacheOK
<1> QED BY <1>1, <1>2, <1>3

\* A request consumes a build that is good, and no other request has it.
LEMMA ConsumeOK ==
  ASSUME PaymentsAssumption, IInv, NEW r \in Requests, NEW b \in Builds,
         NEW a \in Accounts, Consume(r, b, a)
  PROVE  IInv'
<1>0. TypeOK
  BY DEF IInv
<1>1. /\ b \in DOMAIN cache /\ b \in born /\ cache[b] \in Entry /\ cache[b].createdAt <= now
      /\ now - cache[b].createdAt <= TTL
  BY <1>0, CacheType, Types DEF PaymentsAssumption, IInv, CacheOK, Consume, Expired, Entry
<1>2. now - cache[b].createdAt \in 0 .. MaxTime
  BY <1>0, <1>1, Types DEF PaymentsAssumption, Entry
<1> DEFINE h == [pc |-> "submitting", build |-> b, account |-> a, age |-> now - cache[b].createdAt]
<1>3. req' = [req EXCEPT ![r] = h]
  BY DEF Consume
<1>4. h \in Handler /\ h.pc = "submitting" /\ h.build = b /\ h.age <= TTL
  BY <1>1, <1>2 DEF Handler
<1> HIDE DEF h
<1>5. /\ req' \in [Requests -> Handler] /\ req'[r] = h
      /\ \A q \in Requests \ {r} : req'[q] = req[q]
  BY <1>0, <1>3, <1>4, Types
<1>6. UNCHANGED <<born, tx, row, now, restarts, sent, asked, shown>>
  BY DEF Consume
<1>7. /\ DOMAIN cache' = DOMAIN cache \ {b} /\ CacheOK'
      /\ \E ids \in SUBSET born' : cache' \in [ids -> Entry]
  BY <1>6, SmallerCache DEF Consume, Consumed
<1>8. sent[b] = 0 /\ tx[b] = "none" /\ b \notin shown
  BY <1>1 DEF IInv, UnusedOK
<1>9. \A q \in Requests \ {r} : req[q].pc \in Executing => req[q].build # b
  BY <1>1 DEF IInv, HandlerOK
<1>10. OneHolder'
  BY <1>4, <1>5, <1>9 DEF IInv, OneHolder
<1>11. UnusedOK'
  BY <1>6, <1>7, <1>8 DEF IInv, UnusedOK
<1>12. \A q \in Requests : HandlerOK(req[q])'
  <2>1. HandlerOK(req[r])'
    BY <1>1, <1>4, <1>5, <1>6, <1>7, <1>8 DEF HandlerOK
  <2>2. ASSUME NEW q \in Requests \ {r} PROVE HandlerOK(req[q])'
    BY <1>5, <1>6, <1>7 DEF IInv, HandlerOK
  <2> QED BY <2>1, <2>2
<1>13. TypeOK'
  <2>1. \A q \in Requests : req'[q].pc \in Executing => req'[q].build \in born' \ DOMAIN cache'
    BY <1>12 DEF HandlerOK
  <2> QED BY <1>0, <1>5, <1>6, <1>7, <2>1, Types DEF TypeOK
<1>14. AskedIsRecorded' /\ ShownIsEscrowed' /\ ExecutedOnce'
  BY <1>6 DEF IInv, AskedIsRecorded, ShownIsEscrowed, ExecutedOnce
<1> QED BY <1>7, <1>10, <1>11, <1>12, <1>13, <1>14 DEF IInv

\* Losing entries, a refused one or all of them, and requests, breaks nothing.
LEMMA LosesOK ==
  ASSUME PaymentsAssumption, IInv, NEW kept \in SUBSET (DOMAIN cache),
         cache' = [id \in kept |-> cache[id]],
         UNCHANGED <<born, tx, row, now, sent, asked, shown>>,
         restarts' \in 0 .. MaxRestarts,
         req' \in [Requests -> Handler],
         \A q \in Requests : req'[q] = req[q] \/ req'[q] = Idle
  PROVE  IInv'
<1>0. TypeOK
  BY DEF IInv
<1>1. /\ DOMAIN cache' = kept /\ CacheOK'
      /\ \E ids \in SUBSET born' : cache' \in [ids -> Entry]
  BY SmallerCache
<1>2. \A q \in Requests : HandlerOK(req[q])'
  <2>1. ASSUME NEW q \in Requests, req'[q] = req[q] PROVE HandlerOK(req[q])'
    BY <1>1, <2>1 DEF IInv, HandlerOK
  <2>2. ASSUME NEW q \in Requests, req'[q] = Idle PROVE HandlerOK(req[q])'
    BY <2>2, IdleOK DEF HandlerOK
  <2> QED BY <2>1, <2>2
<1>3. OneHolder'
  BY IdleOK DEF IInv, OneHolder
<1>4. UnusedOK'
  BY <1>1 DEF IInv, UnusedOK
<1>5. TypeOK'
  <2>1. \A q \in Requests : req'[q].pc \in Executing => req'[q].build \in born' \ DOMAIN cache'
    BY <1>2 DEF HandlerOK
  <2> QED BY <1>0, <1>1, <2>1, Types DEF TypeOK
<1>6. AskedIsRecorded' /\ ShownIsEscrowed' /\ ExecutedOnce'
  BY DEF IInv, AskedIsRecorded, ShownIsEscrowed, ExecutedOnce
<1> QED BY <1>1, <1>2, <1>3, <1>4, <1>5, <1>6 DEF IInv

\* A new build is in the hands of nobody.
LEMMA CacheBuildOK ==
  ASSUME PaymentsAssumption, IInv, NEW r \in Requests, NEW b \in Builds, CacheBuild(r, b)
  PROVE  IInv'
<1>0. TypeOK /\ req[r].pc = "building" /\ b \notin born
  BY DEF IInv, CacheBuild
<1>1. /\ req' \in [Requests -> Handler] /\ req'[r] = Idle
      /\ \A q \in Requests \ {r} : req'[q] = req[q]
  BY <1>0, EndsFacts DEF CacheBuild
<1>2. UNCHANGED <<tx, row, now, restarts, sent, asked, shown>> /\ born' = born \cup {b}
  BY DEF CacheBuild
<1>3. DOMAIN cache \subseteq born /\ cache \in [DOMAIN cache -> Entry]
  BY <1>0, CacheType
<1>4. req[r].account \in Accounts /\ now \in 0 .. MaxTime
  BY <1>0, Types DEF IInv, HandlerOK
<1> DEFINE kept == {id \in DOMAIN cache : ~Expired(cache[id])}
           entry == [owner |-> req[r].account, createdAt |-> now]
<1>5. entry \in Entry /\ entry.createdAt = now
  BY <1>4 DEF Entry
<1>6. cache' = [id \in kept \cup {b} |-> IF id = b THEN entry ELSE cache[id]]
  BY DEF CacheBuild, Set
<1>7. kept \subseteq DOMAIN cache
  OBVIOUS
<1> HIDE DEF kept, entry
<1>8. /\ DOMAIN cache' = kept \cup {b} /\ cache'[b] = entry
      /\ \A id \in kept : id # b /\ cache'[id] = cache[id]
      /\ cache' \in [kept \cup {b} -> Entry]
  BY <1>0, <1>3, <1>5, <1>6, <1>7
<1>9. CacheOK'
  BY <1>2, <1>4, <1>5, <1>7, <1>8 DEF IInv, CacheOK
<1>10. UnusedOK'
  BY <1>0, <1>2, <1>7, <1>8 DEF IInv, UnusedOK
<1>11. \A q \in Requests : HandlerOK(req[q])'
  <2>1. HandlerOK(req[r])'
    BY <1>1, IdleOK DEF HandlerOK
  <2>2. ASSUME NEW q \in Requests \ {r} PROVE HandlerOK(req[q])'
    BY <1>0, <1>1, <1>2, <1>7, <1>8 DEF IInv, HandlerOK
  <2> QED BY <2>1, <2>2
<1>12. OneHolder'
  BY <1>1, IdleOK DEF IInv, OneHolder
<1>13. TypeOK'
  <2>1. \A q \in Requests : req'[q].pc \in Executing => req'[q].build \in born' \ DOMAIN cache'
    BY <1>11 DEF HandlerOK
  <2>2. \E ids \in SUBSET born' : cache' \in [ids -> Entry]
    <3>1. kept \cup {b} \in SUBSET born'
      BY <1>2, <1>3, <1>7
    <3> QED BY <1>8, <3>1
  <2>3. born' \in SUBSET Builds
    BY <1>0, <1>2, Types
  <2> QED BY <1>0, <1>1, <1>2, <2>1, <2>2, <2>3, Types DEF TypeOK
<1>14. AskedIsRecorded' /\ ShownIsEscrowed' /\ ExecutedOnce'
  BY <1>2 DEF IInv, AskedIsRecorded, ShownIsEscrowed, ExecutedOnce
<1> QED BY <1>9, <1>10, <1>11, <1>12, <1>13, <1>14 DEF IInv

\* A transaction is included after it was sent, and once.
LEMMA IncludeTransactionOK ==
  ASSUME PaymentsAssumption, IInv, NEW b \in Builds, IncludeTransaction(b)
  PROVE  IInv'
<1>0. TypeOK /\ tx[b] = "pending"
  BY DEF IInv, IncludeTransaction
<1>1. /\ tx' \in [Builds -> {"none", "pending", "succeeded", "reverted"}]
      /\ \A c \in Builds \ {b} : tx'[c] = tx[c]
  BY <1>0, Types DEF IncludeTransaction
<1>2. UNCHANGED <<born, cache, req, row, now, restarts, sent, asked, shown>>
  BY DEF IncludeTransaction
<1>3. \A q \in Requests : HandlerOK(req[q])'
  <2> SUFFICES ASSUME NEW q \in Requests PROVE HandlerOK(req[q])'
    OBVIOUS
  <2>1. HandlerOK(req[q]) /\ (req[q].pc \in Executing => req[q].build \in Builds)
    BY <1>0, Types DEF IInv, HandlerOK
  <2> QED BY <1>0, <1>1, <1>2, <2>1 DEF HandlerOK
<1>4. UnusedOK' /\ OneHolder' /\ CacheOK'
  BY <1>0, <1>1, <1>2 DEF IInv, UnusedOK, OneHolder, CacheOK
<1>5. TypeOK'
  BY <1>0, <1>1, <1>2, Types DEF TypeOK
<1>6. AskedIsRecorded' /\ ShownIsEscrowed' /\ ExecutedOnce'
  <2>1. \A c \in shown : c \in Builds /\ tx'[c] = tx[c]
    BY <1>0, <1>1, Types DEF PaymentsAssumption, IInv, ShownIsEscrowed
  <2> QED BY <1>2, <2>1 DEF IInv, AskedIsRecorded, ShownIsEscrowed, ExecutedOnce
<1> QED BY <1>3, <1>4, <1>5, <1>6 DEF IInv

\* The clock only makes builds older.
LEMMA TickOK == ASSUME PaymentsAssumption, IInv, Tick PROVE IInv'
<1>0. TypeOK /\ now' = now + 1 /\ now < MaxTime
  BY DEF IInv, Tick
<1>1. UNCHANGED <<born, cache, req, tx, row, restarts, sent, asked, shown>>
  BY DEF Tick
<1>2. now' \in 0 .. MaxTime /\ now' \in Nat /\ now \in Nat
  BY <1>0, Types DEF PaymentsAssumption
<1>3. CacheOK'
  <2> SUFFICES ASSUME NEW b \in DOMAIN cache PROVE cache[b].createdAt <= now'
    BY <1>1 DEF CacheOK
  <2>1. cache[b] \in Entry /\ cache[b].createdAt <= now
    BY <1>0, CacheType DEF IInv, CacheOK
  <2>2. cache[b].createdAt \in 0 .. MaxTime
    BY <2>1 DEF Entry
  <2> QED BY <1>0, <1>2, <2>1, <2>2
<1>4. \A q \in Requests : HandlerOK(req[q])'
  BY <1>1 DEF IInv, HandlerOK
<1>5. UnusedOK' /\ OneHolder'
  BY <1>1 DEF IInv, UnusedOK, OneHolder
<1>6. TypeOK'
  BY <1>0, <1>1, <1>2, Types DEF TypeOK
<1>7. AskedIsRecorded' /\ ShownIsEscrowed' /\ ExecutedOnce'
  BY <1>1 DEF IInv, AskedIsRecorded, ShownIsEscrowed, ExecutedOnce
<1> QED BY <1>3, <1>4, <1>5, <1>6, <1>7 DEF IInv

-----------------------------------------------------------------------------
(* The theorems.                                                           *)

\* Every step keeps the invariant.
LEMMA NextIInv == ASSUME PaymentsAssumption, IInv, [Next]_vars PROVE IInv'
<1>0. TypeOK
  BY DEF IInv
<1>1. ASSUME NEW r \in Requests, NEW a \in Accounts, StartBuild(r, a) PROVE IInv'
  <2>1. /\ req' \in [Requests -> Handler] /\ \A q \in Requests \ {r} : req'[q] = req[q]
        /\ req'[r].pc = "building" /\ req'[r].account = a
    <3> DEFINE h == [req[r] EXCEPT !.pc = "building", !.account = a]
    <3>1. req \in [Requests -> Handler] /\ req' = [req EXCEPT ![r] = h]
      BY <1>0, <1>1, Types DEF StartBuild
    <3>2. h \in Handler /\ h.pc = "building" /\ h.account = a
      BY <3>1 DEF Handler
    <3> QED BY <3>1, <3>2
  <2> QED BY <1>1, <2>1, LetsGoOK DEF StartBuild
<1>2. ASSUME NEW r \in Requests, NEW b \in Builds, CacheBuild(r, b) PROVE IInv'
  BY <1>2, CacheBuildOK
<1>3. ASSUME NEW r \in Requests, NEW b \in Builds, NEW a \in Accounts, Consume(r, b, a)
      PROVE IInv'
  BY <1>3, ConsumeOK
<1>4. ASSUME NEW r \in Requests, NEW b \in Builds, NEW a \in Accounts, Refuse(r, b, a)
      PROVE IInv'
  <2>1. req' \in [Requests -> Handler] /\ restarts' \in 0 .. MaxRestarts
    BY <1>0, <1>4, Types DEF Refuse
  <2>2. DOMAIN cache \ {b} \in SUBSET (DOMAIN cache)
    OBVIOUS
  <2> QED BY <1>4, <2>1, <2>2, LosesOK DEF Refuse, Consumed
<1>5. ASSUME NEW r \in Requests, Submit(r) PROVE IInv'
  BY <1>5, SubmitOK
<1>6. ASSUME NEW r \in Requests, SaveDescription(r) \/ RequestFails(r) PROVE IInv'
  <2>1. Ends(r)
    BY <1>6 DEF SaveDescription, RequestFails
  <2>2. /\ req' \in [Requests -> Handler] /\ \A q \in Requests \ {r} : req'[q] = req[q]
        /\ req'[r].pc = "idle"
    BY <1>0, <2>1, EndsFacts, IdleOK
  <2> QED BY <1>6, <2>2, LetsGoOK DEF SaveDescription, RequestFails
<1>7. ASSUME NEW r \in Requests, WaitForTransaction(r) PROVE IInv'
  BY <1>7, GoesOK DEF WaitForTransaction, IInv, AskedIsRecorded
<1>8. ASSUME NEW r \in Requests, SaveBitcoinCommit(r) PROVE IInv'
  BY <1>8, SaveBitcoinCommitOK
<1>9. ASSUME NEW r \in Requests, CompleteBitcoinToStarknet(r) PROVE IInv'
  <2>1. row[req[r].build] # "none"
    BY <1>9 DEF CompleteBitcoinToStarknet, IInv, HandlerOK
  <2> QED BY <1>9, <2>1, GoesOK DEF CompleteBitcoinToStarknet
<1>10. ASSUME NEW r \in Requests, GetDepositAddress(r) PROVE IInv'
  <2>1. row[req[r].build] # "none"
    BY <1>10 DEF GetDepositAddress, IInv, HandlerOK
  <2> QED BY <1>10, <2>1, GoesOK DEF GetDepositAddress
<1>11. ASSUME NEW r \in Requests, SaveCompleted(r) PROVE IInv'
  BY <1>11, SaveCompletedOK
<1>12. ASSUME NEW b \in Builds, IncludeTransaction(b) PROVE IInv'
  BY <1>12, IncludeTransactionOK
<1>13. CASE Tick
  BY <1>13, TickOK
<1>14. CASE Restart
  <2>1. /\ \A q \in Requests : req'[q] = Idle
        /\ req' \in [Requests -> Handler] /\ restarts' \in 0 .. MaxRestarts
    BY <1>0, <1>14, IdleOK, Types DEF PaymentsAssumption, Restart
  <2>2. {} \in SUBSET (DOMAIN cache) /\ cache' = [id \in {} |-> cache[id]]
    BY <1>14 DEF Restart
  <2> QED BY <1>14, <2>1, <2>2, LosesOK DEF Restart
<1>15. CASE UNCHANGED vars
  <2>1. /\ UNCHANGED <<born, cache, req, tx, row, now, restarts, sent, asked, shown>>
    BY <1>15 DEF vars
  <2>2. TypeOK'
    BY <1>0, <2>1 DEF TypeOK
  <2>3. CacheOK' /\ OneHolder' /\ UnusedOK' /\ \A q \in Requests : HandlerOK(req[q])'
    BY <2>1 DEF IInv, CacheOK, OneHolder, UnusedOK, HandlerOK
  <2> QED BY <2>1, <2>2, <2>3 DEF IInv, AskedIsRecorded, ShownIsEscrowed, ExecutedOnce
<1> QED
  BY <1>1, <1>2, <1>3, <1>4, <1>5, <1>6, <1>7, <1>8, <1>9, <1>10, <1>11, <1>12, <1>13, <1>14, <1>15
  DEF Next, Building, Execution, Receiving

\* The invariant holds for ever.
LEMMA Invariance == ASSUME PaymentsAssumption PROVE Spec => []IInv
  BY InitIInv, NextIInv, PTL DEF Spec

\* The variables keep their types, and a build in execution has left the cache.
THEOREM PaymentsTypeCorrect == ASSUME PaymentsAssumption PROVE Spec => []TypeOK
<1>1. IInv => TypeOK
  BY DEF IInv
<1> QED BY <1>1, Invariance, PTL

\* However many requests post a build, and whatever fails or restarts, its
\* transaction is sent at most once.
THEOREM EveryBuildExecutedOnce == ASSUME PaymentsAssumption PROVE Spec => []ExecutedOnce
<1>1. IInv => ExecutedOnce
  BY DEF IInv
<1> QED BY <1>1, Invariance, PTL

\* No build is executed after its life.
THEOREM EveryBuildExecutedInTime == ASSUME PaymentsAssumption PROVE Spec => []ExecutedInTime
<1>1. IInv => ExecutedInTime
  BY DEF IInv, HandlerOK, ExecutedInTime
<1> QED BY <1>1, Invariance, PTL

\* The row of a receive exists from before its completion is asked for.
THEOREM AskedIsAlwaysRecorded == ASSUME PaymentsAssumption PROVE Spec => []AskedIsRecorded
<1>1. IInv => AskedIsRecorded
  BY DEF IInv
<1> QED BY <1>1, Invariance, PTL

\* A deposit address that was answered is that of a funded, recorded escrow.
THEOREM ShownIsAlwaysEscrowed == ASSUME PaymentsAssumption PROVE Spec => []ShownIsEscrowed
<1>1. IInv => ShownIsEscrowed
  BY DEF IInv
<1> QED BY <1>1, Invariance, PTL
=============================================================================
