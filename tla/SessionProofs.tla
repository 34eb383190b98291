--------------------------- MODULE SessionProofs ---------------------------
(***************************************************************************)
(* Proofs about Session, for any users, ids, sessions, requests and events. *)
(***************************************************************************)
EXTENDS Session, TLAPS

-----------------------------------------------------------------------------
(* The inductive invariant.                                                *)

\* A session that was opened, and one that is over: its user was signed out,
\* or only a request that had read it before its end keeps it.
Owned(s) == s \in Sids /\ session[s].owner # NoOne
Over(s) == ~session[s].live \/ s \in revived \cup outlived

\* What a request may carry while u is on screen, and set as the cookie.
MayServe(s, u) == s = 0 \/ (Owned(s) /\ (session[s].owner = u \/ Over(s)))

\* What the tab awaits in each position of its flow.
Awaited ==
  CASE flow.pc = "asking" -> "session"
    [] flow.pc = "beginning" -> "begin"
    [] flow.pc = "completing" -> IF flow.kind = "in" THEN "login" ELSE "register"
    [] flow.pc \in {"language", "currency"} -> "page"
    [] OTHER -> "none"

\* The slots: what is free, and what only a flow awaits.
SlotFits(q) ==
  /\ req[q].st = "free" => req[q] = Free
  /\ req[q].st # "free" => req[q].op # "none"
  /\ req[q].st = "answered" => req[q].by # "nobody"
  /\ req[q].op \in {"session", "begin", "login", "register"} => req[q].by \in {"flow", "nobody"}

\* The sessions a request carries: opened, live when it was found, that of its
\* user when it was opened, over when it was refused.
CarriesFits(q) ==
  /\ req[q].sid = 0 \/ Owned(req[q].sid)
  /\ req[q].op \in {"session", "page"} =>
       (req[q].st = "read" \/ (req[q].st = "answered" /\ req[q].ans = "ok") => req[q].sid # 0)
  /\ req[q].op \in {"login", "register"} /\ req[q].st = "answered" /\ req[q].ans = "ok" =>
       req[q].sid # 0 /\ session[req[q].sid].owner = req[q].user
  /\ req[q].st = "answered" /\ (req[q].op = "logout" \/ (req[q].op = "page" /\ req[q].ans = "denied")) =>
       req[q].sid = 0 \/ Over(req[q].sid)

\* What a passkey made: for its user, with a count it has reached.
CredentialFits(q) ==
  /\ req[q].op \in {"login", "register"} => req[q].id \in Ids /\ req[q].user \in Users
  /\ req[q].op = "register" => passkey[req[q].id].user = req[q].user
  /\ req[q].op = "login" =>
       /\ req[q].count <= passkey[req[q].id].count /\ req[q].held <= passkey[req[q].id].count
       /\ req[q].id \notin Counting => req[q].count = 0 /\ req[q].held = 0

\* What an answer may set as the cookie.
ServesFits(q) ==
  req[q].op = "page" /\ req[q].by \in {"flow", "page"} => MayServe(req[q].sid, shown)

\* The flow awaits one request, of its position.
OneAwaited ==
  \A q \in Slots : req[q].by = "flow" =>
    req[q].op = Awaited /\ \A p \in Slots : req[p].by = "flow" => p = q

\* A tab that starts has no other request, and asks with its cookie.
BootFits ==
  /\ flow.kind = "boot" => page = "blank"
  /\ flow.pc = "asking" =>
       /\ flow.kind = "boot" /\ shown = NoOne
       /\ \A q \in Slots : req[q].by # "nobody" => req[q].by = "flow" /\ req[q].sid = cookie

\* Who signs in or up is not signed in, and is led away from the page after.
FlowFits ==
  /\ flow.kind = "none" <=> flow.pc = "none"
  /\ flow.kind = "up" => flow.user \in Users /\ flow.pc # "checking"
  /\ flow.pc \in {"beginning", "prompting", "completing"} => shown = NoOne /\ flow.kind # "boot"
  /\ flow.pc = "none" /\ page = "auth" => shown = NoOne
  /\ flow.pc = "leaving" /\ flow.kind # "boot" /\ shown # NoOne => goal \in {"home", "setup", "updating"}

\* The cookie is the user's or is over, but for a tab whose first request failed.
CookieFits ==
  /\ cookie = 0 \/ Owned(cookie)
  /\ \/ MayServe(cookie, shown)
     \/ shown = NoOne /\ page \notin Guarded /\ flow.pc \notin {"language", "currency"}

\* No count is stored that the passkey has not reached.
CountsFit ==
  \A i \in Ids :
    /\ signCount[i] <= passkey[i].count
    /\ i \notin Counting => signCount[i] = 0 /\ passkey[i].count = 0

KeysFit == \A u \in Users : account[u] # 0 => passkey[account[u]].user = u

RequestsFit == \A q \in Slots : SlotFits(q) /\ CarriesFits(q) /\ CredentialFits(q)
TabFits == (\A q \in Slots : ServesFits(q)) /\ OneAwaited /\ BootFits /\ FlowFits /\ CookieFits

Fits == RequestsFit /\ TabFits /\ CountsFit /\ KeysFit

-----------------------------------------------------------------------------
(* Types.                                                                  *)

\* The bounds, one by one.
LEMMA Bounds ==
  /\ MaxIds \in Nat \ {0} /\ MaxSessions \in Nat \ {0}
  /\ MaxRequests \in Nat /\ MaxFlows \in Nat /\ MaxEvents \in Nat
BY SessionAssumption

\* A free slot, and a request that was just sent, are requests.
LEMMA FreeType == Free \in Requests
BY DEF Free, Requests, Ids, Sids

\* So is what the tab sends.
LEMMA AskType ==
  ASSUME NEW op \in {"session", "begin", "login", "register", "logout", "page"},
         NEW by \in {"flow", "out", "page"}, NEW c \in Sids \cup {0}
  PROVE  Ask(op, by, c) \in Requests
BY DEF Ask, Free, Requests, Ids, Sids

\* The fields of a request.
LEMMA RequestFields ==
  ASSUME NEW r \in Requests
  PROVE  /\ r.op \in {"none", "session", "begin", "login", "register", "logout", "page"}
         /\ r.by \in {"nobody", "flow", "out", "page"}
         /\ r.sid \in Sids \cup {0} /\ r.id \in Ids \cup {0}
         /\ r.count \in Nat /\ r.held \in Nat
         /\ r.user \in Users \cup {NoOne}
         /\ r.st \in {"free", "sent", "read", "answered"}
         /\ r.ans \in {"none", "ok", "denied", "refused"}
BY DEF Requests

\* What the steps change of a request leaves a request.
LEMMA RequestChanges ==
  ASSUME NEW r \in Requests
  PROVE  /\ [r EXCEPT !.by = "nobody"] \in Requests
         /\ [r EXCEPT !.st = "read"] \in Requests
         /\ \A h \in Nat : [r EXCEPT !.st = "read", !.held = h] \in Requests
         /\ \A c \in Sids \cup {0}, ans \in {"ok", "denied", "refused"} :
              [r EXCEPT !.st = "answered", !.ans = ans, !.sid = c] \in Requests
         /\ \A i \in Ids, n \in Nat, u \in Users \cup {NoOne} : WithCredential(r, i, n, u) \in Requests
<1>1. [r EXCEPT !.by = "nobody"] \in Requests
  BY DEF Requests
<1>2. [r EXCEPT !.st = "read"] \in Requests
  BY DEF Requests
<1>3. ASSUME NEW h \in Nat
      PROVE  [r EXCEPT !.st = "read", !.held = h] \in Requests
  BY DEF Requests
<1>4. ASSUME NEW c \in Sids \cup {0}, NEW ans \in {"ok", "denied", "refused"}
      PROVE  [r EXCEPT !.st = "answered", !.ans = ans, !.sid = c] \in Requests
  BY ZenonT(30) DEF Requests
<1>5. ASSUME NEW i \in Ids, NEW n \in Nat, NEW u \in Users \cup {NoOne}
      PROVE  WithCredential(r, i, n, u) \in Requests
  BY DEF Requests, WithCredential
<1>. QED BY <1>1, <1>2, <1>3, <1>4, <1>5

\* The browser starts with one user known, or none.
LEMMA KnownUser ==
  ASSUME Init
  PROVE  \E known \in BOOLEAN, u \in Users :
        /\ account = [v \in Users |-> IF known /\ v = u THEN 1 ELSE 0]
        /\ session = [s \in Sids |-> [owner |-> IF known /\ s = 1 THEN u ELSE NoOne,
                                      live |-> known /\ s = 1]]
        /\ passkey = [i \in Ids |-> [user |-> IF known /\ i = 1 THEN u ELSE NoOne, count |-> 0]]
        /\ cookie = IF known THEN 1 ELSE 0
<1>1. PICK known \in BOOLEAN :
        LET u == CHOOSE v \in Users : TRUE
            First(i) == known /\ i = 1 IN
        /\ account = [v \in Users |-> IF known /\ v = u THEN 1 ELSE 0]
        /\ session = [s \in Sids |-> [owner |-> IF First(s) THEN u ELSE NoOne, live |-> First(s)]]
        /\ passkey = [i \in Ids |-> [user |-> IF First(i) THEN u ELSE NoOne, count |-> 0]]
        /\ cookie = IF known THEN 1 ELSE 0
  BY DEF Init
<1> DEFINE u == CHOOSE v \in Users : TRUE
<1>2. u \in Users
  BY SessionAssumption
<1>3. /\ account = [v \in Users |-> IF known /\ v = u THEN 1 ELSE 0]
      /\ session = [s \in Sids |-> [owner |-> IF known /\ s = 1 THEN u ELSE NoOne,
                                    live |-> known /\ s = 1]]
      /\ passkey = [i \in Ids |-> [user |-> IF known /\ i = 1 THEN u ELSE NoOne, count |-> 0]]
      /\ cookie = IF known THEN 1 ELSE 0
  BY <1>1
<1> HIDE DEF u
<1>. QED BY <1>2, <1>3

\* The types hold when the browser opens the app.
LEMMA TypeInit == Init => TypeOK
<1> SUFFICES ASSUME Init PROVE TypeOK
  OBVIOUS
<1>1. PICK known \in BOOLEAN, u \in Users :
        /\ account = [v \in Users |-> IF known /\ v = u THEN 1 ELSE 0]
        /\ session = [s \in Sids |-> [owner |-> IF known /\ s = 1 THEN u ELSE NoOne,
                                      live |-> known /\ s = 1]]
        /\ passkey = [i \in Ids |-> [user |-> IF known /\ i = 1 THEN u ELSE NoOne, count |-> 0]]
        /\ cookie = IF known THEN 1 ELSE 0
  BY KnownUser
<1>3. 1 \in Ids /\ 1 \in Sids
  BY SessionAssumption DEF Ids, Sids
<1>4. account \in [Users -> Ids \cup {0}] /\ cookie \in Sids \cup {0}
  BY <1>1, <1>3
<1>5. session \in [Sids -> [owner : Users \cup {NoOne}, live : BOOLEAN]]
  BY <1>1
<1>6. passkey \in [Ids -> [user : Users \cup {NoOne}, count : Nat]]
  BY <1>1
<1>7. req \in [Slots -> Requests]
  BY <1>4, FreeType, AskType DEF Init
<1>8. flow \in Flows
  BY DEF Init, Flows
<1>9. made \in [flows : 0 .. MaxFlows, events : 0 .. MaxEvents]
  <2>1. 0 \in 0 .. MaxFlows /\ 0 \in 0 .. MaxEvents
    BY Bounds
  <2>2. made = [flows |-> 0, events |-> 0]
    BY DEF Init
  <2>. QED BY <2>1, <2>2
<1>. QED BY <1>4, <1>5, <1>6, <1>7, <1>8, <1>9 DEF Init, TypeOK, Pages, Guarded

\* An event is counted within its bound.
LEMMA EventType == TypeOK /\ Event => made' \in [flows : 0 .. MaxFlows, events : 0 .. MaxEvents]
BY Bounds DEF TypeOK, Event

\* An answer, or the slot that nobody awaits, is a request.
LEMMA AnswerType ==
  ASSUME TypeOK, NEW q \in Slots, NEW ans \in {"ok", "denied", "refused"},
         NEW c \in Sids \cup {0}, Answer(q, ans, c)
  PROVE  req' \in [Slots -> Requests]
BY FreeType, RequestChanges DEF TypeOK, Answer

\* The sessions of a user replaced by one are sessions.
LEMMA ReplaceType ==
  ASSUME TypeOK, NEW q \in Slots, NEW u \in Users, ReplaceSessions(q, u)
  PROVE  /\ req' \in [Slots -> Requests]
         /\ session' \in [Sids -> [owner : Users \cup {NoOne}, live : BOOLEAN]]
<1>1. PICK s \in Sids :
        /\ session' = [t \in Sids |->
                         IF t = s THEN [owner |-> u, live |-> TRUE]
                         ELSE IF session[t].owner = u THEN [session[t] EXCEPT !.live = FALSE]
                         ELSE session[t]]
        /\ Answer(q, "ok", s)
  BY DEF ReplaceSessions
<1>. QED BY <1>1, AnswerType DEF TypeOK

\* The user and the device.
LEMMA UserType ==
  ASSUME TypeOK,
         \/ \E kind \in {"in", "up"}, u \in Users \cup {NoOne} : Begin(kind, u)
         \/ \E i \in Ids : GetAssertion(i) \/ CreateCredential(i)
         \/ PromptFails \/ SignOut \/ PageRequest \/ Reload \/ ReloadIntoUpdate
  PROVE  TypeOK'
<1>0. req \in [Slots -> Requests] /\ cookie \in Sids \cup {0} /\ flow \in Flows
  BY DEF TypeOK
<1>1. ASSUME NEW kind \in {"in", "up"}, NEW u \in Users \cup {NoOne}, Begin(kind, u)
      PROVE  TypeOK'
  <2>1. made' \in [flows : 0 .. MaxFlows, events : 0 .. MaxEvents]
    BY <1>1, Bounds DEF Begin, TypeOK
  <2>2. req' \in [Slots -> Requests]
    BY <1>0, <1>1, AskType DEF Begin
  <2>3. flow' \in Flows
    BY <1>1 DEF Begin, Flows
  <2>. QED BY <1>1, <2>1, <2>2, <2>3 DEF Begin, server, TypeOK
<1>2. ASSUME NEW i \in Ids, GetAssertion(i)
      PROVE  TypeOK'
  <2> DEFINE n == IF i \in Counting THEN passkey[i].count + 1 ELSE 0
  <2>1. n \in Nat /\ passkey[i].user \in Users \cup {NoOne}
    BY DEF TypeOK
  <2>2. PICK q \in Slots :
          req' = [req EXCEPT ![q] = WithCredential(Ask("login", "flow", cookie), i, n, passkey[i].user)]
    BY <1>2 DEF GetAssertion
  <2>3. WithCredential(Ask("login", "flow", cookie), i, n, passkey[i].user) \in Requests
    BY <1>0, <2>1, AskType, RequestChanges
  <2>4. req' \in [Slots -> Requests]
    BY <1>0, <2>2, <2>3
  <2>5. flow' \in Flows
    BY <1>0, <1>2 DEF GetAssertion, Flows
  <2>6. passkey' \in [Ids -> [user : Users \cup {NoOne}, count : Nat]]
    BY <1>2, <2>1 DEF GetAssertion, TypeOK
  <2>. QED BY <1>2, <2>4, <2>5, <2>6 DEF GetAssertion, server, TypeOK
<1>3. ASSUME NEW i \in Ids, CreateCredential(i)
      PROVE  TypeOK'
  <2>1. flow.user \in Users \cup {NoOne}
    BY <1>0 DEF Flows
  <2>2. PICK q \in Slots :
          req' = [req EXCEPT ![q] = WithCredential(Ask("register", "flow", cookie), i, 0, flow.user)]
    BY <1>3 DEF CreateCredential
  <2>3. WithCredential(Ask("register", "flow", cookie), i, 0, flow.user) \in Requests
    BY <1>0, <2>1, AskType, RequestChanges
  <2>4. req' \in [Slots -> Requests]
    BY <1>0, <2>2, <2>3
  <2>5. flow' \in Flows
    BY <1>0, <1>3 DEF CreateCredential, Flows
  <2>6. passkey' \in [Ids -> [user : Users \cup {NoOne}, count : Nat]]
    BY <1>3, <2>1 DEF CreateCredential, TypeOK
  <2>. QED BY <1>3, <2>4, <2>5, <2>6 DEF CreateCredential, server, TypeOK
<1>4. CASE PromptFails
  BY <1>4 DEF PromptFails, server, NoFlow, Flows, TypeOK
<1>5. CASE SignOut
  <2>1. req' \in [Slots -> Requests]
    BY <1>0, <1>5, AskType DEF SignOut
  <2>. QED BY <1>5, <2>1 DEF SignOut, server, client, TypeOK
<1>6. CASE PageRequest
  <2>1. req' \in [Slots -> Requests]
    BY <1>0, <1>6, AskType DEF PageRequest
  <2>. QED BY <1>6, <2>1, EventType DEF PageRequest, server, TypeOK
<1>7. ASSUME Restart, made' \in [flows : 0 .. MaxFlows, events : 0 .. MaxEvents], stale' \in BOOLEAN
      PROVE  TypeOK'
  <2>1. PICK q \in Slots :
          req' = [p \in Slots |->
                    IF p = q THEN Ask("session", "flow", cookie)
                    ELSE IF req[p].st = "answered" THEN Free ELSE [req[p] EXCEPT !.by = "nobody"]]
    BY <1>7 DEF Restart
  <2>2. \A p \in Slots : [req[p] EXCEPT !.by = "nobody"] \in Requests
    BY <1>0, RequestChanges
  <2>3. req' \in [Slots -> Requests]
    BY <1>0, <2>1, <2>2, AskType, FreeType
  <2>4. flow' \in Flows
    BY <1>7 DEF Restart, Flows
  <2>. QED BY <1>7, <2>3, <2>4 DEF Restart, server, Pages, Guarded, TypeOK
<1>8. CASE Reload
  BY <1>7, <1>8, EventType DEF Reload, TypeOK
<1>9. CASE ReloadIntoUpdate
  BY <1>7, <1>9, EventType DEF ReloadIntoUpdate, Download, TypeOK
<1>. QED BY <1>1, <1>2, <1>3, <1>4, <1>5, <1>6, <1>8, <1>9

\* The API.
LEMMA ServerType ==
  ASSUME TypeOK, Fits, NEW q \in Slots, Handle(q)
  PROVE  TypeOK'
<1> USE DEF server, client
<1>0. req \in [Slots -> Requests] /\ req[q] \in Requests
  BY DEF TypeOK
<1>1. CASE HandleBegin(q)
  <2>1. req' \in [Slots -> Requests]
    BY <1>0, <1>1, AnswerType, RequestFields DEF HandleBegin, Answered
  <2>. QED BY <1>1, <2>1 DEF HandleBegin, TypeOK
<1>2. CASE FindSession(q)
  <2>1. CASE IsLive(req[q].sid)
    BY <1>0, <1>2, <2>1, RequestChanges DEF FindSession, TypeOK
  <2>2. CASE ~IsLive(req[q].sid)
    <3>1. req' \in [Slots -> Requests]
      BY <1>0, <1>2, <2>2, AnswerType, RequestFields DEF FindSession, Answered, Unauthenticated
    <3>. QED BY <1>2, <3>1 DEF FindSession, TypeOK
  <2>. QED BY <2>1, <2>2
<1>3. CASE RenewSession(q)
  <2>1. req' \in [Slots -> Requests]
    BY <1>0, <1>3, AnswerType, RequestFields DEF RenewSession, Answered
  <2>2. req[q].sid \in Sids
    BY <1>0, <1>3, RequestFields DEF RenewSession, Fits, RequestsFit, CarriesFits
  <2>3. session' \in [Sids -> [owner : Users \cup {NoOne}, live : BOOLEAN]]
    BY <1>3, <2>2 DEF RenewSession, TypeOK
  <2>4. revived' \in SUBSET Sids
    BY <1>3, <2>2 DEF RenewSession, TypeOK
  <2>. QED BY <1>3, <2>1, <2>3, <2>4 DEF RenewSession, TypeOK
<1>4. CASE FindAccount(q)
  <2>1. signCount[req[q].id] \in Nat
    BY <1>4 DEF FindAccount, Fits, RequestsFit, CredentialFits, TypeOK
  <2>2. \A ans \in {"denied", "refused"} : Answered(q, ans) => req' \in [Slots -> Requests]
    BY <1>0, AnswerType, RequestFields DEF Answered
  <2>3. [req[q] EXCEPT !.st = "read", !.held = signCount[req[q].id]] \in Requests
    BY <1>0, <2>1, RequestChanges
  <2>4. req' \in [Slots -> Requests]
    BY <1>0, <1>4, <2>2, <2>3 DEF FindAccount
  <2>. QED BY <1>4, <2>4 DEF FindAccount, TypeOK
<1>5. CASE OpenSession(q)
  <2>1. req[q].user \in Users /\ req[q].id \in Ids
    BY <1>5 DEF OpenSession, Fits, RequestsFit, CredentialFits
  <2>2. signCount' \in [Ids -> Nat]
    BY <1>0, <1>5, <2>1, RequestFields DEF OpenSession, UpdatedCount, TypeOK
  <2>3. /\ req' \in [Slots -> Requests]
        /\ session' \in [Sids -> [owner : Users \cup {NoOne}, live : BOOLEAN]]
    BY <1>5, <2>1, ReplaceType DEF OpenSession
  <2>. QED BY <1>5, <2>2, <2>3 DEF OpenSession, TypeOK
<1>6. CASE Register(q)
  <2>1. req[q].user \in Users /\ req[q].id \in Ids
    BY <1>6 DEF Register, Fits, RequestsFit, CredentialFits
  <2>2. CASE account[req[q].user] = 0
    <3>1. /\ req' \in [Slots -> Requests]
          /\ session' \in [Sids -> [owner : Users \cup {NoOne}, live : BOOLEAN]]
      BY <1>6, <2>1, <2>2, ReplaceType DEF Register
    <3>2. account' \in [Users -> Ids \cup {0}]
      BY <1>6, <2>1, <2>2 DEF Register, TypeOK
    <3>. QED BY <1>6, <3>1, <3>2 DEF Register, TypeOK
  <2>3. CASE account[req[q].user] # 0
    <3>1. req' \in [Slots -> Requests]
      BY <1>0, <1>6, <2>3, AnswerType, RequestFields DEF Register, Answered
    <3>. QED BY <1>6, <2>3, <3>1 DEF Register, TypeOK
  <2>. QED BY <2>2, <2>3
<1>7. CASE CompleteFails(q)
  <2>1. req' \in [Slots -> Requests]
    BY <1>0, <1>7, AnswerType, RequestFields DEF CompleteFails, Answered
  <2>. QED BY <1>7, <2>1 DEF CompleteFails, TypeOK
<1>8. CASE Logout(q)
  <2>1. req' \in [Slots -> Requests]
    BY <1>0, <1>8, AnswerType, RequestFields DEF Logout, Answered
  <2>2. CASE Invalidate(req[q].sid) /\ UNCHANGED outlived
    <3>1. session' \in [Sids -> [owner : Users \cup {NoOne}, live : BOOLEAN]]
      BY <2>2 DEF Invalidate, TypeOK
    <3>. QED BY <1>8, <2>1, <2>2, <3>1 DEF Logout, TypeOK
  <2>3. CASE IsLive(req[q].sid) /\ outlived' = outlived \cup {req[q].sid} /\ UNCHANGED session
    <3>1. outlived' \in SUBSET Sids
      BY <1>0, <2>3, RequestFields DEF IsLive, TypeOK
    <3>. QED BY <1>8, <2>1, <2>3, <3>1 DEF Logout, TypeOK
  <2>. QED BY <1>8, <2>2, <2>3 DEF Logout
<1>. QED BY <1>1, <1>2, <1>3, <1>4, <1>5, <1>6, <1>7, <1>8 DEF Handle

\* A flow in its next position is a flow.
LEMMA FlowChanges ==
  ASSUME NEW f \in Flows,
         NEW pc \in {"asking", "beginning", "prompting", "completing", "language", "currency",
                     "checking", "leaving"}
  PROVE  [f EXCEPT !.pc = pc] \in Flows
BY DEF Flows

\* What an answer may change of the page's state keeps its type.
LEMMA GoesOnType ==
  ASSUME TypeOK, NEW q \in Slots, NEW pc \in {"language", "currency"}, NEW c \in Sids \cup {0},
         GoesOn(q, pc, c)
  PROVE  flow' \in Flows /\ req' \in [Slots -> Requests]
BY AskType, FlowChanges DEF GoesOn, TypeOK

\* The same, after the last of its settings requests.
LEMMA AfterCurrencyType ==
  ASSUME TypeOK, NEW q \in Slots, AfterCurrency(q)
  PROVE  flow' \in Flows /\ req' \in [Slots -> Requests]
BY FreeType, FlowChanges DEF AfterCurrency, TypeOK

\* Signing out keeps the types of the user and of what outlives him.
LEMMA SignedOutType ==
  ASSUME TypeOK, NEW q \in Slots, SignedOut(q)
  PROVE  shown' \in Users \cup {NoOne} /\ outlived' \in SUBSET Sids
BY DEF SignedOut, TypeOK

\* So does the interceptor.
LEMMA UnauthorizedType ==
  ASSUME TypeOK, NEW q \in Slots, Unauthorized(q)
  PROVE  /\ shown' \in Users \cup {NoOne} /\ outlived' \in SUBSET Sids
         /\ goal' \in Pages \cup {"none"}
BY SignedOutType DEF Unauthorized, TypeOK, Pages

\* The answers.
LEMMA HearType ==
  ASSUME TypeOK, Fits, NEW q \in Slots, Hear(q)
  PROVE  TypeOK'
<1> USE DEF server
<1>0. /\ req \in [Slots -> Requests] /\ req[q] \in Requests
      /\ flow \in Flows /\ NoFlow \in Flows /\ cookie \in Sids \cup {0}
  BY DEF TypeOK, NoFlow, Flows
<1>1. CASE SessionAnswer(q)
  <2>1. CASE req[q].ans = "ok"
    <3>1. req[q].sid \in Sids
      BY <1>0, <1>1, <2>1, RequestFields DEF SessionAnswer, HasAnswer, Fits, RequestsFit, CarriesFits
    <3>2. flow' \in Flows /\ req' \in [Slots -> Requests]
      BY <1>0, <1>1, <2>1, GoesOnType DEF SessionAnswer
    <3>3. shown' \in Users \cup {NoOne}
      BY <1>1, <2>1, <3>1 DEF SessionAnswer, TypeOK
    <3>. QED BY <1>1, <2>1, <3>2, <3>3 DEF SessionAnswer, TypeOK
  <2>2. CASE req[q].ans # "ok"
    <3>1. req' \in [Slots -> Requests]
      BY <1>0, <1>1, <2>2, FreeType DEF SessionAnswer
    <3>. QED BY <1>0, <1>1, <2>2, <3>1 DEF SessionAnswer, TypeOK
  <2>. QED BY <2>1, <2>2
<1>2. CASE BeginAnswer(q)
  <2>1. flow' \in Flows /\ req' \in [Slots -> Requests]
    BY <1>0, <1>2, FreeType, FlowChanges DEF BeginAnswer
  <2>. QED BY <1>2, <2>1 DEF BeginAnswer, TypeOK
<1>3. CASE CompleteAnswer(q)
  <2>1. CASE req[q].ans = "ok"
    <3>1. req[q].sid \in Sids \cup {0} /\ req[q].user \in Users
      BY <1>0, <1>3, RequestFields DEF CompleteAnswer, HasAnswer, Fits, RequestsFit, CredentialFits
    <3>2. flow' \in Flows /\ req' \in [Slots -> Requests]
      BY <1>0, <1>3, <2>1, <3>1, GoesOnType DEF CompleteAnswer
    <3>. QED BY <1>3, <2>1, <3>1, <3>2 DEF CompleteAnswer, TypeOK
  <2>2. CASE req[q].ans # "ok"
    <3>1. req' \in [Slots -> Requests] /\ flow' \in Flows
      BY <1>0, <1>3, <2>2, FreeType DEF CompleteAnswer
    <3>. QED BY <1>3, <2>2, <3>1, UnauthorizedType DEF CompleteAnswer, TypeOK
  <2>. QED BY <2>1, <2>2
<1>4. CASE SettingsAnswer(q)
  <2>1. cookie' \in Sids \cup {0}
    BY <1>0, <1>4, RequestFields DEF SettingsAnswer, CookieSet
  <2>2. flow' \in Flows /\ req' \in [Slots -> Requests]
    BY <1>4, <2>1, GoesOnType, AfterCurrencyType DEF SettingsAnswer, AfterLanguage
  <2>3. /\ shown' \in Users \cup {NoOne} /\ outlived' \in SUBSET Sids
        /\ goal' \in Pages \cup {"none"}
    BY <1>4, SignedOutType, UnauthorizedType DEF SettingsAnswer, TypeOK, Pages, Guarded
  <2>. QED BY <1>4, <2>1, <2>2, <2>3 DEF SettingsAnswer, TypeOK
<1>5. CASE PageAnswer(q)
  <2>1. cookie' \in Sids \cup {0}
    BY <1>0, <1>5, RequestFields DEF PageAnswer, CookieSet
  <2>2. req' \in [Slots -> Requests]
    BY <1>0, <1>5, FreeType DEF PageAnswer
  <2>. QED BY <1>5, <2>1, <2>2, UnauthorizedType DEF PageAnswer, TypeOK
<1>6. CASE LogoutAnswer(q)
  <2>2. req' \in [Slots -> Requests]
    BY <1>0, <1>6, FreeType DEF LogoutAnswer
  <2>. QED BY <1>6, <2>2, SignedOutType DEF LogoutAnswer, TypeOK, Pages
<1>. QED BY <1>1, <1>2, <1>3, <1>4, <1>5, <1>6 DEF Hear

\* A lost answer.
LEMMA LoseType ==
  ASSUME TypeOK, NEW q \in Slots, LoseAnswer(q)
  PROVE  TypeOK'
<1>0. /\ req \in [Slots -> Requests] /\ req[q] \in Requests
      /\ flow \in Flows /\ NoFlow \in Flows /\ cookie \in Sids \cup {0}
  BY DEF TypeOK, NoFlow, Flows
<1> DEFINE gone == IF req[q].st = "answered" \/ req[q].op \notin {"login", "register", "logout"}
                   THEN Free ELSE [req[q] EXCEPT !.by = "nobody"]
<1>1. gone \in Requests
  BY <1>0, FreeType, RequestChanges
<1>2. CASE req[q].by # "flow"
  <2>1. req' = [req EXCEPT ![q] = gone] /\ UNCHANGED <<flow, shown, goal>>
    BY <1>2 DEF LoseAnswer
  <2>2. req' \in [Slots -> Requests]
    BY <1>0, <1>1, <2>1
  <2>. QED BY <2>1, <2>2, EventType DEF LoseAnswer, TypeOK, server
<1>3. CASE req[q].by = "flow" /\ flow.pc = "language"
  <2>1. AfterLanguage(q, cookie) /\ UNCHANGED <<shown, goal>>
    BY <1>3 DEF LoseAnswer
  <2>. QED BY <1>0, <2>1, EventType, GoesOnType DEF LoseAnswer, AfterLanguage, TypeOK, server
<1>4. CASE req[q].by = "flow" /\ flow.pc = "currency"
  <2>1. /\ AfterCurrency(q)
        /\ goal' = IF flow.kind = "up" THEN "setup" ELSE goal
        /\ UNCHANGED shown
    BY <1>4 DEF LoseAnswer
  <2>. QED BY <2>1, EventType, AfterCurrencyType DEF LoseAnswer, TypeOK, server, Pages, Guarded
<1>5. CASE req[q].by = "flow" /\ flow.pc \notin {"language", "currency"}
  <2>1. /\ FlowFails
        /\ req' = [req EXCEPT ![q] = gone]
        /\ UNCHANGED goal
    BY <1>5 DEF LoseAnswer
  <2>2. req' \in [Slots -> Requests]
    BY <1>0, <1>1, <2>1
  <2>. QED BY <1>0, <2>1, <2>2, EventType DEF LoseAnswer, FlowFails, TypeOK, server
<1>. QED BY <1>2, <1>3, <1>4, <1>5

\* Every step keeps the types; the invariant gives what a slot holds.
LEMMA TypeStep == TypeOK /\ Fits /\ [Next]_vars => TypeOK'
<1> SUFFICES ASSUME TypeOK, Fits, [Next]_vars
             PROVE  TypeOK'
  OBVIOUS
<1>1. ASSUME NEW s \in Sids, Expire(s)
      PROVE  TypeOK'
  BY <1>1, EventType DEF Expire, TypeOK
<1>2. CASE HasUpdate
  <2>1. flow' \in Flows /\ goal' \in Pages \cup {"none"}
    <3>1. NoFlow \in Flows /\ [flow EXCEPT !.pc = "leaving"] \in Flows
      BY ZenonT(30), FlowChanges DEF NoFlow, Flows, TypeOK
    <3>2. goal \in Pages \cup {"none"}
      BY DEF TypeOK
    <3>. QED BY <1>2, <3>1, <3>2 DEF HasUpdate, Pages, Guarded
  <2>. QED BY <1>2, <2>1 DEF HasUpdate, server, TypeOK
<1>3. CASE Navigate
  <2>1. flow' \in Flows
    BY <1>3 DEF Navigate, NoFlow, Flows, TypeOK
  <2>2. Redirect(goal) \in Pages
    BY <1>3 DEF Navigate, Redirect, TypeOK, Pages, Guarded
  <2>. QED BY <1>3, <2>1, <2>2 DEF Navigate, server, TypeOK
<1>4. CASE UNCHANGED vars
  BY <1>4 DEF vars, TypeOK
<1>5. CASE User
  <2>1. \A u \in Users \cup {NoOne} : Begin("in", u) \/ Begin("up", u) => TypeOK'
    BY UserType
  <2>. QED BY <1>5, <2>1, UserType DEF User, SignIn, SignUp
<1>6. CASE ReloadIntoUpdate
  BY <1>6, UserType
<1>7. CASE Network
  BY <1>7, ServerType, HearType DEF Network
<1>8. ASSUME NEW q \in Slots, LoseAnswer(q)
      PROVE  TypeOK'
  BY <1>8, LoseType
<1>. QED BY <1>1, <1>2, <1>3, <1>4, <1>5, <1>6, <1>7, <1>8 DEF Next, Tab

-----------------------------------------------------------------------------
(* What no step takes back: who a session is of, that it is over, whose a  *)
(* passkey is, how far it has counted.                                     *)

\* The same, of a session named before the step.
OwnedNext(s) == s \in Sids /\ session'[s].owner # NoOne
OverNext(s) == ~session'[s].live \/ s \in revived' \cup outlived'

Grows ==
  /\ \A s \in Sids : session[s].owner # NoOne =>
       session'[s].owner = session[s].owner /\ (Over(s) => OverNext(s))
  /\ \A i \in Ids :
       /\ passkey[i].user # NoOne => passkey'[i].user = passkey[i].user
       /\ passkey[i].count <= passkey'[i].count

\* A step that leaves sessions and passkeys alone; only outlived may grow.
LEMMA GrowsAlone ==
  ASSUME TypeOK, UNCHANGED <<session, revived, passkey>>, outlived \subseteq outlived'
  PROVE  Grows
BY DEF TypeOK, Grows, Over, OverNext

\* The only live session of a user is the new one: the others are over.
LEMMA ReplaceGrows ==
  ASSUME TypeOK, NEW q \in Slots, NEW u \in Users, ReplaceSessions(q, u),
         UNCHANGED <<revived, outlived, passkey>>
  PROVE  Grows
BY DEF TypeOK, ReplaceSessions, Grows, Over, OverNext

\* The handlers of the API.
LEMMA ServerGrows ==
  ASSUME TypeOK, Fits, NEW q \in Slots, Handle(q)
  PROVE  Grows /\ CountsFit' /\ KeysFit'
<1>0. /\ req \in [Slots -> Requests] /\ req[q] \in Requests
      /\ account \in [Users -> Ids \cup {0}] /\ signCount \in [Ids -> Nat]
      /\ passkey \in [Ids -> [user : Users \cup {NoOne}, count : Nat]]
      /\ session \in [Sids -> [owner : Users \cup {NoOne}, live : BOOLEAN]]
  BY DEF TypeOK
<1>1. CountsFit /\ KeysFit /\ RequestsFit
  BY DEF Fits
<1>2. UNCHANGED <<account, signCount, passkey>> => CountsFit' /\ KeysFit'
  BY <1>1 DEF CountsFit, KeysFit
<1>3. CASE HandleBegin(q) \/ FindSession(q) \/ FindAccount(q) \/ CompleteFails(q)
  <2>1. UNCHANGED <<server, passkey, client>>
    BY <1>3 DEF HandleBegin, FindSession, FindAccount, CompleteFails
  <2>. QED BY <1>2, <2>1, GrowsAlone DEF server, client
<1>4. CASE RenewSession(q)
  <2>1. /\ session' = [session EXCEPT ![req[q].sid].live = TRUE]
        /\ revived' = IF IsLive(req[q].sid) THEN revived ELSE revived \cup {req[q].sid}
        /\ UNCHANGED <<account, signCount, passkey, outlived>>
    BY <1>4 DEF RenewSession, client
  <2>2. req[q].sid \in Sids
    BY <1>0, <1>1, <1>4, RequestFields DEF RenewSession, RequestsFit, CarriesFits
  <2>3. Grows
    BY <1>0, <2>1, <2>2, Bounds DEF Grows, Over, OverNext, IsLive, Sids
  <2>. QED BY <1>2, <2>1, <2>3
<1>5. CASE OpenSession(q)
  <2>1. req[q].user \in Users /\ req[q].id \in Ids
    BY <1>1, <1>5 DEF OpenSession, RequestsFit, CredentialFits
  <2>2. /\ req[q].count <= passkey[req[q].id].count /\ req[q].held <= passkey[req[q].id].count
        /\ req[q].id \notin Counting => req[q].count = 0 /\ req[q].held = 0
    BY <1>1, <1>5 DEF OpenSession, RequestsFit, CredentialFits
  <2>3. Grows
    BY <1>5, <2>1, ReplaceGrows DEF OpenSession, client
  <2>4. /\ signCount' = [signCount EXCEPT ![req[q].id] = UpdatedCount(req[q].count, req[q].held)]
        /\ UNCHANGED <<account, passkey>>
    BY <1>5 DEF OpenSession
  <2>5. CountsFit'
    BY <1>0, <1>1, <2>1, <2>2, <2>4, RequestFields DEF CountsFit, UpdatedCount
  <2>6. KeysFit'
    BY <1>1, <2>4 DEF KeysFit
  <2>. QED BY <2>3, <2>5, <2>6
<1>6. CASE Register(q)
  <2>1. req[q].user \in Users /\ req[q].id \in Ids /\ passkey[req[q].id].user = req[q].user
    BY <1>1, <1>6 DEF Register, RequestsFit, CredentialFits
  <2>2. UNCHANGED <<signCount, revived, passkey, outlived>>
    BY <1>6 DEF Register, client
  <2>3. CountsFit'
    BY <1>1, <2>2 DEF CountsFit
  <2>4. CASE account[req[q].user] = 0
    <3>1. account' = [account EXCEPT ![req[q].user] = req[q].id] /\ ReplaceSessions(q, req[q].user)
      BY <1>6, <2>4 DEF Register
    <3>2. KeysFit'
      BY <1>0, <1>1, <2>1, <2>2, <3>1 DEF KeysFit
    <3>. QED BY <2>1, <2>2, <2>3, <3>1, <3>2, ReplaceGrows
  <2>5. CASE account[req[q].user] # 0
    <3>1. UNCHANGED <<account, session>>
      BY <1>6, <2>5 DEF Register
    <3>. QED BY <1>2, <2>2, <3>1, GrowsAlone
  <2>. QED BY <2>4, <2>5
<1>7. CASE Logout(q)
  <2>1. UNCHANGED <<account, signCount, revived, passkey>>
    BY <1>7 DEF Logout
  <2>2. CASE Invalidate(req[q].sid) /\ UNCHANGED outlived
    BY <1>0, <1>2, <2>1, <2>2 DEF Invalidate, Grows, Over, OverNext
  <2>3. CASE outlived' = outlived \cup {req[q].sid} /\ UNCHANGED session
    BY <1>2, <2>1, <2>3, GrowsAlone
  <2>. QED BY <1>7, <2>2, <2>3 DEF Logout
<1>. QED BY <1>3, <1>4, <1>5, <1>6, <1>7 DEF Handle

\* Every step.
LEMMA GrowsStep ==
  ASSUME TypeOK, Fits, Next
  PROVE  Grows /\ CountsFit' /\ KeysFit'
<1>0. /\ passkey \in [Ids -> [user : Users \cup {NoOne}, count : Nat]]
      /\ account \in [Users -> Ids \cup {0}] /\ signCount \in [Ids -> Nat]
      /\ session \in [Sids -> [owner : Users \cup {NoOne}, live : BOOLEAN]]
  BY DEF TypeOK
<1>1. CountsFit /\ KeysFit
  BY DEF Fits
<1>2. UNCHANGED <<account, signCount, passkey>> => CountsFit' /\ KeysFit'
  BY <1>1 DEF CountsFit, KeysFit
<1>3. ASSUME UNCHANGED <<server, passkey>>, outlived \subseteq outlived'
      PROVE  Grows /\ CountsFit' /\ KeysFit'
  BY <1>2, <1>3, GrowsAlone DEF server
<1>4. ASSUME NEW i \in Ids, GetAssertion(i)
      PROVE  Grows /\ CountsFit' /\ KeysFit'
  <2> DEFINE n == IF i \in Counting THEN passkey[i].count + 1 ELSE 0
  <2>1. passkey' = [passkey EXCEPT ![i].count = n] /\ UNCHANGED <<server, outlived>>
    BY <1>4 DEF GetAssertion
  <2>2. passkey[i].count <= n /\ n \in Nat
    BY <1>0, <1>1 DEF CountsFit
  <2>3. passkey'[i].user = passkey[i].user /\ passkey'[i].count = n
    BY <1>0, <2>1
  <2>4. \A j \in Ids \ {i} : passkey'[j] = passkey[j]
    BY <1>0, <2>1
  <2>5. Grows
    BY <1>0, <2>1, <2>2, <2>3, <2>4 DEF Grows, Over, OverNext, server
  <2>6. CountsFit'
    <3>1. signCount' = signCount
      BY <2>1 DEF server
    <3>. QED BY <1>0, <1>1, <2>2, <2>3, <2>4, <3>1 DEF CountsFit
  <2>7. KeysFit'
    <3>1. account' = account
      BY <2>1 DEF server
    <3>. QED BY <1>0, <1>1, <2>3, <2>4, <3>1 DEF KeysFit
  <2>. QED BY <2>5, <2>6, <2>7
<1>5. ASSUME NEW i \in Ids, CreateCredential(i)
      PROVE  Grows /\ CountsFit' /\ KeysFit'
  <2>1. /\ passkey' = [passkey EXCEPT ![i].user = flow.user] /\ passkey[i].user = NoOne
        /\ UNCHANGED <<account, signCount, session, revived, outlived>>
    BY <1>5 DEF CreateCredential, server
  <2>2. Grows
    BY <1>0, <2>1 DEF Grows, Over, OverNext
  <2>3. CountsFit'
    BY <1>0, <1>1, <2>1 DEF CountsFit
  <2>4. KeysFit'
    BY <1>0, <1>1, <2>1, SessionAssumption DEF KeysFit
  <2>. QED BY <2>2, <2>3, <2>4
<1>6. ASSUME NEW q \in Slots, Hear(q)
      PROVE  Grows /\ CountsFit' /\ KeysFit'
  <2>1. UNCHANGED <<server, passkey>> /\ outlived \subseteq outlived'
    BY <1>6 DEF Hear, SessionAnswer, BeginAnswer, CompleteAnswer, SettingsAnswer, PageAnswer,
                LogoutAnswer, Unauthorized, SignedOut
  <2>. QED BY <1>3, <2>1
<1>7. ASSUME NEW q \in Slots, LoseAnswer(q)
      PROVE  Grows /\ CountsFit' /\ KeysFit'
  BY <1>3, <1>7 DEF LoseAnswer
<1>8. ASSUME NEW s \in Sids, Expire(s)
      PROVE  Grows /\ CountsFit' /\ KeysFit'
  <2>1. /\ session' = [session EXCEPT ![s].live = FALSE]
        /\ UNCHANGED <<account, signCount, revived, outlived, passkey>>
    BY <1>8 DEF Expire
  <2>2. Grows
    BY <1>0, <2>1 DEF Grows, Over, OverNext
  <2>. QED BY <1>2, <2>1, <2>2
<1>9. CASE Tab \/ SignIn \/ SignOut \/ PageRequest \/ Reload \/ PromptFails \/ \E u \in Users : SignUp(u)
  <2>1. UNCHANGED <<server, passkey, outlived>>
    BY <1>9 DEF Tab, SignIn, SignUp, Begin, SignOut, PageRequest, Reload, PromptFails, HasUpdate,
                Navigate, ReloadIntoUpdate, Restart, client
  <2>. QED BY <1>3, <2>1
<1>. QED BY <1>4, <1>5, <1>6, <1>7, <1>8, <1>9, ServerGrows DEF Next, User, Network

-----------------------------------------------------------------------------
(* The requests.                                                           *)

RequestFits(q) == SlotFits(q) /\ CarriesFits(q) /\ CredentialFits(q)

\* A request as it was, dropped, or awaited by nobody any more.
Kept(q) ==
  \/ req'[q] = req[q]
  \/ req'[q] = Free
  \/ req[q].st # "answered" /\ req'[q] = [req[q] EXCEPT !.by = "nobody"]

\* The fields of a free slot.
LEMMA FreeFields ==
  /\ Free.op = "none" /\ Free.by = "nobody" /\ Free.sid = 0 /\ Free.id = 0 /\ Free.count = 0
  /\ Free.user = NoOne /\ Free.held = 0 /\ Free.st = "free" /\ Free.ans = "none"
BY DEF Free

\* The fields of a request just sent.
LEMMA AskFields ==
  ASSUME NEW op, NEW by, NEW c
  PROVE  LET r == Ask(op, by, c) IN
         /\ r.op = op /\ r.by = by /\ r.sid = c /\ r.id = 0 /\ r.count = 0
         /\ r.user = NoOne /\ r.held = 0 /\ r.st = "sent" /\ r.ans = "none"
BY DEF Ask, Free

\* A free slot fits.
LEMMA FreeFits ==
  ASSUME NEW q \in Slots, req'[q] = Free
  PROVE  RequestFits(q)'
BY FreeFields DEF RequestFits, SlotFits, CarriesFits, CredentialFits

\* A request that is kept fits, whatever has grown since.
LEMMA KeptFits ==
  ASSUME TypeOK, TypeOK', Fits, Grows, NEW q \in Slots, Kept(q)
  PROVE  RequestFits(q)'
<1>0. /\ req[q] \in Requests /\ RequestFits(q)
      /\ session \in [Sids -> [owner : Users \cup {NoOne}, live : BOOLEAN]]
      /\ passkey \in [Ids -> [user : Users \cup {NoOne}, count : Nat]]
      /\ passkey' \in [Ids -> [user : Users \cup {NoOne}, count : Nat]]
  BY DEF TypeOK, Fits, RequestsFit, RequestFits
<1>1. CASE req'[q] = Free
  BY <1>1, FreeFits
<1>2. ASSUME NEW r, req'[q] = r, r.op = req[q].op, r.sid = req[q].sid, r.id = req[q].id,
             r.count = req[q].count, r.user = req[q].user, r.held = req[q].held,
             r.st = req[q].st, r.ans = req[q].ans
      PROVE  CarriesFits(q)' /\ CredentialFits(q)'
  <2>1. CarriesFits(q)'
    BY <1>0, <1>2, RequestFields, SessionAssumption DEF RequestFits, CarriesFits, Owned, Over, OwnedNext, OverNext, Grows
  <2>2. CredentialFits(q)'
    BY <1>0, <1>2, RequestFields, SessionAssumption DEF RequestFits, CredentialFits, Grows
  <2>. QED BY <2>1, <2>2
<1>3. CASE req'[q] = req[q]
  BY <1>0, <1>2, <1>3 DEF RequestFits, SlotFits
<1>4. CASE req[q].st # "answered" /\ req'[q] = [req[q] EXCEPT !.by = "nobody"]
  <2> DEFINE r == [req[q] EXCEPT !.by = "nobody"]
  <2>1. /\ r.op = req[q].op /\ r.sid = req[q].sid /\ r.id = req[q].id
        /\ r.count = req[q].count /\ r.user = req[q].user /\ r.held = req[q].held
        /\ r.st = req[q].st /\ r.ans = req[q].ans /\ r.by = "nobody"
    BY <1>0 DEF Requests
  <2>2. CarriesFits(q)' /\ CredentialFits(q)'
    BY <1>2, <1>4, <2>1
  <2>3. SlotFits(q)'
    <3>1. CASE req[q].st = "free"
      <4>1. req'[q] = Free
        BY <1>0, <1>4, <3>1 DEF RequestFits, SlotFits, Free
      <4>. QED BY <4>1, FreeFits DEF RequestFits
    <3>2. CASE req[q].st # "free"
      BY <1>0, <1>4, <2>1, <3>2 DEF RequestFits, SlotFits
    <3>. QED BY <3>1, <3>2
  <2>. QED BY <2>2, <2>3 DEF RequestFits
<1>. QED BY <1>1, <1>3, <1>4 DEF Kept

\* A new request of the tab.
LEMMA AskFits ==
  ASSUME NEW q \in Slots, NEW op \in {"session", "begin", "logout", "page"},
         NEW by \in {"flow", "out", "page"}, NEW c, c = 0 \/ OwnedNext(c),
         op \in {"session", "begin"} => by = "flow",
         req'[q] = Ask(op, by, c)
  PROVE  RequestFits(q)'
BY AskFields DEF RequestFits, SlotFits, CarriesFits, CredentialFits, Owned, Over, OwnedNext, OverNext

\* A request with the credential that the device has just made.
LEMMA CredentialAskFits ==
  ASSUME NEW q \in Slots, NEW op \in {"login", "register"}, NEW c, c = 0 \/ OwnedNext(c),
         NEW i \in Ids, NEW n, NEW u \in Users,
         req'[q] = WithCredential(Ask(op, "flow", c), i, n, u),
         op = "register" => passkey'[i].user = u,
         op = "login" => n <= passkey'[i].count /\ 0 <= passkey'[i].count /\ (i \notin Counting => n = 0)
  PROVE  RequestFits(q)'
<1>1. LET r == WithCredential(Ask(op, "flow", c), i, n, u) IN
      /\ r.op = op /\ r.by = "flow" /\ r.sid = c /\ r.id = i /\ r.count = n
      /\ r.user = u /\ r.held = 0 /\ r.st = "sent" /\ r.ans = "none"
  BY DEF WithCredential, Ask, Free
<1>. QED BY <1>1 DEF RequestFits, SlotFits, CarriesFits, CredentialFits, Owned, Over, OwnedNext, OverNext

\* An answer: for nobody, the slot is free; else it fits if what it carries does.
LEMMA AnswerFits ==
  ASSUME TypeOK, TypeOK', Fits, Grows, NEW q \in Slots,
         NEW ans \in {"ok", "denied", "refused"}, NEW c \in Sids \cup {0}, Answer(q, ans, c),
         req[q].st \in {"sent", "read"},
         c = 0 \/ OwnedNext(c),
         req[q].op \in {"session", "page"} /\ ans = "ok" => c # 0,
         req[q].op \in {"login", "register"} /\ ans = "ok" =>
           c # 0 /\ session'[c].owner = req[q].user,
         req[q].op = "logout" \/ (req[q].op = "page" /\ ans = "denied") => c = 0 \/ OverNext(c)
  PROVE  /\ \A p \in Slots : RequestFits(p)'
         /\ \A p \in Slots :
              \/ req'[p] = req[p]
              \/ req[p].by = "nobody" /\ req'[p] = Free
              \/ p = q /\ req'[p].op = req[p].op /\ req'[p].by = req[p].by /\ req'[p].sid = c
<1>0. req \in [Slots -> Requests] /\ req[q] \in Requests /\ RequestFits(q)
  BY DEF TypeOK, Fits, RequestsFit, RequestFits
<1>1. ASSUME NEW p \in Slots, p # q
      PROVE  req'[p] = req[p] /\ RequestFits(p)'
  <2>1. req'[p] = req[p]
    BY <1>0, <1>1 DEF Answer
  <2>. QED BY <2>1, KeptFits DEF Kept
<1>2. CASE req[q].by = "nobody"
  <2>1. req'[q] = Free
    BY <1>0, <1>2 DEF Answer
  <2>. QED BY <1>1, <1>2, <2>1, FreeFits
<1>3. CASE req[q].by # "nobody"
  <2> DEFINE r == [req[q] EXCEPT !.st = "answered", !.ans = ans, !.sid = c]
  <2>1. req'[q] = r
    BY <1>0, <1>3 DEF Answer
  <2>2. /\ r.op = req[q].op /\ r.by = req[q].by /\ r.sid = c /\ r.id = req[q].id
        /\ r.count = req[q].count /\ r.user = req[q].user /\ r.held = req[q].held
        /\ r.st = "answered" /\ r.ans = ans
    BY <1>0 DEF Requests
  <2>3. SlotFits(q)'
    BY <1>0, <1>3, <2>1, <2>2 DEF RequestFits, SlotFits
  <2>4. CarriesFits(q)'
    BY <2>1, <2>2 DEF CarriesFits, Owned, Over, OwnedNext, OverNext
  <2>5. CredentialFits(q)'
    <3>1. /\ passkey \in [Ids -> [user : Users \cup {NoOne}, count : Nat]]
          /\ passkey' \in [Ids -> [user : Users \cup {NoOne}, count : Nat]]
      BY DEF TypeOK
    <3>. QED BY <1>0, <2>1, <2>2, <3>1, RequestFields, SessionAssumption
             DEF RequestFits, CredentialFits, Grows
  <2>. QED BY <1>1, <2>1, <2>2, <2>3, <2>4, <2>5 DEF RequestFits
<1>. QED BY <1>2, <1>3

\* What a handler may do to the slots: it answers, or drops what nobody awaits.
Served ==
  \A p \in Slots :
    \/ req'[p] = req[p]
    \/ req[p].by = "nobody" /\ req'[p] = Free
    \/ /\ req'[p].op = req[p].op /\ req'[p].by = req[p].by
       /\ req'[p].sid = req[p].sid \/ req[p].op \in {"login", "register"}

\* A session replaced: the new one is the user's, whoever awaits the answer.
LEMMA ReplaceFits ==
  ASSUME TypeOK, TypeOK', Fits, Grows, NEW q \in Slots,
         req[q].st \in {"sent", "read"}, req[q].op \in {"login", "register"},
         ReplaceSessions(q, req[q].user)
  PROVE  Served /\ \A p \in Slots : RequestFits(p)'
<1>0. /\ req[q] \in Requests
      /\ session \in [Sids -> [owner : Users \cup {NoOne}, live : BOOLEAN]]
  BY DEF TypeOK
<1>1. req[q].user \in Users
  BY DEF Fits, RequestsFit, CredentialFits
<1>2. PICK s \in Sids :
        /\ session' = [t \in Sids |->
                         IF t = s THEN [owner |-> req[q].user, live |-> TRUE]
                         ELSE IF session[t].owner = req[q].user THEN [session[t] EXCEPT !.live = FALSE]
                         ELSE session[t]]
        /\ Answer(q, "ok", s)
  BY DEF ReplaceSessions
<1>3. session'[s].owner = req[q].user /\ s # 0 /\ s \in Sids \cup {0}
  BY <1>2, Bounds DEF Sids
<1>4. OwnedNext(s)
  BY <1>1, <1>3, SessionAssumption DEF OwnedNext
<1>. QED BY SMTT(30), <1>0, <1>2, <1>3, <1>4, AnswerFits DEF Served

\* The handlers of the API keep what is known of the requests.
LEMMA ServerRequests ==
  ASSUME TypeOK, TypeOK', Fits, Grows, NEW q \in Slots, Handle(q)
  PROVE  Served /\ \A p \in Slots : RequestFits(p)'
<1>0. /\ req \in [Slots -> Requests] /\ req[q] \in Requests /\ RequestFits(q)
      /\ req[q].sid \in Sids \cup {0}
      /\ session \in [Sids -> [owner : Users \cup {NoOne}, live : BOOLEAN]]
      /\ signCount \in [Ids -> Nat]
  BY RequestFields DEF TypeOK, Fits, RequestsFit, RequestFits
<1>1. req[q].sid = 0 \/ OwnedNext(req[q].sid)
  BY <1>0 DEF RequestFits, CarriesFits, Owned, Over, OwnedNext, OverNext, Grows
\* An answer that carries back what the request carried.
<1>2. ASSUME NEW ans \in {"ok", "denied", "refused"}, Answered(q, ans),
             req[q].st \in {"sent", "read"},
             req[q].op \in {"session", "page"} /\ ans = "ok" => req[q].sid # 0,
             req[q].op \in {"login", "register"} => ans # "ok",
             req[q].op = "logout" \/ (req[q].op = "page" /\ ans = "denied") =>
               req[q].sid = 0 \/ OverNext(req[q].sid)
      PROVE  Served /\ \A p \in Slots : RequestFits(p)'
  BY <1>0, <1>1, <1>2, AnswerFits DEF Answered, Served
<1>3. CASE HandleBegin(q)
  BY <1>2, <1>3 DEF HandleBegin
<1>4. CASE FindSession(q)
  <2>1. CASE IsLive(req[q].sid)
    <3>1. req' = [req EXCEPT ![q].st = "read"]
      BY <1>4, <2>1 DEF FindSession
    <3> DEFINE r == [req[q] EXCEPT !.st = "read"]
    <3>2. /\ req'[q] = r /\ r.op = req[q].op /\ r.by = req[q].by /\ r.sid = req[q].sid
          /\ r.st = "read" /\ r.op \in {"session", "page"} /\ r.sid # 0
      BY <1>0, <1>4, <2>1, <3>1 DEF Requests, FindSession, IsLive
    <3>3. RequestFits(q)'
      BY <1>0, <1>1, <3>2 DEF RequestFits, SlotFits, CarriesFits, CredentialFits, Owned, Over, OwnedNext, OverNext
    <3>4. \A p \in Slots \ {q} : req'[p] = req[p] /\ RequestFits(p)'
      BY <1>0, <3>1, KeptFits DEF Kept
    <3>. QED BY <3>2, <3>3, <3>4 DEF Served
  <2>2. CASE ~IsLive(req[q].sid)
    <3>1. req[q].sid = 0 \/ OverNext(req[q].sid)
      BY <1>4, <2>2 DEF FindSession, IsLive, OverNext, server
    <3>2. CASE req[q].op = "page"
      BY <1>2, <1>4, <2>2, <3>1, <3>2 DEF FindSession, Unauthenticated
    <3>3. CASE req[q].op = "session"
      BY <1>2, <1>4, <2>2, <3>3 DEF FindSession, Unauthenticated
    <3>. QED BY <1>4, <3>2, <3>3 DEF FindSession
  <2>. QED BY <2>1, <2>2
<1>5. CASE RenewSession(q)
  <2>1. req[q].sid # 0
    BY <1>0, <1>5 DEF RenewSession, RequestFits, CarriesFits
  <2>. QED BY <1>2, <1>5, <2>1 DEF RenewSession
<1>6. CASE FindAccount(q)
  <2>1. CASE req' = [req EXCEPT ![q].st = "read", ![q].held = signCount[req[q].id]]
    <3> DEFINE r == [req[q] EXCEPT !.st = "read", !.held = signCount[req[q].id]]
    <3>1. /\ req'[q] = r /\ r.op = req[q].op /\ r.by = req[q].by /\ r.sid = req[q].sid
          /\ r.id = req[q].id /\ r.count = req[q].count /\ r.user = req[q].user
          /\ r.st = "read" /\ r.op = "login" /\ r.held = signCount[req[q].id]
      BY <1>0, <1>6, <2>1 DEF Requests, FindAccount
    <3>2. SlotFits(q)' /\ CarriesFits(q)'
      BY <1>0, <1>1, <3>1 DEF RequestFits, SlotFits, CarriesFits, Owned, Over, OwnedNext, OverNext
    <3>3. CredentialFits(q)'
      <4>1. req[q].id \in Ids /\ CountsFit /\ passkey' = passkey
        BY <1>0, <1>6 DEF FindAccount, Fits, RequestFits, CredentialFits
      <4>. QED BY <1>0, <1>6, <3>1, <4>1 DEF FindAccount, RequestFits, CredentialFits, CountsFit
    <3>4. \A p \in Slots \ {q} : req'[p] = req[p] /\ RequestFits(p)'
      BY <1>0, <2>1, KeptFits DEF Kept
    <3>. QED BY <3>1, <3>2, <3>3, <3>4 DEF Served, RequestFits
  <2>2. CASE Answered(q, "refused") \/ Answered(q, "denied")
    BY <1>2, <1>6, <2>2 DEF FindAccount
  <2>. QED BY <1>6, <2>1, <2>2 DEF FindAccount
<1>7. CASE OpenSession(q)
  BY <1>7, ReplaceFits DEF OpenSession
<1>8. CASE Register(q)
  BY <1>2, <1>8, ReplaceFits DEF Register
<1>9. CASE CompleteFails(q)
  BY <1>2, <1>9 DEF CompleteFails
<1>10. CASE Logout(q)
  <2>1. req[q].sid = 0 \/ OverNext(req[q].sid)
    BY <1>0, <1>10 DEF Logout, Invalidate, Over, OverNext
  <2>. QED BY <1>2, <1>10, <2>1 DEF Logout
<1>. QED BY <1>3, <1>4, <1>5, <1>6, <1>7, <1>8, <1>9, <1>10 DEF Handle

\* A step of the API, or a session that expires: nothing on the page changes.
LEMMA ServedTab ==
  ASSUME TypeOK, TypeOK', Fits, Grows, Served, UNCHANGED <<cookie, shown, page, goal, flow>>
  PROVE  TabFits'
<1>0. /\ req \in [Slots -> Requests] /\ req' \in [Slots -> Requests]
      /\ session \in [Sids -> [owner : Users \cup {NoOne}, live : BOOLEAN]]
  BY DEF TypeOK
<1>1. TabFits
  BY DEF Fits
<1>2. \A s \in Sids \cup {0} : MayServe(s, shown) => MayServe(s, shown)'
  BY <1>0 DEF MayServe, Owned, Over, OverNext, Grows
<1>3. \A p \in Slots : ServesFits(p)'
  <2> SUFFICES ASSUME NEW p \in Slots, req'[p].op = "page", req'[p].by \in {"flow", "page"}
               PROVE  MayServe(req[p].sid, shown)'
    BY DEF ServesFits
  <2>1. req[p].op = "page" /\ req[p].by \in {"flow", "page"} /\ req'[p].sid = req[p].sid
    BY FreeFields DEF Served
  <2>2. req[p].sid \in Sids \cup {0}
    BY <1>0, RequestFields
  <2>. QED BY <1>0, <1>1, <2>1, <2>2 DEF TabFits, ServesFits, MayServe, Owned, Over, OverNext, Grows
<1>4. OneAwaited'
  BY <1>1, FreeFields DEF TabFits, OneAwaited, Served, Awaited
<1>5. BootFits'
  BY <1>1, FreeFields DEF TabFits, BootFits, OneAwaited, Served, Awaited
<1>6. FlowFits'
  BY <1>1 DEF TabFits, FlowFits
<1>7. CookieFits'
  BY <1>0, <1>1 DEF TabFits, CookieFits, MayServe, Owned, Over, OverNext, Grows
<1>. QED BY <1>3, <1>4, <1>5, <1>6, <1>7 DEF TabFits

-----------------------------------------------------------------------------
(* The tab.                                                                *)

\* A flow that awaits no request: none is its own.
LEMMA NoneAwaited ==
  ASSUME Fits, Awaited = "none", NEW q \in Slots
  PROVE  req[q].by # "flow"
BY FreeFields DEF Fits, RequestsFit, SlotFits, TabFits, OneAwaited

\* What may be served to the user on screen still may after the step.
StillServed == \A s \in Sids \cup {0} : MayServe(s, shown) => MayServe(s, shown)'

\* It does while the user stays, and when a user comes to a tab that had none.
LEMMA StaysServed ==
  ASSUME TypeOK, Grows, shown' = shown \/ shown = NoOne
  PROVE  StillServed
BY DEF TypeOK, Grows, StillServed, MayServe, Owned, Over, OverNext

\* It does when the tab signs its user out, by a request whose own session is
\* over: what is still live outlives the user.
LEMMA SignedOutServed ==
  ASSUME TypeOK, NEW q \in Slots, SignedOut(q), UNCHANGED server,
         req[q].sid = 0 \/ Over(req[q].sid)
  PROVE  StillServed
BY DEF TypeOK, SignedOut, StillServed, MayServe, Owned, Over, server

\* An answer 401 found its session over.
LEMMA UnauthorizedServed ==
  ASSUME TypeOK, Fits, Grows, NEW q \in Slots, Unauthorized(q), UNCHANGED server,
         req[q].st = "answered", req[q].op = "page" \/ shown = NoOne
  PROVE  StillServed
<1>1. CASE req[q].ans = "denied" /\ req[q].op = "page"
  <2>1. req[q].sid = 0 \/ Over(req[q].sid)
    BY <1>1 DEF Fits, RequestsFit, CarriesFits
  <2>. QED BY <1>1, <2>1, SignedOutServed DEF Unauthorized
<1>2. CASE shown = NoOne
  BY <1>2, StaysServed
<1>3. CASE req[q].ans # "denied"
  BY <1>3, StaysServed DEF Unauthorized
<1>. QED BY <1>1, <1>2, <1>3

\* A request that is kept serves what it served.
LEMMA KeptServes ==
  ASSUME TypeOK, Fits, StillServed, NEW q \in Slots, Kept(q)
  PROVE  ServesFits(q)'
<1>1. req[q] \in Requests /\ ServesFits(q)
  BY DEF TypeOK, Fits, TabFits
<1>2. SUFFICES ASSUME req'[q].op = "page", req'[q].by \in {"flow", "page"}
               PROVE  MayServe(req[q].sid, shown)'
  BY DEF ServesFits
<1>3. req'[q] = req[q]
  BY <1>1, <1>2, FreeFields DEF Kept, Requests
<1>4. MayServe(req[q].sid, shown) /\ req[q].sid \in Sids \cup {0}
  BY <1>1, <1>2, <1>3, RequestFields DEF ServesFits
<1>. QED BY <1>3, <1>4 DEF StillServed, MayServe, Owned, Over

\* The cookie of a tab that stays as it was, or signs out.
LEMMA CookieStays ==
  ASSUME TypeOK, Fits, Grows, StillServed, UNCHANGED cookie,
         \/ shown # NoOne
         \/ /\ shown' = NoOne
            /\ page' = page \/ page' \notin Guarded
            /\ flow'.pc = flow.pc \/ flow'.pc \notin {"language", "currency"}
  PROVE  CookieFits'
<1>1. CookieFits /\ cookie \in Sids \cup {0}
  BY DEF TypeOK, Fits, TabFits
<1>2. cookie = 0 \/ Owned(cookie)'
  BY <1>1 DEF CookieFits, Owned, Grows
<1>3. CASE MayServe(cookie, shown)
  BY <1>1, <1>2, <1>3 DEF CookieFits, StillServed, MayServe, Owned, Over
<1>4. CASE ~MayServe(cookie, shown)
  <2>1. shown = NoOne /\ page \notin Guarded /\ flow.pc \notin {"language", "currency"}
    BY <1>1, <1>4 DEF CookieFits
  <2>. QED BY <1>1, <1>2, <2>1 DEF CookieFits
<1>. QED BY <1>3, <1>4

\* Every request fits when all but one are kept.
LEMMA OneChanged ==
  ASSUME TypeOK, TypeOK', Fits, Grows, StillServed, NEW q \in Slots, NEW r,
         req' = [req EXCEPT ![q] = r],
         r = Free \/ (RequestFits(q)' /\ ServesFits(q)')
  PROVE  /\ \A p \in Slots : RequestFits(p)' /\ ServesFits(p)'
         /\ req'[q] = r /\ \A p \in Slots \ {q} : req'[p] = req[p]
<1>0. req \in [Slots -> Requests]
  BY DEF TypeOK
<1>1. req'[q] = r /\ \A p \in Slots \ {q} : req'[p] = req[p]
  BY <1>0
<1>2. \A p \in Slots \ {q} : RequestFits(p)' /\ ServesFits(p)'
  BY <1>1, KeptFits, KeptServes DEF Kept
<1>3. r = Free => RequestFits(q)' /\ ServesFits(q)'
  BY <1>1, KeptFits, KeptServes DEF Kept
<1>. QED BY <1>1, <1>2, <1>3

\* The user begins, signs, cancels, signs out, or opens a page that asks.
LEMMA BeginFits ==
  ASSUME TypeOK, TypeOK', Fits, Grows, NEW kind \in {"in", "up"}, NEW u \in Users \cup {NoOne},
         kind = "up" => u \in Users, Begin(kind, u)
  PROVE  TabFits' /\ \A p \in Slots : RequestFits(p)'
<1>0. TabFits /\ cookie \in Sids \cup {0}
  BY DEF TypeOK, Fits
<1>1. PICK q \in Slots : req' = [req EXCEPT ![q] = Ask("begin", "flow", cookie)]
  BY DEF Begin
<1>2. /\ page = "auth" /\ flow = NoFlow /\ flow' = [kind |-> kind, pc |-> "beginning", user |-> u]
      /\ UNCHANGED <<cookie, shown, page, goal>>
  BY DEF Begin
<1>3. shown = NoOne /\ Awaited = "none"
  BY <1>0, <1>2 DEF TabFits, FlowFits, NoFlow, Awaited
<1>4. StillServed
  BY <1>2, StaysServed
<1>5. cookie = 0 \/ OwnedNext(cookie)
  BY <1>0 DEF TabFits, CookieFits, Owned, OwnedNext, Grows
<1>6. req'[q] = Ask("begin", "flow", cookie) /\ RequestFits(q)'
  BY <1>1, <1>5, AskFits DEF TypeOK
<1>7. ServesFits(q)'
  BY <1>6, AskFields DEF ServesFits
<1>8. /\ \A p \in Slots : RequestFits(p)' /\ ServesFits(p)'
      /\ \A p \in Slots \ {q} : req'[p] = req[p]
  BY <1>1, <1>4, <1>6, <1>7, OneChanged
<1>9. OneAwaited'
  BY <1>2, <1>3, <1>6, <1>8, AskFields, NoneAwaited DEF OneAwaited, Awaited
<1>10. BootFits' /\ FlowFits'
  BY <1>2, <1>3 DEF BootFits, FlowFits
<1>11. CookieFits'
  BY <1>2, <1>3, <1>4, CookieStays
<1>. QED BY <1>8, <1>9, <1>10, <1>11 DEF TabFits

\* The device signs, or makes a passkey: the flow awaits its login or sign-up.
LEMMA CredentialStepFits ==
  ASSUME TypeOK, TypeOK', Fits, Grows, CountsFit', NEW i \in Ids, GetAssertion(i) \/ CreateCredential(i)
  PROVE  TabFits' /\ \A p \in Slots : RequestFits(p)'
<1>0. /\ TabFits /\ cookie \in Sids \cup {0} /\ flow \in Flows
      /\ passkey \in [Ids -> [user : Users \cup {NoOne}, count : Nat]]
      /\ passkey' \in [Ids -> [user : Users \cup {NoOne}, count : Nat]]
      /\ req \in [Slots -> Requests]
  BY DEF TypeOK, Fits
<1>1. /\ flow.pc = "prompting" /\ flow' = [flow EXCEPT !.pc = "completing"]
      /\ flow.kind \in {"in", "up"}
      /\ UNCHANGED <<cookie, shown, page, goal>>
  BY DEF GetAssertion, CreateCredential
<1>2. shown = NoOne /\ Awaited = "none" /\ (flow.kind = "up" => flow.user \in Users)
  BY <1>0, <1>1 DEF TabFits, FlowFits, Awaited
<1>3. /\ flow'.pc = "completing" /\ flow'.kind = flow.kind /\ flow'.user = flow.user
  BY <1>0, <1>1 DEF Flows
<1>4. cookie = 0 \/ OwnedNext(cookie)
  BY <1>0 DEF TabFits, CookieFits, Owned, OwnedNext, Grows
<1>5. PICK q \in Slots, op \in {"login", "register"}, n \in Nat, u \in Users :
        /\ req' = [req EXCEPT ![q] = WithCredential(Ask(op, "flow", cookie), i, n, u)]
        /\ op = IF flow.kind = "in" THEN "login" ELSE "register"
        /\ op = "register" => passkey'[i].user = u
        /\ op = "login" => n <= passkey'[i].count /\ 0 <= passkey'[i].count /\ (i \notin Counting => n = 0)
  <2>1. CASE GetAssertion(i)
    <3> DEFINE n == IF i \in Counting THEN passkey[i].count + 1 ELSE 0
    <3>1. PICK q \in Slots :
            req' = [req EXCEPT ![q] = WithCredential(Ask("login", "flow", cookie), i, n, passkey[i].user)]
      BY <2>1 DEF GetAssertion
    <3>2. passkey' = [passkey EXCEPT ![i].count = n] /\ flow.kind = "in" /\ passkey[i].user \in Users
      BY <1>0, <2>1 DEF GetAssertion
    <3>3. n \in Nat /\ passkey'[i].count = n /\ (i \notin Counting => n = 0)
      BY <1>0, <3>2
    <3> HIDE DEF n
    <3>4. n <= passkey'[i].count /\ 0 <= passkey'[i].count
      BY <3>3
    <3>. QED BY <3>1, <3>2, <3>3, <3>4
  <2>2. CASE CreateCredential(i)
    <3>1. PICK q \in Slots :
            req' = [req EXCEPT ![q] = WithCredential(Ask("register", "flow", cookie), i, 0, flow.user)]
      BY <2>2 DEF CreateCredential
    <3>2. passkey'[i].user = flow.user /\ flow.kind = "up" /\ flow.user \in Users
      BY <1>0, <1>2, <2>2 DEF CreateCredential
    <3>. QED BY <3>1, <3>2
  <2>. QED BY <2>1, <2>2
<1>6. StillServed
  BY <1>1, StaysServed
<1>7. req'[q] = WithCredential(Ask(op, "flow", cookie), i, n, u) /\ RequestFits(q)'
  BY <1>0, <1>4, <1>5, CredentialAskFits
<1>8. req'[q].op = op
  BY <1>7 DEF WithCredential, Ask, Free
<1>9. ServesFits(q)'
  BY <1>8 DEF ServesFits
<1>10. /\ \A p \in Slots : RequestFits(p)' /\ ServesFits(p)'
       /\ \A p \in Slots \ {q} : req'[p] = req[p]
  BY <1>5, <1>6, <1>7, <1>9, OneChanged
<1>11. OneAwaited'
  BY <1>1, <1>2, <1>3, <1>5, <1>8, <1>10, NoneAwaited DEF OneAwaited, Awaited
<1>12. BootFits' /\ FlowFits'
  BY <1>0, <1>1, <1>2, <1>3 DEF TabFits, BootFits, FlowFits
<1>13. CookieFits'
  BY <1>1, <1>2, <1>3, <1>6, CookieStays
<1>. QED BY <1>10, <1>11, <1>12, <1>13 DEF TabFits

\* The prompt fails, the user signs out, a page asks.
LEMMA UserStepFits ==
  ASSUME TypeOK, TypeOK', Fits, Grows, PromptFails \/ SignOut \/ PageRequest
  PROVE  TabFits' /\ \A p \in Slots : RequestFits(p)'
<1>0. TabFits /\ cookie \in Sids \cup {0} /\ UNCHANGED <<cookie, shown, page, goal>>
  BY DEF TypeOK, Fits, PromptFails, SignOut, PageRequest, client
<1>1. StillServed
  BY <1>0, StaysServed
<1>2. CASE PromptFails
  <2>1. /\ flow.pc = "prompting" /\ flow'.pc = "none" /\ flow'.kind = "none" /\ req' = req
    BY <1>2 DEF PromptFails, NoFlow
  <2>2. shown = NoOne /\ Awaited = "none"
    BY <1>0, <2>1 DEF TabFits, FlowFits, Awaited
  <2>3. \A p \in Slots : RequestFits(p)' /\ ServesFits(p)'
    BY <1>1, <2>1, KeptFits, KeptServes DEF Kept
  <2>4. OneAwaited'
    BY <2>1, <2>2, NoneAwaited DEF OneAwaited
  <2>5. BootFits' /\ FlowFits'
    BY <1>0, <2>1, <2>2 DEF BootFits, FlowFits
  <2>6. CookieFits'
    BY <1>0, <1>1, <2>1, <2>2, CookieStays
  <2>. QED BY <2>3, <2>4, <2>5, <2>6 DEF TabFits
<1>3. CASE SignOut \/ PageRequest
  <2>1. PICK q \in Slots, op \in {"logout", "page"}, by \in {"out", "page"} :
          /\ req' = [req EXCEPT ![q] = Ask(op, by, cookie)]
          /\ IsFree(q)
    BY <1>3 DEF SignOut, PageRequest
  <2>2. page \in Guarded /\ flow' = flow
    BY <1>3 DEF SignOut, PageRequest, client
  <2>3. cookie = 0 \/ OwnedNext(cookie)
    BY <1>0 DEF TabFits, CookieFits, Owned, OwnedNext, Grows
  <2>4. MayServe(cookie, shown) /\ flow.pc # "asking"
    BY <1>0, <2>2 DEF TabFits, CookieFits, BootFits, Guarded
  <2>5. req'[q] = Ask(op, by, cookie) /\ RequestFits(q)'
    BY <2>1, <2>3, AskFits DEF TypeOK
  <2>6. ServesFits(q)'
    BY <1>0, <1>1, <2>4, <2>5, AskFields DEF ServesFits, StillServed, MayServe, Owned, Over
  <2>7. /\ \A p \in Slots : RequestFits(p)' /\ ServesFits(p)'
        /\ \A p \in Slots \ {q} : req'[p] = req[p]
    BY <1>1, <2>1, <2>5, <2>6, OneChanged
  <2>8. OneAwaited'
    BY <1>0, <2>2, <2>5, <2>7, AskFields DEF TabFits, OneAwaited, Awaited
  <2>9. BootFits' /\ FlowFits'
    BY <1>0, <2>2, <2>4 DEF TabFits, BootFits, FlowFits
  <2>10. CookieFits'
    BY <1>0, <1>1, <2>2, CookieStays
  <2>. QED BY <2>7, <2>8, <2>9, <2>10 DEF TabFits
<1>. QED BY <1>2, <1>3

\* A tab that starts awaits one request, with its cookie.
LEMMA RestartFits ==
  ASSUME TypeOK, TypeOK', Fits, Grows, Restart
  PROVE  TabFits' /\ \A p \in Slots : RequestFits(p)'
<1>0. /\ TabFits /\ cookie \in Sids \cup {0} /\ UNCHANGED cookie
      /\ shown' = NoOne /\ page' = "blank"
      /\ flow' = [kind |-> "boot", pc |-> "asking", user |-> NoOne]
      /\ req \in [Slots -> Requests]
  BY DEF TypeOK, Fits, Restart
<1>1. PICK q \in Slots :
        req' = [p \in Slots |->
                  IF p = q THEN Ask("session", "flow", cookie)
                  ELSE IF req[p].st = "answered" THEN Free ELSE [req[p] EXCEPT !.by = "nobody"]]
  BY DEF Restart
<1>2. cookie = 0 \/ OwnedNext(cookie)
  BY <1>0 DEF TabFits, CookieFits, Owned, OwnedNext, Grows
<1>3. req'[q] = Ask("session", "flow", cookie) /\ RequestFits(q)'
  BY <1>1, <1>2, AskFits
<1>4. \A p \in Slots \ {q} : Kept(p) /\ req'[p].by = "nobody"
  BY <1>0, <1>1, FreeFields DEF Kept, Requests
<1>5. \A p \in Slots : RequestFits(p)'
  BY <1>3, <1>4, KeptFits
<1>6. \A p \in Slots : ServesFits(p)'
  BY <1>3, <1>4, AskFields DEF ServesFits
<1>7. OneAwaited'
  BY <1>0, <1>3, <1>4, AskFields DEF OneAwaited, Awaited
<1>8. BootFits'
  BY <1>0, <1>3, <1>4, AskFields DEF BootFits
<1>9. FlowFits'
  BY <1>0 DEF FlowFits
<1>10. CookieFits'
  BY <1>0, <1>2 DEF CookieFits, Owned, OwnedNext, Guarded
<1>. QED BY <1>5, <1>6, <1>7, <1>8, <1>9, <1>10 DEF TabFits

\* The version check and the router: nobody on the sign-in page is signed in.
LEMMA NavigateFits ==
  ASSUME TypeOK, TypeOK', Fits, Grows, HasUpdate \/ Navigate
  PROVE  TabFits' /\ \A p \in Slots : RequestFits(p)'
<1>0. /\ TabFits /\ cookie \in Sids \cup {0} /\ UNCHANGED <<cookie, shown, req>> /\ flow \in Flows
      /\ goal \in Pages \cup {"none"}
  BY DEF TypeOK, Fits, HasUpdate, Navigate
<1>1. StillServed
  BY <1>0, StaysServed
<1>2. \A p \in Slots : RequestFits(p)' /\ ServesFits(p)'
  BY <1>0, <1>1, KeptFits, KeptServes DEF Kept
<1>3. CASE HasUpdate
  <2>1. flow.pc = "checking" /\ page' = page /\ Awaited = "none"
    BY <1>3 DEF HasUpdate, Awaited
  <2>2. \/ flow' = NoFlow /\ flow.kind = "boot"
        \/ /\ flow' = [flow EXCEPT !.pc = "leaving"]
           /\ flow.kind # "boot" => goal' = "updating" \/ flow.kind # "in" \/ goal' = "home"
    BY <1>3 DEF HasUpdate
  <2>3. flow.kind # "none" /\ flow.kind # "up"
    BY <1>0, <2>1 DEF TabFits, FlowFits
  <2>4. \/ flow'.pc = "none" /\ flow'.kind = "none" /\ flow.kind = "boot"
        \/ /\ flow'.pc = "leaving" /\ flow'.kind = flow.kind
           /\ flow.kind # "boot" => goal' \in {"home", "updating"}
    BY <1>0, <2>2, <2>3 DEF NoFlow, Flows
  <2>5. OneAwaited'
    BY <1>0, <2>1, <2>4, NoneAwaited DEF OneAwaited, Awaited
  <2>6. BootFits' /\ FlowFits'
    BY <1>0, <2>1, <2>3, <2>4 DEF TabFits, BootFits, FlowFits
  <2>7. CookieFits'
    BY <1>0, <1>1, <2>1, <2>4, CookieStays
  <2>. QED BY <1>2, <2>5, <2>6, <2>7 DEF TabFits
<1>4. CASE Navigate
  <2>1. /\ goal # "none" /\ (flow.kind = "boot" => flow.pc = "leaving")
        /\ \/ Redirect(goal) = goal /\ page' = goal
           \/ Redirect(goal) # goal /\ page' = page
        /\ flow' = IF flow.pc = "leaving" THEN NoFlow ELSE flow
    BY <1>4 DEF Navigate
  <2>2. flow' = flow \/ (flow.pc = "leaving" /\ flow'.pc = "none" /\ flow'.kind = "none")
    BY <2>1 DEF NoFlow
  <2>3. flow'.pc # "asking" /\ flow'.kind # "boot"
    BY <1>0, <2>1, <2>2 DEF TabFits, BootFits, NoFlow
  <2>4. OneAwaited'
    <3>1. CASE flow' = flow
      BY <1>0, <3>1 DEF TabFits, OneAwaited, Awaited
    <3>2. CASE flow.pc = "leaving"
      <4>1. Awaited = "none"
        BY <3>2 DEF Awaited
      <4>. QED BY <1>0, <4>1, NoneAwaited DEF OneAwaited
    <3>. QED BY <2>2, <3>1, <3>2
  <2>5. BootFits'
    BY <2>3 DEF BootFits
  <2>6. page' = "auth" => shown = NoOne \/ (page = "auth" /\ Redirect(goal) # goal)
    BY <2>1 DEF Redirect
  <2>7. page' \in Guarded => shown # NoOne \/ page' = page
    BY <2>1 DEF Redirect, Guarded
  <2>8. flow.pc = "leaving" /\ page' = "auth" => shown = NoOne
    <3> SUFFICES ASSUME flow.pc = "leaving", page' = "auth", shown # NoOne
                 PROVE  FALSE
      OBVIOUS
    <3>1. page = "auth" /\ Redirect(goal) # goal
      BY <2>6
    <3>2. flow.kind # "boot"
      BY <1>0, <3>1 DEF TabFits, BootFits
    <3>3. goal \in {"home", "setup", "updating"}
      BY <1>0, <3>2 DEF TabFits, FlowFits
    <3>. QED BY <3>1, <3>3 DEF Redirect, Guarded
  <2>9. FlowFits'
    <3>1. CASE flow.pc = "leaving"
      BY <1>0, <2>1, <2>8, <3>1 DEF FlowFits, NoFlow
    <3>2. CASE flow.pc # "leaving"
      BY <1>0, <2>1, <2>6, <3>2 DEF TabFits, FlowFits
    <3>. QED BY <3>1, <3>2
  <2>10. CookieFits'
    BY <1>0, <1>1, <2>2, <2>7, CookieStays
  <2>. QED BY <1>2, <2>4, <2>5, <2>9, <2>10 DEF TabFits
<1>. QED BY <1>3, <1>4

\* The flow goes on with the cookie it has, or has just been given.
LEMMA GoesOnFits ==
  ASSUME TypeOK, TypeOK', Fits, Grows, StillServed, NEW q \in Slots,
         NEW pc \in {"language", "currency"}, NEW c \in Sids \cup {0}, GoesOn(q, pc, c),
         req[q].by = "flow" \/ Awaited = "none" \/ \A p \in Slots \ {q} : req[p].by # "flow",
         c = 0 \/ OwnedNext(c), c = 0 \/ session'[c].owner = shown' \/ OverNext(c)
  PROVE  /\ \A p \in Slots : RequestFits(p)' /\ ServesFits(p)'
         /\ OneAwaited' /\ flow'.pc = pc /\ flow'.kind = flow.kind /\ flow'.user = flow.user
<1>0. /\ flow \in Flows /\ req \in [Slots -> Requests] /\ OneAwaited
  BY DEF TypeOK, Fits, TabFits
<1>1. req' = [req EXCEPT ![q] = Ask("page", "flow", c)] /\ flow' = [flow EXCEPT !.pc = pc]
  BY DEF GoesOn
<1>2. flow'.pc = pc /\ flow'.kind = flow.kind /\ flow'.user = flow.user
  BY <1>0, <1>1 DEF Flows
<1>3. req'[q] = Ask("page", "flow", c) /\ RequestFits(q)'
  BY <1>0, <1>1, AskFits
<1>4. ServesFits(q)'
  BY <1>3, AskFields DEF ServesFits, MayServe, Owned, OwnedNext, Over, OverNext
<1>5. /\ \A p \in Slots : RequestFits(p)' /\ ServesFits(p)'
      /\ \A p \in Slots \ {q} : req'[p] = req[p]
  BY <1>1, <1>3, <1>4, OneChanged
<1>6. \A p \in Slots \ {q} : req[p].by # "flow"
  BY <1>0, NoneAwaited DEF OneAwaited
<1>7. OneAwaited'
  BY <1>2, <1>3, <1>5, <1>6, AskFields DEF OneAwaited, Awaited
<1>. QED BY <1>2, <1>5, <1>7

\* The slot of an answer that was heard, or lost, is free: what the flow
\* awaited is not, and it awaits nothing else if its position does not change.
LEMMA HeardFits ==
  ASSUME TypeOK, TypeOK', Fits, Grows, StillServed, NEW q \in Slots,
         req' = [req EXCEPT ![q] = Free],
         \/ flow' = flow
         \/ req[q].by = "flow" /\ Awaited' = "none"
  PROVE  /\ \A p \in Slots : RequestFits(p)' /\ ServesFits(p)'
         /\ OneAwaited' /\ \A p \in Slots : req'[p].by # "nobody" => req'[p] = req[p]
<1>0. OneAwaited
  BY DEF Fits, TabFits
<1>1. /\ \A p \in Slots : RequestFits(p)' /\ ServesFits(p)'
      /\ req'[q] = Free /\ \A p \in Slots \ {q} : req'[p] = req[p]
  BY OneChanged
<1>2. OneAwaited'
  BY <1>0, <1>1, FreeFields DEF OneAwaited, Awaited
<1>. QED BY <1>1, <1>2, FreeFields

\* GET /session answers: it is the only request the new tab awaits.
LEMMA SessionAnswerFits ==
  ASSUME TypeOK, TypeOK', Fits, Grows, NEW q \in Slots, SessionAnswer(q)
  PROVE  TabFits' /\ \A p \in Slots : RequestFits(p)'
<1>0. /\ TabFits /\ RequestFits(q) /\ cookie \in Sids \cup {0} /\ flow \in Flows
      /\ session \in [Sids -> [owner : Users \cup {NoOne}, live : BOOLEAN]]
      /\ req[q].st = "answered" /\ req[q].op = "session" /\ UNCHANGED <<session, page, goal>>
  BY DEF TypeOK, Fits, RequestsFit, RequestFits, SessionAnswer, HasAnswer, server
<1>1. req[q].by = "flow"
  BY <1>0 DEF RequestFits, SlotFits
<1>2. flow.pc = "asking"
  BY <1>0, <1>1 DEF TabFits, OneAwaited, Awaited
<1>3. /\ flow.kind = "boot" /\ shown = NoOne /\ page = "blank" /\ req[q].sid = cookie
      /\ \A p \in Slots : req[p].by # "nobody" => p = q
  BY <1>0, <1>1, <1>2 DEF TabFits, BootFits, OneAwaited
<1>4. StillServed
  BY <1>3, StaysServed
<1>5. CASE req[q].ans = "ok"
  <2>1. cookie # 0 /\ Owned(cookie) /\ shown' = session[cookie].owner /\ cookie' = cookie
        /\ GoesOn(q, "language", cookie)
    BY <1>0, <1>3, <1>5 DEF RequestFits, CarriesFits, SessionAnswer
  <2>2. OwnedNext(cookie) /\ session'[cookie].owner = shown'
    BY <1>0, <2>1 DEF Owned, OwnedNext
  <2>3. /\ \A p \in Slots : RequestFits(p)' /\ ServesFits(p)'
        /\ OneAwaited' /\ flow'.pc = "language" /\ flow'.kind = "boot"
    BY <1>0, <1>1, <1>3, <1>4, <2>1, <2>2, GoesOnFits
  <2>4. BootFits' /\ FlowFits'
    BY <1>0, <1>3, <2>3 DEF BootFits, FlowFits
  <2>5. CookieFits'
    BY <2>1, <2>2 DEF CookieFits, MayServe, Owned, OwnedNext
  <2>. QED BY <2>3, <2>4, <2>5 DEF TabFits
<1>6. CASE req[q].ans # "ok"
  <2>1. /\ shown' = NoOne /\ cookie' = 0 /\ flow'.pc = "none" /\ flow'.kind = "none"
        /\ req' = [req EXCEPT ![q] = Free]
    BY <1>6 DEF SessionAnswer, NoFlow
  <2>2. Awaited' = "none"
    BY <2>1 DEF Awaited
  <2>3. /\ \A p \in Slots : RequestFits(p)' /\ ServesFits(p)'
        /\ OneAwaited'
    BY <1>1, <1>4, <2>1, <2>2, HeardFits
  <2>4. BootFits' /\ FlowFits' /\ CookieFits'
    BY <2>1 DEF BootFits, FlowFits, CookieFits, MayServe
  <2>. QED BY <2>3, <2>4 DEF TabFits
<1>. QED BY <1>5, <1>6

\* The challenge comes: nobody is signed in while the flow awaits it.
LEMMA BeginAnswerFits ==
  ASSUME TypeOK, TypeOK', Fits, Grows, NEW q \in Slots, BeginAnswer(q)
  PROVE  TabFits' /\ \A p \in Slots : RequestFits(p)'
<1>0. /\ TabFits /\ RequestFits(q) /\ flow \in Flows
      /\ req[q].st = "answered" /\ req[q].op = "begin" /\ UNCHANGED <<cookie, shown, page, goal>>
      /\ flow' = [flow EXCEPT !.pc = "prompting"] /\ req' = [req EXCEPT ![q] = Free]
  BY DEF TypeOK, Fits, RequestsFit, RequestFits, BeginAnswer, HasAnswer
<1>1. req[q].by = "flow"
  BY <1>0 DEF RequestFits, SlotFits
<1>2. flow.pc = "beginning"
  BY <1>0, <1>1 DEF TabFits, OneAwaited, Awaited
<1>3. StillServed
  BY <1>0, StaysServed
<1>4. flow'.pc = "prompting" /\ flow'.kind = flow.kind /\ flow'.user = flow.user
  BY <1>0 DEF Flows
<1>5. Awaited' = "none"
  BY <1>4 DEF Awaited
<1>6. /\ \A p \in Slots : RequestFits(p)' /\ ServesFits(p)'
      /\ OneAwaited'
  BY <1>0, <1>1, <1>3, <1>5, HeardFits
<1>7. BootFits' /\ FlowFits'
  BY <1>0, <1>2, <1>4 DEF TabFits, BootFits, FlowFits
<1>8. CookieFits'
  <2>1. shown = NoOne
    BY <1>0, <1>2 DEF TabFits, FlowFits
  <2>. QED BY <1>0, <1>3, <1>4, <2>1, CookieStays
<1>. QED BY <1>6, <1>7, <1>8 DEF TabFits

\* The sign-in ends: its session becomes the cookie, its user is shown.
LEMMA CompleteAnswerFits ==
  ASSUME TypeOK, TypeOK', Fits, Grows, NEW q \in Slots, CompleteAnswer(q)
  PROVE  TabFits' /\ \A p \in Slots : RequestFits(p)'
<1>0. /\ TabFits /\ RequestFits(q) /\ cookie \in Sids \cup {0} /\ flow \in Flows
      /\ session \in [Sids -> [owner : Users \cup {NoOne}, live : BOOLEAN]]
      /\ req[q].sid \in Sids \cup {0}
      /\ req[q].st = "answered" /\ req[q].op \in {"login", "register"}
      /\ UNCHANGED <<server, page>>
  BY RequestFields DEF TypeOK, Fits, RequestsFit, RequestFits, CompleteAnswer, HasAnswer
<1>1. req[q].by = "flow"
  BY <1>0 DEF RequestFits, SlotFits
<1>2. flow.pc = "completing"
  BY <1>0, <1>1 DEF TabFits, OneAwaited, Awaited
<1>3. shown = NoOne /\ flow.kind # "boot"
  BY <1>0, <1>2 DEF TabFits, FlowFits
<1>4. StillServed
  BY <1>3, StaysServed
<1>5. CASE req[q].ans = "ok"
  <2>1. Owned(req[q].sid) /\ session[req[q].sid].owner = req[q].user
    BY <1>0, <1>5 DEF RequestFits, CarriesFits
  <2>0. /\ cookie' = req[q].sid /\ shown' = req[q].user /\ goal' = goal
        /\ GoesOn(q, "language", req[q].sid) \/ GoesOn(q, "currency", req[q].sid)
    BY <1>5, Zenon DEF CompleteAnswer
  <2>2. OwnedNext(req[q].sid) /\ session'[req[q].sid].owner = shown'
    BY <1>0, <2>0, <2>1 DEF Owned, OwnedNext, server
  <2>3. /\ \A p \in Slots : RequestFits(p)' /\ ServesFits(p)'
        /\ OneAwaited' /\ flow'.pc \in {"language", "currency"} /\ flow'.kind = flow.kind
        /\ flow'.user = flow.user
    BY <1>0, <1>1, <1>4, <2>0, <2>2, GoesOnFits
  <2>4. BootFits' /\ FlowFits'
    BY <1>0, <1>2, <1>3, <2>3 DEF TabFits, BootFits, FlowFits
  <2>5. CookieFits'
    BY <2>0, <2>2 DEF CookieFits, MayServe, Owned, OwnedNext
  <2>. QED BY <2>3, <2>4, <2>5 DEF TabFits
<1>6. CASE req[q].ans # "ok"
  <2>1. /\ shown' = NoOne /\ cookie' = cookie /\ flow'.pc = "none" /\ flow'.kind = "none"
        /\ req' = [req EXCEPT ![q] = Free]
    BY <1>3, <1>6 DEF CompleteAnswer, NoFlow, Unauthorized, SignedOut
  <2>2. Awaited' = "none"
    BY <2>1 DEF Awaited
  <2>3. /\ \A p \in Slots : RequestFits(p)' /\ ServesFits(p)'
        /\ OneAwaited'
    BY <1>1, <1>4, <2>1, <2>2, HeardFits
  <2>4. BootFits' /\ FlowFits'
    BY <2>1 DEF BootFits, FlowFits
  <2>5. CookieFits'
    BY <1>0, <1>3, <1>4, <2>1, CookieStays
  <2>. QED BY <2>3, <2>4, <2>5 DEF TabFits
<1>. QED BY <1>5, <1>6

\* The tab stays, or signs its user out: what it may serve it still may.
LEMMA OutFits ==
  ASSUME TypeOK, TypeOK', Fits, Grows, NEW q \in Slots, UNCHANGED <<server, page>>,
         req[q].st = "answered",
         \/ UNCHANGED shown
         \/ SignedOut(q) /\ (req[q].op = "logout" \/ (req[q].op = "page" /\ req[q].ans = "denied"))
  PROVE  StillServed /\ (shown' = shown \/ shown' = NoOne)
<1>1. CASE UNCHANGED shown
  BY <1>1, StaysServed
<1>2. CASE SignedOut(q) /\ (req[q].op = "logout" \/ (req[q].op = "page" /\ req[q].ans = "denied"))
  <2>1. req[q].sid = 0 \/ Over(req[q].sid)
    BY <1>2 DEF Fits, RequestsFit, CarriesFits
  <2>. QED BY <1>2, <2>1, SignedOutServed DEF SignedOut
<1>. QED BY <1>1, <1>2

\* The cookie that the answer to an authenticated request sets.
LEMMA CookieSetServed ==
  ASSUME TypeOK, Fits, Grows, StillServed, NEW q \in Slots, CookieSet(q),
         req[q].op = "page", req[q].by \in {"flow", "page"}, MayServe(cookie, shown)
  PROVE  MayServe(cookie, shown)' /\ cookie' \in Sids \cup {0}
<1>1. req[q] \in Requests /\ ServesFits(q) /\ cookie \in Sids \cup {0}
  BY DEF TypeOK, Fits, TabFits
<1>2. MayServe(req[q].sid, shown) /\ req[q].sid \in Sids \cup {0}
  BY <1>1, RequestFields DEF ServesFits
<1>. QED BY <1>1, <1>2 DEF CookieSet, StillServed, MayServe, Owned, Over

\* The settings come: the flow goes on, or is over.
LEMMA SettingsAnswerFits ==
  ASSUME TypeOK, TypeOK', Fits, Grows, NEW q \in Slots, SettingsAnswer(q)
  PROVE  TabFits' /\ \A p \in Slots : RequestFits(p)'
<1>0. /\ TabFits /\ RequestFits(q) /\ flow \in Flows
      /\ req[q].st = "answered" /\ req[q].op = "page" /\ req[q].by = "flow"
      /\ UNCHANGED <<server, page>> /\ CookieSet(q)
  BY DEF TypeOK, Fits, RequestsFit, RequestFits, SettingsAnswer, HasAnswer
<1>1. flow.pc \in {"language", "currency"}
  BY <1>0 DEF TabFits, OneAwaited, Awaited
<1>2. MayServe(cookie, shown)
  BY <1>0, <1>1 DEF TabFits, CookieFits
<1>3. \/ UNCHANGED shown
      \/ SignedOut(q) /\ req[q].ans = "denied"
  BY <1>0 DEF SettingsAnswer, Unauthorized
<1>4. StillServed /\ (shown' = shown \/ shown' = NoOne)
  BY <1>0, <1>3, OutFits
<1>5. MayServe(cookie, shown)' /\ cookie' \in Sids \cup {0}
  BY <1>0, <1>2, <1>4, CookieSetServed
<1>6. CookieFits'
  BY <1>5 DEF CookieFits, MayServe
<1>7. CASE flow.pc = "language"
  <2>1. GoesOn(q, "currency", cookie')
    BY <1>7 DEF SettingsAnswer, AfterLanguage
  <2>2. cookie' = 0 \/ (OwnedNext(cookie') /\ (session'[cookie'].owner = shown' \/ OverNext(cookie')))
    BY <1>5 DEF MayServe, Owned, Over, OwnedNext, OverNext
  <2>3. /\ \A p \in Slots : RequestFits(p)' /\ ServesFits(p)'
        /\ OneAwaited' /\ flow'.pc = "currency" /\ flow'.kind = flow.kind /\ flow'.user = flow.user
    BY <1>0, <1>4, <1>5, <2>1, <2>2, GoesOnFits
  <2>4. BootFits' /\ FlowFits'
    BY <1>0, <1>7, <2>3 DEF TabFits, BootFits, FlowFits
  <2>. QED BY <1>6, <2>3, <2>4 DEF TabFits
<1>8. CASE flow.pc = "currency"
  <2>1. /\ req' = [req EXCEPT ![q] = Free]
        /\ flow' = [flow EXCEPT !.pc = IF flow.kind = "up" THEN "leaving" ELSE "checking"]
        /\ flow.kind = "up" => goal' = "setup"
    BY <1>8 DEF SettingsAnswer, AfterCurrency
  <2>2. /\ flow'.pc = IF flow.kind = "up" THEN "leaving" ELSE "checking"
        /\ flow'.kind = flow.kind /\ flow'.user = flow.user
    BY <1>0, <2>1 DEF Flows
  <2>3. Awaited' = "none"
    BY <2>2 DEF Awaited
  <2>4. /\ \A p \in Slots : RequestFits(p)' /\ ServesFits(p)'
        /\ OneAwaited'
    BY <1>0, <1>4, <2>1, <2>3, HeardFits
  <2>5. BootFits' /\ FlowFits'
    BY <1>0, <1>8, <2>1, <2>2 DEF TabFits, BootFits, FlowFits
  <2>. QED BY <1>6, <2>4, <2>5 DEF TabFits
<1>. QED BY <1>1, <1>7, <1>8

\* A page or the sign-out is answered: the cookie still serves who is shown.
LEMMA PageAnswerFits ==
  ASSUME TypeOK, TypeOK', Fits, Grows, NEW q \in Slots, PageAnswer(q) \/ LogoutAnswer(q)
  PROVE  TabFits' /\ \A p \in Slots : RequestFits(p)'
<1>0. /\ TabFits /\ RequestFits(q) /\ flow \in Flows /\ cookie \in Sids \cup {0}
      /\ req[q].st = "answered" /\ flow' = flow /\ req' = [req EXCEPT ![q] = Free]
      /\ UNCHANGED <<server, page>>
  BY DEF TypeOK, Fits, RequestsFit, RequestFits, PageAnswer, LogoutAnswer, HasAnswer
<1>1. \/ UNCHANGED <<shown, goal>>
      \/ SignedOut(q) /\ (req[q].op = "logout" \/ (req[q].op = "page" /\ req[q].ans = "denied"))
  BY DEF PageAnswer, LogoutAnswer, Unauthorized, HasAnswer
<1>2. StillServed /\ (shown' = shown \/ shown' = NoOne)
  BY <1>0, <1>1, OutFits
<1>3. /\ \A p \in Slots : RequestFits(p)' /\ ServesFits(p)'
      /\ OneAwaited' /\ \A p \in Slots : req'[p].by # "nobody" => req'[p] = req[p]
  BY <1>0, <1>2, HeardFits
<1>4. flow.pc # "asking"
  <2>1. CASE PageAnswer(q)
    BY <1>0, <2>1 DEF PageAnswer, TabFits, BootFits
  <2>2. CASE LogoutAnswer(q)
    <3>1. req[q].op = "logout" /\ req[q].by # "nobody"
      BY <1>0, <2>2 DEF LogoutAnswer, HasAnswer, RequestFits, SlotFits
    <3>. QED BY <1>0, <3>1 DEF TabFits, BootFits, OneAwaited, Awaited
  <2>. QED BY <2>1, <2>2
<1>5. BootFits'
  BY <1>0, <1>4 DEF TabFits, BootFits
<1>6. FlowFits'
  BY <1>0, <1>1, <1>2, SessionAssumption DEF TabFits, FlowFits, SignedOut
<1>7. CookieFits'
  <2>1. CASE LogoutAnswer(q)
    BY <2>1 DEF LogoutAnswer, CookieFits, MayServe
  <2>2. CASE PageAnswer(q) /\ MayServe(cookie, shown)
    <3>1. CookieSet(q) /\ req[q].op = "page" /\ req[q].by = "page"
      BY <2>2 DEF PageAnswer, HasAnswer
    <3>. QED BY <1>2, <2>2, <3>1, CookieSetServed DEF CookieFits, MayServe
  <2>3. CASE PageAnswer(q) /\ ~MayServe(cookie, shown)
    <3>1. CookieSet(q) /\ req[q].op = "page" /\ req[q].by = "page"
      BY <2>3 DEF PageAnswer, HasAnswer
    <3>2. shown = NoOne /\ page \notin Guarded /\ flow.pc \notin {"language", "currency"}
      BY <1>0, <2>3 DEF TabFits, CookieFits
    <3>3. MayServe(req[q].sid, shown) /\ req[q].sid \in Sids \cup {0}
      BY <1>0, <3>1, RequestFields DEF TabFits, ServesFits, TypeOK
    <3>4. CASE req[q].ans = "ok"
      BY <1>2, <3>1, <3>3, <3>4 DEF CookieSet, StillServed, MayServe, Owned, Over, CookieFits
    <3>5. CASE req[q].ans # "ok"
      <4>1. cookie' = cookie /\ shown' = NoOne
        BY <1>2, <3>1, <3>2, <3>5 DEF CookieSet
      <4>. QED BY <1>0, <1>2, <4>1, CookieStays
    <3>. QED BY <3>4, <3>5
  <2>. QED BY <2>1, <2>2, <2>3
<1>. QED BY <1>3, <1>5, <1>6, <1>7 DEF TabFits

\* A request that the network loses, or whose answer it loses.
LEMMA LoseAnswerFits ==
  ASSUME TypeOK, TypeOK', Fits, Grows, NEW q \in Slots, LoseAnswer(q)
  PROVE  TabFits' /\ \A p \in Slots : RequestFits(p)'
<1>0. /\ TabFits /\ RequestFits(q) /\ flow \in Flows /\ cookie \in Sids \cup {0}
      /\ req \in [Slots -> Requests] /\ req[q].st # "free" /\ req[q].by # "nobody"
      /\ UNCHANGED <<server, outlived, passkey, cookie, page>>
  BY DEF TypeOK, Fits, RequestsFit, RequestFits, LoseAnswer
<1> DEFINE gone == IF req[q].st = "answered" \/ req[q].op \notin {"login", "register", "logout"}
                   THEN Free ELSE [req[q] EXCEPT !.by = "nobody"]
<1>1. ASSUME req' = [req EXCEPT ![q] = gone], StillServed,
             \/ flow' = flow
             \/ req[q].by = "flow" /\ Awaited' = "none"
      PROVE  /\ \A p \in Slots : RequestFits(p)' /\ ServesFits(p)'
             /\ OneAwaited' /\ \A p \in Slots : req'[p].by # "nobody" => req'[p] = req[p]
  <2>1. req'[q] = gone /\ \A p \in Slots \ {q} : req'[p] = req[p]
    BY <1>0, <1>1
  <2>2. \A p \in Slots : Kept(p)
    BY <2>1 DEF Kept
  <2>3. req'[q].by = "nobody"
    BY <1>0, <2>1, FreeFields DEF Requests
  <2>4. \A p \in Slots : req'[p].by # "nobody" => req'[p] = req[p] /\ p # q
    BY <2>1, <2>3
  <2>5. OneAwaited'
    BY <1>0, <1>1, <2>4 DEF TabFits, OneAwaited, Awaited
  <2>. QED BY <1>1, <2>2, <2>4, <2>5, KeptFits, KeptServes
<1>2. CASE req[q].by # "flow"
  <2>1. req' = [req EXCEPT ![q] = gone] /\ UNCHANGED <<flow, shown, goal>>
    BY <1>2 DEF LoseAnswer
  <2>2. StillServed
    BY <2>1, StaysServed
  <2>3. /\ \A p \in Slots : RequestFits(p)' /\ ServesFits(p)'
        /\ OneAwaited' /\ \A p \in Slots : req'[p].by # "nobody" => req'[p] = req[p]
    BY <1>1, <2>1, <2>2
  <2>4. BootFits' /\ FlowFits'
    BY <1>0, <2>1, <2>3 DEF TabFits, BootFits, FlowFits
  <2>5. CookieFits'
    BY <1>0, <2>1, <2>2, CookieStays
  <2>. QED BY <2>3, <2>4, <2>5 DEF TabFits
<1>3. CASE req[q].by = "flow" /\ flow.pc \in {"language", "currency"}
  <2>1. MayServe(cookie, shown)
    BY <1>0, <1>3 DEF TabFits, CookieFits
  <2>2. UNCHANGED shown
    BY <1>3 DEF LoseAnswer
  <2>3. StillServed
    BY <2>2, StaysServed
  <2>4. CookieFits'
    BY <1>0, <2>1, <2>3 DEF CookieFits, StillServed, MayServe
  <2>5. CASE flow.pc = "language"
    <3>1. GoesOn(q, "currency", cookie) /\ goal' = goal
      BY <1>3, <2>5 DEF LoseAnswer, AfterLanguage
    <3>2. cookie = 0 \/ (OwnedNext(cookie) /\ (session'[cookie].owner = shown' \/ OverNext(cookie)))
      BY <1>0, <2>1, <2>2, <2>3 DEF StillServed, MayServe, Owned, Over, OwnedNext, OverNext
    <3>3. /\ \A p \in Slots : RequestFits(p)' /\ ServesFits(p)'
          /\ OneAwaited' /\ flow'.pc = "currency" /\ flow'.kind = flow.kind /\ flow'.user = flow.user
      BY <1>0, <1>3, <2>3, <3>1, <3>2, GoesOnFits
    <3>4. BootFits' /\ FlowFits'
      BY <1>0, <2>5, <3>3 DEF TabFits, BootFits, FlowFits
    <3>. QED BY <2>4, <3>3, <3>4 DEF TabFits
  <2>6. CASE flow.pc = "currency"
    <3>1. /\ req' = [req EXCEPT ![q] = Free]
          /\ flow' = [flow EXCEPT !.pc = IF flow.kind = "up" THEN "leaving" ELSE "checking"]
          /\ goal' = IF flow.kind = "up" THEN "setup" ELSE goal
      BY <1>3, <2>6 DEF LoseAnswer, AfterCurrency
    <3>2. /\ flow'.pc = IF flow.kind = "up" THEN "leaving" ELSE "checking"
          /\ flow'.kind = flow.kind /\ flow'.user = flow.user
      BY <1>0, <3>1 DEF Flows
    <3>3. Awaited' = "none"
      BY <3>2 DEF Awaited
    <3>4. /\ \A p \in Slots : RequestFits(p)' /\ ServesFits(p)'
          /\ OneAwaited'
      BY <1>3, <2>3, <3>1, <3>3, HeardFits
    <3>5. BootFits' /\ FlowFits'
      BY <1>0, <2>6, <3>1, <3>2 DEF TabFits, BootFits, FlowFits
    <3>. QED BY <2>4, <3>4, <3>5 DEF TabFits
  <2>. QED BY <1>3, <2>5, <2>6
<1>4. CASE req[q].by = "flow" /\ flow.pc \notin {"language", "currency"}
  <2>1. /\ flow'.pc = "none" /\ flow'.kind = "none"
        /\ shown' = IF flow.kind = "boot" THEN NoOne ELSE shown
        /\ req' = [req EXCEPT ![q] = gone] /\ UNCHANGED goal
    BY <1>4 DEF LoseAnswer, FlowFails, NoFlow
  <2>2. req[q].op = Awaited /\ req[q].op # "none"
    BY <1>0, <1>4 DEF TabFits, OneAwaited, RequestFits, SlotFits
  <2>3. flow.pc \in {"asking", "beginning", "completing"}
    BY <1>4, <2>2 DEF Awaited
  <2>4. shown = NoOne /\ shown' = NoOne
    BY <1>0, <2>1, <2>3 DEF TabFits, BootFits, FlowFits
  <2>5. StillServed
    BY <2>4, StaysServed
  <2>6. Awaited' = "none"
    BY <2>1 DEF Awaited
  <2>7. /\ \A p \in Slots : RequestFits(p)' /\ ServesFits(p)'
        /\ OneAwaited'
    BY <1>1, <1>4, <2>1, <2>5, <2>6
  <2>8. BootFits' /\ FlowFits'
    BY <2>1, <2>4 DEF BootFits, FlowFits
  <2>9. CookieFits'
    BY <1>0, <2>1, <2>4, <2>5, CookieStays
  <2>. QED BY <2>7, <2>8, <2>9 DEF TabFits
<1>. QED BY <1>2, <1>3, <1>4

-----------------------------------------------------------------------------
(* The invariant, and the properties.                                      *)

\* The invariant holds when the browser opens the app.
LEMMA FitsInit == Init => Fits
<1> SUFFICES ASSUME Init PROVE Fits
  OBVIOUS
<1>1. PICK known \in BOOLEAN, u \in Users :
        /\ account = [v \in Users |-> IF known /\ v = u THEN 1 ELSE 0]
        /\ session = [s \in Sids |-> [owner |-> IF known /\ s = 1 THEN u ELSE NoOne,
                                      live |-> known /\ s = 1]]
        /\ passkey = [i \in Ids |-> [user |-> IF known /\ i = 1 THEN u ELSE NoOne, count |-> 0]]
        /\ cookie = IF known THEN 1 ELSE 0
  BY KnownUser
<1>3. 1 \in Ids /\ 1 \in Sids
  BY SessionAssumption DEF Ids, Sids
<1>4. cookie = 0 \/ Owned(cookie)
  BY <1>1, <1>3, SessionAssumption DEF Owned
<1>5. \A q \in Slots : (req[q] = Ask("session", "flow", cookie) /\ q = 1) \/ req[q] = Free
  BY DEF Init
<1>6. /\ shown = NoOne /\ page = "blank"
      /\ flow = [kind |-> "boot", pc |-> "asking", user |-> NoOne]
  BY DEF Init
<1>7. RequestsFit
  BY <1>4, <1>5, FreeFields, AskFields DEF RequestsFit, SlotFits, CarriesFits, CredentialFits
<1>8. OneAwaited
  BY <1>5, <1>6, FreeFields, AskFields DEF OneAwaited, Awaited
<1>9. (\A q \in Slots : ServesFits(q)) /\ BootFits
  BY <1>5, <1>6, FreeFields, AskFields DEF ServesFits, BootFits
<1>10. FlowFits /\ CookieFits
  BY <1>4, <1>6 DEF FlowFits, CookieFits, Guarded
<1>11. CountsFit
  <2>1. signCount = [i \in Ids |-> 0] /\ \A i \in Ids : passkey[i].count = 0
    BY <1>1 DEF Init
  <2>. QED BY <2>1 DEF CountsFit
<1>12. KeysFit
  BY <1>1, <1>3 DEF KeysFit
<1>. QED BY <1>7, <1>8, <1>9, <1>10, <1>11, <1>12 DEF Fits, TabFits

\* Every step keeps it.
LEMMA FitsStep == TypeOK /\ Fits /\ [Next]_vars => Fits'
<1> SUFFICES ASSUME TypeOK, Fits, [Next]_vars
             PROVE  Fits'
  OBVIOUS
<1>1. TypeOK'
  BY TypeStep
<1>2. ASSUME TabFits', \A p \in Slots : RequestFits(p)', CountsFit', KeysFit'
      PROVE  Fits'
  BY <1>2 DEF Fits, RequestsFit, RequestFits
<1>3. CASE UNCHANGED vars
  BY <1>3 DEF vars, Fits, RequestsFit, TabFits, SlotFits, CarriesFits, CredentialFits, ServesFits,
              OneAwaited, Awaited, BootFits, FlowFits, CookieFits, CountsFit, KeysFit, MayServe, Owned, Over
<1>4. CASE Next
  <2>1. Grows /\ CountsFit' /\ KeysFit'
    BY <1>4, GrowsStep
  <2>2. ASSUME NEW kind \in {"in", "up"}, NEW u \in Users \cup {NoOne},
               kind = "up" => u \in Users, Begin(kind, u)
        PROVE  Fits'
    BY <1>1, <1>2, <2>1, <2>2, BeginFits
  <2>3. ASSUME NEW i \in Ids, GetAssertion(i) \/ CreateCredential(i)
        PROVE  Fits'
    BY <1>1, <1>2, <2>1, <2>3, CredentialStepFits
  <2>4. CASE PromptFails \/ SignOut \/ PageRequest
    BY <1>1, <1>2, <2>1, <2>4, UserStepFits
  <2>5. CASE Reload \/ ReloadIntoUpdate
    <3>1. Restart
      BY <2>5 DEF Reload, ReloadIntoUpdate
    <3>. QED BY <1>1, <1>2, <2>1, <3>1, RestartFits
  <2>6. CASE HasUpdate \/ Navigate
    BY <1>1, <1>2, <2>1, <2>6, NavigateFits
  <2>7. ASSUME NEW q \in Slots, Handle(q)
        PROVE  Fits'
    <3>1. Served /\ \A p \in Slots : RequestFits(p)'
      BY <1>1, <2>1, <2>7, ServerRequests
    <3>2. UNCHANGED <<cookie, shown, page, goal, flow>>
      BY <2>7 DEF Handle, HandleBegin, FindSession, RenewSession, FindAccount, OpenSession, Register,
                  CompleteFails, Logout, client
    <3>. QED BY <1>1, <1>2, <2>1, <3>1, <3>2, ServedTab
  <2>8. ASSUME NEW q \in Slots, Hear(q)
        PROVE  Fits'
    BY <1>1, <1>2, <2>1, <2>8, SessionAnswerFits, BeginAnswerFits, CompleteAnswerFits,
       SettingsAnswerFits, PageAnswerFits DEF Hear
  <2>9. ASSUME NEW q \in Slots, LoseAnswer(q)
        PROVE  Fits'
    BY <1>1, <1>2, <2>1, <2>9, LoseAnswerFits
  <2>10. ASSUME NEW s \in Sids, Expire(s)
         PROVE  Fits'
    <3>1. UNCHANGED <<cookie, shown, page, goal, flow, req>>
      BY <2>10 DEF Expire
    <3>2. Served /\ \A p \in Slots : RequestFits(p)'
      BY <1>1, <2>1, <3>1, KeptFits DEF Served, Kept
    <3>. QED BY <1>1, <1>2, <2>1, <3>1, <3>2, ServedTab
  <2>11. CASE SignIn \/ \E u \in Users : SignUp(u)
    <3>1. \A u \in Users : Begin("up", u) => Fits'
      BY <2>2
    <3>2. Begin("in", NoOne) => Fits'
      BY <2>2
    <3>. QED BY <2>11, <3>1, <3>2 DEF SignIn, SignUp
  <2>. QED BY <1>4, <2>3, <2>4, <2>5, <2>6, <2>7, <2>8, <2>9, <2>10, <2>11
           DEF Next, User, Tab, Network
<1>. QED BY <1>3, <1>4

\* The state is of its type in every step, and fits the inductive invariant.
THEOREM SessionTypes == Spec => [](TypeOK /\ Fits)
<1>1. Init => TypeOK /\ Fits
  BY TypeInit, FitsInit
<1>2. TypeOK /\ Fits /\ [Next]_vars => TypeOK' /\ Fits'
  BY TypeStep, FitsStep
<1>. QED BY <1>1, <1>2, PTL DEF Spec

\* The account the API serves is the one on screen, however late the answers
\* that set the cookie or sign out: the cookie's session is over, or the shown
\* user's, but for what a renewal or a failed or misdirected sign-out left live.
THEOREM ShownAlwaysServed == Spec => []ShownIsServed
<1>1. TypeOK /\ Fits => ShownIsServed
  BY DEF Fits, TabFits, CookieFits, ShownIsServed, IsLive, MayServe, Over
<1>. QED BY <1>1, SessionTypes, PTL

\* A username that is taken can sign in, whatever is lost or late: no count is
\* stored that the next signature of its passkey would not pass.
THEOREM RegisteredAlwaysSignsIn == Spec => []RegisteredCanSignIn
<1>1. ASSUME TypeOK, Fits
      PROVE  RegisteredCanSignIn
  <2>1. /\ account \in [Users -> Ids \cup {0}] /\ signCount \in [Ids -> Nat]
        /\ passkey \in [Ids -> [user : Users \cup {NoOne}, count : Nat]]
        /\ CountsFit /\ KeysFit
    BY <1>1 DEF TypeOK, Fits
  <2>. QED BY <2>1 DEF CountsFit, KeysFit, RegisteredCanSignIn, CountAccepted
<1>. QED BY <1>1, SessionTypes, PTL

\* A login ends the sessions of its user, and no step but the renewal of one
\* that has gone makes a session live: it is then in revived.
LEMMA OneLiveStep == TypeOK /\ Fits /\ OneLiveSession /\ [Next]_vars => OneLiveSession'
<1> SUFFICES ASSUME TypeOK, Fits, OneLiveSession, [Next]_vars
             PROVE  OneLiveSession'
  OBVIOUS
<1>0. /\ session \in [Sids -> [owner : Users \cup {NoOne}, live : BOOLEAN]]
      /\ revived \in SUBSET Sids
  BY DEF TypeOK
<1>1. CASE UNCHANGED <<session, revived>>
  BY <1>1 DEF OneLiveSession
<1>2. ASSUME NEW q \in Slots, RenewSession(q)
      PROVE  OneLiveSession'
  BY <1>0, <1>2 DEF OneLiveSession, RenewSession, IsLive, Fits, RequestsFit, CarriesFits, Owned
<1>3. ASSUME NEW q \in Slots, NEW u \in Users, ReplaceSessions(q, u), UNCHANGED revived
      PROVE  OneLiveSession'
  BY <1>0, <1>3 DEF OneLiveSession, ReplaceSessions
<1>4. ASSUME NEW q \in Slots, OpenSession(q)
      PROVE  OneLiveSession'
  BY <1>3, <1>4 DEF OpenSession, Fits, RequestsFit, CredentialFits
<1>5. ASSUME NEW q \in Slots, Register(q)
      PROVE  OneLiveSession'
  BY <1>1, <1>3, <1>5 DEF Register, Fits, RequestsFit, CredentialFits
<1>6. ASSUME NEW q \in Slots, Logout(q)
      PROVE  OneLiveSession'
  BY <1>0, <1>6 DEF OneLiveSession, Logout, Invalidate
<1>7. ASSUME NEW s \in Sids, Expire(s)
      PROVE  OneLiveSession'
  BY <1>0, <1>7 DEF OneLiveSession, Expire
<1>8. ASSUME NEW q \in Slots, \/ HandleBegin(q) \/ FindSession(q) \/ FindAccount(q)
                               \/ CompleteFails(q) \/ Hear(q) \/ LoseAnswer(q)
      PROVE  OneLiveSession'
  BY <1>1, <1>8 DEF HandleBegin, FindSession, FindAccount, CompleteFails, Hear, SessionAnswer,
       BeginAnswer, CompleteAnswer, SettingsAnswer, PageAnswer, LogoutAnswer, LoseAnswer, server
<1>9. CASE User \/ Tab \/ UNCHANGED vars
  BY <1>1, <1>9 DEF User, Tab, SignIn, SignUp, Begin, GetAssertion, CreateCredential, SignOut,
       PageRequest, Reload, PromptFails, HasUpdate, Navigate, ReloadIntoUpdate, Restart, server, vars
<1>. QED BY <1>2, <1>4, <1>5, <1>6, <1>7, <1>8, <1>9 DEF Next, Network, Handle

\* "only the latest login is valid": two live sessions of one account never
\* come from logins alone, but from a renewal that overtook the end of one.
THEOREM OneSessionLives == Spec => []OneLiveSession
<1>1. Init => OneLiveSession
  <2> SUFFICES ASSUME Init PROVE OneLiveSession
    OBVIOUS
  <2>1. PICK known \in BOOLEAN, u \in Users :
          session = [s \in Sids |-> [owner |-> IF known /\ s = 1 THEN u ELSE NoOne,
                                     live |-> known /\ s = 1]]
    BY KnownUser
  <2>2. \A s \in Sids : session[s].live = (known /\ s = 1)
    BY <2>1
  <2>. QED BY <2>2 DEF OneLiveSession
<1>2. (TypeOK /\ Fits) /\ OneLiveSession /\ [Next]_vars => OneLiveSession'
  BY OneLiveStep
<1>. QED BY <1>1, <1>2, SessionTypes, PTL DEF Spec
=============================================================================
