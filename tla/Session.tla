------------------------------ MODULE Session -------------------------------
(***************************************************************************)
(* Who is signed in, as the browser shows it and as the server sees it.    *)
(* One tab of the front end (AuthService, the interceptor for 401, the     *)
(* route guards, the reload into a new build), its cookie jar, the         *)
(* passkeys of the device, and the API's accounts and sessions.            *)
(*                                                                         *)
(* Requests are in flight between the two: each is sent with the cookie of *)
(* the moment, handled in one or two steps, and answered late, or never.   *)
(* A reload drops what the tab waits for; what was sent is still handled.  *)
(* Challenges, and the requests of several clients for one account, are in *)
(* Accounts; here a challenge only may have expired.                       *)
(***************************************************************************)
EXTENDS Naturals

CONSTANTS
  Users,          \* usernames
  NoOne,          \* no user
  MaxIds,         \* bound: account ids, each with its passkey
  Counting,       \* the ids whose passkey counts its signatures; others answer 0
  MaxSessions,    \* bound: sessions opened
  MaxRequests,    \* bound: requests in flight at once
  MaxFlows,       \* bound: sign-ins and sign-ups begun
  MaxEvents       \* bound: requests of the pages, reloads by the user, sessions
                  \* that expire and answers that are lost, all together

ASSUME SessionAssumption ==
  /\ Users # {} /\ NoOne \notin Users /\ Counting \subseteq 1 .. MaxIds
  /\ {MaxIds, MaxSessions} \subseteq Nat \ {0}
  /\ {MaxRequests, MaxFlows, MaxEvents} \subseteq Nat

Ids == 1 .. MaxIds
Sids == 1 .. MaxSessions
Slots == 1 .. MaxRequests

VARIABLES
  account,   \* bim_accounts: the id that has each username, 0 if none
  signCount, \* bim_accounts: sign_count of each id
  session,   \* bim_sessions: who each session is of, and whether it is live
  revived,   \* history: sessions renewed by a request that read them before their end
  outlived,  \* history: sessions still live when the tab signed their user out
  passkey,   \* the device: the user and the counter of each id's passkey
  cookie,    \* the browser: session id of the cookie, 0 if none
  shown,     \* AuthService.currentUser
  page,      \* the page on screen
  goal,      \* where the router is going
  flow,      \* what loadCurrentUser, signIn or signUp awaits
  stale,     \* the running bundle may not be the server's
  req,       \* the requests in flight
  made       \* flows begun, and other events, so far

vars == <<account, signCount, session, revived, outlived, passkey, cookie, shown, page,
          goal, flow, stale, req, made>>

server == <<account, signCount, session, revived>>
client == <<outlived, cookie, shown, page, goal, flow, stale, made>>

Guarded == {"home", "setup"}
Pages == Guarded \cup {"auth", "updating", "blank"}

Flows == [kind : {"none", "boot", "in", "up"},
          pc : {"none", "asking", "beginning", "prompting", "completing", "language",
                "currency", "checking", "leaving"},
          user : Users \cup {NoOne}]

NoFlow == [kind |-> "none", pc |-> "none", user |-> NoOne]

\* One request: what it asks, who awaits it, the cookie it carries (in its
\* answer, the one it sets), the passkey's id, count and user, the count the
\* handler has read, and how it is answered.
Requests ==
  [op : {"none", "session", "begin", "login", "register", "logout", "page"},
   by : {"nobody", "flow", "out", "page"},
   sid : Sids \cup {0}, id : Ids \cup {0}, count : Nat, user : Users \cup {NoOne}, held : Nat,
   st : {"free", "sent", "read", "answered"},
   ans : {"none", "ok", "denied", "refused"}]

Free == [op |-> "none", by |-> "nobody", sid |-> 0, id |-> 0, count |-> 0, user |-> NoOne,
         held |-> 0, st |-> "free", ans |-> "none"]

TypeOK ==
  /\ account \in [Users -> Ids \cup {0}]
  /\ signCount \in [Ids -> Nat]
  /\ session \in [Sids -> [owner : Users \cup {NoOne}, live : BOOLEAN]]
  /\ revived \in SUBSET Sids /\ outlived \in SUBSET Sids
  /\ passkey \in [Ids -> [user : Users \cup {NoOne}, count : Nat]]
  /\ cookie \in Sids \cup {0}
  /\ shown \in Users \cup {NoOne}
  /\ page \in Pages /\ goal \in Pages \cup {"none"}
  /\ flow \in Flows
  /\ stale \in BOOLEAN
  /\ req \in [Slots -> Requests]
  /\ made \in [flows : 0 .. MaxFlows, events : 0 .. MaxEvents]

\* A request of the tab, with the cookie of the moment; c is that cookie.
Ask(op, by, c) == [Free EXCEPT !.op = op, !.by = by, !.sid = c, !.st = "sent"]

Event == made.events < MaxEvents /\ made' = [made EXCEPT !.events = @ + 1]

IsFree(q) == req[q].st = "free" /\ \A p \in Slots : p < q => req[p].st # "free"

\* The browser opens the app, with or without an account and its session.
Init ==
  /\ \E known \in BOOLEAN :
       LET u == CHOOSE v \in Users : TRUE
           First(i) == known /\ i = 1 IN
       /\ account = [v \in Users |-> IF known /\ v = u THEN 1 ELSE 0]
       /\ session = [s \in Sids |-> [owner |-> IF First(s) THEN u ELSE NoOne, live |-> First(s)]]
       /\ passkey = [i \in Ids |-> [user |-> IF First(i) THEN u ELSE NoOne, count |-> 0]]
       /\ cookie = IF known THEN 1 ELSE 0
  /\ signCount = [i \in Ids |-> 0]
  /\ revived = {} /\ outlived = {}
  /\ shown = NoOne /\ page = "blank" /\ goal = "home"
  /\ flow = [kind |-> "boot", pc |-> "asking", user |-> NoOne]
  /\ stale = TRUE
  /\ req = [q \in Slots |-> IF q = 1 THEN Ask("session", "flow", cookie) ELSE Free]
  /\ made = [flows |-> 0, events |-> 0]

-----------------------------------------------------------------------------
(* The user and the device.                                                *)

\* signIn and signUp return at once while isLoading is set.
Begin(kind, u) ==
  /\ page = "auth" /\ flow = NoFlow /\ made.flows < MaxFlows
  /\ \E q \in Slots : IsFree(q) /\ req' = [req EXCEPT ![q] = Ask("begin", "flow", cookie)]
  /\ flow' = [kind |-> kind, pc |-> "beginning", user |-> u]
  /\ made' = [made EXCEPT !.flows = @ + 1]
  /\ UNCHANGED <<server, outlived, passkey, cookie, shown, page, goal, stale>>

SignIn == Begin("in", NoOne)
SignUp(u) == Begin("up", u)

\* credentialToJson: what the passkey made, in the body of request r.
WithCredential(r, i, n, u) == [r EXCEPT !.id = i, !.count = n, !.user = u]

\* navigator.credentials.get: the user picks a passkey, which signs.
GetAssertion(i) ==
  /\ flow.pc = "prompting" /\ flow.kind = "in" /\ passkey[i].user # NoOne
  /\ LET n == IF i \in Counting THEN passkey[i].count + 1 ELSE 0 IN
     /\ passkey' = [passkey EXCEPT ![i].count = n]
     /\ \E q \in Slots :
          /\ IsFree(q)
          /\ req' = [req EXCEPT ![q] =
                       WithCredential(Ask("login", "flow", cookie), i, n, passkey[i].user)]
  /\ flow' = [flow EXCEPT !.pc = "completing"]
  /\ UNCHANGED <<server, outlived, cookie, shown, page, goal, stale, made>>

\* navigator.credentials.create: a new passkey, for the id of /register/begin.
CreateCredential(i) ==
  /\ flow.pc = "prompting" /\ flow.kind = "up"
  /\ passkey[i].user = NoOne /\ \A j \in 1 .. i - 1 : passkey[j].user # NoOne
  /\ passkey' = [passkey EXCEPT ![i].user = flow.user]
  /\ \E q \in Slots :
       /\ IsFree(q)
       /\ req' = [req EXCEPT ![q] =
                    WithCredential(Ask("register", "flow", cookie), i, 0, flow.user)]
  /\ flow' = [flow EXCEPT !.pc = "completing"]
  /\ UNCHANGED <<server, outlived, cookie, shown, page, goal, stale, made>>

\* The prompt is cancelled or times out: the finally clears isLoading.
PromptFails ==
  /\ flow.pc = "prompting"
  /\ flow' = NoFlow
  /\ UNCHANGED <<server, outlived, passkey, cookie, shown, page, goal, stale, req, made>>

\* signOut, from the menu or the set-up page.
SignOut ==
  /\ page \in Guarded /\ \A q \in Slots : req[q].by # "out"
  /\ \E q \in Slots : IsFree(q) /\ req' = [req EXCEPT ![q] = Ask("logout", "out", cookie)]
  /\ UNCHANGED <<server, passkey, client>>

\* Any authenticated request of a page: balance, history, deployment, settings.
PageRequest ==
  /\ page \in Guarded
  /\ Event
  /\ \E q \in Slots : IsFree(q) /\ req' = [req EXCEPT ![q] = Ask("page", "page", cookie)]
  /\ UNCHANGED <<server, outlived, passkey, cookie, shown, page, goal, flow, stale>>

\* The tab starts again: loadCurrentUser runs before the first navigation.
Restart ==
  /\ \E q \in Slots :
       /\ IsFree(q)
       /\ req' = [p \in Slots |->
                    IF p = q THEN Ask("session", "flow", cookie)
                    ELSE IF req[p].st = "answered" THEN Free ELSE [req[p] EXCEPT !.by = "nobody"]]
  /\ shown' = NoOne /\ page' = "blank" /\ goal' = "home"
  /\ flow' = [kind |-> "boot", pc |-> "asking", user |-> NoOne]
  /\ UNCHANGED <<server, outlived, passkey, cookie>>

Reload ==
  /\ page # "blank"
  /\ Event
  /\ Restart
  /\ UNCHANGED stale

\* download: the new bundle is there for the next load, or not in time.
Download == (stale' = FALSE /\ UNCHANGED made) \/ (Event /\ UNCHANGED stale)

\* UpdatingPage: once the download has ended, the page reloads.
ReloadIntoUpdate ==
  /\ page = "updating" /\ goal = "none"
  /\ Restart
  /\ Download

-----------------------------------------------------------------------------
(* The API.                                                                *)

\* The answer of request q, which sets cookie c if it is "ok".
Answer(q, ans, c) ==
  req' = [req EXCEPT ![q] = IF @.by = "nobody" THEN Free
                            ELSE [@ EXCEPT !.st = "answered", !.ans = ans, !.sid = c]]

Answered(q, ans) == Answer(q, ans, req[q].sid)

IsLive(s) == s # 0 /\ session[s].live

\* /register/begin and /login/begin save a challenge.
HandleBegin(q) ==
  /\ req[q].st = "sent" /\ req[q].op = "begin"
  /\ Answered(q, "ok")
  /\ UNCHANGED <<server, passkey, client>>

\* Without a live session: the middleware refuses with 401, GET /session says no.
Unauthenticated(q) == Answered(q, IF req[q].op = "page" THEN "denied" ELSE "refused")

\* SessionValidator.validate finds the session, for GET /session or in the
\* middleware, ...
FindSession(q) ==
  /\ req[q].st = "sent" /\ req[q].op \in {"session", "page"}
  /\ IF IsLive(req[q].sid) THEN req' = [req EXCEPT ![q].st = "read"]
     ELSE Unauthenticated(q)
  /\ UNCHANGED <<server, passkey, client>>

\* ... and saves it renewed, inserting its row again if it has gone.
RenewSession(q) ==
  /\ req[q].st = "read" /\ req[q].op \in {"session", "page"}
  /\ session' = [session EXCEPT ![req[q].sid].live = TRUE]
  /\ revived' = IF IsLive(req[q].sid) THEN revived ELSE revived \cup {req[q].sid}
  /\ Answered(q, "ok")
  /\ UNCHANGED <<account, signCount, passkey, client>>

\* verifyAuthentication: SimpleWebAuthn refuses a count that has not grown.
CountAccepted(count, stored) == (count = 0 /\ stored = 0) \/ count > stored

\* POST /login/complete, until the transaction.
FindAccount(q) ==
  /\ req[q].st = "sent" /\ req[q].op = "login"
  /\ IF account[req[q].user] # req[q].id THEN Answered(q, "refused")
     ELSE IF ~CountAccepted(req[q].count, signCount[req[q].id]) THEN Answered(q, "denied")
     ELSE req' = [req EXCEPT ![q].st = "read", ![q].held = signCount[req[q].id]]
  /\ UNCHANGED <<server, passkey, client>>

\* Faulty: the count is stepped even when the passkey has none.
NextCount(count, held) == IF count > held THEN count ELSE held + 1

\* updateSignCount, on the count that was read.
UpdatedCount(count, held) == IF count > held THEN count ELSE held

\* Faulty: the earlier sessions of the account are kept.
AddSession(q, u) ==
  \E s \in Sids :
    /\ session[s].owner = NoOne /\ \A t \in 1 .. s - 1 : session[t].owner # NoOne
    /\ session' = [session EXCEPT ![s] = [owner |-> u, live |-> TRUE]]
    /\ Answer(q, "ok", s)

\* deleteByAccountId, then save: the only session of user u.
ReplaceSessions(q, u) ==
  \E s \in Sids :
    /\ session[s].owner = NoOne /\ \A t \in 1 .. s - 1 : session[t].owner # NoOne
    /\ session' = [t \in Sids |->
                     IF t = s THEN [owner |-> u, live |-> TRUE]
                     ELSE IF session[t].owner = u THEN [session[t] EXCEPT !.live = FALSE]
                     ELSE session[t]]
    /\ Answer(q, "ok", s)

\* ... the transaction: the row of the account is saved first, and locked.
OpenSession(q) ==
  /\ req[q].st = "read" /\ req[q].op = "login"
  /\ signCount' = [signCount EXCEPT ![req[q].id] = UpdatedCount(req[q].count, req[q].held)]
  /\ ReplaceSessions(q, req[q].user)
  /\ UNCHANGED <<account, revived, passkey, client>>

\* POST /register/complete: a username is given once.
Register(q) ==
  /\ req[q].st = "sent" /\ req[q].op = "register"
  /\ IF account[req[q].user] = 0
     THEN /\ account' = [account EXCEPT ![req[q].user] = req[q].id]
          /\ ReplaceSessions(q, req[q].user)
     ELSE Answered(q, "refused") /\ UNCHANGED <<account, session>>
  /\ UNCHANGED <<signCount, revived, passkey, client>>

\* The challenge has expired, the credential is not verified, the database fails.
CompleteFails(q) ==
  /\ req[q].st \in {"sent", "read"} /\ req[q].op \in {"login", "register"}
  /\ Answered(q, "refused")
  /\ UNCHANGED <<server, passkey, client>>

\* SessionInvalidator.invalidate deletes the row, if there is one.
Invalidate(sid) ==
  session' = [s \in Sids |-> IF s = sid THEN [session[s] EXCEPT !.live = FALSE] ELSE session[s]]

\* Faulty: the cookie is cleared, the session is not deleted.
LogoutCookieOnly(q) ==
  /\ req[q].st = "sent" /\ req[q].op = "logout"
  /\ Answered(q, "ok")
  /\ UNCHANGED <<server, passkey, client>>

\* POST /logout answers success, and clears the cookie, even if the session
\* could not be deleted.
Logout(q) ==
  /\ req[q].st = "sent" /\ req[q].op = "logout"
  /\ Answered(q, "ok")
  /\ \/ Invalidate(req[q].sid) /\ UNCHANGED outlived
     \/ /\ IsLive(req[q].sid)
        /\ outlived' = outlived \cup {req[q].sid}
        /\ UNCHANGED session
  /\ UNCHANGED <<account, signCount, revived, passkey, cookie, shown, page, goal, flow, stale,
                 made>>

\* A session nobody used for its duration expires.
Expire(s) ==
  /\ session[s].live
  /\ Event
  /\ session' = [session EXCEPT ![s].live = FALSE]
  /\ UNCHANGED <<account, signCount, revived, outlived, passkey, cookie, shown, page, goal, flow, stale,
                 req>>

-----------------------------------------------------------------------------
(* The answers, in the tab.                                                *)

HasAnswer(q, ops) == req[q].st = "answered" /\ req[q].op \in ops

\* The flow goes on to await pc, with a settings request in the slot.
GoesOn(q, pc, c) ==
  /\ flow' = [flow EXCEPT !.pc = pc]
  /\ req' = [req EXCEPT ![q] = Ask("page", "flow", c)]

\* loadCurrentUser: GET /session renews the session but not the cookie; it
\* clears the cookie of a session that is over.
SessionAnswer(q) ==
  /\ HasAnswer(q, {"session"})
  /\ IF req[q].ans = "ok"
     THEN /\ shown' = session[req[q].sid].owner
          /\ GoesOn(q, "language", cookie)
          /\ UNCHANGED cookie
     ELSE /\ shown' = NoOne /\ cookie' = 0 /\ flow' = NoFlow
          /\ req' = [req EXCEPT ![q] = Free]
  /\ UNCHANGED <<server, outlived, passkey, page, goal, stale, made>>

BeginAnswer(q) ==
  /\ HasAnswer(q, {"begin"})
  /\ flow' = [flow EXCEPT !.pc = "prompting"]
  /\ req' = [req EXCEPT ![q] = Free]
  /\ UNCHANGED <<server, outlived, passkey, cookie, shown, page, goal, stale, made>>

\* The tab signs its user out, on the answer to request q.  If q carried the
\* cookie of another session, the user's own goes on.
SignedOut(q) ==
  /\ shown' = NoOne
  /\ outlived' = outlived \cup
       {s \in Sids : session[s].live /\ session[s].owner = shown /\ s # req[q].sid}

\* Faulty: the interceptor forgets the user and stays on the page.
UnauthorizedStays(q) ==
  IF req[q].ans = "denied" THEN SignedOut(q) /\ UNCHANGED goal
  ELSE UNCHANGED <<shown, goal, outlived>>

\* authInterceptor: an answer 401, to whatever request, signs the tab out.
Unauthorized(q) ==
  IF req[q].ans = "denied" THEN SignedOut(q) /\ goal' = "auth"
  ELSE UNCHANGED <<shown, goal, outlived>>

\* completeLogin and completeRegister: the cookie is set, the account shown.
CompleteAnswer(q) ==
  /\ HasAnswer(q, {"login", "register"})
  /\ IF req[q].ans = "ok"
     THEN /\ cookie' = req[q].sid /\ shown' = req[q].user
          /\ GoesOn(q, IF flow.kind = "in" THEN "language" ELSE "currency", req[q].sid)
          /\ UNCHANGED <<goal, outlived>>
     ELSE /\ Unauthorized(q)
          /\ flow' = NoFlow /\ req' = [req EXCEPT ![q] = Free]
          /\ UNCHANGED cookie
  /\ UNCHANGED <<server, passkey, page, stale, made>>

\* What an authenticated request sets: the middleware sends its cookie again.
CookieSet(q) == cookie' = IF req[q].ans = "ok" THEN req[q].sid ELSE cookie

\* i18n.init, then currency.init, whose errors are caught: the flow goes on.
AfterLanguage(q, c) == GoesOn(q, "currency", c)
AfterCurrency(q) ==
  /\ flow' = [flow EXCEPT !.pc = IF flow.kind = "up" THEN "leaving" ELSE "checking"]
  /\ req' = [req EXCEPT ![q] = Free]

\* The settings of the user, as i18n.init or currency.init awaits them.
SettingsAnswer(q) ==
  /\ HasAnswer(q, {"page"}) /\ req[q].by = "flow"
  /\ CookieSet(q)
  /\ IF flow.pc = "language"
     THEN AfterLanguage(q, cookie') /\ Unauthorized(q)
     ELSE /\ AfterCurrency(q)
          /\ IF flow.kind = "up"
             THEN /\ goal' = "setup"
                  /\ IF req[q].ans = "denied" THEN SignedOut(q)
                     ELSE UNCHANGED <<shown, outlived>>
             ELSE Unauthorized(q)
  /\ UNCHANGED <<server, passkey, page, stale, made>>

PageAnswer(q) ==
  /\ HasAnswer(q, {"page"}) /\ req[q].by = "page"
  /\ CookieSet(q)
  /\ Unauthorized(q)
  /\ req' = [req EXCEPT ![q] = Free]
  /\ UNCHANGED <<server, passkey, page, flow, stale, made>>

LogoutAnswer(q) ==
  /\ HasAnswer(q, {"logout"})
  /\ SignedOut(q)
  /\ cookie' = 0 /\ goal' = "auth"
  /\ req' = [req EXCEPT ![q] = Free]
  /\ UNCHANGED <<server, passkey, page, flow, stale, made>>

\* A request of the flow fails: caught, and the finally clears isLoading.
FlowFails ==
  /\ flow' = NoFlow
  /\ shown' = IF flow.kind = "boot" THEN NoOne ELSE shown

\* The network loses a request or its answer; what was sent may still be handled.
LoseAnswer(q) ==
  /\ req[q].st # "free" /\ req[q].by # "nobody"
  /\ Event
  /\ LET gone == IF req[q].st = "answered" \/ req[q].op \notin {"login", "register", "logout"}
                 THEN Free ELSE [req[q] EXCEPT !.by = "nobody"] IN
     IF req[q].by # "flow"
     THEN req' = [req EXCEPT ![q] = gone] /\ UNCHANGED <<flow, shown, goal>>
     ELSE CASE flow.pc = "language" -> AfterLanguage(q, cookie) /\ UNCHANGED <<shown, goal>>
            [] flow.pc = "currency" ->
                 /\ AfterCurrency(q)
                 /\ goal' = IF flow.kind = "up" THEN "setup" ELSE goal
                 /\ UNCHANGED shown
            [] OTHER -> /\ FlowFails
                        /\ req' = [req EXCEPT ![q] = gone]
                        /\ UNCHANGED goal
  /\ UNCHANGED <<server, outlived, passkey, cookie, page, stale>>

\* PwaUpdateService.hasUpdate, in its budget: a failed check says no.
HasUpdate ==
  /\ flow.pc = "checking"
  /\ \E update \in BOOLEAN :
       /\ update => stale
       /\ goal' = IF update THEN "updating" ELSE IF flow.kind = "in" THEN "home" ELSE goal
       /\ flow' = IF flow.kind = "boot" /\ ~update THEN NoFlow ELSE [flow EXCEPT !.pc = "leaving"]
  /\ UNCHANGED <<server, outlived, passkey, cookie, shown, page, stale, req, made>>

\* The guards: authGuard and guestGuard send the router elsewhere.
Redirect(g) ==
  IF g \in Guarded /\ shown = NoOne THEN "auth"
  ELSE IF g = "auth" /\ shown # NoOne THEN "home" ELSE g

\* The router gets to its goal; navigate() of a flow then returns.
Navigate ==
  /\ goal # "none" /\ (flow.kind = "boot" => flow.pc = "leaving")
  /\ IF Redirect(goal) = goal THEN page' = goal /\ goal' = "none"
     ELSE goal' = Redirect(goal) /\ UNCHANGED page
  /\ flow' = IF flow.pc = "leaving" THEN NoFlow ELSE flow
  /\ UNCHANGED <<server, outlived, passkey, cookie, shown, stale, req, made>>

-----------------------------------------------------------------------------
Handle(q) ==
  HandleBegin(q) \/ FindSession(q) \/ RenewSession(q) \/ FindAccount(q) \/ OpenSession(q)
  \/ Register(q) \/ CompleteFails(q) \/ Logout(q)

Hear(q) ==
  SessionAnswer(q) \/ BeginAnswer(q) \/ CompleteAnswer(q) \/ SettingsAnswer(q) \/ PageAnswer(q)
  \/ LogoutAnswer(q)

User ==
  SignIn \/ SignOut \/ PageRequest \/ Reload \/ PromptFails
  \/ (\E u \in Users : SignUp(u))
  \/ \E i \in Ids : GetAssertion(i) \/ CreateCredential(i)

Network == \E q \in Slots : Handle(q) \/ Hear(q)

\* What the tab does by itself.
Tab == HasUpdate \/ Navigate \/ ReloadIntoUpdate

Next ==
  \/ User \/ Tab \/ Network
  \/ \E q \in Slots : LoseAnswer(q)
  \/ \E s \in Sids : Expire(s)

Spec == Init /\ [][Next]_vars

(***************************************************************************)
(* Requests are handled and answered, or lost, in the end; the prompt of   *)
(* the device, the version check and the download have timeouts, and the   *)
(* router gets where it goes.  Nothing else is assumed of the user.        *)
(***************************************************************************)
FairSpec == Spec /\ WF_vars(Network) /\ WF_vars(Tab \/ PromptFails)

-----------------------------------------------------------------------------
(* Properties.                                                             *)

\* The account the API serves is the one on screen: whatever answers come
\* late, each setting a cookie or signing out, the session of the cookie is
\* over or is the shown user's, but for one that the user's sign-out did not
\* end: a renewal overtook it, the deletion failed, or the request that signed
\* the tab out carried the cookie of another session.
ShownIsServed ==
  (shown # NoOne /\ IsLive(cookie)) =>
    session[cookie].owner = shown \/ cookie \in revived \cup outlived

\* "only the latest login is valid (single-session)" (Authenticator.complete):
\* two live sessions of one account never come from logins alone.
OneLiveSession ==
  \A s, t \in Sids \ revived :
    session[s].live /\ session[t].live /\ session[s].owner = session[t].owner => s = t

\* A username that is taken can sign in: its passkey is on the device, and no
\* order of logins stores a count that its next signature would not pass;
\* an answer lost after /register/complete or /login/complete loses nobody.
RegisteredCanSignIn ==
  \A u \in Users : account[u] # 0 =>
    /\ passkey[account[u]].user = u
    /\ LET i == account[u] IN
       CountAccepted(IF i \in Counting THEN passkey[i].count + 1 ELSE 0, signCount[i])

PageFits ==
  /\ page \in Guarded => shown # NoOne
  /\ page = "auth" => shown = NoOne

\* The page follows the user: nobody stays on a guarded page signed out, nor
\* on the sign-in page signed in, whichever of the flow, the interceptor, the
\* guards and signOut navigates last.
PageFollowsUser == []<>PageFits

=============================================================================
