# TLA+ models of BIM

BIM is a self-custodial Bitcoin wallet on Starknet: an Angular front end, a
Hono API, an Apibara indexer and a PostgreSQL database, with Atomiq doing the
swaps between Lightning, Bitcoin and Starknet, AVNU sponsoring transactions and
WebAuthn passkeys as account keys. This directory holds TLA+ models of its
control logic, the TLC configurations that check them, and TLAPS proofs of the
properties that matter most. `PROJECT.json` lists the runs, the code each
definition models, the hazards of the code and where code and documentation
disagree.

To check a module: `tlc -config SwapSyncBitcoin.cfg MCSwapSync`. To check the
proofs of one: `tlapm SwapSyncProofs.tla`. The modules with proofs are
`SwapSyncProofs`, `SwapMonitorProofs` (the monitor and the indexer),
`AccountsProofs`, `PaymentsProofs`, `PayFlowProofs`, `SessionProofs`, `ApiProofs`
(rows, errors, health and prices) and `PartsProofs` (settings, receives, gateway
and tabs).

## The system

| Component | State it keeps | Operations | Talks to |
|---|---|---|---|
| Swap services (`packages/domain/src/swap`) | rows of `bim_swaps` | create the four kinds of swap, complete a Bitcoin swap, sync a status, record a claim attempt | Atomiq gateway, swap repository |
| `SwapMonitor` (`apps/api/src/monitoring`) | timer, `running`, `iterating`, idle and keepalive counts | start, ensureRunning, stop, one iteration over the active swaps, auto-claim | swap services, Atomiq gateway, its own public URL |
| Atomiq gateway (`packages/atomiq`) | the SDK instance, the SDK's own storage in PostgreSQL | quote, status, wait for the commit, claim, refund the bounty, limits, health | Atomiq SDK, Starknet, health registry |
| Payments (`packages/domain/src/payment`) | two in-memory build caches with a five minute life | parse, prepare, build, execute, receive, commit, donate | swap services, AVNU paymaster, repositories |
| Accounts (`packages/domain/src/account`) | rows of `bim_accounts`: status, address, deployment hash | deploy, recover a stuck deployment, status, balance | paymaster, Starknet RPC |
| Authentication (`packages/domain/src/auth`) | challenges, sessions, sign counts | register, log in, validate a session, log out | WebAuthn gateway, repositories |
| Health and prices (`packages/domain/src/health`, `currency`, `apps/api`) | health of each dependency, the last prices | check, report, read, alert, start, shut down | Slack, CoinGecko, every gateway |
| Users (`packages/domain/src/user`) | rows of `bim_user_settings`, pages of `bim_transactions` | read and update settings, list transactions | repositories |
| Indexer (`apps/indexer`) | rows of `bim_transactions`, an account cache | decode, match and insert the transfers of a block | Starknet stream, database |
| Front end (`apps/front`) | who is signed in, the stored swaps, active polls, a cached build, the list of transactions, preferences | sign up, in and out, pay, receive, poll, list, set | API, passkeys, local storage |
| CLI, infra, `lib`, `slack` | none worth a model | one-off commands, formatting | |

Requests, the monitor's timer and the indexer run concurrently over one
database. JavaScript runs a synchronous stretch to its end, so everything that
can interleave does so at an `await`: a step of a model is what happens between
two awaits. Nearly every write of the backend reads an entity, awaits something
and then saves the whole row, with no version check; most of what is hard about
this code comes from that, from the container being killed at any point, and
from Atomiq being an asynchronous source of truth that may also have forgotten
a swap. In the front end the same happens with answers: the user edits, leaves,
reloads and signs out while one is on its way, and most handlers of an answer do
not ask whether it is still wanted.

What makes each component correct:

* **Swap status**: a status the backend treats as final is final at Atomiq too;
  a stale write may take a row back but not settle a swap; a Bitcoin swap is paid
  only with its deposit address; a funded forward swap is claimed while the monitor
  runs. (That it is not claimed again within the cooldown, that a final row stays
  and that a committed swap is always tracked are said and not so, see below.)
* **Monitor**: one iteration at a time, one interval at a time, no active swap
  starved, no active swap left behind when it stops.
* **Atomiq gateway**: an operation ends; a bounty is refunded once and only if it
  was the backend's claim that was spared.
* **Payments**: a build is executed at most once, by its owner, in time; what is
  signed is what the page showed, to the satoshi.
* **Accounts**: one deployment at a time, no deployed account shown otherwise; who
  waits for a deployment is told how it ended.
* **Authentication**: a challenge opens at most one session; a session that was
  deleted, and that no request had read before, stays deleted; the account served
  is the account shown.
* **Failures**: what the front end concludes from an HTTP status is true of the
  error that was thrown.
* **Health**: every outage, and its beginning, is known to who reads the alerts.
* **Users**: scrolling the history comes to its end; the row of settings stays
  consistent under concurrent writers.
* **Indexer**: a transaction that concerns a known account leaves a row in its
  history, with the whole amount of what it stands for.
* **Front end**: the stored swaps, and what is shown of them, follow the backend;
  a build is used only for the payment the user sees; a code on screen is for what
  the page says.

## The modules

Backend:

| Module | What it models |
|---|---|
| `AtomiqStates` | the states of the Atomiq SDK for each direction, how they move (`AtomiqSteps`, external) and how `atomiq-state-mapping.ts` and `syncWithAtomiq` transcribe them (`TranscribedStatus`) |
| `SwapEntity` | the `Swap` entity: its status, deposit address and last claim attempt, `markAs`, `isTerminal`, `hasRecentClaimAttempt` |
| `SwapRows` | the columns of `bim_swaps`: the entity to a row, an upsert, a row to the entity, the selection of the active rows |
| `SwapSync` | the rows of `bim_swaps` and all that writes them: the creation of a swap, including the two-phase Bitcoin one, `SwapReader.fetchStatus` by clients and by the monitor, the claims of the monitor, its auto-stop and the requests that start it again or fail to, restarts |
| `SwapLifecycle` | the abstract specification: what the status of a swap may do as seen from outside, without rows, handlers or clocks: any status of its direction may follow any other, but a final one is how Atomiq has ended the swap, which it does once, or `lost` for one it has forgotten |
| `SwapMonitor` | the monitor as an object: timer, overlap guard, idle count, keepalive, auto-stop, `ensureRunning`, shutdown, restart |
| `AtomiqGateway` | the lazy initialization of the SDK shared by concurrent callers, its storage, creations, status, the aborted wait for a commit, claims that the watchtower may win, the refund of the bounty, health reports, restarts |
| `HealthRegistry` | the health of one dependency and which errors change it |
| `ServiceHealth` | the life of the API's process: connecting with retries, the checks at start-up and their race with a timeout, late reports, alerts, the health route, the price cache with its concurrent readers, the balance watch, shutdown |
| `Accounts` | one account: registration, login, sliding sessions, logout, the lock and the transaction of its deployment, the recovery of a stuck one |
| `Payments` | the build caches and the requests that fill and consume them; the commit of a Bitcoin receive up to its deposit address |
| `Indexer` | the WBTC indexer: blocks, the account cache with its SELECT and the stamp that follows, matching and merging, insertion, failures, restarts, reorganisations |
| `Failures` | an error from the paymaster's answer through gateway, service, error handler and rate limiter to the interceptors of the front end: classes, codes, HTTP statuses, what each concludes |

Front end, with the routes it talks to:

| Module | What it models |
|---|---|
| `Amounts` | millisatoshi, satoshi, the typed currency; the two fees and every rounding |
| `PayFlow` | the payment screen: scan, parse, automatic build, typed amount and description, confirmation, signature, execution, lost answers; on the API side parsing, limits, fees and the calls a build contains |
| `Receive` | the page to receive with its three networks, the invoice that is asked for, the two phases of a Bitcoin receive, what is put on screen to be paid |
| `SwapTracking` | `SwapPollingService` and `SwapStorageService`: polls, their limits and error counts, reloads, several tabs over one local storage; the rows they ask for move as `SwapLifecycle` says, taken back by stale saves included |
| `TransactionHistory` | paging, refreshing, the watch for a new transaction; the two queries behind a page, with rows inserted and removed in between. Only the sizes of pages are kept, since the query has no order among the rows of a block |
| `AccountSetup` | the page that starts the deployment of an account, again after a failure, and polls its outcome; the lock, the wait in the background and what a restart or a failing save makes of it |
| `Session` | one tab with its cookie jar and the passkeys of the device: sign-up, sign-in, sign-out, guards, interceptors, reloads; on the API side accounts and sliding sessions |
| `Settings` | languages and currencies: the page, other tabs that do the same, and the API, whose requests read the row and later write all of it |

Instances for TLC: `MCSwapSync` and `MCIndexer`; `MCServices` follows `SwapMonitor`
or `Indexer` in each behaviour; `MCPages` visits one of `PayFlow`, `Receive`,
`Settings`, `Payments` and `ServiceHealth`; `MCOutcomes` follows one of
`AtomiqGateway`, `SwapTracking`, `AccountSetup` and `TransactionHistory`. The parts
of an instance share no variable with one another, so that a disjunction of their
specifications says as much as a run for each.

How they fit together. `SwapMonitor` shows that iterations never overlap, which
is what allows `SwapSync` to have one monitor process. `ApiProofs` shows
that a save and the read that follows give the saved swap, which is what allows
`SwapSync` to replace a row. `Payments` ends a Bitcoin receive where `SwapSync`
takes the row over; `PayFlow` ends where `Payments` takes a signed build.
`Indexer!SaveAddress` is the lock of `Accounts`, and `AccountSetup` sees of
`Accounts` the status and whether there is a hash. `SwapSync` implements
`SwapLifecycle` under the mapping of the status to `row[s].status` and of the end to
what Atomiq's state is transcribed to once that is terminal (`EndOf`), for every
kind of swap and with clients, failures and restarts (`LifecycleSpec`, checked and
proved); `SwapTracking` builds on `SwapLifecycle` in its place. `AtomiqGateway` and `ServiceHealth` share
the transitions of `HealthRegistry`. `Failures` says which answers the front end
modules may see.

How state and actions correspond to the code:

* A handler (an HTTP request, an iteration, a background wait) is a record with
  a program counter and the entity it holds. `pc` names what it awaits; one
  action runs from one await to the next. `mem` is the entity read earlier, which
  a later save writes as a whole: the models never write a single field where the
  code saves a row.
* A statement of the database, or a transaction of it, is one step. What such a
  step does to a row is what drizzle does: `save` of an account leaves columns
  alone that are `undefined` in the entity, and writes back the empty hash that it
  has read after a lock (`Accounts!Saved`); the lock of a deployment and the use of a challenge are conditional updates, the insertion of
  indexer rows ignores conflicts.
* An external service answers with any outcome it can have, and the answer may
  be lost: the transaction was sent and the request fails all the same
  (`Accounts!Submit`, `Payments!Submit`, `PayFlow`, `AtomiqGateway`).
* A request of the front end is sent with what the tab has at that moment (its
  cookie, its offset), served in one or two steps, and heard late, out of order or
  never; a reload drops those who listen and not what was sent.
* Failures are actions: `AnswerFails`, `SaveFails`, `ClaimThrows`, `RecordFails`,
  `CreationFails`, `RequestFails`, `IterationFails`, `BlockFails`, `WaitThrows`.
  A restart (`Crash`, `Restart`, `ProcessEnds`) loses what is in memory and keeps
  the rows.
* Time is a counter: a cooldown, a life or a TTL is counted in its ticks. The
  intervals of timers are not: a timer may fire at any moment.
* Variables marked *history* in their module are not in the code; they record
  what a property needs to know of the past and no guard reads them.

Operators marked *Faulty* are plausible mistakes in the definition that follows
them. They are used by no specification; each is there to show that a property
breaks when the code has that mistake (`PROJECT.json`, "mutants").

## What is checked

| Run | Shows |
|---|---|
| `swap_sync_bitcoin` | a Bitcoin receive with the monitor, a polling client, failures and a restart: a terminal status, stored or about to be, is what Atomiq says (`TerminalIsTrue`); paid only with an address (`PaidHasAddress`); a settled row that nobody holds never changes (`SettledForGood`); unless the monitor has stopped, the row ends up in step with Atomiq (`EventuallyInStep`) and a funded swap is claimed (`FundedGetsClaimed`); the rows implement `SwapLifecycle` (`LifecycleSpec`) |
| `services` | the monitor: the auto-stop leaves only swaps it could not have seen (`OnlyUnseenLeftBehind`), active swaps are visited (`ActiveGetsVisited`), an idle monitor stops (`StopsWhenIdle`). The indexer: rows carry whole amounts after replays, conflicts and reorganisations (`AmountIsTotal`); a transaction leaves a row, of one type or the other, in the history of an account older than the life of the cache and the time of its SELECT (`NothingMissed`); it catches up (`CatchesUp`) |
| `accounts` | a challenge opens one session at most; no account is shown deployed without its contract, although stale entities are saved; deleted sessions stay deleted; an account stuck in `deploying` recovers when its user asks again |
| `session` | with late, lost and overtaking answers: the account the API serves is the one shown (`ShownIsServed`), logins alone leave one live session (`OneLiveSession`), a registered passkey can always sign in (`RegisteredCanSignIn`), the page follows the user (`PageFollowsUser`) |
| `pages` | receiving: what is on screen to be paid is saved, funded and followed (`ShownIsTracked`) and is for what the page says (`QrIsForPage`). Settings: the default currency stays among those preferred (`DefaultIsPreferred`), and the preferences shown are those saved (`SavedIsShown`). Paying: whatever is scanned, typed, cancelled or lost while confirmations are under way, what is signed is what was on the page at the confirmation (`SignedIsShown`), and no retry starts from a consumed build (`CachedIsUsable`). The routes: a build is executed once (`ExecutedOnce`), the row of a Bitcoin receive exists before its completion is asked for (`AskedIsRecorded`), an address is shown only for a funded and recorded escrow (`ShownIsEscrowed`). The process: each outage and its beginning is known to who reads the alerts (`OutageIsTold`), and expired prices are served only to a request that was refused fresh ones (`StaleOnlyIfRefused`) |
| `tracking` | a tab on a Bitcoin receive whose row may be taken back: what it holds for finished is how Atomiq has ended the swap (`FinalIsTrue`), announced once (`EndIsToldOnce`) and, while the row is final and the poll runs, shown (`EndIsShown`) |
| `outcomes` | a bounty is refunded once at most and only if the claim was the backend's (`BountyRefundedOnce`); every operation of the gateway ends (`OperationsEnd`); the set-up page shows how a deployment ended that somebody is still at (`OutcomeIsShown`); scrolling the history comes to its end unless the list is begun again for ever (`ScrollEnds`) |

Five runs end in a counterexample to what a comment or a test of the repository
says; `PROJECT.json` quotes them under "findings".

| Run | Refutes |
|---|---|
| `accounts_deploy` | that the lock of a deployment is owned by one request (`account-deployer.service.ts:61-62`, `:74`, `deployment.test.ts:272`): a second one takes a lock without a hash for a crashed deployment and marks it failed, and a third locks again, so that two deployments are submitted at once (`OneSubmission`) |
| `claim_cooldown` | that the recorded attempt prevents a double claim (`swap-reader.service.ts:78-80`): a status request that read the row before the attempt was recorded saves it without, and the monitor claims again within the cooldown (`ClaimsRespectCooldown`) |
| `terminal_stays` | that the guard of `fetchStatus` protects a terminal swap from regressing (`swap-reader.service.ts:121`): the guard is of the row as it was read, and the save that follows takes a row back that was settled meanwhile (`TerminalStays`) |
| `committed_tracked` | that the monitor tracks a Bitcoin swap whose creation fails after its commit is saved (`swap.ts:63-66`, `swap-coordinator.service.ts:214-218`): the monitor may have stopped by itself, and `POST /commit` then never calls `ensureRunning` (`CommittedIsTracked`) |
| `both_recorded` | that transactions are unique by hash, account and type (`transaction-matcher.ts:85`): the constraint has no type, so that an account that spends and receives in one transaction has one of the two rows (`BothRecorded`) |

### Bounds

* `swap_sync_bitcoin`, `claim_cooldown`, `terminal_stays`, `committed_tracked`: one
  swap, one client with one status request (none in `committed_tracked`), at most
  one restart, a cooldown and a clock of one tick. A swap's row is written by no
  handler of another swap, so swaps interact only through the order of one
  iteration, which `SwapMonitor` has. One status request and one monitor are enough
  for every pair of a stale and a fresh write; the cooldown is either over or not.
  A Bitcoin receive is the direction with all the writers (the completion too);
  what is checked of it is proved for every direction, liveness apart.
* `services`: two swaps, two invocations of `runIteration`, limits of two for the
  idle count and the keepalive, so that both are reached after a step below the
  limit; one restart. Swaps found active at the start stand for older ones. For the
  indexer, and in `both_recorded`: two accounts and a third party; blocks with
  several transfers of one account in one transaction, an account that pays and is
  paid, a transfer back, and an empty block; a chain of two blocks, a TTL of one tick
  and a clock of two; one failure or restart and one reorganisation.
* `accounts`: two concurrent requests, two challenges (the registration and one
  login), two sessions, one transaction, one crash; `accounts_deploy` has two
  transactions and no crash. A request is idle again when it ends, so that any
  number follow one another.
* `session`: two users and two passkeys, of which one counts its signatures; three
  sessions, two requests in flight, one sign-in or sign-up, by a new user or after
  the sign-out of one whose session the app found, and two further events (a
  request of a page, a reload, an expiry, a lost answer).
* `pages`: two invoices; two requests about the settings, which are enough for one to
  overwrite the other. Of payments, three things to scan (an invoice of 400.5
  satoshi, so that it is rounded; a Bitcoin address without an amount; a request of
  Starknet with one), a typed amount of 50 satoshi, rates of 3,000 and 4,000
  millionths, limits of 200 and 900 satoshi, so that the typed amount is refused for a
  swap and accepted for Starknet; two scans, two builds and two confirmations, so that
  each can overlap with, precede or follow the other. Of the routes, two concurrent
  requests, two accounts, two builds of which one is a receive, a life of one tick and
  a clock of two, so that builds are used early, at the limit and late; one restart.
  Of the process, one service besides the database, one request for health, two
  concurrent readers of prices, two attempts to connect.
* `tracking`: one tab, one stored swap, two consecutive errors. A second tab may tell
  an end twice and is left out (`SwapTracking!EndIsToldOnce` says so).
* `outcomes`: one request and the monitor over one Bitcoin swap with a bounty,
  which is the direction with all the operations (commit, address, claim, refund); two
  requests and two loads of the set-up page; pages of one row over at most two
  transactions, two requests for pages at once and one reorganisation.

`CHECK_DEADLOCK FALSE` is there because the bounds, and swaps that are all
settled, let a system come to rest.

### Fairness

* `SwapSync`: the monitor goes on with its iteration while it runs (weak fairness of
  its steps): `SwapMonitor` shows that a running monitor visits every active swap.
  It may stop by itself once it has read that no swap is active, and a request that
  fails, or is for a Bitcoin receive, does not start it again; `EventuallyInStep`
  and `FundedGetsClaimed` say nothing then, and `committed_tracked` shows what comes
  of it. Atomiq and the database answer the monitor sooner or later (strong fairness
  of `Answer` and `Save`, for each swap): an iteration comes every few seconds and
  errors are transient. A request that is under way ends, by success or failure.
  Nothing is assumed of Atomiq's own progress, of users or of restarts, which the
  bound limits.
* `SwapMonitor`: `setInterval` fires, awaits end (the ping has a timeout of 5 s,
  and errors are caught), and the database answers sooner or later.
* `Accounts`: awaits of a deployment end (`waitForTransaction` gives up by itself),
  and the database does not refuse the last save for ever. The recovery is started
  by the user: `NeverStuckDeploying` has that as its premise.
* `Indexer`: the stream delivers, the database answers, and a process that ended
  is started again by its container; failures are bounded.
* `AtomiqGateway`: each operation's await ends, with an answer or an error, except
  the wait for a commit, which only the abort after 90 s is known to end.
* `SwapTracking`: the interval of a poll fires, requests are served and answers
  arrive (strong fairness of `Tick`, `ServeStatus` and `HandleStatus` for each swap,
  since a new poll replaces the request in flight); a tab shows what it has been
  told. Nothing is assumed of swaps, users or reloads.
* `AccountSetup`: the interval fires, requests are served and heard, and a wait for a
  confirmation ends, unless a restart cuts it off. Nothing is assumed of the last
  save, which may fail, nor of the user.
* `TransactionHistory`: the user opens the page and goes on scrolling; a request is
  answered or fails, and a page is answered now and then (strong fairness of
  `LoadMore` and of some `LoadNextReturns`).
* `Session`: requests are served and answered, and the router gets where it goes;
  the prompt of the passkey ends. Nothing is assumed of the user.

## What is proved

The theorems hold for every number of swaps, requests, transactions, clients and
restarts, and every value of limits, rates and cooldowns. They assume what the
`ASSUME`s of the modules say of the constants, and, of Atomiq, what `AtomiqSteps`
says of its states. The assumptions: the markers for none differ from what they mark
the absence of; limits and bounds are in `Nat`, those of the idle count, the keepalive,
the connection attempts, the size of a page, the stored swaps, the consecutive errors
and the TTL of prices at least one; swaps, tabs and callers of the gateway are finite
in number; blocks are sequences of transfers between addresses, of amounts in `Nat`;
the language of the browser is one the app has.

* `SwapSyncProofs`, the states of Atomiq: **TerminalIsFinal**. A step of the SDK out of a state
  that is transcribed to a terminal status leads to a state with the same
  transcription. A case analysis over the four directions.
* `SwapSyncProofs`, the rows: **TypeCorrect**, **TerminalIsAlwaysTrue**,
  **PaidAlwaysHasAddress**. The invariant adds to the three that what a handler
  holds between `Answer` and `Save` was true when it was answered; that it is still
  true when it is saved rests on `TerminalIsFinal`. For the address: only the
  completion marks such a swap paid, and an entity that it holds has the address.
  **SettledIsForGood** is an action property: a process gets in flight only by
  reading an active row or as the creation of a swap that has no row, and it keeps
  the others out of reach until then. **RowsFollowLifecycle**, that the rows implement
  `SwapLifecycle`, has no premise: for any directions, clients, failures and restarts,
  each save is a step of `Move`, since what the saving handler holds is a status of the
  swap's direction (`Stored`) and, if final, true (`TerminalIsAlwaysTrue`); that Atomiq
  ends a swap once is `TerminalIsFinal`.
* `ApiProofs`, the columns: **StateIsReadBack**, **SavedIsReadBack**, **ChangedIsReadBack**,
  **ActiveRowsAreNotTerminal**. Facts about the mapping between the entity and the
  columns: what a method of `Swap` may change is among the columns an upsert writes,
  so that the row read afterwards is the entity saved; and the list of statuses in
  `findActive` is the complement of `isTerminal`. No run checks these; `SwapSync`
  rests on them.
* `SwapMonitorProofs`: **IterationsNeverOverlap**, **IntervalsNeverLeak**,
  **AutoStopLeavesOnlyUnseen** and the types. The invariant says that `iterating`
  is set exactly while one invocation is under way, that `timer` and `running`
  agree with the intervals of the runtime, and that an invocation that has read
  no swap has none active but the unseen.
* `SwapMonitorProofs`, the indexer, the other process that runs on its own:
  **IndexerHolds**, **AmountAlwaysTotal**, **NothingEverMissed**. The rows that
  `match` builds, transfer by transfer, add up to what the transfers of the same
  transaction and side add up to; the fields of the merged row are those of the first
  of the largest, which exists because a group is not empty. The invariant (which TLC
  found to hold on the indexer's instance before it was proved) adds that a transaction is
  in one block of the chain: a row that keeps another from being inserted is then of the
  same block, and no block behind the cursor is matched again. An account that is owed its
  rows is in the cache, because an account saved before the SELECT of the cache is; the
  stamp comes later, by the time the SELECT took (`lag`), and so does the age from which
  an account is owed. That a row of one type keeps out the one of the other is allowed:
  `NothingMissed` asks for one of the two. `Total` and `Matched` are recursive functions; what they compute is proved by the
  least number at which it could fail (`UpTo`, `Iterated`), not by the library's
  induction.
* `AccountsProofs`: **DeployedIsOnChainAlways**, **DeployedHasHashAlways** and the
  types. The invariant extends both to every entity a request holds, and says that
  a request that waits or checks holds the hash it waits for. The lock writes an
  empty hash, and the save of an entity read after it writes that back over one that
  was saved meanwhile; the proof shows that no save of `deployed` comes without its
  own. **ChallengeAlwaysOpensOneSession** has
  an invariant of its own: a consumed challenge is with one request only, which has
  not opened a session yet, or has opened its one session.
  **DeletedSessionAlwaysStaysDeleted** is an action property: a session comes to
  exist only by a login that creates it or by a request that had read it.
* `PaymentsProofs`: **EveryBuildExecutedOnce**, **EveryBuildExecutedInTime**,
  **AskedIsAlwaysRecorded**, **ShownIsAlwaysEscrowed** and the types. The invariant is
  that a build is in one place only: not yet generated, in the cache, held by one
  request, or gone; a build that was not consumed has no transaction; and each
  position of a request says what its transaction and row have reached.
* `PayFlowProofs`: **PaidIsShown** is arithmetic: for every amount, rate and quote,
  the account pays what the screen shows, or one satoshi more (the screen cuts the
  fractions of a satoshi of the amount and of the fee separately). **SignedIsAlwaysShown** and
  **CachedIsAlwaysUsable** need the invariant that ties the screen, the payload the
  next build is asked for, the cached build and what each confirmation was asked
  for: the payload follows the screen at every change, a build is kept only if it
  was made from the payload of that moment, and a change or a confirmation drops it.
* `ApiProofs`, the errors: what the front end concludes from an answer is so for every
  error of the domain and everything the paymaster may say: signed out exactly for
  errors of the session (**OnlySessionErrorsSignOut**), lost exactly for a swap
  that is not known (**LostMeansNotFound**), under way exactly for a refused
  deployment (**RefusedMeansUnderWay**), a bad key of the paymaster told
  (**KeyErrorIsTold**), a refused signature alerted (**RefusedSignatureIsAlerted**),
  and none of it depends on `instanceof` (**IdentityIsIrrelevant**). `Failures` has
  no behaviour and no run: the theorems quantify over all its inputs.
* `ApiProofs`, the process of the API: **HealthHolds**, **OutageAlwaysTold**,
  **StaleAlwaysRefused**. The invariant says of the registry that each component that is
  down has been told with the beginning of its outage, whichever order late reports come
  in, and of the prices that the cache is marked with the time they were got at and that
  a reader whose refresh has succeeded has those of now.
* `SessionProofs`: **SessionTypes**, **ShownAlwaysServed**, **OneSessionLives**,
  **RegisteredAlwaysSignsIn**. The invariant `Fits` has four parts. `RequestsFit`: the
  session a request carries was opened, for its user, and is over where it was refused;
  what a passkey made has a count it has reached. `TabFits`: the flow awaits the one
  request of its position, and the cookie, and whatever an answer may set as the cookie,
  is the session of who is on screen or one that is over. `CountsFit`: no stored sign
  count is above that of its passkey. `KeysFit`: the credential of an account is a passkey
  of its user.
* `PartsProofs`, settings: **SettingsHold**, **DefaultAlwaysPreferred**,
  **SavedAlwaysShown**. Updates write rows read before; each entity a request holds is
  a consistent row, so that whichever is written last leaves one. Unless the history says
  otherwise one change is under way at most, after the page has loaded, and page and row
  follow it.
* `PartsProofs`, receives: **ReceiveHolds**, **ShownAlwaysTracked**,
  **QrAlwaysForPage**. One answer is awaited at most, and none while an invoice is held;
  an answer may be paid (its swap is saved, and funded for Bitcoin) and is for the page
  unless the user has touched it since; the invoice that is held has been answered and
  its swap stored.
* `PartsProofs`, gateway: **GatewayHolds**, **BountyAlwaysRefundedOnce**. Only the
  monitor claims, one swap at a time; a claim on its way to a refund is the first of its
  swap that the monitor heard the end of, and it was the backend's or could not be
  verified; a bounty that was refunded is that of such a claim.
* `PartsProofs`, tabs: **TrackingHolds**, **FinalAlwaysTrue**, **EndAlwaysToldOnce**.
  A status on its way from the API, in a list or on the disk that says a swap has
  ended is how Atomiq has ended it for good, or `lost` for one it has forgotten. That is
  what `SwapLifecycle` promises of the row at the moment it is read, and since Atomiq
  ends a swap once it stays so through any delay, although the row itself may be taken
  back to an older status. For one tab: a swap whose end was told is polled no more, and
  the list of the tab and the one on the disk have it as ended, if at all. The list on
  the disk is rewritten by `filter`, which the model has as a recursive function
  (`SwapTracking!Filter`); what it keeps is proved by the least length at which it
  could fail.
The theorems about `Payments`, `PayFlow` and `ServiceHealth` are about any instance whose
constants meet the module's assumption, which their statements name.

Only model-checked: every liveness property, which is out of the prover's reach, and
with it `AccountSetup` and `TransactionHistory`, whose one property each is liveness.

## What is not modelled

* Addresses, invoices and the calls of a transaction are model values or the
  amounts they move; typed data, calldata and encodings are formats.
  `call-validator.ts`, which compares calldata, is therefore left out, and so is
  the purchase of STRK that may precede the commit of a Bitcoin receive
  (`maybePrependAutoSwapCalls`), a format that depends on a balance.
* WebAuthn verification, signatures and Atomiq's quotes are outcomes.
* Which rows a page of the history has: the query orders them by the time of their
  block alone, refreshes overlap with further pages, and reorganisations remove rows,
  so that rows may be skipped or repeated and no property says otherwise.
* The decoding of the two layouts of a transfer event, the balance of an account,
  and queries without a caller (`deleteExpiredBefore`, `findByStatus`,
  `findByDestinationAddress`, `findByDirection`).
* CLI, `lib`, `slack`, configuration, headers, descriptions and presentation: they
  keep no state that outlives a call.
* The wording of alerts and of the activity report.

## Where code and documents disagree, without a run

Met while modelling; the properties above say what does hold.

Swaps:

* `receive-bitcoin-swap-commit.md:155-158` lets the monitor recover the deposit
  address after a failed completion; no status call returns one.
* `receive-lightning.md:276-281` and `swap-monitor.md:205-206` space claims by the
  cooldown; a claim that throws after it was submitted is not recorded, and the
  next iteration submits again.
* `swap-monitor.md:89-101` says that `ensureRunning` restarts the monitor; during
  the last idle iteration it does nothing and the auto-stop follows.
* `completeBitcoinToStarknet` marks a receive `paid` when the escrow is open and no
  bitcoin has been sent (`swap-coordinator.service.ts:267`, `types.ts:41`).
* `receive-bitcoin.md:67,131-134` lets an expired Bitcoin receive become refunded;
  the mapping has no such status for its direction
  (`atomiq-state-mapping.ts:108-112`).
* A commit that reverts is not noticed by `BitcoinReceiver.commit`: the row is
  saved as committed and stays so until it expires.
* An initialization that fails and one that succeeds may cross
  (`atomiq.gateway.ts:194-207`); the abort after 90 s counts as an outage (`:437`).

Payments:

* Bitcoin payments are quoted by what is sent (`atomiq.gateway.ts:484`): the
  provider's fee comes out of the amount, the receiver gets less than the page
  shows, and the fee shown after a build is 0. The limits of Lightning are applied
  to the quoted amount, not to the invoice's.
* An automatic build keeps the default description when the user edits it and
  confirms at once (`pay.service.ts:87,115`); a new scan may cross with an execution
  (`:247-254`); after a lost answer to `/execute` the user pays a second time
  (`:176`); a typed amount is written as a `bitcoin:` URI for every network
  (`:109-113`), and below 100 satoshi as `5e-7`, which the parser refuses
  (`bip21.ts:17`, `amount.ts:22`).
* `Amount.convert` without rates keeps the number and changes the unit. `lpFee` may
  throw after the build was cached (`payment-builder.ts:74-77`).
* The STRK address is compared as a string by the auto-swap: one without its padding
  skips it.

Accounts, sessions and errors:

* The renewal of a session is an upsert, so a request that read a session before
  a logout brings it back (`session-validator.service.ts:57`), and every
  authenticated answer sets the cookie again (`auth.middleware.ts:45`): one that
  comes after a logout signs the user in again. A logout answers success when the
  deletion failed (`auth.routes.ts:176-180`).
* "Only the latest login is valid" (`authenticator.service.ts:135-136`) holds for
  sessions that no request was renewing.
* A 401 that comes late signs a new user out, and a late answer to a deployment
  puts one user's address on another's page. The timer of the set-up page goes on
  after the page (`account-setup.page.ts:48,67`). The poll goes on for ever when nobody
  is at the deployment any more (the owner of the lock is refused by the paymaster, a
  restart or a failing save cuts off the wait): `account-deployer.service.ts:96-98` lets
  the front end retry the `POST` after a crash, and the page only asks for the status.
* An account whose deployment times out is marked failed although its contract
  may be deployed, and the sign count of a passkey may go back when two logins, or
  a login and a deployment, save what they read.
* Error 163 in an HTTP error of a deployment becomes `EXTERNAL_SERVICE_ERROR`.
  `BUILD_EXPIRED`, `FORBIDDEN` and `RATE_LIMITED` have no translation in `en.json`
  and `fr.json`; `MISSING_PAYMENT_AMOUNT` exists in the front end only.

Pages, prices and the indexer:

* An answer to `createInvoice` that comes late is shown under another tab or amount
  (`receive.service.ts:59`); amounts that round to 0 are asked for; a lost answer to
  `/commit` leaves a swap in the database that the browser does not follow.
* Updates of the settings write the whole row and undo one another
  (`user-settings-updater.service.ts:22-48`); two first reads race into a unique
  violation; a failing `PUT` is ignored by the page.
* The history: overlapping loads show a page twice or, with a refresh that sets the
  offset back (`transaction.service.ts:88`), skip one; a count made before an insert may
  end the scrolling early; rows of one timestamp have no order
  (`drizzle-transaction.repository.ts:122`); an error leaves `isRefreshing` set.
* The polls: a 404 of something other than the API marks a swap lost; two tabs
  overwrite each other's stored swaps.
* A slow answer with older prices replaces newer ones; the connection pool is closed
  under probes in flight (`main.ts:35`); an alert may be lost at `process.exit(1)`.

## Plan

The order was: swap status (the most state, the most writers), the monitor that
drives it, accounts, payments and the indexer; then the front end with the routes
it talks to, the gateway, health and prices, and the errors that cross all of them.

Theorems still wanted: the types of `AccountSetup` and `TransactionHistory`, with what
their timers and requests agree on.

Instances still wanted: two Bitcoin swaps in `SwapTracking` with a second tab and
what then remains of `EndIsToldOnce`; two callers besides the monitor in
`AtomiqGateway`.
