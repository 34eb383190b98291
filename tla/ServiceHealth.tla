--------------------------- MODULE ServiceHealth ----------------------------
(***************************************************************************)
(* The life of the API's process and what it knows of the services it      *)
(* needs: the connection to the database with its retries, the checks at   *)
(* start-up, of which only the first may end the process, the reports that *)
(* come later, the alerts, the cached prices, the cron job that watches    *)
(* the balances, and the shutdown.                                         *)
(*                                                                         *)
(* What a service answers is a choice of the environment at each answer.   *)
(***************************************************************************)
EXTENDS Naturals, FiniteSets, HealthRegistry

CONSTANTS
  External,     \* components checked at start-up besides the database
  Probes,       \* requests to /health and /health/ready under way at once
  Readers,      \* requests for prices under way at once
  MaxRetries,   \* startupMaxRetries
  TTL,          \* CACHE_TTL_MS, in ticks
  MaxTime       \* bound on the clock

ServiceHealthAssumption ==
  /\ External \subseteq {"starknet-rpc", "avnu-paymaster", "atomiq", "avnu-swap", "coingecko-price"}
  /\ MaxRetries \in Nat \ {0} /\ TTL \in Nat \ {0} /\ MaxTime \in Nat

Components == External \cup {"database"}

VARIABLES
  process,   \* how far the process is
  attempt,   \* of connecting to the database
  registry,
  checking,  \* start-up checks without an answer
  probe,     \* requests that wait for their SELECT 1
  prices,    \* when the cached prices came, and cachedAt
  reader,    \* requests that wait for prices
  cron,      \* the balance check
  now,
  told,      \* history: the last alert fired about each component
  outage,    \* history: when the outage of each component was first reported
  served     \* history: the prices last served

memory == <<attempt, registry, checking, probe, prices, reader, cron>>
vars == <<process, memory, now, told, outage, served>>

Starting == {"connecting", "pinging", "checking"}
Live == process \in {"checking", "serving", "stopping"}

NoPrices == [got |-> 0, at |-> 0, any |-> FALSE]
NothingServed == [age |-> 0, refused |-> FALSE]

TypeOK ==
  /\ process \in Starting \cup {"off", "serving", "stopping"}
  /\ attempt \in 0 .. MaxRetries
  /\ registry \in [Components -> ComponentHealth(0 .. MaxTime)]
  /\ checking \subseteq External
  /\ probe \in [Probes -> BOOLEAN]
  /\ prices \in [got : 0 .. MaxTime, at : 0 .. MaxTime, any : BOOLEAN]
  /\ reader \in [Readers -> {"idle", "fetching", "refreshed", "refused"}]
  /\ cron \in {"idle", "credits", "treasury"}
  /\ now \in 0 .. MaxTime
  /\ told \in [Components -> {"healthy", "down"}]
  /\ outage \in [Components -> 0 .. MaxTime]
  /\ served \in [age : 0 .. MaxTime, refused : BOOLEAN]

Init ==
  /\ process = "off" /\ attempt = 0 /\ checking = {} /\ prices = NoPrices /\ cron = "idle"
  /\ registry = [c \in Components |-> Declared]
  /\ probe = [p \in Probes |-> FALSE] /\ reader = [r \in Readers |-> "idle"]
  /\ now = 0 /\ served = NothingServed
  /\ told = [c \in Components |-> "healthy"] /\ outage = [c \in Components |-> 0]

-----------------------------------------------------------------------------
(* Reports and alerts.                                                     *)

\* Nothing is kept when the process exits.
Exits ==
  /\ process' = "off" /\ attempt' = 0 /\ checking' = {} /\ prices' = NoPrices /\ cron' = "idle"
  /\ registry' = [c \in Components |-> Declared]
  /\ probe' = [p \in Probes |-> FALSE] /\ reader' = [r \in Readers |-> "idle"]
  /\ outage' = [c \in Components |-> 0] /\ served' = NothingServed

\* The listener fires an alert and does not wait for it.
Tells(c, next) ==
  /\ told' = IF IsTransition(registry[c], next) THEN [told EXCEPT ![c] = next.status] ELSE told
  /\ outage' = IF registry[c].status = "healthy" /\ next.status = "down"
               THEN [outage EXCEPT ![c] = now] ELSE outage

Reports(c, next) == registry' = [registry EXCEPT ![c] = next] /\ Tells(c, next)

Healthy(c) == Reports(c, ReportHealthy(registry[c]))
Down(c) == Reports(c, ReportDown(registry[c], now))

-----------------------------------------------------------------------------
(* Start-up.                                                               *)

Start ==
  /\ process = "off"
  /\ process' = "connecting"
  /\ UNCHANGED <<memory, now, told, outage, served>>

\* SELECT 1 answers and the table of transactions is there.
Connected ==
  /\ process = "connecting"
  /\ process' = "pinging"
  /\ UNCHANGED <<memory, now, told, outage, served>>

\* Tried again after a delay, MaxRetries times in all.
ConnectionFails ==
  /\ process = "connecting"
  /\ IF attempt + 1 < MaxRetries
     THEN /\ attempt' = attempt + 1
          /\ UNCHANGED <<process, registry, checking, probe, prices, reader, cron, outage, served>>
     ELSE Exits
  /\ UNCHANGED <<now, told>>

TableMissing ==
  /\ process = "connecting"
  /\ Exits
  /\ UNCHANGED <<now, told>>

\* The database is pinged again; then every other check starts at once.
PingDatabaseAtStartup ==
  /\ process = "pinging"
  /\ process' = "checking" /\ checking' = External
  /\ Healthy("database")
  /\ UNCHANGED <<attempt, probe, prices, reader, cron, now, served>>

\* The alert is fired, and process.exit does not wait for it.
PingFails ==
  /\ process = "pinging"
  /\ Exits
  /\ told' = [told EXCEPT !["database"] = "down"]
  /\ now' = now

\* What the check of each service may find.
StarknetFinds == {"healthy"} \cup Sanitized
PaymasterFinds == {"healthy", "credits", "html_response"} \cup Sanitized
AtomiqFinds == {"healthy", "cloudflare_tunnel", "html_response"} \cup Sanitized
DexFinds == {"healthy", "cloudflare_tunnel"} \cup Sanitized
PriceFinds == {"healthy", "html_response"} \cup Sanitized

Finds(c) ==
  CASE c = "starknet-rpc" -> StarknetFinds
    [] c = "avnu-paymaster" -> PaymasterFinds
    [] c = "atomiq" -> AtomiqFinds
    [] c = "avnu-swap" -> DexFinds
    [] c = "coingecko-price" -> PriceFinds

\* The gateway of Atomiq reports no error but those of the infrastructure.
Ignored(c, found) == c = "atomiq" /\ found # "healthy" /\ ~IsInfraFailure(found)

\* In its own time, before the start-up has given up on it or after.
CheckHealth(c) ==
  /\ Live /\ c \in checking
  /\ checking' = checking \ {c}
  /\ \E found \in Finds(c) :
       \/ found = "healthy" /\ Healthy(c)
       \/ found # "healthy" /\ ~Ignored(c, found) /\ Down(c)
       \/ Ignored(c, found) /\ UNCHANGED <<registry, told, outage>>
  /\ UNCHANGED <<process, attempt, probe, prices, reader, cron, now, served>>

AllSettled ==
  /\ process = "checking" /\ checking = {}
  /\ process' = "serving"
  /\ UNCHANGED <<memory, now, told, outage, served>>

\* The race with the timer: what is not answered goes on.
StartupTimeout ==
  /\ process = "checking"
  /\ process' = "serving"
  /\ UNCHANGED <<memory, now, told, outage, served>>

-----------------------------------------------------------------------------
(* Serving.                                                                *)

\* An operation of the gateway of Atomiq, the only one whose operations
\* report.
OperationReports ==
  /\ process = "serving" /\ "atomiq" \in External
  /\ Healthy("atomiq") \/ Down("atomiq")
  /\ UNCHANGED <<process, attempt, checking, probe, prices, reader, cron, now, served>>

Probe(p) ==
  /\ process = "serving" /\ ~probe[p]
  /\ probe' = [probe EXCEPT ![p] = TRUE]
  /\ UNCHANGED <<process, attempt, registry, checking, prices, reader, cron, now, told, outage, served>>

\* /health answers 503 if its own ping fails, whatever the others are.
PingDatabase(p) ==
  /\ Live /\ probe[p]
  /\ probe' = [probe EXCEPT ![p] = FALSE]
  /\ \/ Down("database")
     \/ process = "serving" /\ Healthy("database")
  /\ UNCHANGED <<process, attempt, checking, prices, reader, cron, now, served>>

ShouldRefreshCache == ~prices.any \/ now - prices.at >= TTL

\* A request is answered with what is cached now, if anything is.
Serves(refused) ==
  served' = IF prices.any THEN [age |-> now - prices.got, refused |-> refused] ELSE served

\* Faulty: the cache is marked as fresh when the refresh begins.
GetPricesMarked(r) ==
  /\ process = "serving" /\ reader[r] = "idle"
  /\ IF ShouldRefreshCache
     THEN /\ reader' = [reader EXCEPT ![r] = "fetching"] /\ served' = served
          /\ prices' = [prices EXCEPT !.at = now]
     ELSE Serves(FALSE) /\ reader' = reader /\ prices' = prices
  /\ UNCHANGED <<process, attempt, registry, checking, probe, cron, now, told, outage>>

\* getPrices answers at once, or asks CoinGecko, however many others do.
GetPrices(r) ==
  /\ process = "serving" /\ reader[r] = "idle"
  /\ IF ShouldRefreshCache
     THEN reader' = [reader EXCEPT ![r] = "fetching"] /\ served' = served
     ELSE Serves(FALSE) /\ reader' = reader
  /\ UNCHANGED <<process, attempt, registry, checking, probe, prices, cron, now, told, outage>>

RefreshCache(r) ==
  /\ Live /\ reader[r] = "fetching"
  /\ reader' = [reader EXCEPT ![r] = "refreshed"]
  /\ prices' = [got |-> now, at |-> now, any |-> TRUE]
  /\ UNCHANGED <<process, attempt, registry, checking, probe, cron, now, told, outage, served>>

RefreshFails(r) ==
  /\ Live /\ reader[r] = "fetching"
  /\ reader' = [reader EXCEPT ![r] = "refused"]
  /\ UNCHANGED <<process, attempt, registry, checking, probe, prices, cron, now, told, outage, served>>

\* No time passes between an answer of CoinGecko and ours; others' answers
\* may come in between.
AnswerPrices(r) ==
  /\ reader[r] \in {"refreshed", "refused"}
  /\ Serves(reader[r] = "refused")
  /\ reader' = [reader EXCEPT ![r] = "idle"]
  /\ UNCHANGED <<process, attempt, registry, checking, probe, prices, cron, now, told, outage>>

-----------------------------------------------------------------------------
(* The cron job that watches the balances.                                 *)

BalanceCheck ==
  /\ process = "serving" /\ cron = "idle"
  /\ cron' = "credits"
  /\ UNCHANGED <<process, attempt, registry, checking, probe, prices, reader, now, told, outage, served>>

\* The credits are read, and low or not, or the read or the message fails.
CheckAvnuCredits ==
  /\ Live /\ cron = "credits"
  /\ cron' = "treasury"
  /\ UNCHANGED <<process, attempt, registry, checking, probe, prices, reader, now, told, outage, served>>

CheckTreasuryBalance ==
  /\ Live /\ cron = "treasury"
  /\ cron' = "idle"
  /\ UNCHANGED <<process, attempt, registry, checking, probe, prices, reader, now, told, outage, served>>

-----------------------------------------------------------------------------
(* The end of the process and time.                                        *)

\* SIGTERM or SIGINT: the pool is closed under the requests still there.
Shutdown ==
  /\ process = "serving"
  /\ process' = "stopping"
  /\ UNCHANGED <<memory, now, told, outage, served>>

Exit ==
  /\ process = "stopping"
  /\ Exits
  /\ UNCHANGED <<now, told>>

Crash ==
  /\ process # "off"
  /\ Exits
  /\ UNCHANGED <<now, told>>

Tick ==
  /\ now < MaxTime
  /\ \A r \in Readers : reader[r] \notin {"refreshed", "refused"}
  /\ now' = now + 1
  /\ UNCHANGED <<process, memory, told, outage, served>>

Next ==
  \/ Start \/ Connected \/ ConnectionFails \/ TableMissing
  \/ PingDatabaseAtStartup \/ PingFails \/ AllSettled \/ StartupTimeout
  \/ \E c \in External : CheckHealth(c)
  \/ OperationReports
  \/ \E p \in Probes : Probe(p) \/ PingDatabase(p)
  \/ \E r \in Readers : GetPrices(r) \/ RefreshCache(r) \/ RefreshFails(r) \/ AnswerPrices(r)
  \/ BalanceCheck \/ CheckAvnuCredits \/ CheckTreasuryBalance
  \/ Shutdown \/ Exit \/ Crash \/ Tick

Spec == Init /\ [][Next]_vars

-----------------------------------------------------------------------------
(* Properties.                                                             *)

\* Who reads the alerts knows of each component that is down, for it is the
\* last thing fired about it, and since when: the first report of the
\* outage, whatever late checks and other requests have reported since.
OutageIsTold ==
  process # "off" =>
    \A c \in Components :
      registry[c].status = "down" =>
        told[c] = "down" /\ registry[c].downSince = outage[c]

\* Prices that have expired are served only to a request whose own attempt
\* to refresh them has failed.
StaleOnlyIfRefused == served.age >= TTL => served.refused

=============================================================================
