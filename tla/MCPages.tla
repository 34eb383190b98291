------------------------------ MODULE MCPages ------------------------------
(***************************************************************************)
(* Parts of the system that share no state, model-checked in one run: the  *)
(* pages that pay, the page to receive, the settings, the routes of the    *)
(* API that build and execute, and its process with the health of what it  *)
(* needs.  A behaviour visits one of them, and the others stay closed.     *)
(***************************************************************************)
EXTENDS Integers, Sequences

CONSTANTS MaxAsks, NoInvoice,                             \* Receive
          MaxJobs, BrowserLang, NoRow,                    \* Settings
          Requests, Accounts, Builds, Receives,           \* Payments
          TTL, None, MaxTime, MaxRestarts,
          External, Probes, Readers, MaxRetries, Calm,     \* ServiceHealth
          Scans, Invoices, BitcoinAddresses, StarknetAddresses, Sender, Treasury,
          TypedAmounts, Quotes, MinSwap, MaxSwap, Texts, NoText, Confirmations,
          MaxBuilds, MaxScans, NoData, NoPayment,         \* PayFlow
          BimRate, LpRate, FiatRate,                      \* Amounts
          inv, btc, str, me, note                         \* destinations and a text

VARIABLES
  visit,
  onPage, network, amount, useUriPrefix, qr, sliding, isLoading, invoice, ask, row, tracked,
  touched,
  settings, currentLang, currentFiat, boot, loadingLangs, job, diverged,
  raw, description, cached, flow, parsed, typed, isBuilding, isProcessing, runs, builds,
  executed, scans,
  born, cache, req, tx, swapRow, now, restarts, sent, asked, shown,
  process, attempt, registry, checking, probe, prices, reader, cron, clock, alerted, outage, served

R == INSTANCE Receive
S == INSTANCE Settings
Pay == INSTANCE PayFlow
Routes == INSTANCE Payments WITH row <- swapRow
Health == INSTANCE ServiceHealth WITH now <- clock, told <- alerted, NoOutage <- Calm

ASSUME PagesAssumption ==
  /\ R!ReceiveAssumption /\ S!SettingsAssumption
  /\ Pay!PayFlowAssumption /\ Routes!PaymentsAssumption /\ Health!ServiceHealthAssumption

receive == <<onPage, network, amount, useUriPrefix, qr, sliding, isLoading, invoice, ask, row,
             tracked, touched>>
preferences == <<settings, currentLang, currentFiat, boot, loadingLangs, job, diverged>>
paying == <<raw, description, cached, flow, parsed, typed, isBuilding, isProcessing, runs,
            builds, executed, scans>>
building == <<born, cache, req, tx, swapRow, now, restarts, sent, asked, shown>>
api == <<process, attempt, registry, checking, probe, prices, reader, cron, clock, alerted,
            outage, served>>

all == <<visit, receive, preferences, paying, building, api>>

Init ==
  /\ visit \in {"pay", "receive", "settings", "routes", "process"}
  /\ Pay!Init /\ Routes!Init /\ Health!Init
  /\ IF visit = "receive" THEN R!Init ELSE R!Closed
  /\ IF visit = "settings" THEN S!Init ELSE S!Closed

VisitReceive ==
  visit = "receive" /\ R!Next /\ UNCHANGED <<visit, preferences, paying, building, api>>
VisitSettings ==
  visit = "settings" /\ S!Next /\ UNCHANGED <<visit, receive, paying, building, api>>
VisitPay ==
  visit = "pay" /\ Pay!Next /\ UNCHANGED <<visit, receive, preferences, building, api>>
VisitRoutes ==
  visit = "routes" /\ Routes!Next /\ UNCHANGED <<visit, receive, preferences, paying, api>>

VisitProcess ==
  visit = "process" /\ Health!Next /\ UNCHANGED <<visit, receive, preferences, paying, building>>

Next == VisitReceive \/ VisitSettings \/ VisitPay \/ VisitRoutes \/ VisitProcess

Spec == Init /\ [][Next]_all

TypeOK == R!TypeOK /\ S!TypeOK

-----------------------------------------------------------------------------
\* What is on screen to be paid is saved, funded and followed (Receive).
ShownIsTracked == R!ShownIsTracked

\* The code on screen is for what the page says (Receive).
QrIsForPage == R!QrIsForPage

\* The default currency is one of those preferred (Settings).
DefaultIsPreferred == S!DefaultIsPreferred

\* The preferences on screen are those saved (Settings).
SavedIsShown == S!SavedIsShown

\* What is signed is what was on the page at the confirmation (PayFlow).
SignedIsShown == Pay!SignedIsShown

\* A retry never starts from a consumed build (PayFlow).
CachedIsUsable == Pay!CachedIsUsable

\* A build is executed once (Payments).
ExecutedOnce == Routes!ExecutedOnce

\* An escrow is recorded before its completion is asked for (Payments).
AskedIsRecorded == Routes!AskedIsRecorded

\* A deposit address is that of a funded and recorded escrow (Payments).
ShownIsEscrowed == Routes!ShownIsEscrowed

\* The alerts tell of each outage and of its beginning (ServiceHealth).
OutageIsTold == Health!OutageIsTold

\* Expired prices are served only when fresh ones were refused (ServiceHealth).
StaleOnlyIfRefused == Health!StaleOnlyIfRefused

-----------------------------------------------------------------------------
(* One destination of each kind besides the sender's own address, and scans *)
(* with and without an amount.                                             *)

Scan(scheme, to, millisats, text, token) ==
  [scheme |-> scheme, to |-> to, amount |-> millisats, note |-> text, token |-> token]

MCInvoices == {inv}
MCBitcoin == {btc}
MCStarknet == {str, me}
MCTexts == {note}

MCScans ==
  {Scan("none", inv, 400500, note, FALSE),      \* an invoice
   Scan("none", btc, 0, NoText, FALSE),    \* a bare Bitcoin address
   Scan("starknet", str, 300000, NoText, TRUE)} \* a payment request
=============================================================================
