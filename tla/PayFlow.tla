------------------------------- MODULE PayFlow -------------------------------
(* The payment screen of the front end with the part of the API it talks to:
   a scan is parsed and built in the background, the user may type an amount or
   a description, confirms, signs with the passkey, and the signed build is
   executed.  The user may scan again at any moment, also while an earlier
   confirmation is still being built, signed or executed.  What the API does
   with a signed build is modelled in Payments; here it is consumed and either
   pays or fails, and its answer may be lost on the way back.                *)
EXTENDS Amounts, FiniteSets

CONSTANTS
  Scans,              \* the data the user may scan or paste
  Invoices, BitcoinAddresses, StarknetAddresses,  \* destinations of each kind
  Sender,             \* the account's own Starknet address
  Treasury,           \* where donations go
  TypedAmounts,       \* the numbers the user may type
  Quotes,             \* what the liquidity provider may ask for a swap, in satoshi
  MinSwap, MaxSwap,   \* the limits of a swap, in millisatoshi
  Texts, NoText,      \* descriptions
  Confirmations,      \* confirmations that may be in progress together
  MaxBuilds,          \* bound: builds the API makes
  MaxScans,           \* bound: scans
  NoData, NoPayment

Kinds == {"lightning", "bitcoin", "starknet"}

Destinations == Invoices \cup BitcoinAddresses \cup StarknetAddresses

\* A payment payload: its URI scheme ("none" for a bare string), the destination,
\* the amount in millisatoshi (0 if it names none, Malformed if it cannot be read),
\* the note it carries and whether it names the WBTC token.
Data == [scheme : Kinds \cup {"none", "other"}, to : Destinations,
         amount : Nat \cup {Malformed}, note : Texts \cup {NoText}, token : BOOLEAN]

PayFlowAssumption ==
  /\ Scans \subseteq Data
  /\ {Sender, Treasury} \subseteq StarknetAddresses
  /\ {BimRate, LpRate, FiatRate, MaxBuilds} \cup TypedAmounts \cup Quotes \subseteq Nat

VARIABLES
  raw,           \* rawData: the payload the next build is asked for
  description,   \* the description the next build is asked with
  cached,        \* cachedBuild: the number of a build, or 0
  flow,          \* flowSubscription: the parse or automatic build in flight
  parsed,        \* parsedPayment: the payment on screen
  typed,         \* editableAmount: the amount in the field of the page
  isBuilding, isProcessing,
  runs,          \* the executeAndNavigate and sendDonation calls in progress
  builds,        \* what each build made by the API pays
  executed,      \* the builds handed to /execute: no longer in paymentBuildCache
  scans          \* scans made (bounded)

front == <<raw, description, cached, flow, parsed, typed, isBuilding, isProcessing>>
server == <<builds, executed>>
vars == <<front, runs, server, scans>>

NoFlow == [at |-> "none", data |-> NoData]

NoAsk == [to |-> Treasury, amount |-> 0, total |-> 0, text |-> NoText]

Donation(sats) ==
  [at |-> "donating", data |-> NoData,
   asked |-> [to |-> Treasury, amount |-> sats, total |-> 0, text |-> NoText],
   build |-> 0, fromCache |-> FALSE]

\* Confirmation h, with its build before the user.
ToSign(h, build) ==
  [at |-> "signing", data |-> h.data, asked |-> h.asked, build |-> build,
   fromCache |-> h.fromCache]

Idle == [at |-> "idle", data |-> NoData, asked |-> NoAsk, build |-> 0, fromCache |-> FALSE]

(* ---- the parser ---- *)

\* The network of a payload: invoices first, then the schemes, then bare addresses.
Network(d) ==
  IF d.to \in Invoices /\ d.scheme \in {"lightning", "none"} THEN "lightning"
  ELSE IF d.scheme \in {"bitcoin", "starknet"} THEN d.scheme
  ELSE IF d.scheme = "none" /\ d.to \in StarknetAddresses THEN "starknet"
  ELSE IF d.scheme = "none" /\ d.to \in BitcoinAddresses THEN "bitcoin"
  ELSE "unsupported"

AddressesOf == [lightning |-> Invoices, bitcoin |-> BitcoinAddresses,
                starknet |-> StarknetAddresses, unsupported |-> {}]

\* A starknet: URI must name the token; a bare address gets it.
TokenIsAccepted(d) ==
  Network(d) = "starknet" => (d.token \/ d.scheme = "none")

Parses(d) ==
  d.to \in AddressesOf[Network(d)] /\ TokenIsAccepted(d) /\ d.amount # Malformed

\* What /parse and /build answer, in whole satoshi.
Payment(d, fee) ==
  [network |-> Network(d), to |-> d.to, amount |-> GetSat(d.amount), fee |-> GetSat(fee),
   editable |-> d.amount = 0, note |-> d.note]

Prepare(d) == Payment(d, EstimatedFee(Network(d), d.amount))

(* ---- the builder ---- *)

StarknetAccepted(d) == d.amount > 0 /\ d.to # Sender

WithinLimits(mSat) == mSat \in MinSwap..MaxSwap

\* createStarknetToLightning: an invoice without an amount is refused, and the
\* limits are those of what the provider asks for, not of the invoice.
LightningAccepted(d, quote) ==
  d.amount > 0 /\ WithinLimits(LightningInput(d.amount, quote))

\* createStarknetToBitcoin: the limits are those of the amount to be received.
BitcoinAccepted(d) == d.amount > 0 /\ WithinLimits(d.amount)

\* What build and prepareCalls let through, for a quote of the provider.
Buildable(d, quote) ==
  /\ Parses(d)
  /\ \/ Network(d) = "starknet"  /\ StarknetAccepted(d)
     \/ Network(d) = "lightning" /\ LightningAccepted(d, quote)
     \/ Network(d) = "bitcoin"   /\ BitcoinAccepted(d)

\* The description a build is stored with: the user's, else the payload's, else "Sent".
TextOf(d, text) == IF text # NoText THEN text ELSE d.note

NewBuild == Cardinality(DOMAIN builds) + 1

\* The API makes a build and keeps it for /execute.
StoreBuild(build) ==
  /\ NewBuild <= MaxBuilds
  /\ builds' = [b \in DOMAIN builds \cup {NewBuild} |->
                  IF b = NewBuild THEN build ELSE builds[b]]
  /\ UNCHANGED executed

\* What the calls of a build are made for: the receiver and the amount asked, and
\* the total the account pays.
Build(d, quote, text) ==
  [to |-> d.to, amount |-> GetSat(d.amount),
   total |-> Paid(Network(d), d.amount, quote), text |-> text]

\* A donation has neither a fee nor a description of its own.
DonationBuild(sats) ==
  [to |-> Treasury, amount |-> sats, total |-> Transferred(OfSatoshi(sats)), text |-> NoText]

QuotesFor(d) == IF Network(d) = "starknet" THEN {0} ELSE Quotes

(* ---- scanning ---- *)

Init ==
  /\ raw = NoData /\ description = NoText /\ cached = 0
  /\ flow = NoFlow /\ parsed = NoPayment /\ typed = 0
  /\ isBuilding = FALSE /\ isProcessing = FALSE
  /\ runs = [r \in Confirmations |-> Idle]
  /\ builds = [b \in {} |-> NoAsk] /\ executed = {}
  /\ scans = 0

\* Faulty: a new scan keeps the build of the one before.
ParseKeepsBuild(d) ==
  /\ scans < MaxScans
  /\ scans' = scans + 1
  /\ raw' = d
  /\ parsed' = NoPayment
  /\ flow' = [at |-> "parsing", data |-> d]
  /\ isBuilding' = FALSE /\ isProcessing' = FALSE
  /\ UNCHANGED <<description, cached, typed, runs, server>>

\* parseAndNavigate: drops the flow of an earlier scan and asks for a parse.
ParseAndNavigate(d) ==
  /\ scans < MaxScans
  /\ scans' = scans + 1
  /\ raw' = d
  /\ cached' = 0
  /\ parsed' = NoPayment
  /\ flow' = [at |-> "parsing", data |-> d]
  /\ isBuilding' = FALSE /\ isProcessing' = FALSE
  /\ UNCHANGED <<description, typed, runs, server>>

\* The page shows a payment: an editable one starts from an empty amount.
ShowPayment(payment) ==
  /\ parsed' = payment
  /\ typed' = IF payment.editable THEN 0 ELSE typed

\* The answer of /parse: the payment is shown, and built unless its amount is to
\* be typed.
ParseAnswered ==
  /\ flow.at = "parsing" /\ Parses(flow.data)
  /\ LET payment == Prepare(flow.data) IN
       /\ ShowPayment(payment)
       /\ description' = payment.note
       /\ flow' = IF payment.editable THEN NoFlow ELSE [flow EXCEPT !.at = "building"]
       /\ isBuilding' = IF payment.editable THEN isBuilding ELSE TRUE
  /\ UNCHANGED <<raw, cached, isProcessing, runs, server, scans>>

\* A payload that is not a payment, or a failed request.
ParseFailed ==
  /\ flow.at = "parsing"
  /\ flow' = NoFlow
  /\ UNCHANGED <<raw, description, cached, parsed, typed, isBuilding, isProcessing,
                 runs, server, scans>>

\* The automatic build, asked without the user's description.
AutoBuilt ==
  /\ flow.at = "building"
  /\ \E q \in QuotesFor(flow.data) :
       /\ Buildable(flow.data, q)
       /\ StoreBuild(Build(flow.data, q, flow.data.note))
       /\ ShowPayment(Payment(flow.data,
                               QuotedFee(Network(flow.data), flow.data.amount, q)))
  /\ cached' = NewBuild
  /\ flow' = NoFlow /\ isBuilding' = FALSE
  /\ UNCHANGED <<raw, description, isProcessing, runs, scans>>

AutoBuildFailed ==
  /\ flow.at = "building"
  /\ flow' = NoFlow /\ isBuilding' = FALSE
  /\ UNCHANGED <<raw, description, cached, parsed, typed, isProcessing, runs, server, scans>>

(* ---- typing ---- *)

\* updatePaymentAmount: whatever the network, the payload becomes a bitcoin: URI.
BitcoinUri(to, sats) ==
  [scheme |-> "bitcoin", to |-> to, amount |-> ThroughBtcString(sats),
   note |-> NoText, token |-> FALSE]

\* The amount field: the number typed, in the currency shown, with or without rates.
FieldAmount(value, currency, ratesKnown) == InSat(value, currency, ratesKnown)

\* onAmountChange and updatePaymentAmount.
UpdatePaymentAmount(value, currency, ratesKnown) ==
  /\ parsed # NoPayment /\ parsed.editable
  /\ typed' = FieldAmount(value, currency, ratesKnown)
  /\ raw' = BitcoinUri(parsed.to, typed')
  /\ cached' = 0
  /\ UNCHANGED <<description, flow, parsed, isBuilding, isProcessing, runs, server, scans>>

SetDescription(text) ==
  /\ parsed # NoPayment
  /\ text # description
  /\ description' = text
  /\ cached' = 0
  /\ UNCHANGED <<raw, flow, parsed, typed, isBuilding, isProcessing, runs, server, scans>>

(* ---- confirming, signing, executing ---- *)

\* paymentAvailable, for a balance that covers the payment.
PaymentAvailable ==
  /\ parsed # NoPayment
  /\ IF parsed.editable THEN typed > 0 ELSE ~isBuilding

\* What the user agrees to: the receiver, the amount and the fee on the page.
OnScreen ==
  LET sats == IF parsed.editable THEN typed ELSE parsed.amount IN
  [to |-> parsed.to, amount |-> sats, total |-> sats + parsed.fee, text |-> description]

\* The button of the page, and confirm: nothing happens without a payload.
ConfirmEnabled == ~isProcessing /\ PaymentAvailable /\ raw # NoData

\* executeAndNavigate: a cached build is signed at once, otherwise one is asked for.
Confirm(r) ==
  /\ runs[r].at = "idle" /\ ConfirmEnabled
  /\ isProcessing' = TRUE
  /\ runs' = [runs EXCEPT ![r] =
       [at |-> IF cached # 0 THEN "signing" ELSE "building", data |-> raw,
        asked |-> OnScreen, build |-> cached, fromCache |-> cached # 0]]
  /\ UNCHANGED <<raw, description, cached, flow, parsed, typed, isBuilding, server, scans>>

\* sendDonation of the settings page: its own build, no state of the payment page.
Donate(r, amount) ==
  /\ runs[r].at = "idle"
  /\ runs' = [runs EXCEPT ![r] = Donation(amount)]
  /\ UNCHANGED <<front, server, scans>>

DonationBuilt(r) ==
  /\ runs[r].at = "donating"
  /\ StoreBuild(DonationBuild(runs[r].asked.amount))
  /\ runs' = [runs EXCEPT ![r] = ToSign(@, NewBuild)]
  /\ UNCHANGED <<front, scans>>

\* The build of a confirmation: for the payload and description of that moment.
RunBuilt(r) ==
  LET d == runs[r].data IN
  /\ runs[r].at = "building"
  /\ \E q \in QuotesFor(d) :
       Buildable(d, q) /\ StoreBuild(Build(d, q, TextOf(d, runs[r].asked.text)))
  /\ runs' = [runs EXCEPT ![r] = ToSign(@, NewBuild)]
  /\ UNCHANGED <<front, scans>>

IsDonation(r) == runs[r].data = NoData

\* Faulty: no catch, a failed confirmation keeps its build for the retry.
GiveUpKeepingBuild(r) ==
  /\ runs' = [runs EXCEPT ![r] = Idle]
  /\ isProcessing' = IF IsDonation(r) THEN isProcessing ELSE FALSE
  /\ UNCHANGED <<raw, description, cached, flow, parsed, typed, isBuilding>>

\* The end of executeAndNavigate: its catch drops the cached build, its finally
\* frees the button.  A donation has neither.
GiveUp(r) ==
  /\ runs' = [runs EXCEPT ![r] = Idle]
  /\ IF IsDonation(r)
     THEN UNCHANGED front
     ELSE /\ cached' = 0 /\ isProcessing' = FALSE
          /\ UNCHANGED <<raw, description, flow, parsed, typed, isBuilding>>

RunFailed(r) ==
  /\ runs[r].at \in {"building", "donating", "signing"}
  /\ GiveUp(r)
  /\ UNCHANGED <<server, scans>>

Sign(r) ==
  /\ runs[r].at = "signing"
  /\ runs' = [runs EXCEPT ![r].at = "executing"]
  /\ UNCHANGED <<front, server, scans>>

\* The prompt returns no credential: the build stays cached.
Cancel(r) ==
  /\ runs[r].at = "signing"
  /\ runs' = [runs EXCEPT ![r] = Idle]
  /\ isProcessing' = IF IsDonation(r) THEN isProcessing ELSE FALSE
  /\ UNCHANGED <<raw, description, cached, flow, parsed, typed, isBuilding, server, scans>>

\* /execute takes the build out of the cache; the transaction may then fail.  A
\* build that was taken before is refused, and one that has expired fails.
Execute(r) ==
  /\ runs[r].at = "executing"
  /\ executed' = executed \cup {runs[r].build}
  /\ \E outcome \in {"paid", "failed"} :
       /\ outcome = "paid" => runs[r].build \notin executed
       /\ runs' = [runs EXCEPT ![r].at = outcome]
  /\ UNCHANGED <<front, builds, scans>>

\* handleSuccess: the payment is watched (SwapTracking, TransactionHistory) and
\* the success page opened; the button is free before that page is there.
Succeed(r) ==
  /\ runs[r].at = "paid"
  /\ IF IsDonation(r)
     THEN runs' = [runs EXCEPT ![r] = Idle] /\ UNCHANGED isProcessing
     ELSE runs' = [runs EXCEPT ![r].at = "leaving"] /\ isProcessing' = FALSE
  /\ UNCHANGED <<raw, description, cached, flow, parsed, typed, isBuilding, server, scans>>

\* A failure, or an answer that is lost although the payment was made.
AnswerLost(r) ==
  /\ runs[r].at \in {"paid", "failed"}
  /\ GiveUp(r)
  /\ UNCHANGED <<server, scans>>

\* The success page is open: the payment screen is cleared, whatever it shows now.
Leave(r) ==
  /\ runs[r].at = "leaving"
  /\ runs' = [runs EXCEPT ![r] = Idle]
  /\ parsed' = NoPayment /\ raw' = NoData /\ description' = NoText
  /\ cached' = 0 /\ isBuilding' = FALSE
  /\ UNCHANGED <<flow, typed, isProcessing, server, scans>>

Answer(r) ==
  \/ RunBuilt(r) \/ DonationBuilt(r) \/ RunFailed(r) \/ Sign(r) \/ Cancel(r)
  \/ Execute(r) \/ Succeed(r) \/ AnswerLost(r) \/ Leave(r)

User ==
  \/ \E d \in Scans : ParseAndNavigate(d)
  \/ \E v \in TypedAmounts, currency \in {"SAT", "fiat"}, ratesKnown \in BOOLEAN :
       UpdatePaymentAmount(v, currency, ratesKnown)
  \/ \E t \in Texts \cup {NoText} : SetDescription(t)
  \/ \E r \in Confirmations : Confirm(r) \/ \E a \in TypedAmounts : Donate(r, a)

Next ==
  \/ User
  \/ ParseAnswered \/ ParseFailed \/ AutoBuilt \/ AutoBuildFailed
  \/ \E r \in Confirmations : Answer(r)

Spec == Init /\ [][Next]_vars

(* ---- properties ---- *)

TypeOK ==
  /\ raw \in Data \cup {NoData}
  /\ description \in Texts \cup {NoText}
  /\ cached \in 0..MaxBuilds
  /\ flow.at \in {"none", "parsing", "building"}
  /\ isBuilding \in BOOLEAN /\ isProcessing \in BOOLEAN
  /\ executed \subseteq DOMAIN builds
  /\ \A r \in Confirmations : runs[r].build \in DOMAIN builds \cup {0}

\* What the passkey is asked to sign is what the page showed when the user
\* confirmed: the receiver and the amount; to the satoshi, the total when the build
\* was a cached one; the
\* description when the build was not cached, however many scans, answers and
\* other confirmations came in between.
SignedIsShown ==
  \A r \in Confirmations : runs[r].build # 0 =>
    LET run == runs[r]
        build == builds[run.build] IN
    /\ build.to = run.asked.to /\ build.amount = run.asked.amount
    /\ run.fromCache => build.total - run.asked.total \in {0, 1}
    /\ ~run.fromCache => run.asked.text \in {NoText, build.text}

\* A retry never starts from a build the API has already consumed: a cached build
\* was not handed to /execute, unless the confirmation that did so is still under
\* way.
CachedIsUsable ==
  cached \in executed =>
    \E r \in Confirmations :
      runs[r].build = cached /\ runs[r].at \in {"executing", "paid", "failed", "leaving"}

=============================================================================
