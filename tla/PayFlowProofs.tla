---------------------------- MODULE PayFlowProofs ----------------------------
(***************************************************************************)
(* Proofs about PayFlow and Amounts, for any payloads, amounts, rates,     *)
(* quotes, limits and any number of confirmations in progress.  The        *)
(* invariant ties together what the screen shows, the payload the next     *)
(* build is asked for, the build at hand and what each confirmation was    *)
(* asked for.                                                              *)
(***************************************************************************)
EXTENDS PayFlow, FiniteSetTheorems, TLAPS

(* ---- amounts ---- *)

LEMMA RatesAreWhole ==
  ASSUME PayFlowAssumption
  PROVE  BimRate \in Nat /\ LpRate \in Nat /\ FiatRate \in Nat
  BY DEF PayFlowAssumption

LEMMA FeeIsWhole ==
  ASSUME NEW mSat \in Int, NEW rate \in Nat
  PROVE  CalculateFee(mSat, rate) \in Int
<1>1. mSat * rate \in Int
  OBVIOUS
<1>. QED BY <1>1 DEF CalculateFee, Percentage, PERCENTAGE_PRECISION

LEMMA SatIsWhole == \A m \in Int : GetSat(m) \in Int /\ OfSatoshi(m) \in Int
  BY DEF GetSat, OfSatoshi, MSatPerSat

\* Flooring three parts of a sum and flooring the whole differ by one at most.
LEMMA SplitSatoshi ==
  ASSUME NEW mSat \in Int, NEW fee \in Int, NEW sats \in Int
  PROVE  GetSat(fee) + GetSat(OfSatoshi(sats))
           - (GetSat(mSat) + GetSat(fee + (OfSatoshi(sats) - mSat))) \in {0, 1}
  BY DEF GetSat, OfSatoshi, MSatPerSat

\* What the account pays for a build, against the amount and the fee the page shows
\* with it, for every amount, rate and quote: the fee of the provider is the
\* difference between the swap and the amount, and its fraction of a satoshi is the
\* only thing that may be lost (PaymentBuilder.build, Erc20CallFactory).
THEOREM PaidIsShown ==
  ASSUME PayFlowAssumption, NEW network, NEW mSat \in Int, NEW quote \in Int
  PROVE  Paid(network, mSat, quote)
           - (GetSat(mSat) + GetSat(QuotedFee(network, mSat, quote))) \in {0, 1}
<1>1. PICK fee \in Int : fee = CalculateFee(mSat, BimRate)
  BY FeeIsWhole, RatesAreWhole
<1>2. CASE network = "starknet"
  <2>1. /\ Paid(network, mSat, quote) = GetSat(fee) + GetSat(mSat)
        /\ QuotedFee(network, mSat, quote) = fee
    BY <1>1, <1>2 DEF Paid, QuotedFee, FeeCall, Transferred
  <2>2. GetSat(fee) + GetSat(mSat) - (GetSat(mSat) + GetSat(fee)) \in {0, 1}
    BY DEF GetSat, MSatPerSat
  <2>. QED BY <2>1, <2>2, SatIsWhole
<1>3. CASE network # "starknet"
  <2>1. PICK sats \in Int : SwapAmount(network, mSat, quote) = OfSatoshi(sats)
    <3>1. GetSat(mSat) \in Int /\ GetSat(mSat + MSatPerSat - 1) + quote \in Int
      BY DEF GetSat, MSatPerSat
    <3>. QED BY <3>1 DEF SwapAmount, LightningInput, BitcoinInput
  <2>2. /\ Paid(network, mSat, quote) = GetSat(fee) + GetSat(OfSatoshi(sats))
        /\ QuotedFee(network, mSat, quote) = fee + (OfSatoshi(sats) - mSat)
    BY <1>1, <1>3, <2>1 DEF Paid, QuotedFee, FeeCall
  <2>3. GetSat(fee) + GetSat(OfSatoshi(sats))
          - (GetSat(mSat) + GetSat(fee + (OfSatoshi(sats) - mSat))) \in {0, 1}
    BY <1>1, SplitSatoshi
  <2>. QED BY <2>2, <2>3, SatIsWhole
<1>. QED BY <1>2, <1>3

\* An amount the page writes into a bitcoin: URI comes back as it was typed.
LEMMA TypedAmountComesBack ==
  ASSUME NEW sats \in Nat, ThroughBtcString(sats) # Malformed
  PROVE  GetSat(ThroughBtcString(sats)) = sats
  BY DEF GetSat, ThroughBtcString, OfSatoshi, MSatPerSat, Malformed

LEMMA FieldIsWhole ==
  ASSUME PayFlowAssumption, NEW value \in TypedAmounts, NEW currency, NEW ratesKnown
  PROVE  FieldAmount(value, currency, ratesKnown) \in Nat
<1>1. value \in Nat /\ FiatRate \in Nat
  BY DEF PayFlowAssumption
<1>2. value * FiatRate \in Nat
  BY <1>1
<1>. QED BY <1>1, <1>2 DEF FieldAmount, InSat

(* ---- the invariant ---- *)

\* The builds are numbered in the order the API made them.
Numbered == \E n \in Nat : DOMAIN builds = 1 .. n

\* The build at hand was made, and those consumed were too.
BuildsExist ==
  /\ cached \in DOMAIN builds \cup {0}
  /\ executed \subseteq DOMAIN builds

\* A parse or an automatic build in flight is for the payload at hand, unless the
\* screen was cleared meanwhile; until it is over no amount can be typed, and there
\* is no build at hand before the automatic one.
FlowMatches ==
  /\ flow = [at |-> flow.at, data |-> flow.data]
  /\ flow.at \in {"parsing", "building"} =>
       flow.data \in Data /\ (raw # NoData => raw = flow.data)
  /\ flow.at = "parsing" => parsed = NoPayment /\ cached = 0
  /\ flow.at = "building" /\ parsed # NoPayment => ~parsed.editable

\* Payload d names this receiver and, if it names an amount, this one.
Names(d, to, sats) == d.to = to /\ (d.amount > 0 => GetSat(d.amount) = sats)

SatsOnScreen == IF parsed.editable THEN typed ELSE parsed.amount

\* The payload of the next build is the one for what is on screen.
RawMatches ==
  parsed # NoPayment /\ raw # NoData => Names(raw, parsed.to, SatsOnScreen)

\* The build at hand is the one for what is on screen.
CachedMatches ==
  cached # 0 =>
    /\ ~parsed.editable
    /\ builds[cached].to = parsed.to /\ builds[cached].amount = parsed.amount
    /\ builds[cached].total - (parsed.amount + parsed.fee) \in {0, 1}

\* A confirmation is a record; it holds a build the API made, or none yet.
IsRun(h, made) ==
  /\ h = [at |-> h.at, data |-> h.data, asked |-> h.asked, build |-> h.build,
          fromCache |-> h.fromCache]
  /\ h.build \in made \cup {0}
  /\ h.at \in {"signing", "executing", "paid"} => h.build # 0

\* The build that a confirmation waits for is one of what it was asked for.
AskMatches(h) ==
  /\ h.at = "building" => ~h.fromCache /\ Names(h.data, h.asked.to, h.asked.amount)
  /\ h.at = "donating" =>
       ~h.fromCache /\ h.asked.to = Treasury /\ h.asked.text = NoText

\* Only a confirmation that found the build at hand holds it, and no donation did.
HoldsOwn(h, c) ==
  /\ h.build # 0 /\ h.build = c => h.fromCache
  /\ h.fromCache => h.data # NoData

\* What a confirmation holds is what it was asked for, as SignedIsShown says.
HoldsAsked(h, made) ==
  h.build # 0 =>
    /\ made[h.build].to = h.asked.to /\ made[h.build].amount = h.asked.amount
    /\ h.fromCache => made[h.build].total - h.asked.total \in {0, 1}
    /\ ~h.fromCache => h.asked.text \in {NoText, made[h.build].text}

RunOK(h, c, made) ==
  IsRun(h, DOMAIN made) /\ AskMatches(h) /\ HoldsOwn(h, c) /\ HoldsAsked(h, made)

RunsOK ==
  /\ DOMAIN runs = Confirmations
  /\ \A r \in Confirmations : RunOK(runs[r], cached, builds)

FrontOK == FlowMatches /\ RawMatches /\ CachedMatches

IInv == Numbered /\ BuildsExist /\ FrontOK /\ RunsOK /\ CachedIsUsable

(* ---- steps ---- *)

\* A build of the API gets a number of its own and leaves the others as they are.
LEMMA StoredIsNew ==
  ASSUME NEW build, Numbered, BuildsExist, StoreBuild(build)
  PROVE  /\ NewBuild # 0 /\ NewBuild \notin DOMAIN builds
         /\ DOMAIN builds' = DOMAIN builds \cup {NewBuild}
         /\ builds'[NewBuild] = build
         /\ \A b \in DOMAIN builds : builds'[b] = builds[b]
         /\ executed' = executed
         /\ Numbered'
<1>1. PICK n \in Nat : DOMAIN builds = 1 .. n
  BY DEF Numbered
<1>2. NewBuild = n + 1
  <2>1. Cardinality(1 .. n) = IF 1 > n THEN 0 ELSE n - 1 + 1
    BY FS_Interval
  <2>. QED BY <1>1, <2>1 DEF NewBuild
<1>3. builds' = [b \in DOMAIN builds \cup {NewBuild} |->
                   IF b = NewBuild THEN build ELSE builds[b]]
  BY DEF StoreBuild
<1>4. DOMAIN builds' = 1 .. n + 1
  BY <1>1, <1>2, <1>3
<1>5. NewBuild # 0 /\ NewBuild \notin DOMAIN builds
  BY <1>1, <1>2
<1>. QED BY <1>3, <1>4, <1>5 DEF StoreBuild, Numbered

\* A confirmation that does nothing stays in order when the API makes a build, the
\* build at hand is dropped, or a new one takes its place.
LEMMA OthersStayOK ==
  ASSUME NEW h, RunOK(h, cached, builds),
         DOMAIN builds \subseteq DOMAIN builds',
         \A b \in DOMAIN builds : builds'[b] = builds[b],
         cached' \in {0, cached} \/ cached' \notin DOMAIN builds
  PROVE  RunOK(h, cached', builds')
<1>1. h.build \in DOMAIN builds \cup {0}
  BY DEF RunOK, IsRun
<1>2. IsRun(h, DOMAIN builds')
  BY DEF RunOK, IsRun
<1>3. HoldsOwn(h, cached')
  BY <1>1 DEF RunOK, HoldsOwn
<1>4. HoldsAsked(h, builds')
  BY <1>1 DEF RunOK, HoldsAsked
<1>. QED BY <1>2, <1>3, <1>4 DEF RunOK

\* What a step of the screen must keep: the confirmations do not move.
LEMMA ScreenStep ==
  ASSUME IInv, UNCHANGED <<runs, server>>, cached' \in {0, cached}, FrontOK'
  PROVE  IInv'
<1>1. Numbered' /\ BuildsExist'
  BY DEF IInv, Numbered, BuildsExist, server
<1>2. RunsOK'
  BY OthersStayOK DEF IInv, RunsOK, server
<1>3. CachedIsUsable'
  <2>1. 0 \notin executed
    BY DEF IInv, Numbered, BuildsExist
  <2>. QED BY <2>1 DEF IInv, CachedIsUsable, server
<1>. QED BY <1>1, <1>2, <1>3 DEF IInv

\* When confirmation r moves, the others stay in order.
LEMMA RunsStep ==
  ASSUME IInv, NEW r \in Confirmations, NEW h,
         runs' = [runs EXCEPT ![r] = h], RunOK(h, cached', builds'), cached' \in {0, cached},
         DOMAIN builds \subseteq DOMAIN builds',
         \A b \in DOMAIN builds : builds'[b] = builds[b]
  PROVE  RunsOK'
<1>1. /\ DOMAIN runs' = Confirmations
      /\ \A q \in Confirmations : runs'[q] = IF q = r THEN h ELSE runs[q]
  BY DEF IInv, RunsOK
<1>2. \A q \in Confirmations \ {r} : RunOK(runs[q], cached', builds')
  BY OthersStayOK DEF IInv, RunsOK
<1>. QED BY <1>1, <1>2 DEF RunsOK

\* What a step of confirmation r must keep when the payment on screen stays.
LEMMA RunStep ==
  ASSUME IInv, NEW r \in Confirmations, NEW h,
         runs' = [runs EXCEPT ![r] = h], RunOK(h, cached', builds'),
         UNCHANGED <<raw, flow, parsed, typed>>, cached' \in {0, cached},
         DOMAIN builds \subseteq DOMAIN builds',
         \A b \in DOMAIN builds : builds'[b] = builds[b],
         Numbered', executed' \subseteq DOMAIN builds', CachedIsUsable'
  PROVE  IInv'
<1>1. RunsOK'
  BY RunsStep
<1>2. FrontOK'
  <2>1. FlowMatches' /\ RawMatches'
    BY DEF IInv, FrontOK, FlowMatches, RawMatches, SatsOnScreen
  <2>2. CachedMatches'
    BY DEF IInv, FrontOK, CachedMatches, BuildsExist
  <2>. QED BY <2>1, <2>2 DEF FrontOK
<1>3. BuildsExist'
  BY DEF IInv, BuildsExist
<1>. QED BY <1>1, <1>2, <1>3 DEF IInv

\* A cached build stays usable when confirmation r moves and none is consumed,
\* unless r was the one that consumed it.
LEMMA UsableStep ==
  ASSUME IInv, NEW r \in Confirmations, NEW h, runs' = [runs EXCEPT ![r] = h],
         executed' = executed, cached' = cached,
         cached \in executed /\ runs[r].build = cached
           /\ runs[r].at \in {"executing", "paid", "failed", "leaving"}
             => h.build = cached /\ h.at \in {"executing", "paid", "failed", "leaving"}
  PROVE  CachedIsUsable'
<1>1. \A q \in Confirmations : runs'[q] = IF q = r THEN h ELSE runs[q]
  BY DEF IInv, RunsOK
<1>. QED BY <1>1 DEF IInv, CachedIsUsable

\* No build is numbered 0, so nothing is claimed of a build that is not there.
LEMMA NothingCached ==
  ASSUME IInv, executed' = executed, cached' = 0
  PROVE  CachedIsUsable'
<1>1. 0 \notin executed
  BY DEF IInv, Numbered, BuildsExist
<1>. QED BY <1>1 DEF CachedIsUsable

\* Idle, a confirmation is in order.
LEMMA IdleIsOK ==
  ASSUME NEW c, NEW made
  PROVE  RunOK(Idle, c, made)
  BY DEF RunOK, IsRun, AskMatches, HoldsOwn, HoldsAsked, Idle

(* ---- the screen ---- *)

LEMMA InitOK == Init => IInv
<1> SUFFICES ASSUME Init PROVE IInv
  OBVIOUS
<1>1. DOMAIN builds = 1 .. 0
  BY DEF Init
<1>2. Numbered /\ BuildsExist
  BY <1>1 DEF Init, Numbered, BuildsExist
<1>3. FrontOK
  BY DEF Init, FrontOK, FlowMatches, RawMatches, CachedMatches, NoFlow
<1>4. RunsOK
  BY IdleIsOK DEF Init, RunsOK
<1>5. CachedIsUsable
  BY DEF Init, CachedIsUsable
<1>. QED BY <1>2, <1>3, <1>4, <1>5 DEF IInv

LEMMA ScanStep ==
  ASSUME PayFlowAssumption, IInv, NEW d \in Scans, ParseAndNavigate(d)
  PROVE  IInv'
<1>1. d \in Data
  BY DEF PayFlowAssumption
<1>2. FrontOK'
  BY <1>1 DEF ParseAndNavigate, FrontOK, FlowMatches, RawMatches, CachedMatches
<1>. QED BY <1>2, ScreenStep DEF ParseAndNavigate

LEMMA ParseAnsweredStep ==
  ASSUME IInv, ParseAnswered
  PROVE  IInv'
<1> DEFINE d == flow.data
<1>1. /\ d \in Data /\ (raw # NoData => raw = d) /\ flow = [at |-> "parsing", data |-> d]
      /\ cached = 0
  BY DEF ParseAnswered, IInv, FrontOK, FlowMatches
<1>2. /\ parsed' = Payment(d, EstimatedFee(Network(d), d.amount))
      /\ raw' = raw /\ cached' = cached /\ UNCHANGED <<runs, server>>
      /\ flow' = IF parsed'.editable THEN NoFlow ELSE [flow EXCEPT !.at = "building"]
  BY DEF ParseAnswered, Prepare, ShowPayment
<1>3. /\ parsed'.to = d.to /\ parsed'.amount = GetSat(d.amount)
      /\ parsed'.editable <=> d.amount = 0
  BY <1>2 DEF Payment
<1>4. FlowMatches'
  BY <1>1, <1>2, <1>3 DEF FlowMatches, NoFlow
<1>5. Names(d, parsed'.to, SatsOnScreen')
  <2>1. ~(0 > 0)
    OBVIOUS
  <2>2. CASE parsed'.editable
    BY <1>3, <2>1, <2>2 DEF Names
  <2>3. CASE ~parsed'.editable
    BY <1>3, <2>3 DEF Names, SatsOnScreen
  <2>. QED BY <2>2, <2>3
<1>6. RawMatches'
  BY <1>1, <1>2, <1>5 DEF RawMatches
<1>7. CachedMatches'
  BY <1>1, <1>2 DEF CachedMatches
<1>. QED BY <1>2, <1>4, <1>6, <1>7, ScreenStep DEF FrontOK

\* Nothing is built for a payload that names no amount.
LEMMA BuildableNamesAmount ==
  ASSUME NEW d, NEW quote, Buildable(d, quote)
  PROVE  d.amount > 0
  BY DEF Buildable, StarknetAccepted, LightningAccepted, BitcoinAccepted

LEMMA AutoBuiltStep ==
  ASSUME PayFlowAssumption, IInv, AutoBuilt
  PROVE  IInv'
<1> DEFINE d == flow.data
<1>1. d \in Data /\ (raw # NoData => raw = d)
  BY DEF AutoBuilt, IInv, FrontOK, FlowMatches
<1>2. PICK q \in QuotesFor(d) :
        /\ Buildable(d, q)
        /\ StoreBuild(Build(d, q, d.note))
        /\ ShowPayment(Payment(d, QuotedFee(Network(d), d.amount, q)))
  BY DEF AutoBuilt
<1>3. /\ NewBuild # 0 /\ NewBuild \notin DOMAIN builds
      /\ DOMAIN builds' = DOMAIN builds \cup {NewBuild}
      /\ builds'[NewBuild] = Build(d, q, d.note)
      /\ \A b \in DOMAIN builds : builds'[b] = builds[b]
      /\ executed' = executed
      /\ Numbered'
  BY <1>2, StoredIsNew DEF IInv
<1>4. cached' = NewBuild /\ flow' = NoFlow /\ raw' = raw /\ runs' = runs
  BY DEF AutoBuilt
<1>5. /\ parsed'.to = d.to /\ parsed'.amount = GetSat(d.amount)
      /\ parsed'.fee = GetSat(QuotedFee(Network(d), d.amount, q))
      /\ ~parsed'.editable
  <2>1. parsed' = Payment(d, QuotedFee(Network(d), d.amount, q))
    BY <1>2 DEF ShowPayment
  <2>2. d.amount > 0 /\ ~(0 > 0)
    BY <1>2, BuildableNamesAmount
  <2>3. d.amount # 0
    BY <2>2, Zenon
  <2>. QED BY <2>1, <2>3 DEF Payment
<1>6. BuildsExist'
  BY <1>3, <1>4 DEF IInv, BuildsExist
<1>7. FlowMatches' /\ RawMatches'
  BY <1>1, <1>4, <1>5 DEF FlowMatches, NoFlow, RawMatches, Names, SatsOnScreen
<1>8. CachedMatches'
  <2>1. d.amount \in Int /\ q \in Int
    BY <1>1 DEF PayFlowAssumption, Data, Malformed, QuotesFor
  <2>2. Paid(Network(d), d.amount, q)
          - (GetSat(d.amount) + GetSat(QuotedFee(Network(d), d.amount, q))) \in {0, 1}
    BY <2>1, PaidIsShown
  <2>. QED BY <1>3, <1>4, <1>5, <2>2 DEF CachedMatches, Build
<1>9. RunsOK'
  BY <1>3, <1>4, OthersStayOK DEF IInv, RunsOK
<1>10. CachedIsUsable'
  BY <1>3, <1>4 DEF IInv, BuildsExist, CachedIsUsable
<1>. QED BY <1>3, <1>6, <1>7, <1>8, <1>9, <1>10 DEF IInv, FrontOK

LEMMA FlowFailedStep ==
  ASSUME IInv, ParseFailed \/ AutoBuildFailed
  PROVE  IInv'
<1>1. /\ flow' = NoFlow /\ UNCHANGED <<raw, cached, parsed, typed, runs, server>>
  BY DEF ParseFailed, AutoBuildFailed
<1>2. FrontOK'
  BY <1>1 DEF IInv, FrontOK, FlowMatches, RawMatches, CachedMatches, SatsOnScreen, NoFlow, server
<1>. QED BY <1>1, <1>2, ScreenStep

LEMMA TypeStep ==
  ASSUME PayFlowAssumption, IInv, NEW value \in TypedAmounts, NEW currency, NEW ratesKnown,
         UpdatePaymentAmount(value, currency, ratesKnown)
  PROVE  IInv'
<1>1. /\ parsed # NoPayment /\ parsed.editable /\ typed' \in Nat
      /\ raw' = BitcoinUri(parsed.to, typed') /\ cached' = 0
      /\ UNCHANGED <<flow, parsed, runs, server>>
  BY FieldIsWhole DEF UpdatePaymentAmount
<1>2. FlowMatches' /\ CachedMatches'
  BY <1>1 DEF IInv, FrontOK, FlowMatches, CachedMatches
<1>3. RawMatches'
  <2>1. /\ raw'.to = parsed'.to /\ raw'.amount = ThroughBtcString(typed')
        /\ SatsOnScreen' = typed'
    BY <1>1 DEF BitcoinUri, SatsOnScreen
  <2>2. raw'.amount > 0 => GetSat(raw'.amount) = typed'
    BY <1>1, <2>1, TypedAmountComesBack DEF Malformed
  <2>. QED BY <2>1, <2>2 DEF RawMatches, Names
<1>. QED BY <1>1, <1>2, <1>3, ScreenStep DEF FrontOK

LEMMA DescribeStep ==
  ASSUME IInv, NEW text, SetDescription(text)
  PROVE  IInv'
<1>1. cached' = 0 /\ UNCHANGED <<raw, flow, parsed, typed, runs, server>>
  BY DEF SetDescription
<1>2. FrontOK'
  BY <1>1 DEF IInv, FrontOK, FlowMatches, RawMatches, CachedMatches, SatsOnScreen
<1>. QED BY <1>1, <1>2, ScreenStep

(* ---- the confirmations ---- *)

LEMMA ConfirmStep ==
  ASSUME IInv, NEW r \in Confirmations, Confirm(r)
  PROVE  IInv'
<1> DEFINE h == [at |-> IF cached # 0 THEN "signing" ELSE "building", data |-> raw,
                 asked |-> OnScreen, build |-> cached, fromCache |-> cached # 0]
<1>1. /\ runs' = [runs EXCEPT ![r] = h]
      /\ UNCHANGED <<raw, flow, parsed, typed, cached, server>>
      /\ runs[r].at = "idle" /\ parsed # NoPayment /\ raw # NoData
  BY DEF Confirm, ConfirmEnabled, PaymentAvailable
<1>2. /\ h.data = raw /\ h.build = cached /\ h.at # "donating"
      /\ h.fromCache <=> cached # 0
      /\ IF cached = 0 THEN h.at = "building" ELSE h.at = "signing"
      /\ h = [at |-> h.at, data |-> h.data, asked |-> h.asked, build |-> h.build,
              fromCache |-> h.fromCache]
  OBVIOUS
<1>3. /\ h.asked.to = parsed.to /\ h.asked.amount = SatsOnScreen
      /\ h.asked.total = SatsOnScreen + parsed.fee
  BY DEF OnScreen, SatsOnScreen
<1> HIDE DEF h
<1>4. IsRun(h, DOMAIN builds) /\ HoldsOwn(h, cached)
  BY <1>1, <1>2 DEF IInv, BuildsExist, IsRun, HoldsOwn
<1>5. AskMatches(h)
  BY <1>1, <1>2, <1>3 DEF IInv, FrontOK, RawMatches, AskMatches
<1>6. HoldsAsked(h, builds)
  BY <1>2, <1>3 DEF IInv, FrontOK, CachedMatches, HoldsAsked, SatsOnScreen
<1>7. RunOK(h, cached', builds')
  BY <1>1, <1>4, <1>5, <1>6 DEF RunOK, server
<1>8. CachedIsUsable'
  BY <1>1, UsableStep DEF server
<1>. QED BY <1>1, <1>7, <1>8, RunStep DEF IInv, BuildsExist, Numbered, server

LEMMA DonateStep ==
  ASSUME IInv, NEW r \in Confirmations, NEW amount, Donate(r, amount)
  PROVE  IInv'
<1> DEFINE h == Donation(amount)
<1>1. /\ runs' = [runs EXCEPT ![r] = h]
      /\ UNCHANGED <<raw, flow, parsed, typed, cached, server>>
      /\ runs[r].at = "idle"
  BY DEF Donate, front
<1>2. RunOK(h, cached', builds')
  BY DEF Donation, RunOK, IsRun, AskMatches, HoldsOwn, HoldsAsked
<1> HIDE DEF h
<1>3. CachedIsUsable'
  BY <1>1, UsableStep DEF server
<1>. QED BY <1>1, <1>2, <1>3, RunStep DEF IInv, BuildsExist, Numbered, server

\* A confirmation, or a donation, that gets a build of its own.
LEMMA BuiltStep ==
  ASSUME IInv, NEW r \in Confirmations, NEW build, StoreBuild(build), UNCHANGED front,
         runs' = [runs EXCEPT ![r] = ToSign(@, NewBuild)],
         runs[r].at \in {"building", "donating"}, ~runs[r].fromCache,
         build.to = runs[r].asked.to, build.amount = runs[r].asked.amount,
         runs[r].asked.text \in {NoText, build.text}
  PROVE  IInv'
<1> DEFINE h == ToSign(runs[r], NewBuild)
<1>1. runs' = [runs EXCEPT ![r] = h]
  OBVIOUS
<1>2. /\ NewBuild # 0 /\ NewBuild \notin DOMAIN builds
      /\ DOMAIN builds' = DOMAIN builds \cup {NewBuild}
      /\ builds'[NewBuild] = build
      /\ \A b \in DOMAIN builds : builds'[b] = builds[b]
      /\ executed' = executed
      /\ Numbered'
  BY StoredIsNew DEF IInv
<1>3. UNCHANGED <<raw, flow, parsed, typed, cached>>
  BY DEF front
<1>4. RunOK(h, cached', builds')
  BY <1>2, <1>3 DEF ToSign, IInv, BuildsExist, RunOK, IsRun, AskMatches, HoldsOwn, HoldsAsked
<1>5. CachedIsUsable'
  BY <1>1, <1>2, <1>3, UsableStep
<1> HIDE DEF h
<1>. QED BY <1>1, <1>2, <1>3, <1>4, <1>5, RunStep DEF IInv, BuildsExist

LEMMA RunBuiltStep ==
  ASSUME IInv, NEW r \in Confirmations, RunBuilt(r)
  PROVE  IInv'
<1> DEFINE d == runs[r].data
           text == TextOf(d, runs[r].asked.text)
<1>1. PICK q \in QuotesFor(d) : Buildable(d, q) /\ StoreBuild(Build(d, q, text))
  BY DEF RunBuilt
<1>2. /\ ~runs[r].fromCache
      /\ d.to = runs[r].asked.to /\ GetSat(d.amount) = runs[r].asked.amount
  BY <1>1, BuildableNamesAmount DEF RunBuilt, IInv, RunsOK, RunOK, AskMatches, Names
<1>3. /\ Build(d, q, text).to = d.to /\ Build(d, q, text).amount = GetSat(d.amount)
      /\ Build(d, q, text).text = text
  BY DEF Build
<1>4. runs[r].asked.text \in {NoText, text}
  BY DEF TextOf
<1>. QED BY <1>1, <1>2, <1>3, <1>4, BuiltStep DEF RunBuilt

LEMMA DonationBuiltStep ==
  ASSUME IInv, NEW r \in Confirmations, DonationBuilt(r)
  PROVE  IInv'
<1> DEFINE build == DonationBuild(runs[r].asked.amount)
<1>1. ~runs[r].fromCache /\ runs[r].asked.to = Treasury /\ runs[r].asked.text = NoText
  BY DEF DonationBuilt, IInv, RunsOK, RunOK, AskMatches
<1>2. build.to = Treasury /\ build.amount = runs[r].asked.amount /\ build.text = NoText
  BY DEF DonationBuild
<1>. QED BY <1>1, <1>2, BuiltStep DEF DonationBuilt

\* A confirmation that ends with its build consumed is not a donation, or its build
\* is not the one at hand.
LEMMA GiveUpStep ==
  ASSUME IInv, NEW r \in Confirmations, GiveUp(r), UNCHANGED server
  PROVE  IInv'
<1>1. /\ runs' = [runs EXCEPT ![r] = Idle] /\ cached' \in {0, cached}
      /\ UNCHANGED <<raw, flow, parsed, typed, server>>
  BY DEF GiveUp, front
<1>2. RunOK(Idle, cached', builds')
  BY IdleIsOK
<1>3. CachedIsUsable'
  <2>1. CASE IsDonation(r)
    <3>1. cached' = cached
      BY <2>1 DEF GiveUp, front
    <3>2. ~(cached \in executed /\ runs[r].build = cached)
      BY <2>1 DEF IInv, Numbered, BuildsExist, RunsOK, RunOK, HoldsOwn, IsDonation
    <3>. QED BY <1>1, <3>1, <3>2, UsableStep DEF server
  <2>2. CASE ~IsDonation(r)
    BY <2>2, NothingCached DEF GiveUp, server
  <2>. QED BY <2>1, <2>2
<1>. QED BY <1>1, <1>2, <1>3, RunStep DEF IInv, BuildsExist, Numbered, server

LEMMA CancelStep ==
  ASSUME IInv, NEW r \in Confirmations, Cancel(r)
  PROVE  IInv'
<1>1. /\ runs' = [runs EXCEPT ![r] = Idle] /\ runs[r].at = "signing"
      /\ UNCHANGED <<raw, flow, parsed, typed, cached, server>>
  BY DEF Cancel
<1>2. RunOK(Idle, cached', builds')
  BY IdleIsOK
<1>3. CachedIsUsable'
  BY <1>1, UsableStep DEF server
<1>. QED BY <1>1, <1>2, <1>3, RunStep DEF IInv, BuildsExist, Numbered, server

\* A confirmation that goes on with the build it holds.
LEMMA MoveStep ==
  ASSUME IInv, NEW r \in Confirmations, NEW at \in {"executing", "paid", "failed", "leaving"},
         runs' = [runs EXCEPT ![r].at = at],
         UNCHANGED <<raw, flow, parsed, typed, cached, builds>>,
         executed' \subseteq executed \cup {runs[r].build},
         executed \subseteq executed',
         cached \in executed' \ executed => runs[r].build = cached,
         runs[r].build # 0
  PROVE  IInv'
<1> DEFINE h == [runs[r] EXCEPT !.at = at]
<1>1. runs' = [runs EXCEPT ![r] = h]
  OBVIOUS
<1>2. /\ h.at = at /\ h.data = runs[r].data /\ h.asked = runs[r].asked
      /\ h.build = runs[r].build /\ h.fromCache = runs[r].fromCache
      /\ h = [at |-> h.at, data |-> h.data, asked |-> h.asked, build |-> h.build,
              fromCache |-> h.fromCache]
  BY DEF IInv, RunsOK, RunOK, IsRun
<1> HIDE DEF h
<1>3. RunOK(h, cached', builds')
  BY <1>2 DEF IInv, RunsOK, RunOK, IsRun, AskMatches, HoldsOwn, HoldsAsked
<1>4. executed' \subseteq DOMAIN builds'
  BY DEF IInv, BuildsExist, RunsOK, RunOK, IsRun
<1>5. CachedIsUsable'
  <2>1. \A q \in Confirmations : runs'[q] = IF q = r THEN h ELSE runs[q]
    BY <1>1 DEF IInv, RunsOK
  <2>. QED BY <1>2, <2>1 DEF IInv, CachedIsUsable
<1>. QED BY <1>1, <1>3, <1>4, <1>5, RunStep DEF IInv, Numbered

LEMMA LeaveStep ==
  ASSUME IInv, NEW r \in Confirmations, Leave(r)
  PROVE  IInv'
<1>1. /\ runs' = [runs EXCEPT ![r] = Idle] /\ cached' = 0
      /\ raw' = NoData /\ parsed' = NoPayment /\ UNCHANGED <<flow, server>>
  BY DEF Leave
<1>2. RunsOK'
  BY <1>1, IdleIsOK, RunsStep DEF server
<1>3. FrontOK'
  BY <1>1 DEF IInv, FrontOK, FlowMatches, RawMatches, CachedMatches
<1>4. CachedIsUsable'
  BY <1>1, NothingCached DEF server
<1>. QED BY <1>1, <1>2, <1>3, <1>4 DEF IInv, Numbered, BuildsExist, server

LEMMA ExecuteStep ==
  ASSUME IInv, NEW r \in Confirmations, Execute(r)
  PROVE  IInv'
<1>1. PICK outcome \in {"paid", "failed"} : runs' = [runs EXCEPT ![r].at = outcome]
  BY DEF Execute
<1>2. runs[r].build # 0
  BY DEF Execute, IInv, RunsOK, RunOK, IsRun
<1>. QED BY <1>1, <1>2, MoveStep DEF Execute, front

LEMMA SignStep ==
  ASSUME IInv, NEW r \in Confirmations, Sign(r)
  PROVE  IInv'
<1>1. runs[r].build # 0
  BY DEF Sign, IInv, RunsOK, RunOK, IsRun
<1>. QED BY <1>1, MoveStep DEF Sign, front, server

\* A donation that was paid is over; a payment leaves for the success page.
LEMMA SucceedStep ==
  ASSUME IInv, NEW r \in Confirmations, Succeed(r)
  PROVE  IInv'
<1>1. /\ runs[r].at = "paid" /\ UNCHANGED <<raw, flow, parsed, typed, cached, server>>
  BY DEF Succeed
<1>2. CASE IsDonation(r)
  <2>1. runs' = [runs EXCEPT ![r] = Idle]
    BY <1>2 DEF Succeed
  <2>2. RunOK(Idle, cached', builds')
    BY IdleIsOK
  <2>3. ~(cached \in executed /\ runs[r].build = cached)
    BY <1>2 DEF IInv, Numbered, BuildsExist, RunsOK, RunOK, HoldsOwn, IsDonation
  <2>4. CachedIsUsable'
    BY <1>1, <2>1, <2>3, UsableStep DEF server
  <2>. QED BY <1>1, <2>1, <2>2, <2>4, RunStep DEF IInv, BuildsExist, Numbered, server
<1>3. CASE ~IsDonation(r)
  <2>1. runs' = [runs EXCEPT ![r].at = "leaving"]
    BY <1>3 DEF Succeed
  <2>2. runs[r].build # 0
    BY <1>1 DEF IInv, RunsOK, RunOK, IsRun
  <2>. QED BY <1>1, <2>1, <2>2, MoveStep DEF server
<1>. QED BY <1>2, <1>3

LEMMA NextOK == ASSUME PayFlowAssumption PROVE IInv /\ [Next]_vars => IInv'
<1> SUFFICES ASSUME IInv, [Next]_vars PROVE IInv'
  OBVIOUS
<1>1. CASE User
  <2>1. ASSUME NEW d \in Scans, ParseAndNavigate(d) PROVE IInv'
    BY <2>1, ScanStep
  <2>2. ASSUME NEW v \in TypedAmounts, NEW currency, NEW ratesKnown,
               UpdatePaymentAmount(v, currency, ratesKnown)
        PROVE  IInv'
    BY <2>2, TypeStep
  <2>3. ASSUME NEW t, SetDescription(t) PROVE IInv'
    BY <2>3, DescribeStep
  <2>4. ASSUME NEW r \in Confirmations, Confirm(r) PROVE IInv'
    BY <2>4, ConfirmStep
  <2>5. ASSUME NEW r \in Confirmations, NEW a, Donate(r, a) PROVE IInv'
    BY <2>5, DonateStep
  <2>. QED BY <1>1, <2>1, <2>2, <2>3, <2>4, <2>5 DEF User
<1>2. CASE ParseAnswered \/ ParseFailed \/ AutoBuilt \/ AutoBuildFailed
  BY <1>2, ParseAnsweredStep, FlowFailedStep, AutoBuiltStep
<1>3. ASSUME NEW r \in Confirmations, Answer(r) PROVE IInv'
  <2>1. CASE RunBuilt(r) \/ DonationBuilt(r)
    BY <2>1, RunBuiltStep, DonationBuiltStep
  <2>2. CASE RunFailed(r) \/ AnswerLost(r)
    BY <2>2, GiveUpStep DEF RunFailed, AnswerLost
  <2>3. CASE Sign(r) \/ Execute(r) \/ Cancel(r)
    BY <2>3, SignStep, ExecuteStep, CancelStep
  <2>4. CASE Succeed(r) \/ Leave(r)
    BY <2>4, SucceedStep, LeaveStep
  <2>. QED BY <1>3, <2>1, <2>2, <2>3, <2>4 DEF Answer
<1>4. CASE UNCHANGED vars
  <2>1. UNCHANGED <<raw, cached, flow, parsed, typed, runs, server>>
    BY <1>4 DEF vars, front
  <2>2. FrontOK'
    BY <2>1 DEF IInv, FrontOK, FlowMatches, RawMatches, CachedMatches, SatsOnScreen, server
  <2>. QED BY <2>1, <2>2, ScreenStep
<1>. QED BY <1>1, <1>2, <1>3, <1>4 DEF Next

LEMMA InvariantHolds == ASSUME PayFlowAssumption PROVE Spec => []IInv
<1>. QED BY InitOK, NextOK, PTL DEF Spec

(* ---- theorems ---- *)

\* What the passkey signs is what the page showed at the confirmation, to the
\* satoshi, for any payloads, typed amounts, rates, quotes and limits and however
\* many confirmations, donations, scans and late answers overlap (PayService).
THEOREM SignedIsAlwaysShown == ASSUME PayFlowAssumption PROVE Spec => []SignedIsShown
<1>1. IInv => SignedIsShown
  BY DEF IInv, RunsOK, RunOK, HoldsAsked, SignedIsShown
<1>. QED BY <1>1, InvariantHolds, PTL

\* A build at hand that the API has consumed is still held by the confirmation that
\* handed it in, so a retry never starts from one (PayService.executeAndNavigate).
THEOREM CachedIsAlwaysUsable == ASSUME PayFlowAssumption PROVE Spec => []CachedIsUsable
<1>1. IInv => CachedIsUsable
  BY DEF IInv
<1>. QED BY <1>1, InvariantHolds, PTL

=============================================================================
