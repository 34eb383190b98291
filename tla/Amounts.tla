------------------------------- MODULE Amounts -------------------------------
(* Amounts of money: the domain counts millisatoshi, the chain and the front end
   whole satoshi, the user may type another currency.  Every conversion is
   modelled with its rounding.                                               *)
EXTENDS Integers

CONSTANTS
  BimRate,     \* the BIM fee, in millionths of the amount
  LpRate,      \* the liquidity provider's estimated fee, in millionths
  FiatRate     \* satoshi per unit of the fiat currency

MSatPerSat == 1000
PERCENTAGE_PRECISION == 1000000

\* The number of satoshi from which a BTC amount is not written with an exponent.
PlainFrom == 100
Malformed == -1

OfSatoshi(sats) == sats * MSatPerSat
GetSat(mSat) == mSat \div MSatPerSat

Percentage(mSat, rate) == (mSat * rate) \div PERCENTAGE_PRECISION

CalculateFee(mSat, rate) ==
  IF mSat > 0 /\ rate > 0 THEN Percentage(mSat, rate) ELSE 0

\* The satoshi a transfer moves, and those of the fee call: there is none for a
\* fee below one satoshi.
Transferred(mSat) == GetSat(mSat)
FeeCall(mSat) == GetSat(CalculateFee(mSat, BimRate))

\* A satoshi amount the front end writes into a bitcoin: URI and the API reads
\* back: below PlainFrom it is written as 5e-7 and refused.
ThroughBtcString(sats) ==
  IF sats > 0 /\ sats < PlainFrom THEN Malformed ELSE OfSatoshi(sats)

\* Amount.convert to satoshi: with no rate the number is kept as it is.
InSat(value, currency, ratesKnown) ==
  IF currency = "SAT" THEN value
  ELSE IF ratesKnown THEN value * FiatRate
  ELSE value

\* What a swap takes from the account, in whole satoshi: an invoice is paid in
\* full and the provider asks for its fee on top; to a Bitcoin address the account
\* pays exactly the amount, and the provider takes its fee out of it.
LightningInput(mSat, quote) == OfSatoshi(GetSat(mSat + MSatPerSat - 1) + quote)
BitcoinInput(mSat) == OfSatoshi(GetSat(mSat))

SwapAmount(network, mSat, quote) ==
  IF network = "lightning" THEN LightningInput(mSat, quote) ELSE BitcoinInput(mSat)

\* The fee the page shows before a build, and with one.
EstimatedFee(network, mSat) ==
  CalculateFee(mSat, BimRate)
    + (IF network = "starknet" THEN 0 ELSE CalculateFee(mSat, LpRate))

QuotedFee(network, mSat, quote) ==
  CalculateFee(mSat, BimRate)
    + (IF network = "starknet" THEN 0 ELSE SwapAmount(network, mSat, quote) - mSat)

\* The satoshi the calls of a build take from the account.
Paid(network, mSat, quote) ==
  FeeCall(mSat)
    + (IF network = "starknet" THEN Transferred(mSat) ELSE GetSat(SwapAmount(network, mSat, quote)))
==============================================================================
