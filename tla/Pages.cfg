SPECIFICATION Spec
CONSTANTS
  MaxAsks = 2
  NoInvoice = NoInvoice
  MaxJobs = 2
  BrowserLang = "fr"
  NoRow = NoRow
  Requests = {r1, r2}
  Accounts = {alice, bob}
  Builds = {b1, b2}
  Receives = {b2}
  TTL = 1
  None = None
  MaxTime = 2
  MaxRestarts = 1
  External = {"atomiq"}
  Probes = {p1}
  Readers = {r1, r2}
  MaxRetries = 2
  Calm = NoOutage
  inv = inv
  btc = btc
  str = str
  me = me
  note = note
  NoText = NoText
  NoData = NoData
  NoPayment = NoPayment
  Invoices <- MCInvoices
  BitcoinAddresses <- MCBitcoin
  StarknetAddresses <- MCStarknet
  Sender = me
  Treasury = str
  TypedAmounts = {50}
  BimRate = 3000
  LpRate = 4000
  FiatRate = 10
  Quotes = {9}
  MinSwap = 200000
  MaxSwap = 900000
  Texts <- MCTexts
  Scans <- MCScans
  Confirmations = {1, 2}
  MaxBuilds = 2
  MaxScans = 2
INVARIANTS
  ShownIsTracked QrIsForPage DefaultIsPreferred SavedIsShown SignedIsShown CachedIsUsable
  ExecutedOnce AskedIsRecorded ShownIsEscrowed OutageIsTold StaleOnlyIfRefused
CHECK_DEADLOCK FALSE
