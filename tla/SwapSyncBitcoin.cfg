SPECIFICATION FairSpec
CONSTANTS
  Swaps = {"bitcoin"}
  Direction <- MCDirection
  Clients = {"web"}
  Monitor = "monitor"
  NoSwap = "no swap"
  Cooldown = 1
  MaxCreated = 1
  MaxTime = 1
  MaxPolls = 1
  MaxCrashes = 1
INVARIANTS TerminalIsTrue PaidHasAddress
PROPERTIES SettledForGood EventuallyInStep FundedGetsClaimed LifecycleSpec
CHECK_DEADLOCK FALSE
