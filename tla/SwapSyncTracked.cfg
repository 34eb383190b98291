SPECIFICATION FairSpec
CONSTANTS
  Swaps = {"bitcoin"}
  Direction <- MCDirection
  Clients = {}
  Monitor = "monitor"
  NoSwap = "no swap"
  Cooldown = 1
  MaxCreated = 1
  MaxTime = 0
  MaxPolls = 0
  MaxCrashes = 0
PROPERTY CommittedIsTracked
CHECK_DEADLOCK FALSE
