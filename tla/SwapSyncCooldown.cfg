SPECIFICATION Spec
CONSTANTS
  Swaps = {"lightning"}
  Direction <- MCDirection
  Clients = {"web"}
  Monitor = "monitor"
  NoSwap = "no swap"
  Cooldown = 1
  MaxCreated = 1
  MaxTime = 1
  MaxPolls = 1
  MaxCrashes = 0
INVARIANT ClaimsRespectCooldown
CHECK_DEADLOCK FALSE
