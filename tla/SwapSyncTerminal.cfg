SPECIFICATION Spec
CONSTANTS
  Swaps = {"reverse"}
  Direction <- MCDirection
  Clients = {"web"}
  Monitor = "monitor"
  NoSwap = "no swap"
  Cooldown = 1
  MaxCreated = 1
  MaxTime = 0
  MaxPolls = 1
  MaxCrashes = 0
PROPERTY TerminalStays
CHECK_DEADLOCK FALSE
