SPECIFICATION ServicesSpec
CONSTANTS
  Swaps = {s1, s2}
  Invocations = {i1, i2}
  MaxIdleIterations = 2
  KeepaliveInterval = 2
  MaxRestarts = 1
  Parties <- MCParties
  Addresses <- MCAddresses
  Blocks <- MCBlocksOfThree
  TTL = 1
  Never = Never
  MaxTime = 2
  MaxHeight = 2
  MaxFailures = 1
  MaxReorgs = 1
INVARIANTS OnlyUnseenLeftBehind AmountIsTotal NothingMissed
PROPERTIES ActiveGetsVisited StopsWhenIdle CatchesUp
CHECK_DEADLOCK FALSE
