SPECIFICATION TrackingSpec
CONSTANTS
  Callers = {o1}
  Monitor = monitor
  Swaps = {"bitcoin"}
  WithBounty = {"bitcoin"}
  NoSwap = NoSwap
  NoOutage = NoOutage
  Tabs = {t1}
  MAX_SWAPS = 1
  MAX_CONSECUTIVE_ERRORS = 2
  MaxCalls = 2
  MaxVisits = 2
  PAGE_SIZE = 1
  MaxIndexed = 2
  MaxReorgs = 1
  MaxRequests = 2
  Undefined = Undefined
  Parts = {"tracking"}
INVARIANTS FinalIsTrue EndIsToldOnce
PROPERTY EndIsShown
CHECK_DEADLOCK FALSE
