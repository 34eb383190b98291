SPECIFICATION FairSpec
CONSTANTS
  Users = {"ann", "bob"}
  NoOne = "nobody"
  MaxIds = 2
  Counting = {2}
  MaxSessions = 3
  MaxRequests = 2
  MaxFlows = 1
  MaxEvents = 2
INVARIANTS ShownIsServed OneLiveSession RegisteredCanSignIn
PROPERTIES PageFollowsUser
CHECK_DEADLOCK FALSE
