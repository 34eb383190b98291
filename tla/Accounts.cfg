SPECIFICATION FairSpec
CONSTANTS
  Requests = {r1, r2}
  Challenges = {c0, c1}
  Registration = c0
  Sessions = {s0, s1}
  Hashes = {h1}
  None = None
  Empty = Empty
  MaxCrashes = 1
INVARIANTS ChallengeOpensOneSession DeployedIsOnChain
PROPERTIES DeletedSessionStaysDeleted NeverStuckDeploying
CHECK_DEADLOCK FALSE
