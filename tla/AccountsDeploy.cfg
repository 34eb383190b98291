SPECIFICATION Spec
CONSTANTS
  Requests = {r1, r2}
  Challenges = {c0}
  Registration = c0
  Sessions = {s0}
  Hashes = {h1, h2}
  None = None
  Empty = Empty
  MaxCrashes = 0
INVARIANTS OneSubmission
CHECK_DEADLOCK FALSE
