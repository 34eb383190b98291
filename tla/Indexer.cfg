SPECIFICATION IndexerSpec
CONSTANTS
  Parties <- MCParties
  Addresses <- MCAddresses
  Blocks <- MCBlocksOfThree
  TTL = 1
  Never = Never
  MaxTime = 2
  MaxHeight = 2
  MaxFailures = 1
  MaxReorgs = 1
INVARIANT BothRecorded
CHECK_DEADLOCK FALSE
