\* Three channels, two workers, two runs: what is posted and what is recorded.
SPECIFICATION FairSpec
CONSTANTS
  discord = discord
  slack = slack
  email = email
  NoChannel = NoChannel
  Channel = {discord, slack, email}
  Registry <- Three
  PoolCap = 2
  MaxAttempts = 10
  MaxRuns = 2
  MaxFaults = 1
INVARIANTS
  AnnounceTypeOK
  NoSilentLoss
  DuplicatesExcused
PROPERTIES
  KeepsPromise
  StageReturns
