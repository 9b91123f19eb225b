CONSTANTS
  Committer = {p1, p2}
  NChunk = 2
  NBlock = 2
  BlockOf <- MCBlockOf
  HasPre = TRUE
  MaxVersion = 2
  ImageChunks <- MCImageChunks
  MaxCommits = 3
  MaxCrashes = 1
  IOErrors = TRUE
SPECIFICATION FairSpec
CHECK_DEADLOCK FALSE
INVARIANTS TypeOK SemaphoreBalanced ValidImage BootSound Durable CommitCoversCaller PreAreaKept
PROPERTY CommitReturns
