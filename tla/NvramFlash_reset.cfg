CONSTANTS
  Committer = {p1, p2}
  NChunk = 2
  NBlock = 1
  BlockOf <- MCBlockOf
  HasPre = TRUE
  MaxVersion = 2
  ImageChunks <- MCImageChunks
  MaxCommits = 1
  MaxCrashes = 0
  IOErrors = FALSE
SPECIFICATION ResetSpec
CHECK_DEADLOCK FALSE
INVARIANT ValidImage
