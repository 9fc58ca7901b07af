SPECIFICATION FairSpec
CONSTANTS
  Jobs <- IntactFile
  MaxRetries = 1
  BufBytes = 1
  PipeCap = 1
INVARIANT OkMeansComplete
CHECK_DEADLOCK FALSE
