SPECIFICATION FairSpec
CONSTANTS
  Jobs <- AllJobs
  MaxRetries = 1
  BufBytes = 1
  PipeCap = 1
INVARIANTS TypeOK NothingLost OutputIsPrefix OkNeedsAnHonestUpstream TeardownIsNotAnError
PROPERTY PipelineReturns
CHECK_DEADLOCK FALSE
