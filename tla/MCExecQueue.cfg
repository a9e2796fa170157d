\* Two runs compete for the one slot of the default configuration; the engine
\* may stall, streams may break, the watchdog fires.
SPECIFICATION FairSpec
CONSTANTS
  Runs <- Two
  CreatedAt <- Apart
  Requests = {}
  MaxConcurrent = 1
  MaxAttempts = 1
  Counts <- GreenRed
  Stalls = TRUE
INVARIANT GreenIsEarned
PROPERTIES QueueContract EveryRunSettles
\* all runs may be over and all requests answered
CHECK_DEADLOCK FALSE
