\* Stop overtakes the claim of a queued run.
SPECIFICATION FairSpec
CONSTANTS
  Runs <- Two
  CreatedAt <- Apart
  Requests = {q1}
  MaxConcurrent = 1
  MaxAttempts = 1
  Counts <- Green
  Stalls = FALSE
PROPERTY QueuedRunLeavesQueue
\* all runs may be over and all requests answered
CHECK_DEADLOCK FALSE
