\* The answer to an accepted POST /execute is lost and the request sent again.
SPECIFICATION Spec
CONSTANTS
  Runs <- One
  CreatedAt <- Alone
  Requests = {}
  MaxConcurrent = 1
  MaxAttempts = 3
  Counts <- Green
  Stalls = FALSE
INVARIANT RetriesDuplicateNothing
\* all runs may be over and all requests answered
CHECK_DEADLOCK FALSE
