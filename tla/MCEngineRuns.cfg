\* Two submits of one run or of two, a cancel and a stream; one closed key and
\* two events are retained, and a run may emit more than that.
SPECIFICATION FairSpec
CONSTANTS
  Runs = {r1, r2}
  Submits <- Two
  Cancels = {x1}
  Readers = {c1}
  MAX_EVENTS_PER_KEY = 2
  MAX_CLOSED_KEYS = 1
  Steps = 1
  None = None
INVARIANTS LiveProcessIsReachable EndedStreamHasVerdict
PROPERTY EveryStreamEnds
\* all runs may be over
CHECK_DEADLOCK FALSE
