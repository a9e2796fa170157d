\* A timeline that reconnects.
SPECIFICATION FeedSpec
CONSTANTS
  Writers = {w1, w2}
  MaxLines = 3
  MaxAsks = 2
  Page = 3
INVARIANT GapIsClosed
\* all lines may be written and the console closed
CHECK_DEADLOCK FALSE
