\* A Stop request races the start, the stream and the watchdog of one run, and the
\* page that follows the run sends it; a run of a service with two slots, whose
\* POST may be sent again, races a Stop request too.  A job or run leaves up to two
\* notifications, of which the list of the bell shows one.
SPECIFICATION MCSpec
CONSTANTS
  Runs <- One
  CreatedAt <- Alone
  Requests = {q1}
  MaxConcurrent = 1
  MaxAttempts = 1
  Counts <- Green
  Stalls = TRUE
  Sources = {s1}
  MaxNotes = 2
  MaxMarks = 1
  ListLimit = 1
INVARIANTS NoLeakedSlot LaunchedOnce MarksAreSeen
PROPERTIES EndIsShown UnreadIsSeen
\* all runs may be over and all requests answered
CHECK_DEADLOCK FALSE
