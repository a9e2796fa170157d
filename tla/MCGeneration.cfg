\* Two generate() requests with one Idempotency-Key or a retry, and a cancel(),
\* of workers that save two rows.
\* A page follows two jobs of two requirements or files.
SPECIFICATION MCSpec
CONSTANTS
  Calls = {c1, c2}
  SameKey = {c1, c2}
  Cancels = {q1}
  Script <- CasesScript
  NoCall = NoCall
  MaxJobs = 2
  Parts = 2
INVARIANTS VerdictIsLast CompletedIsWhole CancelledOnRequest FinishedListIsFresh
PROPERTIES EveryJobSettles FinishIsSeen
\* all jobs may be over, and a crashed process takes no step
CHECK_DEADLOCK FALSE
