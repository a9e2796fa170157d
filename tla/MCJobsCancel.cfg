\* One generate() request and one cancel(): the flag of the Stop is lost.
SPECIFICATION Spec
CONSTANTS
  Calls = {c1}
  SameKey = {}
  Cancels = {q1}
  Script <- PlanScript
  NoCall = NoCall
PROPERTY CancelStopsWorker
\* all jobs may be over
CHECK_DEADLOCK FALSE
