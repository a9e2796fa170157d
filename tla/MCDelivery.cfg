\* Three attempts of the workflow and two requests of a human; two tests, two
\* pushes and a commit; two users, two requests and two tokens.
SPECIFICATION MCSpec
CONSTANTS
  MAX_AUTOMATION_ATTEMPTS = 3
  Budget = 2
  Paths = {p1, p2}
  Tests = {t1, t2}
  PageObjects = {}
  Pushes = {g1, g2}
  Commits = {c1}
  MaxCalls = 2
  MaxContent = 2
  MaxForeign = 1
  Users = {u1, u2}
  Requests = {i1, i2}
  MaxTokens = 2
INVARIANTS OnlyClearedLeaves OneSession
PROPERTIES GateContract WorkflowRests PushKeepsOthers EveryPushIsAnswered
\* the workflow may have ended and all calls be answered
CHECK_DEADLOCK FALSE
