\* Two handlers at a time, six in all: enough to generate, validate and approve
\* an artefact and to let two handlers race for it then.  In the inbox two
\* decisions, of any two rows or of one, and a change elsewhere.  On two pages of a
\* report three decisions in two seconds.
SPECIFICATION MCSpec
CONSTANTS
  case = case
  test = test
  Cases = {case}
  Automation = {test}
  Source <- SourceOf
  PageObjects = {}
  Slots = {h1, h2}
  MaxContent = 2
  MaxCalls = 6
  ListedPlans = {plan}
  ListedCases = {case}
  ListedAutomation = {test}
  MadeFrom <- SourceOf
  MaxDecisions = 2
  MaxOthers = 1
  Sheets = {s1, s2}
  MaxRecords = 3
  MaxSeconds = 1
SYMMETRY Symmetry
INVARIANTS
  VerdictIsOfContent ApprovalIsOfContent CaseChangeReopens
  InboxFollowsDecision RejectedStaysIn
\* all calls may be over
CHECK_DEADLOCK FALSE
