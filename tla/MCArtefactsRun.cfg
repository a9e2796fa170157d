\* An edit between the gate of a run and the submission of its files.
SPECIFICATION ArtefactSpec
CONSTANTS
  case = case
  test = test
  Cases = {case}
  Automation = {test}
  Source <- SourceOf
  PageObjects = {}
  Slots = {h1, h2}
  MaxContent = 2
  MaxCalls = 6
PROPERTY EditedCodeIsReapproved
\* all calls may be over
CHECK_DEADLOCK FALSE
