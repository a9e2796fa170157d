\* Two or three actors on each component, and the fewest values that let them
\* disagree; the live feed also with pages that are too short for its lines.
SPECIFICATION MCSpec
CONSTANTS
  Calls = {c1, c2, c3}
  Counts <- MCCounts
  Minima <- MCMinima
  MaxAttempts = 2
  Providers = {p1, p2}
  Custom = {p2}
  Tabs = {w1, w2}
  Documents = {f1, f2}
  Texts = {t1}
  TextsOf <- TextsOfDocuments
  Derivations = {d1, d2}
  Editors = {e1, e2}
  MaxEdits = 2
  MaxTexts = 3
  MaxSaves = 2
  Files = {f1}
  MaxUploads = 3
  Runs = {r1, r2}
  Handlers = {h1, h2}
  MaxReports = 1
  Tests = {t1, t2}
  MaxReruns = 1
  QueueLimit = 2
  Requests = {q1, q2, q3, q4}
  MaxFindings = 2
  Pickables = {r1, r2}
  Suite = {t1}
  MaxComparisons = 2
  Writers = {k1, k2}
  MaxLines = 2
  MaxAsks = 2
  Page = 2
INVARIANTS
  DisjointBlocks CloudIsComplete OneRequirementPerText
  PlanApprovalIsOfContent StoredOnce
  LostOnlyByRace VerdictIsApplied ReportIsOfRun OverrideStands
  ComparisonIsOfRuns WholeReplayHasNoGap
PROPERTY OnlySavedSectionsAreWiped
\* all calls may be over
CHECK_DEADLOCK FALSE
