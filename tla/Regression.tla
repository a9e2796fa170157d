----------------------------- MODULE Regression -----------------------------
(***************************************************************************)
(* The comparison of two runs: the page (RegressionPage), the request that *)
(* reads the results of one run after the other (regression.service), the  *)
(* engine's classification of each test and the history of comparisons.    *)
(*                                                                         *)
(* A run offers itself for comparison from its creation; its results are   *)
(* stored once, when its stream has been drained, and may never be.  Which *)
(* run is marked as the baseline is RunRecords' concern.                   *)
(***************************************************************************)
EXTENDS Naturals, Sequences, Functions

CONSTANTS
  Pickables,        \* runs of one project
  Suite,            \* node ids of tests
  MaxComparisons    \* bound: comparisons stored

VARIABLES
  testRows,         \* test_results of each run
  comparisons,      \* regression_comparisons
  comparing,        \* the POST of the page
  comparePage,      \* its pickers, its list of runs and the result it shows
  history           \* the query of the comparisons

regressionVars == <<testRows, comparisons, comparing, comparePage, history>>

NoPick == "none"
NoComparison == 0
StoredComparisons == 1..Len(comparisons)

H == INSTANCE Queries WITH Elements <- 1..MaxComparisons

(* passed|failed|skipped|error                                             *)
TestOutcomes == {"passed", "failed", "skipped", "error"}
Results == UNION {[tests -> TestOutcomes] : tests \in SUBSET Suite}
NoResults == [t \in {} |-> "passed"]

NotComparing == [pc |-> "idle"]

RegressionTypeOK ==
  /\ testRows \in [Pickables -> Results]
  /\ Len(comparisons) <= MaxComparisons
  /\ \A i \in StoredComparisons :
       /\ {comparisons[i].baseline, comparisons[i].candidate} \subseteq Pickables
       /\ comparisons[i].recorded \in BOOLEAN
  /\ comparing.pc \in {"idle", "asked", "baseline", "both", "saved"}
  /\ comparePage.runs \in {"asked", "answered", "lost", "known"}
  /\ {comparePage.marked, comparePage.baseline, comparePage.candidate} \subseteq Pickables \cup {NoPick}
  /\ comparePage.shown \in StoredComparisons \cup {NoComparison}
  /\ history \in H!Query

RegressionInit ==
  /\ testRows = [r \in Pickables |-> NoResults]
  /\ comparisons = <<>>
  /\ comparing = NotComparing
  /\ comparePage = [runs |-> "asked", marked |-> NoPick, baseline |-> NoPick, candidate |-> NoPick,
                    shown |-> NoComparison]
  /\ history = H!Ask(H!Unasked)

-----------------------------------------------------------------------------
(* The engine.                                                             *)
(* Mutant: a test that could not run gives no verdict. *)
StatusOf_ErrorIsSkip(outcome) ==
  CASE outcome = "passed" -> "pass" [] outcome = "failed" -> "fail" [] OTHER -> "skip"

StatusOf(outcome) ==
  CASE outcome = "passed" -> "pass"
    [] outcome \in {"failed", "error"} -> "fail"
    [] OTHER -> "skip"

(* The list of the result a test gets into.                                *)
Bucket(baseline, current, t) ==
  IF t \notin DOMAIN baseline THEN "new"
  ELSE IF t \notin DOMAIN current THEN "missing"
  ELSE LET before == StatusOf(baseline[t])
           now == StatusOf(current[t]) IN
       CASE "skip" \in {before, now} -> "skipped"
         [] before = "pass" /\ now = "fail" -> "regression"
         [] before = "fail" /\ now = "pass" -> "fix"
         [] before = "fail" /\ now = "fail" -> "still_failing"
         [] OTHER -> "stable"

CompareRuns(baseline, current) ==
  [t \in DOMAIN baseline \cup DOMAIN current |-> Bucket(baseline, current, t)]

HasRegressions(result) == "regression" \in Range(result)

-----------------------------------------------------------------------------
(* finalize() stores what the stream reported, if it reported a test.      *)
StoreTestRows(r, results) ==
  /\ testRows[r] = NoResults /\ results # NoResults
  /\ testRows' = [testRows EXCEPT ![r] = results]
  /\ UNCHANGED <<comparisons, comparing, comparePage, history>>

(* compare(): both runs are of the project, whatever their status.         *)
ReadBaseline ==
  /\ comparing.pc = "asked"
  /\ comparing' = [comparing EXCEPT !.pc = "baseline", !.base = testRows[comparing.baseline]]
  /\ UNCHANGED <<testRows, comparisons, comparePage, history>>

ReadCandidate ==
  /\ comparing.pc = "baseline"
  /\ comparing' = [comparing EXCEPT !.pc = "both", !.current = testRows[comparing.candidate]]
  /\ UNCHANGED <<testRows, comparisons, comparePage, history>>

SaveComparison ==
  /\ comparing.pc = "both"
  /\ LET result == CompareRuns(comparing.base, comparing.current) IN
     comparisons' = Append(comparisons,
                           [baseline |-> comparing.baseline, candidate |-> comparing.candidate,
                            result |-> result, hasRegressions |-> HasRegressions(result),
                            recorded |-> comparing.recorded])
  /\ comparing' = [comparing EXCEPT !.pc = "saved"]
  /\ UNCHANGED <<testRows, comparePage, history>>

(* The engine or the database fails.                                       *)
FailCompare ==
  /\ comparing.pc \in {"asked", "baseline", "both"}
  /\ comparing' = NotComparing
  /\ UNCHANGED <<testRows, comparisons, comparePage, history>>

-----------------------------------------------------------------------------
(* The page.                                                               *)
ServeRuns ==
  /\ comparePage.runs = "asked"
  /\ \E r \in Pickables \cup {NoPick} :
       comparePage' = [comparePage EXCEPT !.runs = "answered", !.marked = r]
  /\ UNCHANGED <<testRows, comparisons, comparing, history>>

(* An empty baseline picker takes the marked run.                          *)
Defaulted(baseline, marked) == IF baseline = NoPick THEN marked ELSE baseline

ReceiveRuns ==
  /\ comparePage.runs = "answered"
  /\ comparePage' = [comparePage EXCEPT !.runs = "known", !.baseline = Defaulted(@, comparePage.marked)]
  /\ UNCHANGED <<testRows, comparisons, comparing, history>>

(* The page shows the error instead, until it is opened again.             *)
LoseRuns ==
  /\ comparePage.runs = "answered"
  /\ comparePage' = [comparePage EXCEPT !.runs = "lost", !.marked = NoPick]
  /\ UNCHANGED <<testRows, comparisons, comparing, history>>

(* Bound: the pickers rest while a comparison is under way.                *)
Pickable == comparePage.runs = "known" /\ comparing.pc = "idle"

PickBaseline(r) ==
  /\ Pickable
  /\ comparePage' = [comparePage EXCEPT !.baseline = Defaulted(r, comparePage.marked)]
  /\ UNCHANGED <<testRows, comparisons, comparing, history>>

PickCandidate(r) ==
  /\ Pickable
  /\ comparePage' = [comparePage EXCEPT !.candidate = r]
  /\ UNCHANGED <<testRows, comparisons, comparing, history>>

Compare ==
  /\ Pickable
  /\ NoPick \notin {comparePage.baseline, comparePage.candidate}
  /\ comparePage.baseline # comparePage.candidate
  /\ Len(comparisons) < MaxComparisons
  /\ comparing' = [pc |-> "asked",
                   baseline |-> comparePage.baseline, candidate |-> comparePage.candidate,
                   base |-> NoResults, current |-> NoResults,
                   recorded |-> NoResults \notin {testRows[comparePage.baseline], testRows[comparePage.candidate]}]
  /\ UNCHANGED <<testRows, comparisons, comparePage, history>>

(* onSuccess                                                               *)
Compared ==
  /\ comparing.pc = "saved"
  /\ comparing' = NotComparing
  /\ comparePage' = [comparePage EXCEPT !.shown = Len(comparisons)]
  /\ history' = H!Invalidated(history, TRUE)
  /\ UNCHANGED <<testRows, comparisons>>

LoseCompared ==
  /\ comparing.pc = "saved"
  /\ comparing' = NotComparing
  /\ UNCHANGED <<testRows, comparisons, comparePage, history>>

(* The list is hidden while its last answer is an error.                   *)
View(i) ==
  /\ history.known /\ ~history.error /\ i \in history.data
  /\ comparePage' = [comparePage EXCEPT !.shown = i]
  /\ UNCHANGED <<testRows, comparisons, comparing, history>>

ServeHistory ==
  /\ history.fetch = "asked"
  /\ history' = H!Serve(history, StoredComparisons)
  /\ UNCHANGED <<testRows, comparisons, comparing, comparePage>>

ReceiveHistory ==
  /\ history.fetch = "answered"
  /\ history' = H!Receive(history)
  /\ UNCHANGED <<testRows, comparisons, comparing, comparePage>>

LoseHistory ==
  /\ history.fetch = "answered"
  /\ history' = H!Lose(history)
  /\ UNCHANGED <<testRows, comparisons, comparing, comparePage>>

RegressionNext ==
  \/ \E r \in Pickables, results \in Results : StoreTestRows(r, results)
  \/ ReadBaseline \/ ReadCandidate \/ SaveComparison \/ FailCompare
  \/ ServeRuns \/ ReceiveRuns \/ LoseRuns
  \/ \E r \in Pickables \cup {NoPick} : PickBaseline(r) \/ PickCandidate(r)
  \/ Compare \/ Compared \/ LoseCompared
  \/ \E i \in StoredComparisons : View(i)
  \/ ServeHistory \/ ReceiveHistory \/ LoseHistory

RegressionSpec == RegressionInit /\ [][RegressionNext]_regressionVars

-----------------------------------------------------------------------------
Passed(r, t) == t \in DOMAIN testRows[r] /\ testRows[r][t] = "passed"
Broken(r, t) == t \in DOMAIN testRows[r] /\ testRows[r][t] \in {"failed", "error"}

(* A comparison that was asked for when both runs had results names as     *)
(* regressions the tests that passed in the baseline run and do not run    *)
(* through in the candidate, and no other; and it is not called clean      *)
(* while there is one (the banner and the history of RegressionPage).  Not *)
(* a comparison with a run that is under way: its tests count as missing.  *)
ComparisonIsOfRuns ==
  \A i \in StoredComparisons :
    LET c == comparisons[i]
        regressed == {t \in Suite : Passed(c.baseline, t) /\ Broken(c.candidate, t)} IN
    c.recorded => /\ {t \in DOMAIN c.result : c.result[t] = "regression"} = regressed
                  /\ c.hasRegressions = (regressed # {})

(* The page says of a comparison without regressions: "Every test that     *)
(* passed in the baseline still passes." (RegressionPage.tsx:93).          *)
CleanIsStillPassing ==
  \A i \in StoredComparisons :
    LET c == comparisons[i] IN
    ~c.hasRegressions => \A t \in Suite : Passed(c.baseline, t) => Passed(c.candidate, t)
=============================================================================
