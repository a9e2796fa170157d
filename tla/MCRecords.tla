------------------------------ MODULE MCRecords ------------------------------
(***************************************************************************)
(* TLC instances of the components that keep a project's records: its      *)
(* sequences, settings, documents, requirements and plan, the editors of   *)
(* its pages, and of its runs the live feed, the results, the reports, the *)
(* findings and the comparisons.  They share no state with each other, so  *)
(* each behaviour moves one of them, its focus.                            *)
(***************************************************************************)
EXTENDS SequenceAllocator, ProjectSettings, Derivation, PlanRevisions, Editors, Uploads,
        RunRecords, RunResults, Findings, Regression, LiveFeed

VARIABLE focus       \* the component that moves

MCCounts == 1..2
MCMinima == {0, 2}
TextsOfDocuments == [doc \in Documents |-> Texts]

Components == {"sequences", "settings", "derivation", "plan", "editors", "uploads",
               "records", "results", "findings", "regression", "feed", "cut feed"}

(* The live feed with answers that have no room for all lines.             *)
CutFeed == INSTANCE LiveFeed WITH Page <- 1

(* The components at rest start in one of their initial states.            *)
MCInit ==
  /\ focus \in Components
  /\ Init /\ ProjectInit /\ DerivationInit
  /\ PlanInit /\ EditorInit /\ UploadInit
  /\ RecordInit /\ ResultInit /\ FindingInit
  /\ RegressionInit /\ FeedInit
  /\ focus # "editors" => form = "code"
  /\ focus # "uploads" => kind = [f \in Files |-> "good"]
  /\ focus # "records" => row = [r \in Runs |-> NoRun]
  /\ focus \notin {"feed", "cut feed"} => feed = "log"

MCNext ==
  /\ UNCHANGED focus
  /\ IF focus = "sequences" THEN Next ELSE UNCHANGED vars
  /\ IF focus = "settings" THEN ProjectNext ELSE UNCHANGED projectVars
  /\ IF focus = "derivation" THEN DerivationNext ELSE UNCHANGED derivationVars
  /\ IF focus = "plan" THEN PlanNext ELSE UNCHANGED planVars
  /\ IF focus = "editors" THEN EditorNext ELSE UNCHANGED editorVars
  /\ IF focus = "uploads" THEN UploadNext ELSE UNCHANGED uploadVars
  /\ IF focus = "records" THEN RecordNext ELSE UNCHANGED recordVars
  /\ IF focus = "results" THEN ResultNext ELSE UNCHANGED resultVars
  /\ IF focus = "findings" THEN FindingNext ELSE UNCHANGED findingVars
  /\ IF focus = "regression" THEN RegressionNext ELSE UNCHANGED regressionVars
  /\ CASE focus = "feed" -> FeedNext
       [] focus = "cut feed" -> CutFeed!FeedNext
       [] OTHER -> UNCHANGED feedVars

allVars ==
  <<focus, vars, projectVars, derivationVars, planVars, editorVars, uploadVars,
    recordVars, resultVars, findingVars, regressionVars, feedVars>>
MCSpec == MCInit /\ [][MCNext]_allVars
=============================================================================
