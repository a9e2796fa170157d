---------------------------- MODULE MCGeneration ----------------------------
(***************************************************************************)
(* TLC instances of the generation jobs and of the page that follows one.  *)
(* Jobs has what execute() and cancel() do to a job, GenerationPage what   *)
(* becomes of its artefacts on the screen; they share no state, so each    *)
(* behaviour moves one of the two, its focus.                              *)
(***************************************************************************)
EXTENDS MCJobs, GenerationPage

VARIABLE focus        \* the component that moves

(* The component at rest starts in one of its initial states.              *)
MCInit ==
  /\ focus \in {"jobs", "page"}
  /\ Init /\ PageInit
  /\ focus # "page" => kind = "analysis"

MCNext ==
  /\ UNCHANGED focus
  /\ IF focus = "jobs" THEN Next ELSE UNCHANGED vars
  /\ IF focus = "page" THEN PageNext ELSE UNCHANGED pageVars

MCSpec ==
  MCInit /\ [][MCNext]_<<focus, vars, pageVars>> /\ Fairness /\ PageFairness
=============================================================================
