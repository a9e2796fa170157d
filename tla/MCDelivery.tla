------------------------------ MODULE MCDelivery ------------------------------
(***************************************************************************)
(* TLC instances of the parts that let something out to others: the        *)
(* workflow with its human gates, the pushes that queue for a workspace,   *)
(* the requests that share one refresh and one identity.  They share no    *)
(* state with each other, so each behaviour moves one of them, its focus,  *)
(* and fairness is that of the one that moves.                             *)
(***************************************************************************)
EXTENDS QAWorkflow, GitDelivery, Sessions

VARIABLE focus                  \* the component that moves

(* The components at rest start in one of their initial states.            *)
MCInit ==
  /\ focus \in {"workflow", "git", "session"}
  /\ Init /\ GitInit /\ SessionInit
  /\ focus # "git" => remote = NoMain
  /\ focus # "session" => cookie = Nobody

MCNext ==
  /\ UNCHANGED focus
  /\ IF focus = "workflow" THEN Next ELSE UNCHANGED vars
  /\ IF focus = "git" THEN GitNext ELSE UNCHANGED gitVars
  /\ IF focus = "session" THEN SessionNext ELSE UNCHANGED sessionVars

MCFairness ==
  /\ WF_vars(focus = "workflow" /\ Node)
  /\ GitFairness

MCSpec == MCInit /\ [][MCNext]_<<focus, vars, gitVars, sessionVars>> /\ MCFairness

-----------------------------------------------------------------------------
(* The workflow comes to a human or to its end, or is given up again.      *)
WorkflowRests == focus = "workflow" => ComesToRest
=============================================================================
