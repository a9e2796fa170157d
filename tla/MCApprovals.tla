----------------------------- MODULE MCApprovals -----------------------------
(***************************************************************************)
(* TLC instances of what is approved and of where it is: a case, the file  *)
(* made from it, the inbox of the project, and the publication of a        *)
(* report.  They share no state, so each behaviour moves one of the three, *)
(* its focus.                                                              *)
(***************************************************************************)
EXTENDS MCArtefacts, Publication, Inbox

VARIABLE focus       \* the component that moves

(* The component at rest starts in one of its initial states.              *)
MCInit ==
  /\ focus \in {"artefacts", "inbox", "report"}
  /\ ArtefactInit /\ InboxInit /\ PublicationInit
  /\ focus # "inbox" => \A a \in ListedAutomation : inboxRow[a].validation = "passed"

MCNext ==
  /\ UNCHANGED focus
  /\ IF focus = "artefacts" THEN ArtefactNext ELSE UNCHANGED artefactVars
  /\ IF focus = "inbox" THEN InboxNext ELSE UNCHANGED inboxVars
  /\ IF focus = "report" THEN PublicationNext ELSE UNCHANGED publicationVars

MCSpec == MCInit /\ [][MCNext]_<<focus, artefactVars, inboxVars, publicationVars>>
=============================================================================
