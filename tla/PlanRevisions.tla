---------------------------- MODULE PlanRevisions ----------------------------
(***************************************************************************)
(* A test plan and its numbered revisions: TestPlansService                *)
(* (modules/test-plans/test-plans.service.ts) with the decide() and        *)
(* onUpstreamModified() of ApprovalsService that it calls.                 *)
(*                                                                         *)
(* The handlers await between every read and write and save the plan they  *)
(* loaded as a whole.  The database refuses a second revision of a number. *)
(* The approvals table is in Artefacts; no handler here reads it.          *)
(***************************************************************************)
EXTENDS Naturals, FiniteSets, FiniteSetsExt

CONSTANTS
  Editors,       \* handlers in flight at a time
  MaxEdits       \* bound: edits and restores of the plan

VARIABLES
  plan,          \* the stored plan
  revisions,     \* the stored revisions, by number
  editor,        \* the handlers
  edits,         \* edits and restores so far; an edit numbers its content
  broken         \* history: a revision was refused or a handler broke off

planVars == <<plan, revisions, editor, edits, broken>>

Status == {"pending", "approved", "rejected"}

(* Title and sections are one content, a number; agreed is history, saved  *)
(* with the row: the content the approval speaks of.                       *)
Plan == [content : Nat, version : Nat, approval : Status, agreed : Nat]
NoPlan == [content |-> 0, version |-> 0, approval |-> "pending", agreed |-> 0]
Revision == [content : Nat, approval : Status]

Resting == [pc |-> "idle", copy |-> NoPlan, number |-> 0, isEdit |-> FALSE]
Progress == {"idle", "engine", "last", "plan", "insert", "reopen", "reopened",
             "load", "decide", "latest", "mirror"}

PlanTypeOK ==
  /\ plan \in Plan
  /\ \A v \in DOMAIN revisions : v \in Nat \ {0} /\ revisions[v] \in Revision
  /\ \A e \in Editors : /\ editor[e].pc \in Progress
                        /\ editor[e].copy \in Plan /\ editor[e].number \in Nat
                        /\ editor[e].isEdit \in BOOLEAN
  /\ edits \in 0..MaxEdits
  /\ broken \in BOOLEAN

PlanInit ==
  /\ plan = NoPlan
  /\ revisions = [v \in {} |-> [content |-> 0, approval |-> "pending"]]
  /\ editor = [e \in Editors |-> Resting]
  /\ edits = 0
  /\ broken = FALSE

-----------------------------------------------------------------------------
OnStep(e, pc) == editor[e].pc = pc
Proceed(e, h) == editor' = [editor EXCEPT ![e] = h]
ProceedTo(e, pc) == Proceed(e, [editor[e] EXCEPT !.pc = pc])
ProceedWith(e, pc, copy) == Proceed(e, [Resting EXCEPT !.pc = pc, !.copy = copy])
Return(e) == Proceed(e, Resting)

Saved == plan.content > 0
Latest == IF DOMAIN revisions = {} THEN 0 ELSE Max(DOMAIN revisions)

(* generate(): the plan is written when the engine has answered.           *)
Generate(e) ==
  /\ OnStep(e, "idle") /\ edits = 0
  /\ edits' = 1
  /\ ProceedWith(e, "last", [NoPlan EXCEPT !.content = 1])
  /\ UNCHANGED <<plan, revisions, broken>>

Edit(e, content) ==
  Proceed(e, [Resting EXCEPT !.pc = "last", !.copy = [plan EXCEPT !.content = content], !.isEdit = TRUE])

(* update() merges the new sections into the plan it loaded.               *)
UpdatePlan(e) ==
  /\ OnStep(e, "idle") /\ Saved /\ edits < MaxEdits
  /\ edits' = edits + 1
  /\ Edit(e, edits + 1)
  /\ UNCHANGED <<plan, revisions, broken>>

(* restoreRevision(): the content of a revision becomes a new revision.    *)
RestoreRevision(e, v) ==
  /\ OnStep(e, "idle") /\ Saved /\ v \in DOMAIN revisions /\ edits < MaxEdits
  /\ edits' = edits + 1
  /\ Edit(e, revisions[v].content)
  /\ UNCHANGED <<plan, revisions, broken>>

(* saveRevision(): the newest number is read, the plan saved with the next *)
(* one, the revision inserted with the approval the plan had.              *)
NextVersion(e) == Latest + 1

ReadLast(e) ==
  /\ OnStep(e, "last")
  /\ Proceed(e, [editor[e] EXCEPT !.pc = "plan", !.copy.version = NextVersion(e)])
  /\ UNCHANGED <<plan, revisions, edits, broken>>

(* Mutant: the plan is saved without a revision. *)
SavePlan_Alone(e) ==
  /\ OnStep(e, "plan")
  /\ plan' = editor[e].copy
  /\ ProceedTo(e, "reopen")
  /\ UNCHANGED <<revisions, edits, broken>>

SavePlan(e) ==
  /\ OnStep(e, "plan")
  /\ plan' = editor[e].copy
  /\ ProceedTo(e, "insert")
  /\ UNCHANGED <<revisions, edits, broken>>

(* Mutant: a number that is taken is overwritten. *)
InsertRevision_Replaces(e) ==
  /\ OnStep(e, "insert")
  /\ LET copy == editor[e].copy
     IN  /\ revisions' = [v \in DOMAIN revisions \cup {copy.version} |->
                            IF v = copy.version
                            THEN [content |-> copy.content, approval |-> copy.approval]
                            ELSE revisions[v]]
         /\ ProceedTo(e, "reopen")
         /\ UNCHANGED broken
  /\ UNCHANGED <<plan, edits>>

InsertRevision(e) ==
  /\ OnStep(e, "insert")
  /\ LET copy == editor[e].copy
         taken == copy.version \in DOMAIN revisions
         numbers == DOMAIN revisions \cup {copy.version}
     IN  IF taken
         THEN Return(e) /\ broken' = TRUE /\ UNCHANGED revisions
         ELSE /\ revisions' = [v \in numbers |->
                   IF v = copy.version
                   THEN [content |-> copy.content, approval |-> copy.approval]
                   ELSE revisions[v]]
              /\ IF editor[e].isEdit THEN ProceedWith(e, "reopen", NoPlan) ELSE Return(e)
              /\ UNCHANGED broken
  /\ UNCHANGED <<plan, edits>>

(* Mutant: the approval of an edited plan stays. *)
ReopenPlan_Never(e) ==
  /\ OnStep(e, "reopen")
  /\ Return(e)
  /\ UNCHANGED <<plan, revisions, edits, broken>>

(* onUpstreamModified(): the plan is loaded again and reopened.            *)
ReopenPlan(e) ==
  /\ OnStep(e, "reopen")
  /\ IF plan.approval = "approved"
     THEN ProceedWith(e, "reopened", [plan EXCEPT !.approval = "pending"])
     ELSE Return(e)
  /\ UNCHANGED <<plan, revisions, edits, broken>>

SaveReopenedPlan(e) ==
  /\ OnStep(e, "reopened")
  /\ plan' = editor[e].copy
  /\ Return(e)
  /\ UNCHANGED <<revisions, edits, broken>>

-----------------------------------------------------------------------------
(* approve(): decide() loads and saves the plan; the decision is copied to *)
(* the newest revision.                                                    *)

DecidePlan(e, status) ==
  /\ OnStep(e, "idle") /\ Saved
  /\ ProceedWith(e, "decide",
       [plan EXCEPT !.approval = status, !.agreed = IF status = "approved" THEN plan.content ELSE @])
  /\ UNCHANGED <<plan, revisions, edits, broken>>

SaveDecidedPlan(e) ==
  /\ OnStep(e, "decide")
  /\ plan' = editor[e].copy
  /\ ProceedWith(e, "latest", [NoPlan EXCEPT !.approval = plan'.approval])
  /\ UNCHANGED <<revisions, edits, broken>>

FindLatest(e) ==
  /\ OnStep(e, "latest")
  /\ IF Latest = 0 THEN Return(e)
     ELSE Proceed(e, [editor[e] EXCEPT !.pc = "mirror", !.number = Latest])
  /\ UNCHANGED <<plan, revisions, edits, broken>>

MirrorDecision(e) ==
  /\ OnStep(e, "mirror")
  /\ revisions' = [revisions EXCEPT ![editor[e].number].approval = editor[e].copy.approval]
  /\ Return(e)
  /\ UNCHANGED <<plan, edits, broken>>

(* An error or a stop of the backend between two awaits.                   *)
BreakOff(e) ==
  /\ ~OnStep(e, "idle")
  /\ Return(e)
  /\ broken' = TRUE
  /\ UNCHANGED <<plan, revisions, edits>>

Editor(e) ==
  \/ Generate(e) \/ UpdatePlan(e)
  \/ \E v \in DOMAIN revisions : RestoreRevision(e, v)
  \/ ReadLast(e) \/ SavePlan(e) \/ InsertRevision(e)
  \/ ReopenPlan(e) \/ SaveReopenedPlan(e)
  \/ \E status \in Status : DecidePlan(e, status)
  \/ SaveDecidedPlan(e) \/ FindLatest(e) \/ MirrorDecision(e)
  \/ BreakOff(e)

PlanNext == \E e \in Editors : Editor(e)

PlanSpec == PlanInit /\ [][PlanNext]_planVars

-----------------------------------------------------------------------------
(* A plan is approved with the content that was agreed to, unless an edit  *)
(* is still between its save and its reopening, or broke off there: other  *)
(* handlers may save what they loaded before, or load what is half done.   *)
PlanApprovalIsOfContent ==
  plan.approval = "approved" /\ plan.agreed # plan.content =>
    broken \/ \E e \in Editors : editor[e].pc \in {"insert", "reopen", "reopened"}

(* The content of the plan can be found among its revisions as soon as the *)
(* revision is inserted, whatever a stale save puts back, unless a         *)
(* revision was refused (the plan is saved before its revision is).        *)
ContentIsRevised ==
  Saved /\ ~broken =>
    \/ \E v \in DOMAIN revisions : revisions[v].content = plan.content
    \/ \E e \in Editors : OnStep(e, "insert") /\ editor[e].copy.content = plan.content

(* "numbers are never reused" (test-plan-revision.entity.ts): a revision   *)
(* keeps its content, and the next number is the only one added.           *)
HistoryOnlyGrows ==
  [][/\ DOMAIN revisions' \in {DOMAIN revisions, DOMAIN revisions \cup {Latest + 1}}
     /\ \A v \in DOMAIN revisions : revisions'[v].content = revisions[v].content]_planVars

(* "Mirror the decision onto the latest revision's metadata"               *)
(* (test-plans.service.ts:318): a revision is approved by a decision, it   *)
(* is not approved when it is inserted.                                    *)
NewRevisionIsUndecided ==
  [][\A v \in DOMAIN revisions' \ DOMAIN revisions : revisions'[v].approval # "approved"]_planVars
=============================================================================
