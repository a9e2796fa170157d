--------------------------- MODULE StateMachines ----------------------------
(***************************************************************************)
(* The transition maps and pure status functions every service of the      *)
(* backend shares (common/state-machines.ts).                              *)
(***************************************************************************)
EXTENDS Naturals

JobTransitions == [
  queued                  |-> {"running", "cancelled"},
  running                 |-> {"awaiting_approval", "completed",
                               "completed_with_warnings", "failed",
                               "cancelled", "timed_out"},
  awaiting_approval       |-> {"completed", "completed_with_warnings", "cancelled"},
  completed               |-> {},
  completed_with_warnings |-> {},
  failed                  |-> {},
  cancelled               |-> {},
  timed_out               |-> {}]

ExecutionTransitions == [
  queued           |-> {"preparing", "running", "cancelled", "error", "failed"},
  preparing        |-> {"running", "cancelled", "failed", "error", "timed_out"},
  running          |-> {"stopping", "passed", "failed", "partially_passed",
                        "cancelled", "timed_out", "completed", "error"},
  stopping         |-> {"cancelled", "failed", "passed", "partially_passed"},
  passed           |-> {},
  failed           |-> {},
  partially_passed |-> {},
  cancelled        |-> {},
  timed_out        |-> {},
  completed        |-> {},
  error            |-> {}]

ValidationTransitions == [
  not_started          |-> {"running"},
  pending              |-> {"running"},
  running              |-> {"passed", "passed_with_warnings", "failed"},
  passed               |-> {"running", "overridden"},
  passed_with_warnings |-> {"running", "overridden"},
  failed               |-> {"running", "overridden"},
  overridden           |-> {"running"}]

CiRunTransitions == [
  not_triggered |-> {"queued", "in_progress"},
  queued        |-> {"in_progress", "cancelled"},
  in_progress   |-> {"successful", "failed", "cancelled"},
  successful    |-> {},
  failed        |-> {},
  cancelled     |-> {}]

JobStatus == DOMAIN JobTransitions
ExecutionStatus == DOMAIN ExecutionTransitions
ValidationStatus == DOMAIN ValidationTransitions
CiRunStatus == DOMAIN CiRunTransitions

(* assertTransition throws a 409 exactly when this is false. *)
CanTransition(map, from, to) == from = to \/ to \in map[from]

IsTerminalJob(s) == JobTransitions[s] = {}
IsTerminalExecution(s) == ExecutionTransitions[s] = {}

(* Mutant: no failure counts as success, also when nothing ran. *)
OutcomeFromMetrics_EmptyIsGreen(m) ==
  IF m.failed + m.errors = 0 THEN "passed"
  ELSE IF m.passed > 0 THEN "partially_passed" ELSE "failed"

(* The counts of a run, 0 where the metrics object has no such key. *)
OutcomeFromMetrics(m) ==
  LET bad == m.failed + m.errors
  IN  IF bad = 0 /\ m.passed > 0 THEN "passed"
      ELSE IF bad > 0 /\ m.passed > 0 THEN "partially_passed"
      ELSE "failed"

(* e: archived, superseded, approval (approvalStatus), invalidated. *)
DeriveArtefactState(e) ==
  IF e.archived THEN "archived"
  ELSE IF e.superseded THEN "superseded"
  ELSE IF e.approval = "approved" /\ ~e.invalidated THEN "approved"
  ELSE IF e.approval = "rejected" THEN "rejected"
  ELSE IF e.invalidated \/ e.approval = "pending" THEN "under_review"
  ELSE "draft"
=============================================================================
