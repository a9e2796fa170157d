------------------------------- MODULE MCJobs -------------------------------
(* TLC instances of Jobs. *)
EXTENDS Jobs

(* The worker of the test plans from its engine call on: the call, the     *)
(* checkpoint before the rows, an entry and the plan                       *)
(* (test-plans.service.ts:129, 152, 166, 171).                             *)
PlanScript == <<"call", "checkpoint", "log", "save">>

(* The worker of the test cases on a requirement that gets two of them: the *)
(* checkpoint, the engine call, the entry after it and the rows; its other  *)
(* entries are left out (test-cases.service.ts:189, 202, 221, 236).         *)
CasesScript == <<"checkpoint", "call", "log", "save", "save">>
=============================================================================
