----------------------------- MODULE QAWorkflow -----------------------------
(***************************************************************************)
(* The LangGraph workflow of the engine (graph/workflow.py, nodes.py,      *)
(* state.py): one thread at a time on one project.  A node is one step and *)
(* returns a partial update of the thread's state; the rows it writes to   *)
(* the database outlive the thread, whose checkpoints are in memory.       *)
(*                                                                         *)
(* A generation stands for its content: the code of generation g is g.     *)
(***************************************************************************)
EXTENDS Naturals

CONSTANTS
  MAX_AUTOMATION_ATTEMPTS,
  Budget,  \* bound: generations for which a human or a new thread may still ask
  Paths    \* paths of generated files

ASSUME AttemptsAssumption == MAX_AUTOMATION_ATTEMPTS \in Nat \ {0}
ASSUME BudgetAssumption == Budget \in Nat

Generations == 1..(Budget + MAX_AUTOMATION_ATTEMPTS)
None == 0   \* no generated files

VARIABLES
  stage,      \* the node to run next, a gate that has paused, or "END"
  cases,      \* some of test_cases has a row in the database
  approvedCases, \* approved_case_ids is not empty
  files,      \* generated_files: a generation, or none
  report,     \* validation_report
  attempts,   \* automation_attempts
  decision,   \* approval_decisions of the code gate
  run,        \* execution_run_id, named after the code it ran, or none
  rows,       \* GeneratedArtifact rows: path and status of a generation
  made,       \* generations so far
  unseen,     \* generations since the last decision of a human (history)
  consented,  \* code a human has agreed to (history)
  executed,   \* code that has been run
  reported    \* code whose run has a report

vars == <<stage, cases, approvedCases, files, report, attempts, decision, run, rows,
          made, unseen, consented, executed, reported>>

Gates == {"await_case_approval", "await_code_approval"}
Nodes == {"analyse_requirements", "generate_plan", "generate_cases", "generate_automation",
          "validate_code", "execute_tests", "classify_failures", "generate_report"}
Decisions == {"approved", "rejected", "regenerate"}

NoReport == [of |-> None, passed |-> FALSE]
Report == [of : Generations \cup {None}, passed : BOOLEAN]

(* A generation whose commit failed is "lost": its files are in the state  *)
(* but it has no row.                                                      *)
RowStatus == {"lost", "draft", "approved", "rejected"}
Row == [path : Paths, status : RowStatus]
NoRow == [path |-> "none", status |-> "none"]
Saved(g) == rows[g].status \notin {"none", "lost"}

TypeOK ==
  /\ stage \in Nodes \cup Gates \cup {"END"}
  /\ cases \in BOOLEAN /\ approvedCases \in BOOLEAN
  /\ files \in Generations \cup {None}
  /\ report \in Report
  /\ attempts \in Nat
  /\ decision \in Decisions \cup {"none"}
  /\ run \in Generations \cup {None}
  /\ rows \in [Generations -> Row \cup {NoRow}]
  /\ made \in 0..(Budget + MAX_AUTOMATION_ATTEMPTS)
  /\ unseen \in Nat
  /\ consented \subseteq Generations
  /\ executed \subseteq Generations
  /\ reported \subseteq Generations

Init ==
  /\ stage = "analyse_requirements"
  /\ cases = FALSE /\ approvedCases = FALSE
  /\ files = None /\ report = NoReport /\ attempts = 0
  /\ decision = "none" /\ run = None
  /\ rows = [g \in Generations |-> NoRow] /\ made = 0 /\ unseen = 0
  /\ consented = {} /\ executed = {} /\ reported = {}

-----------------------------------------------------------------------------
(* Requirements, plan and cases.  A node that fails records the error and  *)
(* the graph goes on.                                                      *)
Analyse ==
  /\ stage = "analyse_requirements"
  /\ stage' = "generate_plan"
  /\ UNCHANGED <<cases, approvedCases, files, report, attempts, decision, run, rows,
                 made, unseen, consented, executed, reported>>

Plan ==
  /\ stage = "generate_plan"
  /\ stage' = "generate_cases"
  /\ UNCHANGED <<cases, approvedCases, files, report, attempts, decision, run, rows,
                 made, unseen, consented, executed, reported>>

(* No case may come out, or the commit may fail.                           *)
GenerateCases ==
  /\ stage = "generate_cases"
  /\ stage' = "await_case_approval"
  /\ cases' \in BOOLEAN
  /\ UNCHANGED <<approvedCases, files, report, attempts, decision, run, rows,
                 made, unseen, consented, executed, reported>>

route_after_case_approval(d, approved) ==
  IF d = "approved" /\ approved THEN "generate_automation"
  ELSE IF d = "regenerate" THEN "generate_cases"
  ELSE "END"

(* Cases without a row cannot be approved.  The state has the approved ids *)
(* also when the commit of their review_status has failed.                 *)
DecideCases(d) ==
  /\ stage = "await_case_approval"
  /\ approvedCases' = (d = "approved" /\ cases)
  /\ stage' = route_after_case_approval(d, approvedCases')
  /\ unseen' = 0
  /\ UNCHANGED <<cases, files, report, attempts, decision, run, rows,
                 made, consented, executed, reported>>

-----------------------------------------------------------------------------
(* Automation.                                                             *)
GenerateAutomation ==
  LET g == made + 1
  IN  /\ stage = "generate_automation"
      /\ stage' = "validate_code"
      /\ attempts' = attempts + 1
      /\ report' = NoReport
      /\ made' = g /\ unseen' = unseen + 1
      /\ \/ files' = None /\ UNCHANGED rows
         \/ /\ approvedCases
            /\ files' = g
            /\ \E p \in Paths, s \in {"draft", "lost"} :
                 rows' = [rows EXCEPT ![g] = [path |-> p, status |-> s]]
      /\ UNCHANGED <<cases, approvedCases, decision, run, consented, executed, reported>>

(* Mutants: one retry too many; code that passes after the gate was there  *)
(* once is not shown again; the check is repeated, not the generation.     *)
route_after_validation_OneMore(r, n) ==
  IF r.passed \/ n > MAX_AUTOMATION_ATTEMPTS THEN "await_code_approval" ELSE "generate_automation"
route_after_validation_ShownOnce(r, n) ==
  IF r.passed /\ n > 1 THEN "execute_tests"
  ELSE IF r.passed \/ n >= MAX_AUTOMATION_ATTEMPTS THEN "await_code_approval" ELSE "generate_automation"
route_after_validation_ChecksAgain(r, n) ==
  IF r.passed \/ n >= MAX_AUTOMATION_ATTEMPTS THEN "await_code_approval" ELSE "validate_code"

route_after_validation(r, n) ==
  IF r.passed \/ n >= MAX_AUTOMATION_ATTEMPTS
  THEN "await_code_approval"
  ELSE "generate_automation"

(* Mutant: a validation that crashes leaves the report of before. *)
ValidateCode_KeepsReport ==
  /\ stage = "validate_code"
  /\ report' \in {report} \cup {[of |-> files, passed |-> p] : p \in {FALSE, files # None}}
  /\ stage' = route_after_validation(report', attempts)
  /\ UNCHANGED <<cases, approvedCases, files, attempts, decision, run, rows,
                 made, unseen, consented, executed, reported>>

(* No files, or a validation that crashed, is a report that fails.         *)
ValidateCode ==
  /\ stage = "validate_code"
  /\ report' \in {[of |-> files, passed |-> p] : p \in {FALSE, files # None}}
  /\ stage' = route_after_validation(report', attempts)
  /\ UNCHANGED <<cases, approvedCases, files, attempts, decision, run, rows,
                 made, unseen, consented, executed, reported>>

route_after_code_approval(d) ==
  IF d = "approved" THEN "execute_tests"
  ELSE IF d = "regenerate" THEN "generate_automation"
  ELSE "END"

(* Mutant: the query orders by created_at ascending. *)
NewestRow_Oldest ==
  {g \in Generations : files # None /\ Saved(g) /\ rows[g].path = rows[files].path
     /\ \A h \in Generations : Saved(h) /\ rows[h].path = rows[files].path => g <= h}

(* The row that takes the decision: the newest of the files' path.         *)
NewestRow ==
  {g \in Generations : files # None /\ Saved(g) /\ rows[g].path = rows[files].path
     /\ \A h \in Generations : Saved(h) /\ rows[h].path = rows[files].path => h <= g}

(* Mutant: the verdict is stored as it is. *)
Judged_Verbatim(d) ==
  [g \in Generations |-> IF g \in NewestRow THEN [rows[g] EXCEPT !.status = d] ELSE rows[g]]

Judged(d) ==
  [g \in Generations |->
    IF g \in NewestRow
    THEN [rows[g] EXCEPT !.status = IF d = "regenerate" THEN "draft" ELSE d]
    ELSE rows[g]]

(* The commit of the decision may fail; the workflow goes on.              *)
DecideCode(d) ==
  /\ stage = "await_code_approval"
  /\ d = "regenerate" => made < Budget
  /\ decision' = d
  /\ attempts' = IF d = "regenerate" THEN 0 ELSE attempts
  /\ rows' \in {rows, Judged(d)}
  /\ unseen' = 0
  /\ consented' = IF d = "approved" /\ files # None THEN consented \cup {files} ELSE consented
  /\ stage' = route_after_code_approval(d)
  /\ UNCHANGED <<cases, approvedCases, files, report, run, made, executed, reported>>

-----------------------------------------------------------------------------
(* Execution and report.                                                   *)

(* Mutant: a failing execution returns no execution_run_id. *)
ExecuteTests_KeepsRun ==
  /\ stage = "execute_tests"
  /\ stage' = "classify_failures"
  /\ \/ UNCHANGED <<run, executed>>
     \/ /\ decision = "approved" /\ files # None
        /\ run' = files
        /\ executed' = executed \cup {files}
  /\ UNCHANGED <<cases, approvedCases, files, report, attempts, decision, rows,
                 made, unseen, consented, reported>>

(* Without an approval or files, or when the files cannot be written or    *)
(* the run not be started, there is no run id.                             *)
ExecuteTests ==
  /\ stage = "execute_tests"
  /\ stage' = "classify_failures"
  /\ \/ run' = None /\ UNCHANGED executed
     \/ /\ decision = "approved" /\ files # None
        /\ run' = files
        /\ executed' = executed \cup {files}
  /\ UNCHANGED <<cases, approvedCases, files, report, attempts, decision, rows,
                 made, unseen, consented, reported>>

ClassifyFailures ==
  /\ stage = "classify_failures"
  /\ stage' = "generate_report"
  /\ UNCHANGED <<cases, approvedCases, files, report, attempts, decision, run, rows,
                 made, unseen, consented, executed, reported>>

GenerateReport ==
  /\ stage = "generate_report"
  /\ stage' = "END"
  /\ reported' \in {reported, reported \cup ({run} \ {None})}
  /\ UNCHANGED <<cases, approvedCases, files, report, attempts, decision, run, rows,
                 made, unseen, consented, executed>>

-----------------------------------------------------------------------------
(* run_workflow(): without a resume value the graph starts again on what a *)
(* paused or finished thread has left in its state.                        *)
StartAgain ==
  /\ stage \in Gates \cup {"END"}
  /\ made < Budget
  /\ stage' = "analyse_requirements"
  /\ UNCHANGED <<cases, approvedCases, files, report, attempts, decision, run, rows,
                 made, unseen, consented, executed, reported>>

(* A new thread on the project, the old one given up or lost with its      *)
(* process.                                                                *)
NewThread ==
  /\ made < Budget
  /\ stage' = "analyse_requirements"
  /\ cases' = FALSE /\ approvedCases' = FALSE
  /\ files' = None /\ report' = NoReport /\ attempts' = 0
  /\ decision' = "none" /\ run' = None
  /\ UNCHANGED <<rows, made, unseen, consented, executed, reported>>

Node ==
  \/ Analyse \/ Plan \/ GenerateCases \/ GenerateAutomation \/ ValidateCode
  \/ ExecuteTests \/ ClassifyFailures \/ GenerateReport

Next ==
  \/ Node
  \/ \E d \in Decisions : DecideCases(d) \/ DecideCode(d)
  \/ StartAgain \/ NewThread

Spec == Init /\ [][Next]_vars

(* Nodes return: an agent call is bounded by its client's timeouts.  The   *)
(* human need not answer.                                                  *)
FairSpec == Spec /\ WF_vars(Node)
-----------------------------------------------------------------------------
Gate == INSTANCE HumanGate WITH
          Code <- Generations, Nothing <- None,
          offered <- IF stage = "await_code_approval" THEN files ELSE None

(* The code gate is reached with the verdict on the very files it shows,   *)
(* and with a failing one only when the retries are used up (NFR-REL-002). *)
GateSeesVerdict ==
  stage = "await_code_approval" =>
    /\ report.of = files
    /\ report.passed \/ attempts >= MAX_AUTOMATION_ATTEMPTS

(* Why the counters stay in bounds, and why an approval that is still in    *)
(* the state when execution is reached is one of the files in the state,   *)
(* and the run that is reported on one of these files.                     *)
CountersAgree ==
  /\ unseen <= MAX_AUTOMATION_ATTEMPTS
  /\ stage \in {"generate_automation", "validate_code"} =>
       unseen <= attempts /\ made <= Budget + unseen
  /\ stage = "generate_automation" => unseen = 0 \/ attempts < MAX_AUTOMATION_ATTEMPTS
  /\ stage \in {"analyse_requirements", "generate_plan", "generate_cases",
                "await_case_approval"} => made <= Budget

ConsentIsFresh ==
  stage = "execute_tests" => files = None \/ files \in consented

RunIsCurrent ==
  stage \in {"classify_failures", "generate_report"} => run \in {None} \cup ({files} \cap executed)

WorkflowInv ==
  TypeOK /\ CountersAgree /\ ConsentIsFresh /\ GateSeesVerdict /\ RunIsCurrent

(* FR-HITL-001 as a contract: whatever is regenerated, started again or    *)
(* left over from an earlier pass, only code that was laid before a human  *)
(* is run.                                                                 *)
GateContract == Gate!Spec

(* A row is approved only if a human saw its content, or if the row of     *)
(* what he saw was lost and a row of that path stood in for it.            *)
ApprovedRowWasShown ==
  \A g \in Generations :
    rows[g].status = "approved" =>
      \/ g \in consented
      \/ \E h \in consented : rows[h].status = "lost" /\ rows[h].path = rows[g].path /\ h > g

(* Why: the files at the gate are the newest generation there is.          *)
FilesAreNewest ==
  /\ \A g \in Generations : rows[g].status # "none" => g <= made
  /\ stage \in {"validate_code", "await_code_approval"} =>
       files = None \/ (files = made /\ rows[files].status # "none")

RowInv == FilesAreNewest /\ ApprovedRowWasShown

(* A report is written for the code approved last, never for the run of an *)
(* earlier pass whose id is left in the state.                             *)
ReportMatchesApproval ==
  [][stage = "generate_report" => reported' \subseteq reported \cup ({files} \cap executed)]_vars

(* "1 initial generation + at most 2 automatic retries" (workflow.py:42)   *)
(* before a human is asked, also when a thread is started again with the   *)
(* counter an earlier pass has left.                                       *)
RetriesBounded == unseen <= MAX_AUTOMATION_ATTEMPTS

(* Unless it is given up again and again, the workflow always comes to a   *)
(* human or to its end.                                                    *)
ComesToRest == []<>(stage \in Gates \cup {"END"}) \/ []<><<NewThread>>_vars
=============================================================================
