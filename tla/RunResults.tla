----------------------------- MODULE RunResults -----------------------------
(***************************************************************************)
(* What a run reports of its tests, from pytest to the report page.        *)
(*                                                                         *)
(* The plugin engine/service/step_events.py queues an event per outcome;   *)
(* a sender thread posts them one by one; the queue drops its oldest when  *)
(* full and what is left when pytest exits is lost.  The engine counts the *)
(* outcomes again, in the JUnit file, and publishes its verdict on the     *)
(* same stream.  EngineClient.streamRunEvents() chains a handler per event *)
(* and returns when the last one has settled; finalize() then stores a row *)
(* per outcome it has seen and settles the run.  ReportsService counts     *)
(* rows and metrics, and the report page shows its own reading of both.    *)
(* The states of a run before it is submitted and after it is stopped are  *)
(* module Executions'; the races of whole-row saves are RunRecords'.       *)
(***************************************************************************)
EXTENDS Naturals, Sequences, FiniteSets

CONSTANTS
  Tests,
  MaxReruns,     \* settings.retries
  QueueLimit     \* 1000 in the code

VARIABLES
  fate,          \* the outcome of each test as the JUnit file will tell it
  reruns,        \* failed attempts before it
  steps,         \* the sender's queue
  pytest,        \* running, exited or killed, and then reported or abandoned
  wire,          \* published and not read
  chain,         \* frames read whose handler has not settled
  lastSeen,      \* testOutcomes
  stream,        \* open, ended, stored (rows) or final
  run,           \* status and metrics of the row
  rows,          \* test_results
  report,        \* the run its job holds, its counts; late: built after finalize()
  lost,          \* history: an event has not been handled
  dropped        \* history: the verdict has not been handled
resultVars ==
  <<fate, reruns, steps, pytest, wire, chain, lastSeen, stream, run, rows, report, lost, dropped>>

Reported == {"passed", "failed", "skipped"}
NoMetrics == [known |-> FALSE, passed |-> 0, failed |-> 0, skipped |-> 0, errors |-> 0, flaky |-> 0, total |-> 0]
NoReport == [state |-> "none", of |-> [status |-> "running", metrics |-> NoMetrics], counts |-> <<>>, late |-> FALSE]

Ends == {"passed", "failed", "partially_passed", "timed_out"}
Metrics == [known : BOOLEAN, passed : Nat, failed : Nat, skipped : Nat, errors : Nat, flaky : Nat, total : Nat]
StepEvent == [type : {"test"}, test : Tests, outcome : Reported]
Verdict == [type : {"verdict"}, status : {"completed", "error", "timed_out"}, metrics : Metrics]

ResultTypeOK ==
  /\ fate \in [Tests -> Reported \cup {"none", "error"}] /\ reruns \in [Tests -> 0 .. MaxReruns]
  /\ steps \in Seq(StepEvent) /\ Len(steps) =< QueueLimit
  /\ pytest \in {"running", "exited", "killed", "reported", "abandoned"}
  /\ wire \in Seq(StepEvent \cup Verdict) /\ chain \in Seq(StepEvent \cup Verdict)
  /\ lastSeen \in [Tests -> Reported \cup {"none"}] /\ rows \in [Tests -> Reported \cup {"none"}]
  /\ stream \in {"open", "ended", "stored", "final"}
  /\ run.status \in Ends \cup {"running"} /\ run.metrics \in Metrics
  /\ report.state \in {"none", "requested", "stored"}
  /\ lost \in BOOLEAN /\ dropped \in BOOLEAN

ResultInit ==
  /\ fate = [t \in Tests |-> "none"] /\ reruns = [t \in Tests |-> 0]
  /\ steps = <<>> /\ pytest = "running" /\ wire = <<>> /\ chain = <<>>
  /\ lastSeen = [t \in Tests |-> "none"] /\ rows = [t \in Tests |-> "none"]
  /\ stream = "open" /\ run = [status |-> "running", metrics |-> NoMetrics]
  /\ report = NoReport /\ lost = FALSE /\ dropped = FALSE

-----------------------------------------------------------------------------
(* pytest and the engine.                                                  *)
Count(f, outcome) == Cardinality({t \in Tests : f[t] = outcome})

EmitStep(t, outcome) ==
  LET step == [type |-> "test", test |-> t, outcome |-> outcome] IN
  IF Len(steps) < QueueLimit THEN steps' = Append(steps, step) /\ UNCHANGED lost
  ELSE steps' = Append(Tail(steps), step) /\ lost' = TRUE

(* An attempt that will be rerun is reported as failed.                    *)
Rerun(t) ==
  /\ pytest = "running" /\ fate[t] = "none" /\ reruns[t] < MaxReruns
  /\ reruns' = [reruns EXCEPT ![t] = @ + 1]
  /\ EmitStep(t, "failed")
  /\ UNCHANGED <<fate, pytest, wire, chain, lastSeen, stream, run, rows, report, dropped>>

(* pytest_runtest_logreport(): an error in the setup of a test is silent.  *)
EndTest(t, outcome) ==
  /\ pytest = "running" /\ fate[t] = "none"
  /\ fate' = [fate EXCEPT ![t] = outcome]
  /\ IF outcome = "error" THEN UNCHANGED <<steps, lost>> ELSE EmitStep(t, outcome)
  /\ UNCHANGED <<reruns, pytest, wire, chain, lastSeen, stream, run, rows, report, dropped>>

(* The sender thread; the engine publishes what arrives on an open stream. *)
SendStep(arrives) ==
  /\ pytest = "running" /\ steps # <<>>
  /\ steps' = Tail(steps)
  /\ IF arrives /\ stream = "open" THEN wire' = Append(wire, Head(steps)) /\ UNCHANGED lost
     ELSE lost' = TRUE /\ UNCHANGED wire
  /\ UNCHANGED <<fate, reruns, pytest, chain, lastSeen, stream, run, rows, report, dropped>>

(* pytest_sessionfinish() waits five seconds for the queue; a killed       *)
(* session does not.                                                       *)
Exit(how) ==
  /\ pytest = "running"
  /\ how = "exited" => \A t \in Tests : fate[t] # "none"
  /\ pytest' = how /\ steps' = <<>> /\ lost' = (lost \/ steps # <<>>)
  /\ UNCHANGED <<fate, reruns, wire, chain, lastSeen, stream, run, rows, report, dropped>>

Measured ==
  IF pytest \in {"killed", "abandoned"} THEN NoMetrics
  ELSE [known |-> TRUE, passed |-> Count(fate, "passed"), failed |-> Count(fate, "failed"),
        skipped |-> Count(fate, "skipped"), errors |-> Count(fate, "error"), total |-> Cardinality(Tests),
        flaky |-> Cardinality({t \in Tests : reruns[t] > 0 /\ fate[t] = "passed"})]

ReportVerdict ==
  LET verdict == [type |-> "verdict", metrics |-> Measured,
                  status |-> IF pytest = "killed" THEN "timed_out"
                             ELSE IF Measured.errors > 0 /\ Measured.passed + Measured.failed = 0
                             THEN "error" ELSE "completed"] IN
  /\ pytest \in {"exited", "killed"}
  /\ pytest' = IF pytest = "exited" THEN "reported" ELSE "abandoned"
  /\ IF stream = "open" THEN wire' = Append(wire, verdict) /\ UNCHANGED dropped
     ELSE dropped' = TRUE /\ UNCHANGED wire
  /\ UNCHANGED <<fate, reruns, steps, chain, lastSeen, stream, run, rows, report, lost>>

-----------------------------------------------------------------------------
(* The backend.  A frame is chained when the chunk with its blank line has *)
(* been read; what is cut off stays in the buffer.                         *)
ReadFrame ==
  /\ stream = "open" /\ wire # <<>>
  /\ chain' = Append(chain, Head(wire)) /\ wire' = Tail(wire)
  /\ UNCHANGED <<fate, reruns, steps, pytest, lastSeen, stream, run, rows, report, lost, dropped>>

(* The stream ends, breaks or is aborted by the watchdog.                  *)
EndStream(broken) ==
  /\ stream = "open"
  /\ ~broken => pytest \in {"reported", "abandoned"} /\ wire = <<>>
  /\ stream' = "ended" /\ wire' = <<>>
  /\ lost' = (lost \/ \E i \in DOMAIN wire : wire[i].type = "test")
  /\ dropped' = (dropped \/ \E i \in DOMAIN wire : wire[i].type = "verdict")
  /\ UNCHANGED <<fate, reruns, steps, pytest, chain, lastSeen, run, rows, report>>

(* outcomeFromMetrics(). *)
OutcomeFrom(m) ==
  LET failed == m.failed + m.errors IN
  IF m.passed = 0 THEN "failed" ELSE IF failed = 0 THEN "passed" ELSE "partially_passed"

Settled(status) == status # "running"

(* Mutant: only the first outcome of a test is kept. *)
WithOutcome_First(step) == 
  IF lastSeen[step.test] = "none" THEN [lastSeen EXCEPT ![step.test] = step.outcome] ELSE lastSeen
WithOutcome(step) == [lastSeen EXCEPT ![step.test] = step.outcome]

(* onEvent() and onStatusEvent(). *)
HandleFrame ==
  LET frame == Head(chain) IN
  /\ chain # <<>> /\ chain' = Tail(chain)
  /\ IF frame.type = "test" THEN lastSeen' = WithOutcome(frame) ELSE UNCHANGED lastSeen
  /\ IF frame.type = "verdict" /\ ~Settled(run.status)
     THEN run' = [status |-> CASE frame.status = "timed_out" -> "timed_out"
                               [] frame.status = "error" -> "failed"
                               [] OTHER -> OutcomeFrom(frame.metrics),
                  metrics |-> frame.metrics]
     ELSE UNCHANGED run
  /\ UNCHANGED <<fate, reruns, steps, pytest, wire, stream, rows, report, lost, dropped>>

(* An event that cannot be stored is logged and passed over.               *)
FailFrame ==
  /\ chain # <<>> /\ chain' = Tail(chain)
  /\ lost' = (lost \/ Head(chain).type = "test") /\ dropped' = (dropped \/ Head(chain).type = "verdict")
  /\ UNCHANGED <<fate, reruns, steps, pytest, wire, lastSeen, stream, run, rows, report>>

(* Mutant: streamRunEvents() returns with handlers under way. *)
Drained_Never == TRUE
Drained == chain = <<>>

(* finalize(). *)
StoreResults ==
  /\ stream = "ended" /\ Drained
  /\ stream' = "stored"
  /\ rows' = IF \A t \in Tests : rows[t] = "none" THEN lastSeen ELSE rows
  /\ UNCHANGED <<fate, reruns, steps, pytest, wire, chain, lastSeen, run, report, lost, dropped>>

SettleRun ==
  /\ stream = "stored" /\ stream' = "final"
  /\ run' = IF Settled(run.status) THEN run ELSE [run EXCEPT !.status = OutcomeFrom(run.metrics)]
  /\ UNCHANGED <<fate, reruns, steps, pytest, wire, chain, lastSeen, rows, report, lost, dropped>>

-----------------------------------------------------------------------------
(* Reports.                                                                *)
AnyRow == \E t \in Tests : rows[t] # "none"

(* buildCounts(): rows carry no outcome but those the events reported.     *)
BuildCounts(m) ==
  LET Of(outcomes, metric) == IF AnyRow THEN Cardinality({t \in Tests : rows[t] \in outcomes}) ELSE metric
      passed == Of({"passed"}, m.passed)       failed == Of({"failed"}, m.failed)
      skipped == Of({"skipped"}, m.skipped)    blocked == Of({"error", "blocked"}, m.errors)
      flaky == Of({"flaky"}, m.flaky)
      executed == passed + failed + skipped + blocked + flaky
      planned == IF m.known THEN m.total ELSE executed
  IN [passed |-> passed, failed |-> failed, skipped |-> skipped, blocked |-> blocked, flaky |-> flaky,
      notRun |-> IF planned > executed THEN planned - executed ELSE 0,
      total |-> IF planned > executed THEN planned ELSE executed]

(* generate() holds the run as it is when the report is asked for, and     *)
(* reads the rows when its job runs.                                       *)
AskForReport ==
  /\ report.state # "requested"
  /\ report' = [state |-> "requested", of |-> run, counts |-> <<>>, late |-> FALSE]
  /\ UNCHANGED <<fate, reruns, steps, pytest, wire, chain, lastSeen, stream, run, rows, lost, dropped>>

BuildReport ==
  /\ report.state = "requested"
  /\ report' = [report EXCEPT !.state = "stored", !.counts = BuildCounts(report.of.metrics),
                           !.late = (stream = "final")]
  /\ UNCHANGED <<fate, reruns, steps, pytest, wire, chain, lastSeen, stream, run, rows, lost, dropped>>

ResultNext ==
  \/ \E t \in Tests : Rerun(t) \/ \E o \in Reported \cup {"error"} : EndTest(t, o)
  \/ \E arrives \in BOOLEAN : SendStep(arrives)
  \/ \E how \in {"exited", "killed"} : Exit(how)
  \/ ReportVerdict \/ ReadFrame \/ HandleFrame \/ FailFrame \/ StoreResults \/ SettleRun
  \/ \E broken \in BOOLEAN : EndStream(broken)
  \/ AskForReport \/ BuildReport

ResultSpec == ResultInit /\ [][ResultNext]_resultVars

-----------------------------------------------------------------------------
(* "The method only returns after the last handler settles" (engine.client *)
(* .ts:304): when the run is settled, a verdict of the engine that was     *)
(* read has been applied, so that a green run is never filed as failed     *)
(* with empty metrics.                                                     *)
VerdictIsApplied ==
  stream = "final" /\ pytest = "reported" /\ ~dropped /\ run.status # "timed_out" => run.metrics = Measured

(* "Per-test results derived from streamed test events"                    *)
(* (executions.service.ts:988): if no event was lost, a report built after *)
(* finalize() counts each reported outcome as often as it happened, reruns *)
(* and late handlers notwithstanding (a test whose rerun cannot be set up  *)
(* stays failed).                                                          *)
ReportIsOfRun ==
  report.late /\ ~lost /\ ~dropped /\ pytest = "reported"
    /\ run.status # "timed_out" /\ report.of = run /\ AnyRow
  => /\ report.counts.passed = Count(fate, "passed")
     /\ report.counts.failed =
          Cardinality({t \in Tests : fate[t] = "failed" \/ (fate[t] = "error" /\ reruns[t] > 0)})
     /\ report.counts.skipped = Count(fate, "skipped")
     /\ report.counts.total = Cardinality(Tests)

(* "Blocked = setup/collection errors; flaky = failed then passed on       *)
(* retry." (reports.service.ts:76)                                         *)
BlockedAreCounted ==
  report.late /\ ~lost /\ report.of = run /\ run.metrics.known
  => report.counts.blocked = run.metrics.errors
=============================================================================
