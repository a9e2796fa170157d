----------------------------- MODULE RunRecords -----------------------------
(***************************************************************************)
(* What is done with the row of a run once it has one: promotion to the    *)
(* baseline (modules/regression), its report (modules/reports), dispatch   *)
(* to CI and import of the verdict (modules/ci).                           *)
(*                                                                         *)
(* All of them load the row, wait for something else and save the row they *)
(* hold as a whole.  A save writes every column that differs from the      *)
(* table: what another handler has saved in between is undone.             *)
(***************************************************************************)
EXTENDS Naturals, FiniteSets

CONSTANTS
  Runs,          \* runs of one project
  Handlers,      \* requests and report jobs that are served at a time
  MaxReports     \* bound: reports generated of a run

VARIABLES
  row,           \* execution_runs
  task,          \* the handlers: where they are, the rows they hold
  meant,         \* history: the columns of row as handlers meant them, until raced
  raced          \* history: two handlers have held rows at the same time
recordVars == <<row, task, meant, raced>>

Reports == 0..MaxReports
Verdicts == {"passed", "failed"}
Row == [status : {"none", "running"} \cup Verdicts, report : Reports, baseline : BOOLEAN]

NoRun == [status |-> "none", report |-> 0, baseline |-> FALSE]
Idle == [pc |-> "idle"]
Handling == [pc : {"promote", "cleared", "generate", "rendered", "dispatched", "import"},
             run : Runs, held : Row]

RecordTypeOK ==
  /\ row \in [Runs -> Row] /\ meant \in [Runs -> Row]
  /\ raced \in BOOLEAN
  /\ task \in [Handlers -> {Idle} \cup Handling]

RecordInit ==
  /\ row \in [Runs -> {NoRun, [NoRun EXCEPT !.status = "passed"]}]
  /\ meant = row
  /\ task = [h \in Handlers |-> Idle]
  /\ raced = FALSE

-----------------------------------------------------------------------------
At(h, pc) == task[h].pc = pc
There(r) == row[r].status # "none"
TaskIs(h, t) == task' = [task EXCEPT ![h] = t]

(* The handlers that will save the row they hold.                          *)
HoldsRun(h) == task[h].pc \in {"promote", "cleared", "import", "dispatched", "rendered"}

Take(h, pc, r, held) ==
  /\ TaskIs(h, [pc |-> pc, run |-> r, held |-> held])
  /\ raced' = (raced \/ \E g \in Handlers \ {h} : HoldsRun(g))

(* The columns `upd` sets, in the row the handler holds and as meant.      *)
SaveRow(h, Upd(_)) ==
  LET r == task[h].run IN
  /\ row' = [row EXCEPT ![r] = Upd(task[h].held)]
  /\ meant' = IF raced THEN row' ELSE [meant EXCEPT ![r] = Upd(@)]

(* A read or a save fails: the handler answers with an error.              *)
Fail(h) ==
  /\ task[h].pc # "idle" /\ TaskIs(h, Idle)
  /\ UNCHANGED <<row, meant, raced>>

-----------------------------------------------------------------------------
(* promoteBaseline(): the other runs first, then the one it has loaded.    *)
Promote(h, r) ==
  /\ At(h, "idle") /\ There(r) /\ Take(h, "promote", r, row[r])
  /\ UNCHANGED <<row, meant>>

(* Mutant: only the promoted run is written. *)
Cleared_None(rows, r) == rows

Cleared(rows, r) == [s \in Runs |-> [rows[s] EXCEPT !.baseline = @ /\ s = r]]

ClearOthers(h) ==
  /\ At(h, "promote")
  /\ row' = Cleared(row, task[h].run) /\ meant' = Cleared(meant, task[h].run)
  /\ TaskIs(h, [task[h] EXCEPT !.pc = "cleared"])
  /\ UNCHANGED raced

SaveBaseline(h) ==
  /\ At(h, "cleared")
  /\ SaveRow(h, LAMBDA x : [x EXCEPT !.baseline = TRUE])
  /\ TaskIs(h, Idle) /\ UNCHANGED raced

-----------------------------------------------------------------------------
(* generate(): the job renders from the row the request had loaded, and    *)
(* stores the report in a row it loads afresh.                             *)
GenerateReport(h, r) ==
  /\ At(h, "idle") /\ There(r)
  /\ TaskIs(h, [pc |-> "generate", run |-> r, held |-> row[r]])
  /\ UNCHANGED <<row, meant, raced>>

(* Mutant: the report is stored in the row of the request. *)
RowForReport_Requested(h) == task[h].held

RowForReport(h) == row[task[h].run]

Render(h) ==
  /\ At(h, "generate")
  /\ Take(h, "rendered", task[h].run, RowForReport(h))
  /\ UNCHANGED <<row, meant>>

StoreReport(h) ==
  /\ At(h, "rendered") /\ meant[task[h].run].report < MaxReports
  /\ SaveRow(h, LAMBDA x : [x EXCEPT !.report = meant[task[h].run].report + 1])
  /\ TaskIs(h, Idle) /\ UNCHANGED raced

-----------------------------------------------------------------------------
(* dispatch(): a row of its own, the request to GitHub, the row again.     *)
Dispatch(h, r) ==
  /\ At(h, "idle") /\ ~There(r)
  /\ LET new == [NoRun EXCEPT !.status = "running"] IN
     /\ row' = [row EXCEPT ![r] = new] /\ meant' = [meant EXCEPT ![r] = new]
     /\ Take(h, "dispatched", r, new)

SaveDispatched(h) ==
  /\ At(h, "dispatched")
  /\ SaveRow(h, LAMBDA x : x)
  /\ TaskIs(h, Idle) /\ UNCHANGED raced

(* importRun(): whatever the status of the row, again and again.           *)
Import(h, r) ==
  /\ At(h, "idle") /\ There(r) /\ Take(h, "import", r, row[r])
  /\ UNCHANGED <<row, meant>>

(* normaliseCiConclusion(): what it does not know is a pass; a cancelled or *)
(* timed out workflow is taken over as such, like a failed one here.       *)
Conclusions == [success |-> "passed", failure |-> "failed", other |-> "passed"]

SaveImported(h, conclusion) ==
  /\ At(h, "import")
  /\ SaveRow(h, LAMBDA x : [x EXCEPT !.status = Conclusions[conclusion]])
  /\ TaskIs(h, Idle) /\ UNCHANGED raced

-----------------------------------------------------------------------------
Serve(h) ==
  \/ \E r \in Runs : \/ Promote(h, r) \/ GenerateReport(h, r) \/ Dispatch(h, r) \/ Import(h, r)
  \/ ClearOthers(h) \/ SaveBaseline(h) \/ Render(h) \/ StoreReport(h)
  \/ SaveDispatched(h) \/ \E c \in DOMAIN Conclusions : SaveImported(h, c)
  \/ Fail(h)

RecordNext == \E h \in Handlers : Serve(h)

RecordSpec == RecordInit /\ [][RecordNext]_recordVars

-----------------------------------------------------------------------------
(* "re-importing updates the same run", "Report stored", "a promotion      *)
(* always replaces": every column of a run is what the last handler that   *)
(* set it meant, unless two handlers have held rows at the same time.  A   *)
(* failed promotion keeps what it has cleared.                             *)
LostOnlyByRace == ~raced => row = meant

(* "Single-baseline invariant" (regression.service.ts:140), by itself.     *)
SingleBaseline == Cardinality({r \in Runs : row[r].baseline}) <= 1

(* The same while handlers do not overlap, also when promotions fail.      *)
BaselineWithoutRace == ~raced => SingleBaseline
=============================================================================
