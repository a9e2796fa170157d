--------------------------- MODULE GenerationPage ---------------------------
(***************************************************************************)
(* A page that generates artefacts and lists them: the worker of its jobs, *)
(* the console that follows the active job (LiveJobConsole), the list      *)
(* (react-query) and the events that connect them (useProjectEvents).      *)
(* The four pages share console, list and events; their workers differ in  *)
(* where they save, look for a cancellation and announce.                  *)
(*                                                                         *)
(* A job is only its status here: Jobs has execute(), cancel() and the     *)
(* saves that overwrite each other.                                        *)
(***************************************************************************)
EXTENDS Naturals, Sequences, SequencesExt

CONSTANTS
  MaxJobs,      \* bound: jobs, created by Generate or by Retry
  Parts         \* requirements, or files, of a generation

VARIABLES
  kind,         \* what the page generates
  pageJob,      \* status, next step of the worker (0: none), whether its end was told
  late,         \* history: jobs that saved a row when they were over
  active,       \* activeJobId of the page
  ask,          \* the job whose id Generate or Retry waits for
  console,      \* the query ['jobs', active] and finishedRef
  list          \* the query of the artefacts: its data are the jobs of which it
                \* lacks a row

pageVars == <<kind, pageJob, late, active, ask, console, list>>
pageJobVars == <<pageJob, late>>

NoId == 0
Attempts == 1..MaxJobs
Kinds == {"analysis", "test_plan", "test_cases", "automation"}
(* "failed" stands for cancelled and timed_out, too: the console offers    *)
(* Retry for the three.                                                    *)
Over == {"completed", "failed"}

UnusedJobs == {j \in Attempts : pageJob[j].status = "absent"}

List == INSTANCE Queries WITH Elements <- Attempts

AbsentJob == [status |-> "absent", at |-> 0, told |-> FALSE]
ConsoleOfNothing == [shown |-> "loading", fetch |-> "idle", finished |-> FALSE]

PageTypeOK ==
  /\ kind \in Kinds
  /\ pageJob \in [Attempts -> [status : {"absent", "running"} \cup Over, at : Nat,
                              told : BOOLEAN]]
  /\ late \subseteq Attempts
  /\ active \in Attempts \cup {NoId}
  /\ ask \in Attempts \cup {NoId}
  /\ console \in [shown : {"loading", "running"} \cup Over,
                  fetch : {"idle", "asked", "running"} \cup Over, finished : BOOLEAN]
  /\ list \in List!Query

PageInit ==
  /\ kind \in Kinds
  /\ pageJob = [j \in Attempts |-> AbsentJob]
  /\ late = {}
  /\ active = NoId
  /\ ask = NoId
  /\ console = ConsoleOfNothing
  /\ list = List!Ask(List!Unasked)

-----------------------------------------------------------------------------
(* The awaits of the workers: "call" is a checkpoint, an entry and an      *)
(* engine call, "checkpoint" and "log" stand for several in a row.         *)
ForEach(steps) == FlattenSeq([i \in 1..Parts |-> steps])

AnalysisSteps == ForEach(<<"call", "save", "log", "emit">>)

CasesSteps == ForEach(<<"call", "log", "save">>) \o <<"log", "emit">>

PlanSteps == <<"call", "checkpoint", "save">>

AutomationSteps == <<"call", "log">> \o ForEach(<<"save">>) \o <<"emit">>

WorkerSteps ==
  CASE kind = "analysis" -> AnalysisSteps
    [] kind = "test_cases" -> CasesSteps
    [] kind = "test_plan" -> PlanSteps
    [] kind = "automation" -> AutomationSteps

Step(j) == IF pageJob[j].at = 0 THEN "none"
           ELSE IF pageJob[j].at > Len(WorkerSteps) THEN "return" ELSE WorkerSteps[pageJob[j].at]

-----------------------------------------------------------------------------
(* A refetch of the job starts over on the same terms.                     *)
RefetchJob ==
  console' = IF console.fetch # "idle" /\ console.shown = "loading"
             THEN console
             ELSE [console EXCEPT !.fetch = "asked"]

(* An artefact is announced to the socket of the page, which may be down.  *)
OnReady == list' \in {list, List!Invalidated(list, TRUE)}

(* The end of a job is announced to the socket of the console.             *)
OnJobOver(j) == (active = j /\ RefetchJob) \/ UNCHANGED console

-----------------------------------------------------------------------------
(* The jobs.                                                               *)
Goes(j) == pageJob' = [pageJob EXCEPT ![j].at = @ + 1]

(* execute() has latched the abort when it settled: the worker gives up.   *)
GivesUp(j) == pageJob' = [pageJob EXCEPT ![j].at = 0]

Ends(j, status) == pageJob' = [pageJob EXCEPT ![j].status = status, ![j].at = 0]

Running(j) == pageJob[j].status = "running"

LogStep(j) ==
  /\ Step(j) = "log"
  /\ IF Running(j) THEN Goes(j) ELSE GivesUp(j)
  /\ UNCHANGED <<kind, late, active, ask, console, list>>

(* A cancellation is found, or the engine fails; or neither.               *)
CallEngine(j) ==
  /\ Step(j) \in {"call", "checkpoint"}
  /\ IF Running(j)
     THEN Goes(j) \/ Ends(j, "failed")
     ELSE GivesUp(j)
  /\ UNCHANGED <<kind, late, active, ask, console, list>>

(* A row that is saved is in no answer that was given before.              *)
Lacking(j) ==
  [list EXCEPT !.data = IF list.known THEN @ \cup {j} ELSE @,
               !.answer = IF list.fetch = "answered" THEN @ \cup {j} ELSE @]

SaveRow(j) ==
  /\ Step(j) = "save"
  /\ list' = Lacking(j)
  /\ late' = IF Running(j) THEN late ELSE late \cup {j}
  /\ Goes(j)
  /\ UNCHANGED <<kind, active, ask, console>>

EmitReady(j) ==
  /\ Step(j) = "emit"
  /\ OnReady
  /\ Goes(j)
  /\ UNCHANGED <<kind, late, active, ask, console>>

Return(j) ==
  /\ Step(j) = "return"
  /\ IF Running(j) THEN Ends(j, "completed") ELSE GivesUp(j)
  /\ UNCHANGED <<kind, late, active, ask, console, list>>

TimeOut(j) ==
  /\ Running(j) /\ pageJob[j].at # 0
  /\ pageJob' = [pageJob EXCEPT ![j].status = "failed"]
  /\ UNCHANGED <<kind, late, active, ask, console, list>>

(* The verdict is stored before it is logged and announced.                *)
AnnounceEnd(j) ==
  /\ pageJob[j].status \in Over /\ ~pageJob[j].told
  /\ pageJob' = [pageJob EXCEPT ![j].told = TRUE]
  /\ OnJobOver(j)
  /\ IF pageJob[j].status = "completed" THEN OnReady ELSE UNCHANGED list
  /\ UNCHANGED <<kind, late, active, ask>>

-----------------------------------------------------------------------------
(* The page and its console.                                               *)
(* The job is inserted and dispatched, and the mutation waits for its id.  *)
(* Bounds: a mutation at a time, when the job before is over, announced    *)
(* and without a worker.                                                   *)
Create ==
  /\ ask = NoId
  /\ \A j \in Attempts \ UnusedJobs : pageJob[j].told /\ pageJob[j].at = 0
  /\ \E j \in UnusedJobs :
       /\ \A k \in UnusedJobs : j <= k
       /\ pageJob' = [pageJob EXCEPT ![j] = [AbsentJob EXCEPT !.status = "running", !.at = 1]]
       /\ ask' = j
  /\ UNCHANGED <<kind, late, active, console, list>>

PressGenerate == Create

PressRetry == active # NoId /\ console.shown = "failed" /\ Create

(* Mutant: the console does not forget that its last job was finished. *)
Follow_KeepsFinished(j) ==
  /\ active' = j
  /\ console' = [shown |-> "loading", fetch |-> "asked", finished |-> console.finished]

(* The console of the new job starts over.                                 *)
Follow(j) ==
  /\ active' = j
  /\ console' = [shown |-> "loading", fetch |-> "asked", finished |-> FALSE]

Created ==
  /\ ask # NoId
  /\ Follow(ask)
  /\ ask' = NoId
  /\ UNCHANGED <<kind, pageJobVars, list>>

(* The answer is lost: nobody follows the job.                             *)
LoseCreated ==
  /\ ask # NoId
  /\ ask' = NoId
  /\ UNCHANGED <<kind, pageJobVars, active, console, list>>

(* POST /jobs/{id}/cancel is answered: a checkpoint of the worker will     *)
(* find it, or an entry will have taken it back.                           *)
PressCancel ==
  /\ active # NoId /\ console.shown = "running"
  /\ RefetchJob
  /\ UNCHANGED <<kind, pageJobVars, active, ask, list>>

(* Mutant: the job is asked for until it is known, then the socket tells. *)
Polling_UntilKnown == console.shown = "loading"

Polling == console.shown \notin Over

Poll ==
  /\ active # NoId /\ Polling
  /\ console.fetch = "idle"
  /\ console' = [console EXCEPT !.fetch = "asked"]
  /\ UNCHANGED <<kind, pageJobVars, active, ask, list>>

ServeJob ==
  /\ console.fetch = "asked"
  /\ console' = [console EXCEPT !.fetch = pageJob[active].status]
  /\ UNCHANGED <<kind, pageJobVars, active, ask, list>>

(* The effect on a finished job calls onFinished once.                     *)
ReceiveJob ==
  /\ console.fetch \in {"running"} \cup Over
  /\ console' = [shown |-> console.fetch, fetch |-> "idle",
                 finished |-> console.finished \/ console.fetch \in Over]
  /\ list' = IF console.fetch \in Over /\ ~console.finished THEN List!Invalidated(list, TRUE)
             ELSE list
  /\ UNCHANGED <<kind, pageJobVars, active, ask>>

LoseJob ==
  /\ console.fetch \in {"running"} \cup Over
  /\ console' = [console EXCEPT !.fetch = "idle"]
  /\ UNCHANGED <<kind, pageJobVars, active, ask, list>>

ServeList ==
  /\ list.fetch = "asked"
  /\ list' = List!Serve(list, {})
  /\ UNCHANGED <<kind, pageJobVars, active, ask, console>>

ReceiveList ==
  /\ list.fetch = "answered"
  /\ list' = List!Receive(list)
  /\ UNCHANGED <<kind, pageJobVars, active, ask, console>>

LoseList ==
  /\ list.fetch = "answered"
  /\ list' = List!Lose(list)
  /\ UNCHANGED <<kind, pageJobVars, active, ask, console>>

PageNext ==
  \/ \E j \in Attempts : \/ LogStep(j) \/ CallEngine(j) \/ SaveRow(j)
                         \/ EmitReady(j) \/ Return(j) \/ TimeOut(j) \/ AnnounceEnd(j)
  \/ PressGenerate \/ PressRetry
  \/ Created \/ LoseCreated
  \/ PressCancel
  \/ Poll \/ ServeJob \/ ReceiveJob \/ LoseJob
  \/ ServeList \/ ReceiveList \/ LoseList

(* The interval of the query fires again and again and the backend         *)
(* answers; not every answer is lost.                                      *)
PageFairness == WF_pageVars(Poll) /\ WF_pageVars(ServeJob) /\ SF_pageVars(ReceiveJob)

PageSpec == PageInit /\ [][PageNext]_pageVars /\ PageFairness

-----------------------------------------------------------------------------
(* A page whose console shows the end of its job lists all that the job    *)
(* has saved (onFinished).  Not a row that a worker saves after its job    *)
(* has timed out, and not if the list was still loading for the first time *)
(* when the console saw the end.                                           *)
FinishedListIsFresh ==
  console.shown \in Over /\ active \notin late /\ List!Settled(list)
  => active \notin list.data

(* The console never stays behind the end of its job for ever, whatever    *)
(* envelopes its socket misses and whichever answers are lost: the         *)
(* interval of the query asks again (refetchInterval).                     *)
FinishIsSeen ==
  []<>(active # NoId /\ pageJob[active].status \in Over => console.shown \in Over)

(* The context of a job that is over stops the worker before it writes     *)
(* more ("no more artefact writes under a terminal job").                  *)
NoRowWhenOver == late = {}
=============================================================================
