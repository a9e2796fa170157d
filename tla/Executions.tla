----------------------------- MODULE Executions -----------------------------
(***************************************************************************)
(* The execution runs of the backend: ExecutionsService                    *)
(* (modules/executions/executions.service.ts) over the table of runs, the  *)
(* queue pump with its concurrency limit, the start of a run on the        *)
(* engine, the event stream that settles it, the stall watchdog and Stop   *)
(* requests.                                                               *)
(*                                                                         *)
(* The service is one Node process: code between two awaits is atomic, and *)
(* everything else interleaves.  A handler that loads a row keeps it in    *)
(* memory; saving it later writes that whole row back (TypeORM save), so   *)
(* every handler below carries the row it read and a save replaces the     *)
(* stored row by it.                                                       *)
(***************************************************************************)
EXTENDS StateMachines, FiniteSets, Sequences

CONSTANTS
  Runs,           \* run ids, numbered in the order they are created
  Requests,       \* Stop requests the users send
  MaxConcurrent,  \* limits.maxConcurrent
  CreatedAt,      \* created_at of a run; two runs may have the same
  MaxAttempts,    \* maxAttempts of EngineClient.post() (3)
  Counts,         \* the metrics a finished engine run may report
  Stalls          \* whether timers may fire and streams may break

ASSUME RunsAssumption == Runs \subseteq Nat \ {0}
ASSUME LimitAssumption == MaxConcurrent \in Nat \ {0}
ASSUME CreatedAtAssumption ==
  /\ CreatedAt \in [Runs -> Nat]
  /\ \A r, s \in Runs : r < s => CreatedAt[r] <= CreatedAt[s]
ASSUME AttemptsAssumption == MaxAttempts \in Nat \ {0}
ASSUME CountsAssumption == Counts \subseteq [passed : Nat, failed : Nat, errors : Nat]
ASSUME StallsAssumption == Stalls \in BOOLEAN

VARIABLES
  row,          \* the stored runs: status and metrics
  creator,      \* create(): has the run been saved, has its pump been asked for
  activeRuns,   \* runs holding a concurrency slot (memory)
  pumps,        \* passes chained on pumpChain that have not begun
  pass,         \* the pass being made
  starter,      \* startRun/consumeStream of a run; a run can be claimed twice
  controllers,  \* runs with a registered AbortController
  aborted,      \* runs whose controller was aborted
  watchdog,     \* the stall timer of a run's stream and its callback
  request,      \* the Stop requests
  engine,       \* the engine's jobs of a run: all, those starting, those running
  events,       \* status events the engine has emitted and no handler has taken
  launches,     \* how often startRun called EngineClient.execute() for a run
  attempt       \* post(): the attempt a claim makes next

vars == <<row, creator, activeRuns, pumps, pass, starter, controllers, aborted,
          watchdog, request, engine, events, launches, attempt>>

memory == <<activeRuns, pumps, pass, controllers, aborted>>
sent == <<launches, attempt>>

NoRun == 0
NoMetrics == [passed |-> 0, failed |-> 0, errors |-> 0]
NoRow == [status |-> "absent", metrics |-> NoMetrics]

Rows == [status : ExecutionStatus, metrics : Counts \cup {NoMetrics}]

(* A second claim of a run that is still starting gets a slot of its own. *)
Claims == {1, 2}

Stored(r) == row[r].status # "absent"
Settled(r) == Stored(r) /\ IsTerminalExecution(row[r].status)
WithStatus(run, s) == [run EXCEPT !.status = s]

(* repo.save(run): the whole in-memory row replaces the stored one. *)
Save(r, run) == row' = [row EXCEPT ![r] = run]

StarterPC ==
  {"off", "reread", "prepare", "launch", "started", "open", "stream", "onStatus",
   "finalize", "conclude", "failing", "giveUp", "release"}
WatchdogPC == {"off", "armed", "read", "save", "abort"}
RequestPC == {"off", "check", "mark", "engine", "conclude", "release", "refused", "done"}

EngineOutcome == {"completed", "error", "cancelled", "timed_out"}
EventSet == [status : {"running"} \cup EngineOutcome, metrics : Counts \cup {NoMetrics}]

TypeOK ==
  /\ row \in [Runs -> Rows \cup {NoRow}]
  /\ creator \in [Runs -> {"off", "saved", "done"}]
  /\ activeRuns \subseteq Runs
  /\ pumps \in Nat
  /\ pass \in [pc : {"idle", "find", "claim"}, next : Runs \cup {NoRun}]
  /\ starter \in [Runs \X Claims ->
                    [pc : StarterPC, run : Rows \cup {NoRow}]]
  /\ controllers \subseteq Runs
  /\ aborted \subseteq Runs
  /\ watchdog \in [Runs -> [pc : WatchdogPC, run : Rows \cup {NoRow}]]
  /\ request \in [Requests -> [pc : RequestPC, id : Runs \cup {NoRun},
                               run : Rows \cup {NoRow}, abort : BOOLEAN]]
  /\ engine \in [Runs -> [jobs : Nat, starting : Nat, running : Nat]]
  /\ events \in [Runs -> Seq(EventSet)]
  /\ launches \in [Runs -> Nat]
  /\ attempt \in [Runs \X Claims -> 1..MaxAttempts]

NoJobs == [jobs |-> 0, starting |-> 0, running |-> 0]
IdleStarter == [pc |-> "off", run |-> NoRow]

Init ==
  /\ row = [r \in Runs |-> NoRow]
  /\ creator = [r \in Runs |-> "off"]
  /\ activeRuns = {}
  /\ pumps = 0
  /\ pass = [pc |-> "idle", next |-> NoRun]
  /\ starter = [s \in Runs \X Claims |-> IdleStarter]
  /\ controllers = {}
  /\ aborted = {}
  /\ watchdog = [r \in Runs |-> [pc |-> "off", run |-> NoRow]]
  /\ request = [q \in Requests |->
                  [pc |-> "off", id |-> NoRun, run |-> NoRow, abort |-> FALSE]]
  /\ engine = [r \in Runs |-> NoJobs]
  /\ events = [r \in Runs |-> <<>>]
  /\ launches = [r \in Runs |-> 0]
  /\ attempt = [s \in Runs \X Claims |-> 1]

-----------------------------------------------------------------------------
(* create(): the run is saved as queued; audit, queue position and opening *)
(* log lines are awaited before the pump is asked for.                     *)

(* Mutant: the run is saved with a status outside the enumeration. *)
Create_UnknownStatus(r) ==
  /\ creator[r] = "off"
  /\ \A s \in Runs : s < r => creator[s] # "off"
  /\ Save(r, [status |-> "pending", metrics |-> NoMetrics])
  /\ creator' = [creator EXCEPT ![r] = "saved"]
  /\ UNCHANGED <<memory, starter, watchdog, request, engine, events, sent>>

Create(r) ==
  /\ creator[r] = "off"
  /\ \A s \in Runs : s < r => creator[s] # "off"
  /\ Save(r, [status |-> "queued", metrics |-> NoMetrics])
  /\ creator' = [creator EXCEPT ![r] = "saved"]
  /\ UNCHANGED <<memory, starter, watchdog, request, engine, events, sent>>

PumpCreated(r) ==
  /\ creator[r] = "saved"
  /\ creator' = [creator EXCEPT ![r] = "done"]
  /\ pumps' = pumps + 1
  /\ UNCHANGED <<row, activeRuns, pass, starter, controllers, aborted, watchdog,
                 request, engine, events, sent>>

-----------------------------------------------------------------------------
(* pump()/pumpOnce(): passes are chained, so at most one is under way.     *)

Queued == {r \in Runs : row[r].status = "queued"}

(* Mutant: the query orders by created_at descending. *)
OldestQueued_Newest == IF Queued = {} THEN {NoRun}
                       ELSE {r \in Queued : \A s \in Queued : CreatedAt[r] >= CreatedAt[s]}

(* What findOne may return: created_at alone orders the query, so of two    *)
(* runs of the same instant either.                                        *)
OldestQueued == IF Queued = {} THEN {NoRun}
                ELSE {r \in Queued : \A s \in Queued : CreatedAt[r] <= CreatedAt[s]}

EndPass == pass' = [pc |-> "idle", next |-> NoRun]

(* Mutant: the loop test lets one run too many through. *)
Find_OffByOne ==
  /\ \/ pass.pc = "find" /\ UNCHANGED pumps
     \/ pass.pc = "idle" /\ pumps > 0 /\ pumps' = pumps - 1
  /\ IF Cardinality(activeRuns) <= MaxConcurrent
     THEN \E r \in OldestQueued : pass' = [pc |-> "claim", next |-> r]
     ELSE EndPass
  /\ UNCHANGED <<row, creator, activeRuns, starter, controllers, aborted, watchdog,
                 request, engine, events, sent>>

(* The loop test and the query; a pass begins where its predecessor ended. *)
Find ==
  /\ \/ pass.pc = "find" /\ UNCHANGED pumps
     \/ pass.pc = "idle" /\ pumps > 0 /\ pumps' = pumps - 1
  /\ IF Cardinality(activeRuns) < MaxConcurrent
     THEN \E r \in OldestQueued : pass' = [pc |-> "claim", next |-> r]
     ELSE EndPass
  /\ UNCHANGED <<row, creator, activeRuns, starter, controllers, aborted, watchdog,
                 request, engine, events, sent>>

NothingToClaim ==
  /\ pass.pc = "claim"
  /\ pass.next = NoRun \/ pass.next \in activeRuns
  /\ EndPass
  /\ UNCHANGED <<row, creator, activeRuns, pumps, starter, controllers, aborted,
                 watchdog, request, engine, events, sent>>

(* The run found takes a slot and startRun is launched without waiting. *)
Claim(k) ==
  /\ pass.pc = "claim"
  /\ pass.next \in Runs \ activeRuns
  /\ starter[<<pass.next, k>>].pc = "off"
  /\ activeRuns' = activeRuns \cup {pass.next}
  /\ starter' = [starter EXCEPT ![<<pass.next, k>>].pc = "reread"]
  /\ pass' = [pc |-> IF Cardinality(activeRuns') >= MaxConcurrent THEN "idle" ELSE "find",
              next |-> NoRun]
  /\ UNCHANGED <<row, creator, pumps, controllers, aborted, watchdog, request, engine,
                 events, sent>>

-----------------------------------------------------------------------------
(* startRun() of claim k of run r.                                         *)

At(r, k, pc) == starter[<<r, k>>].pc = pc
Held(r, k) == starter[<<r, k>>].run
Move(r, k, pc, run) == starter' = [starter EXCEPT ![<<r, k>>] = [pc |-> pc, run |-> run]]
GoTo(r, k, pc) == Move(r, k, pc, Held(r, k))

(* Mutant: startRun trusts the row the pump found instead of reading it.   *)
Reread_TrustsPump(r, k) ==
  /\ At(r, k, "reread")
  /\ Move(r, k, "prepare", [status |-> "queued", metrics |-> NoMetrics])
  /\ UNCHANGED <<row, creator, memory, watchdog, request, engine, events, sent>>

(* Mutant: the early return forgets the slot.                              *)
Reread_KeepsSlot(r, k) ==
  /\ At(r, k, "reread")
  /\ IF row[r].status = "queued"
     THEN Move(r, k, "prepare", row[r])
     ELSE starter' = [starter EXCEPT ![<<r, k>>] = IdleStarter]
  /\ UNCHANGED <<row, creator, memory, watchdog, request, engine, events, sent>>

(* Only a run that is still queued is started.  Otherwise the slot is given *)
(* back here, and no pass is asked for.                                     *)
Reread(r, k) ==
  /\ At(r, k, "reread")
  /\ IF row[r].status = "queued"
     THEN Move(r, k, "prepare", row[r]) /\ UNCHANGED activeRuns
     ELSE /\ starter' = [starter EXCEPT ![<<r, k>>] = IdleStarter]
          /\ activeRuns' = activeRuns \ {r}
  /\ UNCHANGED <<row, creator, pumps, pass, controllers, aborted, watchdog, request,
                 engine, events, sent>>

(* setStatus(run, to): asserts the transition from the status in memory; a *)
(* refused one throws into the catch clause.                               *)
SetStatus(r, k, to, pc) ==
  /\ IF CanTransition(ExecutionTransitions, Held(r, k).status, to)
     THEN /\ Save(r, WithStatus(Held(r, k), to))
          /\ Move(r, k, pc, WithStatus(Held(r, k), to))
     ELSE GoTo(r, k, "failing") /\ UNCHANGED row
  /\ UNCHANGED <<creator, memory, watchdog, request, engine, events, sent>>

Prepare(r, k) == At(r, k, "prepare") /\ SetStatus(r, k, "preparing", "launch")

(* POST /execute on the engine: a run that is found running is a duplicate, *)
(* any other gets a job.  The registry names one job of a run and is        *)
(* cleared when any of them ends, so a run whose first job is over may run  *)
(* and not be found.  No idempotency key is looked at.                      *)
JobEnded(r) == engine[r].jobs > engine[r].starting + engine[r].running

EngineTakes(r) ==
  \/ engine[r].running > 0 /\ UNCHANGED engine
  \/ /\ engine[r].running = 0 \/ JobEnded(r)
     /\ engine' = [engine EXCEPT ![r].jobs = @ + 1, ![r].starting = @ + 1]

(* One attempt of EngineClient.post().  It is answered, ...                *)
Attempts(r, k, n) == attempt' = [attempt EXCEPT ![<<r, k>>] = n]

Answers(r, k) == EngineTakes(r) /\ GoTo(r, k, "started") /\ Attempts(r, k, 1)

(* Mutant: the engine's refusal is not caught. *)
Refuses_Uncaught(r, k) == UNCHANGED engine /\ GoTo(r, k, "release") /\ Attempts(r, k, 1)

(* ... refused for good, ...                                               *)
Refuses(r, k) == UNCHANGED engine /\ GoTo(r, k, "failing") /\ Attempts(r, k, 1)

(* ... or fails on its way there or back (isTransient): no answer, a 502,  *)
(* 503 or 504.  Then the request is sent again, at most MaxAttempts times. *)
Fails(r, k) ==
  /\ EngineTakes(r) \/ UNCHANGED engine
  /\ IF attempt[<<r, k>>] < MaxAttempts
     THEN Attempts(r, k, attempt[<<r, k>>] + 1) /\ UNCHANGED starter
     ELSE Attempts(r, k, 1) /\ GoTo(r, k, "failing")

Launch(r, k) ==
  /\ At(r, k, "launch")
  /\ launches' = IF attempt[<<r, k>>] = 1 THEN [launches EXCEPT ![r] = @ + 1] ELSE launches
  /\ Answers(r, k) \/ Refuses(r, k) \/ Fails(r, k)
  /\ UNCHANGED <<row, creator, memory, watchdog, request, events>>

MarkRunning(r, k) == At(r, k, "started") /\ SetStatus(r, k, "running", "open")

(* consumeStream(): the controller is registered and the watchdog armed.   *)
OpenStream(r, k) ==
  /\ At(r, k, "open")
  /\ controllers' = controllers \cup {r}
  /\ watchdog' = [watchdog EXCEPT ![r].pc = "armed"]
  /\ GoTo(r, k, "stream")
  /\ UNCHANGED <<row, creator, activeRuns, pumps, pass, aborted, request, engine, events,
                 sent>>

(* onStatusEvent(): the row an event of the engine turns `run` into.       *)
Applied(e, run) ==
  IF e.status = "running" THEN WithStatus(run, "running")
  ELSE LET metrics == IF e.status = "cancelled" THEN run.metrics ELSE e.metrics
       IN  [metrics |-> metrics,
            status  |-> IF e.status = "completed" THEN OutcomeFromMetrics(metrics)
                        ELSE IF e.status = "error" THEN "failed"
                        ELSE e.status]

Ignored(e, run) ==
  \/ IsTerminalExecution(run.status)
  \/ e.status = "running" /\ run.status \notin {"queued", "preparing"}

(* The handler of the next event reads the row ...                         *)
HandleEvent(r, k) ==
  /\ At(r, k, "stream")
  /\ events[r] # <<>>
  /\ events' = [events EXCEPT ![r] = Tail(@)]
  /\ IF Ignored(Head(events[r]), row[r])
     THEN UNCHANGED starter
     ELSE Move(r, k, "onStatus", Applied(Head(events[r]), row[r]))
  /\ UNCHANGED <<row, creator, memory, watchdog, request, engine, sent>>

(* ... and saves it.                                                       *)
SaveEvent(r, k) ==
  /\ At(r, k, "onStatus")
  /\ Save(r, Held(r, k))
  /\ GoTo(r, k, "stream")
  /\ UNCHANGED <<creator, memory, watchdog, request, engine, events, sent>>

(* consumeStream's finally: the timer is cleared, the controller dropped   *)
(* and finalize() called.  Handlers already begun were drained.            *)
CloseStream(r, k) ==
  /\ At(r, k, "stream")
  /\ watchdog' = [watchdog EXCEPT ![r].pc = IF @ = "armed" THEN "off" ELSE @]
  /\ controllers' = controllers \ {r}
  /\ events' = [events EXCEPT ![r] = <<>>]
  /\ GoTo(r, k, "finalize")
  /\ UNCHANGED <<row, creator, activeRuns, pumps, pass, aborted, request, engine, sent>>

(* The engine closed the stream, as it does when a job of the run is over,  *)
(* or Stop or the watchdog aborted it.                                     *)
EndStream(r, k) ==
  /\ r \in aborted \/ (JobEnded(r) /\ events[r] = <<>>)
  /\ CloseStream(r, k)

BreakStream(r, k) == Stalls /\ CloseStream(r, k)

(* finalize(): the row is read, evidence and results are persisted, then a *)
(* run that is not terminal in memory is settled.                          *)
Finalize(r, k) ==
  /\ At(r, k, "finalize")
  /\ Move(r, k, "conclude", row[r])
  /\ UNCHANGED <<row, creator, memory, watchdog, request, engine, events, sent>>

FinalStatus(run) ==
  IF run.status = "stopping" THEN "cancelled" ELSE OutcomeFromMetrics(run.metrics)

SaveUnlessTerminal(r, k, settled) ==
  IF IsTerminalExecution(Held(r, k).status) THEN UNCHANGED row ELSE Save(r, settled)

Conclude(r, k) ==
  /\ At(r, k, "conclude")
  /\ SaveUnlessTerminal(r, k, WithStatus(Held(r, k), FinalStatus(Held(r, k))))
  /\ GoTo(r, k, "release")
  /\ UNCHANGED <<creator, memory, watchdog, request, engine, events, sent>>

(* The catch clause: the row is read again and failed unless it is settled. *)
Failing(r, k) ==
  /\ At(r, k, "failing")
  /\ Move(r, k, "giveUp", row[r])
  /\ UNCHANGED <<row, creator, memory, watchdog, request, engine, events, sent>>

GiveUp(r, k) ==
  /\ At(r, k, "giveUp")
  /\ SaveUnlessTerminal(r, k, [status |-> "failed", metrics |-> NoMetrics])
  /\ GoTo(r, k, "release")
  /\ UNCHANGED <<creator, memory, watchdog, request, engine, events, sent>>

Release(r, k) ==
  /\ At(r, k, "release")
  /\ activeRuns' = activeRuns \ {r}
  /\ pumps' = pumps + 1
  /\ starter' = [starter EXCEPT ![<<r, k>>] = IdleStarter]
  /\ UNCHANGED <<row, creator, pass, controllers, aborted, watchdog, request, engine,
                 events, sent>>

StarterStep(r, k) ==
  \/ Reread(r, k) \/ Prepare(r, k) \/ Launch(r, k) \/ MarkRunning(r, k)
  \/ OpenStream(r, k) \/ HandleEvent(r, k) \/ SaveEvent(r, k)
  \/ EndStream(r, k) \/ Finalize(r, k) \/ Conclude(r, k)
  \/ Failing(r, k) \/ GiveUp(r, k) \/ Release(r, k)

-----------------------------------------------------------------------------
(* The engine: a job starts its process, reports a status when the process *)
(* is over, and closes the stream.  A cancel reaches only a process that   *)
(* exists and has not exited.                                              *)

(* The service opens one stream per run, which begins with the history of  *)
(* the run, and never reopens it: an event emitted after that stream ended *)
(* has no reader and is not kept here.                                     *)
Listened(r) ==
  \E k \in Claims :
    starter[<<r, k>>].pc \in {"launch", "started", "open", "stream", "onStatus"}

Emit(r, s, m) ==
  IF Listened(r)
  THEN events' = [events EXCEPT ![r] = Append(@, [status |-> s, metrics |-> m])]
  ELSE UNCHANGED events

EngineCancel(r) ==
  \/ engine[r].running > 0 /\ Emit(r, "cancelled", NoMetrics)
  \/ UNCHANGED events

EngineStarts(r) ==
  /\ engine[r].starting > 0
  /\ engine' = [engine EXCEPT ![r].starting = @ - 1, ![r].running = @ + 1]
  /\ Emit(r, "running", NoMetrics)
  /\ UNCHANGED <<row, creator, memory, starter, watchdog, request, sent>>

EngineEnds(r) ==
  /\ \/ /\ engine[r].starting > 0
        /\ engine' = [engine EXCEPT ![r].starting = @ - 1]
        /\ Emit(r, "error", NoMetrics)
     \/ /\ engine[r].running > 0
        /\ engine' = [engine EXCEPT ![r].running = @ - 1]
        /\ \/ Emit(r, "error", NoMetrics) \/ Emit(r, "timed_out", NoMetrics)
           \/ \E m \in Counts : Emit(r, "completed", m)
  /\ UNCHANGED <<row, creator, memory, starter, watchdog, request, sent>>

-----------------------------------------------------------------------------
(* The stall watchdog of consumeStream().                                  *)

Watch(r, pc, run) == watchdog' = [watchdog EXCEPT ![r] = [pc |-> pc, run |-> run]]

Fire(r) ==
  /\ Stalls
  /\ watchdog[r].pc = "armed"
  /\ EngineCancel(r)
  /\ Watch(r, "read", NoRow)
  /\ UNCHANGED <<row, creator, memory, starter, request, engine, sent>>

ReadStalled(r) ==
  /\ watchdog[r].pc = "read"
  /\ IF IsTerminalExecution(row[r].status)
     THEN Watch(r, "abort", NoRow)
     ELSE Watch(r, "save", row[r])
  /\ UNCHANGED <<row, creator, memory, starter, request, engine, events, sent>>

SaveTimedOut(r) ==
  /\ watchdog[r].pc = "save"
  /\ Save(r, WithStatus(watchdog[r].run, "timed_out"))
  /\ Watch(r, "abort", NoRow)
  /\ UNCHANGED <<creator, memory, starter, request, engine, events, sent>>

(* Mutant: the watchdog settles the row but leaves the stream open.        *)
AbortStalled_NoAbort(r) ==
  /\ watchdog[r].pc = "abort"
  /\ Watch(r, "off", NoRow)
  /\ UNCHANGED <<row, creator, memory, starter, request, engine, events, sent>>

AbortStalled(r) ==
  /\ watchdog[r].pc = "abort"
  /\ aborted' = aborted \cup {r}
  /\ Watch(r, "off", NoRow)
  /\ UNCHANGED <<row, creator, activeRuns, pumps, pass, starter, controllers, request,
                 engine, events, sent>>

WatchdogStep(r) == Fire(r) \/ ReadStalled(r) \/ SaveTimedOut(r) \/ AbortStalled(r)

-----------------------------------------------------------------------------
(* cancel(): a Stop request.                                               *)

Answer(q, pc, run) == request' = [request EXCEPT ![q].pc = pc, ![q].run = run]
Target(q) == request[q].id
Asked(q, pc) == request[q].pc = pc

Stop(q, r) ==
  /\ Asked(q, "off")
  /\ Stored(r)
  /\ request' = [request EXCEPT ![q] =
                   [pc |-> "check", id |-> r, run |-> row[r], abort |-> FALSE]]
  /\ UNCHANGED <<row, creator, memory, starter, watchdog, engine, events, sent>>

(* A run that was terminal when it was read is a 409; otherwise the        *)
(* controller registered at this moment is the one Stop will abort.        *)
CheckStop(q) ==
  /\ Asked(q, "check")
  /\ IF IsTerminalExecution(request[q].run.status)
     THEN Answer(q, "refused", request[q].run)
     ELSE request' = [request EXCEPT ![q].pc = "mark",
                                     ![q].abort = Target(q) \in controllers]
  /\ UNCHANGED <<row, creator, memory, starter, watchdog, engine, events, sent>>

StopMark(run) == IF run.status = "queued" THEN "cancelled" ELSE "stopping"

(* A queued run is cancelled at once, any other must be allowed to stop.   *)
MarkStop(q) ==
  LET run == request[q].run
      to  == StopMark(run)
  IN  /\ Asked(q, "mark")
      /\ IF CanTransition(ExecutionTransitions, run.status, to)
         THEN Save(Target(q), WithStatus(run, to)) /\ Answer(q, "engine", WithStatus(run, to))
         ELSE UNCHANGED row /\ Answer(q, "refused", run)
      /\ UNCHANGED <<creator, memory, starter, watchdog, engine, events, sent>>

StopEngine(q) ==
  /\ Asked(q, "engine")
  /\ EngineCancel(Target(q))
  /\ Answer(q, IF request[q].run.status = "stopping" THEN "conclude" ELSE "release",
            request[q].run)
  /\ UNCHANGED <<row, creator, memory, starter, watchdog, engine, sent>>

ConcludeStop(q) ==
  /\ Asked(q, "conclude")
  /\ Save(Target(q), WithStatus(request[q].run, "cancelled"))
  /\ Answer(q, "release", WithStatus(request[q].run, "cancelled"))
  /\ UNCHANGED <<creator, memory, starter, watchdog, engine, events, sent>>

(* The stream is aborted, the slot given back and a pass asked for.        *)
ReleaseStop(q) ==
  /\ Asked(q, "release")
  /\ aborted' = IF request[q].abort THEN aborted \cup {Target(q)} ELSE aborted
  /\ activeRuns' = activeRuns \ {Target(q)}
  /\ pumps' = pumps + 1
  /\ Answer(q, "done", request[q].run)
  /\ UNCHANGED <<row, creator, pass, starter, controllers, watchdog, engine, events,
                 sent>>

RequestStep(q) ==
  CheckStop(q) \/ MarkStop(q) \/ StopEngine(q) \/ ConcludeStop(q) \/ ReleaseStop(q)

-----------------------------------------------------------------------------
PumpStep == Find \/ NothingToClaim \/ \E k \in Claims : Claim(k)

Next ==
  \/ PumpStep
  \/ \E r \in Runs :
       \/ Create(r) \/ PumpCreated(r)
       \/ EngineStarts(r) \/ EngineEnds(r) \/ WatchdogStep(r)
       \/ \E k \in Claims : StarterStep(r, k) \/ BreakStream(r, k)
  \/ \E q \in Requests :
       \/ RequestStep(q)
       \/ \E r \in Runs : Stop(q, r)

Spec == Init /\ [][Next]_vars

(* Every await of the backend is answered and every callback runs.  Where  *)
(* timers are left out the engine must end its runs (its own timeout); with *)
(* them it may stall for ever.  Users need not create runs nor press Stop. *)
Fairness ==
  /\ WF_vars(PumpStep)
  /\ \A r \in Runs :
       /\ WF_vars(PumpCreated(r))
       /\ WF_vars(WatchdogStep(r))
       /\ \A k \in Claims : WF_vars(StarterStep(r, k))
       /\ ~Stalls => WF_vars(EngineEnds(r))
  /\ \A q \in Requests : WF_vars(RequestStep(q))

FairSpec == Spec /\ Fairness
-----------------------------------------------------------------------------
(* The queue contract without Stop requests: runs are started in creation  *)
(* order, each once, never more than maxConcurrent slots are held at once, *)
(* and a run gives its slot back only when its stored status is terminal   *)
(* (FR-V3-EXE-012).  A slot claimed for a run that is not queued any more  *)
(* is held "again" until startRun() has read the row.                      *)
Rechecked(r) ==
  row[r].status # "queued" /\ \E k \in Claims : starter[<<r, k>>].pc = "reread"

Stage(r) ==
  IF ~Stored(r) THEN "absent"
  ELSE IF r \in activeRuns THEN IF Rechecked(r) THEN "again" ELSE "busy"
  ELSE IF row[r].status = "queued" THEN "waiting"
  ELSE IF Settled(r) THEN "over"
  ELSE "lost"

Queue == INSTANCE RunQueue WITH stage <- [r \in Runs |-> Stage(r)]
QueueContract == Queue!Spec

(* A slot is never leaked: a run in activeRuns is being started or         *)
(* streamed, however Stop, a second claim and the watchdog interleave, so  *)
(* the service cannot lose capacity for good.                              *)
NoLeakedSlot ==
  \A r \in activeRuns : \E k \in Claims : starter[<<r, k>>].pc # "off"

(* A run is launched at most once, also when it gave its slot back between *)
(* a pass's query and its claim and is claimed again: execute() is called   *)
(* for it once.  How often its POST reaches the engine is another matter   *)
(* (RetriesDuplicateNothing).                                              *)
LaunchedOnce == \A r \in Runs : launches[r] <= 1

(* Why: a run is launched by the claim that found it queued.  While the row *)
(* says queued nothing has been launched and at most one claim, holding    *)
(* the slot, is in startRun; no copy a handler may still save says queued. *)
PastCheck(r, k) == starter[<<r, k>>].pc \notin {"off", "reread"}

UntouchedBeforeCreate ==
  \A r \in Runs :
    creator[r] = "off" =>
      /\ row[r] = NoRow /\ launches[r] = 0 /\ pass.next # r /\ watchdog[r].pc = "off"
      /\ \A k \in Claims : starter[<<r, k>>].pc = "off"
      /\ \A q \in Requests : request[q].id # r

QueuedIsFresh ==
  \A r \in Runs :
    row[r].status = "queued" =>
      /\ launches[r] = 0
      /\ \A k \in Claims :
           starter[<<r, k>>].pc # "off" =>
             /\ starter[<<r, k>>].pc \in {"reread", "prepare"}
             /\ r \in activeRuns
             /\ \A j \in Claims \ {k} : starter[<<r, j>>].pc = "off"

OneStarter ==
  \A r \in Runs, j, k \in Claims : PastCheck(r, j) /\ PastCheck(r, k) => j = k

NotYetLaunched ==
  \A r \in Runs, k \in Claims :
    /\ starter[<<r, k>>].pc = "prepare" => launches[r] = 0
    /\ starter[<<r, k>>].pc = "launch" /\ attempt[<<r, k>>] = 1 => launches[r] = 0
    /\ starter[<<r, k>>].pc = "prepare" => starter[<<r, k>>].run.status = "queued"

NeverQueuedAgain ==
  /\ \A r \in Runs, k \in Claims :
       starter[<<r, k>>].pc = "onStatus" => starter[<<r, k>>].run.status # "queued"
  /\ \A q \in Requests :
       request[q].pc \in {"engine", "conclude", "release"} =>
         row[request[q].id].status # "queued"

LaunchInv ==
  /\ UntouchedBeforeCreate /\ QueuedIsFresh /\ OneStarter /\ NotYetLaunched
  /\ NeverQueuedAgain /\ LaunchedOnce

(* "Never report a green run" that nothing verified                        *)
(* (state-machines.ts:152): a stored `passed` comes with metrics that have *)
(* passes and neither failures nor errors, whichever handler saved it last. *)
GreenIsEarned ==
  \A r \in Runs :
    row[r].status = "passed" =>
      /\ row[r].metrics.passed > 0
      /\ row[r].metrics.failed = 0 /\ row[r].metrics.errors = 0

(* The limit as the service keeps it when nobody presses Stop: a run being *)
(* started or streamed holds a slot, and there are never more slots taken  *)
(* than maxConcurrent (FR-V3-EXE-012).                                     *)
SlotsHeld ==
  /\ Cardinality(activeRuns) <= MaxConcurrent
  /\ \A r \in Runs : r \notin activeRuns => \A k \in Claims : starter[<<r, k>>].pc = "off"

(* Every run that was accepted ends in a terminal status for good and all  *)
(* slots come free, even when the engine stalls or the stream breaks       *)
(* (NFR-REL-002).                                                          *)
EveryRunSettles ==
  /\ \A r \in Runs : <>[](Stored(r) => Settled(r))
  /\ <>[](activeRuns = {})

-----------------------------------------------------------------------------
(* Statements of the code base that the service does not keep.             *)

(* state-machines.ts:114: a terminal run "can no longer progress".         *)
TerminalIsFinal ==
  [][\A r \in Runs : Settled(r) => row'[r].status = row[r].status]_vars

(* configuration.ts:43: "Max concurrent local execution runs".             *)
ConcurrencyLimit ==
  Cardinality({r \in Runs : engine[r].starting + engine[r].running > 0}) <= MaxConcurrent

(* engine.client.ts:53: "Job submits carry an Idempotency-Key so retries   *)
(* never duplicate side effects": the POST of a run, sent again because its *)
(* answer was lost, starts no second job on the engine.                    *)
RetriesDuplicateNothing == \A r \in Runs : engine[r].jobs <= 1

(* ExecutionLivePage.tsx:116: a queued run "starts automatically when a    *)
(* slot frees up".                                                         *)
QueuedRunLeavesQueue ==
  \A r \in Runs : row[r].status = "queued" ~> row[r].status # "queued"
=============================================================================
