# TLA+ models of the AI QA platform

The platform turns requirement documents into test plans, test cases and
Playwright code, lets people approve what was generated, executes it and
reports what it found. A NestJS **backend** (`src/apps/backend`) is the system
of record; a Python **engine** (`src/apps/qa-engine`) calls language models,
validates code and runs pytest; a React **frontend** (`src/apps/frontend`)
shows what the backend stores and keeps copies of it.

This directory models the parts whose correctness depends on the order of
things: callbacks between awaits, whole rows saved over each other, threads,
timers, retries, answers that are lost, pages that show old data, and people
who press a button at any moment. TLC checks small instances; TLAPS proves every
invariant and action property that the passing runs check, and the refinements
of `RunQueue` and `HumanGate`, for every value of the constants. Liveness is
model-checked only.

Contents: [the system](#the-system), [the models](#the-models),
[runs](#runs), [fairness](#fairness), [proofs](#proofs),
[findings](#findings), [observations](#observations),
[what is not modelled](#what-is-not-modelled), [plan](#plan).

## The system

Paths are relative to `src/apps/backend/src/modules` (backend),
`src/apps/qa-engine` (engine) and `src/apps/frontend/src` (frontend).

| Component | State | Operations | Module |
|---|---|---|---|
| Project sequences (`sequences/`) | a row per project and name | `next(n)`, `raiseTo(m)` | `SequenceAllocator` |
| Status functions (`common/state-machines.ts`) | none | transition maps, outcomes | `StateMachines` |
| Execution runs (`executions/`) | rows; `activeRuns`, `pumpChain`, `controllers` in memory | create, pump, start, stream, watchdog, finalize, Stop | `Executions`, `RunQueue` |
| Results and reports of a run (`executions/`, `reports/`, engine plugin and JUnit) | results, metrics, reports | stream, store, count | `RunResults` |
| Rows of finished runs (`regression/`, `reports/`, `ci/`) | baseline flag, CI columns | promote, dispatch, import | `RunRecords` |
| Publication (`reports/`, `approvals/`) | records of decisions | decide, export | `Publication` |
| Comparisons (`regression/`, engine `regression.py`, `pages/RegressionPage`) | stored comparisons | compare, view | `Regression` |
| Findings (`findings/`) | findings of failed tests | classify, override, draft | `Findings` |
| Execution log, events (`executions/execution-logger.service.ts`, `events/`) | last number per run, rooms | write, emit, replay | `LiveFeed` |
| Generation jobs (`jobs/`) | rows, last log number | create, retry, dispatch, cancel, log | `Jobs` |
| Generation workers and their pages (`analysis/`, `test-plans/`, `test-cases/`, `automation/`; `features/jobs`, `pages/`) | followed job, list | generate, retry, follow | `GenerationPage` |
| Approval gates (`approvals/`, `automation/`, `test-cases/`) | content, validation, approval, records | edit, validate, override, decide, invalidate, run | `Artefacts` |
| Approvals inbox (`pages/ApprovalsPage`, `decideBulk`) | three lists | decide one or many | `Inbox` |
| Test plans (`test-plans/`) | plan and numbered revisions | generate, edit, restore, decide | `PlanRevisions` |
| Editors (`AutomationPage`, `SectionEditor`, `TestCaseEditModal`) | draft, baseline, dirty flag | type, save, revert | `Editors` |
| Documents (`documents/`, `features/uploads`) | documents, segments, upload queue | upload, abort, retry, remove | `Uploads` |
| Requirements (`requirements/`) | requirements | derive, enter | `Derivation` |
| Projects (`projects/`, `features/projects/ProjectForm`) | configuration, sealed key | create, update | `ProjectSettings` |
| Sessions (`auth/`, `users/`, `services/api/client.ts`, `AuthContext`) | cookie, token, user, one refresh | login, logout, refresh, request | `Sessions` |
| Git (`git/`) | lock per project, workspaces, remote | push, commit | `GitDelivery` |
| Notifications (`notifications/`, `features/notifications`) | notifications, bell | notify, mark, poll | `Notifications` |
| Queries of the frontend (`@tanstack/react-query`) | data, request under way | ask, invalidate, answer | `Queries` |
| Page of a run (`pages/ExecutionLivePage`) | the run as shown | poll, Stop | `LivePage` |
| Engine runs and bus (`engine/service/`) | registry, threads, processes, history per key | execute, cancel, emit, close, stream | `EngineRuns` |
| QA workflow (`graph/`) | state of a LangGraph thread, rows | ten nodes, three routers, two gates | `QAWorkflow`, `HumanGate` |

A user request creates a **job**; its worker calls the engine and saves
artefacts numbered by a **sequence**. People **approve** artefacts in the page
of each or in the **inbox**; approved automation is **executed**: the backend
queues a run, a slot comes free, the run is submitted to the **engine**, whose
thread starts pytest and emits events on the **bus**; stream handlers of the
backend turn them into status, **results** and **reports**, which are compared,
classified and published. Approved code is **pushed** to git. Events reach the
pages, which fetch again what they show. Beside that, the engine can drive the
whole chain alone as a **workflow** with two gates for a human.

### What is hard here

* The backend is one Node process. Code between two awaits is atomic, all else
  interleaves; `repo.save(entity)` writes the **whole row** as it was when the
  handler read it. Two handlers of one row overwrite each other's columns.
* Decisions are about content, and content changes: an edit between a read and
  a save, between an approval and a run, between a validation and its verdict.
* `activeRuns`, log numbers and abort flags are in memory and change at other
  moments than the rows they belong to.
* Timers (job timeout, stall watchdog, process timeout) race late answers; a
  worker cannot be stopped and outlives its job.
* The engine is threaded; its duplicate check, its registry and its bus are
  protected by different locks.
* A workflow thread can be started again and keeps what an earlier pass left in
  its state; database commits of a node may fail without stopping it.
* Pages show copies. An invalidation may be missed by a socket, joined with a
  request that was served before the change, or answered after the next one.

`PROJECT.json` lists these hazards one by one, with the line where each bites
and the properties that cover it.

### What makes each component correct

* Sequences: blocks are disjoint, the row never moves back, `raiseTo` is kept.
* Runs: first come first served within the limit; launched once by the service;
  a slot is never lost; every run settles; no green without green metrics.
* Results: the verdict that was read is applied; a report counts what happened.
* Jobs: a settled job stays settled and, if completed, is whole; cancelled only
  on request; the last entry of its log is its verdict; every job settles.
* Artefacts and plans: a verdict, an approval and a reopened status speak of the
  content they stand beside; what runs or leaves is what was approved.
* Engine: a live process can be reached by cancel; streams end, unless a child of
  pytest holds them open, and end with the verdict; memory is bounded.
* Workflow: only code a human agreed to is run.
* Git: only cleared files leave, others' files stay, every push is answered.
* Pages: they come to show the end of what they follow, and what was decided or
  marked; they keep what was typed; one identity at a time.

## The models

The backend modules share one style: a handler is a small process that goes
from await to await, with the row it has loaded; each await is a step, and a
save is the whole row. Histories (`races`, `raced`, `clashed`, `unsafe`,
`overtaken`) record which named overlap happened, so that a property can say
"unless that race occurred" and mean nothing weaker; they are set by the
shape of the overlap, never by its outcome.

### Sequences: `SequenceAllocator`

`SequencesService.next` and `raiseTo` over one row. A call is a record of
functions over `Calls`: `pc`, the method `op`, its argument, the value last
read (`seen`) and the finished loop iterations (`attempt`). Every database
round trip is a step: `Read` (findOne), `Insert` (which the unique index may
refuse), `Swap` (the conditional UPDATE), `Exhausted` (the loop ran out).
`next` then throws, `raiseTo` falls off its end and returns as if it had
succeeded; the model says so. Rows of different names are independent, so one
is enough; backends that share the database are just more calls.

### Status functions: `StateMachines`

The transition maps as functions from status to set of statuses, and the pure
functions over them, used by the models of the services.

### Execution runs: `Executions`, `RunQueue`, `LivePage`

`row` is the table. Each handler is a small process with the row it has read:
`creator` (create), `pass` (pumpOnce; `pumps` counts passes waiting on
`pumpChain`), `starter` (startRun, consumeStream, finalize), `watchdog`
(the stall timer), `request` (Stop). `activeRuns`, `controllers` and `aborted`
are the service's memory. A `starter` belongs to a *claim*: Stop gives a slot
back while startRun may still be before its check, so the pump can claim the
same run a second time; two claims per run are possible and enough (a third
would need the pump to find the run queued after the first Stop had saved it).

| Action | Code (`executions.service.ts`) |
|---|---|
| `Create`, `PumpCreated` | `create`: save, then awaits, then pump |
| `Find`, `NothingToClaim`, `Claim` | the loop of `pumpOnce` |
| `Reread`, `Prepare`, `MarkRunning` | `startRun` with `setStatus` |
| `Launch`: `Answers`, `Refuses`, `Fails` | one attempt of `EngineClient.post` and `POST /execute` |
| `OpenStream`, `HandleEvent`, `SaveEvent`, `EndStream`, `BreakStream` | `consumeStream`, `onStatusEvent` |
| `Finalize`, `Conclude` | `finalize` |
| `Failing`, `GiveUp`, `Release` | the catch and finally clauses |
| `Fire` ... `AbortStalled` | the watchdog |
| `Stop` ... `ReleaseStop` | `cancel` |
| `EngineStarts`, `EngineEnds`, `EngineCancel` | the engine as the client sees it |

`Launch` is one attempt to submit the run: it is answered, refused for good, or
fails on its way there or back, and is then repeated, three times at most in
the code (`MaxAttempts`), whether the engine took it or not. `EngineTakes` is
the engine's side: it refuses only a run that it finds running, so `engine`
counts the jobs a run has been given, those that have not started and those
that run. `launches` counts how often `startRun` got as far as the call.

Metrics are three counts: these decide `outcomeFromMetrics`. Artefact selection,
telemetry and log lines are left out. `RunQueue` is what the queue promises:
runs wait, take slots in the order of creation (two runs of the same instant in
either order), at most `MaxConcurrent` at a time, once each, and give the slot
back when they are over; a pass that waited between its query and its claim may
take a slot for a run that is over and has to give it back (`TakeAgain`,
`GiveBack`). `Executions` implements it under the mapping `Stage`, as long as
nobody presses Stop. `LivePage` is the page of one run: its query with the
interval that stops when the run is over, and the Stop button; `MCSettles`
composes it with the run, so that the page sends the Stop requests.

### Results and reports: `RunResults`, `RunRecords`, `Publication`, `Findings`, `Regression`

`RunResults` follows the outcome of each test through pytest's plugin and its
bounded queue, the posts of its sender, the chained handlers of the stream,
the rows `finalize` stores, the metrics the engine counts a second time from
JUnit, and the report built from both. Events may be dropped or lost at the
exit of pytest; tests may be rerun. `RunRecords` has the handlers that save
whole rows of finished runs: promotion to the baseline, report, CI dispatch
and import. `Publication` has the decisions on a report, the gate that looks
for the latest by a clock of whole seconds, and the exports, from several
pages. `Findings` has `classify`, `override` and `defectDraft` over one failed
test. `Regression` has `compare` with its three buckets and the page that picks
two runs and shows comparisons and history.

### Live streams: `LiveFeed`

The log of a run, its timeline and the log of a job share one protocol and
differ in the order of numbering, saving and sending, in where the last number
is kept, and in how a console replays; `feed` chooses one. An answer has at most
`Page` lines, the oldest ones of a log or timeline. Writers take a
number, save and emit; the backend may restart; a console connects, joins its
room later, replays from the beginning or from its last number, and drops
what it has already.

### Generation jobs: `Jobs`, `GenerationPage`

In `Jobs`, `execute()` and its worker share one Job object (`object`);
`cancel()` loads another (`request[q].job`). `Log` takes the next number at once
and persists entry and whole row later; for a worker these are two steps
(`WorkerLog`, `WorkerLogged`), so a timeout, a cancel or the closing entry can
come between. `Script` is the sequence of a worker's awaits (engine call,
`ctx.checkpoint`, `ctx.log`, a row saved); `jobs` uses that of the test case
worker with two rows, `jobs_cancel` that of the test plan worker. `Timeout` and
the worker's end race for `Decide`. `crashed` stands for the unhandled rejection
that ends the process when a repeated Idempotency-Key dispatches a job that is
already over. `GenerationPage` takes the other side: the four workers as
sequences of steps (`WorkerSteps`), the job as a status, the page with its
active job, console and list, and the envelopes and invalidations between them.

### Approval gates: `Artefacts`, `Inbox`, `PlanRevisions`

`Artefacts` has test cases and the automation generated from them. `Slots` are
handlers in flight; one generates, edits (content first, then the reopening by
`onUpstreamModified`, then the cascade to what was generated from it),
validates, overrides, decides (row first, then its record) or creates a run,
whose gate and whose submission are two steps. Every slot may break off at any
await. `agreed`, `checked` and `basis` remember beside each row the content an
approval, a verdict and a generation spoke of. `Inbox` is the page that decides
from three lists of three queries, one row or all pending rows, with requests
that may fail half-way; a decision on a case reopens the files that were
approved or had passed (`FilesAffected`). `PlanRevisions` is a plan with its
numbered revisions: generate, edit and restore take the next number (a unique
index refuses one taken) and reopen the approval; a decision is mirrored to the
latest revision.

### What people type and upload: `Editors`, `Uploads`, `Derivation`, `ProjectSettings`

`Editors` has the three forms that edit stored content, each with its own idea
of "unsaved", against the refetches of the page. `Uploads` has the queue of
files with abort, retry and removal, and the backend that parses and stores a
document, then its segments. `Derivation` makes requirements of the included
segments, comparing texts with the requirements read at its beginning.
`ProjectSettings` has the form, `update()` that merges into the row it loaded,
and what the engine then runs on (`Resolved`).

### Identity and delivery: `Sessions`, `GitDelivery`

`Sessions` has the cookie, the token in memory, requests that are replayed after
the one shared refresh, login and logout; `OtherTab` is another tab of the
browser that signs in or out and so changes the shared cookie. `GitDelivery` has
the chain of pushes per project, their steps in the workspace (sync, write,
commit, push), commits of the local workspace, and a remote to which others
write.

### Engine runs and event bus: `EngineRuns`

A thread per accepted submit (`thread`), its process, the registry `_RUNS`, and
the bus: `history`, `done`, `closed`. A section under a lock is one step.
`Submit` makes the duplicate check; `Announce`, `Spawn`, `Register`, then
`Report`, `Timeout` and `Reap`, or `Fail`, lead to `Pop` and `Close`, the
finally clause. `Retained` drops old events and `CloseKey` evicts old keys.
`Deliver` hands a stream the pending events up to one of them: all of them, or a
part when its connection breaks and is opened again at the last number. The
history `trailing` counts what was emitted for a run since its last verdict.
Cancel finds a process, signals it and later emits its event, which may come
after the key was closed. A process is pytest; its children inherit its pipe, so
that when pytest ends and one of them lives on, the pipe is *held* until they
are gone (`LetGo`), which nothing in the code brings about: `_force_kill`
signals the group only while pytest itself is there. `Report` and `Reap` wait
for the end of the pipe.

### QA workflow: `QAWorkflow`, `HumanGate`

One action per node, with the router of its outgoing edges in it. A generation
stands for its content: the code of generation `g` is `g`. Every database
commit of a node may fail where the code catches that and goes on; a
generation without a row is `lost`. `DecideCases` and `DecideCode` are the two
gates with every decision of a human; `StartAgain` is `run_workflow` without a
resume value on a thread that has paused or ended, `NewThread` another thread
on the same project, whose rows are shared. `HumanGate` is the contract: code
is offered, consented to, and only then executed.

### Queries and notifications: `Queries`, `Notifications`

`Queries` is the library the pages fetch with, modelled from how the frontend
uses it: a request under way, an answer that was made when it was served, an
invalidation that starts a new request for known data and joins one that is
loading for the first time. `Notifications` has what jobs and runs leave to
their user, the badge and the panel of the bell, its polls and its marks.

## Runs

Each cfg names its bounds; a bound that is not in the code is named in the
module (`Budget`, `Steps`, `MaxContent`, `MaxCalls`, the sets of requests).

Four MC modules hold several components that share no state. A variable
`focus`, chosen at the start, says which of them moves in a behaviour, and the
others stay in their initial state; so the run is the sum of the components'
state spaces and not their product, and a property of one component is checked
in all its behaviours. Where components do share state they are composed and
move together: `MCSettles` (a run and its page).

### Runs that pass

| Run | Instance | What it shows |
|---|---|---|
| `exec_queue` (`MCExecutions`) | 2 runs created one after the other, 1 slot, 1 attempt, green or red metrics, stalls | Without Stop the service implements `RunQueue`, whatever stalls, breaks or times out; every run settles; a stored `passed` has green metrics. Two runs make one wait while the other holds the slot. |
| `exec_settles` (`MCSettles`) | 1 run with its page, 1 Stop, 1 attempt, stalls, lost answers; or 1 run, 1 Stop, 2 slots and 2 attempts; or a bell with 1 source, 2 notifications, a list of 1, 1 mark at a time | Stop and watchdog overwrite each other and the stream handlers; once started, the run settles and the page comes to show it. With two slots Stop lets the pump claim the run twice: no slot leaks and the service launches it once. What is marked as read stays read, an unread notification is counted again and again. A list shorter than the notifications makes it cut. |
| `jobs` (`MCGeneration`) | 2 calls (same key or a retry), 1 cancel, worker of the test cases with 2 saves; and a page with 2 jobs of 2 parts of each kind | Settled jobs are whole, the verdict ends the log, nobody is cancelled without a request, every job settles. The console sees the end of its job, and the list then has its rows. Two jobs let an old answer meet a new job. |
| `engine` (`MCEngineRuns`) | 2 submits, 2 runs, 1 cancel, 1 stream, 2 events and 1 closed key retained, children that outlive pytest | Streams end unless such a child holds the pipe for ever, and end with the verdict; live processes are reachable unless submits of the run overlapped. A run can emit four events and close both keys, so both bounds are hit, and a cancel and a late event push a verdict out of the history. |
| `artefacts` (`MCApprovals`) | 1 case and 1 file made from it, 2 handlers at a time, 6 in all; an inbox with 2 decisions and 1 change elsewhere; 2 pages of a report, 3 decisions in 2 seconds | Verdict, approval and case agree with the content beside them unless a named race happened; the inbox shows what its decisions changed; a rejected report leaves only after another decision (an approval or a regeneration). Six handlers are generation of both, validation, approval and two that race; two more contents of each exist. |
| `delivery` (`MCDelivery`) | the workflow with 3 attempts, people asking up to the third generation, 2 paths; 2 tests, 2 pushes, 1 commit, 1 foreign commit; 2 users, 2 requests, 2 tokens, another tab | The workflow implements `HumanGate` and comes to rest; what leaves is cleared, pushes keep others' files and are answered; token, shown user and sender agree. |
| `records` (`MCRecords`) | eleven components, each with the two or three actors that can disagree | Blocks are disjoint; a cloud configuration is complete; one requirement per text; a plan is approved with its content; files are stored once; rows are lost only to races; the verdict is applied and reported; overrides stand; comparisons are of their runs; a whole replay has no gap, also when its answers are cut; a refetch wipes typed text only in a section editor that saved. |

What the bounds of `records` rest on: three sequence calls with two attempts
are the least for which a call can lose every race; two tabs, derivations,
editors, handlers or requests are a race, and the values are the fewest that
tell a stale row from a current one (three texts: stored, typed, foreign); a
queue of two of at least four events overflows; three requests per file are
one, its retry, and one after removal; two writers and two replays of a stream
can be in each other's way in both orders; answers that hold all lines, and
answers of one line, which cut every replay of two.

`exec_queue` has one slot, so that a pass cannot claim a run twice there, runs
with distinct creation times and one attempt per launch. `created_at` is stored
in whole seconds, so two runs may share one and are then started in either
order; the proof of `QueueContract` is about any number of slots and attempts
and about equal times.

Deadlock checking is off in all of them because each system may be over: all
calls returned, all runs settled, the workflow at its end.

Some properties have a condition that is part of the claim. `VerdictIsLast` is
about jobs that only one execution works on and no `cancel()` has loaded
(`Undisturbed`): with a cancel it fails, which is one of the observations below.
`LiveProcessIsReachable` excludes runs that were submitted again before an
earlier thread of theirs was over, and `EveryStreamEnds` excludes evicted keys
and runs whose pipe a child holds for ever (`HeldOpen`). `EndedStreamHasVerdict`
is about runs submitted once, which the backend does not guarantee
(`exec_retry`), and about verdicts that fewer events followed than the bus
retains: with as many, the verdict is dropped before a slow stream reads it, and
TLC shows that when the condition is weakened by one. The code retains 10 000,
and only cancels and steps still on their way are emitted after a verdict.
`EndIsShown` is about a page that has got its first answer, and a run that has
left the queue (see the finding below). `OneSession` stops where a session ended
with requests under way or another tab signed in as someone else.
`OneRequirementPerText`, `StoredOnce`, `LostOnlyByRace`, `OverrideStands` and
`OnlySavedSectionsAreWiped` each except one named race that the code does not
prevent: they say that nothing else does the damage, and the hazard of that race
has a note in `PROJECT.json`.

### Runs that find a disagreement

`exec_stuck_queue`, `exec_retry`, `jobs_cancel`, `artefacts_run` and
`live_feed_gap` each violate one statement of the code base with one or two
actors: see [findings](#findings).

## Fairness

* `Executions`: weak fairness of the pump, of create's continuation, of each
  start, watchdog and Stop request once it is made: these are awaits of one
  Node process, and HTTP calls to the engine have a client timeout. Users need
  not create runs or press Stop. With `Stalls = FALSE` the engine ends its
  runs, by its own process timeout; with `Stalls = TRUE` it need not, and the
  watchdog is what makes runs settle. A broken stream is never required.
* `Jobs`: weak fairness of `generate()` after its look-up, of `execute()`,
  whose timer fires, and of `cancel()`. The worker has none: it may hang in an
  engine call for ever.
* `LivePage`, `GenerationPage`, `Notifications`: weak fairness of the interval
  of the query, which the browser fires again and again while the page is
  shown, and of the backend that serves it; strong fairness of receiving an
  answer: any number may be lost, but not all. Envelopes of the socket have no
  fairness at all.
* `EngineRuns`: weak fairness of each thread, whose first `communicate` has a
  timeout, of the exit of a pytest that was terminated (SIGKILL follows SIGTERM
  while it is there), and of each stream. Tests may hang. The children of pytest
  are under no fairness: they may hold the pipe for ever, and the thread that
  waits for it again after the timeout (`execution.py:455`) then waits for ever.
* `QAWorkflow`: weak fairness of the nodes, whose calls have timeouts. The
  human need not answer. `ComesToRest` says what is left: without giving the
  thread up again and again, one reaches a gate or the end again and again.
* `GitDelivery`: weak fairness of each push; git commands have a timeout.
* `SequenceAllocator`, `Sessions`: weak fairness of each call is defined
  (`FairSpec`, `SessionSpec`) for the liveness named in those modules
  (`EveryCallReturns`, `EveryRequestEnds`), which no listed run repeats.

Within a run with `focus`, fairness speaks of the steps of the component that
moves; the others have none enabled, or are excluded by name (`PageFairness` of
`MCSettles`).

## Proofs

Run `tlapm` on the eight modules below. A theorem is about the specification of
its component (`Spec`, `GitSpec`, `FeedSpec`, ...), for every value of the
constants that the assumptions allow: any number of runs, requests, handlers,
tabs, files, tests. Each rests on an inductive invariant; the conjuncts are
named, so what is stronger than the property can be read off.

| Module | Theorems about |
|---|---|
| `ExecutionsProofs` | types, `GreenIsEarned`, `NoLeakedSlot` |
| `QueueProofs` | `LaunchedOnce`, `QueueContract` (refinement of `RunQueue`) |
| `RecordsProofs` | findings, publication, run rows, uploads, results, comparisons, live streams |
| `JobsProofs` | generation jobs, the page that follows them, the bell |
| `ArtefactsProofs` | approval gates, the approvals table, the inbox |
| `ProjectProofs` | sequences, configuration, requirements, plans, editors |
| `EngineRunsProofs` | processes, bus, streams |
| `DeliveryProofs` | QA workflow (refinement of `HumanGate`), git, sessions |

### Assumptions

Named assumptions of the modules: runs are positive numbers, in the order of
their inserts (`RunsAssumption`), and a later one has no earlier creation time
(`CreatedAtAssumption`); at least one slot, one attempt, one event and one
closed key are kept (`LimitAssumption`, `AttemptsAssumption` of `Executions` and
`SequenceAllocator`, `BoundsAssumption` of `EngineRuns`); metrics, minima and
block sizes are numbers; artefacts have a case (`ResourcesAssumption`); tests,
page objects and calls of git are different things (`GitAssumption`); "nobody"
is no user (`SessionAssumption`); names of nothing are not names of something
(`NoneAssumption`, `CallsAssumption`). Bounds that only keep TLC's instances
small are hypotheses of the theorems that need them to be numbers
(`MaxFindings`, `MaxRecords`, `MaxSeconds`, `MaxReports`, `MaxUploads`,
`MaxTexts`, `MaxSaves`, `MaxComparisons`, `MaxReruns`, `MaxNotes` in `Nat`,
`MaxEdits` positive): as each is any number, they exclude no finite behaviour of
the code. The theorems on results assume finitely many tests and a queue of at
least one event, `FeedsAreTyped` finitely many writers and `MaxLines` in `Nat`.
`QueueContract` assumes `Requests = {}`, which is what the property is about:
with Stop the service does not implement the queue (`TerminalIsFinal` and
`ConcurrencyLimit` below).

### Runs: `ExecutionsProofs`, `QueueProofs`

`GreenRunsAreEarned` extends the claim from the table to every copy a handler
holds and may save (`AllGreen`); `SlotsNeverLeak` relates each slot to a claim
in progress. `NeverLaunchedTwice`: a run can be claimed twice, so the proof
shows that a stored `queued` means nothing has been launched and at most one
claim, holding the slot, can still find it so (`QueuedIsFresh`); that only one
claim gets past the check (`OneStarter`); that no copy a handler may still save
says `queued` (`NeverQueuedAgain`). Their conjunction is `LaunchInv`. The theorem
is about the service, for any number of attempts: one launch may still become
several jobs of the engine, which `RetriesDuplicateNothing` shows.

`ServiceIsAQueue` is the refinement, step by step: a step moves one run in the
queue or none (`Advances`). `QueueInv`, inductive under `LaunchInv`, says why:
slots are counted, and one is free when a pass claims, since passes come one
after another and all else only frees slots (`SlotsCounted`); the run a query
returned is still the oldest (`FoundIsOldest`); a run has one claim and holds a
slot while it is worked on (`OneClaim`, `HoldsSlot`); one that is left behind
is over (`LeftBehind`), and who read that it is over is not outdated
(`ReadIsTrue`), as only the watchdog writes beside `startRun`.

### Records of runs: `RecordsProofs`

* Findings (`OverridesStand`): until two requests held a finding at a time, who
  holds one holds it as stored, and there is one holder.
* Publication (`RejectedReportsStay`): a page past the gate saw another
  decision at least as late as each rejection recorded before (`PassedIsLifted`).
* Run rows (`WritesAreLostOnlyByRace`): without a race one handler holds a row,
  and holds it as stored, so its save of the whole row changes its columns only.
* Uploads (`FilesAreStoredOnce`): of a file never given up, every request before
  the current one failed and none after it was sent (`OneAttemptCounts`).
* Results (`VerdictsAreApplied`, `RunsAreReported`): what happened to a test is
  told by the last event about it on the way through sender, stream and
  handlers, or is stored (`EventsAreUnderWay`); the verdict is what pytest
  measured and is under way until applied or dropped (`VerdictIsUnderWay`). A
  report asked for after `finalize()` then counts both from one outcome per test.
* Comparisons (`ComparisonsAreOfRuns`): what was read of a run that has results
  stays what is stored, because results are stored once (`ReadIsStored`).
* Live streams (`WholeReplaysHaveNoGap`): a stored line is on the page, in an
  answer, or about to be sent. A replay drops lines by number, so the invariant
  needs numbers that are new: nobody writes before the counter was read from the
  table, which happens while nobody else has a number (`SeedsAlone`,
  `NumbersAreNew`). It is about logs; a timeline, and a restart while lines were
  under way (`unsafe`), break it in the code. `FeedsAreTyped` holds for all three
  streams: lines with a number and writers that will take one stay within the
  bound (`Numberless`), and sets of numbers stay bounded (`BoundedRows`), so a
  page has a highest one.

### Jobs and pages: `JobsProofs`

`JobsAreWhole` and `JobsAreCancelledOnRequest` follow from `IInv`, which ties
the progress of an execution to that of its worker, the rows it saved, its abort
flag and its copy of the job (`Lives`), and each status in the table to who
wrote it (`RowOK`). `VerdictsAreLast` and `JobsStaySettled` add the numbers of
the log as a bag (`Numbers`): while the in-memory map knows a job it is ahead of
every entry, and when the verdict is logged also of the one entry an orphaned
worker has numbered and not yet written. `FinishedListsAreFresh`: when a console
knows the end of its job, the query of the list has its rows, is about to, or
says that it failed or missed an invalidation (`WillHave`). `ReadNotesStayRead`:
a query of the bell that still has a marked notification as unread will be asked
again or says that its data is old (`WillForget`); only stored notifications are
shown, so only those can be marked.

### Approvals: `ArtefactsProofs`

Every operation is a step of one of six kinds (`Moves`), and the invariants are
proved for the kinds. `VerdictsAreOfContent`: row, copies and what the engine
was sent agree (`VerdictInv`). `ApprovalsAreOfContent`: content and approval
differ only between the two saves of an edit, when the verdict is already reset,
so that the gate is closed, and no copy taken then is approved (`ApprovalInv`).
`CaseChangesReopen`: a case that changes is announced by the handler that
changed it until its automation is listed, and what is listed is what is stored
until it is reopened (`CaseInv`, `CopiesOfCase`). `RecordsAgreeWithRows`: the
newest entry of the approvals table says what the row says, because a save that
finds nobody else with the row carries on the approval it read (`SoundCopy`),
and every change of an approval is recorded or marked by the handler that made
it (`Registers`). `DecisionsAreShown`: a list that does not show what was
decided as it is now will be asked for, or says that it failed or missed an
invalidation.

### Projects: `ProjectProofs`

* Sequences (`BlocksNeverOverlap`, `RowNeverRetreats`): disjointness needs that
  what a call read is a value the row has held (`ReadsArePast`), that blocks lie
  below the row, and that a pending raise still raises it. A compare-and-swap on
  a value read long ago is safe only because the row never returns to one.
* Configuration (`CloudJobsAreComplete`): `Complete` of every row held, and a
  flag that a key is stored is true wherever it is held (`FlagHasKey`).
* Requirements (`RequirementsAreDerivedOnce`): without overlap, the one
  derivation at work knows every text that has a requirement (`OneWorks`).
* Plans (`PlansAreApprovedAsTheyAre`, `RevisionsOnlyGrow`): an approved plan
  with other content has a handler about to reopen it (`BadIsReopened`), and
  what a decision holds is sound (`CopiesAreSound`).
* Editors (`TypedTextIsKept`): what a form was seeded from was stored once, and
  so was a draft it takes for unchanged, unless Save cleared the flag before.

### Engine: `EngineRunsProofs`

`LiveProcessesAreReachable` rests on `ThreadInv`: a run that is not overlapped
has one thread that is not over (`OneCurrent`), so no other thread's `Register`
or `Pop` touches its registry entry (`RegistryAgrees`), and a process lives only
while its thread waits for it. `ClosedKeysStayBounded`: the key evicted is the
head of a full queue, so it is closed and not the one being closed.
`StreamsEndWithVerdict`, for runs of one thread: until its key is closed, or
while it is not evicted, numbers go on from what its streams have read
(`NumbersGoOn`), so the verdict is new to each of them; it stands as far from
the end of the history as events followed it, and a stream that has read past it
has it (`VerdictIsKept`); a stream ends only when the key is closed and it has
read all (`OnlyThread`).

### Delivery: `DeliveryProofs`

*Workflow.* `OnlyAgreedCodeRuns`: every step is a step of `HumanGate` or leaves
its variables alone. `WorkflowInv` ties the counters to each other
(`CountersAgree`), the approval in the state to the files in the state
(`ConsentIsFresh`, which holds although the decision of an earlier pass stays in
the state, because every way to execution leads through the gate), and the run
id to the files (`RunIsCurrent`). `RowInv` adds that the files at the gate are
the newest generation, which is why the newest row of their path is theirs
unless it was lost.

*Git.* `GitInv`: every test file, in a call, a workspace or a commit, was
cleared with that content (`TestsAreCleared`, for `TestsLeaveCleared`); the
chain of a project is a line with one head at work, for which the proof gives
each push a ticket (`PushesWaitInLine`, for `PushesTakeTurns`); whatever is in
the workspace and not in the fetched commit was written by a push that got so
far (`WorkspaceIsAccounted`, for `PushesKeepFilesOfOthers`).

*Sessions.* `SessionIsOfOneUser`: a login, a bootstrap and a session exclude
each other (`LoginAlone`, `BootstrapAlone`); until a session ends with requests
under way or its cookie is changed by another tab, token, cookie and shown user
are of one user (`PageIsOfOne`), and so is every request and the one refresh
(`CallsAreOfOne`).

### Only model-checked

All liveness (`EveryRunSettles`, `EveryJobSettles`, `EveryStreamEnds`,
`WorkflowRests`, `EveryPushIsAnswered`, `EndIsShown`, `UnreadIsSeen`,
`FinishIsSeen`): the prover has no rule for fairness and `ENABLED`. The type
invariant `LiveTypeOK` of the page of a run holds in the instance of its run:
`LivePage` has no specification of its own, only steps that `MCSettles` composes.

Theorems without a run of their own (`RowNeverRetreats`, `RevisionsOnlyGrow`,
`RetriesAreBounded`, `HumanSeesVerdict`, `ReportsFollowApproval`,
`ApprovedRowsWereShown`, `ClosedKeysStayBounded`, `JobsStaySettled`,
`PushesTakeTurns`, `SlotsAreHeld`, `RecordsAgreeWithRows`, `FeedsAreTyped`) are
about definitions of the modules, which TLC can check as well; runs are kept to
the properties that need them most.

## Findings

Each is a run whose counterexample is an execution of the code.

* **A queued run is not started when a slot frees up** (`exec_stuck_queue`,
  `executions.service.ts:561`). If Stop overtakes the claim of a run, startRun
  returns early and drops the slot without asking for another pass; the next
  run waits until somebody else pumps.
* **A retried submit starts a second job** (`exec_retry`, `main.py:411`).
  `EngineClient.post` sends `POST /execute` again after a network error, 502,
  503 or 504 (`engine.client.ts:61-77`), also when the engine took the first and
  only its answer was lost. `execute` in `main.py` looks at no key and refuses
  only a run whose process is registered, which its thread does later.
  `engine.client.ts:52-54` says "Job submits carry an Idempotency-Key so retries
  never duplicate side effects".
* **A cancelled job runs on** (`jobs_cancel`, `jobs.service.ts:165`). The next
  log line of the worker saves the whole Job object, in which the flag set by
  `cancel()` is still false, and the worker passes its next checkpoint.
* **Edited code runs without a new approval** (`artefacts_run`,
  `executions.service.ts:601`). The gate is asked when a run is created;
  startRun loads the artefacts again when the run leaves the queue and submits
  what they contain then. `automation.service.ts:346` promises revalidation and
  reapproval "before it can execute".
* **A reconnect does not close every gap** (`live_feed_gap`,
  `executions.service.ts:736`). An event of the timeline is numbered and
  broadcast before it is saved. A console that was offline at the broadcast and
  replays before the save gets neither; the next event moves its `lastSeq` past
  the missing one, and no later replay asks for it.

## Observations

Other disagreements and oddities that the models include. Where a definition is
named it is in the module, and its counterexample can be seen by putting it
into a cfg.

**Runs.** `TerminalIsFinal` fails (`executions.service.ts:1176` saves the row
that `cancel()` read before its awaits; `state-machines.ts:114`: a terminal run
"can no longer progress"), and a page that stopped polling at the first end
does not show the second. `ConcurrencyLimit` fails (1183: Stop gives the slot
back while the engine's process may still run; `configuration.ts:43`). A pass
ends at a run it finds claimed already (514), so another queued run may wait
although a slot is free. Stop in `preparing` is refused with 409 (1165), as the
transition map has no way to `stopping`. Runs and jobs that were active when
the backend stopped are never settled (190). With two slots a pass that waits
between query and claim can claim a run that is already over; the check at the
start of `startRun` drops it. A page whose first request is lost never polls.

**Results, reports, publication.** `BlockedAreCounted` fails
(`reports.service.ts:76`): rows and metrics count errors differently. A report
asked for at the status event may precede the stored rows. The report page says
passed when no metric failed although tests were blocked; the pass rate ignores
blocked tests and rounds 99.5 to 100; with reruns, progress shows more completed
tests than there are. The JUnit export writes errors and blocked tests as
passing. Two decisions on a report in one second are in no order, so a rejected
report may leave (`RejectedStaysInForGood`; `ExecutionReportPage.tsx:130`), and
only rejected ones are refused although `reports.service.ts:260` says only
approved ones are exported; a regenerated report keeps its old decision.

**Rows of finished runs.** Two promotions that overlap leave two baselines or
none (`SingleBaseline`, `regression.service.ts:140`). An unknown CI conclusion
is imported as passed; a run whose dispatch failed stays running; the import
checks neither mode nor status; the save after a dispatch may overwrite an
import. An override after a draft leaves the draft with the old classification.

**Comparisons.** A comparison with a run whose results are not stored yet, or a
CI run, finds every test missing, and the page says "No regressions. Every test
that passed in the baseline still passes." (`CleanIsStillPassing`,
`RegressionPage.tsx:92-94`), as it does when the candidate skipped them.

**Live streams.** The last number is primed only if the table has rows; the
connect event precedes the join of the room; the page's poll closes the socket
before the last lines of `finalize()`; `applyStatus` has no check of the number
although `executionTimeline.ts:167` says so; a failure to seed the counter makes
`write()` throw although it "never throws to the caller".

**Jobs and generation.** A stale save by `cancel()` can turn a finished job back
to `running` for good; the link of a retry to its job is lost by later saves of
the whole row (471, 165); a repeated Idempotency-Key starts a second worker on a
running job and ends the process on a finished one (137); check and insert of a
key are two steps without a unique index, and a key finds any job of the
project, of whatever type; a cancel logged after the job's `finally` starts its
numbers again at one. The workers save rows under a job that has timed out
(`NoRowWhenOver`; `jobs.service.ts:202-204` against `analysis.service.ts:137`),
which nothing announces. On the page, the replay of an old job after the next
was started hides the new job's first lines; the first connection never
replays; a lost answer to Generate, or leaving the page, orphans the console.
A retried call of a generation runs the model again, against the same comment
as in `exec_retry`, because the engine's look at the Idempotency-Key is a check
and an act (`main.py:86-112`).

**Approvals.** The version column is not compared by any save. The inbox says
everything is decided when a query failed, when there are more than 200 cases,
or while its list is old; it does not hear of decisions made elsewhere; a
decision that fails half-way leaves its lists stale; a bulk decision is
answered with success although some of its rows were refused. The revision that
an edit of an approved plan inserts is stored as approved, for the plan is
reopened only after it (`NewRevisionIsUndecided`, `test-plans.service.ts:318`).

**Editors, uploads, settings.** The section editor clears its dirty flag before
the save is answered, and takes over a refetch made before it
(`NeverWipedByRefetch`, `SectionEditor.tsx:60`); the code editor discards what
is typed during a save; Revert restores a stale baseline. A rejected file is
shown as parsed (`useUploadQueue.ts:19`); a removal between the document and its
segments leaves segments without a document. Overlapping derivations duplicate
requirements; those of a segment excluded later stay. A key stays when the
provider changes (`KeyIsOfProvider`, `ProjectForm.tsx:118`).

**Sessions, git.** A request under way when a session ends may be served for
another user after a new login (`ServedAsSender`). "Remote main already up to
date" is concluded from the workspace, also when the remote is empty and the
commit of an earlier push never got there (`NothingToPush`,
`git.service.ts:410`); a push that broke off leaves files that the next one
commits (`CommittedTreeIsExact`, 365).

**Notifications.** The poll rests in a hidden tab; a panel whose list was served
before a mark and closed is considered fresh; "mark all" marks what was stored
after the panel was drawn; cancelled jobs tell nobody.

**Engine.** A submit retried before the process of the first is registered
starts a second process (`NoSecondProcess`, the other side of `exec_retry`), and
one of the two can no longer be cancelled. `cancelled` may be emitted after the
verdict and after the key was closed; an event for an evicted key creates the
key again, and nothing closes it; a stream of an evicted key waits for ever. A
browser that survives pytest keeps its output open, and with it the stream of
the run (`HeldOpen`, `execution.py:184` and 455), although `execution.py:177`
says that browser children always die.

**Workflow.** A thread that is started again keeps `automation_attempts`, so the
next pass has fewer retries or none; when the commit of a generation failed, an
approval marks an older row of the same path; a failed commit of the decision
does not stop the execution.

**Sequences.** `raiseTo` that runs out of attempts looks like a success (71).

## What is not modelled

`PROJECT.json` gives a reason for each component. In short:

* **Retention**: periodic deletion by age; no other service waits for it.
* **Engine agents, code validation, fine-tuning, sample application**:
  transformations of text, prompts and data without state of their own. Their
  results are choices in the models of their callers.
* **V1 API** of the engine: superseded by the backend, a request per
  transaction over the same agents.
* **Dashboards and statistics** (`projects.service.ts:163-335`,
  `test-cases.service.ts:409-444`): aggregates read from other rows.
* **Audit**: append-only, and nothing reads it back for a decision.
* **Presentation**: layout, wording, filters and presentational components.

Within the modelled components: failures of the backend's database other than
those named, a crash of the backend other than in `LiveFeed` (there is no
recovery in the code that a property could be about), two engine or workflow
processes on one project, the files the engine writes into a run's workspace
(`materialise_files`), and the contents of plans, cases and code.

## Plan

Every invariant and action property of the passing runs has its theorem, and so
have the refinements of `RunQueue` and `HumanGate`. What is left, in this order:

1. An abstract specification of the life of a job (queued, running, settled
   once), and `Jobs` shown to implement it.
2. Models: `materialise_files`, the membership check of a room, the review of
   an analysis.
