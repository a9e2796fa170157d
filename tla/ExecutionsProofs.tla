-------------------------- MODULE ExecutionsProofs --------------------------
(***************************************************************************)
(* What the execution service keeps for every set of runs, any number of   *)
(* Stop requests, every concurrency limit, every metrics a run may report, *)
(* with and without stalls.                                                *)
(***************************************************************************)
EXTENDS Executions, TLAPS

USE DEF sent

LEMMA StatusNames ==
  ExecutionStatus = {"queued", "preparing", "running", "stopping", "passed", "failed",
                     "partially_passed", "cancelled", "timed_out", "completed", "error"}
  BY DEF ExecutionStatus, ExecutionTransitions

(* A row stays a row under the changes the handlers make to it. *)
LEMMA WithStatusType ==
  ASSUME NEW run \in Rows \cup {NoRow}, NEW s \in ExecutionStatus
  PROVE  WithStatus(run, s) \in Rows
  BY DEF WithStatus, Rows, NoRow

LEMMA OutcomeType ==
  ASSUME NEW m
  PROVE  OutcomeFromMetrics(m) \in {"passed", "partially_passed", "failed"}
  BY DEF OutcomeFromMetrics

LEMMA AppliedType ==
  ASSUME NEW run \in Rows \cup {NoRow}, NEW e \in EventSet
  PROVE  Applied(e, run) \in Rows
<1>1. run.metrics \in Counts \cup {NoMetrics}
  BY DEF Rows, NoRow
<1>2. CASE e.status = "running"
  BY <1>2, WithStatusType, StatusNames DEF Applied
<1>3. CASE e.status = "completed"
  BY <1>1, <1>3, OutcomeType, StatusNames DEF Applied, EventSet, Rows
<1>4. CASE e.status \in {"error", "cancelled", "timed_out"}
  BY <1>1, <1>4, StatusNames DEF Applied, EventSet, Rows
<1>5. QED
  BY <1>2, <1>3, <1>4 DEF EventSet, EngineOutcome

LEMMA FinalStatusType ==
  ASSUME NEW run PROVE FinalStatus(run) \in ExecutionStatus
  BY OutcomeType, StatusNames DEF FinalStatus

-----------------------------------------------------------------------------
(* Changing a field of a record, or the value of a function at one place.  *)
LEMMA PCType ==
  ASSUME NEW S, NEW T, NEW x \in [pc : S, run : T], NEW p \in S
  PROVE  [x EXCEPT !.pc = p] \in [pc : S, run : T]
  OBVIOUS

LEMMA AbortType ==
  ASSUME NEW A, NEW B, NEW C, NEW x \in [pc : A, id : B, run : C, abort : BOOLEAN],
         NEW p \in A, NEW b \in BOOLEAN
  PROVE  [x EXCEPT !.pc = p, !.abort = b] \in [pc : A, id : B, run : C, abort : BOOLEAN]
  OBVIOUS

LEMMA JobsType ==
  ASSUME NEW S, NEW x \in [jobs : S, starting : S, running : S], NEW a \in S, NEW b \in S
  PROVE  /\ [x EXCEPT !.jobs = a, !.starting = b] \in [jobs : S, starting : S, running : S]
         /\ [x EXCEPT !.starting = a, !.running = b] \in [jobs : S, starting : S, running : S]
         /\ [x EXCEPT !.starting = a] \in [jobs : S, starting : S, running : S]
         /\ [x EXCEPT !.running = a] \in [jobs : S, starting : S, running : S]
  OBVIOUS

LEMMA UpdateType ==
  ASSUME NEW S, NEW T, NEW f \in [S -> T], NEW x \in S, NEW y \in T
  PROVE  [f EXCEPT ![x] = y] \in [S -> T]
  OBVIOUS

LEMMA InitType == Init => TypeOK
  BY AttemptsAssumption
  DEF Init, TypeOK, NoRow, NoJobs, IdleStarter, StarterPC, WatchdogPC, RequestPC

(* What the helpers of the handlers assign keeps the type of its variable. *)
LEMMA SaveType ==
  ASSUME TypeOK, NEW r \in Runs, NEW run \in Rows \cup {NoRow}, Save(r, run)
  PROVE  row' \in [Runs -> Rows \cup {NoRow}]
  BY DEF TypeOK, Save

LEMMA MoveType ==
  ASSUME TypeOK, NEW r \in Runs, NEW k \in Claims, NEW pc \in StarterPC,
         NEW run \in Rows \cup {NoRow}, Move(r, k, pc, run)
  PROVE  starter' \in [Runs \X Claims -> [pc : StarterPC, run : Rows \cup {NoRow}]]
  BY DEF TypeOK, Move

LEMMA GoToType ==
  ASSUME TypeOK, NEW r \in Runs, NEW k \in Claims, NEW pc \in StarterPC, GoTo(r, k, pc)
  PROVE  starter' \in [Runs \X Claims -> [pc : StarterPC, run : Rows \cup {NoRow}]]
<1>1. Held(r, k) \in Rows \cup {NoRow}
  BY DEF TypeOK, Held
<1>2. QED
  BY <1>1, MoveType DEF GoTo

LEMMA WatchType ==
  ASSUME TypeOK, NEW r \in Runs, NEW pc \in WatchdogPC, NEW run \in Rows \cup {NoRow},
         Watch(r, pc, run)
  PROVE  watchdog' \in [Runs -> [pc : WatchdogPC, run : Rows \cup {NoRow}]]
  BY DEF TypeOK, Watch

LEMMA RequestType ==
  ASSUME TypeOK, NEW q \in Requests
  PROVE  /\ request[q] \in [pc : RequestPC, id : Runs \cup {NoRun},
                            run : Rows \cup {NoRow}, abort : BOOLEAN]
         /\ request[q].run \in Rows \cup {NoRow}
         /\ Target(q) \in Runs \cup {NoRun}
  BY DEF TypeOK, Target

LEMMA AnswerType ==
  ASSUME TypeOK, NEW q \in Requests, NEW pc \in RequestPC, NEW run \in Rows \cup {NoRow},
         Answer(q, pc, run)
  PROVE  request' \in [Requests -> [pc : RequestPC, id : Runs \cup {NoRun},
                                   run : Rows \cup {NoRow}, abort : BOOLEAN]]
<1> DEFINE RequestRows == [pc : RequestPC, id : Runs \cup {NoRun}, run : Rows \cup {NoRow},
                           abort : BOOLEAN]
<1>1. [request[q] EXCEPT !.pc = pc, !.run = run] \in RequestRows
  BY RequestType
<1>2. request' = [request EXCEPT ![q] = [@ EXCEPT !.pc = pc, !.run = run]]
  BY DEF Answer
<1>3. QED
  BY <1>1, <1>2 DEF TypeOK

LEMMA EmitType ==
  ASSUME TypeOK, NEW r \in Runs, NEW s \in {"running"} \cup EngineOutcome,
         NEW m \in Counts \cup {NoMetrics}, Emit(r, s, m)
  PROVE  events' \in [Runs -> Seq(EventSet)]
<1>1. [status |-> s, metrics |-> m] \in EventSet
  BY DEF EventSet
<1>2. Append(events[r], [status |-> s, metrics |-> m]) \in Seq(EventSet)
  BY <1>1 DEF TypeOK
<1>3. QED
  BY <1>2 DEF Emit, TypeOK

LEMMA EngineCancelType ==
  ASSUME TypeOK, NEW r \in Runs, EngineCancel(r)
  PROVE  events' \in [Runs -> Seq(EventSet)]
<1>1. CASE Emit(r, "cancelled", NoMetrics)
  BY <1>1, EmitType DEF EngineOutcome
<1>2. CASE UNCHANGED events
  BY <1>2 DEF TypeOK
<1>3. QED
  BY <1>1, <1>2 DEF EngineCancel

-----------------------------------------------------------------------------
(* No step takes a variable out of its type. *)
LEMMA PumpStepType == TypeOK /\ PumpStep => TypeOK'
<1> SUFFICES ASSUME TypeOK, PumpStep PROVE TypeOK'
  OBVIOUS
<1> DEFINE Passes == [pc : {"idle", "find", "claim"}, next : Runs \cup {NoRun}]
<1>1. CASE Find
  <2>1. pumps' \in Nat
    BY <1>1 DEF TypeOK, Find
  <2>2. OldestQueued \subseteq Runs \cup {NoRun}
    BY DEF OldestQueued, Queued
  <2>3. pass' \in Passes
    BY <1>1, <2>2 DEF Find, EndPass
  <2>4. QED
    BY <1>1, <2>1, <2>3 DEF TypeOK, Find
<1>2. CASE NothingToClaim
  BY <1>2 DEF TypeOK, NothingToClaim, EndPass
<1>3. ASSUME NEW k \in Claims, Claim(k) PROVE TypeOK'
  <2>1. pass.next \in Runs
    BY <1>3 DEF Claim
  <2>2. starter' \in [Runs \X Claims -> [pc : StarterPC, run : Rows \cup {NoRow}]]
    <3>1. [starter[<<pass.next, k>>] EXCEPT !.pc = "reread"]
            \in [pc : StarterPC, run : Rows \cup {NoRow}]
      <4>1. starter[<<pass.next, k>>] \in [pc : StarterPC, run : Rows \cup {NoRow}]
        BY <2>1 DEF TypeOK
      <4>2. QED
        BY <4>1, PCType DEF StarterPC
    <3>2. QED
      BY <1>3, <2>1, <3>1, UpdateType DEF TypeOK, Claim
  <2>3. pass' \in Passes
    BY <1>3 DEF Claim
  <2>4. QED
    BY <1>3, <2>1, <2>2, <2>3 DEF TypeOK, Claim
<1>4. QED
  BY <1>1, <1>2, <1>3 DEF PumpStep

LEMMA CreateType ==
  ASSUME TypeOK, NEW r \in Runs, Create(r) \/ PumpCreated(r) PROVE TypeOK'
<1>1. CASE Create(r)
  <2>1. [status |-> "queued", metrics |-> NoMetrics] \in Rows
    BY StatusNames DEF Rows
  <2>2. row' \in [Runs -> Rows \cup {NoRow}]
    BY <1>1, <2>1, SaveType DEF Create
  <2>3. QED
    BY <1>1, <2>2 DEF TypeOK, Create, memory
<1>2. CASE PumpCreated(r)
  BY <1>2 DEF TypeOK, PumpCreated
<1>3. QED
  BY <1>1, <1>2

LEMMA SetStatusType ==
  ASSUME TypeOK, NEW r \in Runs, NEW k \in Claims, NEW to \in ExecutionStatus,
         NEW pc \in StarterPC, SetStatus(r, k, to, pc)
  PROVE  TypeOK'
<1>1. Held(r, k) \in Rows \cup {NoRow}
  BY DEF TypeOK, Held
<1>2. WithStatus(Held(r, k), to) \in Rows
  BY <1>1, WithStatusType
<1>3. row' \in [Runs -> Rows \cup {NoRow}]
  BY <1>2, SaveType DEF SetStatus, TypeOK
<1>4. starter' \in [Runs \X Claims -> [pc : StarterPC, run : Rows \cup {NoRow}]]
  <2>1. CASE CanTransition(ExecutionTransitions, Held(r, k).status, to)
    BY <1>2, <2>1, MoveType DEF SetStatus
  <2>2. CASE ~CanTransition(ExecutionTransitions, Held(r, k).status, to)
    BY <2>2, GoToType DEF SetStatus, StarterPC
  <2>3. QED
    BY <2>1, <2>2
<1>5. QED
  BY <1>3, <1>4 DEF TypeOK, SetStatus, memory

LEMMA SaveUnlessTerminalType ==
  ASSUME TypeOK, NEW r \in Runs, NEW k \in Claims, NEW settled \in Rows,
         SaveUnlessTerminal(r, k, settled)
  PROVE  row' \in [Runs -> Rows \cup {NoRow}]
  BY SaveType DEF SaveUnlessTerminal, TypeOK

(* What an attempt to post a run does: the engine may take it, the claim   *)
(* moves on or tries again.                                                *)
LEMMA LaunchMoves ==
  ASSUME NEW r \in Runs, NEW k \in Claims, Launch(r, k)
  PROVE  \/ GoTo(r, k, "started") \/ GoTo(r, k, "failing")
         \/ UNCHANGED starter
  BY DEF Launch, Answers, Refuses, Fails

LEMMA EngineTakesType ==
  ASSUME TypeOK, NEW r \in Runs, EngineTakes(r)
  PROVE  engine' \in [Runs -> [jobs : Nat, starting : Nat, running : Nat]]
<1> DEFINE Jobs == [jobs : Nat, starting : Nat, running : Nat]
<1>1. engine[r] \in Jobs
  BY DEF TypeOK
<1>2. engine[r].jobs + 1 \in Nat /\ engine[r].starting + 1 \in Nat
  BY <1>1
<1>3. [engine[r] EXCEPT !.jobs = engine[r].jobs + 1, !.starting = engine[r].starting + 1] \in Jobs
  BY <1>1, <1>2, JobsType
<1>4. CASE UNCHANGED engine
  BY <1>4 DEF TypeOK
<1>5. CASE engine' = [engine EXCEPT ![r].jobs = @ + 1, ![r].starting = @ + 1]
  <2>1. engine' = [engine EXCEPT ![r] =
          [engine[r] EXCEPT !.jobs = engine[r].jobs + 1, !.starting = engine[r].starting + 1]]
    BY <1>5 DEF TypeOK
  <2>2. QED
    BY <1>3, <2>1, UpdateType DEF TypeOK
<1>6. QED
  BY <1>4, <1>5 DEF EngineTakes

LEMMA AttemptsType ==
  ASSUME TypeOK, NEW r \in Runs, NEW k \in Claims, NEW n \in 1..MaxAttempts,
         Attempts(r, k, n)
  PROVE  attempt' \in [Runs \X Claims -> 1..MaxAttempts]
  BY DEF TypeOK, Attempts

LEMMA StarterStepType ==
  ASSUME TypeOK, NEW r \in Runs, NEW k \in Claims, StarterStep(r, k) \/ BreakStream(r, k)
  PROVE  TypeOK'
<1> DEFINE Starters == [Runs \X Claims -> [pc : StarterPC, run : Rows \cup {NoRow}]]
<1>0. Held(r, k) \in Rows \cup {NoRow} /\ row[r] \in Rows \cup {NoRow}
  BY DEF TypeOK, Held
<1>1. CASE Reread(r, k)
  <2>1. starter' \in Starters
    <3>1. CASE row[r].status = "queued"
      BY <1>0, <1>1, <3>1, MoveType DEF Reread, StarterPC
    <3>2. CASE row[r].status # "queued"
      BY <1>1, <3>2, MoveType DEF Reread, Move, IdleStarter, StarterPC
    <3>3. QED
      BY <3>1, <3>2
  <2>2. QED
    BY <1>1, <2>1 DEF TypeOK, Reread
<1>2. CASE Prepare(r, k)
  BY <1>2, SetStatusType, StatusNames DEF Prepare, StarterPC
<1>3. CASE MarkRunning(r, k)
  BY <1>3, SetStatusType, StatusNames DEF MarkRunning, StarterPC
<1>4. CASE Launch(r, k)
  <2>1. starter' \in Starters
    BY <1>4, LaunchMoves, GoToType DEF StarterPC, TypeOK
  <2>2. engine' \in [Runs -> [jobs : Nat, starting : Nat, running : Nat]]
    BY <1>4, EngineTakesType DEF TypeOK, Launch, Answers, Refuses, Fails
  <2>3. launches' \in [Runs -> Nat]
    BY <1>4 DEF TypeOK, Launch
  <2>4. attempt' \in [Runs \X Claims -> 1..MaxAttempts]
    <3>1. attempt[<<r, k>>] \in 1..MaxAttempts /\ 1 \in 1..MaxAttempts
      BY AttemptsAssumption DEF TypeOK
    <3>2. attempt[<<r, k>>] < MaxAttempts => attempt[<<r, k>>] + 1 \in 1..MaxAttempts
      BY <3>1, AttemptsAssumption
    <3>3. \E n \in 1..MaxAttempts : Attempts(r, k, n)
      BY <1>4, <3>1, <3>2 DEF Launch, Answers, Refuses, Fails
    <3>4. QED
      BY <3>3, AttemptsType
  <2>5. QED
    BY <1>4, <2>1, <2>2, <2>3, <2>4 DEF TypeOK, Launch, memory
<1>6. CASE OpenStream(r, k)
  <2>1. starter' \in Starters
    BY <1>6, GoToType DEF OpenStream, StarterPC
  <2>2. watchdog' \in [Runs -> [pc : WatchdogPC, run : Rows \cup {NoRow}]]
    <3>1. [watchdog[r] EXCEPT !.pc = "armed"] \in [pc : WatchdogPC, run : Rows \cup {NoRow}]
      <4>1. watchdog[r] \in [pc : WatchdogPC, run : Rows \cup {NoRow}]
        BY DEF TypeOK
      <4>2. "armed" \in WatchdogPC
        BY DEF WatchdogPC
      <4>3. QED
        BY <4>1, <4>2, PCType
    <3>2. watchdog' = [watchdog EXCEPT ![r] = [watchdog[r] EXCEPT !.pc = "armed"]]
      BY <1>6 DEF OpenStream
    <3>3. QED
      BY <3>1, <3>2, UpdateType DEF TypeOK
  <2>3. QED
    BY <1>6, <2>1, <2>2 DEF TypeOK, OpenStream
<1>7. CASE HandleEvent(r, k)
  <2>1. Head(events[r]) \in EventSet /\ Tail(events[r]) \in Seq(EventSet)
    BY <1>7 DEF TypeOK, HandleEvent
  <2>2. events' \in [Runs -> Seq(EventSet)]
    BY <1>7, <2>1 DEF TypeOK, HandleEvent
  <2>3. Applied(Head(events[r]), row[r]) \in Rows
    BY <1>0, <2>1, AppliedType
  <2>4. starter' \in Starters
    BY <1>7, <2>3, MoveType DEF TypeOK, HandleEvent, StarterPC
  <2>5. QED
    BY <1>7, <2>2, <2>4 DEF TypeOK, HandleEvent, memory
<1>8. CASE SaveEvent(r, k)
  <2>1. row' \in [Runs -> Rows \cup {NoRow}]
    BY <1>0, <1>8, SaveType DEF SaveEvent
  <2>2. starter' \in Starters
    BY <1>8, GoToType DEF SaveEvent, StarterPC
  <2>3. QED
    BY <1>8, <2>1, <2>2 DEF TypeOK, SaveEvent, memory
<1>9. CASE EndStream(r, k) \/ BreakStream(r, k)
  <2>1. CloseStream(r, k)
    BY <1>9 DEF EndStream, BreakStream
  <2>2. starter' \in Starters
    BY <2>1, GoToType DEF CloseStream, StarterPC
  <2>3. watchdog' \in [Runs -> [pc : WatchdogPC, run : Rows \cup {NoRow}]]
    <3>1. [watchdog[r] EXCEPT !.pc = IF @ = "armed" THEN "off" ELSE @]
            \in [pc : WatchdogPC, run : Rows \cup {NoRow}]
      <4>1. watchdog[r] \in [pc : WatchdogPC, run : Rows \cup {NoRow}]
        BY DEF TypeOK
      <4>2. (IF watchdog[r].pc = "armed" THEN "off" ELSE watchdog[r].pc) \in WatchdogPC
        BY <4>1 DEF WatchdogPC
      <4>3. QED
        BY <4>1, <4>2, PCType
    <3>2. QED
      BY <2>1, <3>1, UpdateType DEF TypeOK, CloseStream
  <2>4. events' \in [Runs -> Seq(EventSet)]
    BY <2>1 DEF TypeOK, CloseStream
  <2>5. QED
    BY <2>1, <2>2, <2>3, <2>4 DEF TypeOK, CloseStream
<1>10. CASE Finalize(r, k)
  <2>1. starter' \in Starters
    BY <1>0, <1>10, MoveType DEF Finalize, StarterPC
  <2>2. QED
    BY <1>10, <2>1 DEF TypeOK, Finalize, memory
<1>11. CASE Conclude(r, k)
  <2>1. WithStatus(Held(r, k), FinalStatus(Held(r, k))) \in Rows
    BY <1>0, FinalStatusType, WithStatusType
  <2>2. row' \in [Runs -> Rows \cup {NoRow}]
    BY <1>11, <2>1, SaveUnlessTerminalType DEF Conclude
  <2>3. starter' \in Starters
    BY <1>11, GoToType DEF Conclude, StarterPC
  <2>4. QED
    BY <1>11, <2>2, <2>3 DEF TypeOK, Conclude, memory
<1>12. CASE Failing(r, k)
  <2>1. starter' \in Starters
    BY <1>0, <1>12, MoveType DEF Failing, StarterPC
  <2>2. QED
    BY <1>12, <2>1 DEF TypeOK, Failing, memory
<1>13. CASE GiveUp(r, k)
  <2>1. [status |-> "failed", metrics |-> NoMetrics] \in Rows
    BY StatusNames DEF Rows
  <2>2. row' \in [Runs -> Rows \cup {NoRow}]
    BY <1>13, <2>1, SaveUnlessTerminalType DEF GiveUp
  <2>3. starter' \in Starters
    BY <1>13, GoToType DEF GiveUp, StarterPC
  <2>4. QED
    BY <1>13, <2>2, <2>3 DEF TypeOK, GiveUp, memory
<1>14. CASE Release(r, k)
  BY <1>14 DEF TypeOK, Release, IdleStarter, StarterPC
<1>15. QED
  BY <1>1, <1>2, <1>3, <1>4, <1>6, <1>7, <1>8, <1>9, <1>10, <1>11, <1>12, <1>13,
     <1>14
  DEF StarterStep

LEMMA EngineStepType ==
  ASSUME TypeOK, NEW r \in Runs, EngineStarts(r) \/ EngineEnds(r) PROVE TypeOK'
<1>1. events' \in [Runs -> Seq(EventSet)]
  <2>1. CASE EngineStarts(r)
    BY <2>1, EmitType DEF EngineStarts
  <2>2. CASE EngineEnds(r)
    BY <2>2, EmitType DEF EngineEnds, EngineOutcome
  <2>3. QED
    BY <2>1, <2>2
<1>2. engine' \in [Runs -> [jobs : Nat, starting : Nat, running : Nat]]
  <2> DEFINE Jobs == [jobs : Nat, starting : Nat, running : Nat]
  <2>1. engine[r] \in Jobs
    BY DEF TypeOK
  <2>2. CASE EngineStarts(r)
    <3>1. engine[r].starting - 1 \in Nat /\ engine[r].running + 1 \in Nat
      BY <2>1, <2>2 DEF EngineStarts
    <3>2. [engine[r] EXCEPT !.starting = engine[r].starting - 1,
                            !.running = engine[r].running + 1] \in Jobs
      BY <2>1, <3>1, JobsType
    <3>3. engine' = [engine EXCEPT ![r] =
            [engine[r] EXCEPT !.starting = engine[r].starting - 1,
                              !.running = engine[r].running + 1]]
      BY <2>2 DEF TypeOK, EngineStarts
    <3>4. QED
      BY <3>2, <3>3, UpdateType DEF TypeOK
  <2>3. CASE EngineEnds(r)
    <3>1. CASE engine[r].starting > 0 /\ engine' = [engine EXCEPT ![r].starting = @ - 1]
      <4>1. engine[r].starting - 1 \in Nat
        BY <2>1, <3>1
      <4>2. [engine[r] EXCEPT !.starting = engine[r].starting - 1] \in Jobs
        BY <2>1, <4>1, JobsType
      <4>3. engine' = [engine EXCEPT ![r] = [engine[r] EXCEPT !.starting = engine[r].starting - 1]]
        BY <3>1 DEF TypeOK
      <4>4. QED
        BY <4>2, <4>3, UpdateType DEF TypeOK
    <3>2. CASE engine[r].running > 0 /\ engine' = [engine EXCEPT ![r].running = @ - 1]
      <4>1. engine[r].running - 1 \in Nat
        BY <2>1, <3>2
      <4>2. [engine[r] EXCEPT !.running = engine[r].running - 1] \in Jobs
        BY <2>1, <4>1, JobsType
      <4>3. engine' = [engine EXCEPT ![r] = [engine[r] EXCEPT !.running = engine[r].running - 1]]
        BY <3>2 DEF TypeOK
      <4>4. QED
        BY <4>2, <4>3, UpdateType DEF TypeOK
    <3>3. QED
      BY <2>3, <3>1, <3>2 DEF EngineEnds
  <2>4. QED
    BY <2>2, <2>3
<1>3. QED
  BY <1>1, <1>2 DEF TypeOK, EngineStarts, EngineEnds, memory

LEMMA WatchdogStepType ==
  ASSUME TypeOK, NEW r \in Runs, WatchdogStep(r) PROVE TypeOK'
<1>1. CASE Fire(r)
  <2>1. events' \in [Runs -> Seq(EventSet)]
    BY <1>1, EngineCancelType DEF Fire
  <2>2. watchdog' \in [Runs -> [pc : WatchdogPC, run : Rows \cup {NoRow}]]
    BY <1>1, WatchType DEF Fire, WatchdogPC
  <2>3. QED
    BY <1>1, <2>1, <2>2 DEF TypeOK, Fire, memory
<1>2. CASE ReadStalled(r)
  <2>1. row[r] \in Rows \cup {NoRow}
    BY DEF TypeOK
  <2>2. watchdog' \in [Runs -> [pc : WatchdogPC, run : Rows \cup {NoRow}]]
    BY <1>2, <2>1, WatchType DEF ReadStalled, WatchdogPC
  <2>3. QED
    BY <1>2, <2>2 DEF TypeOK, ReadStalled, memory
<1>3. CASE SaveTimedOut(r)
  <2>1. watchdog[r].run \in Rows \cup {NoRow}
    BY DEF TypeOK
  <2>2. WithStatus(watchdog[r].run, "timed_out") \in Rows
    BY <2>1, StatusNames, WithStatusType
  <2>3. row' \in [Runs -> Rows \cup {NoRow}]
    BY <1>3, <2>2, SaveType DEF SaveTimedOut
  <2>4. watchdog' \in [Runs -> [pc : WatchdogPC, run : Rows \cup {NoRow}]]
    BY <1>3, WatchType DEF SaveTimedOut, WatchdogPC
  <2>5. QED
    BY <1>3, <2>3, <2>4 DEF TypeOK, SaveTimedOut, memory
<1>4. CASE AbortStalled(r)
  <2>1. watchdog' \in [Runs -> [pc : WatchdogPC, run : Rows \cup {NoRow}]]
    BY <1>4, WatchType DEF AbortStalled, WatchdogPC
  <2>2. QED
    BY <1>4, <2>1 DEF TypeOK, AbortStalled
<1>5. QED
  BY <1>1, <1>2, <1>3, <1>4 DEF WatchdogStep

(* A request that got past its first step names a run. *)
RequestsNameRuns == \A q \in Requests : request[q].pc # "off" => request[q].id \in Runs

LEMMA RequestStepType ==
  ASSUME TypeOK, RequestsNameRuns, NEW q \in Requests,
         RequestStep(q) \/ \E r \in Runs : Stop(q, r)
  PROVE  TypeOK'
<1> DEFINE RequestRows == [Requests -> [pc : RequestPC, id : Runs \cup {NoRun},
                                        run : Rows \cup {NoRow}, abort : BOOLEAN]]
<1>0. request[q].run \in Rows \cup {NoRow}
  BY RequestType
<1>1. ASSUME NEW r \in Runs, Stop(q, r) PROVE TypeOK'
  BY <1>1 DEF TypeOK, Stop, RequestPC, memory
<1>2. CASE RequestStep(q)
  <2>1. Target(q) \in Runs
    BY <1>2 DEF RequestsNameRuns, RequestStep, CheckStop, MarkStop, StopEngine,
                ConcludeStop, ReleaseStop, Target, Asked
  <2>2. CASE CheckStop(q)
    <3>1. request' \in RequestRows
      <4>1. CASE IsTerminalExecution(request[q].run.status)
        BY <1>0, <2>2, <4>1, AnswerType DEF CheckStop, RequestPC
      <4>2. CASE ~IsTerminalExecution(request[q].run.status)
        <5>1. [request[q] EXCEPT !.pc = "mark", !.abort = Target(q) \in controllers]
                \in [pc : RequestPC, id : Runs \cup {NoRun}, run : Rows \cup {NoRow},
                     abort : BOOLEAN]
          <6>1. (Target(q) \in controllers) \in BOOLEAN /\ "mark" \in RequestPC
            BY DEF RequestPC
          <6>2. request[q] \in [pc : RequestPC, id : Runs \cup {NoRun},
                               run : Rows \cup {NoRow}, abort : BOOLEAN]
            BY RequestType
          <6>3. QED
            BY <6>1, <6>2, AbortType, Zenon
        <5>2. request' = [request EXCEPT ![q] =
                 [@ EXCEPT !.pc = "mark", !.abort = Target(q) \in controllers]]
          BY <2>2, <4>2 DEF CheckStop
        <5>3. QED
          BY <5>1, <5>2 DEF TypeOK
      <4>3. QED
        BY <4>1, <4>2
    <3>2. QED
      BY <2>2, <3>1 DEF TypeOK, CheckStop, memory
  <2>3. CASE MarkStop(q)
    <3> DEFINE to == StopMark(request[q].run)
    <3>1. WithStatus(request[q].run, to) \in Rows
      BY <1>0, StatusNames, WithStatusType DEF StopMark
    <3>2. CASE CanTransition(ExecutionTransitions, request[q].run.status, to)
      <4>1. Save(Target(q), WithStatus(request[q].run, to))
            /\ Answer(q, "engine", WithStatus(request[q].run, to))
        BY <2>3, <3>2 DEF MarkStop
      <4>2. row' \in [Runs -> Rows \cup {NoRow}] /\ request' \in RequestRows
        BY <2>1, <3>1, <4>1, SaveType, AnswerType DEF RequestPC
      <4>3. QED
        BY <2>3, <4>2 DEF TypeOK, MarkStop, memory
    <3>3. CASE ~CanTransition(ExecutionTransitions, request[q].run.status, to)
      <4>1. UNCHANGED row /\ Answer(q, "refused", request[q].run)
        BY <2>3, <3>3 DEF MarkStop
      <4>2. request' \in RequestRows
        BY <1>0, <4>1, AnswerType DEF RequestPC
      <4>3. QED
        BY <2>3, <4>1, <4>2 DEF TypeOK, MarkStop, memory
    <3>4. QED
      BY <3>2, <3>3
  <2>4. CASE StopEngine(q)
    <3>1. events' \in [Runs -> Seq(EventSet)]
      BY <2>1, <2>4, EngineCancelType DEF StopEngine
    <3>2. request' \in RequestRows
      BY <1>0, <2>4, AnswerType DEF StopEngine, RequestPC
    <3>3. QED
      BY <2>4, <3>1, <3>2 DEF TypeOK, StopEngine, memory
  <2>5. CASE ConcludeStop(q)
    <3>1. WithStatus(request[q].run, "cancelled") \in Rows
      BY <1>0, StatusNames, WithStatusType
    <3>2. row' \in [Runs -> Rows \cup {NoRow}] /\ request' \in RequestRows
      BY <2>1, <2>5, <3>1, SaveType, AnswerType DEF ConcludeStop, RequestPC
    <3>3. QED
      BY <2>5, <3>2 DEF TypeOK, ConcludeStop, memory
  <2>6. CASE ReleaseStop(q)
    <3>1. request' \in RequestRows
      BY <1>0, <2>6, AnswerType DEF ReleaseStop, RequestPC
    <3>2. QED
      BY <2>1, <2>6, <3>1 DEF TypeOK, ReleaseStop
  <2>7. QED
    BY <1>2, <2>2, <2>3, <2>4, <2>5, <2>6 DEF RequestStep
<1>3. QED
  BY <1>1, <1>2

(* The type invariant is inductive once a Stop request names its run. *)
TypeInv == TypeOK /\ RequestsNameRuns

LEMMA TypeInvInit == Init => TypeInv
  BY InitType DEF TypeInv, Init, RequestsNameRuns

LEMMA NextType == TypeOK /\ RequestsNameRuns /\ [Next]_vars => TypeOK'
<1> SUFFICES ASSUME TypeOK, RequestsNameRuns, [Next]_vars PROVE TypeOK'
  OBVIOUS
<1>1. CASE UNCHANGED vars
  BY <1>1 DEF TypeOK, vars
<1>2. CASE PumpStep
  BY <1>2, PumpStepType
<1>3. ASSUME NEW r \in Runs, Create(r) \/ PumpCreated(r) PROVE TypeOK'
  BY <1>3, CreateType
<1>4. ASSUME NEW r \in Runs, NEW k \in Claims, StarterStep(r, k) \/ BreakStream(r, k)
      PROVE  TypeOK'
  BY <1>4, StarterStepType
<1>5. ASSUME NEW r \in Runs, EngineStarts(r) \/ EngineEnds(r) PROVE TypeOK'
  BY <1>5, EngineStepType
<1>6. ASSUME NEW r \in Runs, WatchdogStep(r) PROVE TypeOK'
  BY <1>6, WatchdogStepType
<1>7. ASSUME NEW q \in Requests, RequestStep(q) \/ \E r \in Runs : Stop(q, r)
      PROVE  TypeOK'
  BY <1>7, RequestStepType
<1>8. QED
  BY <1>1, <1>2, <1>3, <1>4, <1>5, <1>6, <1>7 DEF Next

LEMMA NamesKept == RequestsNameRuns /\ TypeOK /\ [Next]_vars => RequestsNameRuns'
<1> SUFFICES ASSUME RequestsNameRuns, TypeOK, [Next]_vars PROVE RequestsNameRuns'
  OBVIOUS
<1>1. CASE UNCHANGED request
  BY <1>1 DEF RequestsNameRuns
<1>2. ASSUME NEW q \in Requests, RequestStep(q) PROVE RequestsNameRuns'
  <2>1. request[q].pc # "off" /\ request' \in [Requests -> [pc : RequestPC,
          id : Runs \cup {NoRun}, run : Rows \cup {NoRow}, abort : BOOLEAN]]
    BY <1>2, RequestStepType DEF RequestStep, CheckStop, MarkStop, StopEngine,
      ConcludeStop, ReleaseStop, Asked, TypeOK
  <2>2. \A p \in Requests \ {q} : request'[p] = request[p]
    BY <1>2 DEF TypeOK, RequestStep, CheckStop, MarkStop, StopEngine, ConcludeStop,
      ReleaseStop, Answer
  <2>3. request'[q].id = request[q].id
    BY <1>2, RequestType DEF TypeOK, RequestStep, CheckStop, MarkStop, StopEngine,
      ConcludeStop, ReleaseStop, Answer
  <2>4. QED
    BY <2>1, <2>2, <2>3 DEF RequestsNameRuns
<1>3. ASSUME NEW q \in Requests, NEW r \in Runs, Stop(q, r) PROVE RequestsNameRuns'
  BY <1>3 DEF TypeOK, Stop, RequestsNameRuns
<1>4. ASSUME NEW r \in Runs, NEW k \in Claims, StarterStep(r, k) \/ BreakStream(r, k)
      PROVE  UNCHANGED request
  BY <1>4 DEF StarterStep, BreakStream, Reread, Prepare, Launch, MarkRunning,
    OpenStream, HandleEvent, SaveEvent, EndStream, CloseStream, Finalize, Conclude, Failing,
    GiveUp, Release, SetStatus
<1>5. ASSUME NEW r \in Runs, Create(r) \/ PumpCreated(r) \/ EngineStarts(r) \/ EngineEnds(r)
                               \/ WatchdogStep(r)
      PROVE  UNCHANGED request
  BY <1>5 DEF Create, PumpCreated, EngineStarts, EngineEnds, WatchdogStep, Fire, ReadStalled,
    SaveTimedOut, AbortStalled
<1>6. CASE PumpStep
  BY <1>1, <1>6 DEF PumpStep, Find, NothingToClaim, Claim
<1>7. CASE UNCHANGED vars
  BY <1>1, <1>7 DEF vars
<1>8. QED
  BY <1>1, <1>2, <1>3, <1>4, <1>5, <1>6, <1>7 DEF Next

LEMMA TypeInvStep == TypeInv /\ [Next]_vars => TypeInv'
  BY NextType, NamesKept DEF TypeInv

LEMMA TypeInvHolds == Spec => []TypeInv
  BY TypeInvInit, TypeInvStep, PTL DEF Spec

(* Every variable of the service keeps its type. *)
THEOREM TypeCorrect == Spec => []TypeOK
<1>1. TypeInv => TypeOK
  BY DEF TypeInv
<1>2. QED
  BY <1>1, TypeInvHolds, PTL

-----------------------------------------------------------------------------
(* Green runs are earned: the stored rows are green or not passed because  *)
(* every copy a handler may save is, from the moment it was read.          *)
Green(run) ==
  run.status = "passed" =>
    run.metrics.passed > 0 /\ run.metrics.failed = 0 /\ run.metrics.errors = 0

RowsGreen == \A r \in Runs : Green(row[r])
HeldGreen == \A r \in Runs, k \in Claims : Green(starter[<<r, k>>].run)
WatchedGreen == \A r \in Runs : Green(watchdog[r].run)
AskedGreen == \A q \in Requests : Green(request[q].run)
AllGreen == RowsGreen /\ HeldGreen /\ WatchedGreen /\ AskedGreen

LEMMA NotPassedGreen ==
  ASSUME NEW run \in Rows \cup {NoRow}, NEW s \in ExecutionStatus, s # "passed"
  PROVE  Green(WithStatus(run, s))
  BY DEF Green, WithStatus, Rows, NoRow

LEMMA OutcomeGreen ==
  ASSUME NEW run \in Rows, run.status = OutcomeFromMetrics(run.metrics)
  PROVE  Green(run)
<1>1. run.metrics \in [passed : Nat, failed : Nat, errors : Nat]
  BY CountsAssumption DEF Rows, NoMetrics
<1>2. QED
  BY <1>1 DEF Green, OutcomeFromMetrics

LEMMA AppliedGreen ==
  ASSUME NEW run \in Rows \cup {NoRow}, NEW e \in EventSet
  PROVE  Green(Applied(e, run))
<1>1. CASE e.status = "running"
  BY <1>1, NotPassedGreen, StatusNames DEF Applied
<1>2. CASE e.status = "completed"
  <2>1. Applied(e, run) = [metrics |-> e.metrics, status |-> OutcomeFromMetrics(e.metrics)]
    BY <1>2 DEF Applied
  <2>2. QED
    BY <2>1, AppliedType, OutcomeGreen
<1>3. CASE e.status \in {"error", "cancelled", "timed_out"}
  BY <1>3 DEF Applied, Green
<1>4. QED
  BY <1>1, <1>2, <1>3 DEF EventSet, EngineOutcome

LEMMA SaveGreen ==
  ASSUME TypeOK, RowsGreen, NEW r \in Runs, NEW run, Green(run), Save(r, run)
  PROVE  RowsGreen'
  BY DEF TypeOK, RowsGreen, Save, Green

LEMMA MoveGreen ==
  ASSUME TypeOK, HeldGreen, NEW r \in Runs, NEW k \in Claims, NEW pc, NEW run, Green(run),
         Move(r, k, pc, run)
  PROVE  HeldGreen'
  BY DEF TypeOK, HeldGreen, Move, Green

LEMMA GoToGreen ==
  ASSUME TypeOK, HeldGreen, NEW r \in Runs, NEW k \in Claims, NEW pc, GoTo(r, k, pc)
  PROVE  HeldGreen'
  BY MoveGreen DEF GoTo, HeldGreen, Held

LEMMA WatchGreen ==
  ASSUME TypeOK, WatchedGreen, NEW r \in Runs, NEW pc, NEW run, Green(run), Watch(r, pc, run)
  PROVE  WatchedGreen'
  BY DEF TypeOK, WatchedGreen, Watch, Green

LEMMA AnswerGreen ==
  ASSUME TypeOK, AskedGreen, NEW q \in Requests, NEW pc, NEW run, Green(run),
         Answer(q, pc, run)
  PROVE  AskedGreen'
<1> SUFFICES ASSUME NEW p \in Requests PROVE Green(request'[p].run)
  BY DEF AskedGreen
<1>1. CASE p = q
  <2>1. request'[q].run = run
    BY RequestType DEF TypeOK, Answer
  <2>2. QED
    BY <1>1, <2>1
<1>2. CASE p # q
  BY <1>2 DEF TypeOK, Answer, AskedGreen
<1>3. QED
  BY <1>1, <1>2

LEMMA StarterStepGreen ==
  ASSUME TypeOK, AllGreen, NEW r \in Runs, NEW k \in Claims,
         StarterStep(r, k) \/ BreakStream(r, k)
  PROVE  AllGreen'
<1> USE DEF AllGreen
<1>a. Held(r, k) \in Rows \cup {NoRow} /\ row[r] \in Rows \cup {NoRow}
  BY DEF TypeOK, Held
<1>b. Green(Held(r, k)) /\ Green(row[r]) /\ Green(NoRow)
  BY DEF RowsGreen, HeldGreen, Held, Green, NoRow
<1>c. ASSUME UNCHANGED request PROVE AskedGreen'
  BY <1>c DEF AskedGreen
<1>d. ASSUME UNCHANGED watchdog PROVE WatchedGreen'
  BY <1>d DEF WatchedGreen
<1>e. ASSUME UNCHANGED row PROVE RowsGreen'
  BY <1>e DEF RowsGreen
<1>f. ASSUME NEW to \in ExecutionStatus, NEW pc, to # "passed", SetStatus(r, k, to, pc)
      PROVE  AllGreen'
  <2>1. Green(WithStatus(Held(r, k), to))
    BY <1>a, <1>f, NotPassedGreen
  <2>2. CASE CanTransition(ExecutionTransitions, Held(r, k).status, to)
    BY <1>c, <1>d, <1>f, <2>1, <2>2, SaveGreen, MoveGreen DEF SetStatus
  <2>3. CASE ~CanTransition(ExecutionTransitions, Held(r, k).status, to)
    BY <1>c, <1>d, <1>e, <1>f, <2>3, GoToGreen DEF SetStatus
  <2>4. QED
    BY <2>2, <2>3
<1>1. CASE Reread(r, k)
  BY <1>1, <1>b, <1>c, <1>d, <1>e, MoveGreen DEF Reread, Move, IdleStarter
<1>2. CASE Prepare(r, k)
  BY <1>2, <1>f, StatusNames DEF Prepare
<1>3. CASE MarkRunning(r, k)
  BY <1>3, <1>f, StatusNames DEF MarkRunning
<1>4. CASE Launch(r, k)
  <2>1. HeldGreen'
    BY <1>4, LaunchMoves, GoToGreen DEF HeldGreen
  <2>2. QED
    BY <1>4, <1>c, <1>d, <1>e, <2>1 DEF Launch
<1>6. CASE OpenStream(r, k)
  <2>1. WatchedGreen'
    BY <1>6 DEF TypeOK, WatchedGreen, OpenStream, Green
  <2>2. QED
    BY <1>6, <1>c, <1>e, <2>1, GoToGreen DEF OpenStream
<1>7. CASE HandleEvent(r, k)
  <2>1. Head(events[r]) \in EventSet
    BY <1>7 DEF TypeOK, HandleEvent
  <2>2. Green(Applied(Head(events[r]), row[r]))
    BY <1>a, <2>1, AppliedGreen
  <2>3. HeldGreen'
    BY <1>7, <2>2, MoveGreen DEF HandleEvent, HeldGreen
  <2>4. QED
    BY <1>7, <1>c, <1>d, <1>e, <2>3 DEF HandleEvent
<1>8. CASE SaveEvent(r, k)
  BY <1>8, <1>b, <1>c, <1>d, SaveGreen, GoToGreen DEF SaveEvent
<1>9. CASE EndStream(r, k) \/ BreakStream(r, k)
  <2>1. CloseStream(r, k)
    BY <1>9 DEF EndStream, BreakStream
  <2>2. WatchedGreen'
    BY <2>1 DEF TypeOK, WatchedGreen, CloseStream, Green
  <2>3. QED
    BY <1>c, <1>e, <2>1, <2>2, GoToGreen DEF CloseStream
<1>10. CASE Finalize(r, k)
  BY <1>10, <1>b, <1>c, <1>d, <1>e, MoveGreen DEF Finalize
<1>11. CASE Conclude(r, k)
  <2> DEFINE settled == WithStatus(Held(r, k), FinalStatus(Held(r, k)))
  <2>1. settled \in Rows
    BY <1>a, FinalStatusType, WithStatusType
  <2>2. Green(settled)
    <3>1. CASE Held(r, k).status = "stopping"
      BY <1>a, <3>1, NotPassedGreen, StatusNames DEF FinalStatus
    <3>2. CASE Held(r, k).status # "stopping"
      <4>1. /\ settled.metrics = Held(r, k).metrics
            /\ settled.status = OutcomeFromMetrics(Held(r, k).metrics)
        BY <1>a, <3>2 DEF WithStatus, FinalStatus, Rows, NoRow
      <4>2. QED
        BY <2>1, <4>1, OutcomeGreen
    <3>3. QED
      BY <3>1, <3>2
  <2>3. RowsGreen'
    BY <1>11, <1>e, <2>2, SaveGreen DEF Conclude, SaveUnlessTerminal
  <2>4. QED
    BY <1>11, <1>c, <1>d, <2>3, GoToGreen DEF Conclude
<1>12. CASE Failing(r, k)
  BY <1>12, <1>b, <1>c, <1>d, <1>e, MoveGreen DEF Failing
<1>13. CASE GiveUp(r, k)
  <2>1. Green([status |-> "failed", metrics |-> NoMetrics])
    BY DEF Green
  <2>2. RowsGreen'
    BY <1>13, <1>e, <2>1, SaveGreen DEF GiveUp, SaveUnlessTerminal
  <2>3. QED
    BY <1>13, <1>c, <1>d, <2>2, GoToGreen DEF GiveUp
<1>14. CASE Release(r, k)
  BY <1>14, <1>b, <1>c, <1>d, <1>e, MoveGreen DEF Release, Move, IdleStarter
<1>15. QED
  BY <1>1, <1>2, <1>3, <1>4, <1>6, <1>7, <1>8, <1>9, <1>10, <1>11, <1>12, <1>13,
     <1>14
  DEF StarterStep

LEMMA RequestStepGreen ==
  ASSUME TypeOK, RequestsNameRuns, AllGreen, NEW q \in Requests,
         RequestStep(q) \/ \E r \in Runs : Stop(q, r)
  PROVE  AllGreen'
<1> USE DEF AllGreen
<1>a. request[q].run \in Rows \cup {NoRow} /\ Green(request[q].run)
  BY RequestType DEF AskedGreen
<1>b. HeldGreen' /\ WatchedGreen'
  BY DEF HeldGreen, WatchedGreen, RequestStep, CheckStop, MarkStop, StopEngine, ConcludeStop,
         ReleaseStop, Stop
<1>c. ASSUME UNCHANGED row PROVE RowsGreen'
  BY <1>c DEF RowsGreen
<1>1. ASSUME NEW r \in Runs, Stop(q, r) PROVE AllGreen'
  <2>1. Green(row[r])
    BY DEF RowsGreen
  <2>2. AskedGreen'
    BY <1>1, <2>1 DEF TypeOK, Stop, AskedGreen
  <2>3. QED
    BY <1>1, <1>b, <1>c, <2>2 DEF Stop
<1>2. CASE RequestStep(q)
  <2>1. Target(q) \in Runs
    BY <1>2 DEF RequestsNameRuns, RequestStep, CheckStop, MarkStop, StopEngine,
                ConcludeStop, ReleaseStop, Target, Asked
  <2>2. CASE CheckStop(q)
    <3>1. CASE IsTerminalExecution(request[q].run.status)
      BY <1>a, <1>b, <1>c, <2>2, <3>1, AnswerGreen DEF CheckStop
    <3>2. CASE ~IsTerminalExecution(request[q].run.status)
      <4>1. request' = [request EXCEPT ![q] =
              [@ EXCEPT !.pc = "mark", !.abort = Target(q) \in controllers]]
        BY <2>2, <3>2 DEF CheckStop
      <4>2. \A p \in Requests : request'[p].run = request[p].run
        BY <4>1, RequestType DEF TypeOK
      <4>3. AskedGreen'
        BY <4>2 DEF AskedGreen
      <4>4. QED
        BY <1>b, <1>c, <2>2, <4>3 DEF CheckStop
    <3>3. QED
      BY <3>1, <3>2
  <2>3. CASE MarkStop(q)
    <3> DEFINE to == StopMark(request[q].run)
    <3>1. Green(WithStatus(request[q].run, to))
      BY <1>a, NotPassedGreen, StatusNames DEF StopMark
    <3>2. CASE CanTransition(ExecutionTransitions, request[q].run.status, to)
      <4>1. Save(Target(q), WithStatus(request[q].run, to))
            /\ Answer(q, "engine", WithStatus(request[q].run, to))
        BY <2>3, <3>2 DEF MarkStop
      <4>2. QED
        BY <1>b, <2>1, <3>1, <4>1, SaveGreen, AnswerGreen
    <3>3. CASE ~CanTransition(ExecutionTransitions, request[q].run.status, to)
      <4>1. UNCHANGED row /\ Answer(q, "refused", request[q].run)
        BY <2>3, <3>3 DEF MarkStop
      <4>2. QED
        BY <1>a, <1>b, <1>c, <4>1, AnswerGreen
    <3>4. QED
      BY <3>2, <3>3
  <2>4. CASE StopEngine(q)
    BY <1>a, <1>b, <1>c, <2>4, AnswerGreen DEF StopEngine
  <2>5. CASE ConcludeStop(q)
    <3>1. Green(WithStatus(request[q].run, "cancelled"))
      BY <1>a, NotPassedGreen, StatusNames
    <3>2. QED
      BY <1>b, <2>1, <2>5, <3>1, SaveGreen, AnswerGreen DEF ConcludeStop
  <2>6. CASE ReleaseStop(q)
    BY <1>a, <1>b, <1>c, <2>6, AnswerGreen DEF ReleaseStop
  <2>7. QED
    BY <1>2, <2>2, <2>3, <2>4, <2>5, <2>6 DEF RequestStep
<1>3. QED
  BY <1>1, <1>2

LEMMA WatchdogStepGreen ==
  ASSUME TypeOK, AllGreen, NEW r \in Runs, WatchdogStep(r) PROVE AllGreen'
<1> USE DEF AllGreen
<1>a. Green(NoRow) /\ Green(row[r]) /\ watchdog[r].run \in Rows \cup {NoRow}
  BY DEF Green, NoRow, RowsGreen, TypeOK
<1>b. HeldGreen' /\ AskedGreen'
  BY DEF HeldGreen, AskedGreen, WatchdogStep, Fire, ReadStalled, SaveTimedOut, AbortStalled
<1>c. ASSUME UNCHANGED row PROVE RowsGreen'
  BY <1>c DEF RowsGreen
<1>1. CASE Fire(r)
  BY <1>1, <1>a, <1>b, <1>c, WatchGreen DEF Fire
<1>2. CASE ReadStalled(r)
  BY <1>2, <1>a, <1>b, <1>c, WatchGreen DEF ReadStalled
<1>3. CASE SaveTimedOut(r)
  <2>1. Green(WithStatus(watchdog[r].run, "timed_out"))
    BY <1>a, NotPassedGreen, StatusNames
  <2>2. QED
    BY <1>3, <1>a, <1>b, <2>1, SaveGreen, WatchGreen DEF SaveTimedOut
<1>4. CASE AbortStalled(r)
  BY <1>4, <1>a, <1>b, <1>c, WatchGreen DEF AbortStalled
<1>5. QED
  BY <1>1, <1>2, <1>3, <1>4 DEF WatchdogStep

(* What a claim does to startRun's state. *)
LEMMA ClaimEffect ==
  ASSUME TypeOK, NEW k \in Claims, Claim(k)
  PROVE  /\ pass.next \in Runs \ activeRuns
         /\ starter'[<<pass.next, k>>].pc = "reread"
         /\ \A s \in Runs \X Claims : starter'[s].run = starter[s].run
         /\ \A s \in Runs \X Claims : s # <<pass.next, k>> => starter'[s] = starter[s]
<1> DEFINE c == <<pass.next, k>>
<1>1. c \in Runs \X Claims /\ pass.next \in Runs \ activeRuns
  BY DEF Claim
<1>2. starter' = [starter EXCEPT ![c] = [@ EXCEPT !.pc = "reread"]]
  BY DEF Claim
<1>3. starter[c] \in [pc : StarterPC, run : Rows \cup {NoRow}]
  BY <1>1 DEF TypeOK
<1>4. [starter[c] EXCEPT !.pc = "reread"].run = starter[c].run
      /\ [starter[c] EXCEPT !.pc = "reread"].pc = "reread"
  BY <1>3
<1> HIDE DEF c
<1>5. starter'[c] = [starter[c] EXCEPT !.pc = "reread"]
      /\ \A s \in Runs \X Claims : s # c => starter'[s] = starter[s]
  BY <1>1, <1>2 DEF TypeOK
<1>6. \A s \in Runs \X Claims : starter'[s].run = starter[s].run
  BY <1>4, <1>5
<1>7. QED
  BY <1>1, <1>4, <1>5, <1>6 DEF c

LEMMA AllGreenStep == TypeInv /\ AllGreen /\ [Next]_vars => AllGreen'
<1> SUFFICES ASSUME TypeInv, AllGreen, [Next]_vars PROVE AllGreen'
  OBVIOUS
<1> USE DEF TypeInv
<1>1. ASSUME NEW r \in Runs, Create(r) PROVE AllGreen'
  <2>1. Green([status |-> "queued", metrics |-> NoMetrics])
    BY DEF Green
  <2>2. RowsGreen'
    BY <1>1, <2>1, SaveGreen DEF Create, AllGreen
  <2>3. QED
    BY <1>1, <2>2 DEF AllGreen, Create, HeldGreen, WatchedGreen, AskedGreen
<1>2. ASSUME UNCHANGED <<row, watchdog, request>>, HeldGreen' PROVE AllGreen'
  BY <1>2 DEF AllGreen, RowsGreen, WatchedGreen, AskedGreen
<1>3. ASSUME UNCHANGED starter PROVE HeldGreen'
  BY <1>3 DEF AllGreen, HeldGreen
<1>4. ASSUME NEW r \in Runs, PumpCreated(r) \/ EngineStarts(r) \/ EngineEnds(r) PROVE AllGreen'
  BY <1>2, <1>3, <1>4 DEF PumpCreated, EngineStarts, EngineEnds
<1>5. CASE PumpStep
  <2>1. ASSUME NEW k \in Claims, Claim(k) PROVE AllGreen'
    <3>1. \A s \in Runs \X Claims : starter'[s].run = starter[s].run
      BY <2>1, ClaimEffect
    <3>2. HeldGreen'
      BY <3>1 DEF AllGreen, HeldGreen
    <3>3. QED
      BY <1>2, <2>1, <3>2 DEF Claim
  <2>2. CASE Find \/ NothingToClaim
    BY <1>2, <1>3, <2>2 DEF Find, NothingToClaim
  <2>3. QED
    BY <1>5, <2>1, <2>2 DEF PumpStep
<1>6. CASE UNCHANGED vars
  BY <1>2, <1>3, <1>6 DEF vars
<1>7. ASSUME NEW r \in Runs, WatchdogStep(r) PROVE AllGreen'
  BY <1>7, WatchdogStepGreen
<1>8. ASSUME NEW r \in Runs, NEW k \in Claims, StarterStep(r, k) \/ BreakStream(r, k)
      PROVE  AllGreen'
  BY <1>8, StarterStepGreen
<1>9. ASSUME NEW q \in Requests, RequestStep(q) \/ \E r \in Runs : Stop(q, r)
      PROVE  AllGreen'
  BY <1>9, RequestStepGreen
<1>10. QED
  BY <1>1, <1>4, <1>5, <1>6, <1>7, <1>8, <1>9 DEF Next

(* "Never report a green run" that nothing verified: however event         *)
(* handlers, the stall watchdog, Stop requests and the settling of a run   *)
(* overwrite each other, the row stored as passed has passes and no        *)
(* failure or error.                                                       *)
THEOREM GreenRunsAreEarned == Spec => []GreenIsEarned
<1>1. Init => AllGreen
  BY DEF Init, AllGreen, RowsGreen, HeldGreen, WatchedGreen, AskedGreen, Green, NoRow,
         IdleStarter
<1>2. AllGreen => GreenIsEarned
  BY DEF AllGreen, RowsGreen, Green, GreenIsEarned
<1>3. QED
  BY <1>1, <1>2, AllGreenStep, TypeInvHolds, PTL DEF Spec

-----------------------------------------------------------------------------
LEMMA NoLeakedSlotStep == TypeInv /\ NoLeakedSlot /\ [Next]_vars => NoLeakedSlot'
<1> SUFFICES ASSUME TypeInv, NoLeakedSlot, [Next]_vars PROVE NoLeakedSlot'
  OBVIOUS
<1> USE DEF TypeInv
<1>1. ASSUME activeRuns' \subseteq activeRuns,
             \A s \in Runs \X Claims : starter[s].pc # "off" => starter'[s].pc # "off"
      PROVE  NoLeakedSlot'
  BY <1>1 DEF TypeOK, NoLeakedSlot
<1>2. ASSUME UNCHANGED starter, activeRuns' \subseteq activeRuns PROVE NoLeakedSlot'
  BY <1>1, <1>2
<1>3. ASSUME NEW r \in Runs, Create(r) \/ PumpCreated(r) \/ EngineStarts(r) \/ EngineEnds(r)
                               \/ WatchdogStep(r)
      PROVE  NoLeakedSlot'
  BY <1>2, <1>3 DEF Create, PumpCreated, EngineStarts, EngineEnds, WatchdogStep, Fire,
    ReadStalled, SaveTimedOut, AbortStalled, memory
<1>4. ASSUME NEW q \in Requests, RequestStep(q) \/ \E r \in Runs : Stop(q, r)
      PROVE  NoLeakedSlot'
  BY <1>2, <1>4 DEF RequestStep, CheckStop, MarkStop, StopEngine, ConcludeStop, ReleaseStop,
    Stop, memory
<1>5. CASE PumpStep
  <2>1. ASSUME NEW k \in Claims, Claim(k) PROVE NoLeakedSlot'
    <3>1. activeRuns' = activeRuns \cup {pass.next}
      BY <2>1 DEF Claim
    <3>2. ASSUME NEW r \in activeRuns' PROVE \E j \in Claims : starter'[<<r, j>>].pc # "off"
      <4>1. CASE r = pass.next
        BY <2>1, <4>1, ClaimEffect
      <4>2. CASE r # pass.next
        <5>1. r \in activeRuns /\ r \in Runs
          BY <3>1, <4>2 DEF TypeOK
        <5>2. \A j \in Claims : starter'[<<r, j>>] = starter[<<r, j>>]
          BY <2>1, <4>2, <5>1, ClaimEffect
        <5>3. QED
          BY <5>1, <5>2 DEF NoLeakedSlot
      <4>3. QED
        BY <4>1, <4>2
    <3>3. QED
      BY <3>2 DEF NoLeakedSlot
  <2>2. CASE Find \/ NothingToClaim
    BY <1>2, <2>2 DEF Find, NothingToClaim
  <2>3. QED
    BY <1>5, <2>1, <2>2 DEF PumpStep
<1>6. CASE UNCHANGED vars
  BY <1>2, <1>6 DEF vars
<1>7. ASSUME NEW r \in Runs, NEW k \in Claims, StarterStep(r, k) \/ BreakStream(r, k)
      PROVE  NoLeakedSlot'
  <2>1. ASSUME NEW pc, NEW run, pc # "off", Move(r, k, pc, run), UNCHANGED activeRuns
        PROVE  NoLeakedSlot'
    BY <1>1, <2>1 DEF TypeOK, Move
  <2>2. ASSUME starter' = [starter EXCEPT ![<<r, k>>] = IdleStarter],
               activeRuns' = activeRuns \ {r}
        PROVE  NoLeakedSlot'
    <3>1. ASSUME NEW s \in activeRuns', NEW j \in Claims
          PROVE  starter'[<<s, j>>] = starter[<<s, j>>]
      BY <2>2, <3>1 DEF TypeOK
    <3>2. activeRuns' \subseteq activeRuns
      BY <2>2
    <3>3. QED
      BY <3>1, <3>2 DEF NoLeakedSlot
  <2>3. CASE Reread(r, k)
    BY <2>1, <2>2, <2>3 DEF Reread
  <2>4. CASE Release(r, k)
    BY <2>2, <2>4 DEF Release
  <2>5. CASE HandleEvent(r, k)
    BY <1>2, <2>1, <2>5 DEF HandleEvent, memory
  <2>6. CASE Prepare(r, k) \/ MarkRunning(r, k)
    BY <2>1, <2>6 DEF Prepare, MarkRunning, SetStatus, GoTo, memory
  <2>10. CASE Launch(r, k)
    BY <1>2, <2>1, <2>10, LaunchMoves DEF Launch, GoTo, memory
  <2>7. CASE OpenStream(r, k) \/ SaveEvent(r, k) \/ EndStream(r, k) \/ BreakStream(r, k)
    BY <2>1, <2>7 DEF OpenStream, SaveEvent, EndStream, BreakStream, CloseStream, GoTo, memory
  <2>8. CASE Finalize(r, k) \/ Conclude(r, k) \/ Failing(r, k) \/ GiveUp(r, k)
    BY <2>1, <2>8 DEF Finalize, Conclude, Failing, GiveUp, GoTo, memory
  <2>9. QED
    BY <1>7, <2>3, <2>4, <2>5, <2>6, <2>7, <2>8, <2>10 DEF StarterStep
<1>8. QED
  BY <1>3, <1>4, <1>5, <1>6, <1>7 DEF Next

(* The service never loses a concurrency slot: a run that holds one is     *)
(* being started or streamed, for any number of runs and Stop requests.    *)
THEOREM SlotsNeverLeak == Spec => []NoLeakedSlot
<1>1. Init => NoLeakedSlot
  BY DEF Init, NoLeakedSlot
<1>2. QED
  BY <1>1, NoLeakedSlotStep, TypeInvHolds, PTL DEF Spec
=============================================================================
