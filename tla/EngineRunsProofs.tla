-------------------------- MODULE EngineRunsProofs --------------------------
(***************************************************************************)
(* What the engine keeps for any number of runs, submits, cancels and      *)
(* streams, and any bounds of the bus.                                     *)
(***************************************************************************)
EXTENDS EngineRuns, TLAPS, SequenceTheorems

USE NoneAssumption DEF ProcessStates

(* The types the argument about threads and processes needs.               *)
ThreadTypes ==
  /\ thread \in [Submits -> [pc : ThreadPC, run : Runs \cup {None}]]
  /\ process \in [Submits -> ProcessStates]
  /\ registry \in [Runs -> Submits \cup {None}]
  /\ overlapped \subseteq Runs

EngineInv == ThreadTypes /\ ThreadInv

LEMMA InitThreads == Init => EngineInv
<1> SUFFICES ASSUME Init PROVE EngineInv
  OBVIOUS
<1>1. ThreadTypes
  BY DEF Init, ThreadTypes, ThreadPC
<1>2. RunsAreNamed /\ RegistryAgrees /\ LivesWhileAwaited /\ OneCurrent /\ AwaitedIsRegistered
  BY DEF Init, RunsAreNamed, RegistryAgrees, LivesWhileAwaited, OneCurrent, AwaitedIsRegistered,
         RunOf, At, Live, Current
<1>3. QED
  BY <1>1, <1>2 DEF EngineInv, ThreadInv

(* Steps that move no thread and revive no process.                        *)
LEMMA QuietStepKeeps ==
  ASSUME EngineInv, UNCHANGED <<thread, registry, overlapped>>,
         process' \in [Submits -> ProcessStates],
         \A s \in Submits : Live(s)' => Live(s)
  PROVE  EngineInv'
<1>1. ThreadTypes'
  BY DEF EngineInv, ThreadTypes
<1>2. LivesWhileAwaited'
  BY DEF EngineInv, ThreadInv, LivesWhileAwaited
<1>3. RunsAreNamed' /\ RegistryAgrees' /\ OneCurrent' /\ AwaitedIsRegistered'
  BY DEF EngineInv, ThreadInv, RunsAreNamed, RegistryAgrees, OneCurrent, AwaitedIsRegistered,
         RunOf, At, Current
<1>4. QED
  BY <1>1, <1>2, <1>3 DEF EngineInv, ThreadInv

LEMMA ExitKeeps ==
  ASSUME EngineInv, NEW s \in Submits, Exit(s) \/ LetGo(s)
  PROVE  EngineInv'
<1>1. process' \in [Submits -> ProcessStates]
  BY DEF Exit, LetGo, EngineInv, ThreadTypes
<1>2. \A t \in Submits : Live(t)' => Live(t)
  BY DEF Exit, LetGo, EngineInv, ThreadTypes, Live
<1>3. QED
  BY <1>1, <1>2, QuietStepKeeps DEF Exit, LetGo

LEMMA CancelKeeps ==
  ASSUME EngineInv, NEW x \in Cancels, NEW r \in Runs, Cancel(x, r)
  PROVE  EngineInv'
<1>1. process' = process \/ process' = [process EXCEPT ![registry[r]] = Killed(@)]
  BY DEF Cancel
<1>2. process' \in [Submits -> ProcessStates]
  BY <1>1 DEF EngineInv, ThreadTypes, Killed
<1>3. \A t \in Submits : Live(t)' => Live(t)
  BY <1>1 DEF EngineInv, ThreadTypes, Killed, Live
<1>4. QED
  BY <1>2, <1>3, QuietStepKeeps DEF Cancel

(* Steps that leave the thread variables alone.                            *)
LEMMA OtherKeeps ==
  ASSUME EngineInv, UNCHANGED <<thread, process, registry, overlapped>>
  PROVE  EngineInv'
<1>1. process' \in [Submits -> ProcessStates]
  BY DEF EngineInv, ThreadTypes
<1>2. \A t \in Submits : Live(t)' => Live(t)
  BY DEF Live
<1>3. QED
  BY <1>1, <1>2, QuietStepKeeps

(* A thread goes on to another step of the same run.                       *)
LEMMA MovedThread ==
  ASSUME EngineInv, NEW s \in Submits, NEW p \in ThreadPC, To(s, p)
  PROVE  /\ thread' \in [Submits -> [pc : ThreadPC, run : Runs \cup {None}]]
         /\ thread'[s].pc = p
         /\ \A t \in Submits : RunOf(t)' = RunOf(t)
         /\ \A t \in Submits \ {s} : thread'[t].pc = thread[t].pc
<1>1. thread' = [thread EXCEPT ![s] = [thread[s] EXCEPT !.pc = p]]
  BY DEF To
<1>2. thread[s] \in [pc : ThreadPC, run : Runs \cup {None}]
  BY DEF EngineInv, ThreadTypes
<1>3. QED
  BY <1>1, <1>2 DEF EngineInv, ThreadTypes, RunOf

(* ... without a change of the registry.                                   *)
LEMMA ForwardKeeps ==
  ASSUME EngineInv, NEW s \in Submits, NEW p \in ThreadPC, To(s, p),
         \/ thread[s].pc \in {"prepare", "spawn", "close"} /\ p \in {"spawn", "register", "pop", "over"}
         \/ thread[s].pc \in {"wait", "killed"} /\ p \in {"killed", "pop"},
         UNCHANGED <<registry, overlapped>>,
         process' \in [Submits -> ProcessStates],
         \A t \in Submits : Live(t)' => Live(t) \/ t = s,
         Live(s)' => p \in {"register", "killed"}
  PROVE  EngineInv'
<1>1. /\ thread' \in [Submits -> [pc : ThreadPC, run : Runs \cup {None}]]
      /\ thread'[s].pc = p
      /\ \A t \in Submits : RunOf(t)' = RunOf(t)
      /\ \A t \in Submits \ {s} : thread'[t].pc = thread[t].pc
  BY MovedThread
<1>2. ThreadTypes'
  BY <1>1 DEF EngineInv, ThreadTypes
<1>3. RunsAreNamed'
  BY <1>1 DEF EngineInv, ThreadInv, RunsAreNamed
<1>4. LivesWhileAwaited'
  BY <1>1 DEF EngineInv, ThreadInv, LivesWhileAwaited
<1>5. \A t \in Submits : Current(t)' => Current(t)
  BY <1>1 DEF Current, At
<1>6. OneCurrent'
  BY <1>1, <1>5 DEF EngineInv, ThreadInv, OneCurrent
<1>7. AwaitedIsRegistered'
  BY <1>1 DEF EngineInv, ThreadInv, AwaitedIsRegistered
<1>8. RegistryAgrees'
  <2> SUFFICES ASSUME NEW r \in Runs, registry[r] # None
               PROVE  RunOf(registry[r])' = r /\ thread'[registry[r]].pc \in {"wait", "killed", "pop"}
    BY DEF RegistryAgrees
  <2>1. registry[r] \in Submits
    BY DEF EngineInv, ThreadTypes
  <2>2. RunOf(registry[r]) = r /\ thread[registry[r]].pc \in {"wait", "killed", "pop"}
    BY DEF EngineInv, ThreadInv, RegistryAgrees
  <2>3. CASE registry[r] = s
    BY <1>1, <2>1, <2>2, <2>3
  <2>4. CASE registry[r] # s
    BY <1>1, <2>1, <2>2, <2>4
  <2>5. QED
    BY <2>3, <2>4
<1>9. QED
  BY <1>2, <1>3, <1>4, <1>6, <1>7, <1>8 DEF EngineInv, ThreadInv

LEMMA FailKeeps ==
  ASSUME EngineInv, NEW s \in Submits, Fail(s)
  PROVE  EngineInv'
<1>1. /\ "pop" \in ThreadPC
      /\ process' \in [Submits -> ProcessStates]
      /\ \A t \in Submits : Live(t)' => Live(t)
      /\ ~Live(s)
  BY DEF Fail, EngineInv, ThreadTypes, ThreadInv, LivesWhileAwaited, Live, ThreadPC
<1>2. QED
  BY <1>1, ForwardKeeps DEF Fail

LEMMA AnnounceKeeps ==
  ASSUME EngineInv, NEW s \in Submits, Announce(s)
  PROVE  EngineInv'
<1>1. /\ "spawn" \in ThreadPC
      /\ process' \in [Submits -> ProcessStates]
      /\ \A t \in Submits : Live(t)' => Live(t)
      /\ ~Live(s)
  BY DEF Announce, At, EngineInv, ThreadTypes, ThreadInv, LivesWhileAwaited, Live, ThreadPC
<1>2. QED
  BY <1>1, ForwardKeeps DEF Announce, At

LEMMA SpawnKeeps ==
  ASSUME EngineInv, NEW s \in Submits, Spawn(s)
  PROVE  EngineInv'
<1>1. /\ "register" \in ThreadPC
      /\ process' \in [Submits -> ProcessStates]
      /\ \A t \in Submits : Live(t)' => Live(t) \/ t = s
  BY DEF Spawn, EngineInv, ThreadTypes, Live, ThreadPC
<1>2. QED
  BY <1>1, ForwardKeeps DEF Spawn, At

LEMMA ReportKeeps ==
  ASSUME EngineInv, NEW s \in Submits, Report(s)
  PROVE  EngineInv'
<1>1. /\ "pop" \in ThreadPC
      /\ process' \in [Submits -> ProcessStates]
      /\ \A t \in Submits : Live(t)' => Live(t)
      /\ ~Live(s)
  BY DEF Report, EngineInv, ThreadTypes, Live, ThreadPC
<1>2. QED
  BY <1>1, ForwardKeeps DEF Report, At

LEMMA TimeoutKeeps ==
  ASSUME EngineInv, NEW s \in Submits, Timeout(s)
  PROVE  EngineInv'
<1>1. /\ "killed" \in ThreadPC
      /\ process' \in [Submits -> ProcessStates]
      /\ \A t \in Submits : Live(t)' => Live(t)
  BY DEF Timeout, Killed, EngineInv, ThreadTypes, Live, ThreadPC
<1>2. QED
  BY <1>1, ForwardKeeps DEF Timeout, At

LEMMA ReapKeeps ==
  ASSUME EngineInv, NEW s \in Submits, Reap(s)
  PROVE  EngineInv'
<1>1. /\ "pop" \in ThreadPC
      /\ process' \in [Submits -> ProcessStates]
      /\ \A t \in Submits : Live(t)' => Live(t)
      /\ ~Live(s)
  BY DEF Reap, EngineInv, ThreadTypes, Live, ThreadPC
<1>2. QED
  BY <1>1, ForwardKeeps DEF Reap, At

LEMMA CloseKeeps ==
  ASSUME EngineInv, NEW s \in Submits, Close(s)
  PROVE  EngineInv'
<1>1. /\ "over" \in ThreadPC
      /\ process' \in [Submits -> ProcessStates]
      /\ \A t \in Submits : Live(t)' => Live(t)
      /\ ~Live(s)
  BY DEF Close, At, EngineInv, ThreadTypes, ThreadInv, LivesWhileAwaited, Live, ThreadPC
<1>2. QED
  BY <1>1, ForwardKeeps DEF Close, At

(* Another thread of the run that waits is an overlap.                     *)
LEMMA RegisterKeeps ==
  ASSUME EngineInv, NEW s \in Submits, Register(s)
  PROVE  EngineInv'
<1>1. /\ thread' \in [Submits -> [pc : ThreadPC, run : Runs \cup {None}]]
      /\ thread'[s].pc = "wait"
      /\ \A t \in Submits : RunOf(t)' = RunOf(t)
      /\ \A t \in Submits \ {s} : thread'[t].pc = thread[t].pc
  BY MovedThread DEF Register, ThreadPC
<1>2. RunOf(s) \in Runs /\ thread[s].pc = "register"
  BY DEF Register, At, RunOf, EngineInv, ThreadTypes, ThreadInv, RunsAreNamed
<1>3. /\ registry' \in [Runs -> Submits \cup {None}]
      /\ registry'[RunOf(s)] = s
      /\ \A r \in Runs \ {RunOf(s)} : registry'[r] = registry[r]
  BY <1>2 DEF Register, EngineInv, ThreadTypes
<1>4. ThreadTypes'
  BY <1>1, <1>3 DEF EngineInv, ThreadTypes, Register
<1>5. RunsAreNamed' /\ LivesWhileAwaited'
  BY <1>1, <1>2 DEF EngineInv, ThreadInv, RunsAreNamed, LivesWhileAwaited, Live, Register
<1>6. \A t \in Submits : Current(t)' <=> Current(t)
  BY <1>1, <1>2 DEF Current, At
<1>7. OneCurrent'
  BY <1>1, <1>6 DEF EngineInv, ThreadInv, OneCurrent, Register
<1>8. AwaitedIsRegistered'
  <2> SUFFICES ASSUME NEW t \in Submits, thread'[t].pc \in {"wait", "killed"},
                      RunOf(t)' \notin overlapped'
               PROVE  registry'[RunOf(t)'] = t
    BY DEF AwaitedIsRegistered
  <2>1. RunOf(t)' = RunOf(t) /\ overlapped' = overlapped
    BY <1>1 DEF Register
  <2>2. CASE t = s
    BY <1>3, <2>1, <2>2
  <2>3. CASE t # s
    <3>1. thread[t].pc \in {"wait", "killed"}
      BY <1>1, <2>3
    <3>2. RunOf(t) \in Runs /\ registry[RunOf(t)] = t
      BY <2>1, <3>1 DEF EngineInv, ThreadTypes, ThreadInv, RunsAreNamed, AwaitedIsRegistered, RunOf
    <3>3. Current(t) /\ Current(s)
      BY <1>2, <3>1, <3>2 DEF Current, At
    <3>4. RunOf(t) # RunOf(s)
      BY <2>1, <2>3, <3>3 DEF EngineInv, ThreadInv, OneCurrent
    <3>5. QED
      BY <1>3, <2>1, <3>2, <3>4
  <2>4. QED
    BY <2>2, <2>3
<1>9. RegistryAgrees'
  <2> SUFFICES ASSUME NEW r \in Runs, registry'[r] # None
               PROVE  thread'[registry'[r]].run = r /\ thread'[registry'[r]].pc \in {"wait", "killed", "pop"}
    BY DEF RegistryAgrees, RunOf
  <2>1. CASE r = RunOf(s)
    BY <1>1, <1>3, <2>1 DEF RunOf
  <2>2. CASE r # RunOf(s)
    <3>1. registry'[r] = registry[r] /\ registry[r] \in Submits
      BY <1>3, <2>2 DEF EngineInv, ThreadTypes
    <3>2. RunOf(registry[r]) = r /\ thread[registry[r]].pc \in {"wait", "killed", "pop"}
      BY <3>1 DEF EngineInv, ThreadInv, RegistryAgrees
    <3>3. registry[r] # s
      BY <1>2, <3>2
    <3>4. QED
      BY <1>1, <3>1, <3>2, <3>3 DEF RunOf
  <2>3. QED
    BY <2>1, <2>2
<1>10. QED
  BY <1>4, <1>5, <1>7, <1>8, <1>9 DEF EngineInv, ThreadInv

LEMMA PopKeeps ==
  ASSUME EngineInv, NEW s \in Submits, Pop(s)
  PROVE  EngineInv'
<1>1. /\ thread' \in [Submits -> [pc : ThreadPC, run : Runs \cup {None}]]
      /\ thread'[s].pc = "close"
      /\ \A t \in Submits : RunOf(t)' = RunOf(t)
      /\ \A t \in Submits \ {s} : thread'[t].pc = thread[t].pc
  BY MovedThread DEF Pop, ThreadPC
<1>2. RunOf(s) \in Runs /\ thread[s].pc = "pop"
  BY DEF Pop, At, RunOf, EngineInv, ThreadTypes, ThreadInv, RunsAreNamed
<1>3. /\ registry' \in [Runs -> Submits \cup {None}]
      /\ registry'[RunOf(s)] = None
      /\ \A r \in Runs \ {RunOf(s)} : registry'[r] = registry[r]
  BY <1>2 DEF Pop, EngineInv, ThreadTypes
<1>4. ThreadTypes'
  BY <1>1, <1>3 DEF EngineInv, ThreadTypes, Pop
<1>5. RunsAreNamed' /\ LivesWhileAwaited'
  BY <1>1, <1>2 DEF EngineInv, ThreadInv, RunsAreNamed, LivesWhileAwaited, Live, Pop
<1>6. \A t \in Submits : Current(t)' <=> Current(t)
  BY <1>1, <1>2 DEF Current, At
<1>7. OneCurrent'
  BY <1>1, <1>6 DEF EngineInv, ThreadInv, OneCurrent, Pop
<1>8. AwaitedIsRegistered'
  <2> SUFFICES ASSUME NEW t \in Submits, thread'[t].pc \in {"wait", "killed"},
                      RunOf(t)' \notin overlapped'
               PROVE  registry'[RunOf(t)'] = t
    BY DEF AwaitedIsRegistered
  <2>1. RunOf(t)' = RunOf(t) /\ overlapped' = overlapped /\ t # s
    BY <1>1 DEF Pop
  <2>2. thread[t].pc \in {"wait", "killed"}
    BY <1>1, <2>1
  <2>3. RunOf(t) \in Runs /\ registry[RunOf(t)] = t
    BY <2>1, <2>2 DEF EngineInv, ThreadTypes, ThreadInv, RunsAreNamed, AwaitedIsRegistered, RunOf
  <2>4. Current(t) /\ Current(s)
    BY <1>2, <2>2, <2>3 DEF Current, At
  <2>5. RunOf(t) # RunOf(s)
    BY <2>1, <2>4 DEF EngineInv, ThreadInv, OneCurrent
  <2>6. QED
    BY <1>3, <2>1, <2>3, <2>5
<1>9. RegistryAgrees'
  <2> SUFFICES ASSUME NEW r \in Runs, registry'[r] # None
               PROVE  thread'[registry'[r]].run = r /\ thread'[registry'[r]].pc \in {"wait", "killed", "pop"}
    BY DEF RegistryAgrees, RunOf
  <2>1. r # RunOf(s)
    BY <1>3
  <2>2. registry'[r] = registry[r] /\ registry[r] \in Submits
    BY <1>3, <2>1 DEF EngineInv, ThreadTypes
  <2>3. RunOf(registry[r]) = r /\ thread[registry[r]].pc \in {"wait", "killed", "pop"}
    BY <2>2 DEF EngineInv, ThreadInv, RegistryAgrees
  <2>4. registry[r] # s
    BY <2>1, <2>3
  <2>5. QED
    BY <1>1, <2>2, <2>3, <2>4 DEF RunOf
<1>10. QED
  BY <1>4, <1>5, <1>7, <1>8, <1>9 DEF EngineInv, ThreadInv

(* A submit whose run has a thread already makes it an overlapped one.     *)
LEMMA SubmitKeeps ==
  ASSUME EngineInv, NEW s \in Submits, NEW r \in Runs, Submit(s, r)
  PROVE  EngineInv'
<1>1. thread[s].pc = "off" /\ RunOf(s) = None
  BY DEF Submit, At, EngineInv, ThreadInv, RunsAreNamed
<1>2. /\ thread' \in [Submits -> [pc : ThreadPC, run : Runs \cup {None}]]
      /\ \A t \in Submits \ {s} : thread'[t] = thread[t]
      /\ \/ is_running(r) /\ thread'[s] = [pc |-> "duplicate", run |-> None]
         \/ ~is_running(r) /\ thread'[s] = [pc |-> "prepare", run |-> r]
  BY DEF Submit, EngineInv, ThreadTypes, ThreadPC
<1>3. overlapped \subseteq overlapped' /\ overlapped' \subseteq Runs
  BY DEF Submit, EngineInv, ThreadTypes
<1>4. ThreadTypes'
  BY <1>2, <1>3 DEF EngineInv, ThreadTypes, Submit
<1>5. RunsAreNamed' /\ LivesWhileAwaited'
  BY <1>1, <1>2 DEF EngineInv, ThreadInv, RunsAreNamed, LivesWhileAwaited, Live, RunOf, Submit
<1>6. AwaitedIsRegistered'
  BY <1>2, <1>3 DEF EngineInv, ThreadInv, AwaitedIsRegistered, RunOf, Submit
<1>7. RegistryAgrees'
  BY <1>1, <1>2 DEF EngineInv, ThreadTypes, ThreadInv, RegistryAgrees, RunOf, Submit
<1>8. OneCurrent'
  <2> SUFFICES ASSUME NEW t \in Submits, NEW u \in Submits, Current(t)', Current(u)',
                      RunOf(t)' = RunOf(u)', RunOf(t)' \notin overlapped'
               PROVE  t = u
    BY DEF OneCurrent
  <2>1. \A v \in Submits \ {s} : RunOf(v)' = RunOf(v) /\ (Current(v)' <=> Current(v))
    BY <1>2 DEF RunOf, Current, At
  <2>2. CASE t # s /\ u # s
    BY <1>3, <2>1, <2>2 DEF EngineInv, ThreadInv, OneCurrent
  <2>3. ASSUME NEW v \in Submits \ {s}, Current(s)', Current(v)', RunOf(v)' = RunOf(s)'
        PROVE  RunOf(s)' \in overlapped'
    <3>1. ~is_running(r) /\ RunOf(s)' = r
      BY <1>2, <2>3 DEF RunOf, Current
    <3>2. v \in ThreadsOf(r) /\ ~At(v, "over")
      BY <2>1, <2>3, <3>1 DEF ThreadsOf, Current
    <3>3. QED
      BY <3>1, <3>2 DEF Submit
  <2>4. QED
    BY <2>2, <2>3
<1>9. QED
  BY <1>4, <1>5, <1>6, <1>7, <1>8 DEF EngineInv, ThreadInv

LEMMA StepKeeps == EngineInv /\ [Next]_vars => EngineInv'
<1> SUFFICES ASSUME EngineInv, [Next]_vars PROVE EngineInv'
  OBVIOUS
<1>1. ASSUME NEW s \in Submits, ThreadStep(s) PROVE EngineInv'
  BY <1>1, FailKeeps, AnnounceKeeps, SpawnKeeps, RegisterKeeps, ReportKeeps, TimeoutKeeps,
     ReapKeeps, PopKeeps, CloseKeeps DEF ThreadStep
<1>2. ASSUME NEW s \in Submits, NEW r \in Runs, Submit(s, r) PROVE EngineInv'
  BY <1>2, SubmitKeeps
<1>3. ASSUME NEW s \in Submits, Exit(s) \/ LetGo(s) PROVE EngineInv'
  BY <1>3, ExitKeeps
<1>4. ASSUME NEW x \in Cancels, NEW r \in Runs, Cancel(x, r) PROVE EngineInv'
  BY <1>4, CancelKeeps
<1>5. ASSUME \/ \E s \in Submits : ingest_step(s)
             \/ \E x \in Cancels : CancelTell(x)
             \/ \E c \in Readers : Deliver(c) \/ EndOfStream(c) \/ \E r \in Runs : Open(c, r)
             \/ UNCHANGED vars
      PROVE EngineInv'
  BY <1>5, OtherKeeps DEF ingest_step, CancelTell, Deliver, EndOfStream, Open, vars
<1>6. QED
  BY <1>1, <1>2, <1>3, <1>4, <1>5 DEF Next

LEMMA ReachableFromInv == EngineInv => LiveProcessIsReachable
<1> SUFFICES ASSUME EngineInv, NEW s \in Submits, Live(s), RunOf(s) \notin overlapped
             PROVE  /\ thread[s].pc \in {"register", "wait", "killed"}
                    /\ thread[s].pc # "register" => registry[RunOf(s)] = s
                    /\ \A t \in Submits \ {s} : RunOf(t) = RunOf(s) => ~Live(t)
  BY DEF LiveProcessIsReachable
<1>1. thread[s].pc \in {"register", "wait", "killed"}
  BY DEF EngineInv, ThreadInv, LivesWhileAwaited
<1>2. thread[s].pc # "register" => registry[RunOf(s)] = s
  BY <1>1 DEF EngineInv, ThreadInv, AwaitedIsRegistered
<1>3. \A t \in Submits : Live(t) => Current(t)
  BY DEF EngineInv, ThreadInv, LivesWhileAwaited, RunsAreNamed, Current, At
<1>4. \A t \in Submits \ {s} : RunOf(t) = RunOf(s) => ~Live(t)
  BY <1>3 DEF EngineInv, ThreadInv, OneCurrent
<1>5. QED
  BY <1>1, <1>2, <1>4

(* Whatever is submitted, cancelled, timed out or fails: unless submits of  *)
(* its run overlapped, a live process is the only one of its run, its       *)
(* thread has not given a verdict, and cancel_execution() finds it as soon  *)
(* as its thread waits for it.                                              *)
THEOREM LiveProcessesAreReachable == Spec => []LiveProcessIsReachable
<1>1. Spec => []EngineInv
  BY InitThreads, StepKeeps, PTL DEF Spec
<1>2. QED
  BY <1>1, ReachableFromInv, PTL

-----------------------------------------------------------------------------
(* The bus.                                                                *)
BusInv ==
  /\ done \in [Runs -> BOOLEAN]
  /\ closed \in Seq(Runs)
  /\ ClosedKeysAreQueued

LEMMA InitBus == Init => BusInv
<1> SUFFICES ASSUME Init PROVE BusInv
  OBVIOUS
<1>1. closed \in Seq(Runs) /\ Len(closed) = 0 /\ DOMAIN closed = {}
  BY DEF Init
<1>2. done \in [Runs -> BOOLEAN] /\ \A r \in Runs : ~done[r]
  BY DEF Init
<1>3. QED
  BY <1>1, <1>2, BoundsAssumption DEF BusInv, ClosedKeysAreQueued

LEMMA SameBus ==
  ASSUME BusInv, UNCHANGED <<done, closed>>
  PROVE  BusInv'
  BY DEF BusInv, ClosedKeysAreQueued

(* An evicted key is the oldest one, and not the key being closed: that    *)
(* one was open, and the queue is longer than the bound, so not empty.     *)
LEMMA CloseKeyKeeps ==
  ASSUME BusInv, NEW r \in Runs, CloseKey(r)
  PROVE  BusInv'
<1>1. CASE done[r]
  BY <1>1, SameBus DEF CloseKey, bus
<1>2. CASE ~done[r]
  <2> DEFINE order == Append(closed, r)
  <2>1. /\ closed \in Seq(Runs) /\ Len(closed) \in Nat /\ Len(closed) <= MAX_CLOSED_KEYS
        /\ \A i, j \in 1..Len(closed) : closed[i] = closed[j] => i = j
        /\ \A i \in 1..Len(closed) : closed[i] \in Runs /\ done[closed[i]]
        /\ \A k \in Runs : done[k] => \E i \in 1..Len(closed) : closed[i] = k
        /\ done \in [Runs -> BOOLEAN]
    BY DEF BusInv, ClosedKeysAreQueued
  <2>2. /\ order \in Seq(Runs) /\ Len(order) = Len(closed) + 1
        /\ \A i \in 1..Len(closed) : order[i] = closed[i]
        /\ order[Len(closed) + 1] = r
    BY <2>1
  <2>3. \A i, j \in 1..Len(order) : order[i] = order[j] => i = j
    BY <1>2, <2>1, <2>2
  <2>4. \A k \in Runs : done[k] \/ k = r <=> \E i \in 1..Len(order) : order[i] = k
    <3>1. ASSUME NEW k \in Runs, done[k] PROVE \E i \in 1..Len(order) : order[i] = k
      BY <2>1, <2>2, <3>1
    <3>2. \E i \in 1..Len(order) : order[i] = r
      BY <2>1, <2>2
    <3>3. ASSUME NEW k \in Runs, NEW i \in 1..Len(order), order[i] = k PROVE done[k] \/ k = r
      <4>1. CASE i = Len(closed) + 1
        BY <2>2, <3>3, <4>1
      <4>2. CASE i \in 1..Len(closed)
        BY <2>1, <2>2, <3>3, <4>2
      <4>3. QED
        BY <2>1, <2>2, <4>1, <4>2
    <3>4. QED
      BY <3>1, <3>2, <3>3
  <2>5. CASE Len(order) <= MAX_CLOSED_KEYS
    <3>1. closed' = order /\ done' = [k \in Runs |-> done[k] \/ k = r]
      BY <1>2, <2>1, <2>2, <2>5, BoundsAssumption DEF CloseKey
    <3>2. done' \in [Runs -> BOOLEAN] /\ \A k \in Runs : done'[k] <=> done[k] \/ k = r
      BY <2>1, <3>1
    <3>3. \A i \in 1..Len(closed') : closed'[i] \in Runs
      BY <2>2, <3>1
    <3>4. {k \in Runs : done'[k]} = {closed'[i] : i \in 1..Len(closed')}
      BY <2>4, <3>1, <3>2, <3>3
    <3>5. QED
      BY <2>2, <2>3, <2>5, <3>1, <3>2, <3>4 DEF BusInv, ClosedKeysAreQueued
  <2>6. CASE Len(order) > MAX_CLOSED_KEYS
    <3>1. Len(closed) = MAX_CLOSED_KEYS /\ 1 \in 1..Len(closed)
      BY <2>1, <2>2, <2>6, BoundsAssumption
    <3>2. Head(order) = order[1] /\ order[1] # r
      BY <1>2, <2>1, <2>2, <3>1
    <3>3. closed' = Tail(order) /\ done' = [k \in Runs |-> (done[k] \/ k = r) /\ k # order[1]]
      BY <1>2, <2>6, <3>2 DEF CloseKey
    <3>4. /\ closed' \in Seq(Runs) /\ Len(closed') = Len(closed)
          /\ \A i \in 1..Len(closed') : closed'[i] = order[i + 1]
      BY <2>1, <2>2, <3>1, <3>3
    <3>5. done' \in [Runs -> BOOLEAN] /\ \A k \in Runs : done'[k] <=> (done[k] \/ k = r) /\ k # order[1]
      BY <2>1, <3>3
    <3>6. \A i, j \in 1..Len(closed') : closed'[i] = closed'[j] => i = j
      BY <2>1, <2>2, <2>3, <3>4
    <3>7. \A k \in Runs : done'[k] <=> \E i \in 1..Len(closed') : closed'[i] = k
      <4>1. ASSUME NEW k \in Runs, done'[k] PROVE \E i \in 1..Len(closed') : closed'[i] = k
        <5>1. PICK j \in 1..Len(order) : order[j] = k
          BY <2>4, <3>5, <4>1
        <5>2. j # 1
          BY <3>5, <4>1, <5>1
        <5>3. j - 1 \in 1..Len(closed') /\ closed'[j - 1] = k
          BY <2>1, <2>2, <3>4, <5>1, <5>2
        <5>4. QED
          BY <5>3
      <4>2. ASSUME NEW k \in Runs, NEW i \in 1..Len(closed'), closed'[i] = k PROVE done'[k]
        <5>1. i + 1 \in 1..Len(order) /\ order[i + 1] = k /\ i + 1 # 1 /\ 1 \in 1..Len(order)
          BY <2>1, <2>2, <3>4, <4>2
        <5>2. order[1] # k
          BY <2>3, <5>1
        <5>3. QED
          BY <2>4, <3>5, <5>1, <5>2
      <4>3. QED
        BY <4>1, <4>2
    <3>8. \A i \in 1..Len(closed') : closed'[i] \in Runs
      BY <3>4
    <3>9. {k \in Runs : done'[k]} = {closed'[i] : i \in 1..Len(closed')}
      BY <3>7, <3>8
    <3>10. DOMAIN closed' = 1..Len(closed') /\ Len(closed') <= MAX_CLOSED_KEYS
      BY <2>1, <3>4
    <3>11. ClosedKeysAreQueued'
      BY <3>6, <3>9, <3>10 DEF ClosedKeysAreQueued
    <3>12. QED
      BY <3>4, <3>5, <3>11 DEF BusInv
  <2>7. QED
    BY <2>1, <2>2, <2>5, <2>6, BoundsAssumption
<1>3. QED
  BY <1>1, <1>2

LEMMA BusStepKeeps == EngineInv /\ BusInv /\ [Next]_vars => BusInv'
<1> SUFFICES ASSUME EngineInv, BusInv, [Next]_vars PROVE BusInv'
  OBVIOUS
<1>1. ASSUME NEW s \in Submits, Close(s) PROVE BusInv'
  <2>1. RunOf(s) \in Runs
    BY <1>1 DEF Close, At, RunOf, EngineInv, ThreadTypes, ThreadInv, RunsAreNamed
  <2>2. QED
    BY <1>1, <2>1, CloseKeyKeeps DEF Close
<1>2. ASSUME NEW s \in Submits, ThreadStep(s), ~Close(s) PROVE BusInv'
  BY <1>2, SameBus DEF ThreadStep, Fail, Announce, Spawn, Register, Report, Timeout, Reap, Pop, Emit, bus
<1>3. ASSUME NEW s \in Submits,
             ingest_step(s) \/ Exit(s) \/ LetGo(s) \/ \E r \in Runs : Submit(s, r)
      PROVE BusInv'
  BY <1>3, SameBus DEF ingest_step, Exit, LetGo, Submit, Emit, bus
<1>4. ASSUME NEW x \in Cancels, CancelTell(x) \/ \E r \in Runs : Cancel(x, r) PROVE BusInv'
  BY <1>4, SameBus DEF CancelTell, Cancel, Emit, bus
<1>5. ASSUME NEW c \in Readers, Deliver(c) \/ EndOfStream(c) \/ \E r \in Runs : Open(c, r)
      PROVE BusInv'
  BY <1>5, SameBus DEF Deliver, EndOfStream, Open, bus
<1>6. CASE UNCHANGED vars
  BY <1>6, SameBus DEF vars, bus
<1>7. QED
  BY <1>1, <1>2, <1>3, <1>4, <1>5, <1>6 DEF Next

(* The bus forgets closed keys one by one and never one that is open, and  *)
(* keeps at most MAX_CLOSED_KEYS of them, however many runs are closed and  *)
(* however many threads of a run close its key.                            *)
THEOREM ClosedKeysStayBounded == Spec => []ClosedKeysAreQueued
<1>1. Spec => []EngineInv
  BY InitThreads, StepKeeps, PTL DEF Spec
<1>2. Spec => []BusInv
  BY <1>1, InitBus, BusStepKeeps, PTL DEF Spec
<1>3. BusInv => ClosedKeysAreQueued
  BY DEF BusInv
<1>4. QED
  BY <1>2, <1>3, PTL

-----------------------------------------------------------------------------
(* The verdict on the bus.  The argument is about a run with one thread:   *)
(* while its key is not evicted, the numbers go on from what its streams   *)
(* have read, so its verdict is new to all of them; and the verdict stands *)
(* as far from the end of the history as events followed it.               *)
Ordered(h) ==
  /\ Len(h) <= MAX_EVENTS_PER_KEY
  /\ \A i, j \in 1..Len(h) : i < j => h[i].seq < h[j].seq

StreamTypes ==
  /\ history \in [Runs -> Seq(Event)]
  /\ \A r \in Runs : Ordered(history[r])
  /\ trailing \in [Runs -> Nat]
  /\ reader \in [Readers -> [pc : {"off", "reading", "ended"}, run : Runs \cup {None},
                             last : Nat, verdict : BOOLEAN]]
  /\ \A c \in Readers : IF reader[c].pc = "off" THEN reader[c].run = None /\ reader[c].last = 0
                        ELSE reader[c].run \in Runs
  /\ cancel \in [Cancels -> [pc : {"off", "tell", "done"}, run : Runs \cup {None}]]

Reading(c, r) == reader[c].pc = "reading" /\ reader[c].run = r
Ended(c, r) == reader[c].pc = "ended" /\ reader[c].run = r
Telling(x, r) == cancel[x].pc = "tell" /\ cancel[x].run = r

(* A run that was never submitted. *)
Untouched(r) ==
  /\ history[r] = <<>> /\ ~done[r]
  /\ \A x \in Cancels : ~Telling(x, r)
  /\ \A c \in Readers : ~Ended(c, r) /\ (Reading(c, r) => reader[c].last = 0)

VerdictEvent(r) == history[r][Len(history[r]) - trailing[r]]

VerdictIsKept(r) ==
  /\ trailing[r] < Len(history[r])
  /\ VerdictEvent(r).type \in Verdicts
  /\ \A c \in Readers :
       Reading(c, r) /\ reader[c].last >= VerdictEvent(r).seq => reader[c].verdict

NumbersGoOn(r) == \A c \in Readers : Reading(c, r) => reader[c].last < NextSeq(history[r])

Judged(s) == thread[s].pc \in {"pop", "close", "over"}
IsRecent(r) == trailing[r] < MAX_EVENTS_PER_KEY

(* A run of one thread. *)
OnlyThread(s, r) ==
  /\ done[r] => At(s, "over")
  /\ ~At(s, "over") \/ done[r] =>
       NumbersGoOn(r) /\ (Judged(s) /\ IsRecent(r) => VerdictIsKept(r))
  /\ \A c \in Readers : Ended(c, r) => At(s, "over") /\ (IsRecent(r) => reader[c].verdict)

StreamsOf(r) ==
  /\ ThreadsOf(r) = {} => Untouched(r)
  /\ \A s \in Submits : ThreadsOf(r) = {s} => OnlyThread(s, r)

StreamInv == StreamTypes /\ \A r \in Runs : StreamsOf(r)

-----------------------------------------------------------------------------
LEMMA NextNumber ==
  ASSUME NEW h \in Seq(Event)
  PROVE  /\ NextSeq(h) \in Nat \ {0}
         /\ h # <<>> => Len(h) \in 1..Len(h) /\ h[Len(h)].seq \in Nat
                        /\ NextSeq(h) = h[Len(h)].seq + 1
<1>1. CASE h = <<>>
  BY <1>1 DEF NextSeq
<1>2. CASE h # <<>>
  <2>1. Len(h) \in 1..Len(h) /\ h[Len(h)] \in Event
    BY <1>2
  <2>2. QED
    BY <1>2, <2>1 DEF NextSeq, Event
<1>3. QED
  BY <1>1, <1>2

(* emit() adds the event at the end; what is dropped is at the beginning.  *)
LEMMA RetainedEnd ==
  ASSUME NEW h \in Seq(Event), Ordered(h), NEW e \in Event, e.seq = NextSeq(h),
         NEW g, g = Retained(Append(h, e))
  PROVE  /\ g \in Seq(Event) /\ Ordered(g) /\ g # <<>> /\ g[Len(g)] = e
         /\ \A k \in Nat : k < Len(h) /\ k + 1 < MAX_EVENTS_PER_KEY =>
              k + 1 < Len(g) /\ g[Len(g) - (k + 1)] = h[Len(h) - k]
<1> DEFINE a == Append(h, e)
<1> USE BoundsAssumption
<1>1. /\ a \in Seq(Event) /\ Len(a) = Len(h) + 1 /\ Len(h) \in Nat
      /\ \A i \in 1..Len(h) : a[i] = h[i]
      /\ a[Len(h) + 1] = e
  OBVIOUS
<1>2. \A i \in 1..Len(h) : h[i].seq \in Nat /\ h[i].seq < e.seq
  <2>1. ASSUME NEW i \in 1..Len(h) PROVE h[i].seq \in Nat /\ h[i].seq < e.seq
    <3>1. h # <<>> /\ Len(h) \in 1..Len(h) /\ h[Len(h)].seq \in Nat /\ e.seq = h[Len(h)].seq + 1
      BY <2>1, NextNumber
    <3>2. h[i].seq \in Nat
      <4>1. h[i] \in Event
        BY <2>1
      <4>2. QED
        BY <4>1 DEF Event
    <3>3. i = Len(h) \/ h[i].seq < h[Len(h)].seq
      BY <2>1, <3>1 DEF Ordered
    <3>4. QED
      BY <3>1, <3>2, <3>3
  <2>2. QED
    BY <2>1
<1>3. \A i, j \in 1..Len(a) : i < j => a[i].seq < a[j].seq
  <2>1. ASSUME NEW i \in 1..Len(a), NEW j \in 1..Len(a), i < j PROVE a[i].seq < a[j].seq
    <3>1. i \in 1..Len(h) /\ a[i] = h[i]
      BY <1>1, <2>1
    <3>2. CASE j = Len(h) + 1
      BY <1>1, <1>2, <3>1, <3>2
    <3>3. CASE j # Len(h) + 1
      <4>1. j \in 1..Len(h) /\ a[j] = h[j]
        BY <1>1, <3>3
      <4>2. QED
        BY <2>1, <3>1, <4>1 DEF Ordered
    <3>4. QED
      BY <3>2, <3>3
  <2>2. QED
    BY <2>1
<1>4. CASE Len(a) <= MAX_EVENTS_PER_KEY
  <2>1. g = a
    BY <1>1, <1>4 DEF Retained
  <2> HIDE DEF a
  <2>2. ASSUME NEW k \in Nat, k < Len(h)
        PROVE  k + 1 < Len(g) /\ g[Len(g) - (k + 1)] = h[Len(h) - k]
    <3>1. Len(h) - k \in 1..Len(h) /\ Len(g) - (k + 1) = Len(h) - k
      BY <1>1, <2>1, <2>2
    <3>2. QED
      BY <1>1, <2>1, <2>2, <3>1
  <2>3. QED
    BY <1>1, <1>3, <1>4, <2>1, <2>2 DEF Ordered
<1>5. CASE Len(a) > MAX_EVENTS_PER_KEY
  <2>1. Len(h) = MAX_EVENTS_PER_KEY /\ Len(a) = MAX_EVENTS_PER_KEY + 1
    BY <1>1, <1>5 DEF Ordered
  <2>2. g = SubSeq(a, 2, Len(a))
    BY <1>5, <2>1 DEF Retained
  <2> HIDE DEF a
  <2>3. \A i \in 2..Len(a) : a[i] \in Event
    BY <1>1, <2>1
  <2>4. /\ g \in Seq(Event) /\ Len(g) = Len(h)
        /\ \A i \in 1..Len(g) : g[i] = a[i + 1]
    <3>1. /\ g \in Seq(Event)
          /\ Len(g) = IF 2 <= Len(a) THEN Len(a) - 2 + 1 ELSE 0
          /\ \A i \in 1..(Len(a) - 2 + 1) : g[i] = a[2 + i - 1]
      BY <1>1, <2>2, <2>3, SubSeqProperties
    <3>2. Len(g) = Len(h)
      BY <1>1, <2>1, <3>1
    <3>3. ASSUME NEW i \in 1..Len(g) PROVE g[i] = a[i + 1]
      <4>1. i \in 1..(Len(a) - 2 + 1) /\ 2 + i - 1 = i + 1
        BY <1>1, <3>2, <3>3
      <4>2. QED
        BY <3>1, <4>1
    <3>4. QED
      BY <3>1, <3>2, <3>3
  <2>5. Ordered(g)
    <3>1. ASSUME NEW i \in 1..Len(g), NEW j \in 1..Len(g), i < j PROVE g[i].seq < g[j].seq
      <4>1. i + 1 \in 1..Len(a) /\ j + 1 \in 1..Len(a) /\ i + 1 < j + 1
        BY <1>1, <2>4, <3>1
      <4>2. QED
        BY <1>3, <2>4, <4>1
    <3>2. QED
      BY <2>1, <2>4, <3>1 DEF Ordered
  <2>6. ASSUME NEW k \in Nat, k < Len(h), k + 1 < MAX_EVENTS_PER_KEY
        PROVE  k + 1 < Len(g) /\ g[Len(g) - (k + 1)] = h[Len(h) - k]
    <3>1. /\ Len(g) - (k + 1) \in 1..Len(g) /\ Len(h) - k \in 1..Len(h)
          /\ Len(g) - (k + 1) + 1 = Len(h) - k
      BY <2>1, <2>4, <2>6
    <3>2. QED
      BY <1>1, <2>1, <2>4, <2>6, <3>1
  <2>7. g # <<>> /\ g[Len(g)] = e
    <3>1. Len(g) \in 1..Len(g) /\ Len(g) + 1 = Len(h) + 1
      BY <2>1, <2>4
    <3>2. QED
      BY <1>1, <2>4, <3>1
  <2>8. QED
    BY <2>4, <2>5, <2>6, <2>7
<1>6. QED
  BY <1>1, <1>4, <1>5

EventTypes == {"running", "step", "cancelled"} \cup Verdicts

LEMMA EmitEffect ==
  ASSUME StreamTypes, NEW r \in Runs, NEW type \in EventTypes, Emit(r, type)
  PROVE  /\ history' \in [Runs -> Seq(Event)] /\ \A k \in Runs : Ordered(history'[k])
         /\ trailing' \in [Runs -> Nat]
         /\ trailing'[r] = IF type \in Verdicts THEN 0 ELSE trailing[r] + 1
         /\ \A k \in Runs \ {r} : history'[k] = history[k] /\ trailing'[k] = trailing[k]
         /\ history'[r] # <<>>
         /\ history'[r][Len(history'[r])] \in Event
         /\ history'[r][Len(history'[r])].type = type
         /\ history'[r][Len(history'[r])].seq = NextSeq(history[r])
         /\ \A k \in Nat : k < Len(history[r]) /\ k + 1 < MAX_EVENTS_PER_KEY =>
              /\ k + 1 < Len(history'[r])
              /\ history'[r][Len(history'[r]) - (k + 1)] = history[r][Len(history[r]) - k]
<1> DEFINE e == [seq |-> NextSeq(history[r]), type |-> type]
<1>1. history[r] \in Seq(Event) /\ Ordered(history[r])
  BY DEF StreamTypes
<1>2. e \in Event /\ e.seq = NextSeq(history[r]) /\ e.type = type
  BY <1>1, NextNumber DEF Event, EventTypes
<1>3. history' = [history EXCEPT ![r] = Retained(Append(history[r], e))]
  BY DEF Emit
<1>4. PICK g : g = Retained(Append(history[r], e))
  OBVIOUS
<1>5. /\ trailing' \in [Runs -> Nat]
      /\ trailing'[r] = IF type \in Verdicts THEN 0 ELSE trailing[r] + 1
      /\ \A k \in Runs \ {r} : trailing'[k] = trailing[k]
  BY DEF Emit, StreamTypes
<1> HIDE DEF e
<1>6. /\ g \in Seq(Event) /\ Ordered(g) /\ g # <<>> /\ g[Len(g)] = e
      /\ \A k \in Nat : k < Len(history[r]) /\ k + 1 < MAX_EVENTS_PER_KEY =>
           k + 1 < Len(g) /\ g[Len(g) - (k + 1)] = history[r][Len(history[r]) - k]
  BY <1>1, <1>2, <1>4, RetainedEnd
<1>7. /\ history'[r] = g /\ \A k \in Runs \ {r} : history'[k] = history[k]
      /\ history' \in [Runs -> Seq(Event)]
  BY <1>3, <1>4, <1>6 DEF StreamTypes
<1>8. \A k \in Runs : Ordered(history'[k])
  BY <1>6, <1>7 DEF StreamTypes
<1>9. QED
  BY <1>2, <1>5, <1>6, <1>7, <1>8

-----------------------------------------------------------------------------
(* A run of which a step changes nothing that its streams depend on.       *)
LEMMA SameStreams ==
  ASSUME NEW r \in Runs, StreamsOf(r),
         history'[r] = history[r], trailing'[r] = trailing[r], done'[r] = done[r],
         ThreadsOf(r)' = ThreadsOf(r),
         \A s \in ThreadsOf(r) : At(s, "over")' <=> At(s, "over"),
         \A s \in ThreadsOf(r) : Judged(s)' <=> Judged(s),
         \A x \in Cancels : Telling(x, r)' => Telling(x, r) \/ ThreadsOf(r) # {},
         reader' = reader
  PROVE  StreamsOf(r)'
<1>1. /\ NumbersGoOn(r)' <=> NumbersGoOn(r)
      /\ VerdictIsKept(r)' <=> VerdictIsKept(r)
      /\ IsRecent(r)' <=> IsRecent(r)
      /\ \A c \in Readers : Ended(c, r)' <=> Ended(c, r)
      /\ \A c \in Readers : Reading(c, r)' <=> Reading(c, r)
  BY DEF NumbersGoOn, VerdictIsKept, VerdictEvent, IsRecent, Ended, Reading
<1>2. ThreadsOf(r)' = {} => Untouched(r)'
  BY <1>1 DEF StreamsOf, Untouched
<1>3. ASSUME NEW s \in Submits, ThreadsOf(r)' = {s} PROVE OnlyThread(s, r)'
  <2>1. OnlyThread(s, r) /\ s \in ThreadsOf(r)
    BY <1>3 DEF StreamsOf
  <2>2. QED
    BY <1>1, <2>1 DEF OnlyThread
<1>4. QED
  BY <1>2, <1>3 DEF StreamsOf

(* A run that gets an event which is no verdict.                           *)
LEMMA FurtherEvent ==
  ASSUME StreamTypes, NEW r \in Runs, StreamsOf(r), ThreadsOf(r) # {},
         NEW type \in EventTypes \ Verdicts, Emit(r, type), done'[r] = done[r],
         ThreadsOf(r)' = ThreadsOf(r),
         \A s \in ThreadsOf(r) : At(s, "over")' <=> At(s, "over"),
         \A s \in ThreadsOf(r) : Judged(s)' <=> Judged(s),
         reader' = reader
  PROVE  StreamsOf(r)'
<1>1. /\ trailing'[r] = trailing[r] + 1 /\ trailing[r] \in Nat
      /\ history[r] \in Seq(Event) /\ history'[r] \in Seq(Event) /\ history'[r] # <<>>
      /\ history'[r][Len(history'[r])].seq = NextSeq(history[r])
      /\ \A k \in Nat : k < Len(history[r]) /\ k + 1 < MAX_EVENTS_PER_KEY =>
           /\ k + 1 < Len(history'[r])
           /\ history'[r][Len(history'[r]) - (k + 1)] = history[r][Len(history[r]) - k]
  BY EmitEffect DEF StreamTypes
<1>2. NumbersGoOn(r) => NumbersGoOn(r)'
  <2>1. NextSeq(history[r]) \in Nat /\ NextSeq(history'[r]) = NextSeq(history[r]) + 1
    BY <1>1, NextNumber
  <2>2. \A c \in Readers : reader[c].last \in Nat
    BY DEF StreamTypes
  <2>3. QED
    BY <2>1, <2>2 DEF NumbersGoOn, Reading
<1>3. IsRecent(r)' => IsRecent(r)
  BY <1>1, BoundsAssumption DEF IsRecent
<1>4. VerdictIsKept(r) /\ IsRecent(r)' => VerdictIsKept(r)'
  <2> SUFFICES ASSUME VerdictIsKept(r), IsRecent(r)' PROVE VerdictIsKept(r)'
    OBVIOUS
  <2>1. trailing[r] < Len(history[r]) /\ trailing[r] + 1 < MAX_EVENTS_PER_KEY
    BY <1>1 DEF VerdictIsKept, IsRecent
  <2>2. trailing'[r] < Len(history'[r]) /\ VerdictEvent(r)' = VerdictEvent(r)
    BY <1>1, <2>1 DEF VerdictEvent
  <2>3. QED
    BY <2>2 DEF VerdictIsKept, Reading
<1>5. ASSUME NEW s \in Submits, ThreadsOf(r)' = {s} PROVE OnlyThread(s, r)'
  <2>1. OnlyThread(s, r) /\ s \in ThreadsOf(r)
    BY <1>5 DEF StreamsOf
  <2>2. \A c \in Readers : Ended(c, r)' <=> Ended(c, r)
    BY DEF Ended
  <2>3. QED
    BY <1>2, <1>3, <1>4, <2>1, <2>2 DEF OnlyThread
<1>6. QED
  BY <1>5 DEF StreamsOf

(* The thread of a run gives its verdict.                                  *)
LEMMA VerdictGiven ==
  ASSUME StreamTypes, NEW r \in Runs, StreamsOf(r), NEW s \in ThreadsOf(r), ~At(s, "over"),
         NEW type \in Verdicts, Emit(r, type), done'[r] = done[r],
         ThreadsOf(r)' = ThreadsOf(r), ~At(s, "over")', reader' = reader
  PROVE  StreamsOf(r)'
<1>1. type \in EventTypes
  BY DEF EventTypes
<1>2. /\ trailing'[r] = 0
      /\ history[r] \in Seq(Event) /\ history'[r] \in Seq(Event) /\ history'[r] # <<>>
      /\ history'[r][Len(history'[r])].seq = NextSeq(history[r])
      /\ history'[r][Len(history'[r])].type = type
  BY <1>1, EmitEffect DEF StreamTypes
<1>3. ASSUME NEW t \in Submits, ThreadsOf(r)' = {t} PROVE OnlyThread(t, r)'
  <2>1. t = s /\ OnlyThread(s, r)
    BY <1>3 DEF StreamsOf, ThreadsOf
  <2>2. NumbersGoOn(r) /\ ~done[r] /\ \A c \in Readers : ~Ended(c, r)
    BY <2>1 DEF OnlyThread
  <2>3. /\ NextSeq(history[r]) \in Nat /\ NextSeq(history'[r]) = NextSeq(history[r]) + 1
        /\ \A c \in Readers : reader[c].last \in Nat
    BY <1>2, NextNumber DEF StreamTypes
  <2>4. NumbersGoOn(r)'
    BY <2>2, <2>3 DEF NumbersGoOn, Reading
  <2>5. VerdictIsKept(r)'
    <3>1. Len(history'[r]) \in Nat \ {0} /\ VerdictEvent(r)' = history'[r][Len(history'[r])]
      BY <1>2 DEF VerdictEvent
    <3>2. \A c \in Readers : Reading(c, r)' => ~(reader'[c].last >= VerdictEvent(r)'.seq)
      BY <1>2, <2>2, <2>3, <3>1 DEF NumbersGoOn, Reading
    <3>3. QED
      BY <1>2, <3>1, <3>2 DEF VerdictIsKept
  <2>6. QED
    BY <2>1, <2>2, <2>4, <2>5 DEF OnlyThread, Ended
<1>4. ThreadsOf(r)' # {}
  OBVIOUS
<1>5. QED
  BY <1>3, <1>4 DEF StreamsOf

-----------------------------------------------------------------------------
(* The steps.                                                              *)
LEMMA ThreadMoves ==
  ASSUME EngineInv, NEW s \in Submits, NEW p \in ThreadPC, To(s, p)
  PROVE  /\ thread'[s].pc = p
         /\ \A r \in Runs : ThreadsOf(r)' = ThreadsOf(r)
         /\ \A t \in Submits \ {s} : (At(t, "over")' <=> At(t, "over")) /\ (Judged(t)' <=> Judged(t))
<1>1. /\ thread'[s].pc = p
      /\ \A t \in Submits : RunOf(t)' = RunOf(t)
      /\ \A t \in Submits \ {s} : thread'[t].pc = thread[t].pc
  BY MovedThread
<1>2. QED
  BY <1>1 DEF ThreadsOf, At, Judged

LEMMA ThreadHasRun ==
  ASSUME EngineInv, NEW s \in Submits, thread[s].pc \notin {"off", "duplicate"}
  PROVE  RunOf(s) \in Runs /\ s \in ThreadsOf(RunOf(s))
  BY DEF EngineInv, ThreadTypes, ThreadInv, RunsAreNamed, RunOf, ThreadsOf

(* A thread goes on without an event. *)
LEMMA QuietThread ==
  ASSUME EngineInv, StreamInv, NEW s \in Submits, NEW p \in ThreadPC, To(s, p),
         thread[s].pc # "over", p # "over", Judged(s) <=> p \in {"pop", "close"},
         UNCHANGED <<bus, reader, cancel>>
  PROVE  StreamInv'
<1>1. /\ thread'[s].pc = p
      /\ \A r \in Runs : ThreadsOf(r)' = ThreadsOf(r)
      /\ \A t \in Submits \ {s} : (At(t, "over")' <=> At(t, "over")) /\ (Judged(t)' <=> Judged(t))
  BY ThreadMoves
<1>2. \A t \in Submits : (At(t, "over")' <=> At(t, "over")) /\ (Judged(t)' <=> Judged(t))
  BY <1>1 DEF At, Judged
<1>3. ASSUME NEW r \in Runs PROVE StreamsOf(r)'
  <2>1. /\ history'[r] = history[r] /\ trailing'[r] = trailing[r] /\ done'[r] = done[r]
        /\ reader' = reader /\ StreamsOf(r)
        /\ \A x \in Cancels : Telling(x, r)' => Telling(x, r)
        /\ \A t \in ThreadsOf(r) : t \in Submits
    BY DEF bus, StreamInv, Telling, ThreadsOf
  <2>2. QED
    BY <1>1, <1>2, <2>1, SameStreams
<1>4. StreamTypes'
  BY DEF StreamInv, StreamTypes, bus
<1>5. QED
  BY <1>3, <1>4 DEF StreamInv

(* An event of one run, and nothing new for the others. *)
LEMMA EventStep ==
  ASSUME StreamInv, NEW r \in Runs, NEW type \in EventTypes, Emit(r, type), StreamsOf(r)',
         \A k \in Runs : ThreadsOf(k)' = ThreadsOf(k),
         \A t \in Submits \ ThreadsOf(r) : /\ At(t, "over")' <=> At(t, "over")
                                           /\ Judged(t)' <=> Judged(t),
         reader' = reader,
         cancel' \in [Cancels -> [pc : {"off", "tell", "done"}, run : Runs \cup {None}]],
         \A x \in Cancels : cancel'[x] = cancel[x] \/ cancel'[x].pc = "done"
  PROVE  StreamInv'
<1>1. /\ StreamTypes /\ history' \in [Runs -> Seq(Event)] /\ \A k \in Runs : Ordered(history'[k])
      /\ trailing' \in [Runs -> Nat]
      /\ \A k \in Runs \ {r} : history'[k] = history[k] /\ trailing'[k] = trailing[k]
  BY EmitEffect DEF StreamInv
<1>2. StreamTypes'
  BY <1>1 DEF StreamTypes
<1>3. ASSUME NEW k \in Runs \ {r} PROVE StreamsOf(k)'
  <2>1. /\ history'[k] = history[k] /\ trailing'[k] = trailing[k] /\ done'[k] = done[k]
        /\ StreamsOf(k) /\ ThreadsOf(k)' = ThreadsOf(k)
    BY <1>1 DEF Emit, StreamInv
  <2>2. \A x \in Cancels : Telling(x, k)' => Telling(x, k)
    BY DEF Telling
  <2>3. \A t \in ThreadsOf(k) : t \in Submits \ ThreadsOf(r)
    BY DEF ThreadsOf
  <2>4. QED
    BY <2>1, <2>2, <2>3, SameStreams
<1>4. QED
  BY <1>2, <1>3 DEF StreamInv

LEMMA AnnounceStreams ==
  ASSUME EngineInv, StreamInv, NEW s \in Submits, Announce(s)
  PROVE  StreamInv'
<1>1. thread[s].pc \notin {"off", "duplicate"}
  BY DEF Announce, At
<1>2. PICK r \in Runs : r = RunOf(s) /\ s \in ThreadsOf(r)
  BY <1>1, ThreadHasRun
<1>3. /\ thread[s].pc = "prepare" /\ Emit(r, "running") /\ To(s, "spawn") /\ UNCHANGED <<reader, cancel>>
      /\ "spawn" \in ThreadPC /\ "running" \in EventTypes \ Verdicts
  BY <1>2 DEF Announce, At, ThreadPC, EventTypes, Verdicts
<1>4. r \in Runs /\ s \in ThreadsOf(r)
  BY <1>2
<1>5. /\ thread'[s].pc = "spawn"
      /\ \A k \in Runs : ThreadsOf(k)' = ThreadsOf(k)
      /\ \A t \in Submits \ {s} : (At(t, "over")' <=> At(t, "over")) /\ (Judged(t)' <=> Judged(t))
  BY <1>3, ThreadMoves
<1>6. \A t \in Submits : (At(t, "over")' <=> At(t, "over")) /\ (Judged(t)' <=> Judged(t))
  BY <1>3, <1>5 DEF At, Judged
<1>7. done' = done /\ StreamTypes /\ StreamsOf(r)
  BY <1>3, <1>4 DEF Emit, StreamInv
<1>8. StreamsOf(r)'
  <2>1. \A t \in ThreadsOf(r) : t \in Submits
    BY DEF ThreadsOf
  <2>2. ThreadsOf(r) # {}
    BY <1>4
  <2>3. QED
    BY <1>3, <1>4, <1>5, <1>6, <1>7, <2>1, <2>2, FurtherEvent
<1>9. cancel' \in [Cancels -> [pc : {"off", "tell", "done"}, run : Runs \cup {None}]]
  BY <1>3, <1>7 DEF StreamTypes
<1>10. QED
  BY <1>3, <1>4, <1>5, <1>6, <1>8, <1>9, EventStep

LEMMA VerdictStreams ==
  ASSUME EngineInv, StreamInv, NEW s \in Submits, Fail(s) \/ Report(s) \/ Reap(s)
  PROVE  StreamInv'
<1>1. thread[s].pc \notin {"off", "duplicate"}
  BY DEF Fail, Report, Reap, At
<1>2. PICK r \in Runs : r = RunOf(s) /\ s \in ThreadsOf(r)
  BY <1>1, ThreadHasRun
<1>3. PICK type \in Verdicts : Emit(r, type)
  BY <1>2 DEF Fail, Report, Reap, Verdicts
<1>4. /\ thread[s].pc \in {"prepare", "spawn", "wait", "killed"} /\ To(s, "pop")
      /\ UNCHANGED <<reader, cancel>> /\ "pop" \in ThreadPC /\ type \in EventTypes
  BY DEF Fail, Report, Reap, At, ThreadPC, EventTypes
<1>5. r \in Runs /\ s \in ThreadsOf(r)
  BY <1>2
<1>6. /\ thread'[s].pc = "pop"
      /\ \A k \in Runs : ThreadsOf(k)' = ThreadsOf(k)
      /\ \A t \in Submits \ {s} : (At(t, "over")' <=> At(t, "over")) /\ (Judged(t)' <=> Judged(t))
  BY <1>4, ThreadMoves
<1>7. done' = done /\ StreamTypes /\ StreamsOf(r)
  BY <1>3, <1>5 DEF Emit, StreamInv
<1>8. ~At(s, "over") /\ ~At(s, "over")'
  BY <1>4, <1>6 DEF At
<1>9. StreamsOf(r)'
  <2>1. done'[r] = done[r] /\ reader' = reader /\ ThreadsOf(r)' = ThreadsOf(r)
    BY <1>4, <1>5, <1>6, <1>7
  <2>2. QED
    BY <1>3, <1>5, <1>7, <1>8, <2>1, VerdictGiven
<1>10. cancel' \in [Cancels -> [pc : {"off", "tell", "done"}, run : Runs \cup {None}]]
  BY <1>4, <1>7 DEF StreamTypes
<1>11. \A t \in Submits \ ThreadsOf(r) : /\ At(t, "over")' <=> At(t, "over")
                                        /\ Judged(t)' <=> Judged(t)
  BY <1>5, <1>6
<1>12. QED
  BY <1>3, <1>4, <1>5, <1>6, <1>9, <1>10, <1>11, EventStep

(* A step or a cancellation arrives, maybe after the verdict. *)
LEMMA LateEvent ==
  ASSUME StreamInv, NEW r \in Runs, ThreadsOf(r) # {}, NEW type \in EventTypes \ Verdicts,
         Emit(r, type), UNCHANGED <<thread, reader>>,
         cancel' \in [Cancels -> [pc : {"off", "tell", "done"}, run : Runs \cup {None}]],
         \A x \in Cancels : cancel'[x] = cancel[x] \/ cancel'[x].pc = "done"
  PROVE  StreamInv'
<1>1. /\ \A k \in Runs : ThreadsOf(k)' = ThreadsOf(k)
      /\ \A t \in Submits : (At(t, "over")' <=> At(t, "over")) /\ (Judged(t)' <=> Judged(t))
      /\ \A t \in ThreadsOf(r) : t \in Submits
  BY DEF ThreadsOf, RunOf, At, Judged
<1>2. done'[r] = done[r] /\ StreamTypes /\ StreamsOf(r) /\ reader' = reader
  BY DEF Emit, StreamInv
<1>3. StreamsOf(r)'
  BY <1>1, <1>2, FurtherEvent
<1>4. QED
  BY <1>1, <1>2, <1>3, EventStep

(* An event under no run's key: there is none such, but it does no harm. *)
LEMMA NoEvent ==
  ASSUME StreamInv, NEW r, r \notin Runs, NEW type, Emit(r, type), UNCHANGED <<thread, reader>>,
         cancel' \in [Cancels -> [pc : {"off", "tell", "done"}, run : Runs \cup {None}]],
         \A x \in Cancels : cancel'[x] = cancel[x] \/ cancel'[x].pc = "done"
  PROVE  StreamInv'
<1>1. history' = history /\ trailing' = trailing /\ done' = done
  BY DEF Emit, StreamInv, StreamTypes
<1>2. StreamTypes'
  BY <1>1 DEF StreamInv, StreamTypes
<1>3. ASSUME NEW k \in Runs PROVE StreamsOf(k)'
  <2>1. /\ StreamsOf(k) /\ ThreadsOf(k)' = ThreadsOf(k)
        /\ \A t \in ThreadsOf(k) : (At(t, "over")' <=> At(t, "over")) /\ (Judged(t)' <=> Judged(t))
        /\ \A x \in Cancels : Telling(x, k)' => Telling(x, k)
        /\ history'[k] = history[k] /\ trailing'[k] = trailing[k] /\ done'[k] = done[k]
        /\ reader' = reader
    BY <1>1 DEF StreamInv, ThreadsOf, RunOf, At, Judged, Telling
  <2>2. QED
    BY <2>1, SameStreams
<1>4. QED
  BY <1>2, <1>3 DEF StreamInv

LEMMA LateStreams ==
  ASSUME StreamInv, (\E s \in Submits : ingest_step(s)) \/ (\E x \in Cancels : CancelTell(x))
  PROVE  StreamInv'
<1>1. "step" \in EventTypes \ Verdicts /\ "cancelled" \in EventTypes \ Verdicts
  BY DEF EventTypes, Verdicts
<1>2. ASSUME NEW s \in Submits, ingest_step(s) PROVE StreamInv'
  <2>1. /\ Emit(RunOf(s), "step") /\ UNCHANGED <<thread, reader>> /\ cancel' = cancel
        /\ cancel' \in [Cancels -> [pc : {"off", "tell", "done"}, run : Runs \cup {None}]]
    BY <1>2 DEF ingest_step, StreamInv, StreamTypes
  <2>2. CASE RunOf(s) \in Runs
    <3>1. ThreadsOf(RunOf(s)) # {}
      BY DEF ThreadsOf
    <3>2. QED
      BY <1>1, <2>1, <2>2, <3>1, LateEvent
  <2>3. CASE RunOf(s) \notin Runs
    BY <2>1, <2>3, NoEvent
  <2>4. QED
    BY <2>2, <2>3
<1>3. ASSUME NEW x \in Cancels, CancelTell(x) PROVE StreamInv'
  <2>1. /\ Emit(cancel[x].run, "cancelled") /\ UNCHANGED <<thread, reader>>
        /\ cancel[x].pc = "tell" /\ cancel' = [cancel EXCEPT ![x] = Answered]
    BY <1>3 DEF CancelTell
  <2>2. /\ cancel' \in [Cancels -> [pc : {"off", "tell", "done"}, run : Runs \cup {None}]]
        /\ \A y \in Cancels : cancel'[y] = cancel[y] \/ cancel'[y].pc = "done"
    BY <2>1 DEF StreamInv, StreamTypes, Answered
  <2>3. CASE cancel[x].run \in Runs
    <3>1. ThreadsOf(cancel[x].run) # {}
      BY <2>1, <2>3 DEF StreamInv, StreamsOf, Untouched, Telling
    <3>2. QED
      BY <1>1, <2>1, <2>2, <2>3, <3>1, LateEvent
  <2>4. CASE cancel[x].run \notin Runs
    BY <2>1, <2>2, <2>4, NoEvent
  <2>5. QED
    BY <2>3, <2>4
<1>4. QED
  BY <1>2, <1>3

(* The key of a run is closed; the evicted one, if any, is another, closed *)
(* before, whose thread is over if it has only one.                        *)
LEMMA CloseStreams ==
  ASSUME EngineInv, BusInv, StreamInv, NEW s \in Submits, Close(s)
  PROVE  StreamInv'
<1>1. /\ thread[s].pc = "close" /\ To(s, "over") /\ CloseKey(RunOf(s)) /\ UNCHANGED <<reader, cancel>>
      /\ "over" \in ThreadPC
  BY DEF Close, At, ThreadPC
<1>2. PICK r \in Runs : r = RunOf(s) /\ s \in ThreadsOf(r)
  BY <1>1, ThreadHasRun
<1>3. /\ thread'[s].pc = "over"
      /\ \A k \in Runs : ThreadsOf(k)' = ThreadsOf(k)
      /\ \A t \in Submits \ {s} : (At(t, "over")' <=> At(t, "over")) /\ (Judged(t)' <=> Judged(t))
  BY <1>1, ThreadMoves
<1>4. \A k \in Runs \ {r} : \A t \in ThreadsOf(k) : t \in Submits \ {s}
  BY <1>2 DEF ThreadsOf
<1>5. \A k \in Runs : /\ \A x \in Cancels : Telling(x, k)' => Telling(x, k)
                      /\ \A c \in Readers : Ended(c, k)' <=> Ended(c, k)
                      /\ StreamsOf(k)
  BY <1>1 DEF Telling, Ended, StreamInv
<1>6. CASE done[r]
  <2>1. UNCHANGED <<history, done, trailing>>
    BY <1>1, <1>2, <1>6 DEF CloseKey, bus
  <2>2. StreamTypes'
    BY <1>1, <2>1 DEF StreamInv, StreamTypes
  <2>3. ASSUME NEW k \in Runs \ {r} PROVE StreamsOf(k)'
    BY <1>1, <1>3, <1>4, <1>5, <2>1, SameStreams
  <2>4. StreamsOf(r)'
    <3>1. ASSUME NEW t \in Submits, ThreadsOf(r) = {t} PROVE FALSE
      BY <1>1, <1>2, <1>5, <1>6, <3>1 DEF StreamsOf, OnlyThread, At
    <3>2. QED
      BY <1>2, <1>3, <3>1 DEF StreamsOf
  <2>5. QED
    BY <2>2, <2>3, <2>4 DEF StreamInv
<1>7. CASE ~done[r]
  <2> DEFINE order == Append(closed, r)
             gone == IF Len(order) > MAX_CLOSED_KEYS THEN {Head(order)} \ {r} ELSE {}
  <2>1. PICK out : out = gone
    OBVIOUS
  <2>2. /\ done' = [k \in Runs |-> (done[k] \/ k = r) /\ k \notin out]
        /\ history' = [k \in Runs |-> IF k \in out THEN <<>> ELSE history[k]]
        /\ trailing' = trailing
    BY <1>1, <1>2, <1>7, <2>1 DEF CloseKey
  <2>3. ASSUME NEW k \in Runs, k \in out PROVE done[k] /\ k # r
    <3>1. k # r /\ k = Head(order)
      BY <2>1, <2>3
    <3>2. closed \in Seq(Runs) /\ Len(closed) \in Nat
      BY DEF BusInv
    <3>3. CASE Len(closed) = 0
      <4>1. closed = <<>> /\ order = <<r>>
        BY <3>2, <3>3
      <4>2. QED
        BY <3>1, <4>1
    <3>4. CASE Len(closed) # 0
      <4>1. 1 \in DOMAIN closed /\ Head(order) = closed[1] /\ closed[1] \in Runs
        BY <3>2, <3>4
      <4>2. QED
        BY <3>1, <4>1 DEF BusInv, ClosedKeysAreQueued
    <3>5. QED
      BY <3>3, <3>4
  <2> HIDE DEF gone, order
  <2>4. done \in [Runs -> BOOLEAN] /\ StreamTypes
    BY DEF BusInv, StreamInv
  <2>5. StreamTypes'
    <3>1. <<>> \in Seq(Event) /\ Ordered(<<>>)
      BY BoundsAssumption DEF Ordered
    <3>2. history' \in [Runs -> Seq(Event)] /\ \A k \in Runs : Ordered(history'[k])
      BY <2>2, <2>4, <3>1 DEF StreamTypes
    <3>3. QED
      BY <1>1, <2>2, <2>4, <3>2 DEF StreamTypes
  <2>6. ASSUME NEW k \in Runs \ {r}, k \notin out PROVE StreamsOf(k)'
    <3>1. history'[k] = history[k] /\ trailing'[k] = trailing[k] /\ done'[k] = done[k]
      BY <2>2, <2>4, <2>6
    <3>2. QED
      BY <1>1, <1>3, <1>4, <1>5, <3>1, SameStreams
  <2>7. ASSUME NEW k \in Runs \ {r}, k \in out PROVE StreamsOf(k)'
    <3>1. done[k] /\ ~done'[k] /\ trailing'[k] = trailing[k] /\ ThreadsOf(k)' = ThreadsOf(k)
      BY <1>3, <2>2, <2>3, <2>7
    <3>2. ThreadsOf(k) # {}
      BY <1>5, <3>1 DEF StreamsOf, Untouched
    <3>3. ASSUME NEW t \in Submits, ThreadsOf(k) = {t} PROVE OnlyThread(t, k)'
      <4>1. OnlyThread(t, k) /\ At(t, "over") /\ t \in ThreadsOf(k)
        BY <1>5, <3>1, <3>3 DEF StreamsOf, OnlyThread
      <4>2. At(t, "over")'
        BY <1>3, <1>4, <4>1
      <4>3. QED
        BY <1>1, <1>5, <3>1, <4>1, <4>2 DEF OnlyThread, IsRecent
    <3>4. QED
      BY <3>1, <3>2, <3>3 DEF StreamsOf
  <2>8. StreamsOf(r)'
    <3>1. r \notin out
      BY <2>3
    <3>2. done'[r] /\ history'[r] = history[r] /\ trailing'[r] = trailing[r] /\ reader' = reader
      BY <1>1, <2>2, <2>4, <3>1
    <3>3. ASSUME NEW t \in Submits, ThreadsOf(r)' = {t} PROVE OnlyThread(t, r)'
      <4>1. t = s /\ OnlyThread(s, r)
        BY <1>2, <1>3, <1>5, <3>3 DEF StreamsOf
      <4>2. ~At(s, "over") /\ Judged(s) /\ At(s, "over")' /\ Judged(s)'
        BY <1>1, <1>3 DEF At, Judged
      <4>3. /\ NumbersGoOn(r)' <=> NumbersGoOn(r)
            /\ VerdictIsKept(r)' <=> VerdictIsKept(r)
            /\ IsRecent(r)' <=> IsRecent(r)
        BY <3>2 DEF NumbersGoOn, VerdictIsKept, VerdictEvent, IsRecent, Reading
      <4>4. QED
        BY <1>5, <4>1, <4>2, <4>3 DEF OnlyThread
    <3>4. QED
      BY <1>2, <1>3, <3>3 DEF StreamsOf
  <2>9. QED
    BY <2>5, <2>6, <2>7, <2>8 DEF StreamInv
<1>8. QED
  BY <1>6, <1>7

(* The first thread of a run: nothing was ever said of it. *)
LEMMA SubmitStreams ==
  ASSUME EngineInv, StreamInv, NEW s \in Submits, NEW r \in Runs, Submit(s, r)
  PROVE  StreamInv'
<1>1. /\ thread[s].pc = "off" /\ RunOf(s) = None /\ UNCHANGED <<bus, reader, cancel>>
      /\ \A t \in Submits \ {s} : thread'[t] = thread[t]
      /\ RunOf(s)' = None \/ (RunOf(s)' = r /\ thread'[s].pc = "prepare")
  BY DEF Submit, At, EngineInv, ThreadTypes, ThreadInv, RunsAreNamed, RunOf
<1>2. StreamTypes'
  BY <1>1 DEF StreamInv, StreamTypes, bus
<1>3. \A k \in Runs : /\ history'[k] = history[k] /\ trailing'[k] = trailing[k]
                      /\ done'[k] = done[k] /\ StreamsOf(k)
                      /\ \A x \in Cancels : Telling(x, k)' => Telling(x, k)
  BY <1>1 DEF bus, StreamInv, Telling
<1>4. ASSUME NEW k \in Runs, ThreadsOf(k)' = ThreadsOf(k) PROVE StreamsOf(k)'
  <2>1. \A t \in ThreadsOf(k) : t \in Submits \ {s}
    BY <1>1, NoneAssumption DEF ThreadsOf
  <2>2. \A t \in ThreadsOf(k) : (At(t, "over")' <=> At(t, "over")) /\ (Judged(t)' <=> Judged(t))
    BY <1>1, <2>1 DEF At, Judged
  <2>3. QED
    BY <1>1, <1>3, <1>4, <2>2, SameStreams
<1>5. ASSUME NEW k \in Runs, ThreadsOf(k)' # ThreadsOf(k) PROVE StreamsOf(k)'
  <2>1. k = r /\ thread'[s].pc = "prepare" /\ ThreadsOf(r)' = ThreadsOf(r) \cup {s} /\ s \notin ThreadsOf(r)
    BY <1>1, <1>5, NoneAssumption DEF ThreadsOf, RunOf
  <2>2. ASSUME NEW t \in Submits, ThreadsOf(r)' = {t} PROVE OnlyThread(t, r)'
    <3>1. t = s /\ ThreadsOf(r) = {}
      BY <2>1, <2>2
    <3>2. Untouched(r)
      BY <1>3, <3>1 DEF StreamsOf
    <3>3. NumbersGoOn(r)'
      BY <1>1, <1>3, <3>2 DEF Untouched, NumbersGoOn, NextSeq, Reading
    <3>4. ~Judged(s)' /\ ~At(s, "over")'
      BY <2>1 DEF Judged, At
    <3>5. ~done'[r] /\ \A c \in Readers : ~Ended(c, r)'
      BY <1>1, <1>3, <3>2 DEF Untouched, Ended
    <3>6. QED
      BY <3>1, <3>3, <3>4, <3>5 DEF OnlyThread
  <2>3. QED
    BY <2>1, <2>2 DEF StreamsOf
<1>6. QED
  BY <1>2, <1>4, <1>5 DEF StreamInv

(* Only a run with a process can be cancelled, and then it has a thread. *)
LEMMA CancelStreams ==
  ASSUME EngineInv, StreamInv, NEW x \in Cancels, NEW r \in Runs, Cancel(x, r)
  PROVE  StreamInv'
<1>1. UNCHANGED <<thread, bus, reader>>
  BY DEF Cancel
<1>2. /\ cancel' \in [Cancels -> [pc : {"off", "tell", "done"}, run : Runs \cup {None}]]
      /\ \A y \in Cancels \ {x} : cancel'[y] = cancel[y]
      /\ cancel'[x].pc = "done" \/ (is_running(r) /\ cancel'[x].run = r)
  <2>1. PICK a \in [pc : {"off", "tell", "done"}, run : Runs \cup {None}] :
          /\ cancel' = [cancel EXCEPT ![x] = a]
          /\ a.pc = "done" \/ (is_running(r) /\ a.run = r)
    <3>1. PICK told : told = [pc |-> "tell", run |-> r]
      OBVIOUS
    <3>2. /\ told \in [pc : {"off", "tell", "done"}, run : Runs \cup {None}] /\ told.run = r
          /\ Answered \in [pc : {"off", "tell", "done"}, run : Runs \cup {None}]
          /\ Answered.pc = "done"
      BY <3>1 DEF Answered
    <3>3. \/ is_running(r) /\ cancel' = [cancel EXCEPT ![x] = told]
          \/ cancel' = [cancel EXCEPT ![x] = Answered]
      BY <3>1 DEF Cancel
    <3>4. QED
      BY <3>2, <3>3
  <2>2. QED
    BY <2>1 DEF StreamInv, StreamTypes
<1>3. is_running(r) => ThreadsOf(r) # {}
  <2> SUFFICES ASSUME is_running(r) PROVE registry[r] \in ThreadsOf(r)
    OBVIOUS
  <2>1. registry[r] \in Submits /\ RunOf(registry[r]) = r
    BY DEF is_running, EngineInv, ThreadTypes, ThreadInv, RegistryAgrees
  <2>2. QED
    BY <2>1 DEF ThreadsOf
<1>4. StreamTypes'
  BY <1>1, <1>2 DEF StreamInv, StreamTypes, bus
<1>5. ASSUME NEW k \in Runs PROVE StreamsOf(k)'
  <2>1. /\ StreamsOf(k) /\ ThreadsOf(k)' = ThreadsOf(k)
        /\ \A t \in ThreadsOf(k) : (At(t, "over")' <=> At(t, "over")) /\ (Judged(t)' <=> Judged(t))
        /\ history'[k] = history[k] /\ trailing'[k] = trailing[k] /\ done'[k] = done[k]
        /\ reader' = reader
    BY <1>1 DEF StreamInv, ThreadsOf, RunOf, At, Judged, bus
  <2>2. \A y \in Cancels : Telling(y, k)' => Telling(y, k) \/ ThreadsOf(k) # {}
    BY <1>2, <1>3 DEF Telling
  <2>3. QED
    BY <2>1, <2>2, SameStreams
<1>6. QED
  BY <1>4, <1>5 DEF StreamInv

-----------------------------------------------------------------------------
(* The streams.                                                            *)
LEMMA ReaderMoves ==
  ASSUME StreamInv, NEW r \in Runs, NEW c \in Readers, UNCHANGED <<thread, bus, cancel>>,
         \A d \in Readers \ {c} : reader'[d] = reader[d],
         Reading(c, r)' =>
           /\ Untouched(r) => reader'[c].last = 0
           /\ NumbersGoOn(r) => reader'[c].last < NextSeq(history[r])
           /\ VerdictIsKept(r) /\ reader'[c].last >= VerdictEvent(r).seq => reader'[c].verdict,
         Ended(c, r)' => done[r] /\ (VerdictIsKept(r) => reader'[c].verdict)
  PROVE  StreamsOf(r)'
<1>1. /\ StreamsOf(r) /\ ThreadsOf(r)' = ThreadsOf(r) /\ (IsRecent(r)' <=> IsRecent(r))
      /\ \A s \in Submits : (At(s, "over")' <=> At(s, "over")) /\ (Judged(s)' <=> Judged(s))
      /\ \A d \in Readers \ {c} : (Reading(d, r)' <=> Reading(d, r)) /\ (Ended(d, r)' <=> Ended(d, r))
      /\ history'[r] = history[r] /\ done'[r] = done[r] /\ VerdictEvent(r)' = VerdictEvent(r)
      /\ trailing'[r] = trailing[r] /\ \A x \in Cancels : Telling(x, r)' <=> Telling(x, r)
  BY DEF StreamInv, ThreadsOf, RunOf, IsRecent, At, Judged, Reading, Ended, VerdictEvent, bus, Telling
<1>2. Untouched(r) => Untouched(r)'
  BY <1>1 DEF Untouched
<1>3. NumbersGoOn(r) => NumbersGoOn(r)'
  BY <1>1 DEF NumbersGoOn
<1>4. VerdictIsKept(r) => VerdictIsKept(r)'
  BY <1>1 DEF VerdictIsKept
<1>5. ASSUME NEW s \in Submits, ThreadsOf(r)' = {s} PROVE OnlyThread(s, r)'
  <2>1. OnlyThread(s, r)
    BY <1>1, <1>5 DEF StreamsOf
  <2>2. ASSUME NEW d \in Readers, Ended(d, r)'
        PROVE  At(s, "over") /\ (IsRecent(r) => reader'[d].verdict)
    <3>1. CASE d = c
      BY <2>1, <2>2, <3>1 DEF OnlyThread, At, Judged
    <3>2. CASE d # c
      BY <1>1, <2>1, <2>2, <3>2 DEF OnlyThread
    <3>3. QED
      BY <3>1, <3>2
  <2>3. QED
    BY <1>1, <1>3, <1>4, <2>1, <2>2 DEF OnlyThread
<1>6. QED
  BY <1>1, <1>2, <1>5 DEF StreamsOf

LEMMA ReaderStreams ==
  ASSUME StreamInv, NEW c \in Readers,
         Deliver(c) \/ EndOfStream(c) \/ \E r \in Runs : Open(c, r)
  PROVE  StreamInv'
<1>1. UNCHANGED <<thread, bus, cancel>>
  BY DEF Deliver, EndOfStream, Open
<1>2. /\ reader \in [Readers -> [pc : {"off", "reading", "ended"}, run : Runs \cup {None},
                                 last : Nat, verdict : BOOLEAN]]
      /\ history \in [Runs -> Seq(Event)] /\ \A r \in Runs : Ordered(history[r])
      /\ trailing \in [Runs -> Nat]
  BY DEF StreamInv, StreamTypes
<1>3. \A r \in Runs : VerdictIsKept(r) =>
        Len(history[r]) - trailing[r] \in 1..Len(history[r]) /\ VerdictEvent(r).seq \in Nat \ {0}
  <2>1. ASSUME NEW r \in Runs, VerdictIsKept(r)
        PROVE  Len(history[r]) - trailing[r] \in 1..Len(history[r]) /\ VerdictEvent(r).seq \in Nat \ {0}
    <3>1. history[r] \in Seq(Event) /\ trailing[r] \in Nat /\ trailing[r] < Len(history[r])
      BY <1>2, <2>1 DEF VerdictIsKept
    <3>2. Len(history[r]) - trailing[r] \in 1..Len(history[r])
      BY <3>1
    <3>3. VerdictEvent(r) \in Event
      BY <3>1, <3>2 DEF VerdictEvent
    <3>4. QED
      BY <3>2, <3>3 DEF Event
  <2>2. QED
    BY <2>1
<1>4. ASSUME NEW r \in Runs, Open(c, r) PROVE StreamInv'
  <2>1. /\ reader'[c].pc = "reading" /\ reader'[c].run = r /\ reader'[c].last = 0
        /\ \A d \in Readers \ {c} : reader'[d] = reader[d]
    BY <1>2, <1>4 DEF Open, StreamInv, StreamTypes
  <2>2. reader' \in [Readers -> [pc : {"off", "reading", "ended"}, run : Runs \cup {None},
                                 last : Nat, verdict : BOOLEAN]]
    <3>1. [reader[c] EXCEPT !.pc = "reading", !.run = r]
            \in [pc : {"off", "reading", "ended"}, run : Runs \cup {None}, last : Nat, verdict : BOOLEAN]
      BY <1>2
    <3>2. reader' = [reader EXCEPT ![c] = [reader[c] EXCEPT !.pc = "reading", !.run = r]]
      BY <1>4 DEF Open
    <3>3. QED
      BY <1>2, <3>1, <3>2
  <2>3. StreamTypes'
    BY <1>1, <2>1, <2>2 DEF StreamInv, StreamTypes, bus
  <2>4. ASSUME NEW k \in Runs PROVE StreamsOf(k)'
    <3>1. NextSeq(history[k]) \in Nat \ {0}
      BY <1>2, NextNumber
    <3>2. /\ Reading(c, k)' =>
               /\ Untouched(k) => reader'[c].last = 0
               /\ NumbersGoOn(k) => reader'[c].last < NextSeq(history[k])
               /\ VerdictIsKept(k) /\ reader'[c].last >= VerdictEvent(k).seq => reader'[c].verdict
          /\ Ended(c, k)' => done[k] /\ (VerdictIsKept(k) => reader'[c].verdict)
      BY <1>3, <2>1, <3>1 DEF Ended
    <3>3. QED
      BY <1>1, <2>1, <3>2, ReaderMoves
  <2>5. QED
    BY <2>3, <2>4 DEF StreamInv
<1>5. ASSUME Deliver(c) PROVE StreamInv'
  <2>1. PICK r \in Runs : Reading(c, r)
    BY <1>5 DEF Deliver, Reading, StreamInv, StreamTypes
  <2>2. PICK n \in Pending(c) :
          reader' = [reader EXCEPT ![c].last = history[r][n].seq,
                       ![c].verdict = @ \/ \E i \in Pending(c) :
                                             i <= n /\ history[r][i].type \in Verdicts]
    BY <1>5, <2>1 DEF Deliver, Reading
  <2>3. Pending(c) = {i \in 1..Len(history[r]) : history[r][i].seq > reader[c].last}
    BY <1>2, <2>1 DEF Pending, Reading
  <2>4. n \in 1..Len(history[r]) /\ history[r][n].seq \in Nat
    <3>1. n \in 1..Len(history[r]) /\ history[r][n] \in Event
      BY <1>2, <2>3
    <3>2. QED
      BY <3>1 DEF Event
  <2>5. PICK told \in BOOLEAN :
          told = (\E i \in Pending(c) : i <= n /\ history[r][i].type \in Verdicts)
    OBVIOUS
  <2>6. /\ reader'[c].pc = "reading" /\ reader'[c].run = r /\ reader'[c].last = history[r][n].seq
        /\ reader'[c].verdict = (reader[c].verdict \/ told)
        /\ \A d \in Readers \ {c} : reader'[d] = reader[d]
        /\ reader' \in [Readers -> [pc : {"off", "reading", "ended"}, run : Runs \cup {None},
                                    last : Nat, verdict : BOOLEAN]]
    <3>1. PICK v \in BOOLEAN : v = (reader[c].verdict \/ told)
      OBVIOUS
    <3>2. PICK x : x = [reader[c] EXCEPT !.last = history[r][n].seq, !.verdict = v]
      OBVIOUS
    <3>3. /\ x \in [pc : {"off", "reading", "ended"}, run : Runs \cup {None}, last : Nat,
                    verdict : BOOLEAN]
          /\ x.pc = "reading" /\ x.run = r /\ x.last = history[r][n].seq /\ x.verdict = v
      BY <1>2, <2>1, <2>4, <3>2 DEF Reading
    <3>4. reader' = [reader EXCEPT ![c] = x]
      BY <2>2, <2>5, <3>1, <3>2
    <3>5. QED
      BY <1>2, <3>1, <3>3, <3>4
  <2>7. StreamTypes'
    BY <1>1, <2>6 DEF StreamInv, StreamTypes, bus
  <2>8. ~Untouched(r)
    BY <2>4 DEF Untouched
  <2>9. history[r][n].seq < NextSeq(history[r])
    <3>1. history[r] \in Seq(Event) /\ history[r] # <<>> /\ Ordered(history[r])
      BY <1>2, <2>4
    <3>2. /\ Len(history[r]) \in 1..Len(history[r]) /\ history[r][Len(history[r])].seq \in Nat
          /\ NextSeq(history[r]) = history[r][Len(history[r])].seq + 1
      BY <3>1, NextNumber
    <3>3. n = Len(history[r]) \/ history[r][n].seq < history[r][Len(history[r])].seq
      BY <2>4, <3>1, <3>2 DEF Ordered
    <3>4. QED
      BY <2>4, <3>2, <3>3
  <2>10. VerdictIsKept(r) /\ history[r][n].seq >= VerdictEvent(r).seq => reader[c].verdict \/ told
    <3> SUFFICES ASSUME VerdictIsKept(r), history[r][n].seq >= VerdictEvent(r).seq,
                        ~reader[c].verdict
                 PROVE  told
      OBVIOUS
    <3>1. PICK v \in 1..Len(history[r]) : v = Len(history[r]) - trailing[r]
      BY <1>3
    <3>2. history[r][v] = VerdictEvent(r) /\ history[r][v].type \in Verdicts
      BY <3>1 DEF VerdictEvent, VerdictIsKept
    <3>3. ~(reader[c].last >= history[r][v].seq)
      BY <2>1, <3>2 DEF VerdictIsKept
    <3>4. history[r][v].seq > reader[c].last
      BY <1>2, <1>3, <3>2, <3>3
    <3>5. v <= n
      <4>1. ~(n < v)
        BY <1>2, <1>3, <2>4, <3>1, <3>2 DEF Ordered
      <4>2. QED
        BY <2>4, <4>1
    <3>6. QED
      BY <2>3, <2>5, <3>2, <3>4, <3>5
  <2>11. ASSUME NEW k \in Runs PROVE StreamsOf(k)'
    <3>1. /\ Reading(c, k)' => k = r
          /\ ~Ended(c, k)'
      BY <2>6 DEF Reading, Ended
    <3>2. Reading(c, k)' =>
            /\ Untouched(k) => reader'[c].last = 0
            /\ NumbersGoOn(k) => reader'[c].last < NextSeq(history[k])
            /\ VerdictIsKept(k) /\ reader'[c].last >= VerdictEvent(k).seq => reader'[c].verdict
      BY <2>6, <2>8, <2>9, <2>10, <3>1
    <3>3. QED
      BY <1>1, <2>6, <3>1, <3>2, ReaderMoves
  <2>12. QED
    BY <2>7, <2>11 DEF StreamInv
<1>6. ASSUME EndOfStream(c) PROVE StreamInv'
  <2>1. PICK r \in Runs : Reading(c, r)
    BY <1>6 DEF EndOfStream, Reading, StreamInv, StreamTypes
  <2>2. done[r] /\ \A i \in 1..Len(history[r]) : ~(history[r][i].seq > reader[c].last)
    BY <1>2, <1>6, <2>1 DEF EndOfStream, Pending, Reading
  <2>3. /\ reader'[c].pc = "ended" /\ reader'[c].run = r /\ reader'[c].verdict = reader[c].verdict
        /\ \A d \in Readers \ {c} : reader'[d] = reader[d]
        /\ reader' \in [Readers -> [pc : {"off", "reading", "ended"}, run : Runs \cup {None},
                                    last : Nat, verdict : BOOLEAN]]
    BY <1>2, <1>6, <2>1 DEF EndOfStream, Reading
  <2>4. StreamTypes'
    BY <1>1, <2>3 DEF StreamInv, StreamTypes, bus
  <2>5. VerdictIsKept(r) => reader[c].verdict
    <3> SUFFICES ASSUME VerdictIsKept(r) PROVE reader[c].verdict
      OBVIOUS
    <3>1. ~(VerdictEvent(r).seq > reader[c].last)
      BY <1>3, <2>2 DEF VerdictEvent
    <3>2. VerdictEvent(r).seq \in Nat /\ reader[c].last \in Nat
      BY <1>2, <1>3
    <3>3. reader[c].last >= VerdictEvent(r).seq
      BY <3>1, <3>2
    <3>4. QED
      BY <2>1, <3>3 DEF VerdictIsKept
  <2>6. ASSUME NEW k \in Runs PROVE StreamsOf(k)'
    <3>1. /\ ~Reading(c, k)'
          /\ Ended(c, k)' => k = r
      BY <2>3 DEF Reading, Ended
    <3>2. Ended(c, k)' => done[k] /\ (VerdictIsKept(k) => reader'[c].verdict)
      BY <2>2, <2>3, <2>5, <3>1
    <3>3. QED
      BY <1>1, <2>3, <3>1, <3>2, ReaderMoves
  <2>7. QED
    BY <2>4, <2>6 DEF StreamInv
<1>7. QED
  BY <1>4, <1>5, <1>6

-----------------------------------------------------------------------------
LEMMA InitStreams == Init => StreamInv
<1> SUFFICES ASSUME Init PROVE StreamInv
  OBVIOUS
<1>1. /\ \A r \in Runs : history[r] = <<>> /\ ~done[r] /\ trailing[r] = 0
      /\ \A c \in Readers : /\ reader[c].pc = "off" /\ reader[c].run = None /\ reader[c].last = 0
      /\ \A x \in Cancels : cancel[x].pc = "off"
      /\ \A s \in Submits : RunOf(s) = None
  BY DEF Init, RunOf
<1>2. <<>> \in Seq(Event) /\ Ordered(<<>>)
  BY BoundsAssumption DEF Ordered
<1>3. StreamTypes
  BY <1>2 DEF Init, StreamTypes
<1>4. ASSUME NEW r \in Runs PROVE StreamsOf(r)
  <2>1. ThreadsOf(r) = {}
    BY <1>1, NoneAssumption DEF ThreadsOf
  <2>2. Untouched(r)
    BY <1>1 DEF Untouched, Telling, Ended, Reading
  <2>3. QED
    BY <2>1, <2>2 DEF StreamsOf
<1>5. QED
  BY <1>3, <1>4 DEF StreamInv

LEMMA StreamStepKeeps == EngineInv /\ BusInv /\ StreamInv /\ [Next]_vars => StreamInv'
<1> SUFFICES ASSUME EngineInv, BusInv, StreamInv, [Next]_vars PROVE StreamInv'
  OBVIOUS
<1>1. ASSUME NEW s \in Submits, Spawn(s) \/ Register(s) \/ Timeout(s) \/ Pop(s) PROVE StreamInv'
  <2>1. PICK p \in {"register", "wait", "killed", "close"} :
          To(s, p) /\ (p = "close" <=> At(s, "pop"))
    BY <1>1 DEF Spawn, Register, Timeout, Pop, At
  <2>2. /\ thread[s].pc \in {"spawn", "register", "wait", "pop"} /\ UNCHANGED <<bus, reader, cancel>>
        /\ p \in ThreadPC
    BY <1>1 DEF Spawn, Register, Timeout, Pop, At, ThreadPC
  <2>3. thread[s].pc # "over" /\ p # "over" /\ (Judged(s) <=> p \in {"pop", "close"})
    BY <2>1, <2>2 DEF Judged, At
  <2>4. QED
    BY <2>1, <2>2, <2>3, QuietThread
<1>2. ASSUME NEW s \in Submits, ThreadStep(s) PROVE StreamInv'
  BY <1>1, <1>2, AnnounceStreams, VerdictStreams, CloseStreams DEF ThreadStep
<1>3. ASSUME NEW s \in Submits, NEW r \in Runs, Submit(s, r) PROVE StreamInv'
  BY <1>3, SubmitStreams
<1>4. ASSUME NEW x \in Cancels, NEW r \in Runs, Cancel(x, r) PROVE StreamInv'
  BY <1>4, CancelStreams
<1>5. CASE (\E s \in Submits : ingest_step(s)) \/ (\E x \in Cancels : CancelTell(x))
  BY <1>5, LateStreams
<1>6. CASE (\E s \in Submits : Exit(s) \/ LetGo(s)) \/ UNCHANGED vars
  <2>1. UNCHANGED <<thread, bus, reader, cancel>>
    BY <1>6 DEF Exit, LetGo, vars
  <2>2. StreamTypes'
    BY <2>1 DEF StreamInv, StreamTypes, bus
  <2>3. ASSUME NEW k \in Runs PROVE StreamsOf(k)'
    <3>1. /\ StreamsOf(k) /\ ThreadsOf(k)' = ThreadsOf(k)
          /\ \A t \in ThreadsOf(k) : (At(t, "over")' <=> At(t, "over")) /\ (Judged(t)' <=> Judged(t))
          /\ \A x \in Cancels : Telling(x, k)' => Telling(x, k)
          /\ history'[k] = history[k] /\ trailing'[k] = trailing[k] /\ done'[k] = done[k]
          /\ reader' = reader
      BY <2>1 DEF StreamInv, ThreadsOf, RunOf, At, Judged, Telling, bus
    <3>2. QED
      BY <3>1, SameStreams
  <2>4. QED
    BY <2>2, <2>3 DEF StreamInv
<1>7. CASE \E c \in Readers : Deliver(c) \/ EndOfStream(c) \/ \E r \in Runs : Open(c, r)
  BY <1>7, ReaderStreams
<1>8. QED
  BY <1>2, <1>3, <1>4, <1>5, <1>6, <1>7 DEF Next

(* A stream of a run that was submitted once does not end without the      *)
(* verdict of the run, however streams break and are opened again, keys    *)
(* are evicted and events are dropped, unless MAX_EVENTS_PER_KEY others    *)
(* were emitted after it.                                                  *)
THEOREM StreamsEndWithVerdict == Spec => []EndedStreamHasVerdict
<1>1. Spec => []EngineInv
  BY InitThreads, StepKeeps, PTL DEF Spec
<1>2. Spec => []BusInv
  BY <1>1, InitBus, BusStepKeeps, PTL DEF Spec
<1>3. Spec => []StreamInv
  BY <1>1, <1>2, InitStreams, StreamStepKeeps, PTL DEF Spec
<1>4. StreamInv => EndedStreamHasVerdict
  <2> SUFFICES ASSUME StreamInv, NEW c \in Readers, reader[c].pc = "ended",
                      HasOneThread(reader[c].run), IsRecent(reader[c].run)
               PROVE  reader[c].verdict
    BY DEF EndedStreamHasVerdict, IsRecent
  <2>1. reader[c].run \in Runs
    BY DEF StreamInv, StreamTypes
  <2>2. PICK s \in Submits : ThreadsOf(reader[c].run) = {s}
    BY DEF HasOneThread
  <2>3. OnlyThread(s, reader[c].run)
    BY <2>1, <2>2 DEF StreamInv, StreamsOf
  <2>4. QED
    BY <2>3 DEF OnlyThread, Ended
<1>5. QED
  BY <1>3, <1>4, PTL
=============================================================================
