----------------------------- MODULE EngineRuns -----------------------------
(***************************************************************************)
(* The runs of the engine service: POST /execute, the worker thread of a   *)
(* run and its pytest process (engine/service/main.py, execution.py), and  *)
(* the event bus its streams read (eventbus.py).  Handlers and threads     *)
(* interleave everywhere except in a section that holds a lock, which is   *)
(* one step.  A process is pytest with the children it starts, which share  *)
(* its process group and its output pipe.                                  *)
(***************************************************************************)
EXTENDS Naturals, Sequences, FiniteSets

CONSTANTS
  Runs,     \* run ids
  Submits,  \* POST /execute requests, numbered in the order they arrive; a thread
            \* and its process are named after their request
  Cancels,  \* POST /executions/{run}/cancel requests
  Readers,  \* SSE streams
  MAX_EVENTS_PER_KEY, MAX_CLOSED_KEYS,
  Steps,    \* bound: step events a process posts
  None

ASSUME BoundsAssumption ==
  MAX_EVENTS_PER_KEY \in Nat \ {0} /\ MAX_CLOSED_KEYS \in Nat \ {0} /\ Steps \in Nat
ASSUME SubmitsAssumption == Submits \subseteq Nat
ASSUME NoneAssumption == None \notin Runs \cup Submits

VARIABLES
  thread,     \* a request and its worker thread: progress and run
  process,    \* its process
  steps,      \* step events of the process ingested so far
  registry,   \* _RUNS: the submit whose process a run is registered with
  history,    \* _HISTORY
  done,       \* _DONE
  closed,     \* _CLOSED_ORDER
  trailing,   \* events of a run emitted since its latest verdict (history)
  reader,     \* streams: progress, run, last number, whether a verdict was read
  cancel,     \* cancel requests: progress and run
  overlapped  \* runs submitted again before an earlier thread was over (history)

bus == <<history, done, closed, trailing>>
vars == <<thread, process, steps, registry, bus, reader, cancel, overlapped>>

Verdicts == {"completed", "error", "timed_out"}
Event == [seq : Nat \ {0}, type : {"running", "step", "cancelled"} \cup Verdicts]

ThreadPC ==
  {"off", "duplicate", "prepare", "spawn", "register", "wait", "killed", "pop", "close", "over"}

(* "alive" and "dying" (sent SIGTERM) are said of pytest itself; "held":     *)
(* pytest is gone and a child of it keeps the pipe open; "dead": nobody has *)
(* the pipe.                                                               *)
ProcessStates == {"none", "alive", "dying", "held", "dead"}

TypeOK ==
  /\ thread \in [Submits -> [pc : ThreadPC, run : Runs \cup {None}]]
  /\ process \in [Submits -> ProcessStates]
  /\ steps \in [Submits -> 0..Steps]
  /\ registry \in [Runs -> Submits \cup {None}]
  /\ history \in [Runs -> Seq(Event)]
  /\ done \in [Runs -> BOOLEAN]
  /\ closed \in Seq(Runs)
  /\ trailing \in [Runs -> Nat]
  /\ reader \in [Readers -> [pc : {"off", "reading", "ended"}, run : Runs \cup {None},
                             last : Nat, verdict : BOOLEAN]]
  /\ cancel \in [Cancels -> [pc : {"off", "tell", "done"}, run : Runs \cup {None}]]
  /\ overlapped \subseteq Runs

Init ==
  /\ thread = [s \in Submits |-> [pc |-> "off", run |-> None]]
  /\ process = [s \in Submits |-> "none"]
  /\ steps = [s \in Submits |-> 0]
  /\ registry = [r \in Runs |-> None]
  /\ history = [r \in Runs |-> <<>>]
  /\ done = [r \in Runs |-> FALSE]
  /\ closed = <<>>
  /\ trailing = [r \in Runs |-> 0]
  /\ reader = [c \in Readers |-> [pc |-> "off", run |-> None, last |-> 0, verdict |-> FALSE]]
  /\ cancel = [x \in Cancels |-> [pc |-> "off", run |-> None]]
  /\ overlapped = {}

-----------------------------------------------------------------------------
(* The event bus.                                                          *)

(* Mutant: the newest events are dropped beyond the bound. *)
Retained_Oldest(h) ==
  IF Len(h) > MAX_EVENTS_PER_KEY THEN SubSeq(h, 1, MAX_EVENTS_PER_KEY) ELSE h

(* del hist[: len(hist) - MAX_EVENTS_PER_KEY].                             *)
Retained(h) ==
  IF Len(h) > MAX_EVENTS_PER_KEY
  THEN SubSeq(h, Len(h) - MAX_EVENTS_PER_KEY + 1, Len(h))
  ELSE h

(* Mutant: events are numbered from zero. *)
NextSeq_FromZero(h) == IF h = <<>> THEN 0 ELSE h[Len(h)].seq + 1
NextSeq(h) == IF h = <<>> THEN 1 ELSE h[Len(h)].seq + 1

(* emit(): an event for a key that is closed or evicted is taken as well.  *)
Emit(r, type) ==
  /\ history' = [history EXCEPT ![r] =
                   Retained(Append(@, [seq |-> NextSeq(@), type |-> type]))]
  /\ trailing' = [trailing EXCEPT ![r] = IF type \in Verdicts THEN 0 ELSE @ + 1]
  /\ UNCHANGED <<done, closed>>

(* Mutant: the flag of an evicted key stays. *)
CloseKey_KeepsFlag(r) ==
  IF done[r]
  THEN UNCHANGED bus
  ELSE LET order == Append(closed, r)
           out   == IF Len(order) > MAX_CLOSED_KEYS THEN {Head(order)} \ {r} ELSE {}
       IN  /\ closed' = IF Len(order) > MAX_CLOSED_KEYS THEN Tail(order) ELSE order
           /\ done' = [done EXCEPT ![r] = TRUE]
           /\ history' = [k \in Runs |-> IF k \in out THEN <<>> ELSE history[k]]
           /\ UNCHANGED trailing

(* close(): the first close of a key queues it for eviction, and evicts the *)
(* oldest closed key when there are too many.                               *)
CloseKey(r) ==
  IF done[r]
  THEN UNCHANGED bus
  ELSE LET order == Append(closed, r)
           out   == IF Len(order) > MAX_CLOSED_KEYS THEN {Head(order)} \ {r} ELSE {}
       IN  /\ closed' = IF Len(order) > MAX_CLOSED_KEYS THEN Tail(order) ELSE order
           /\ done' = [k \in Runs |-> (done[k] \/ k = r) /\ k \notin out]
           /\ history' = [k \in Runs |-> IF k \in out THEN <<>> ELSE history[k]]
           /\ UNCHANGED trailing

-----------------------------------------------------------------------------
(* POST /execute and the worker thread.                                    *)

RunOf(s) == thread[s].run
At(s, pc) == thread[s].pc = pc
To(s, pc) == thread' = [thread EXCEPT ![s].pc = pc]

ThreadsOf(r) == {s \in Submits : RunOf(s) = r}

(* poll() asks after pytest itself. *)
Live(s) == process[s] \in {"alive", "dying"}

is_running(r) == registry[r] # None /\ Live(registry[r])

(* execute(): a run with a live process is a duplicate, any other gets a   *)
(* thread.                                                                 *)
Submit(s, r) ==
  /\ At(s, "off")
  /\ \A t \in Submits : t < s => ~At(t, "off")
  /\ thread' = [thread EXCEPT ![s] =
                  IF is_running(r) THEN [pc |-> "duplicate", run |-> None]
                  ELSE [pc |-> "prepare", run |-> r]]
  /\ overlapped' = IF ~is_running(r) /\ \E t \in ThreadsOf(r) : ~At(t, "over")
                   THEN overlapped \cup {r} ELSE overlapped
  /\ UNCHANGED <<process, steps, registry, bus, reader, cancel>>

(* The files or the framework are not in order, or pytest does not start:   *)
(* an exception is reported as an error.                                    *)
Fail(s) ==
  /\ thread[s].pc \in {"prepare", "spawn"}
  /\ Emit(RunOf(s), "error")
  /\ To(s, "pop")
  /\ UNCHANGED <<process, steps, registry, reader, cancel, overlapped>>

(* The files are in the workspace.  The events for `preparing`, which no    *)
(* consumer acts on, are left out.                                          *)
Announce(s) ==
  /\ At(s, "prepare")
  /\ Emit(RunOf(s), "running")
  /\ To(s, "spawn")
  /\ UNCHANGED <<process, steps, registry, reader, cancel, overlapped>>

Spawn(s) ==
  /\ At(s, "spawn")
  /\ process' = [process EXCEPT ![s] = "alive"]
  /\ To(s, "register")
  /\ UNCHANGED <<steps, registry, bus, reader, cancel, overlapped>>

Register(s) ==
  /\ At(s, "register")
  /\ registry' = [registry EXCEPT ![RunOf(s)] = s]
  /\ To(s, "wait")
  /\ UNCHANGED <<process, steps, bus, reader, cancel, overlapped>>

(* proc.communicate(timeout) returns once pytest has exited and its pipe is *)
(* closed: the verdict by the JUnit report, an error if there is none, ...  *)
Report(s) ==
  /\ At(s, "wait")
  /\ process[s] = "dead"
  /\ Emit(RunOf(s), "completed") \/ Emit(RunOf(s), "error")
  /\ To(s, "pop")
  /\ UNCHANGED <<process, steps, registry, reader, cancel, overlapped>>

Killed(p) == IF p = "alive" THEN "dying" ELSE p

(* ... or raises: then the group is terminated and waited for again, with   *)
(* no timeout.                                                             *)
Timeout(s) ==
  /\ At(s, "wait")
  /\ process' = [process EXCEPT ![s] = Killed(@)]
  /\ To(s, "killed")
  /\ UNCHANGED <<steps, registry, bus, reader, cancel, overlapped>>

(* Mutant: the thread does not wait for the group it has terminated. *)
Reap_NotAwaited(s) ==
  /\ At(s, "killed")
  /\ Emit(RunOf(s), "timed_out")
  /\ To(s, "pop")
  /\ UNCHANGED <<process, steps, registry, reader, cancel, overlapped>>

(* The verdict of a run that was timed out, or of an exception on the way. *)
Reap(s) ==
  /\ At(s, "killed")
  /\ process[s] = "dead"
  /\ Emit(RunOf(s), "timed_out") \/ Emit(RunOf(s), "error")
  /\ To(s, "pop")
  /\ UNCHANGED <<process, steps, registry, reader, cancel, overlapped>>

(* finally: the run leaves the registry, whichever process is in it, and   *)
(* its key is closed.                                                      *)
Pop(s) ==
  /\ At(s, "pop")
  /\ registry' = [registry EXCEPT ![RunOf(s)] = None]
  /\ To(s, "close")
  /\ UNCHANGED <<process, steps, bus, reader, cancel, overlapped>>

(* Mutant: an error leaves the key open. *)
Close_OnlyVerdict(s) ==
  /\ At(s, "close")
  /\ IF process[s] = "none" THEN UNCHANGED bus ELSE CloseKey(RunOf(s))
  /\ To(s, "over")
  /\ UNCHANGED <<process, steps, registry, reader, cancel, overlapped>>

Close(s) ==
  /\ At(s, "close")
  /\ CloseKey(RunOf(s))
  /\ To(s, "over")
  /\ UNCHANGED <<process, steps, registry, reader, cancel, overlapped>>

ThreadStep(s) ==
  \/ Fail(s) \/ Announce(s) \/ Spawn(s) \/ Register(s)
  \/ Report(s) \/ Timeout(s) \/ Reap(s) \/ Pop(s) \/ Close(s)

-----------------------------------------------------------------------------
(* The process posts steps from a thread of its own, so one may arrive      *)
(* after the process is gone.                                               *)
ingest_step(s) ==
  /\ process[s] # "none"
  /\ steps[s] < Steps
  /\ steps' = [steps EXCEPT ![s] = @ + 1]
  /\ Emit(RunOf(s), "step")
  /\ UNCHANGED <<thread, process, registry, reader, cancel, overlapped>>

(* pytest ends, with its children or without.                              *)
Exit(s) ==
  /\ Live(s)
  /\ \E p \in {"dead", "held"} : process' = [process EXCEPT ![s] = p]
  /\ UNCHANGED <<thread, steps, registry, bus, reader, cancel, overlapped>>

(* The last child lets go of the pipe.  Nobody makes it: _force_kill()      *)
(* sends SIGKILL only while pytest itself is there.                         *)
LetGo(s) ==
  /\ process[s] = "held"
  /\ process' = [process EXCEPT ![s] = "dead"]
  /\ UNCHANGED <<thread, steps, registry, bus, reader, cancel, overlapped>>

-----------------------------------------------------------------------------
(* cancel_execution().                                                     *)

Answered == [pc |-> "done", run |-> None]

(* The process is found and terminated; that it may exit in between is no   *)
(* different from its exit afterwards.                                      *)
Cancel(x, r) ==
  /\ cancel[x].pc = "off"
  /\ IF is_running(r)
     THEN /\ cancel' = [cancel EXCEPT ![x] = [pc |-> "tell", run |-> r]]
          /\ process' = [process EXCEPT ![registry[r]] = Killed(@)]
     ELSE cancel' = [cancel EXCEPT ![x] = Answered] /\ UNCHANGED process
  /\ UNCHANGED <<thread, steps, registry, bus, reader, overlapped>>

CancelTell(x) ==
  /\ cancel[x].pc = "tell"
  /\ Emit(cancel[x].run, "cancelled")
  /\ cancel' = [cancel EXCEPT ![x] = Answered]
  /\ UNCHANGED <<thread, process, steps, registry, reader, overlapped>>

-----------------------------------------------------------------------------
(* stream().                                                               *)

Open(c, r) ==
  /\ reader[c].pc = "off"
  /\ reader' = [reader EXCEPT ![c].pc = "reading", ![c].run = r]
  /\ UNCHANGED <<thread, process, steps, registry, bus, cancel, overlapped>>

(* The places in the history of what is after the last number.             *)
Pending(c) ==
  {i \in DOMAIN history[reader[c].run] : history[reader[c].run][i].seq > reader[c].last}

(* Everything that is pending is delivered in the order of the history; a   *)
(* connection that breaks before has delivered a part, and is opened again  *)
(* with from_seq.                                                           *)
Deliver(c) ==
  /\ reader[c].pc = "reading"
  /\ \E n \in Pending(c) :
       LET h == history[reader[c].run]
       IN  reader' = [reader EXCEPT ![c].last = h[n].seq,
                        ![c].verdict = @ \/ \E i \in Pending(c) : i <= n /\ h[i].type \in Verdicts]
  /\ UNCHANGED <<thread, process, steps, registry, bus, cancel, overlapped>>

EndOfStream(c) ==
  /\ reader[c].pc = "reading"
  /\ Pending(c) = {}
  /\ done[reader[c].run]
  /\ reader' = [reader EXCEPT ![c].pc = "ended"]
  /\ UNCHANGED <<thread, process, steps, registry, bus, cancel, overlapped>>

-----------------------------------------------------------------------------
Next ==
  \/ \E s \in Submits :
       \/ ThreadStep(s) \/ ingest_step(s) \/ Exit(s) \/ LetGo(s)
       \/ \E r \in Runs : Submit(s, r)
  \/ \E x \in Cancels :
       \/ CancelTell(x)
       \/ \E r \in Runs : Cancel(x, r)
  \/ \E c \in Readers :
       \/ Deliver(c) \/ EndOfStream(c)
       \/ \E r \in Runs : Open(c, r)

Spec == Init /\ [][Next]_vars

(* Threads run on and streams are read.  The tests may hang, but a pytest   *)
(* that was terminated is gone in the end (SIGKILL after the grace period); *)
(* its children are under no fairness, before or after.                     *)
Fairness ==
  /\ \A s \in Submits : WF_vars(ThreadStep(s)) /\ WF_vars(process[s] = "dying" /\ Exit(s))
  /\ \A c \in Readers : WF_vars(Deliver(c) \/ EndOfStream(c))

FairSpec == Spec /\ Fairness

-----------------------------------------------------------------------------
(* Unless a run was submitted again while a thread of it was not over, it   *)
(* has at most one live pytest, which cancel_execution() can reach as soon  *)
(* as its thread waits for it, and a thread that has given its verdict      *)
(* leaves no pytest behind.                                                 *)
LiveProcessIsReachable ==
  \A s \in Submits :
    Live(s) /\ RunOf(s) \notin overlapped =>
      /\ thread[s].pc \in {"register", "wait", "killed"}
      /\ thread[s].pc # "register" => registry[RunOf(s)] = s
      /\ \A t \in Submits \ {s} : RunOf(t) = RunOf(s) => ~Live(t)

(* Why: a registered process is that of a thread of the run which waits or  *)
(* is about to deregister it; a process lives only while its thread waits;  *)
(* and a run that is not overlapped has one thread that is not over.        *)
Current(s) == RunOf(s) # None /\ ~At(s, "over")

RunsAreNamed ==
  \A s \in Submits : thread[s].pc \in {"off", "duplicate"} <=> RunOf(s) = None

RegistryAgrees ==
  \A r \in Runs :
    registry[r] # None =>
      RunOf(registry[r]) = r /\ thread[registry[r]].pc \in {"wait", "killed", "pop"}

LivesWhileAwaited ==
  \A s \in Submits : Live(s) => thread[s].pc \in {"register", "wait", "killed"}

OneCurrent ==
  \A s, t \in Submits :
    Current(s) /\ Current(t) /\ RunOf(s) = RunOf(t) /\ RunOf(s) \notin overlapped => s = t

AwaitedIsRegistered ==
  \A s \in Submits :
    thread[s].pc \in {"wait", "killed"} /\ RunOf(s) \notin overlapped => registry[RunOf(s)] = s

ThreadInv ==
  RunsAreNamed /\ RegistryAgrees /\ LivesWhileAwaited /\ OneCurrent /\ AwaitedIsRegistered

(* The eviction queue holds each closed key once and no other, and never    *)
(* more than MAX_CLOSED_KEYS: "Memory is bounded" (eventbus.py:13).         *)
ClosedKeysAreQueued ==
  /\ Len(closed) <= MAX_CLOSED_KEYS
  /\ \A i, j \in DOMAIN closed : closed[i] = closed[j] => i = j
  /\ {r \in Runs : done[r]} = {closed[i] : i \in DOMAIN closed}

(* A stream of a run that was submitted once has delivered its verdict when *)
(* it ends, although events are dropped, the connection breaks, steps and   *)
(* cancellations are emitted after the verdict, and keys are evicted;       *)
(* unless as many events followed the verdict as the bus retains.           *)
HasOneThread(r) == \E s \in Submits : ThreadsOf(r) = {s}
EndedStreamHasVerdict ==
  \A c \in Readers :
    LET r == reader[c].run
    IN  reader[c].pc = "ended" /\ HasOneThread(r) /\ trailing[r] < MAX_EVENTS_PER_KEY =>
          reader[c].verdict

(* A key that was closed is missing only after as many later ones closed.   *)
Evicted(r) ==
  (\A s \in ThreadsOf(r) : At(s, "over")) /\ ~done[r] /\ Len(closed) = MAX_CLOSED_KEYS

(* A child outlives the pytest of the run and keeps the pipe open.          *)
HeldOpen(r) == \E s \in ThreadsOf(r) : process[s] = "held"

(* "SSE consumers never hang on a crashed worker" (execution.py:10): once a *)
(* run has a thread its streams end, even when its tests hang, unless its   *)
(* key has been evicted by then or a child of its pytest keeps the pipe     *)
(* open for good, which neither a timeout nor a cancel can end.             *)
EveryStreamEnds ==
  \A c \in Readers : \A r \in Runs :
    [](reader[c].pc = "reading" /\ reader[c].run = r /\ ThreadsOf(r) # {} =>
         <>(reader[c].pc = "ended" \/ Evicted(r)) \/ <>[]HeldOpen(r))

-----------------------------------------------------------------------------
(* execution.py:13: a run already executing "is refused instead of silently *)
(* starting a second, uncancellable subprocess".                            *)
NoSecondProcess ==
  \A s, t \in Submits : Live(s) /\ Live(t) /\ RunOf(s) = RunOf(t) => s = t
=============================================================================
