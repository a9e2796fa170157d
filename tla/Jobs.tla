-------------------------------- MODULE Jobs --------------------------------
(***************************************************************************)
(* The generation jobs of the backend: JobsService                         *)
(* (modules/jobs/jobs.service.ts), called by the generate() methods, whose *)
(* workers are given by the sequence of their awaits.                      *)
(*                                                                         *)
(* execute() and its worker share one Job object in memory; cancel() loads *)
(* another.  Every save writes a whole object over the stored row.  Code   *)
(* between two awaits is atomic.                                           *)
(***************************************************************************)
EXTENDS StateMachines, Sequences, FiniteSets, Bags

CONSTANTS
  Calls,     \* generate() requests; a job is named after the call that inserts it
  Cancels,   \* cancel() requests
  SameKey,   \* calls that carry one and the same Idempotency-Key
  Script,    \* the awaits of a worker, in order
  NoCall

ASSUME CallsAssumption == NoCall \notin Calls
ASSUME SameKeyAssumption == SameKey \subseteq Calls

(* Look-ups and engine calls ("call"), ctx.log, ctx.checkpoint, and the    *)
(* rows it writes ("save").                                                *)
ASSUME ScriptAssumption ==
  Script \in Seq({"call", "log", "checkpoint", "save"}) /\ Script # <<>>

VARIABLES
  job,        \* the stored jobs: status, cancelRequested, retryOfJobId
  call,       \* generate(): progress, the job it got, the job it retries
  object,     \* the Job object of a call's execution
  exec,       \* execute(): progress and outcome
  worker,     \* the worker: its next step (0 if it does not run), the log entry under way
  abort,      \* the abort latch of an execution
  logSeq,     \* the map of last log numbers; 0 where there is no entry
  logs,       \* bag of the numbers of the persisted log entries
  artefacts,  \* rows the worker of a call has written
  request,    \* cancel(): progress and Job object
  crashed     \* an unhandled rejection ended the process

vars == <<job, call, object, exec, worker, abort, logSeq, logs, artefacts, request, crashed>>

NoJob == [status |-> "absent", cancel |-> FALSE, retryOf |-> NoCall]
Job == [status : JobStatus, cancel : BOOLEAN, retryOf : Calls \cup {NoCall}]

Outcomes == {"completed", "cancelled", "failed", "timed_out"}

Stored(j) == job[j].status # "absent"
Settled(j) == Stored(j) /\ IsTerminalJob(job[j].status)
Save(j, o) == job' = [job EXCEPT ![j] = o]

CallPC == {"off", "insert", "dispatch", "link", "done"}
ExecPC == {"off", "progress", "race", "settle", "closing", "notify", "over"}
RequestPC == {"off", "check", "log", "finish", "refused", "done"}

TypeOK ==
  /\ job \in [Calls -> Job \cup {NoJob}]
  /\ call \in [Calls -> [pc : CallPC, job : Calls \cup {NoCall}, retryOf : Calls \cup {NoCall}]]
  /\ object \in [Calls -> Job \cup {NoJob}]
  /\ exec \in [Calls -> [pc : ExecPC, outcome : Outcomes \cup {"none"}]]
  /\ worker \in [Calls -> [at : 0..Len(Script), seq : Nat]]
  /\ abort \in [Calls -> BOOLEAN]
  /\ logSeq \in [Calls -> Nat]
  /\ \A j \in Calls : IsABag(logs[j]) /\ BagToSet(logs[j]) \subseteq Nat
  /\ artefacts \in [Calls -> Nat]
  /\ request \in [Cancels -> [pc : RequestPC, id : Calls \cup {NoCall},
                              job : Job \cup {NoJob}]]
  /\ crashed \in BOOLEAN

Init ==
  /\ job = [j \in Calls |-> NoJob]
  /\ call = [c \in Calls |-> [pc |-> "off", job |-> NoCall, retryOf |-> NoCall]]
  /\ object = [c \in Calls |-> NoJob]
  /\ exec = [c \in Calls |-> [pc |-> "off", outcome |-> "none"]]
  /\ worker = [c \in Calls |-> [at |-> 0, seq |-> 0]]
  /\ abort = [c \in Calls |-> FALSE]
  /\ logSeq = [j \in Calls |-> 0]
  /\ logs = [j \in Calls |-> EmptyBag]
  /\ artefacts = [c \in Calls |-> 0]
  /\ request = [q \in Cancels |-> [pc |-> "off", id |-> NoCall, job |-> NoJob]]
  /\ crashed = FALSE

-----------------------------------------------------------------------------
(* log(): the next number is taken at once; the entry and the whole Job    *)
(* object are saved later.  Only a worker's entry can be under way while   *)
(* the rest of its job goes on; the entries of execute() and cancel() are  *)
(* one step.                                                               *)
NextSeq(j) == logSeq[j] + 1
TakeSeq(j) == logSeq' = [logSeq EXCEPT ![j] = NextSeq(j)]

(* Mutant: the entry is saved with the copy the worker was handed. *)
Persist_OwnCopy(j, seq, o) ==
  logs' = [logs EXCEPT ![j] = @ (+) SetToBag({seq})] /\ Save(j, [o EXCEPT !.status = "running"])
Persist(j, seq, o) == logs' = [logs EXCEPT ![j] = @ (+) SetToBag({seq})] /\ Save(j, o)
Log(j, o) == TakeSeq(j) /\ Persist(j, NextSeq(j), o)

-----------------------------------------------------------------------------
(* generate() and retry().                                                 *)

JobOf(c) == call[c].job
To(c, pc, j) == call' = [call EXCEPT ![c].pc = pc, ![c].job = j]

(* create(): a call with a key takes the job that already has it; a job    *)
(* made by a retry has none.                                               *)
Lookup(c) ==
  /\ call[c].pc = "off"
  /\ LET twins == {j \in SameKey : c \in SameKey /\ Stored(j) /\ call[j].retryOf = NoCall}
     IN  IF twins = {}
         THEN To(c, "insert", c) /\ UNCHANGED object
         ELSE \E j \in twins :
                To(c, "dispatch", j) /\ object' = [object EXCEPT ![c] = job[j]]
  /\ UNCHANGED <<job, exec, worker, abort, logSeq, logs, artefacts, request, crashed>>

(* retry(): a finished job is submitted again, without a key.              *)
Retry(c, j) ==
  /\ call[c].pc = "off"
  /\ Settled(j)
  /\ call' = [call EXCEPT ![c] = [pc |-> "insert", job |-> c, retryOf |-> j]]
  /\ UNCHANGED <<job, object, exec, worker, abort, logSeq, logs, artefacts, request, crashed>>

(* Mutant: a status the transition map does not know. *)
Queued_Pending == [status |-> "pending", cancel |-> FALSE, retryOf |-> NoCall]

Queued == [status |-> "queued", cancel |-> FALSE, retryOf |-> NoCall]

Insert(c) ==
  /\ call[c].pc = "insert"
  /\ Save(c, Queued)
  /\ object' = [object EXCEPT ![c] = Queued]
  /\ To(c, "dispatch", c)
  /\ UNCHANGED <<exec, worker, abort, logSeq, logs, artefacts, request, crashed>>

(* The audit record is awaited, then execute() runs up to its first await. *)
(* It is called without a handler: a refused transition is an unhandled    *)
(* rejection.                                                              *)
Dispatch(c) ==
  /\ call[c].pc = "dispatch"
  /\ To(c, IF call[c].retryOf = NoCall THEN "done" ELSE "link", JobOf(c))
  /\ IF CanTransition(JobTransitions, object[c].status, "running")
     THEN LET o == [object[c] EXCEPT !.status = "running"]
          IN  /\ object' = [object EXCEPT ![c] = o]
              /\ Save(JobOf(c), o)
              /\ exec' = [exec EXCEPT ![c].pc = "progress"]
              /\ UNCHANGED crashed
     ELSE crashed' = TRUE /\ UNCHANGED <<job, object, exec>>
  /\ UNCHANGED <<worker, abort, logSeq, logs, artefacts, request>>

(* retry() links the new job by an update of that column alone.            *)
Link(c) ==
  /\ call[c].pc = "link"
  /\ To(c, "done", JobOf(c))
  /\ job' = [job EXCEPT ![c].retryOf = call[c].retryOf]
  /\ UNCHANGED <<object, exec, worker, abort, logSeq, logs, artefacts, request, crashed>>

-----------------------------------------------------------------------------
(* execute() of the job of call c.                                         *)

ExecAt(c, pc) == exec[c].pc = pc
ExecTo(c, pc) == exec' = [exec EXCEPT ![c].pc = pc]

(* The row is saved with its progress, the start is logged, the timer is   *)
(* armed and the worker called.                                            *)
StartWorker(c) ==
  /\ ExecAt(c, "progress")
  /\ Log(JobOf(c), object[c])
  /\ ExecTo(c, "race")
  /\ worker' = [worker EXCEPT ![c].at = 1]
  /\ UNCHANGED <<call, object, abort, artefacts, request, crashed>>

(* Mutants: an answer counts although the timer has fired; the abort is    *)
(* not latched.                                                            *)
Decide_LateAnswer(c, outcome) ==
  IF exec[c].pc \in {"race", "settle"}
  THEN /\ exec' = [exec EXCEPT ![c].pc = "settle", ![c].outcome = outcome]
       /\ abort' = [abort EXCEPT ![c] = outcome # "completed"]
  ELSE UNCHANGED <<exec, abort>>
Decide_NoAbort(c, outcome) ==
  IF ExecAt(c, "race")
  THEN exec' = [exec EXCEPT ![c].pc = "settle", ![c].outcome = outcome] /\ UNCHANGED abort
  ELSE UNCHANGED <<exec, abort>>

(* Promise.race: the first of worker and timer decides; a later answer of  *)
(* the worker is ignored.  Any outcome but success latches the abort.      *)
Decide(c, outcome) ==
  IF ExecAt(c, "race")
  THEN /\ exec' = [exec EXCEPT ![c].pc = "settle", ![c].outcome = outcome]
       /\ abort' = [abort EXCEPT ![c] = outcome # "completed"]
  ELSE UNCHANGED <<exec, abort>>

(* Mutant: the timer is not armed. *)
Timeout_Never(c) == FALSE /\ UNCHANGED vars

Timeout(c) ==
  /\ ExecAt(c, "race")
  /\ Decide(c, "timed_out")
  /\ UNCHANGED <<job, call, object, worker, logSeq, logs, artefacts, request, crashed>>

(* setStatus(outcome).                                                     *)
Settle(c) ==
  LET o == [object[c] EXCEPT !.status = exec[c].outcome]
  IN  /\ ExecAt(c, "settle")
      /\ CanTransition(JobTransitions, object[c].status, exec[c].outcome)
      /\ object' = [object EXCEPT ![c] = o]
      /\ Save(JobOf(c), o)
      /\ ExecTo(c, "closing")
      /\ UNCHANGED <<call, worker, abort, logSeq, logs, artefacts, request, crashed>>

(* The closing entry.  Success and failure are then notified.              *)
Close(c) ==
  /\ ExecAt(c, "closing")
  /\ Log(JobOf(c), object[c])
  /\ ExecTo(c, "notify")
  /\ UNCHANGED <<call, object, worker, abort, artefacts, request, crashed>>

(* finally: the job's log number is forgotten.                             *)
Forget(c) ==
  /\ ExecAt(c, "notify")
  /\ ExecTo(c, "over")
  /\ logSeq' = [logSeq EXCEPT ![JobOf(c)] = 0]
  /\ UNCHANGED <<job, call, object, worker, abort, logs, artefacts, request, crashed>>

ExecStep(c) == StartWorker(c) \/ Timeout(c) \/ Settle(c) \/ Close(c) \/ Forget(c)

-----------------------------------------------------------------------------
(* The worker of call c.                                                   *)

At(c, step) ==
  worker[c].at # 0 /\ Script[worker[c].at] = step /\ worker[c].seq = 0

(* After its last step the worker has returned.                            *)
Advance(c) ==
  /\ worker' = [worker EXCEPT ![c] = [at |-> (@.at + 1) % (Len(Script) + 1), seq |-> 0]]
  /\ IF worker[c].at = Len(Script)
     THEN Decide(c, "completed")
     ELSE UNCHANGED <<exec, abort>>

(* It threw, and decides the race if that is still open.                   *)
Throw(c, outcome) ==
  worker' = [worker EXCEPT ![c] = [at |-> 0, seq |-> 0]] /\ Decide(c, outcome)

(* Mutant: ctx.log does not look at the abort. *)
WorkerLog_Unguarded(c) ==
  /\ At(c, "log")
  /\ TakeSeq(JobOf(c))
  /\ worker' = [worker EXCEPT ![c].seq = NextSeq(JobOf(c))]
  /\ UNCHANGED <<job, call, object, exec, abort, logs, artefacts, request, crashed>>

(* ctx.log refuses an aborted worker.                                      *)
WorkerLog(c) ==
  /\ At(c, "log")
  /\ IF abort[c]
     THEN Throw(c, "cancelled") /\ UNCHANGED logSeq
     ELSE /\ TakeSeq(JobOf(c))
          /\ worker' = [worker EXCEPT ![c].seq = NextSeq(JobOf(c))]
          /\ UNCHANGED <<exec, abort>>
  /\ UNCHANGED <<job, call, object, logs, artefacts, request, crashed>>

WorkerLogged(c) ==
  /\ worker[c].seq # 0
  /\ Persist(JobOf(c), worker[c].seq, object[c])
  /\ Advance(c)
  /\ UNCHANGED <<call, object, logSeq, artefacts, request, crashed>>

(* ctx.checkpoint reads the flag of the stored row.                        *)
WorkerCheckpoint(c) ==
  /\ At(c, "checkpoint")
  /\ IF abort[c] \/ job[JobOf(c)].cancel THEN Throw(c, "cancelled") ELSE Advance(c)
  /\ UNCHANGED <<job, call, object, logSeq, logs, artefacts, request, crashed>>

WorkerCall(c) ==
  /\ At(c, "call")
  /\ Throw(c, "failed") \/ Advance(c)
  /\ UNCHANGED <<job, call, object, logSeq, logs, artefacts, request, crashed>>

(* Mutant: the failure of a save is swallowed. *)
WorkerSave_Swallowed(c) ==
  /\ At(c, "save")
  /\ Advance(c)
  /\ artefacts' \in {artefacts, [artefacts EXCEPT ![c] = @ + 1]}
  /\ UNCHANGED <<job, call, object, logSeq, logs, request, crashed>>

WorkerSave(c) ==
  /\ At(c, "save")
  /\ \/ Throw(c, "failed") /\ UNCHANGED artefacts
     \/ Advance(c) /\ artefacts' = [artefacts EXCEPT ![c] = @ + 1]
  /\ UNCHANGED <<job, call, object, logSeq, logs, request, crashed>>

WorkerStep(c) ==
  WorkerLog(c) \/ WorkerLogged(c) \/ WorkerCheckpoint(c) \/ WorkerCall(c) \/ WorkerSave(c)

-----------------------------------------------------------------------------
(* cancel().                                                               *)

Target(q) == request[q].id
Answer(q, pc, o) == request' = [request EXCEPT ![q] = [pc |-> pc, id |-> @.id, job |-> o]]

Cancel(q, j) ==
  /\ request[q].pc = "off"
  /\ Stored(j)
  /\ request' = [request EXCEPT ![q] = [pc |-> "check", id |-> j, job |-> job[j]]]
  /\ UNCHANGED <<job, call, object, exec, worker, abort, logSeq, logs, artefacts, crashed>>

(* A job that was over when it was read is a 409.                          *)
CheckCancel(q) ==
  /\ request[q].pc = "check"
  /\ LET o == [request[q].job EXCEPT !.cancel = TRUE]
     IN  IF IsTerminalJob(request[q].job.status)
         THEN Answer(q, "refused", NoJob) /\ UNCHANGED job
         ELSE Answer(q, "log", o) /\ Save(Target(q), o)
  /\ UNCHANGED <<call, object, exec, worker, abort, logSeq, logs, artefacts, crashed>>

LogCancel(q) ==
  /\ request[q].pc = "log"
  /\ Log(Target(q), request[q].job)
  /\ IF request[q].job.status = "queued"
     THEN Answer(q, "finish", request[q].job)
     ELSE Answer(q, "done", NoJob)
  /\ UNCHANGED <<call, object, exec, worker, abort, artefacts, crashed>>

FinishCancel(q) ==
  LET o == [request[q].job EXCEPT !.status = "cancelled"]
  IN  /\ request[q].pc = "finish"
      /\ Save(Target(q), o)
      /\ Answer(q, "done", NoJob)
      /\ UNCHANGED <<call, object, exec, worker, abort, logSeq, logs, artefacts, crashed>>

-----------------------------------------------------------------------------
CallStep(c) == Lookup(c) \/ Insert(c) \/ Dispatch(c) \/ Link(c)
RequestStep(q) == CheckCancel(q) \/ LogCancel(q) \/ FinishCancel(q)

Next ==
  /\ ~crashed
  /\ \/ \E c \in Calls :
          \/ CallStep(c) \/ ExecStep(c) \/ WorkerStep(c)
          \/ \E j \in Calls : Retry(c, j)
     \/ \E q \in Cancels :
          \/ RequestStep(q)
          \/ \E j \in Calls : Cancel(q, j)

Spec == Init /\ [][Next]_vars

(* The backend's own awaits are answered and its timers fire; the worker   *)
(* may hang in the engine for ever, and users need not send anything.      *)
Fairness ==
  /\ \A c \in Calls :
       /\ WF_vars(~crashed /\ (Insert(c) \/ Dispatch(c) \/ Link(c)))
       /\ WF_vars(~crashed /\ ExecStep(c))
  /\ \A q \in Cancels : WF_vars(~crashed /\ RequestStep(q))

FairSpec == Spec /\ Fairness
-----------------------------------------------------------------------------
Executions(j) == {c \in Calls : JobOf(c) = j /\ exec[c].pc # "off"}

(* Only one execution works on the job and no cancel() has loaded it.      *)
Undisturbed(j) ==
  /\ \A q \in Cancels : Target(q) # j
  /\ \A c, d \in Calls : JobOf(c) = j /\ JobOf(d) = j => c = d

(* "No duplicate log seq values" (jobs.service.ts:202) under a timeout: an *)
(* orphaned worker never reuses a number after the map forgot it.          *)
LogNumbersUnique ==
  \A j \in Calls : Undisturbed(j) =>
    \A n \in BagToSet(logs[j]) : logs[j][n] = 1

(* The entry that closes a job carries the highest number, so a replay in  *)
(* order of numbers ends with the verdict.                                 *)
VerdictIsLast ==
  \A c \in Calls : exec[c].pc = "notify" /\ Undisturbed(JobOf(c)) =>
    /\ \A n \in BagToSet(logs[JobOf(c)]) : n <= logSeq[JobOf(c)]
    /\ worker[c].seq < logSeq[JobOf(c)]

(* A settled job keeps its status although an orphaned worker may still    *)
(* save the row: both hold the same object.                                *)
SettledStays ==
  [][\A j \in Calls : Settled(j) /\ Undisturbed(j)' => job'[j].status = job[j].status]_vars

(* A completed job has all the rows of a worker, also when timeouts,       *)
(* repeated requests and cancel() race for it.                             *)
Saves == Cardinality({i \in DOMAIN Script : Script[i] = "save"})
CompletedIsWhole ==
  \A j \in Calls : job[j].status = "completed" =>
    \E c \in Executions(j) : artefacts[c] = Saves

(* A job is cancelled only on request: the JobCancelledError by which an   *)
(* aborted worker stops never becomes the job's outcome.                   *)
CancelledOnRequest ==
  \A j \in Calls : job[j].status = "cancelled" =>
    \E q \in Cancels : Target(q) = j /\ request[q].pc \notin {"off", "check", "refused"}

(* Every dispatched job settles for good, also when the engine never       *)
(* answers its worker (NFR-REL-001).                                       *)
EveryJobSettles ==
  \A j \in Calls :
    <>[](Stored(j) => Settled(j) \/ crashed \/ \E q \in Cancels : Target(q) = j)

-----------------------------------------------------------------------------
(* job.entity.ts:47: once cancel() has answered, "workers stop at the next *)
(* checkpoint".                                                            *)
CancelStopsWorker ==
  [][\A q \in Cancels, c \in Calls :
       request[q].pc = "done" /\ Target(q) = JobOf(c) /\ At(c, "checkpoint") =>
         worker'[c].at \in {0, worker[c].at}]_vars
=============================================================================
