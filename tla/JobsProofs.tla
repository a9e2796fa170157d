----------------------------- MODULE JobsProofs -----------------------------
(***************************************************************************)
(* Proofs about Jobs, for any number of generate() and cancel() requests   *)
(* and any worker: what a completed and a cancelled job tell, and the      *)
(* numbers of its log.  About GenerationPage: the list of a page whose     *)
(* console shows the end of its job.  And about Notifications: what the    *)
(* bell shows of notifications that were marked as read.                   *)
(***************************************************************************)
EXTENDS Jobs, GenerationPage, Notifications, TLAPS, FiniteSetTheorems

Live == {"queued", "running", "awaiting_approval"}
Decided == {"settle", "closing", "notify", "over"}

LEMMA Statuses ==
  /\ JobStatus = {"queued", "running", "awaiting_approval", "completed",
                  "completed_with_warnings", "failed", "cancelled", "timed_out"}
  /\ \A s \in JobStatus : IsTerminalJob(s) <=> s \notin Live
  /\ "absent" \notin JobStatus
BY DEF JobStatus, JobTransitions, IsTerminalJob, Live

(* Only a job that is queued or runs already may run.                      *)
LEMMA MayRun ==
  ASSUME NEW s \in JobStatus, CanTransition(JobTransitions, s, "running")
  PROVE  s \in {"queued", "running"}
BY DEF CanTransition, JobStatus, JobTransitions

-----------------------------------------------------------------------------
(* The rows a worker has written when it reaches a step.                   *)
SavesBefore(n) == Cardinality({i \in 1..(n - 1) : Script[i] = "save"})

LEMMA ScriptFacts ==
  /\ Len(Script) \in Nat \ {0} /\ DOMAIN Script = 1..Len(Script)
  /\ SavesBefore(1) = 0 /\ SavesBefore(Len(Script) + 1) = Saves
  /\ \A n \in 1..(Len(Script) + 1) : SavesBefore(n) \in Nat
  /\ \A n \in 1..Len(Script) :
       SavesBefore(n + 1) = SavesBefore(n) + (IF Script[n] = "save" THEN 1 ELSE 0)
<1>1. Len(Script) \in Nat \ {0} /\ DOMAIN Script = 1..Len(Script)
  BY ScriptAssumption
<1>2. SavesBefore(1) = 0
  <2>1. {i \in 1..(1 - 1) : Script[i] = "save"} = {}
    OBVIOUS
  <2>2. QED
    BY <2>1, FS_EmptySet DEF SavesBefore
<1>3. SavesBefore(Len(Script) + 1) = Saves
  <2>1. (Len(Script) + 1) - 1 = Len(Script)
    BY <1>1
  <2>2. QED
    BY <1>1, <2>1 DEF SavesBefore, Saves
<1>4. ASSUME NEW n \in 1..(Len(Script) + 1)
      PROVE  IsFiniteSet({i \in 1..(n - 1) : Script[i] = "save"})
  <2>1. IsFiniteSet(1..(n - 1))
    BY <1>1, FS_Interval
  <2>2. QED
    BY <2>1, FS_Subset
<1>5. ASSUME NEW n \in 1..(Len(Script) + 1)
      PROVE  SavesBefore(n) \in Nat
  BY <1>4, FS_CardinalityType DEF SavesBefore
<1>6. ASSUME NEW n \in 1..Len(Script)
      PROVE  SavesBefore(n + 1) = SavesBefore(n) + (IF Script[n] = "save" THEN 1 ELSE 0)
  <2> DEFINE earlier == {i \in 1..(n - 1) : Script[i] = "save"}
  <2>1. IsFiniteSet(earlier) /\ n \notin earlier /\ Cardinality(earlier) \in Nat
    BY <1>1, <1>4, FS_CardinalityType
  <2>2. SavesBefore(n + 1) = Cardinality({i \in 1..n : Script[i] = "save"})
    <3>1. (n + 1) - 1 = n
      BY <1>1
    <3>2. QED
      BY <3>1 DEF SavesBefore
  <2>3. {i \in 1..n : Script[i] = "save"} = IF Script[n] = "save" THEN earlier \cup {n} ELSE earlier
    BY <1>1
  <2>4. Cardinality(earlier \cup {n}) = Cardinality(earlier) + 1
    BY <2>1, FS_AddElement
  <2>5. SavesBefore(n) = Cardinality(earlier)
    BY DEF SavesBefore
  <2> HIDE DEF earlier
  <2>6. CASE Script[n] = "save"
    <3>1. SavesBefore(n + 1) = Cardinality(earlier \cup {n})
      BY <2>2, <2>3, <2>6
    <3>2. QED
      BY <2>4, <2>5, <2>6, <3>1
  <2>7. CASE Script[n] # "save"
    <3>1. {i \in 1..n : Script[i] = "save"} = earlier
      BY <2>3, <2>7
    <3>2. SavesBefore(n + 1) = Cardinality(earlier)
      BY <2>2, <3>1
    <3>3. QED
      BY <2>1, <2>5, <2>7, <3>2
  <2>8. QED
    BY <2>6, <2>7
<1>7. QED
  BY <1>1, <1>2, <1>3, <1>5, <1>6

(* After its last step a worker is at 0.                                   *)
LEMMA NextAt ==
  ASSUME NEW n \in Nat \ {0}, NEW at \in 1..n
  PROVE  (at + 1) % (n + 1) = IF at = n THEN 0 ELSE at + 1
OBVIOUS

-----------------------------------------------------------------------------
(* The inductive invariant.  What an execution has come to: k is its call, *)
(* x its progress, w its worker, a the abort latch, n the rows written, o  *)
(* its object.  The worker counts its rows; the outcome is decided once;   *)
(* a completed one has all rows and no worker, any other has the latch.    *)
Lives(k, x, w, a, n, o) ==
  /\ k.pc = "off" <=> k.job = NoCall
  /\ k.pc = "off" => k.retryOf = NoCall
  /\ k.pc \in {"off", "insert", "dispatch"} => x.pc = "off"
  /\ k.pc \in {"dispatch", "link", "done"} => o \in Job
  /\ x.pc \in {"off", "progress"} => w.at = 0 /\ n = 0
  /\ x.pc \in {"off", "progress", "race"} => ~a /\ x.outcome = "none"
  /\ x.pc \in Decided => x.outcome \in Outcomes
  /\ x.pc \in Decided /\ x.outcome # "completed" => a
  /\ x.outcome = "completed" => w.at = 0 /\ n = Saves
  /\ w.at # 0 => n = SavesBefore(w.at)
  /\ w.seq # 0 => w.at # 0 /\ Script[w.at] = "log"
  /\ x.pc \in {"progress", "race", "settle"} => o.status = "running"
  /\ x.pc \in {"closing", "notify", "over"} => o.status = x.outcome

Requested(j) == \E q \in Cancels : Target(q) = j /\ request[q].pc \notin {"off", "check", "refused"}
Completed(j) == \E c \in Calls : JobOf(c) = j /\ exec[c].outcome = "completed"

CallOK(c) ==
  /\ Lives(call[c], exec[c], worker[c], abort[c], artefacts[c], object[c])
  /\ call[c].pc \in {"insert", "link"} \/ call[c].retryOf # NoCall => JobOf(c) = c
  /\ call[c].pc \in {"dispatch", "link", "done"} => job[JobOf(c)] \in Job
  /\ object[c].cancel \/ object[c].status = "cancelled" \/ exec[c].outcome = "cancelled"
       => Requested(JobOf(c))

(* A cancel() writes a job only while its copy of it was not over.         *)
RequestOK(q) ==
  /\ request[q].pc = "off" <=> Target(q) = NoCall
  /\ request[q].pc \in {"check", "log", "finish"} => request[q].job \in Job
  /\ request[q].pc \in {"log", "finish"} => request[q].job.status \in Live

RowOK(j) ==
  /\ job[j].cancel \/ job[j].status = "cancelled" => Requested(j)
  /\ job[j].status = "completed" => Completed(j)

LogsAreBags ==
  /\ logs = [j \in Calls |-> logs[j]]
  /\ \A j \in Calls : IsABag(logs[j]) /\ BagToSet(logs[j]) \subseteq Nat

IInv ==
  /\ TypeOK /\ LogsAreBags
  /\ \A c \in Calls : CallOK(c)
  /\ \A q \in Cancels : RequestOK(q)
  /\ \A j \in Calls : RowOK(j)

CallRecord == [pc : CallPC, job : Calls \cup {NoCall}, retryOf : Calls \cup {NoCall}]
ExecRecord == [pc : ExecPC, outcome : Outcomes \cup {"none"}]
WorkerRecord == [at : 0..Len(Script), seq : Nat]
RequestRecord == [pc : RequestPC, id : Calls \cup {NoCall}, job : Job \cup {NoJob}]

LEMMA RecordTypes ==
  ASSUME TypeOK
  PROVE  /\ call \in [Calls -> CallRecord] /\ exec \in [Calls -> ExecRecord]
         /\ worker \in [Calls -> WorkerRecord] /\ request \in [Cancels -> RequestRecord]
         /\ object \in [Calls -> Job \cup {NoJob}] /\ job \in [Calls -> Job \cup {NoJob}]
         /\ abort \in [Calls -> BOOLEAN] /\ artefacts \in [Calls -> Nat] /\ logSeq \in [Calls -> Nat]
         /\ crashed \in BOOLEAN
BY DEF TypeOK, CallRecord, ExecRecord, WorkerRecord, RequestRecord

LEMMA JobForms ==
  /\ NoJob \notin Job /\ NoJob.status = "absent" /\ ~NoJob.cancel
  /\ \A o \in Job : o.status \in JobStatus /\ o.cancel \in BOOLEAN
  /\ Queued \in Job /\ Queued.status = "queued" /\ ~Queued.cancel
  /\ \A j \in Calls : job[j] \in Job \cup {NoJob} => (Stored(j) <=> job[j] \in Job)
<1>1. NoJob.status = "absent" /\ ~NoJob.cancel
  BY DEF NoJob
<1>2. \A o \in Job : o.status \in JobStatus /\ o.cancel \in BOOLEAN
  BY DEF Job
<1>3. NoJob \notin Job
  BY <1>1, <1>2, Statuses
<1>4. Queued \in Job /\ Queued.status = "queued" /\ ~Queued.cancel
  BY Statuses DEF Queued, Job
<1>5. \A j \in Calls : job[j] \in Job \cup {NoJob} => (Stored(j) <=> job[j] \in Job)
  BY <1>1, <1>2, Statuses DEF Stored
<1>6. QED
  BY <1>1, <1>2, <1>3, <1>4, <1>5

(* What a handler changes of the row it holds.                             *)
LEMMA RowChanges ==
  ASSUME NEW o \in Job
  PROVE  /\ \A s \in JobStatus : LET p == [o EXCEPT !.status = s]
                                 IN  p \in Job /\ p.status = s /\ p.cancel = o.cancel
         /\ LET p == [o EXCEPT !.cancel = TRUE]
            IN  p \in Job /\ p.status = o.status /\ p.cancel
         /\ \A r \in Calls \cup {NoCall} :
              LET p == [o EXCEPT !.retryOf = r]
              IN  p \in Job /\ p.status = o.status /\ p.cancel = o.cancel
<1>1. \A s \in JobStatus : LET p == [o EXCEPT !.status = s]
                           IN  p \in Job /\ p.status = s /\ p.cancel = o.cancel
  BY DEF Job
<1>2. LET p == [o EXCEPT !.cancel = TRUE]
      IN  p \in Job /\ p.status = o.status /\ p.cancel
  BY DEF Job
<1>3. \A r \in Calls \cup {NoCall} :
        LET p == [o EXCEPT !.retryOf = r]
        IN  p \in Job /\ p.status = o.status /\ p.cancel = o.cancel
  BY DEF Job
<1>4. QED
  BY <1>1, <1>2, <1>3

With(B, n) == B (+) SetToBag({n})

LEMMA BagFacts ==
  ASSUME NEW B, IsABag(B), BagToSet(B) \subseteq Nat, NEW n \in Nat
  PROVE  /\ IsABag(With(B, n)) /\ BagToSet(With(B, n)) = BagToSet(B) \cup {n}
         /\ \A e \in BagToSet(B) \ {n} : With(B, n)[e] = B[e]
         /\ n \notin BagToSet(B) => With(B, n)[n] = 1
BY DEF With, IsABag, BagToSet, SetToBag, (+)

(* An entry is added to a log.                                             *)
LEMMA LogsStayBags ==
  ASSUME LogsAreBags, NEW j \in Calls, NEW n \in Nat,
         logs' = [logs EXCEPT ![j] = @ (+) SetToBag({n})]
  PROVE  LogsAreBags'
<1>1. DOMAIN logs = Calls
  BY DEF LogsAreBags
<1>2. IsABag(logs[j]) /\ BagToSet(logs[j]) \subseteq Nat
  BY DEF LogsAreBags
<1>3. /\ logs'[j] = With(logs[j], n) /\ DOMAIN logs' = Calls
      /\ \A i \in Calls \ {j} : logs'[i] = logs[i]
  BY <1>1 DEF With
<1>a. IsABag(With(logs[j], n)) /\ BagToSet(With(logs[j], n)) = BagToSet(logs[j]) \cup {n}
  BY <1>2, BagFacts
<1>4. IsABag(logs'[j]) /\ BagToSet(logs'[j]) \subseteq Nat
  BY <1>2, <1>3, <1>a
<1>5. logs' = [i \in Calls |-> logs'[i]]
  BY <1>1
<1>6. QED
  BY <1>3, <1>4, <1>5 DEF LogsAreBags

-----------------------------------------------------------------------------
(* A step of call c, its execution or its worker.                          *)
StepOf(c) ==
  /\ call' \in [Calls -> CallRecord] /\ exec' \in [Calls -> ExecRecord]
  /\ worker' \in [Calls -> WorkerRecord] /\ abort' \in [Calls -> BOOLEAN]
  /\ artefacts' \in [Calls -> Nat] /\ object' \in [Calls -> Job \cup {NoJob}]
  /\ \A d \in Calls \ {c} :
       /\ call'[d] = call[d] /\ exec'[d] = exec[d] /\ worker'[d] = worker[d]
       /\ abort'[d] = abort[d] /\ artefacts'[d] = artefacts[d] /\ object'[d] = object[d]
  /\ request' = request /\ crashed' \in BOOLEAN
  /\ logSeq' \in [Calls -> Nat] /\ LogsAreBags'

(* The row it may save is that of its job.                                 *)
SavesItsJob(c) ==
  /\ job' \in [Calls -> Job \cup {NoJob}]
  /\ \A j \in Calls :
       \/ job'[j] = job[j]
       \/ /\ j = call'[c].job /\ job'[j] \in Job
          /\ job'[j].cancel \/ job'[j].status = "cancelled" => Requested(j)
          /\ job'[j].status = "completed" =>
               exec'[c].outcome = "completed" \/ job[j].status = "completed"

(* What is new of it lives on, its job is taken once and its outcome       *)
(* decided once.                                                           *)
LEMMA CallStepIInv ==
  ASSUME IInv, NEW c \in Calls, StepOf(c), SavesItsJob(c),
         Lives(call'[c], exec'[c], worker'[c], abort'[c], artefacts'[c], object'[c]),
         call[c].job = NoCall \/ call'[c].job = call[c].job,
         exec[c].outcome = "none" \/ exec'[c].outcome = exec[c].outcome,
         call'[c].pc \in {"insert", "link"} \/ call'[c].retryOf # NoCall => call'[c].job = c,
         call'[c].pc \in {"dispatch", "link", "done"} => job'[call'[c].job] \in Job,
         object'[c].cancel \/ object'[c].status = "cancelled" \/ exec'[c].outcome = "cancelled"
           => Requested(call'[c].job)
  PROVE  IInv'
<1> USE DEF StepOf
<1>1. TypeOK
  BY DEF IInv
<1>3. TypeOK'
  BY <1>1 DEF TypeOK, LogsAreBags, CallRecord, ExecRecord, WorkerRecord, SavesItsJob
<1>5. \A j : Requested(j)' <=> Requested(j)
  BY DEF Requested, Target
<1>6. \A j \in Calls : job[j] \in Job => job'[j] \in Job
  BY DEF SavesItsJob
<1>7. \A d \in Calls \ {c} : CallOK(d)'
  <2> SUFFICES ASSUME NEW d \in Calls \ {c}
               PROVE  CallOK(d)'
    OBVIOUS
  <2>1. CallOK(d)
    BY DEF IInv
  <2>2. call[d].pc # "off" => JobOf(d) \in Calls
    BY <1>1, <2>1, RecordTypes DEF CallOK, Lives, JobOf, CallRecord
  <2>3. JobOf(d)' = JobOf(d)
    BY DEF JobOf
  <2>4. Lives(call[d], exec[d], worker[d], abort[d], artefacts[d], object[d])'
    BY <2>1 DEF CallOK
  <2>5. QED
    BY <1>5, <1>6, <2>1, <2>2, <2>3, <2>4 DEF CallOK
<1>8. CallOK(c)'
  BY <1>5 DEF CallOK, JobOf
<1>9. \A q \in Cancels : RequestOK(q)'
  BY DEF IInv, RequestOK, Target
<1>10. \A j \in Calls : Completed(j) => Completed(j)'
  <2> SUFFICES ASSUME NEW j \in Calls, Completed(j)
               PROVE  Completed(j)'
    OBVIOUS
  <2>1. PICK d \in Calls : JobOf(d) = j /\ exec[d].outcome = "completed"
    BY DEF Completed
  <2>2. CASE d = c
    BY <2>1, <2>2, CallsAssumption DEF Completed, JobOf
  <2>3. CASE d # c
    BY <2>1, <2>3 DEF Completed, JobOf
  <2>4. QED
    BY <2>2, <2>3
<1>11. \A j \in Calls : RowOK(j)'
  <2> SUFFICES ASSUME NEW j \in Calls
               PROVE  RowOK(j)'
    OBVIOUS
  <2>1. RowOK(j)
    BY DEF IInv
  <2>2. CASE job'[j] = job[j]
    BY <1>5, <1>10, <2>1, <2>2 DEF RowOK
  <2>3. CASE job'[j] # job[j]
    <3>1. /\ j = call'[c].job
          /\ job'[j].cancel \/ job'[j].status = "cancelled" => Requested(j)
          /\ job'[j].status = "completed" =>
               exec'[c].outcome = "completed" \/ job[j].status = "completed"
      BY <2>3 DEF SavesItsJob
    <3>2. exec'[c].outcome = "completed" => Completed(j)'
      BY <3>1 DEF Completed, JobOf
    <3>3. job[j].status = "completed" => Completed(j)'
      BY <1>10, <2>1 DEF RowOK
    <3>4. QED
      BY <1>5, <3>1, <3>2, <3>3 DEF RowOK
  <2>4. QED
    BY <2>2, <2>3
<1>12. QED
  BY <1>3, <1>7, <1>8, <1>9, <1>11 DEF IInv

(* What is known of a call before a step of it; a variable that stays.     *)
LEMMA CallFacts ==
  ASSUME IInv, NEW c \in Calls
  PROVE  /\ call[c] \in CallRecord /\ exec[c] \in ExecRecord /\ worker[c] \in WorkerRecord
         /\ abort[c] \in BOOLEAN /\ artefacts[c] \in Nat /\ object[c] \in Job \cup {NoJob}
         /\ Lives(call[c], exec[c], worker[c], abort[c], artefacts[c], object[c])
         /\ call[c].pc \in {"insert", "link"} \/ call[c].retryOf # NoCall => call[c].job = c
         /\ call[c].pc \in {"dispatch", "link", "done"} => job[call[c].job] \in Job
         /\ object[c].cancel \/ object[c].status = "cancelled" \/ exec[c].outcome = "cancelled"
              => Requested(call[c].job)
         /\ call[c].pc # "off" => call[c].job \in Calls
         /\ exec[c].pc # "off" => object[c] \in Job /\ job[call[c].job] \in Job
                                  /\ call[c].pc \in {"link", "done"}
<1>1. CallOK(c)
  BY DEF IInv
<1>2. /\ call[c] \in CallRecord /\ exec[c] \in ExecRecord /\ worker[c] \in WorkerRecord
      /\ abort[c] \in BOOLEAN /\ artefacts[c] \in Nat /\ object[c] \in Job \cup {NoJob}
  BY RecordTypes DEF IInv
<1>3. call[c].pc # "off" => call[c].job \in Calls
  BY <1>1, <1>2 DEF CallOK, Lives, CallRecord
<1>4. exec[c].pc # "off" => call[c].pc \in {"link", "done"}
  BY <1>1, <1>2 DEF CallOK, Lives, CallRecord, CallPC
<1>5. QED
  BY <1>1, <1>2, <1>3, <1>4 DEF CallOK, Lives, JobOf

LEMMA LogsStay ==
  ASSUME IInv, logs' = logs
  PROVE  LogsAreBags'
BY DEF IInv, LogsAreBags

LEMMA NobodyRequested ==
  ASSUME IInv
  PROVE  ~Requested(NoCall)
BY DEF IInv, RequestOK, Requested

LEMMA LookupIInv ==
  ASSUME IInv, NEW c \in Calls, Lookup(c)
  PROVE  IInv'
<1>1. /\ call[c].pc = "off" /\ call[c].job = NoCall /\ call[c].retryOf = NoCall
      /\ UNCHANGED <<job, exec, worker, abort, logSeq, logs, artefacts, request, crashed>>
  BY CallFacts DEF Lookup, Lives
<1>2. /\ job \in [Calls -> Job \cup {NoJob}] /\ call \in [Calls -> CallRecord]
      /\ object \in [Calls -> Job \cup {NoJob}]
  BY RecordTypes DEF IInv
<1>3. SavesItsJob(c)
  BY <1>1, <1>2 DEF SavesItsJob
<1>4. exec[c].outcome = "none"
  BY <1>1, CallFacts DEF Lives
<1>5. PICK pc \in {"insert", "dispatch"}, j \in Calls :
        /\ call' = [call EXCEPT ![c].pc = pc, ![c].job = j]
        /\ \/ pc = "insert" /\ j = c /\ object' = object
           \/ pc = "dispatch" /\ Stored(j) /\ object' = [object EXCEPT ![c] = job[j]]
  <2>1. CASE To(c, "insert", c) /\ object' = object
    BY <2>1 DEF To
  <2>2. CASE \E j \in {i \in SameKey : c \in SameKey /\ Stored(i) /\ call[i].retryOf = NoCall} :
               To(c, "dispatch", j) /\ object' = [object EXCEPT ![c] = job[j]]
    <3>1. PICK j \in Calls : /\ Stored(j) /\ To(c, "dispatch", j)
                             /\ object' = [object EXCEPT ![c] = job[j]]
      BY <2>2, SameKeyAssumption
    <3>2. QED
      BY <3>1 DEF To
  <2>3. QED
    BY <2>1, <2>2 DEF Lookup
<1>6. call'[c] \in CallRecord /\ call'[c].pc = pc /\ call'[c].job = j /\ call'[c].retryOf = NoCall
  BY <1>1, <1>2, <1>5 DEF CallRecord, CallPC
<1>7. pc = "dispatch" => object'[c] = job[j] /\ job[j] \in Job
  BY <1>2, <1>5, JobForms
<1>8. StepOf(c)
  BY <1>1, <1>2, <1>5, <1>6, <1>7, LogsStay, RecordTypes DEF StepOf, IInv
<1>9. Lives(call'[c], exec[c], worker[c], abort[c], artefacts[c], object'[c])
  BY <1>1, <1>6, <1>7, CallFacts, CallsAssumption DEF Lives
<1>10. object'[c].cancel \/ object'[c].status = "cancelled" => Requested(j)
  <2>1. CASE pc = "insert"
    BY <1>1, <1>5, <2>1, CallFacts, NobodyRequested
  <2>2. CASE pc = "dispatch"
    BY <1>7, <2>2 DEF IInv, RowOK
  <2>3. QED
    BY <2>1, <2>2
<1>11. pc = "insert" => j = c
  BY <1>5
<1>12. QED
  BY <1>1, <1>3, <1>4, <1>6, <1>7, <1>8, <1>9, <1>10, <1>11, CallStepIInv

LEMMA RetryIInv ==
  ASSUME IInv, NEW c \in Calls, NEW j \in Calls, Retry(c, j)
  PROVE  IInv'
<1>1. /\ call[c].pc = "off" /\ call[c].job = NoCall
      /\ call' = [call EXCEPT ![c] = [pc |-> "insert", job |-> c, retryOf |-> j]]
      /\ UNCHANGED <<job, object, exec, worker, abort, logSeq, logs, artefacts, request, crashed>>
  BY CallFacts DEF Retry, Lives
<1>2. /\ job \in [Calls -> Job \cup {NoJob}] /\ call \in [Calls -> CallRecord]
  BY RecordTypes DEF IInv
<1>3. SavesItsJob(c)
  BY <1>1, <1>2 DEF SavesItsJob
<1>4. call'[c] \in CallRecord /\ call'[c].pc = "insert" /\ call'[c].job = c /\ call'[c].retryOf = j
  BY <1>1, <1>2 DEF CallRecord, CallPC
<1>5. StepOf(c)
  BY <1>1, <1>2, <1>4, LogsStay, RecordTypes DEF StepOf, IInv
<1>6. Lives(call'[c], exec[c], worker[c], abort[c], artefacts[c], object[c])
  BY <1>1, <1>4, CallFacts, CallsAssumption DEF Lives
<1>7. ~(object[c].cancel \/ object[c].status = "cancelled" \/ exec[c].outcome = "cancelled")
  BY <1>1, CallFacts, NobodyRequested
<1>8. QED
  BY <1>1, <1>3, <1>4, <1>5, <1>6, <1>7, CallStepIInv

LEMMA InsertIInv ==
  ASSUME IInv, NEW c \in Calls, Insert(c)
  PROVE  IInv'
<1>1. /\ call[c].pc = "insert" /\ call' = [call EXCEPT ![c].pc = "dispatch", ![c].job = c]
      /\ job' = [job EXCEPT ![c] = Queued] /\ object' = [object EXCEPT ![c] = Queued]
      /\ UNCHANGED <<exec, worker, abort, logSeq, logs, artefacts, request, crashed>>
  BY DEF Insert, To, Save
<1>2. /\ job \in [Calls -> Job \cup {NoJob}] /\ call \in [Calls -> CallRecord]
      /\ object \in [Calls -> Job \cup {NoJob}]
  BY RecordTypes DEF IInv
<1>3. /\ call'[c] \in CallRecord /\ call'[c].pc = "dispatch" /\ call'[c].job = c
      /\ call'[c].retryOf = call[c].retryOf
  BY <1>1, <1>2 DEF CallRecord, CallPC
<1>4. /\ object'[c] = Queued /\ job'[c] = Queued /\ Queued \in Job
      /\ Queued.status = "queued" /\ ~Queued.cancel
  BY <1>1, <1>2, JobForms
<1>5. SavesItsJob(c)
  BY <1>1, <1>2, <1>3, <1>4 DEF SavesItsJob
<1>6. StepOf(c)
  BY <1>1, <1>2, <1>3, <1>4, LogsStay, RecordTypes DEF StepOf, IInv
<1>7. Lives(call'[c], exec[c], worker[c], abort[c], artefacts[c], object'[c])
  BY <1>1, <1>3, <1>4, CallFacts, CallsAssumption DEF Lives
<1>8. exec[c].outcome = "none" /\ call[c].job = c
  BY <1>1, CallFacts DEF Lives
<1>9. QED
  BY <1>1, <1>3, <1>4, <1>5, <1>6, <1>7, <1>8, CallStepIInv

LEMMA DispatchIInv ==
  ASSUME IInv, NEW c \in Calls, Dispatch(c)
  PROVE  IInv'
<1> DEFINE pc == IF call[c].retryOf = NoCall THEN "done" ELSE "link"
           j == call[c].job
<1>1. /\ call[c].pc = "dispatch" /\ call' = [call EXCEPT ![c].pc = pc, ![c].job = j]
      /\ UNCHANGED <<worker, abort, logSeq, logs, artefacts, request>>
  BY DEF Dispatch, To, JobOf
<1>2. /\ job \in [Calls -> Job \cup {NoJob}] /\ call \in [Calls -> CallRecord]
      /\ object \in [Calls -> Job \cup {NoJob}] /\ exec \in [Calls -> ExecRecord]
      /\ crashed \in BOOLEAN
  BY RecordTypes DEF IInv
<1>3. /\ call'[c] \in CallRecord /\ call'[c].pc = pc /\ call'[c].job = j
      /\ call'[c].retryOf = call[c].retryOf /\ pc \in {"done", "link"}
  BY <1>1, <1>2 DEF CallRecord, CallPC
<1>4. /\ j \in Calls /\ object[c] \in Job /\ job[j] \in Job /\ exec[c].pc = "off"
      /\ exec[c].outcome = "none"
  BY <1>1, CallFacts DEF Lives
<1>7. pc = "link" => call[c].retryOf # NoCall
  OBVIOUS
<1> HIDE DEF pc, j
<1>5. CASE CanTransition(JobTransitions, object[c].status, "running")
  <2> DEFINE o == [object[c] EXCEPT !.status = "running"]
  <2>1. /\ object' = [object EXCEPT ![c] = o] /\ job' = [job EXCEPT ![j] = o]
        /\ exec' = [exec EXCEPT ![c].pc = "progress"] /\ crashed' = crashed
    BY <1>5 DEF Dispatch, Save, JobOf, j
  <2>2. o \in Job /\ o.status = "running" /\ o.cancel = object[c].cancel
    BY <1>4, RowChanges, Statuses
  <2> HIDE DEF o
  <2>3. object'[c] = o /\ job'[j] = o
    BY <1>2, <1>4, <2>1
  <2>4. exec'[c] \in ExecRecord /\ exec'[c].pc = "progress" /\ exec'[c].outcome = "none"
    BY <1>2, <1>4, <2>1 DEF ExecRecord, ExecPC
  <2>5. o.cancel => Requested(j)
    BY <2>2, CallFacts DEF j
  <2>6. SavesItsJob(c)
    BY <1>2, <1>3, <2>1, <2>2, <2>3, <2>5 DEF SavesItsJob
  <2>7. StepOf(c)
    BY <1>1, <1>2, <1>3, <2>1, <2>2, <2>4, LogsStay, RecordTypes DEF StepOf, IInv
  <2>8. Lives(call'[c], exec'[c], worker[c], abort[c], artefacts[c], o)
    BY <1>1, <1>3, <1>4, <2>2, <2>4, CallFacts, CallsAssumption DEF Lives, Decided
  <2>9. QED
    BY <1>1, <1>3, <1>4, <1>7, <2>2, <2>3, <2>4, <2>5, <2>6, <2>7, <2>8, CallFacts, CallStepIInv DEF j
<1>6. CASE ~CanTransition(JobTransitions, object[c].status, "running")
  <2>1. crashed' = TRUE /\ UNCHANGED <<job, object, exec>>
    BY <1>6 DEF Dispatch
  <2>2. SavesItsJob(c)
    BY <1>2, <2>1 DEF SavesItsJob
  <2>3. StepOf(c)
    BY <1>1, <1>2, <1>3, <2>1, LogsStay, RecordTypes DEF StepOf, IInv
  <2>4. Lives(call'[c], exec[c], worker[c], abort[c], artefacts[c], object[c])
    BY <1>1, <1>3, <1>4, CallFacts, CallsAssumption DEF Lives, Decided
  <2>5. /\ call'[c].pc \in {"insert", "link"} \/ call'[c].retryOf # NoCall => call'[c].job = c
        /\ object[c].cancel \/ object[c].status = "cancelled" \/ exec[c].outcome = "cancelled"
             => Requested(call'[c].job)
    BY <1>1, <1>3, <1>7, CallFacts DEF j
  <2>6. QED
    BY <1>1, <1>3, <1>4, <2>1, <2>2, <2>3, <2>4, <2>5, CallStepIInv DEF j
<1>8. QED
  BY <1>5, <1>6

LEMMA LinkIInv ==
  ASSUME IInv, NEW c \in Calls, Link(c)
  PROVE  IInv'
<1> DEFINE r == call[c].retryOf
<1>1. /\ call[c].pc = "link" /\ call' = [call EXCEPT ![c].pc = "done", ![c].job = call[c].job]
      /\ job' = [job EXCEPT ![c].retryOf = r]
      /\ UNCHANGED <<object, exec, worker, abort, logSeq, logs, artefacts, request, crashed>>
  BY DEF Link, To, JobOf
<1>2. /\ job \in [Calls -> Job \cup {NoJob}] /\ call \in [Calls -> CallRecord]
  BY RecordTypes DEF IInv
<1>3. /\ call'[c] \in CallRecord /\ call'[c].pc = "done" /\ call'[c].job = call[c].job
      /\ call'[c].retryOf = r /\ r \in Calls \cup {NoCall}
  BY <1>1, <1>2 DEF CallRecord, CallPC
<1>4. call[c].job = c /\ job[c] \in Job
  BY <1>1, CallFacts
<1>5. job'[c] \in Job /\ job'[c].status = job[c].status /\ job'[c].cancel = job[c].cancel
  BY <1>1, <1>2, <1>3, <1>4, RowChanges
<1>6. job[c].cancel \/ job[c].status = "cancelled" => Requested(c)
  BY DEF IInv, RowOK
<1> HIDE DEF r
<1>7. SavesItsJob(c)
  BY <1>1, <1>2, <1>3, <1>4, <1>5, <1>6 DEF SavesItsJob
<1>8. StepOf(c)
  BY <1>1, <1>2, <1>3, LogsStay, RecordTypes DEF StepOf, IInv
<1>9. Lives(call'[c], exec[c], worker[c], abort[c], artefacts[c], object[c])
  BY <1>1, <1>3, CallFacts, CallsAssumption DEF Lives, Decided, r
<1>10. QED
  BY <1>1, <1>3, <1>4, <1>5, <1>7, <1>8, <1>9, CallFacts, CallStepIInv DEF r

-----------------------------------------------------------------------------
(* The steps of an execution.                                              *)

LEMMA LogFacts ==
  ASSUME IInv, NEW j \in Calls, NEW o, Log(j, o)
  PROVE  /\ logSeq' \in [Calls -> Nat] /\ LogsAreBags'
         /\ job' = [job EXCEPT ![j] = o]
<1>1. logSeq[j] \in Nat /\ logSeq \in [Calls -> Nat]
  BY RecordTypes DEF IInv
<1>2. /\ logSeq' = [logSeq EXCEPT ![j] = logSeq[j] + 1]
      /\ logs' = [logs EXCEPT ![j] = @ (+) SetToBag({logSeq[j] + 1})]
      /\ job' = [job EXCEPT ![j] = o]
  BY DEF Log, TakeSeq, Persist, NextSeq, Save
<1>3. LogsAreBags'
  <2>1. PICK n \in Nat : n = logSeq[j] + 1
    BY <1>1
  <2>2. logs' = [logs EXCEPT ![j] = @ (+) SetToBag({n})]
    BY <1>2, <2>1
  <2>3. LogsAreBags
    BY DEF IInv
  <2>4. QED
    BY <2>2, <2>3, LogsStayBags
<1>4. QED
  BY <1>1, <1>2, <1>3

(* A running execution saves its object over the row of its job.           *)
LEMMA ObjectIsSaved ==
  ASSUME IInv, NEW c \in Calls, exec[c].pc # "off", call'[c].job = call[c].job,
         exec[c].outcome = "none" \/ exec'[c].outcome = exec[c].outcome,
         job' = [job EXCEPT ![JobOf(c)] = object[c]]
  PROVE  SavesItsJob(c) /\ job'[call[c].job] \in Job
<1> DEFINE j == call[c].job
<1>1. /\ job \in [Calls -> Job \cup {NoJob}] /\ j \in Calls /\ object[c] \in Job
      /\ object[c].cancel \/ object[c].status = "cancelled" => Requested(j)
  BY CallFacts, RecordTypes DEF IInv
<1>2. object[c].status = "completed" => exec'[c].outcome = "completed"
  BY CallFacts DEF Lives, ExecRecord, ExecPC
<1>3. job' = [job EXCEPT ![j] = object[c]]
  BY DEF JobOf
<1>4. QED
  BY <1>1, <1>2, <1>3 DEF SavesItsJob

LEMMA StartWorkerIInv ==
  ASSUME IInv, NEW c \in Calls, StartWorker(c)
  PROVE  IInv'
<1>1. /\ exec[c].pc = "progress" /\ exec' = [exec EXCEPT ![c].pc = "race"]
      /\ worker' = [worker EXCEPT ![c].at = 1] /\ Log(JobOf(c), object[c])
      /\ UNCHANGED <<call, object, abort, artefacts, request, crashed>>
  BY DEF StartWorker, ExecAt, ExecTo
<1>2. JobOf(c) \in Calls
  BY <1>1, CallFacts DEF JobOf
<1>3. /\ logSeq' \in [Calls -> Nat] /\ LogsAreBags'
      /\ job' = [job EXCEPT ![JobOf(c)] = object[c]]
  BY <1>1, <1>2, LogFacts
<1>4. /\ exec \in [Calls -> ExecRecord] /\ worker \in [Calls -> WorkerRecord]
      /\ 1 \in 0..Len(Script)
  BY RecordTypes, ScriptFacts DEF IInv
<1>5. /\ exec'[c] \in ExecRecord /\ exec'[c].pc = "race" /\ exec'[c].outcome = exec[c].outcome
      /\ worker'[c] \in WorkerRecord /\ worker'[c].at = 1 /\ worker'[c].seq = worker[c].seq
  BY <1>1, <1>4 DEF ExecRecord, ExecPC, WorkerRecord
<1>6. SavesItsJob(c) /\ job'[call[c].job] \in Job
  BY <1>1, <1>3, <1>5, ObjectIsSaved
<1>7. StepOf(c)
  BY <1>1, <1>3, <1>4, <1>5, RecordTypes DEF StepOf, IInv
<1>8. Lives(call[c], exec'[c], worker'[c], abort[c], artefacts[c], object[c])
  BY <1>1, <1>5, CallFacts, ScriptFacts DEF Lives, Decided
<1>9. QED
  BY <1>1, <1>5, <1>6, <1>7, <1>8, CallFacts, CallStepIInv

(* Whoever decides the race leaves nobody running after a success.         *)
LEMMA DecideFacts ==
  ASSUME IInv, NEW c \in Calls, NEW outcome \in Outcomes, Decide(c, outcome)
  PROVE  /\ exec' \in [Calls -> ExecRecord] /\ abort' \in [Calls -> BOOLEAN]
         /\ \A d \in Calls \ {c} : exec'[d] = exec[d] /\ abort'[d] = abort[d]
         /\ IF exec[c].pc = "race"
            THEN /\ exec'[c].pc = "settle" /\ exec'[c].outcome = outcome
                 /\ abort'[c] = (outcome # "completed")
            ELSE exec'[c] = exec[c] /\ abort'[c] = abort[c]
<1>1. exec \in [Calls -> ExecRecord] /\ abort \in [Calls -> BOOLEAN]
  BY RecordTypes DEF IInv
<1>2. CASE exec[c].pc = "race"
  <2>1. /\ exec' = [exec EXCEPT ![c].pc = "settle", ![c].outcome = outcome]
        /\ abort' = [abort EXCEPT ![c] = outcome # "completed"]
    BY <1>2 DEF Decide, ExecAt
  <2>2. exec' \in [Calls -> ExecRecord] /\ abort' \in [Calls -> BOOLEAN]
    BY <1>1, <2>1 DEF ExecRecord, ExecPC
  <2>3. exec'[c].pc = "settle" /\ exec'[c].outcome = outcome /\ abort'[c] = (outcome # "completed")
    BY <1>1, <2>1 DEF ExecRecord
  <2>4. QED
    BY <1>1, <1>2, <2>1, <2>2, <2>3
<1>3. CASE exec[c].pc # "race"
  BY <1>1, <1>3 DEF Decide, ExecAt
<1>4. QED
  BY <1>2, <1>3

LEMMA TimeoutIInv ==
  ASSUME IInv, NEW c \in Calls, Timeout(c)
  PROVE  IInv'
<1>1. /\ exec[c].pc = "race" /\ Decide(c, "timed_out")
      /\ UNCHANGED <<job, call, object, worker, logSeq, logs, artefacts, request, crashed>>
  BY DEF Timeout, ExecAt
<1>2. "timed_out" \in Outcomes /\ "timed_out" # "completed"
  BY DEF Outcomes
<1>3. /\ exec' \in [Calls -> ExecRecord] /\ abort' \in [Calls -> BOOLEAN]
      /\ \A d \in Calls \ {c} : exec'[d] = exec[d] /\ abort'[d] = abort[d]
      /\ exec'[c].pc = "settle" /\ exec'[c].outcome = "timed_out" /\ abort'[c]
  BY <1>1, <1>2, DecideFacts
<1>4. SavesItsJob(c)
  BY <1>1, RecordTypes DEF SavesItsJob, IInv
<1>5. StepOf(c)
  BY <1>1, <1>3, LogsStay, RecordTypes DEF StepOf, IInv
<1>6. Lives(call[c], exec'[c], worker[c], abort'[c], artefacts[c], object[c])
  BY <1>1, <1>2, <1>3, CallFacts DEF Lives, Decided
<1>7. exec[c].outcome = "none"
  BY <1>1, CallFacts DEF Lives
<1>8. QED
  BY <1>1, <1>3, <1>4, <1>5, <1>6, <1>7, CallFacts, CallStepIInv

LEMMA SettleIInv ==
  ASSUME IInv, NEW c \in Calls, Settle(c)
  PROVE  IInv'
<1> DEFINE o == [object[c] EXCEPT !.status = exec[c].outcome]
           j == call[c].job
<1>1. /\ exec[c].pc = "settle" /\ exec' = [exec EXCEPT ![c].pc = "closing"]
      /\ object' = [object EXCEPT ![c] = o] /\ job' = [job EXCEPT ![j] = o]
      /\ UNCHANGED <<call, worker, abort, logSeq, logs, artefacts, request, crashed>>
  BY DEF Settle, ExecAt, ExecTo, Save, JobOf
<1>2. /\ job \in [Calls -> Job \cup {NoJob}] /\ object \in [Calls -> Job \cup {NoJob}]
      /\ exec \in [Calls -> ExecRecord]
  BY RecordTypes DEF IInv
<1>3. j \in Calls /\ object[c] \in Job /\ exec[c].outcome \in Outcomes
  BY <1>1, CallFacts DEF Lives, Decided
<1>4. o \in Job /\ o.status = exec[c].outcome /\ o.cancel = object[c].cancel
  <2>1. exec[c].outcome \in JobStatus
    BY <1>3, Statuses DEF Outcomes
  <2>2. QED
    BY <1>3, <2>1, RowChanges
<1>5. o.cancel \/ o.status = "cancelled" => Requested(j)
  BY <1>4, CallFacts
<1> HIDE DEF o
<1>6. object'[c] = o /\ job'[j] = o
  BY <1>1, <1>2, <1>3
<1>7. exec'[c] \in ExecRecord /\ exec'[c].pc = "closing" /\ exec'[c].outcome = exec[c].outcome
  BY <1>1, <1>2 DEF ExecRecord, ExecPC
<1>8. SavesItsJob(c)
  BY <1>1, <1>2, <1>3, <1>4, <1>5, <1>6, <1>7 DEF SavesItsJob
<1>9. StepOf(c)
  BY <1>1, <1>2, <1>4, <1>7, LogsStay, RecordTypes DEF StepOf, IInv
<1>10. Lives(call[c], exec'[c], worker[c], abort[c], artefacts[c], o)
  BY <1>1, <1>4, <1>7, CallFacts DEF Lives, Decided
<1>11. QED
  BY <1>1, <1>4, <1>5, <1>6, <1>7, <1>8, <1>9, <1>10, CallFacts, CallStepIInv

(* What only moves a decided execution on.                                 *)
LEMMA DecidedMovesOn ==
  ASSUME IInv, NEW c \in Calls, NEW pc \in {"notify", "over"},
         exec[c].pc \in {"closing", "notify"}, exec' = [exec EXCEPT ![c].pc = pc],
         SavesItsJob(c), job'[call[c].job] \in Job,
         UNCHANGED <<call, object, worker, abort, artefacts, request, crashed>>,
         logSeq' \in [Calls -> Nat], LogsAreBags'
  PROVE  IInv'
<1>1. exec \in [Calls -> ExecRecord]
  BY RecordTypes DEF IInv
<1>2. exec'[c] \in ExecRecord /\ exec'[c].pc = pc /\ exec'[c].outcome = exec[c].outcome
  BY <1>1 DEF ExecRecord, ExecPC
<1>3. StepOf(c)
  BY <1>1, <1>2, RecordTypes DEF StepOf, IInv
<1>4. Lives(call[c], exec'[c], worker[c], abort[c], artefacts[c], object[c])
  BY <1>2, CallFacts DEF Lives, Decided
<1>5. QED
  BY <1>2, <1>3, <1>4, CallFacts, CallStepIInv

LEMMA CloseIInv ==
  ASSUME IInv, NEW c \in Calls, Close(c)
  PROVE  IInv'
<1>1. /\ exec[c].pc = "closing" /\ exec' = [exec EXCEPT ![c].pc = "notify"]
      /\ Log(JobOf(c), object[c])
      /\ UNCHANGED <<call, object, worker, abort, artefacts, request, crashed>>
  BY DEF Close, ExecAt, ExecTo
<1>2. JobOf(c) \in Calls /\ exec \in [Calls -> ExecRecord]
  BY <1>1, CallFacts, RecordTypes DEF JobOf, IInv
<1>3. /\ logSeq' \in [Calls -> Nat] /\ LogsAreBags'
      /\ job' = [job EXCEPT ![JobOf(c)] = object[c]]
  BY <1>1, <1>2, LogFacts
<1>4. exec'[c].outcome = exec[c].outcome
  BY <1>1, <1>2 DEF ExecRecord
<1>5. QED
  BY <1>1, <1>3, <1>4, ObjectIsSaved, DecidedMovesOn

LEMMA ForgetIInv ==
  ASSUME IInv, NEW c \in Calls, Forget(c)
  PROVE  IInv'
<1>1. /\ exec[c].pc = "notify" /\ exec' = [exec EXCEPT ![c].pc = "over"]
      /\ logSeq' = [logSeq EXCEPT ![JobOf(c)] = 0]
      /\ UNCHANGED <<job, call, object, worker, abort, logs, artefacts, request, crashed>>
  BY DEF Forget, ExecAt, ExecTo
<1>2. logSeq' \in [Calls -> Nat] /\ LogsAreBags'
  BY <1>1, LogsStay, RecordTypes DEF IInv
<1>3. SavesItsJob(c) /\ job'[call[c].job] \in Job
  BY <1>1, CallFacts, RecordTypes DEF SavesItsJob, IInv
<1>4. QED
  BY <1>1, <1>2, <1>3, DecidedMovesOn

-----------------------------------------------------------------------------
(* The steps of a worker.                                                  *)

LEMMA WorkerFacts ==
  ASSUME IInv, NEW c \in Calls, worker[c].at # 0
  PROVE  /\ worker[c].at \in 1..Len(Script) /\ exec[c].pc \in {"race"} \cup Decided
         /\ artefacts[c] = SavesBefore(worker[c].at) /\ exec[c].outcome # "completed"
         /\ JobOf(c) \in Calls /\ object[c] \in Job
         /\ exec[c].pc # "race" => abort[c]
<1>1. exec[c].pc \in {"race"} \cup Decided
  BY CallFacts DEF Lives, ExecRecord, ExecPC, Decided
<1>2. worker[c].at \in 1..Len(Script)
  BY CallFacts, ScriptFacts DEF WorkerRecord
<1>3. QED
  BY <1>1, <1>2, CallFacts DEF Lives, JobOf, Decided

(* A worker that threw is gone.                                            *)
LEMMA ThrowIInv ==
  ASSUME IInv, NEW c \in Calls, worker[c].at # 0,
         NEW outcome \in Outcomes \ {"completed"},
         exec[c].pc = "race" /\ outcome = "cancelled" => Requested(JobOf(c)),
         Throw(c, outcome),
         UNCHANGED <<job, call, object, logSeq, logs, artefacts, request, crashed>>
  PROVE  IInv'
<1>1. /\ exec' \in [Calls -> ExecRecord] /\ abort' \in [Calls -> BOOLEAN]
      /\ \A d \in Calls \ {c} : exec'[d] = exec[d] /\ abort'[d] = abort[d]
      /\ IF exec[c].pc = "race"
         THEN /\ exec'[c].pc = "settle" /\ exec'[c].outcome = outcome
              /\ abort'[c] = (outcome # "completed")
         ELSE exec'[c] = exec[c] /\ abort'[c] = abort[c]
  BY DecideFacts DEF Throw
<1>2. worker' = [worker EXCEPT ![c] = [at |-> 0, seq |-> 0]] /\ worker \in [Calls -> WorkerRecord]
  BY RecordTypes DEF Throw, IInv
<1>3. worker'[c] \in WorkerRecord /\ worker'[c].at = 0 /\ worker'[c].seq = 0
  BY <1>2, ScriptFacts DEF WorkerRecord
<1>4. SavesItsJob(c)
  BY RecordTypes DEF SavesItsJob, IInv
<1>5. StepOf(c)
  BY <1>1, <1>2, <1>3, LogsStay, RecordTypes DEF StepOf, IInv
<1>6. CASE exec[c].pc = "race"
  <2>1. Lives(call[c], exec'[c], worker'[c], abort'[c], artefacts[c], object[c])
    BY <1>1, <1>3, <1>6, CallFacts DEF Lives, Decided
  <2>2. exec[c].outcome = "none" /\ (exec'[c].outcome = "cancelled" => Requested(call[c].job))
    BY <1>1, <1>6, CallFacts DEF Lives, JobOf
  <2>3. QED
    BY <1>4, <1>5, <2>1, <2>2, CallFacts, CallStepIInv
<1>7. CASE exec[c].pc # "race"
  <2>1. exec'[c] = exec[c] /\ abort'[c] = abort[c]
    BY <1>1, <1>7
  <2>2. Lives(call[c], exec'[c], worker'[c], abort'[c], artefacts[c], object[c])
    BY <1>3, <1>7, <2>1, CallFacts, WorkerFacts DEF Lives, Decided
  <2>3. QED
    BY <1>4, <1>5, <2>1, <2>2, CallFacts, CallStepIInv
<1>8. QED
  BY <1>6, <1>7

(* A worker that has done a step counts its rows, and has written them all *)
(* when it returns.                                                        *)
LEMMA AdvanceIInv ==
  ASSUME IInv, NEW c \in Calls, worker[c].at # 0, Advance(c),
         artefacts' = [artefacts EXCEPT ![c] =
                         @ + (IF Script[worker[c].at] = "save" THEN 1 ELSE 0)],
         \/ job' = job
         \/ job' = [job EXCEPT ![JobOf(c)] = object[c]],
         logSeq' = logSeq, LogsAreBags',
         UNCHANGED <<call, object, request, crashed>>
  PROVE  IInv'
<1> DEFINE at == worker[c].at
<1>0. /\ at \in 1..Len(Script) /\ exec[c].pc \in {"race"} \cup Decided
      /\ artefacts[c] = SavesBefore(at) /\ exec[c].outcome # "completed"
      /\ exec[c].pc # "race" => abort[c]
      /\ exec[c].pc = "race" => exec[c].outcome = "none"
  BY WorkerFacts, CallFacts DEF Lives
<1>1. /\ worker \in [Calls -> WorkerRecord] /\ artefacts \in [Calls -> Nat]
      /\ exec \in [Calls -> ExecRecord] /\ abort \in [Calls -> BOOLEAN]
      /\ job \in [Calls -> Job \cup {NoJob}]
  BY RecordTypes DEF IInv
<1>2. worker' = [worker EXCEPT ![c] = [at |-> IF at = Len(Script) THEN 0 ELSE at + 1, seq |-> 0]]
  BY <1>0, NextAt, ScriptFacts DEF Advance
<1>3. /\ worker'[c] \in WorkerRecord /\ worker'[c].seq = 0
      /\ worker'[c].at = IF at = Len(Script) THEN 0 ELSE at + 1
  BY <1>0, <1>1, <1>2, ScriptFacts DEF WorkerRecord
<1>4. artefacts' \in [Calls -> Nat] /\ artefacts'[c] = SavesBefore(at + 1)
  <2>1. SavesBefore(at + 1) = SavesBefore(at) + (IF Script[at] = "save" THEN 1 ELSE 0)
    BY <1>0, ScriptFacts
  <2>2. SavesBefore(at + 1) \in Nat
    BY <1>0, ScriptFacts
  <2>3. artefacts' = [artefacts EXCEPT ![c] = SavesBefore(at + 1)]
    BY <1>0, <1>1, <2>1
  <2>4. QED
    BY <1>1, <2>2, <2>3
<1>5. SavesBefore(Len(Script) + 1) = Saves /\ Len(Script) \in Nat \ {0}
  BY ScriptFacts
<1>6. /\ exec' \in [Calls -> ExecRecord] /\ abort' \in [Calls -> BOOLEAN]
      /\ \A d \in Calls \ {c} : exec'[d] = exec[d] /\ abort'[d] = abort[d]
      /\ IF exec[c].pc = "race" /\ at = Len(Script)
         THEN exec'[c].pc = "settle" /\ exec'[c].outcome = "completed" /\ ~abort'[c]
         ELSE exec'[c] = exec[c] /\ abort'[c] = abort[c]
  <2>1. CASE at = Len(Script)
    <3>1. "completed" \in Outcomes /\ Decide(c, "completed")
      BY <2>1 DEF Advance, Outcomes
    <3>2. QED
      BY <2>1, <3>1, DecideFacts
  <2>2. CASE at # Len(Script)
    BY <1>1, <2>2 DEF Advance
  <2>3. QED
    BY <2>1, <2>2
<1> HIDE DEF at
<1>7. exec[c].outcome = "none" \/ exec'[c].outcome = exec[c].outcome
  BY <1>0, <1>6
<1>8. SavesItsJob(c) /\ job'[call[c].job] \in Job
  <2>1. CASE job' = job
    BY <1>0, <1>1, <2>1, CallFacts DEF SavesItsJob, Decided
  <2>2. CASE job' = [job EXCEPT ![JobOf(c)] = object[c]]
    BY <1>0, <1>7, <2>2, ObjectIsSaved DEF Decided
  <2>3. QED
    BY <2>1, <2>2
<1>9. StepOf(c)
  BY <1>2, <1>3, <1>4, <1>6, RecordTypes DEF StepOf, IInv
<1>10. Lives(call[c], exec'[c], worker'[c], abort'[c], artefacts'[c], object[c])
  <2>1. CASE exec[c].pc = "race" /\ at = Len(Script)
    BY <1>0, <1>3, <1>4, <1>5, <1>6, <2>1, CallFacts DEF Lives, Decided, Outcomes
  <2>2. CASE ~(exec[c].pc = "race" /\ at = Len(Script))
    <3>1. exec'[c] = exec[c] /\ abort'[c] = abort[c]
      BY <1>6, <2>2
    <3>2. worker'[c].at # 0 => artefacts'[c] = SavesBefore(worker'[c].at)
      BY <1>3, <1>4
    <3>3. QED
      BY <1>0, <1>3, <3>1, <3>2, CallFacts DEF Lives, Decided
  <2>3. QED
    BY <2>1, <2>2
<1>11. exec'[c].outcome = "cancelled" => exec[c].outcome = "cancelled"
  BY <1>6
<1>12. QED
  BY <1>7, <1>8, <1>9, <1>10, <1>11, CallFacts, CallStepIInv

(* An aborted worker stops without a word; any other takes a number.       *)
LEMMA WorkerLogIInv ==
  ASSUME IInv, NEW c \in Calls, WorkerLog(c)
  PROVE  IInv'
<1>1. /\ worker[c].at # 0 /\ Script[worker[c].at] = "log" /\ worker[c].seq = 0
      /\ UNCHANGED <<job, call, object, logs, artefacts, request, crashed>>
  BY DEF WorkerLog, At
<1>2. CASE abort[c]
  <2>1. Throw(c, "cancelled") /\ logSeq' = logSeq
    BY <1>2 DEF WorkerLog
  <2>2. exec[c].pc # "race"
    BY <1>2, CallFacts DEF Lives
  <2>3. "cancelled" \in Outcomes \ {"completed"}
    BY DEF Outcomes
  <2>4. QED
    BY <1>1, <2>1, <2>2, <2>3, ThrowIInv
<1>3. CASE ~abort[c]
  <2> DEFINE j == JobOf(c)
  <2>1. /\ logSeq' = [logSeq EXCEPT ![j] = logSeq[j] + 1]
        /\ worker' = [worker EXCEPT ![c].seq = logSeq[j] + 1]
        /\ UNCHANGED <<exec, abort>>
    BY <1>3 DEF WorkerLog, TakeSeq, NextSeq
  <2>2. j \in Calls /\ logSeq \in [Calls -> Nat] /\ worker \in [Calls -> WorkerRecord]
    BY <1>1, WorkerFacts, RecordTypes DEF IInv
  <2>3. /\ worker'[c] \in WorkerRecord /\ worker'[c].at = worker[c].at
        /\ logSeq' \in [Calls -> Nat]
    <3>1. PICK n \in Nat : n = logSeq[j] + 1
      BY <2>2
    <3>2. logSeq' = [logSeq EXCEPT ![j] = n] /\ worker' = [worker EXCEPT ![c].seq = n]
      BY <2>1, <3>1
    <3>3. worker'[c] \in WorkerRecord /\ worker'[c].at = worker[c].at
      BY <2>2, <3>2 DEF WorkerRecord
    <3>4. QED
      BY <2>2, <3>2, <3>3
  <2>4. SavesItsJob(c)
    BY <1>1, RecordTypes DEF SavesItsJob, IInv
  <2>5. StepOf(c)
    BY <1>1, <2>1, <2>2, <2>3, LogsStay, RecordTypes DEF StepOf, IInv
  <2>6. Lives(call[c], exec[c], worker'[c], abort[c], artefacts[c], object[c])
    BY <1>1, <2>3, CallFacts DEF Lives
  <2>7. QED
    BY <1>1, <2>1, <2>4, <2>5, <2>6, CallFacts, CallStepIInv
<1>4. QED
  BY <1>2, <1>3

LEMMA WorkerLoggedIInv ==
  ASSUME IInv, NEW c \in Calls, WorkerLogged(c)
  PROVE  IInv'
<1> DEFINE j == JobOf(c)
<1>1. /\ worker[c].seq # 0 /\ Advance(c)
      /\ logs' = [logs EXCEPT ![j] = @ (+) SetToBag({worker[c].seq})]
      /\ job' = [job EXCEPT ![j] = object[c]]
      /\ UNCHANGED <<call, object, logSeq, artefacts, request, crashed>>
  BY DEF WorkerLogged, Persist, Save
<1>2. worker[c].at # 0 /\ Script[worker[c].at] = "log" /\ worker[c].seq \in Nat
  BY <1>1, CallFacts DEF Lives, WorkerRecord
<1>3. j \in Calls
  BY <1>2, WorkerFacts
<1>4. LogsAreBags'
  BY <1>1, <1>2, <1>3, LogsStayBags DEF IInv
<1>5. artefacts' = [artefacts EXCEPT ![c] =
                      @ + (IF Script[worker[c].at] = "save" THEN 1 ELSE 0)]
  <2>1. artefacts \in [Calls -> Nat]
    BY RecordTypes DEF IInv
  <2>2. QED
    BY <1>1, <1>2, <2>1
<1>6. QED
  BY <1>1, <1>2, <1>4, <1>5, AdvanceIInv

(* A worker step that only throws or goes on.                              *)
LEMMA ThrowOrAdvance ==
  ASSUME IInv, NEW c \in Calls, worker[c].at # 0, Script[worker[c].at] # "save",
         Throw(c, "failed") \/ Advance(c),
         UNCHANGED <<job, call, object, logSeq, logs, artefacts, request, crashed>>
  PROVE  IInv'
<1>1. artefacts' = [artefacts EXCEPT ![c] =
                      @ + (IF Script[worker[c].at] = "save" THEN 1 ELSE 0)]
  <2>1. artefacts \in [Calls -> Nat]
    BY RecordTypes DEF IInv
  <2>2. QED
    BY <2>1
<1>2. "failed" \in Outcomes \ {"completed"} /\ LogsAreBags'
  BY LogsStay DEF Outcomes
<1>3. CASE Throw(c, "failed")
  BY <1>2, <1>3, ThrowIInv
<1>4. CASE Advance(c)
  BY <1>1, <1>2, <1>4, AdvanceIInv
<1>5. QED
  BY <1>3, <1>4

(* Where nobody asked for it the flag of the stored row is not set.        *)
LEMMA WorkerCheckpointIInv ==
  ASSUME IInv, NEW c \in Calls, WorkerCheckpoint(c)
  PROVE  IInv'
<1>1. /\ worker[c].at # 0 /\ Script[worker[c].at] = "checkpoint"
      /\ UNCHANGED <<job, call, object, logSeq, logs, artefacts, request, crashed>>
  BY DEF WorkerCheckpoint, At
<1>2. CASE abort[c] \/ job[JobOf(c)].cancel
  <2>1. Throw(c, "cancelled")
    BY <1>2 DEF WorkerCheckpoint
  <2>2. exec[c].pc = "race" => Requested(JobOf(c))
    <3>1. JobOf(c) \in Calls
      BY <1>1, WorkerFacts
    <3>2. exec[c].pc = "race" => ~abort[c]
      BY CallFacts DEF Lives
    <3>3. QED
      BY <1>2, <3>1, <3>2 DEF IInv, RowOK
  <2>3. "cancelled" \in Outcomes \ {"completed"}
    BY DEF Outcomes
  <2>4. QED
    BY <1>1, <2>1, <2>2, <2>3, ThrowIInv
<1>3. CASE ~(abort[c] \/ job[JobOf(c)].cancel)
  <2>1. Advance(c)
    BY <1>3 DEF WorkerCheckpoint
  <2>2. QED
    BY <1>1, <2>1, ThrowOrAdvance
<1>4. QED
  BY <1>2, <1>3

LEMMA WorkerCallIInv ==
  ASSUME IInv, NEW c \in Calls, WorkerCall(c)
  PROVE  IInv'
BY ThrowOrAdvance DEF WorkerCall, At

LEMMA WorkerSaveIInv ==
  ASSUME IInv, NEW c \in Calls, WorkerSave(c)
  PROVE  IInv'
<1>1. /\ worker[c].at # 0 /\ Script[worker[c].at] = "save"
      /\ UNCHANGED <<job, call, object, logSeq, logs, request, crashed>>
  BY DEF WorkerSave, At
<1>2. CASE Throw(c, "failed") /\ artefacts' = artefacts
  <2>1. "failed" \in Outcomes \ {"completed"}
    BY DEF Outcomes
  <2>2. QED
    BY <1>1, <1>2, <2>1, ThrowIInv
<1>3. CASE Advance(c) /\ artefacts' = [artefacts EXCEPT ![c] = @ + 1]
  <2>1. artefacts' = [artefacts EXCEPT ![c] =
                        @ + (IF Script[worker[c].at] = "save" THEN 1 ELSE 0)]
    BY <1>1, <1>3
  <2>2. LogsAreBags'
    BY <1>1, LogsStay
  <2>3. QED
    BY <1>1, <1>3, <2>1, <2>2, AdvanceIInv
<1>4. QED
  BY <1>2, <1>3 DEF WorkerSave

-----------------------------------------------------------------------------
(* The steps of a cancel().  Only its own request moves, never back to one *)
(* that has written nothing; the row it saves carries the request.         *)
RequestStepOf(q) ==
  /\ request' \in [Cancels -> RequestRecord]
  /\ \A p \in Cancels \ {q} : request'[p] = request[p]
  /\ \/ request[q].pc \in {"off", "check", "refused"}
     \/ request'[q].id = request[q].id /\ request'[q].pc \in {"log", "finish", "done"}
  /\ job' \in [Calls -> Job \cup {NoJob}]
  /\ \A j \in Calls :
       \/ job'[j] = job[j]
       \/ /\ j = request'[q].id /\ request'[q].pc \in {"log", "finish", "done"}
          /\ job'[j] \in Job /\ job'[j].status # "completed"
  /\ logSeq' \in [Calls -> Nat] /\ LogsAreBags'
  /\ UNCHANGED <<call, object, exec, worker, abort, artefacts, crashed>>

LEMMA RequestStepIInv ==
  ASSUME IInv, NEW q \in Cancels, RequestStepOf(q), RequestOK(q)'
  PROVE  IInv'
<1> USE DEF RequestStepOf
<1>1. TypeOK
  BY DEF IInv
<1>2. TypeOK'
  BY <1>1 DEF TypeOK, LogsAreBags, RequestRecord
<1>3. \A j \in Calls : Requested(j) => Requested(j)'
  <2> SUFFICES ASSUME NEW j \in Calls, Requested(j)
               PROVE  Requested(j)'
    OBVIOUS
  <2>1. PICK p \in Cancels : Target(p) = j /\ request[p].pc \notin {"off", "check", "refused"}
    BY DEF Requested
  <2>2. Target(p)' = j /\ request'[p].pc \notin {"off", "check", "refused"}
    <3>1. CASE p = q
      BY <2>1, <3>1 DEF Target
    <3>2. CASE p # q
      BY <2>1, <3>2 DEF Target
    <3>3. QED
      BY <3>1, <3>2
  <2>3. QED
    BY <2>2 DEF Requested
<1>4. \A j \in Calls : job[j] \in Job => job'[j] \in Job
  OBVIOUS
<1>5. \A c \in Calls : CallOK(c)'
  <2> SUFFICES ASSUME NEW c \in Calls
               PROVE  CallOK(c)'
    OBVIOUS
  <2>1. CallOK(c)
    BY DEF IInv
  <2>2. JobOf(c)' = JobOf(c)
    BY DEF JobOf
  <2>3. Lives(call[c], exec[c], worker[c], abort[c], artefacts[c], object[c])'
    BY <2>1 DEF CallOK
  <2>4. call[c].pc # "off" => JobOf(c) \in Calls
    BY CallFacts DEF JobOf
  <2>5. Requested(JobOf(c)) => Requested(JobOf(c))'
    <3>1. JobOf(c) \in Calls \cup {NoCall}
      BY CallFacts DEF JobOf, CallRecord
    <3>2. QED
      BY <1>3, <2>2, <3>1, NobodyRequested DEF Requested
  <2>6. QED
    BY <1>4, <2>1, <2>2, <2>3, <2>4, <2>5 DEF CallOK
<1>6. \A p \in Cancels : RequestOK(p)'
  BY DEF IInv, RequestOK, Target
<1>7. \A j \in Calls : RowOK(j)'
  <2> SUFFICES ASSUME NEW j \in Calls
               PROVE  RowOK(j)'
    OBVIOUS
  <2>1. RowOK(j) /\ (Completed(j)' <=> Completed(j))
    BY DEF IInv, Completed, JobOf
  <2>2. CASE job'[j] = job[j]
    BY <1>3, <2>1, <2>2 DEF RowOK
  <2>3. CASE job'[j] # job[j]
    <3>1. /\ j = request'[q].id /\ request'[q].pc \in {"log", "finish", "done"}
          /\ job'[j].status # "completed"
      BY <2>3
    <3>2. Requested(j)'
      BY <3>1 DEF Requested, Target
    <3>3. QED
      BY <3>1, <3>2 DEF RowOK
  <2>4. QED
    BY <2>2, <2>3
<1>8. QED
  BY <1>2, <1>5, <1>6, <1>7 DEF IInv

(* What is known of a request before a step of it.                         *)
LEMMA RequestFacts ==
  ASSUME IInv, NEW q \in Cancels
  PROVE  /\ request[q] \in RequestRecord /\ RequestOK(q)
         /\ request[q].pc # "off" => Target(q) \in Calls
<1>1. request[q] \in RequestRecord /\ RequestOK(q)
  BY RecordTypes DEF IInv
<1>2. QED
  BY <1>1 DEF RequestOK, RequestRecord, Target

LEMMA CancelIInv ==
  ASSUME IInv, NEW q \in Cancels, NEW j \in Calls, Cancel(q, j)
  PROVE  IInv'
<1> DEFINE r == [pc |-> "check", id |-> j, job |-> job[j]]
<1>1. /\ request[q].pc = "off" /\ Stored(j) /\ request' = [request EXCEPT ![q] = r]
      /\ UNCHANGED <<job, call, object, exec, worker, abort, logSeq, logs, artefacts, crashed>>
  BY DEF Cancel
<1>2. job \in [Calls -> Job \cup {NoJob}] /\ request \in [Cancels -> RequestRecord]
  BY RecordTypes DEF IInv
<1>3. job[j] \in Job
  BY <1>1, <1>2, JobForms
<1>4. r \in RequestRecord
  BY <1>3 DEF RequestRecord, RequestPC
<1>5. RequestStepOf(q)
  BY <1>1, <1>2, <1>4, LogsStay, RecordTypes DEF RequestStepOf, IInv
<1>6. RequestOK(q)'
  BY <1>1, <1>2, <1>3, CallsAssumption DEF RequestOK, Target
<1>7. QED
  BY <1>5, <1>6, RequestStepIInv

LEMMA CheckCancelIInv ==
  ASSUME IInv, NEW q \in Cancels, CheckCancel(q)
  PROVE  IInv'
<1> DEFINE o == [request[q].job EXCEPT !.cancel = TRUE]
           j == request[q].id
<1>1. /\ request[q].pc = "check"
      /\ UNCHANGED <<call, object, exec, worker, abort, logSeq, logs, artefacts, crashed>>
  BY DEF CheckCancel
<1>2. job \in [Calls -> Job \cup {NoJob}] /\ request \in [Cancels -> RequestRecord]
  BY RecordTypes DEF IInv
<1>3. request[q].job \in Job /\ j \in Calls
  BY <1>1, RequestFacts DEF RequestOK, Target
<1>4. o \in Job /\ o.status = request[q].job.status
  BY <1>3, RowChanges
<1> HIDE DEF o
<1>5. CASE IsTerminalJob(request[q].job.status)
  <2>1. request' = [request EXCEPT ![q] = [pc |-> "refused", id |-> @.id, job |-> NoJob]]
        /\ job' = job
    BY <1>5 DEF CheckCancel, Answer
  <2>2. request'[q] \in RequestRecord /\ request'[q].pc = "refused" /\ request'[q].id = j
    BY <1>2, <1>3, <2>1 DEF RequestRecord, RequestPC
  <2>3. RequestStepOf(q)
    BY <1>1, <1>2, <2>1, <2>2, LogsStay, RecordTypes DEF RequestStepOf, IInv
  <2>4. RequestOK(q)'
    BY <1>3, <2>2, CallsAssumption DEF RequestOK, Target
  <2>5. QED
    BY <2>3, <2>4, RequestStepIInv
<1>6. CASE ~IsTerminalJob(request[q].job.status)
  <2>1. /\ request' = [request EXCEPT ![q] = [pc |-> "log", id |-> @.id, job |-> o]]
        /\ job' = [job EXCEPT ![j] = o]
    BY <1>6 DEF CheckCancel, Answer, Save, Target, o
  <2>2. /\ request'[q] \in RequestRecord /\ request'[q].pc = "log" /\ request'[q].id = j
        /\ request'[q].job = o /\ job'[j] = o
    BY <1>2, <1>3, <1>4, <2>1 DEF RequestRecord, RequestPC
  <2>3. o.status \in Live /\ o.status # "completed"
    BY <1>3, <1>4, <1>6, Statuses, JobForms DEF Live
  <2>4. RequestStepOf(q)
    BY <1>1, <1>2, <1>4, <2>1, <2>2, <2>3, LogsStay, RecordTypes DEF RequestStepOf, IInv
  <2>5. RequestOK(q)'
    BY <1>3, <1>4, <2>2, <2>3, CallsAssumption DEF RequestOK, Target
  <2>6. QED
    BY <2>4, <2>5, RequestStepIInv
<1>7. QED
  BY <1>5, <1>6

LEMMA LogCancelIInv ==
  ASSUME IInv, NEW q \in Cancels, LogCancel(q)
  PROVE  IInv'
<1> DEFINE o == request[q].job
           j == request[q].id
<1>1. /\ request[q].pc = "log" /\ Log(j, o)
      /\ UNCHANGED <<call, object, exec, worker, abort, artefacts, crashed>>
  BY DEF LogCancel, Target
<1>2. job \in [Calls -> Job \cup {NoJob}] /\ request \in [Cancels -> RequestRecord]
  BY RecordTypes DEF IInv
<1>3. o \in Job /\ j \in Calls /\ o.status \in Live
  BY <1>1, RequestFacts DEF RequestOK, Target
<1> HIDE DEF o
<1>4. logSeq' \in [Calls -> Nat] /\ LogsAreBags' /\ job' = [job EXCEPT ![j] = o]
  BY <1>1, <1>3, LogFacts
<1>5. \/ /\ request' = [request EXCEPT ![q] = [pc |-> "finish", id |-> @.id, job |-> o]]
         /\ o.status = "queued"
      \/ request' = [request EXCEPT ![q] = [pc |-> "done", id |-> @.id, job |-> NoJob]]
  BY DEF LogCancel, Answer, o
<1>6. /\ request'[q] \in RequestRecord /\ request'[q].pc \in {"finish", "done"}
      /\ request'[q].id = j /\ (request'[q].pc = "finish" => request'[q].job = o)
      /\ \A p \in Cancels \ {q} : request'[p] = request[p]
      /\ DOMAIN request' = Cancels /\ request' = [p \in Cancels |-> request'[p]]
  BY <1>2, <1>3, <1>5 DEF RequestRecord, RequestPC
<1>7. o.status # "completed" /\ job'[j] = o
  BY <1>2, <1>3, <1>4 DEF Live
<1>8. RequestStepOf(q)
  BY <1>1, <1>2, <1>3, <1>4, <1>6, <1>7 DEF RequestStepOf
<1>9. RequestOK(q)'
  BY <1>3, <1>6, CallsAssumption DEF RequestOK, Target
<1>10. QED
  BY <1>8, <1>9, RequestStepIInv

LEMMA FinishCancelIInv ==
  ASSUME IInv, NEW q \in Cancels, FinishCancel(q)
  PROVE  IInv'
<1> DEFINE o == [request[q].job EXCEPT !.status = "cancelled"]
           j == request[q].id
<1>1. /\ request[q].pc = "finish" /\ job' = [job EXCEPT ![j] = o]
      /\ request' = [request EXCEPT ![q] = [pc |-> "done", id |-> @.id, job |-> NoJob]]
      /\ UNCHANGED <<call, object, exec, worker, abort, logSeq, logs, artefacts, crashed>>
  BY DEF FinishCancel, Answer, Save, Target
<1>2. job \in [Calls -> Job \cup {NoJob}] /\ request \in [Cancels -> RequestRecord]
  BY RecordTypes DEF IInv
<1>3. request[q].job \in Job /\ j \in Calls
  BY <1>1, RequestFacts DEF RequestOK, Target
<1>4. o \in Job /\ o.status = "cancelled"
  BY <1>3, RowChanges, Statuses
<1> HIDE DEF o
<1>5. /\ request'[q] \in RequestRecord /\ request'[q].pc = "done" /\ request'[q].id = j
      /\ job'[j] = o
  BY <1>1, <1>2, <1>3 DEF RequestRecord, RequestPC
<1>6. RequestStepOf(q)
  BY <1>1, <1>2, <1>3, <1>4, <1>5, LogsStay, RecordTypes DEF RequestStepOf, IInv
<1>7. RequestOK(q)'
  BY <1>3, <1>5, CallsAssumption DEF RequestOK, Target
<1>8. QED
  BY <1>6, <1>7, RequestStepIInv

-----------------------------------------------------------------------------
LEMMA InitIInv ==
  ASSUME Init
  PROVE  IInv
<1>1. NoJob.status = "absent" /\ ~NoJob.cancel
  BY JobForms
<1>2. IsABag(EmptyBag) /\ BagToSet(EmptyBag) = {}
  BY DEF IsABag, EmptyBag, BagToSet, SetToBag
<1>3. Len(Script) \in Nat
  BY ScriptFacts
<1>4. TypeOK /\ LogsAreBags
  <2>1. \A j \in Calls : logs[j] = EmptyBag
    BY DEF Init
  <2>2. LogsAreBags
    BY <1>2, <2>1 DEF Init, LogsAreBags
  <2>3. /\ call \in [Calls -> CallRecord] /\ exec \in [Calls -> ExecRecord]
        /\ request \in [Cancels -> RequestRecord]
    BY DEF Init, CallRecord, ExecRecord, RequestRecord, CallPC, ExecPC, RequestPC
  <2>4. 0 \in Nat /\ 0 \in 0..Len(Script)
    BY <1>3
  <2>5. QED
    BY <2>2, <2>3, <2>4 DEF Init, TypeOK, LogsAreBags, CallRecord, ExecRecord, RequestRecord
<1>5. \A c \in Calls : CallOK(c)
  BY <1>1 DEF Init, CallOK, Lives, JobOf, Decided
<1>6. \A q \in Cancels : RequestOK(q)
  BY DEF Init, RequestOK, Target
<1>7. \A j \in Calls : RowOK(j)
  BY <1>1 DEF Init, RowOK
<1>8. QED
  BY <1>4, <1>5, <1>6, <1>7 DEF IInv

LEMMA StepIInv ==
  ASSUME IInv, [Next]_vars
  PROVE  IInv'
<1>1. CASE UNCHANGED vars
  BY <1>1 DEF vars, IInv, TypeOK, LogsAreBags, CallOK, RequestOK, RowOK, Lives, Requested,
              Completed, JobOf, Target
<1>2. ASSUME NEW c \in Calls, CallStep(c)
      PROVE  IInv'
  BY <1>2, LookupIInv, InsertIInv, DispatchIInv, LinkIInv DEF CallStep
<1>3. ASSUME NEW c \in Calls, ExecStep(c)
      PROVE  IInv'
  BY <1>3, StartWorkerIInv, TimeoutIInv, SettleIInv, CloseIInv, ForgetIInv DEF ExecStep
<1>4. ASSUME NEW c \in Calls, WorkerStep(c)
      PROVE  IInv'
  BY <1>4, WorkerLogIInv, WorkerLoggedIInv, WorkerCheckpointIInv, WorkerCallIInv,
     WorkerSaveIInv DEF WorkerStep
<1>5. ASSUME NEW q \in Cancels, RequestStep(q)
      PROVE  IInv'
  BY <1>5, CheckCancelIInv, LogCancelIInv, FinishCancelIInv DEF RequestStep
<1>6. QED
  BY <1>1, <1>2, <1>3, <1>4, <1>5, RetryIInv, CancelIInv DEF Next

(* A completed execution has its call.                                     *)
LEMMA CompletedFacts ==
  ASSUME IInv
  PROVE  CompletedIsWhole /\ CancelledOnRequest
<1>1. ASSUME NEW j \in Calls, job[j].status = "completed"
      PROVE  \E c \in Executions(j) : artefacts[c] = Saves
  <2>1. PICK c \in Calls : JobOf(c) = j /\ exec[c].outcome = "completed"
    BY <1>1 DEF IInv, RowOK, Completed
  <2>2. exec[c].pc # "off" /\ artefacts[c] = Saves
    BY <2>1, CallFacts DEF Lives
  <2>3. QED
    BY <2>1, <2>2 DEF Executions
<1>2. QED
  BY <1>1 DEF CompletedIsWhole, CancelledOnRequest, IInv, RowOK, Requested

(* A completed job has all the rows of its worker, whatever timeouts,      *)
(* repeated requests and late answers do to it.                            *)
THEOREM JobsAreWhole == Spec => [](TypeOK /\ CompletedIsWhole)
<1>1. IInv /\ [Next]_vars => IInv'
  BY StepIInv
<1>2. IInv => TypeOK /\ CompletedIsWhole
  BY CompletedFacts DEF IInv
<1>3. QED
  BY <1>1, <1>2, InitIInv, PTL DEF Spec

(* A job is cancelled only on request.                                     *)
THEOREM JobsAreCancelledOnRequest == Spec => []CancelledOnRequest
<1>1. IInv /\ [Next]_vars => IInv'
  BY StepIInv
<1>2. IInv => CancelledOnRequest
  BY CompletedFacts
<1>3. QED
  BY <1>1, <1>2, InitIInv, PTL DEF Spec

-----------------------------------------------------------------------------
(* The log of a job.  x is its execution, w the worker, B the numbers of   *)
(* its entries and n the last number of the map: while the map knows the   *)
(* job it is ahead of every entry, and once the verdict is logged it is    *)
(* ahead of the entry of an orphaned worker too.                           *)
Numbers(x, w, B, n) ==
  /\ x.pc \in {"off", "progress"} => BagToSet(B) = {} /\ n = 0
  /\ \A e \in BagToSet(B) : B[e] = 1
  /\ w.seq # 0 => w.seq \notin BagToSet(B)
  /\ x.pc # "over" => w.seq <= n /\ \A e \in BagToSet(B) : e <= n
  /\ x.pc = "notify" => w.seq < n

Rowed(c) == call[c].pc \notin {"off", "insert"}

Traced(c) ==
  /\ Numbers(exec[c], worker[c], logs[JobOf(c)], logSeq[JobOf(c)])
  /\ Rowed(c) => job[JobOf(c)].status = object[c].status

Unused(j) == (\A c \in Calls : JobOf(c) # j) => BagToSet(logs[j]) = {} /\ logSeq[j] = 0
Inserted(j) == Stored(j) => JobOf(j) = j /\ Rowed(j)

LInv ==
  /\ IInv
  /\ \A j \in Calls : Inserted(j)
  /\ \A q \in Cancels : Target(q) # NoCall => Stored(Target(q))
  /\ \A j \in Calls : Undisturbed(j) => Unused(j)
  /\ \A c \in Calls : JobOf(c) # NoCall /\ Undisturbed(JobOf(c)) => Traced(c)

(* A step of call c touches no other call and no other job, and a row is   *)
(* new only when its own call inserts it.                                  *)
Moves(c) ==
  /\ \A d \in Calls \ {c} :
       /\ call'[d] = call[d] /\ exec'[d] = exec[d] /\ worker'[d] = worker[d]
       /\ object'[d] = object[d]
  /\ call[c].pc # "off" => call'[c].job = call[c].job
  /\ Rowed(c) => call'[c].pc \notin {"off", "insert"}
  /\ request' = request
  /\ \A j \in Calls : j # call'[c].job =>
       logs'[j] = logs[j] /\ logSeq'[j] = logSeq[j] /\ job'[j] = job[j]
  /\ \/ job' = job
     \/ /\ call'[c].pc \notin {"off", "insert"}
        /\ Rowed(c) \/ call'[c].job = c

(* What a step does to a settled job that nobody disturbs.                 *)
Steady == \A j \in Calls : Settled(j) /\ Undisturbed(j)' => job'[j].status = job[j].status

(* Nobody leaves a job.                                                    *)
LEMMA JobsAreKept ==
  ASSUME IInv, NEW c \in Calls, Moves(c)
  PROVE  /\ \A d \in Calls : JobOf(d) # NoCall => JobOf(d)' = JobOf(d)
         /\ \A j \in Calls : Undisturbed(j)' => Undisturbed(j)
<1>1. \A d \in Calls : JobOf(d) # NoCall => JobOf(d)' = JobOf(d)
  BY CallFacts DEF Moves, JobOf, Lives
<1>2. \A q \in Cancels : Target(q)' = Target(q)
  BY DEF Moves, Target
<1>3. QED
  BY <1>1, <1>2, CallsAssumption DEF Undisturbed

LEMMA WasTraced ==
  ASSUME LInv, NEW c \in Calls, Moves(c), call[c].pc # "off", Undisturbed(JobOf(c))'
  PROVE  JobOf(c) \in Calls /\ JobOf(c)' = JobOf(c) /\ Traced(c)
<1>1. IInv /\ JobOf(c) \in Calls
  BY CallFacts DEF LInv, JobOf
<1>2. JobOf(c)' = JobOf(c)
  BY DEF Moves, JobOf
<1>3. PICK j \in Calls : j = JobOf(c)
  BY <1>1
<1>4. Undisturbed(j)'
  BY <1>2, <1>3 DEF Undisturbed
<1>5. Undisturbed(j)
  BY <1>1, <1>4, JobsAreKept
<1>6. QED
  BY <1>1, <1>2, <1>3, <1>5, CallsAssumption DEF LInv

(* The invariant after a step of a call: its own job is to be shown.  An   *)
(* object that is over stays as it is.                                     *)
LEMMA MoveLInv ==
  ASSUME LInv, IInv', NEW c \in Calls, Moves(c), call'[c].pc # "off",
         Rowed(c) => object'[c].status = object[c].status \/ object[c].status \in Live,
         Undisturbed(JobOf(c))' => Traced(c)'
  PROVE  LInv' /\ Steady
<1> DEFINE j == call'[c].job
<1>1. IInv
  BY DEF LInv
<1>2. j \in Calls
  <2>1. CallOK(c)' /\ TypeOK'
    BY DEF IInv
  <2>2. call' \in [Calls -> CallRecord]
    BY <2>1 DEF TypeOK, CallRecord
  <2>3. call'[c] \in CallRecord
    BY <2>2
  <2>4. QED
    BY <2>1, <2>3 DEF CallOK, Lives, CallRecord
<1>3. \A i \in Calls : Stored(i) => Stored(i)'
  <2>1. CASE job' = job
    BY <2>1 DEF Stored
  <2>2. CASE call'[c].pc \notin {"off", "insert"}
    <3>1. CallOK(c)'
      BY DEF IInv
    <3>2. call'[c].pc \in {"dispatch", "link", "done"}
      <4>1. TypeOK'
        BY DEF IInv
      <4>2. call' \in [Calls -> CallRecord]
        BY <4>1 DEF TypeOK, CallRecord
      <4>3. QED
        BY <2>2, <4>2 DEF CallRecord, CallPC
    <3>3. job'[j] \in Job
      BY <3>1, <3>2 DEF CallOK, JobOf
    <3>4. job'[j].status # "absent"
      BY <3>3, JobForms, Statuses
    <3>5. QED
      BY <3>4 DEF Stored, Moves
  <2>3. QED
    BY <2>1, <2>2 DEF Moves
<1>4. \A i \in Calls : Inserted(i)'
  <2> SUFFICES ASSUME NEW i \in Calls, Stored(i)'
               PROVE  JobOf(i)' = i /\ Rowed(i)'
    BY DEF Inserted
  <2>1. CASE Stored(i)
    <3>1. JobOf(i) = i /\ Rowed(i)
      BY <2>1 DEF LInv, Inserted
    <3>2. JobOf(i)' = i
      BY <1>1, <3>1, JobsAreKept, CallsAssumption
    <3>3. Rowed(i)'
      BY <3>1 DEF Moves, Rowed
    <3>4. QED
      BY <3>2, <3>3
  <2>2. CASE ~Stored(i)
    <3>1. job'[i] # job[i]
      BY <2>2 DEF Stored
    <3>2. i = j /\ call'[c].pc \notin {"off", "insert"} /\ (Rowed(c) \/ j = c)
      BY <3>1 DEF Moves
    <3>3. ~Rowed(c)
      <4>1. Rowed(c) => JobOf(c) = i
        BY <3>2 DEF Moves, Rowed, JobOf
      <4>2. Rowed(c) => job[call[c].job] \in Job
        BY <1>1, CallFacts DEF Rowed, CallRecord, CallPC
      <4>3. QED
        BY <2>2, <4>1, <4>2, JobForms DEF JobOf
    <3>4. QED
      BY <3>2, <3>3 DEF Rowed, JobOf
  <2>3. QED
    BY <2>1, <2>2
<1>5. ASSUME NEW q \in Cancels, Target(q)' # NoCall
      PROVE  Stored(Target(q))'
  <2>1. Target(q)' = Target(q) /\ Stored(Target(q))
    BY <1>5 DEF Moves, Target, LInv
  <2>2. Target(q) \in Calls
    BY <1>1, <1>5, <2>1, RequestFacts DEF RequestOK
  <2>3. PICK i \in Calls : i = Target(q)
    BY <2>2
  <2>4. Stored(i)'
    BY <1>3, <2>1, <2>3
  <2>5. QED
    BY <2>1, <2>3, <2>4 DEF Stored
<1>6. ASSUME NEW i \in Calls, Undisturbed(i)'
      PROVE  Unused(i)'
  <2> SUFFICES ASSUME \A d \in Calls : JobOf(d)' # i
               PROVE  BagToSet(logs'[i]) = {} /\ logSeq'[i] = 0
    BY DEF Unused
  <2>1. \A d \in Calls : JobOf(d) # i
    BY <1>1, JobsAreKept, CallsAssumption
  <2>2. BagToSet(logs[i]) = {} /\ logSeq[i] = 0
    BY <1>1, <1>6, <2>1, JobsAreKept DEF LInv, Unused
  <2>3. i # j
    BY DEF JobOf
  <2>4. QED
    BY <2>2, <2>3 DEF Moves
<1>7. ASSUME NEW d \in Calls \ {c}, JobOf(d)' # NoCall, Undisturbed(JobOf(d))'
      PROVE  Traced(d)'
  <2>1. /\ call'[d] = call[d] /\ exec'[d] = exec[d] /\ worker'[d] = worker[d]
        /\ object'[d] = object[d]
    BY DEF Moves
  <2>2. PICK i \in Calls : JobOf(d) = i /\ JobOf(d)' = i
    BY <1>1, <1>7, <2>1, CallFacts DEF JobOf, CallRecord
  <2>3. Undisturbed(i)'
    BY <1>7, <2>2 DEF Undisturbed
  <2>4. i # j
    BY <2>2, <2>3 DEF Undisturbed, JobOf
  <2>5. Undisturbed(i) /\ Traced(d)
    BY <1>1, <2>2, <2>3, JobsAreKept, CallsAssumption DEF LInv
  <2>6. logs'[i] = logs[i] /\ logSeq'[i] = logSeq[i] /\ job'[i] = job[i]
    BY <2>2, <2>4 DEF Moves
  <2>7. QED
    BY <2>1, <2>2, <2>5, <2>6 DEF Traced, Rowed
<1>8. LInv'
  BY <1>4, <1>5, <1>6, <1>7 DEF LInv
<1>9. ASSUME NEW i \in Calls, Settled(i), Undisturbed(i)'
      PROVE  job'[i].status = job[i].status
  <2>1. JobOf(i) = i /\ Rowed(i)
    BY <1>9 DEF LInv, Inserted, Settled
  <2>2. JobOf(i)' = i /\ Rowed(i)'
    BY <1>1, <2>1, JobsAreKept, CallsAssumption DEF Moves, Rowed
  <2>3. Undisturbed(i) /\ Undisturbed(JobOf(i))'
    BY <1>1, <1>9, <2>2, JobsAreKept DEF Undisturbed
  <2>4. Traced(i) /\ Traced(i)'
    BY <1>8, <2>1, <2>2, <2>3, CallsAssumption DEF LInv
  <2>5. job[i].status = object[i].status /\ job'[i].status = object'[i].status
    BY <2>1, <2>2, <2>4 DEF Traced
  <2>6. object[i].status \notin Live
    <3>1. object[i] \in Job \cup {NoJob} /\ object[i].status # "absent"
      BY <1>1, <1>9, <2>5, CallFacts DEF Settled, Stored
    <3>2. object[i].status \in JobStatus
      BY <3>1, JobForms
    <3>3. QED
      BY <1>9, <2>5, <3>2, Statuses DEF Settled
  <2>7. QED
    BY <2>1, <2>5, <2>6 DEF Moves
<1>10. QED
  BY <1>8, <1>9 DEF Steady

(* A step after which the call has the log, the row and the object it had, *)
(* while its worker has no new entry under way.                            *)
LEMMA QuietStep ==
  ASSUME LInv, IInv', NEW c \in Calls, Moves(c), call[c].pc # "off", call'[c].pc # "off",
         UNCHANGED <<logs, logSeq>>,
         worker'[c].seq \in {0, worker[c].seq},
         exec'[c].pc \in {"off", "progress"} => exec[c].pc \in {"off", "progress"},
         exec'[c].pc = "notify" => exec[c].pc = "notify",
         exec[c].pc = "over" => exec'[c].pc = "over",
         Rowed(c) => object'[c].status = object[c].status \/ object[c].status \in Live,
         \/ job'[JobOf(c)].status = object'[c].status
         \/ job' = job /\ object'[c].status = object[c].status /\ (Rowed(c)' => Rowed(c))
  PROVE  LInv' /\ Steady
<1>1. ASSUME Undisturbed(JobOf(c))'
      PROVE  Traced(c)'
  <2>1. JobOf(c) \in Calls /\ JobOf(c)' = JobOf(c) /\ Traced(c)
    BY <1>1, WasTraced
  <2>2. PICK j \in Calls : JobOf(c) = j /\ JobOf(c)' = j
    BY <2>1
  <2>3. logSeq[j] \in Nat /\ worker[c].seq \in Nat /\ BagToSet(logs[j]) \subseteq Nat
    BY CallFacts, RecordTypes DEF LInv, IInv, WorkerRecord, LogsAreBags
  <2>4. Numbers(exec[c], worker[c], logs[j], logSeq[j])'
    BY <2>1, <2>2, <2>3 DEF Traced, Numbers
  <2>5. Rowed(c)' => job'[j].status = object'[c].status
    BY <2>1, <2>2 DEF Traced
  <2>6. QED
    BY <2>2, <2>4, <2>5 DEF Traced
<1>2. QED
  BY <1>1, MoveLInv

(* A call that takes a job of its own finds no log of it.                  *)
LEMMA NewJob ==
  ASSUME LInv, IInv', NEW c \in Calls, call[c].pc = "off",
         NEW r, call' = [call EXCEPT ![c] = r], r.pc = "insert", r.job = c,
         UNCHANGED <<job, object, exec, worker, abort, logSeq, logs, artefacts, request, crashed>>
  PROVE  LInv' /\ Steady
<1>1. call \in [Calls -> CallRecord]
  BY RecordTypes DEF LInv, IInv
<1>2. call'[c] = r
  BY <1>1
<1>3. Moves(c)
  BY <1>1, <1>2 DEF Moves, Rowed
<1>4. ASSUME Undisturbed(JobOf(c))'
      PROVE  Traced(c)'
  <2>1. JobOf(c)' = c /\ Undisturbed(c)'
    BY <1>2, <1>4 DEF Undisturbed, JobOf
  <2>2. JobOf(c) = NoCall /\ exec[c].pc = "off" /\ worker[c].seq = 0
    BY CallFacts DEF LInv, Lives, JobOf
  <2>3. \A d \in Calls : JobOf(d) # c
    BY <1>1, <2>1, <2>2, CallsAssumption DEF Undisturbed, JobOf
  <2>4. Undisturbed(c)
    BY <1>3, <2>1, JobsAreKept DEF LInv
  <2>5. BagToSet(logs[c]) = {} /\ logSeq[c] = 0
    BY <2>3, <2>4 DEF LInv, Unused
  <2>6. QED
    BY <1>2, <2>1, <2>2, <2>5 DEF Traced, Numbers, Rowed
<1>5. call'[c].pc # "off" /\ ~Rowed(c)
  BY <1>2 DEF Rowed
<1>6. QED
  BY <1>3, <1>4, <1>5, MoveLInv

LEMMA LookupLInv ==
  ASSUME LInv, NEW c \in Calls, Lookup(c)
  PROVE  LInv' /\ Steady
<1>1. IInv /\ IInv'
  BY LookupIInv DEF LInv
<1>2. /\ call[c].pc = "off" /\ call \in [Calls -> CallRecord] /\ object \in [Calls -> Job \cup {NoJob}]
      /\ UNCHANGED <<job, exec, worker, abort, logSeq, logs, artefacts, request, crashed>>
  BY <1>1, RecordTypes DEF Lookup, IInv
<1>3. CASE To(c, "insert", c) /\ object' = object
  <2> DEFINE r == [call[c] EXCEPT !.pc = "insert", !.job = c]
  <2>1. call' = [call EXCEPT ![c] = r]
    BY <1>2, <1>3 DEF To
  <2>2. r.pc = "insert" /\ r.job = c
    BY <1>2 DEF CallRecord
  <2> HIDE DEF r
  <2>3. QED
    BY <1>1, <1>2, <1>3, <2>1, <2>2, NewJob
<1>4. CASE \E j \in Calls : Stored(j) /\ To(c, "dispatch", j) /\ object' = [object EXCEPT ![c] = job[j]]
  <2>1. PICK j \in Calls : /\ Stored(j) /\ To(c, "dispatch", j)
                           /\ object' = [object EXCEPT ![c] = job[j]]
    BY <1>4
  <2>2. call'[c].pc = "dispatch" /\ call'[c].job = j
    BY <1>2, <2>1 DEF To, CallRecord
  <2>3. \A d \in Calls \ {c} : call'[d] = call[d]
    BY <1>2, <2>1 DEF To
  <2>4. Moves(c)
    BY <1>2, <2>1, <2>2, <2>3 DEF Moves, Rowed
  <2>5. ~Undisturbed(JobOf(c))'
    <3>1. JobOf(j) = j /\ Rowed(j)
      BY <2>1 DEF LInv, Inserted
    <3>2. j # c
      BY <1>2, <3>1 DEF Rowed
    <3>3. JobOf(j)' = j /\ JobOf(c)' = j
      BY <2>2, <2>3, <3>1, <3>2 DEF JobOf
    <3>4. QED
      BY <3>2, <3>3 DEF Undisturbed
  <2>6. call'[c].pc # "off" /\ ~Rowed(c)
    BY <1>2, <2>2 DEF Rowed
  <2>7. QED
    BY <1>1, <2>4, <2>5, <2>6, MoveLInv
<1>5. QED
  BY <1>3, <1>4, SameKeyAssumption DEF Lookup

LEMMA RetryLInv ==
  ASSUME LInv, NEW c \in Calls, NEW j \in Calls, Retry(c, j)
  PROVE  LInv' /\ Steady
<1> DEFINE r == [pc |-> "insert", job |-> c, retryOf |-> j]
<1>1. r.pc = "insert" /\ r.job = c /\ call' = [call EXCEPT ![c] = r]
  BY DEF Retry
<1>2. IInv'
  BY RetryIInv DEF LInv
<1> HIDE DEF r
<1>3. QED
  BY <1>1, <1>2, NewJob DEF Retry

LEMMA InsertLInv ==
  ASSUME LInv, NEW c \in Calls, Insert(c)
  PROVE  LInv' /\ Steady
<1>1. IInv /\ IInv'
  BY InsertIInv DEF LInv
<1>2. /\ call[c].pc = "insert" /\ call' = [call EXCEPT ![c].pc = "dispatch", ![c].job = c]
      /\ job' = [job EXCEPT ![c] = Queued] /\ object' = [object EXCEPT ![c] = Queued]
      /\ UNCHANGED <<exec, worker, abort, logSeq, logs, artefacts, request, crashed>>
  BY DEF Insert, To, Save
<1>3. /\ job \in [Calls -> Job \cup {NoJob}] /\ call \in [Calls -> CallRecord]
      /\ object \in [Calls -> Job \cup {NoJob}] /\ call[c].job = c
  BY <1>1, <1>2, RecordTypes, CallFacts DEF IInv
<1>4. call'[c].pc = "dispatch" /\ call'[c].job = c /\ job'[c] = Queued /\ object'[c] = Queued
  BY <1>2, <1>3 DEF CallRecord
<1>5. Moves(c) /\ ~Rowed(c) /\ job'[JobOf(c)].status = object'[c].status
  BY <1>2, <1>3, <1>4 DEF Moves, Rowed, JobOf
<1>6. QED
  BY <1>1, <1>2, <1>4, <1>5, QuietStep

LEMMA DispatchLInv ==
  ASSUME LInv, NEW c \in Calls, Dispatch(c)
  PROVE  LInv' /\ Steady
<1> DEFINE j == call[c].job
<1>1. IInv /\ IInv'
  BY DispatchIInv DEF LInv
<1>2. PICK pc \in {"done", "link"} :
        /\ call[c].pc = "dispatch" /\ call' = [call EXCEPT ![c].pc = pc, ![c].job = j]
        /\ UNCHANGED <<worker, abort, logSeq, logs, artefacts, request>>
  BY DEF Dispatch, To, JobOf
<1>3. /\ job \in [Calls -> Job \cup {NoJob}] /\ call \in [Calls -> CallRecord]
      /\ object \in [Calls -> Job \cup {NoJob}] /\ exec \in [Calls -> ExecRecord]
  BY <1>1, RecordTypes DEF IInv
<1>4. /\ call'[c].pc = pc /\ call'[c].job = j /\ Rowed(c) /\ j \in Calls /\ object[c] \in Job
      /\ exec[c].pc = "off" /\ call'[c].pc # "off" /\ call[c].pc # "off" /\ JobOf(c) = j
      /\ call'[c].job = call[c].job /\ call'[c].pc \notin {"off", "insert"}
  BY <1>1, <1>2, <1>3, CallFacts DEF CallRecord, Rowed, JobOf, Lives
<1>5. \A d \in Calls \ {c} : call'[d] = call[d]
  BY <1>2, <1>3
<1> HIDE DEF j
<1>6. CASE CanTransition(JobTransitions, object[c].status, "running")
  <2> DEFINE o == [object[c] EXCEPT !.status = "running"]
  <2>1. /\ object' = [object EXCEPT ![c] = o] /\ job' = [job EXCEPT ![j] = o]
        /\ exec' = [exec EXCEPT ![c].pc = "progress"]
    BY <1>4, <1>6 DEF Dispatch, Save
  <2> HIDE DEF o
  <2>2. object'[c] = o /\ job'[j] = o /\ exec'[c].pc = "progress"
    BY <1>3, <1>4, <2>1 DEF ExecRecord
  <2>3. object[c].status \in Live
    <3>1. object[c].status \in JobStatus
      BY <1>4, JobForms
    <3>2. QED
      BY <1>6, <3>1, MayRun DEF Live
  <2>4. Moves(c)
    BY <1>2, <1>3, <1>4, <1>5, <2>1 DEF Moves, Rowed
  <2>5. job'[JobOf(c)].status = object'[c].status
    BY <1>4, <2>2
  <2>6. QED
    BY <1>1, <1>2, <1>4, <2>2, <2>3, <2>4, <2>5, QuietStep
<1>7. CASE ~CanTransition(JobTransitions, object[c].status, "running")
  <2>1. UNCHANGED <<job, object, exec>>
    BY <1>7 DEF Dispatch
  <2>2. Moves(c)
    BY <1>2, <1>3, <1>4, <1>5, <2>1 DEF Moves, Rowed
  <2>3. QED
    BY <1>1, <1>2, <1>4, <2>1, <2>2, QuietStep
<1>8. QED
  BY <1>6, <1>7

LEMMA LinkLInv ==
  ASSUME LInv, NEW c \in Calls, Link(c)
  PROVE  LInv' /\ Steady
<1>1. IInv /\ IInv'
  BY LinkIInv DEF LInv
<1>2. /\ call[c].pc = "link" /\ call' = [call EXCEPT ![c].pc = "done", ![c].job = call[c].job]
      /\ job' = [job EXCEPT ![c].retryOf = call[c].retryOf]
      /\ UNCHANGED <<object, exec, worker, abort, logSeq, logs, artefacts, request, crashed>>
  BY DEF Link, To, JobOf
<1>3. /\ job \in [Calls -> Job \cup {NoJob}] /\ call \in [Calls -> CallRecord]
      /\ object \in [Calls -> Job \cup {NoJob}] /\ call[c].job = c /\ job[c] \in Job
  BY <1>1, <1>2, RecordTypes, CallFacts DEF IInv
<1>4. call'[c].pc = "done" /\ call'[c].job = c /\ job'[c].status = job[c].status
  BY <1>2, <1>3 DEF CallRecord, Job
<1>5. Moves(c)
  BY <1>2, <1>3, <1>4 DEF Moves, Rowed
<1>6. ASSUME Undisturbed(JobOf(c))'
      PROVE  Traced(c)'
  <2>1. JobOf(c)' = JobOf(c) /\ JobOf(c) = c /\ Traced(c) /\ Rowed(c)
    BY <1>2, <1>3, <1>5, <1>6, WasTraced DEF JobOf, Rowed
  <2>2. JobOf(c)' = c /\ job[c].status = object[c].status
    BY <2>1 DEF Traced
  <2>3. Numbers(exec[c], worker[c], logs[c], logSeq[c])'
    BY <1>2, <2>1 DEF Traced
  <2>4. QED
    BY <1>2, <1>4, <2>2, <2>3 DEF Traced
<1>7. QED
  BY <1>1, <1>2, <1>4, <1>5, <1>6, MoveLInv

(* A step of an execution or of its worker.                                *)
LEMMA ExecMoves ==
  ASSUME IInv, NEW c \in Calls, exec[c].pc # "off", UNCHANGED <<call, request>>,
         \A d \in Calls \ {c} :
           exec'[d] = exec[d] /\ worker'[d] = worker[d] /\ object'[d] = object[d],
         \A j \in Calls : j # JobOf(c) =>
           logs'[j] = logs[j] /\ logSeq'[j] = logSeq[j] /\ job'[j] = job[j]
  PROVE  Moves(c) /\ call[c].pc # "off" /\ call'[c].pc # "off" /\ Rowed(c) /\ Rowed(c)'
<1>1. call[c].pc \in {"link", "done"}
  BY CallFacts
<1>2. QED
  BY <1>1 DEF Moves, Rowed, JobOf

(* The entries of execute(): the worker's number, if it has one, is older. *)
LEMMA LoggedNumbers ==
  ASSUME IInv, NEW c \in Calls, exec[c].pc \in {"progress", "closing"}, Traced(c),
         Log(JobOf(c), object[c]), exec'[c].pc \in {"race", "notify"},
         worker'[c].seq = worker[c].seq, UNCHANGED <<call, object>>
  PROVE  Traced(c)'
<1>1. PICK j \in Calls : JobOf(c) = j /\ JobOf(c)' = j
  BY CallFacts DEF JobOf
<1>2. /\ logSeq[j] \in Nat /\ worker[c].seq \in Nat /\ logSeq \in [Calls -> Nat]
      /\ job \in [Calls -> Job \cup {NoJob}]
  BY CallFacts, RecordTypes DEF IInv, WorkerRecord
<1>3. PICK n \in Nat : n = logSeq[j] + 1
  BY <1>2
<1>4. /\ logs' = [logs EXCEPT ![j] = With(logs[j], n)] /\ logSeq' = [logSeq EXCEPT ![j] = n]
      /\ job' = [job EXCEPT ![j] = object[c]]
  BY <1>1, <1>3 DEF Log, TakeSeq, Persist, NextSeq, Save, With
<1>5. DOMAIN logs = Calls /\ IsABag(logs[j]) /\ BagToSet(logs[j]) \subseteq Nat
  BY DEF IInv, LogsAreBags
<1>6. /\ BagToSet(With(logs[j], n)) = BagToSet(logs[j]) \cup {n}
      /\ \A e \in BagToSet(logs[j]) \ {n} : With(logs[j], n)[e] = logs[j][e]
      /\ n \notin BagToSet(logs[j]) => With(logs[j], n)[n] = 1
  BY <1>5, BagFacts
<1>7. logs'[j] = With(logs[j], n) /\ logSeq'[j] = n /\ job'[j] = object[c]
  BY <1>2, <1>4, <1>5
<1>8. /\ \A e \in BagToSet(logs[j]) : logs[j][e] = 1 /\ e < n
      /\ worker[c].seq # 0 => worker[c].seq \notin BagToSet(logs[j])
      /\ worker[c].seq < n
  BY <1>1, <1>2, <1>3, <1>5 DEF Traced, Numbers
<1>9. n \notin BagToSet(logs[j])
  BY <1>8
<1>10. \A e \in BagToSet(logs'[j]) : logs'[j][e] = 1 /\ e <= n
  BY <1>5, <1>6, <1>7, <1>8, <1>9
<1>11. worker[c].seq # 0 => worker[c].seq \notin BagToSet(logs'[j])
  BY <1>2, <1>6, <1>7, <1>8
<1>12. Numbers(exec[c], worker[c], logs[j], logSeq[j])'
  BY <1>2, <1>7, <1>8, <1>10, <1>11 DEF Numbers
<1>13. QED
  BY <1>1, <1>7, <1>12 DEF Traced

LEMMA LogOnly ==
  ASSUME IInv, NEW c \in Calls, Log(JobOf(c), object[c])
  PROVE  \A i \in Calls : i # JobOf(c) =>
           logs'[i] = logs[i] /\ logSeq'[i] = logSeq[i] /\ job'[i] = job[i]
BY RecordTypes DEF IInv, LogsAreBags, Log, TakeSeq, Persist, NextSeq, Save

LEMMA StartWorkerLInv ==
  ASSUME LInv, NEW c \in Calls, StartWorker(c)
  PROVE  LInv' /\ Steady
<1>1. IInv /\ IInv'
  BY StartWorkerIInv DEF LInv
<1>2. /\ exec[c].pc = "progress" /\ exec' = [exec EXCEPT ![c].pc = "race"]
      /\ worker' = [worker EXCEPT ![c].at = 1] /\ Log(JobOf(c), object[c])
      /\ UNCHANGED <<call, object, abort, artefacts, request, crashed>>
  BY DEF StartWorker, ExecAt, ExecTo
<1>3. exec \in [Calls -> ExecRecord] /\ worker \in [Calls -> WorkerRecord]
  BY <1>1, RecordTypes DEF IInv
<1>4. exec'[c].pc = "race" /\ worker'[c].seq = worker[c].seq
  BY <1>2, <1>3 DEF ExecRecord, WorkerRecord
<1>5. \A i \in Calls : i # JobOf(c) =>
        logs'[i] = logs[i] /\ logSeq'[i] = logSeq[i] /\ job'[i] = job[i]
  BY <1>1, <1>2, LogOnly
<1>6. Moves(c) /\ call[c].pc # "off" /\ call'[c].pc # "off"
  BY <1>1, <1>2, <1>3, <1>5, ExecMoves
<1>7. Undisturbed(JobOf(c))' => Traced(c)'
  BY <1>1, <1>2, <1>4, <1>6, WasTraced, LoggedNumbers
<1>8. QED
  BY <1>1, <1>2, <1>6, <1>7, MoveLInv

LEMMA TimeoutLInv ==
  ASSUME LInv, NEW c \in Calls, Timeout(c)
  PROVE  LInv' /\ Steady
<1>1. IInv /\ IInv'
  BY TimeoutIInv DEF LInv
<1>2. /\ exec[c].pc = "race" /\ Decide(c, "timed_out") /\ "timed_out" \in Outcomes
      /\ UNCHANGED <<job, call, object, worker, logSeq, logs, artefacts, request, crashed>>
  BY DEF Timeout, ExecAt, Outcomes
<1>3. exec'[c].pc = "settle" /\ \A d \in Calls \ {c} : exec'[d] = exec[d]
  BY <1>1, <1>2, DecideFacts
<1>4. Moves(c) /\ call[c].pc # "off" /\ call'[c].pc # "off"
  BY <1>1, <1>2, <1>3, ExecMoves
<1>5. QED
  BY <1>1, <1>2, <1>3, <1>4, QuietStep DEF Rowed

LEMMA SettleLInv ==
  ASSUME LInv, NEW c \in Calls, Settle(c)
  PROVE  LInv' /\ Steady
<1> DEFINE o == [object[c] EXCEPT !.status = exec[c].outcome]
<1>1. IInv /\ IInv'
  BY SettleIInv DEF LInv
<1>2. /\ exec[c].pc = "settle" /\ exec' = [exec EXCEPT ![c].pc = "closing"]
      /\ object' = [object EXCEPT ![c] = o] /\ job' = [job EXCEPT ![JobOf(c)] = o]
      /\ UNCHANGED <<call, worker, abort, logSeq, logs, artefacts, request, crashed>>
  BY DEF Settle, ExecAt, ExecTo, Save
<1> HIDE DEF o
<1>3. /\ job \in [Calls -> Job \cup {NoJob}] /\ object \in [Calls -> Job \cup {NoJob}]
      /\ exec \in [Calls -> ExecRecord] /\ JobOf(c) \in Calls
  BY <1>1, <1>2, RecordTypes, CallFacts DEF IInv, JobOf
<1>4. exec'[c].pc = "closing" /\ object'[c] = o /\ job'[JobOf(c)] = o
  BY <1>2, <1>3 DEF ExecRecord
<1>5. Moves(c) /\ call[c].pc # "off" /\ call'[c].pc # "off"
  BY <1>1, <1>2, <1>3, ExecMoves
<1>6. object[c].status \in Live
  BY <1>1, <1>2, CallFacts DEF Lives, Live
<1>7. QED
  BY <1>1, <1>2, <1>4, <1>5, <1>6, QuietStep

LEMMA CloseLInv ==
  ASSUME LInv, NEW c \in Calls, Close(c)
  PROVE  LInv' /\ Steady
<1>1. IInv /\ IInv'
  BY CloseIInv DEF LInv
<1>2. /\ exec[c].pc = "closing" /\ exec' = [exec EXCEPT ![c].pc = "notify"]
      /\ Log(JobOf(c), object[c])
      /\ UNCHANGED <<call, object, worker, abort, artefacts, request, crashed>>
  BY DEF Close, ExecAt, ExecTo
<1>3. exec \in [Calls -> ExecRecord]
  BY <1>1, RecordTypes DEF IInv
<1>4. exec'[c].pc = "notify"
  BY <1>2, <1>3 DEF ExecRecord
<1>5. \A i \in Calls : i # JobOf(c) =>
        logs'[i] = logs[i] /\ logSeq'[i] = logSeq[i] /\ job'[i] = job[i]
  BY <1>1, <1>2, LogOnly
<1>6. Moves(c) /\ call[c].pc # "off" /\ call'[c].pc # "off"
  BY <1>1, <1>2, <1>3, <1>5, ExecMoves
<1>7. Undisturbed(JobOf(c))' => Traced(c)'
  BY <1>1, <1>2, <1>4, <1>6, WasTraced, LoggedNumbers
<1>8. QED
  BY <1>1, <1>2, <1>6, <1>7, MoveLInv

(* The number is forgotten when no worker can ask for another.             *)
LEMMA ForgetLInv ==
  ASSUME LInv, NEW c \in Calls, Forget(c)
  PROVE  LInv' /\ Steady
<1>1. IInv /\ IInv'
  BY ForgetIInv DEF LInv
<1>2. /\ exec[c].pc = "notify" /\ exec' = [exec EXCEPT ![c].pc = "over"]
      /\ logSeq' = [logSeq EXCEPT ![JobOf(c)] = 0]
      /\ UNCHANGED <<job, call, object, worker, abort, logs, artefacts, request, crashed>>
  BY DEF Forget, ExecAt, ExecTo
<1>3. exec \in [Calls -> ExecRecord] /\ logSeq \in [Calls -> Nat]
  BY <1>1, RecordTypes DEF IInv
<1>4. exec'[c].pc = "over"
  BY <1>2, <1>3 DEF ExecRecord
<1>5. Moves(c) /\ call[c].pc # "off" /\ call'[c].pc # "off"
  BY <1>1, <1>2, <1>3, ExecMoves
<1>6. Undisturbed(JobOf(c))' => Traced(c)'
  BY <1>2, <1>4, <1>5, WasTraced DEF Traced, Numbers, Rowed
<1>7. QED
  BY <1>1, <1>2, <1>5, <1>6, MoveLInv

(* What a worker does to its execution when it stops or goes on.           *)
LEMMA WorkerMoves ==
  ASSUME IInv, NEW c \in Calls, worker[c].at # 0,
         Throw(c, "failed") \/ Throw(c, "cancelled") \/ Advance(c)
  PROVE  /\ worker'[c].seq = 0
         /\ \A d \in Calls \ {c} : exec'[d] = exec[d] /\ worker'[d] = worker[d]
         /\ exec'[c].pc = IF exec[c].pc = "race" /\ exec'[c].pc # "race"
                          THEN "settle" ELSE exec[c].pc
         /\ exec[c].pc \in {"race"} \cup Decided
<1>1. /\ worker \in [Calls -> WorkerRecord] /\ exec \in [Calls -> ExecRecord]
      /\ "failed" \in Outcomes /\ "cancelled" \in Outcomes /\ "completed" \in Outcomes
      /\ exec[c].pc \in {"race"} \cup Decided
  BY RecordTypes, WorkerFacts DEF IInv, Outcomes
<1>2. worker'[c].seq = 0 /\ \A d \in Calls \ {c} : worker'[d] = worker[d]
  BY <1>1 DEF Throw, Advance
<1>3. CASE \E outcome \in Outcomes : Decide(c, outcome)
  BY <1>1, <1>2, <1>3, DecideFacts
<1>4. CASE exec' = exec
  BY <1>1, <1>2, <1>4
<1>5. QED
  BY <1>1, <1>3, <1>4 DEF Throw, Advance

LEMMA WorkerQuiet ==
  ASSUME LInv, IInv', NEW c \in Calls, worker[c].at # 0,
         Throw(c, "failed") \/ Throw(c, "cancelled") \/ Advance(c),
         UNCHANGED <<job, call, object, logSeq, logs, request>>
  PROVE  LInv' /\ Steady
<1>1. /\ worker'[c].seq = 0
      /\ \A d \in Calls \ {c} : exec'[d] = exec[d] /\ worker'[d] = worker[d]
      /\ exec'[c].pc \in {"settle", exec[c].pc}
      /\ exec'[c].pc # exec[c].pc => exec[c].pc = "race"
      /\ exec[c].pc \in {"race"} \cup Decided
  BY WorkerMoves DEF LInv
<1>2. exec[c].pc # "off" /\ IInv
  BY <1>1 DEF Decided, LInv
<1>3. Moves(c) /\ call[c].pc # "off" /\ call'[c].pc # "off"
  BY <1>1, <1>2, ExecMoves
<1>4. QED
  BY <1>1, <1>3, QuietStep DEF Decided, Rowed

(* An entry is begun only while the race is open.                          *)
LEMMA WorkerLogLInv ==
  ASSUME LInv, NEW c \in Calls, WorkerLog(c)
  PROVE  LInv' /\ Steady
<1>1. IInv /\ IInv'
  BY WorkerLogIInv DEF LInv
<1>2. /\ worker[c].at # 0
      /\ UNCHANGED <<job, call, object, logs, artefacts, request, crashed>>
  BY DEF WorkerLog, At
<1>3. CASE abort[c]
  <2>1. Throw(c, "cancelled") /\ logSeq' = logSeq
    BY <1>3 DEF WorkerLog
  <2>2. QED
    BY <1>1, <1>2, <2>1, WorkerQuiet
<1>4. CASE ~abort[c]
  <2>1. exec[c].pc = "race" /\ JobOf(c) \in Calls
    BY <1>1, <1>2, <1>4, WorkerFacts
  <2>2. PICK j \in Calls : JobOf(c) = j /\ JobOf(c)' = j
    BY <1>2, <2>1 DEF JobOf
  <2>3. /\ logSeq \in [Calls -> Nat] /\ worker \in [Calls -> WorkerRecord]
        /\ BagToSet(logs[j]) \subseteq Nat
    BY <1>1, RecordTypes DEF IInv, LogsAreBags
  <2>4. PICK n \in Nat : n = logSeq[j] + 1
    BY <2>3
  <2>5. /\ logSeq' = [logSeq EXCEPT ![j] = n] /\ worker' = [worker EXCEPT ![c].seq = n]
        /\ exec' = exec
    BY <1>4, <2>2, <2>4 DEF WorkerLog, TakeSeq, NextSeq
  <2>6. logSeq'[j] = n /\ worker'[c].seq = n
    BY <2>3, <2>5 DEF WorkerRecord
  <2>7. Moves(c) /\ call[c].pc # "off" /\ call'[c].pc # "off"
    BY <1>1, <1>2, <2>1, <2>2, <2>3, <2>5, ExecMoves
  <2>8. ASSUME Undisturbed(JobOf(c))'
        PROVE  Traced(c)'
    <3>1. Traced(c)
      BY <2>7, <2>8, WasTraced
    <3>2. \A e \in BagToSet(logs[j]) : e < n /\ logs[j][e] = 1
      BY <2>1, <2>2, <2>3, <2>4, <3>1 DEF Traced, Numbers
    <3>3. Numbers(exec[c], worker[c], logs[j], logSeq[j])'
      BY <1>2, <2>1, <2>3, <2>4, <2>5, <2>6, <3>2 DEF Numbers
    <3>4. QED
      BY <1>2, <2>2, <3>1, <3>3 DEF Traced, Rowed
  <2>9. QED
    BY <1>1, <1>2, <2>7, <2>8, MoveLInv
<1>5. QED
  BY <1>3, <1>4

LEMMA WorkerLoggedLInv ==
  ASSUME LInv, NEW c \in Calls, WorkerLogged(c)
  PROVE  LInv' /\ Steady
<1> DEFINE n == worker[c].seq
<1>1. IInv /\ IInv'
  BY WorkerLoggedIInv DEF LInv
<1>2. /\ n # 0 /\ n \in Nat /\ worker[c].at # 0 /\ Advance(c)
      /\ UNCHANGED <<call, object, logSeq, artefacts, request, crashed>>
  BY <1>1, CallFacts DEF WorkerLogged, Lives, WorkerRecord
<1>3. /\ worker'[c].seq = 0
      /\ \A d \in Calls \ {c} : exec'[d] = exec[d] /\ worker'[d] = worker[d]
      /\ exec'[c].pc \in {"settle", exec[c].pc}
      /\ exec'[c].pc # exec[c].pc => exec[c].pc = "race"
      /\ exec[c].pc \in {"race"} \cup Decided
  BY <1>1, <1>2, WorkerMoves
<1>4. PICK j \in Calls : JobOf(c) = j /\ JobOf(c)' = j
  BY <1>1, <1>2, WorkerFacts DEF JobOf
<1>5. /\ logs' = [logs EXCEPT ![j] = With(logs[j], n)] /\ job' = [job EXCEPT ![j] = object[c]]
  BY <1>4 DEF WorkerLogged, Persist, Save, With
<1>6. /\ DOMAIN logs = Calls /\ IsABag(logs[j]) /\ BagToSet(logs[j]) \subseteq Nat
      /\ job \in [Calls -> Job \cup {NoJob}] /\ logSeq[j] \in Nat
  BY <1>1, RecordTypes DEF IInv, LogsAreBags
<1>7. logs'[j] = With(logs[j], n) /\ job'[j] = object[c]
  BY <1>5, <1>6
<1>8. /\ BagToSet(With(logs[j], n)) = BagToSet(logs[j]) \cup {n}
      /\ \A e \in BagToSet(logs[j]) \ {n} : With(logs[j], n)[e] = logs[j][e]
      /\ n \notin BagToSet(logs[j]) => With(logs[j], n)[n] = 1
  BY <1>2, <1>6, BagFacts
<1> HIDE DEF n
<1>9. exec[c].pc # "off"
  BY <1>3 DEF Decided
<1>10. Moves(c) /\ call[c].pc # "off" /\ call'[c].pc # "off"
  <2>1. \A i \in Calls : i # j =>
          logs'[i] = logs[i] /\ logSeq'[i] = logSeq[i] /\ job'[i] = job[i]
    BY <1>2, <1>5, <1>6
  <2>2. QED
    BY <1>1, <1>2, <1>3, <1>4, <1>9, <2>1, ExecMoves
<1>11. ASSUME Undisturbed(JobOf(c))'
       PROVE  Traced(c)'
  <2>1. Traced(c)
    BY <1>10, <1>11, WasTraced
  <2>2. Numbers(exec[c], worker[c], logs[j], logSeq[j])
    BY <1>4, <2>1 DEF Traced
  <2>3. n \notin BagToSet(logs[j]) /\ \A e \in BagToSet(logs[j]) : logs[j][e] = 1
    BY <1>2, <2>2 DEF Numbers, n
  <2>4. \A e \in BagToSet(logs'[j]) : logs'[j][e] = 1
    BY <1>7, <1>8, <2>3
  <2>5. exec'[c].pc # "over" =>
          exec[c].pc # "over" /\ n <= logSeq[j] /\ \A e \in BagToSet(logs[j]) : e <= logSeq[j]
    BY <1>3, <2>2 DEF Numbers, n
  <2>6. exec'[c].pc # "over" => \A e \in BagToSet(logs'[j]) : e <= logSeq'[j]
    BY <1>2, <1>7, <1>8, <2>5
  <2>7. exec'[c].pc = "notify" => 0 < logSeq[j]
    BY <1>2, <1>3, <1>6, <2>2 DEF Numbers, n
  <2>8. Numbers(exec[c], worker[c], logs[j], logSeq[j])'
    BY <1>2, <1>3, <1>6, <2>4, <2>6, <2>7 DEF Numbers, Decided
  <2>9. QED
    BY <1>2, <1>4, <1>7, <2>8 DEF Traced
<1>12. QED
  BY <1>1, <1>2, <1>10, <1>11, MoveLInv

LEMMA WorkerCheckpointLInv ==
  ASSUME LInv, NEW c \in Calls, WorkerCheckpoint(c)
  PROVE  LInv' /\ Steady
BY WorkerCheckpointIInv, WorkerQuiet DEF LInv, WorkerCheckpoint, At

LEMMA WorkerCallLInv ==
  ASSUME LInv, NEW c \in Calls, WorkerCall(c)
  PROVE  LInv' /\ Steady
BY WorkerCallIInv, WorkerQuiet DEF LInv, WorkerCall, At

LEMMA WorkerSaveLInv ==
  ASSUME LInv, NEW c \in Calls, WorkerSave(c)
  PROVE  LInv' /\ Steady
BY WorkerSaveIInv, WorkerQuiet DEF LInv, WorkerSave, At

-----------------------------------------------------------------------------
(* A cancel() disturbs the job it works on and no other.                   *)
RequestMoves(q) ==
  /\ UNCHANGED <<call, object, exec, worker>>
  /\ \A p \in Cancels \ {q} : request'[p] = request[p]
  /\ Target(q) = NoCall \/ Target(q)' = Target(q)
  /\ Target(q)' \in Calls
  /\ Stored(Target(q)')
  /\ \A j \in Calls : j # Target(q)' =>
       logs'[j] = logs[j] /\ logSeq'[j] = logSeq[j] /\ job'[j] = job[j]
  /\ job'[Target(q)'].status # "absent"

LEMMA RequestMoveLInv ==
  ASSUME LInv, IInv', NEW q \in Cancels, RequestMoves(q)
  PROVE  LInv' /\ Steady
<1>1. PICK t \in Calls : Target(q)' = t
  BY DEF RequestMoves
<1>2. \A p \in Cancels : Target(p)' = IF p = q THEN t ELSE Target(p)
  BY <1>1 DEF RequestMoves, Target
<1>3. /\ \A c \in Calls : JobOf(c)' = JobOf(c) /\ (Rowed(c)' <=> Rowed(c))
      /\ \A j \in Calls : Stored(j)' <=> Stored(j)
  BY <1>1 DEF RequestMoves, JobOf, Rowed, Stored
<1>4. ASSUME NEW j \in Calls, Undisturbed(j)'
      PROVE  /\ Undisturbed(j) /\ logs'[j] = logs[j] /\ logSeq'[j] = logSeq[j]
             /\ job'[j] = job[j]
  <2>1. j # t
    BY <1>1, <1>4 DEF Undisturbed
  <2>2. \A p \in Cancels : Target(p) # j
    <3>1. \A p \in Cancels : Target(p)' # j
      BY <1>4 DEF Undisturbed
    <3>2. QED
      BY <1>1, <1>2, <3>1, CallsAssumption DEF RequestMoves
  <2>3. QED
    BY <1>1, <1>3, <1>4, <2>1, <2>2 DEF Undisturbed, RequestMoves
<1>5. \A j \in Calls : Inserted(j)'
  BY <1>3 DEF LInv, Inserted
<1>6. ASSUME NEW p \in Cancels, Target(p)' # NoCall
      PROVE  Stored(Target(p))'
  <2>1. CASE p = q
    BY <1>1, <2>1 DEF RequestMoves, Stored
  <2>2. CASE p # q
    <3>1. Target(p)' = Target(p) /\ Stored(Target(p)) /\ Target(p) \in Calls
      BY <1>2, <1>6, <2>2, RequestFacts DEF LInv, RequestOK
    <3>2. PICK j \in Calls : Target(p) = j /\ Target(p)' = j
      BY <3>1
    <3>3. Stored(j)'
      BY <1>3, <3>1, <3>2
    <3>4. QED
      BY <3>2, <3>3 DEF Stored
  <2>3. QED
    BY <2>1, <2>2
<1>7. \A j \in Calls : Undisturbed(j)' => Unused(j)'
  BY <1>3, <1>4 DEF LInv, Unused
<1>8. ASSUME NEW c \in Calls, JobOf(c)' # NoCall, Undisturbed(JobOf(c))'
      PROVE  Traced(c)'
  <2>1. PICK j \in Calls : JobOf(c) = j /\ JobOf(c)' = j
    BY <1>3, <1>8, CallFacts DEF LInv, JobOf, CallRecord
  <2>2. Undisturbed(j)'
    BY <1>8, <2>1 DEF Undisturbed
  <2>3. Traced(c) /\ logs'[j] = logs[j] /\ logSeq'[j] = logSeq[j] /\ job'[j] = job[j]
    BY <1>4, <2>1, <2>2, CallsAssumption DEF LInv
  <2>4. QED
    BY <2>1, <2>3 DEF Traced, Rowed, RequestMoves
<1>9. QED
  BY <1>4, <1>5, <1>6, <1>7, <1>8 DEF LInv, Steady

LEMMA CancelLInv ==
  ASSUME LInv, NEW q \in Cancels, NEW j \in Calls, Cancel(q, j)
  PROVE  LInv' /\ Steady
<1> DEFINE r == [pc |-> "check", id |-> j, job |-> job[j]]
<1>1. IInv /\ IInv'
  BY CancelIInv DEF LInv
<1>2. /\ request[q].pc = "off" /\ Stored(j) /\ request' = [request EXCEPT ![q] = r]
      /\ UNCHANGED <<job, call, object, exec, worker, abort, logSeq, logs, artefacts, crashed>>
  BY DEF Cancel
<1>3. request \in [Cancels -> RequestRecord] /\ Target(q) = NoCall
  BY <1>1, <1>2, RecordTypes, RequestFacts DEF IInv, RequestOK
<1>4. Target(q)' = j
  BY <1>2, <1>3 DEF Target
<1>5. RequestMoves(q)
  BY <1>2, <1>3, <1>4 DEF RequestMoves, Stored
<1>6. QED
  BY <1>1, <1>5, RequestMoveLInv

(* What cancel() writes is a row.                                          *)
LEMMA WritesRow ==
  ASSUME LInv, NEW q \in Cancels, request[q].pc \in {"check", "log", "finish"},
         NEW r, request' = [request EXCEPT ![q] = r], r.id = request[q].id,
         UNCHANGED <<call, object, exec, worker>>,
         \/ UNCHANGED <<job, logSeq, logs>>
         \/ \E o \in Job : \/ Save(Target(q), o) /\ UNCHANGED <<logSeq, logs>>
                           \/ Log(Target(q), o)
  PROVE  RequestMoves(q)
<1>1. /\ IInv /\ request \in [Cancels -> RequestRecord] /\ job \in [Calls -> Job \cup {NoJob}]
      /\ logSeq \in [Calls -> Nat] /\ DOMAIN logs = Calls
  BY RecordTypes DEF LInv, IInv, LogsAreBags
<1>2. PICK j \in Calls : Target(q) = j
  BY <1>1, RequestFacts
<1>3. Target(q)' = j
  BY <1>1, <1>2 DEF Target
<1>4. Stored(j)
  BY <1>2, CallsAssumption DEF LInv
<1>5. CASE UNCHANGED <<job, logSeq, logs>>
  BY <1>1, <1>2, <1>3, <1>4, <1>5 DEF RequestMoves, Stored
<1>6. CASE \E o \in Job : \/ Save(Target(q), o) /\ UNCHANGED <<logSeq, logs>>
                          \/ Log(Target(q), o)
  <2>1. PICK o \in Job : \/ Save(j, o) /\ UNCHANGED <<logSeq, logs>>
                         \/ Log(j, o)
    BY <1>2, <1>6
  <2>2. o.status # "absent"
    BY JobForms, Statuses
  <2>3. job' = [job EXCEPT ![j] = o]
    BY <2>1 DEF Save, Log, Persist
  <2>4. \A i \in Calls : i # j => logs'[i] = logs[i] /\ logSeq'[i] = logSeq[i]
    BY <1>1, <2>1 DEF Log, TakeSeq, Persist
  <2>5. job'[j].status # "absent"
    BY <1>1, <2>2, <2>3
  <2>6. QED
    BY <1>1, <1>2, <1>3, <1>4, <2>3, <2>4, <2>5 DEF RequestMoves
<1>7. QED
  BY <1>5, <1>6

LEMMA CheckCancelLInv ==
  ASSUME LInv, NEW q \in Cancels, CheckCancel(q)
  PROVE  LInv' /\ Steady
<1> DEFINE o == [request[q].job EXCEPT !.cancel = TRUE]
<1>1. IInv /\ IInv' /\ request[q].pc = "check"
  BY CheckCancelIInv DEF LInv, CheckCancel
<1>2. o \in Job
  BY <1>1, RequestFacts, RowChanges DEF RequestOK
<1>3. \E r : /\ request' = [request EXCEPT ![q] = r] /\ r.id = request[q].id
             /\ Save(Target(q), o) \/ job' = job
  <2>1. CASE Answer(q, "refused", NoJob) /\ job' = job
    BY <1>1, <2>1 DEF Answer
  <2>2. CASE Answer(q, "log", o) /\ Save(Target(q), o)
    BY <1>1, <2>2 DEF Answer
  <2>3. QED
    BY <2>1, <2>2 DEF CheckCancel
<1>4. UNCHANGED <<call, object, exec, worker, logSeq, logs>>
  BY DEF CheckCancel
<1> HIDE DEF o
<1>5. RequestMoves(q)
  BY <1>1, <1>2, <1>3, <1>4, WritesRow
<1>6. QED
  BY <1>1, <1>5, RequestMoveLInv

LEMMA LogCancelLInv ==
  ASSUME LInv, NEW q \in Cancels, LogCancel(q)
  PROVE  LInv' /\ Steady
<1>1. IInv /\ IInv' /\ request[q].pc = "log"
  BY LogCancelIInv DEF LInv, LogCancel
<1>2. request[q].job \in Job
  BY <1>1, RequestFacts DEF RequestOK
<1>3. \E r : request' = [request EXCEPT ![q] = r] /\ r.id = request[q].id
  BY <1>1 DEF LogCancel, Answer
<1>4. Log(Target(q), request[q].job) /\ UNCHANGED <<call, object, exec, worker>>
  BY DEF LogCancel
<1>5. RequestMoves(q)
  BY <1>1, <1>2, <1>3, <1>4, WritesRow
<1>6. QED
  BY <1>1, <1>5, RequestMoveLInv

LEMMA FinishCancelLInv ==
  ASSUME LInv, NEW q \in Cancels, FinishCancel(q)
  PROVE  LInv' /\ Steady
<1> DEFINE o == [request[q].job EXCEPT !.status = "cancelled"]
<1>1. IInv /\ IInv' /\ request[q].pc = "finish"
  BY FinishCancelIInv DEF LInv, FinishCancel
<1>2. o \in Job
  BY <1>1, RequestFacts, RowChanges, Statuses DEF RequestOK
<1>3. \E r : request' = [request EXCEPT ![q] = r] /\ r.id = request[q].id
  <2> DEFINE r == [pc |-> "done", id |-> request[q].id, job |-> NoJob]
  <2>1. request' = [request EXCEPT ![q] = r]
    BY DEF FinishCancel, Answer
  <2>2. r.id = request[q].id
    OBVIOUS
  <2> HIDE DEF r
  <2>3. QED
    BY <2>1, <2>2
<1>4. Save(Target(q), o) /\ UNCHANGED <<call, object, exec, worker, logSeq, logs>>
  BY DEF FinishCancel
<1> HIDE DEF o
<1>5. RequestMoves(q)
  BY <1>1, <1>2, <1>3, <1>4, WritesRow
<1>6. QED
  BY <1>1, <1>5, RequestMoveLInv

-----------------------------------------------------------------------------
LEMMA InitLInv ==
  ASSUME Init
  PROVE  LInv
<1>1. IInv
  BY InitIInv
<1>2. \A j \in Calls : Inserted(j)
  BY DEF Init, Inserted, Stored, NoJob
<1>3. \A q \in Cancels : Target(q) = NoCall
  BY DEF Init, Target
<1>4. BagToSet(EmptyBag) = {}
  BY DEF EmptyBag, BagToSet, SetToBag
<1>5. \A j \in Calls : Unused(j)
  BY <1>4 DEF Init, Unused
<1>6. \A c \in Calls : JobOf(c) = NoCall
  BY DEF Init, JobOf
<1>7. QED
  BY <1>1, <1>2, <1>3, <1>5, <1>6 DEF LInv

LEMMA StepLInv ==
  ASSUME LInv, [Next]_vars
  PROVE  LInv' /\ [Steady]_vars
<1>1. CASE UNCHANGED vars
  <2>1. IInv'
    BY <1>1, StepIInv DEF LInv
  <2>2. \A j \in Calls : Undisturbed(j)' <=> Undisturbed(j)
    BY <1>1 DEF vars, Undisturbed, Target, JobOf
  <2>3. \A c \in Calls : /\ JobOf(c)' = JobOf(c) /\ Traced(c)' = Traced(c)
                         /\ Inserted(c)' = Inserted(c) /\ Unused(c)' = Unused(c)
    BY <1>1 DEF vars, JobOf, Traced, Rowed, Inserted, Stored, Unused
  <2>4. \A q \in Cancels : Target(q)' = Target(q) /\ Stored(Target(q))' = Stored(Target(q))
    BY <1>1 DEF vars, Target, Stored
  <2>5. \A c \in Calls : Undisturbed(JobOf(c))' <=> Undisturbed(JobOf(c))
    BY <1>1 DEF vars, Undisturbed, Target, JobOf
  <2>6. QED
    BY <1>1, <2>1, <2>2, <2>3, <2>4, <2>5 DEF LInv
<1>2. ASSUME NEW c \in Calls, CallStep(c)
      PROVE  LInv' /\ Steady
  BY <1>2, LookupLInv, InsertLInv, DispatchLInv, LinkLInv DEF CallStep
<1>3. ASSUME NEW c \in Calls, ExecStep(c)
      PROVE  LInv' /\ Steady
  BY <1>3, StartWorkerLInv, TimeoutLInv, SettleLInv, CloseLInv, ForgetLInv DEF ExecStep
<1>4. ASSUME NEW c \in Calls, WorkerStep(c)
      PROVE  LInv' /\ Steady
  BY <1>4, WorkerLogLInv, WorkerLoggedLInv, WorkerCheckpointLInv, WorkerCallLInv,
     WorkerSaveLInv DEF WorkerStep
<1>5. ASSUME NEW q \in Cancels, RequestStep(q)
      PROVE  LInv' /\ Steady
  BY <1>5, CheckCancelLInv, LogCancelLInv, FinishCancelLInv DEF RequestStep
<1>6. QED
  BY <1>1, <1>2, <1>3, <1>4, <1>5, RetryLInv, CancelLInv DEF Next

LEMMA LogFactsOfJobs ==
  ASSUME LInv
  PROVE  LogNumbersUnique /\ VerdictIsLast
<1>1. ASSUME NEW j \in Calls, Undisturbed(j), NEW n \in BagToSet(logs[j])
      PROVE  logs[j][n] = 1
  <2>1. PICK c \in Calls : JobOf(c) = j
    BY <1>1 DEF LInv, Unused
  <2>2. QED
    BY <1>1, <2>1, CallsAssumption DEF LInv, Traced, Numbers
<1>2. ASSUME NEW c \in Calls, exec[c].pc = "notify", Undisturbed(JobOf(c))
      PROVE  /\ \A n \in BagToSet(logs[JobOf(c)]) : n <= logSeq[JobOf(c)]
             /\ worker[c].seq < logSeq[JobOf(c)]
  <2>1. JobOf(c) # NoCall
    BY <1>2, CallFacts, CallsAssumption DEF LInv, JobOf
  <2>2. QED
    BY <1>2, <2>1 DEF LInv, Traced, Numbers
<1>3. QED
  BY <1>1, <1>2 DEF LogNumbersUnique, VerdictIsLast

(* The log of a job that one execution works on ends with its verdict and  *)
(* repeats no number, although a worker that timed out may still write.    *)
THEOREM VerdictsAreLast == Spec => [](LogNumbersUnique /\ VerdictIsLast)
<1>1. LInv /\ [Next]_vars => LInv'
  BY StepLInv
<1>2. LInv => LogNumbersUnique /\ VerdictIsLast
  BY LogFactsOfJobs
<1>3. QED
  BY <1>1, <1>2, InitLInv, PTL DEF Spec

(* Such a job keeps the status in which it settled.                        *)
THEOREM JobsStaySettled == Spec => SettledStays
<1>1. LInv /\ [Next]_vars => LInv'
  BY StepLInv
<1>2. LInv /\ [Next]_vars =>
        [\A j \in Calls : Settled(j) /\ Undisturbed(j)' => job'[j].status = job[j].status]_vars
  BY StepLInv DEF Steady
<1>3. QED
  BY <1>1, <1>2, InitLInv, PTL DEF Spec, SettledStays

-----------------------------------------------------------------------------
(* The page.  A list that lacks a row of a job will be asked for, or says  *)
(* that it failed or missed an invalidation.                               *)
WillHave(q, j) ==
  \/ q.fetch = "asked"
  \/ q.fetch = "answered" /\ (j \notin q.answer \/ q.joined)
  \/ q.fetch = "idle" /\ (j \notin q.data \/ q.error \/ q.joined)

IsOver(j) == j \in Attempts /\ pageJob[j].status \in Over

(* The console only follows jobs that exist, and knows of no end but that  *)
(* of its job.                                                             *)
ConsoleIsOfJob ==
  /\ \A j \in {active, ask} \ {NoId} : pageJob[j].status # "absent"
  /\ console.fetch # "idle" => active # NoId
  /\ console.fetch \in Over => IsOver(active)
  /\ console.shown \in Over => console.finished
  /\ console.finished => IsOver(active)

PageInv ==
  /\ PageTypeOK
  /\ ConsoleIsOfJob
  /\ console.finished /\ active \notin late => WillHave(list, active)

(* What the operations of a query keep and bring about. *)
LEMMA ListTypes ==
  ASSUME NEW q \in List!Query
  PROVE  /\ List!Serve(q, {}) \in List!Query
         /\ List!Receive(q) \in List!Query /\ List!Lose(q) \in List!Query
         /\ List!Invalidated(q, TRUE) \in List!Query
  BY DEF List!Query, List!Serve, List!Receive, List!Lose, List!Invalidated, List!Ask

LEMMA ListShows ==
  ASSUME NEW q \in List!Query, NEW j
  PROVE  /\ WillHave(List!Serve(q, {}), j)
         /\ q.fetch = "answered" /\ WillHave(q, j) =>
              WillHave(List!Receive(q), j) /\ WillHave(List!Lose(q), j)
         /\ WillHave(List!Invalidated(q, TRUE), j)
  BY DEF List!Query, List!Serve, List!Receive, List!Lose, List!Invalidated, List!Ask, WillHave

LEMMA NoIdIsNone == NoId \notin Attempts
  BY DEF NoId, Attempts

LEMMA PageInvInit == PageInit => PageInv
<1> SUFFICES ASSUME PageInit PROVE PageInv
  OBVIOUS
<1>1. List!Ask(List!Unasked) \in List!Query
  BY DEF List!Query, List!Ask, List!Unasked
<1>2. PageTypeOK
  BY <1>1 DEF PageInit, PageTypeOK, AbsentJob, ConsoleOfNothing, Over
<1>3. QED
  BY <1>2 DEF PageInit, PageInv, ConsoleIsOfJob, ConsoleOfNothing, Over

(* A job stays created, and over.                                          *)
JobsKeep ==
  \A j \in Attempts : /\ pageJob[j].status # "absent" => pageJob'[j].status # "absent"
                      /\ pageJob[j].status \in Over => pageJob'[j].status \in Over

PageJob == [status : {"absent", "running"} \cup Over, at : Nat, told : BOOLEAN]

(* A step of the jobs.  The console may ask again; the list changes as it  *)
(* does for a row or an announcement.                                      *)
LEMMA JobStep ==
  ASSUME PageInv, PageTypeOK', JobsKeep,
         UNCHANGED active, ask' = ask \/ pageJob'[ask'].status # "absent",
         UNCHANGED console \/ (active # NoId /\ RefetchJob),
         late \subseteq late',
         console.finished /\ active \notin late' /\ WillHave(list, active) =>
           WillHave(list', active)
  PROVE  PageInv'
<1>1. /\ console'.finished = console.finished /\ console'.shown = console.shown
      /\ console'.fetch \in {console.fetch, "asked"}
      /\ console'.fetch # "idle" => active # NoId
  BY DEF RefetchJob, PageInv, PageTypeOK, ConsoleIsOfJob
<1>2. \A j : IsOver(j) => IsOver(j)'
  BY DEF JobsKeep, IsOver
<1>3. ConsoleIsOfJob'
  BY <1>1, <1>2 DEF PageInv, PageTypeOK, ConsoleIsOfJob, JobsKeep, Over
<1>4. QED
  BY <1>1, <1>3 DEF PageInv, WillHave

(* The next step of a job or its end.                                      *)
LEMMA StatusStep ==
  ASSUME PageTypeOK, NEW j \in Attempts,
         \/ Goes(j) \/ GivesUp(j)
         \/ Running(j) /\ (Ends(j, "failed") \/ Ends(j, "completed"))
         \/ Running(j) /\ pageJob' = [pageJob EXCEPT ![j].status = "failed"]
         \/ pageJob' = [pageJob EXCEPT ![j].told = TRUE]
         \/ pageJob[j].status = "absent"
              /\ pageJob' = [pageJob EXCEPT ![j] = [AbsentJob EXCEPT !.status = "running", !.at = 1]]
  PROVE  pageJob' \in [Attempts -> PageJob] /\ JobsKeep
<1>1. pageJob \in [Attempts -> PageJob] /\ pageJob[j] \in PageJob
  BY DEF PageTypeOK, PageJob
<1>2. CASE Goes(j)
  BY <1>1, <1>2 DEF Goes, PageJob, JobsKeep
<1>3. CASE GivesUp(j)
  BY <1>1, <1>3 DEF GivesUp, PageJob, JobsKeep
<1>4. CASE Running(j) /\ (Ends(j, "failed") \/ Ends(j, "completed"))
  BY <1>1, <1>4 DEF Running, Ends, PageJob, JobsKeep, Over
<1>5. CASE Running(j) /\ pageJob' = [pageJob EXCEPT ![j].status = "failed"]
  BY <1>1, <1>5 DEF Running, PageJob, JobsKeep, Over
<1>6. CASE pageJob' = [pageJob EXCEPT ![j].told = TRUE]
  BY <1>1, <1>6 DEF PageJob, JobsKeep
<1>7. CASE /\ pageJob[j].status = "absent"
           /\ pageJob' = [pageJob EXCEPT ![j] = [AbsentJob EXCEPT !.status = "running", !.at = 1]]
  BY <1>1, <1>7 DEF AbsentJob, PageJob, JobsKeep, Over
<1>8. QED
  BY <1>2, <1>3, <1>4, <1>5, <1>6, <1>7

LEMMA PageInvNext == PageInv /\ [PageNext]_pageVars => PageInv'
<1> SUFFICES ASSUME PageInv, [PageNext]_pageVars PROVE PageInv'
  OBVIOUS
<1>0. PageTypeOK /\ list \in List!Query
  BY DEF PageInv, PageTypeOK
<1>t. \A q \in {list, List!Invalidated(list, TRUE)} :
        q \in List!Query /\ (WillHave(list, active) => WillHave(q, active))
  BY <1>0, ListTypes, ListShows
<1>1. ASSUME NEW j \in Attempts, LogStep(j) \/ CallEngine(j) \/ Return(j) \/ TimeOut(j)
      PROVE  PageInv'
  <2>1. pageJob' \in [Attempts -> PageJob] /\ JobsKeep
    BY <1>0, <1>1, StatusStep DEF LogStep, CallEngine, Return, TimeOut
  <2>2. UNCHANGED <<kind, late, active, ask, console, list>>
    BY <1>1 DEF LogStep, CallEngine, Return, TimeOut
  <2>3. PageTypeOK'
    BY <1>0, <2>1, <2>2 DEF PageTypeOK, PageJob
  <2>4. QED
    BY <2>1, <2>2, <2>3, JobStep
<1>2. ASSUME NEW j \in Attempts, SaveRow(j) PROVE PageInv'
  <2>1. pageJob' \in [Attempts -> PageJob] /\ JobsKeep
    BY <1>0, <1>2, StatusStep DEF SaveRow
  <2>2. UNCHANGED <<kind, active, ask, console>> /\ late' \in {late, late \cup {j}}
    BY <1>2 DEF SaveRow
  <2>3. list' \in List!Query
    BY <1>0, <1>2 DEF SaveRow, Lacking, List!Query
  <2>4. PageTypeOK'
    BY <1>0, <2>1, <2>2, <2>3 DEF PageTypeOK, PageJob
  <2>5. ASSUME console.finished, active \notin late', WillHave(list, active)
        PROVE  WillHave(list', active)
    <3>1. j # active
      BY <1>2, <2>5 DEF PageInv, ConsoleIsOfJob, IsOver, SaveRow, Running, Over
    <3>2. QED
      BY <1>0, <1>2, <2>5, <3>1 DEF SaveRow, Lacking, List!Query, WillHave
  <2>6. QED
    BY <2>1, <2>2, <2>4, <2>5, JobStep
<1>3. ASSUME NEW j \in Attempts, EmitReady(j) PROVE PageInv'
  <2>1. pageJob' \in [Attempts -> PageJob] /\ JobsKeep
    BY <1>0, <1>3, StatusStep DEF EmitReady
  <2>2. UNCHANGED <<kind, late, active, ask, console>>
    BY <1>3 DEF EmitReady
  <2>3. list' \in List!Query /\ (WillHave(list, active) => WillHave(list', active))
    BY <1>3, <1>t DEF EmitReady, OnReady
  <2>4. PageTypeOK'
    BY <1>0, <2>1, <2>2, <2>3 DEF PageTypeOK, PageJob
  <2>5. QED
    BY <2>1, <2>2, <2>3, <2>4, JobStep
<1>4. ASSUME NEW j \in Attempts, AnnounceEnd(j) PROVE PageInv'
  <2>1. pageJob' \in [Attempts -> PageJob] /\ JobsKeep
    BY <1>0, <1>4, StatusStep DEF AnnounceEnd
  <2>2. UNCHANGED <<kind, late, active, ask>>
    BY <1>4 DEF AnnounceEnd
  <2>3. list' \in List!Query /\ (WillHave(list, active) => WillHave(list', active))
    BY <1>4, <1>t DEF AnnounceEnd, OnReady
  <2>4. UNCHANGED console \/ (active # NoId /\ RefetchJob)
    BY <1>4, NoIdIsNone DEF AnnounceEnd, OnJobOver
  <2>5. console' \in [shown : {"loading", "running"} \cup Over,
                      fetch : {"idle", "asked", "running"} \cup Over, finished : BOOLEAN]
    BY <1>0, <2>4 DEF PageTypeOK, RefetchJob
  <2>6. PageTypeOK'
    BY <1>0, <2>1, <2>2, <2>3, <2>5 DEF PageTypeOK, PageJob
  <2>7. QED
    BY <2>1, <2>2, <2>3, <2>4, <2>6, JobStep
<1>5. CASE Create
  <2>1. PICK j \in UnusedJobs :
          /\ pageJob' = [pageJob EXCEPT ![j] = [AbsentJob EXCEPT !.status = "running", !.at = 1]]
          /\ ask' = j /\ UNCHANGED <<kind, late, active, console, list>>
    BY <1>5 DEF Create
  <2>2. j \in Attempts /\ pageJob[j].status = "absent"
    BY DEF UnusedJobs
  <2>3. pageJob' \in [Attempts -> PageJob] /\ JobsKeep
    BY <1>0, <2>1, <2>2, StatusStep
  <2>4. PageTypeOK'
    BY <1>0, <2>1, <2>2, <2>3 DEF PageTypeOK, PageJob
  <2>5. pageJob'[ask'].status # "absent"
    BY <1>0, <2>1, <2>2 DEF PageTypeOK, AbsentJob
  <2>6. QED
    BY <2>1, <2>3, <2>4, <2>5, JobStep
<1>6. CASE Created
  <2>1. PageTypeOK'
    BY <1>0, <1>6 DEF Created, Follow, PageTypeOK, pageJobVars
  <2>2. QED
    BY <1>6, <2>1 DEF Created, Follow, PageInv, ConsoleIsOfJob, pageJobVars, Over
<1>7. CASE LoseCreated
  <2>1. PageTypeOK'
    BY <1>0, <1>7 DEF LoseCreated, PageTypeOK, pageJobVars
  <2>2. QED
    BY <1>7, <2>1 DEF LoseCreated, PageInv, ConsoleIsOfJob, IsOver, WillHave, pageJobVars
<1>8. CASE PressCancel \/ Poll
  <2>1. /\ UNCHANGED <<kind, pageJob, late, active, ask, list>>
        /\ UNCHANGED console \/ (active # NoId /\ RefetchJob)
    BY <1>8 DEF PressCancel, Poll, RefetchJob, pageJobVars
  <2>2. PageTypeOK'
    BY <1>0, <2>1 DEF PageTypeOK, RefetchJob
  <2>3. QED
    BY <2>1, <2>2, JobStep DEF JobsKeep
<1>9. CASE ServeJob
  <2>1. active \in Attempts /\ pageJob[active].status # "absent"
    BY <1>9 DEF ServeJob, PageInv, PageTypeOK, ConsoleIsOfJob
  <2>2. PageTypeOK'
    BY <1>0, <1>9, <2>1 DEF ServeJob, PageTypeOK, pageJobVars
  <2>3. QED
    BY <1>0, <1>9, <2>1, <2>2
       DEF ServeJob, PageInv, PageTypeOK, ConsoleIsOfJob, IsOver, WillHave, pageJobVars, Over
<1>10. CASE ReceiveJob
  <2>1. list' \in List!Query
    BY <1>0, <1>10, ListTypes DEF ReceiveJob
  <2>2. PageTypeOK'
    BY <1>0, <1>10, <2>1 DEF ReceiveJob, PageTypeOK, pageJobVars
  <2>3. ConsoleIsOfJob'
    BY <1>0, <1>10 DEF ReceiveJob, PageInv, PageTypeOK, ConsoleIsOfJob, IsOver, pageJobVars, Over
  <2>4. console'.finished /\ active' \notin late' => WillHave(list', active')
    BY <1>0, <1>10, ListShows DEF ReceiveJob, PageInv, PageTypeOK, pageJobVars, WillHave
  <2>5. QED
    BY <2>2, <2>3, <2>4 DEF PageInv, WillHave
<1>11. CASE LoseJob
  <2>1. PageTypeOK'
    BY <1>0, <1>11 DEF LoseJob, PageTypeOK, pageJobVars
  <2>2. QED
    BY <1>0, <1>11, <2>1
       DEF LoseJob, PageInv, PageTypeOK, ConsoleIsOfJob, IsOver, WillHave, pageJobVars, Over
<1>12. CASE ServeList \/ ReceiveList \/ LoseList
  <2>1. UNCHANGED <<kind, pageJob, late, active, ask, console>>
    BY <1>12 DEF ServeList, ReceiveList, LoseList, pageJobVars
  <2>2. list' \in List!Query /\ (WillHave(list, active) => WillHave(list', active))
    BY <1>0, <1>12, ListTypes, ListShows DEF ServeList, ReceiveList, LoseList
  <2>3. PageTypeOK'
    BY <1>0, <2>1, <2>2 DEF PageTypeOK
  <2>4. QED
    BY <2>1, <2>2, <2>3, JobStep DEF JobsKeep
<1>13. CASE UNCHANGED pageVars
  BY <1>0, <1>13, JobStep DEF pageVars, JobsKeep, PageTypeOK
<1>14. QED
  BY <1>1, <1>2, <1>3, <1>4, <1>5, <1>6, <1>7, <1>8, <1>9, <1>10, <1>11, <1>12, <1>13
     DEF PageNext, PressGenerate, PressRetry

(* A page whose console shows the end of its job, and whose list is at     *)
(* rest, has all rows of the job but those saved after its end: the        *)
(* console asks for the list when it first sees the end (onFinished), and  *)
(* a list that could not be asked for says so.                             *)
THEOREM FinishedListsAreFresh == PageSpec => []FinishedListIsFresh
<1>1. PageInv => FinishedListIsFresh
  BY DEF PageInv, ConsoleIsOfJob, WillHave, FinishedListIsFresh, List!Settled
<1>2. PageSpec => []PageInv
  BY PageInvInit, PageInvNext, PTL DEF PageSpec
<1>3. QED
  BY <1>1, <1>2, PTL

-----------------------------------------------------------------------------
(* The bell.  What was answered to a mark is read for good, and a query    *)
(* that still has it as unread will be asked for, or says that it is old.  *)
NotesAreDense == \E k \in 0..MaxNotes : StoredNotes = 1..k

SourcesCount ==
  /\ source \in [Sources -> [state : {"active", "telling", "emitting", "done"}, left : 0..2]]
  /\ \A s \in Sources : source[s].state \in {"telling", "emitting"} => source[s].left > 0

Without(set, read) == set \cap read = {}
WillForget(q, looked, read) ==
  \/ q.fetch = "asked"
  \/ q.fetch = "answered" /\ (Without(q.answer, read) \/ q.joined)
  \/ /\ q.fetch = "idle"
     /\ Without(q.data, read) \/ ~q.known \/ q.error \/ q.joined \/ (~looked /\ q.invalid)

(* Only what is stored is shown and marked.                                *)
Holds(q, set) == q.data \subseteq set /\ q.answer \subseteq set
ShownAreStored ==
  /\ Holds(panel, StoredNotes)
  /\ \A n \in Notes : mark[n] # "idle" => n \in StoredNotes

BellInv ==
  /\ NoteTypeOK /\ SourcesCount /\ NotesAreDense /\ ShownAreStored
  /\ \A n \in acked : note[n] = "read"
  /\ WillForget(count, TRUE, acked) /\ WillForget(panel, open, acked)

LEMMA BellQueryTypes ==
  ASSUME NEW q \in Q!Query, NEW set \in SUBSET Notes, NEW looked \in BOOLEAN
  PROVE  /\ Q!Serve(q, set) \in Q!Query /\ Q!Receive(q) \in Q!Query /\ Q!Lose(q) \in Q!Query
         /\ Q!Invalidated(q, looked) \in Q!Query /\ Q!AskIfIdle(q) \in Q!Query
  BY DEF Q!Query, Q!Serve, Q!Receive, Q!Lose, Q!Invalidated, Q!Ask, Q!AskIfIdle

LEMMA BellForgets ==
  ASSUME NEW q \in Q!Query, NEW set \in SUBSET Notes, NEW looked \in BOOLEAN, NEW read
  PROVE  /\ Without(set, read) => WillForget(Q!Serve(q, set), looked, read)
         /\ q.fetch = "answered" /\ WillForget(q, looked, read) =>
              WillForget(Q!Receive(q), looked, read) /\ WillForget(Q!Lose(q), looked, read)
         /\ q.fetch = "idle" => WillForget(Q!AskIfIdle(q), looked, read)
         /\ WillForget(Q!Invalidated(q, looked), looked, read)
  BY DEF Q!Query, Q!Serve, Q!Receive, Q!Lose, Q!Invalidated, Q!Ask, Q!AskIfIdle, WillForget

LEMMA BellHolds ==
  ASSUME NEW q \in Q!Query, NEW looked \in BOOLEAN, NEW all, Holds(q, all)
  PROVE  /\ \A set \in SUBSET all : Holds(Q!Serve(q, set), all)
         /\ Holds(Q!Receive(q), all) /\ Holds(Q!Lose(q), all)
         /\ Holds(Q!Invalidated(q, looked), all) /\ Holds(Q!AskIfIdle(q), all)
  BY DEF Q!Query, Q!Serve, Q!Receive, Q!Lose, Q!Invalidated, Q!Ask, Q!AskIfIdle, Holds

LEMMA NextNoteIsFree ==
  ASSUME MaxNotes \in Nat, NEW k \in 0..MaxNotes, StoredNotes = 1..k, Free # {}
  PROVE  k < MaxNotes /\ Min(Free) = k + 1
<1>1. Free = (k + 1)..MaxNotes /\ k < MaxNotes
  BY DEF Free, Notes
<1>2. k + 1 \in Free /\ \A m \in Free : k + 1 <= m
  BY <1>1
<1>3. \A m \in Free : (\A n \in Free : m <= n) => m = k + 1
  BY <1>1, <1>2
<1>4. QED
  BY <1>1, <1>2, <1>3 DEF Min

LEMMA BellInvInit == MaxNotes \in Nat /\ NoteInit => BellInv
<1> SUFFICES ASSUME MaxNotes \in Nat, NoteInit PROVE BellInv
  OBVIOUS
<1>1. /\ Q!Ask(Q!Unasked) \in Q!Query /\ Q!Unasked \in Q!Query
      /\ Q!Ask(Q!Unasked).fetch = "asked" /\ Q!Unasked.fetch = "idle" /\ ~Q!Unasked.known
  BY DEF Q!Query, Q!Ask, Q!Unasked
<1>2. StoredNotes = 1..0 /\ NotesAreDense
  BY DEF NoteInit, StoredNotes, NotesAreDense
<1>3. NoteTypeOK
  <2>1. count \in Q!Query /\ panel \in Q!Query
    BY <1>1 DEF NoteInit
  <2>2. /\ \A s \in Sources : source[s] = [state |-> "active", left |-> 0]
        /\ note \in [Notes -> {"absent", "unread", "read"}]
        /\ mark \in [Marks -> {"idle", "asked", "answered"}]
        /\ open \in BOOLEAN /\ acked \subseteq Notes
    BY DEF NoteInit
  <2>3. QED
    BY <2>1, <2>2 DEF NoteTypeOK
<1>4. SourcesCount
  BY DEF NoteInit, SourcesCount
<1>5. Q!Unasked.data = {} /\ Q!Unasked.answer = {}
  BY DEF Q!Unasked
<1>6. ShownAreStored
  BY <1>5 DEF NoteInit, ShownAreStored, Holds, Marks
<1>7. QED
  BY <1>1, <1>2, <1>3, <1>4, <1>6 DEF NoteInit, BellInv, WillForget

(* A step of the queries.                                                  *)
LEMMA BellQueryStep ==
  ASSUME BellInv, UNCHANGED <<source, note, mark, acked>>, open' \in BOOLEAN,
         count' \in Q!Query, panel' \in Q!Query,
         WillForget(count', TRUE, acked), WillForget(panel', open', acked),
         Holds(panel', StoredNotes)
  PROVE  BellInv'
  BY DEF BellInv, NoteTypeOK, SourcesCount, NotesAreDense, ShownAreStored, StoredNotes

(* A step of the notifications, of their sources and of the marks.         *)
LEMMA BellNoteStep ==
  ASSUME BellInv, UNCHANGED <<count, panel, open, acked>>,
         SourcesCount', NotesAreDense',
         mark' \in [Marks -> {"idle", "asked", "answered"}],
         note' \in [Notes -> {"absent", "unread", "read"}],
         \A n \in Notes : note[n] = "read" => note'[n] = "read",
         StoredNotes \subseteq StoredNotes',
         \A n \in Notes : mark'[n] # "idle" => n \in StoredNotes
  PROVE  BellInv'
<1>1. ShownAreStored'
  BY DEF BellInv, ShownAreStored, Holds
<1>2. QED
  BY <1>1 DEF BellInv, NoteTypeOK, SourcesCount

(* A source that has notifications to leave leaves one.                    *)
LEMMA SourcesCountNext ==
  ASSUME SourcesCount, NEW s \in Sources,
         \/ source[s].state \in {"telling", "emitting"} /\ Told(s)
         \/ source[s].state = "telling" /\ SourceIs(s, "emitting", source[s].left)
         \/ SourceIs(s, "telling", 1) \/ SourceIs(s, "telling", 2) \/ SourceIs(s, "done", 0)
  PROVE  SourcesCount'
<1>1. \A state \in {"telling", "emitting"}, left \in 1..2 :
        SourceIs(s, state, left) => SourcesCount'
  BY DEF SourcesCount, SourceIs
<1>2. SourceIs(s, "done", 0) => SourcesCount'
  BY DEF SourcesCount, SourceIs
<1>3. source[s].left \in 0..2
  BY DEF SourcesCount
<1>4. CASE source[s].state \in {"telling", "emitting"} /\ Told(s)
  <2>1. source[s].left \in 1..2
    BY <1>3, <1>4 DEF SourcesCount
  <2>2. SourceIs(s, "done", 0) \/ (source[s].left = 2 /\ SourceIs(s, "telling", 1))
    BY <1>4, <2>1 DEF Told
  <2>3. QED
    BY <1>1, <1>2, <2>2
<1>5. CASE source[s].state = "telling" /\ SourceIs(s, "emitting", source[s].left)
  <2>1. source[s].left \in 1..2
    BY <1>3, <1>5 DEF SourcesCount
  <2>2. QED
    BY <1>1, <1>5, <2>1
<1>6. QED
  BY <1>1, <1>2, <1>4, <1>5

LEMMA StoredMarks ==
  ASSUME BellInv, UNCHANGED note
  PROVE  /\ NotesAreDense' /\ StoredNotes' = StoredNotes
         /\ note' \in [Notes -> {"absent", "unread", "read"}]
         /\ \A n \in Notes : note[n] = "read" => note'[n] = "read"
  BY DEF BellInv, NoteTypeOK, NotesAreDense, StoredNotes

LEMMA BellInvNext == MaxNotes \in Nat /\ BellInv /\ [NoteNext]_noteVars => BellInv'
<1> SUFFICES ASSUME MaxNotes \in Nat, BellInv, [NoteNext]_noteVars PROVE BellInv'
  OBVIOUS
<1>0. /\ count \in Q!Query /\ panel \in Q!Query /\ open \in BOOLEAN
      /\ note \in [Notes -> {"absent", "unread", "read"}]
      /\ mark \in [Marks -> {"idle", "asked", "answered"}]
      /\ WillForget(count, TRUE, acked) /\ WillForget(panel, open, acked)
      /\ SourcesCount /\ NotesAreDense /\ Holds(panel, StoredNotes)
      /\ \A n \in Notes : mark[n] # "idle" => n \in StoredNotes
  BY DEF BellInv, NoteTypeOK, ShownAreStored
<1>1. ASSUME NEW s \in Sources, Finish(s) PROVE BellInv'
  <2>1. SourcesCount' /\ UNCHANGED <<note, count, panel, open, mark, acked>>
    BY <1>0, <1>1, SourcesCountNext DEF Finish
  <2>2. QED
    BY <1>0, <2>1, StoredMarks, BellNoteStep
<1>2. ASSUME NEW s \in Sources, Notify(s) PROVE BellInv'
  <2>1. SourcesCount' /\ UNCHANGED <<count, panel, open, mark, acked>>
    BY <1>0, <1>2, SourcesCountNext DEF Notify
  <2>2. CASE UNCHANGED note
    BY <1>0, <2>1, <2>2, StoredMarks, BellNoteStep
  <2>3. CASE Free # {} /\ note' = [note EXCEPT ![Min(Free)] = "unread"]
    <3>1. PICK k \in 0..MaxNotes : StoredNotes = 1..k
      BY <1>0 DEF NotesAreDense
    <3>2. k < MaxNotes /\ Min(Free) = k + 1
      BY <2>3, <3>1, NextNoteIsFree
    <3>3. k + 1 \in Notes /\ k + 1 \notin StoredNotes
      BY <3>1, <3>2 DEF Notes
    <3>4. note' = [note EXCEPT ![k + 1] = "unread"] /\ note[k + 1] = "absent"
      BY <2>3, <3>2, <3>3 DEF StoredNotes
    <3>5. StoredNotes' = StoredNotes \cup {k + 1}
      BY <1>0, <3>3, <3>4 DEF StoredNotes
    <3>6. StoredNotes' = 1..(k + 1) /\ k + 1 \in 0..MaxNotes
      BY <3>1, <3>2, <3>5
    <3>7. NotesAreDense' /\ StoredNotes \subseteq StoredNotes'
      BY <3>5, <3>6 DEF NotesAreDense
    <3>8. QED
      BY <1>0, <2>1, <3>3, <3>4, <3>7, BellNoteStep
  <2>4. QED
    BY <1>2, <2>2, <2>3 DEF Notify
<1>3. ASSUME Invalidate, UNCHANGED open, NEW read
      PROVE  /\ count' \in Q!Query /\ panel' \in Q!Query
             /\ WillForget(count', TRUE, read) /\ WillForget(panel', open', read)
             /\ Holds(panel', StoredNotes)
  BY <1>0, <1>3, BellQueryTypes, BellForgets, BellHolds DEF Invalidate
<1>4. ASSUME NEW s \in Sources, EmitNotification(s) PROVE BellInv'
  <2>1. SourcesCount' /\ UNCHANGED <<note, open, mark, acked>>
    BY <1>0, <1>4, SourcesCountNext DEF EmitNotification
  <2>2. /\ count' \in Q!Query /\ panel' \in Q!Query
        /\ WillForget(count', TRUE, acked) /\ WillForget(panel', open', acked)
        /\ Holds(panel', StoredNotes)
    BY <1>0, <1>3, <1>4 DEF EmitNotification
  <2>3. QED
    BY <1>0, <2>1, <2>2, StoredMarks DEF BellInv, NoteTypeOK, SourcesCount, ShownAreStored
<1>5. CASE PollCount
  BY <1>0, <1>5, BellQueryStep, BellQueryTypes, BellForgets DEF PollCount
<1>6. CASE ServeCount
  <2>1. Unread \in SUBSET Notes /\ Without(Unread, acked)
    BY DEF Unread, BellInv, Without
  <2>2. QED
    BY <1>0, <1>6, <2>1, BellQueryStep, BellQueryTypes, BellForgets DEF ServeCount
<1>7. CASE ReceiveCount \/ LoseCount
  BY <1>0, <1>7, BellQueryStep, BellQueryTypes, BellForgets DEF ReceiveCount, LoseCount
<1>8. CASE OpenPanel
  <2>1. UNCHANGED <<source, note, mark, acked, count>> /\ ~open /\ open' = TRUE
    BY <1>8 DEF OpenPanel
  <2>2. panel' \in Q!Query /\ Holds(panel', StoredNotes)
    BY <1>0, <1>8, BellQueryTypes, BellHolds DEF OpenPanel
  <2>3. panel.fetch # "idle" => WillForget(panel, TRUE, acked) /\ Q!AskIfIdle(panel) = panel
    BY <1>0 DEF WillForget, Q!AskIfIdle
  <2>4. ~panel.invalid => WillForget(panel, TRUE, acked)
    BY <1>0 DEF WillForget
  <2>5. panel.fetch = "idle" => WillForget(Q!AskIfIdle(panel), TRUE, acked)
    BY <1>0, BellForgets
  <2>6. WillForget(panel', TRUE, acked)
    BY <1>8, <2>3, <2>4, <2>5 DEF OpenPanel
  <2>7. QED
    BY <1>0, <2>1, <2>2, <2>6, BellQueryStep
<1>9. CASE ClosePanel
  BY <1>0, <1>9, BellQueryStep DEF ClosePanel, WillForget
<1>10. CASE ServePanel
  <2>1. /\ Newest \cap Unread \in SUBSET Notes /\ Without(Newest \cap Unread, acked)
        /\ Newest \cap Unread \in SUBSET StoredNotes
    BY DEF Unread, Newest, StoredNotes, BellInv, Without
  <2>2. QED
    BY <1>0, <1>10, <2>1, BellQueryStep, BellQueryTypes, BellForgets, BellHolds DEF ServePanel
<1>11. CASE ReceivePanel \/ LosePanel
  <2>1. /\ UNCHANGED <<source, note, count, open, mark, acked>> /\ panel.fetch = "answered"
        /\ panel' \in {Q!Receive(panel), Q!Lose(panel)}
    BY <1>11 DEF ReceivePanel, LosePanel
  <2>2. Q!Receive(panel) \in Q!Query /\ Q!Lose(panel) \in Q!Query
    BY <1>0, BellQueryTypes
  <2>3. Holds(Q!Receive(panel), StoredNotes) /\ Holds(Q!Lose(panel), StoredNotes)
    BY <1>0, BellHolds
  <2>4. WillForget(Q!Receive(panel), open, acked) /\ WillForget(Q!Lose(panel), open, acked)
    BY <1>0, <2>1, BellForgets
  <2>5. QED
    BY <1>0, <2>1, <2>2, <2>3, <2>4, BellQueryStep
<1>12. ASSUME NEW m \in Marks,
              PressAll \/ LoseMark(m) \/ \E n \in Notes : PressRead(n)
       PROVE  BellInv'
  <2>1. UNCHANGED <<source, note, count, panel, open, acked>>
    BY <1>12 DEF PressAll, PressRead, LoseMark
  <2>2. /\ mark' \in [Marks -> {"idle", "asked", "answered"}]
        /\ \A n \in Notes : mark'[n] # "idle" => n \in StoredNotes
    BY <1>0, <1>12 DEF PressAll, PressRead, LoseMark, MarkIs, Holds, AllNotes, Notes, Marks
  <2>3. QED
    BY <1>0, <2>1, <2>2, StoredMarks, BellNoteStep DEF SourcesCount
<1>13. ASSUME MarkAllRead \/ \E n \in Notes : MarkRead(n) PROVE BellInv'
  <2>1. UNCHANGED <<source, count, panel, open, acked>>
    BY <1>13 DEF MarkAllRead, MarkRead
  <2>2. /\ mark' \in [Marks -> {"idle", "asked", "answered"}]
        /\ \A n \in Notes : mark'[n] # "idle" => n \in StoredNotes
    BY <1>0, <1>13 DEF MarkAllRead, MarkRead, MarkIs, AllNotes, Notes, Marks
  <2>3. /\ note' \in [Notes -> {"absent", "unread", "read"}]
        /\ \A n \in Notes : note[n] = "read" => note'[n] = "read"
        /\ \A n \in Notes : note'[n] = "absent" <=> note[n] = "absent"
    <3>1. CASE MarkAllRead
      BY <1>0, <3>1 DEF MarkAllRead, Unread
    <3>2. CASE \E n \in Notes : MarkRead(n)
      <4>1. PICK n \in Notes : note' = [note EXCEPT ![n] = "read"] /\ mark[n] = "asked"
        BY <3>2 DEF MarkRead
      <4>2. note[n] # "absent"
        BY <1>0, <4>1 DEF StoredNotes
      <4>3. QED
        BY <1>0, <4>1, <4>2
    <3>3. QED
      BY <1>13, <3>1, <3>2
  <2>4. SourcesCount' /\ NotesAreDense' /\ StoredNotes \subseteq StoredNotes'
    BY <1>0, <2>1, <2>3 DEF SourcesCount, NotesAreDense, StoredNotes
  <2>5. QED
    BY <2>1, <2>2, <2>3, <2>4, BellNoteStep
<1>14. ASSUME NEW m \in Marks, Marked(m) PROVE BellInv'
  <2>1. /\ UNCHANGED <<source, note, open>> /\ MarkIs(m, "idle")
        /\ acked' = {n \in Notes : note[n] = "read"}
        /\ count' \in Q!Query /\ panel' \in Q!Query
        /\ WillForget(count', TRUE, acked') /\ WillForget(panel', open', acked')
        /\ Holds(panel', StoredNotes)
    BY <1>3, <1>14 DEF Marked, Refresh
  <2>2. /\ mark' \in [Marks -> {"idle", "asked", "answered"}]
        /\ \A n \in Notes : mark'[n] # "idle" => n \in StoredNotes
    BY <1>0, <2>1 DEF MarkIs
  <2>3. QED
    BY <1>0, <2>1, <2>2, StoredMarks DEF BellInv, NoteTypeOK, SourcesCount, ShownAreStored
<1>15. CASE UNCHANGED noteVars
  BY <1>0, <1>15, BellQueryStep DEF noteVars
<1>16. AllNotes \in Marks
  BY DEF Marks
<1>17. QED
  BY <1>1, <1>2, <1>4, <1>5, <1>6, <1>7, <1>8, <1>9, <1>10, <1>11, <1>12, <1>13, <1>14, <1>15,
     <1>16 DEF NoteNext

(* What is marked as read is neither counted nor shown as unread any more  *)
(* when the refetch that the mark has asked for is answered, whichever     *)
(* polls and envelopes it races, for any number of notifications and marks *)
(* and any length of the list (onSuccess of the mutations).                *)
THEOREM ReadNotesStayRead ==
  ASSUME MaxNotes \in Nat
  PROVE  NoteSpec => []MarksAreSeen
<1>1. BellInv => MarksAreSeen
  BY DEF BellInv, NoteTypeOK, WillForget, Without, MarksAreSeen, Q!Settled, Q!Query
<1>2. NoteSpec => []BellInv
  BY BellInvInit, BellInvNext, PTL DEF NoteSpec
<1>3. QED
  BY <1>1, <1>2, PTL
=============================================================================
